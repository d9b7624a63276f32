SPECIFICATION ReplaySpec
CONSTANTS
 Inputs={up}
 Cartridges={game}
 Misplaced={}
 NoCartridge=none
 Faulting={2}
 Period=2
 MaxInt=2
 MaxSteps=3
 MaxEvents=3
INVARIANTS PushesIntoArray
CHECK_DEADLOCK FALSE
