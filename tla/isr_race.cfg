SPECIFICATION IsrSpec
CONSTANTS
  Sources = {"Command"}
  DeviceSources = {"Command"}
  MaxTime = 0
  MaxRaised = 1
  Modes = {FALSE}
  WordSize = 4
  Period = 2
  Enables = {{}, {"Command"}}
INVARIANTS
  LinesSettle
CHECK_DEADLOCK FALSE
