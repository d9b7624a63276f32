---------------------------- MODULE MCSimulator ----------------------------
(* The simulated machine and its debug window, model-checked one part after   *)
(* another: the initial state chooses the processor with its cache, the       *)
(* instructions, the memory, the video, the run control of the window, the    *)
(* recording with its replay, the listing, how it is made of a program's      *)
(* sources, the memory view, or the sample game that comes with the machine,  *)
(* and the others stand still.                                                *)
EXTENDS Cpu, Instructions, MemoryMap, Video, Console, Replay, Listing, MCSources, MemoryBox, Game

VARIABLE part

Parts ==
    {"cpu", "instructions", "memory", "video", "console", "replay", "listing", "sources", "box", "game"}
guestVars == <<cpuVars, instructionVars, mapVars, videoVars>>
debugVars == <<consoleVars, replayVars, listingVars, sourceVars, boxVars>>
simulatorVars == <<part, guestVars, debugVars, gameVars>>

(* Words 0 to 2 are the firmware's flash, 4 and 5 the cartridge's, and 8 to   *)
(* 10 RAM, with the trap handler there. One program is left by mret alone,    *)
(* the other one traps in the handler.                                        *)
McTargets == [j4 |-> 4, oddjump |-> Odd, j11 |-> 11, j0 |-> 0]
McMapped == (0..2) \cup (4..5) \cup (8..10)
Placed(program) == [a \in McMapped |-> program[a + 1]]
McPrograms ==
    {Placed(<<"unmask", "enable", "j4", "", "patch", "ecall", "", "", "plain", "mret", "j0">>),
     Placed(<<"unmask", "enable", "j4", "", "illegal", "oddjump", "", "", "badload", "mret", "j0">>)}

(* RAM, flash and a block of three registers, and addresses between them      *)
McDeviceSizes == [r \in 0..2 |-> <<4, 4, 12>>[r + 1]]
McTried == (0..4) \cup (11..16) \cup (23..36) \cup {38}
McPatterns == {<<1>>, <<1, 0>>, <<0, 1, 1>>, <<1, 0, 1, 0>>, <<1, 1, 1, 1, 0, 1>>}

(* On the screen, partly on it, beside it and beyond what a field can hold    *)
McPositions == {<<-63, 287>>, <<511, -15>>, <<512, 30>>, <<30, 460>>}
McTexts == {<<1>>, <<2, 1>>, <<2, 2, 1, 2>>}

(* Two firmwares, of different lengths, and a cartridge behind them           *)
McFirmwarePrograms ==
    {[lines |-> <<Source, 0>>, labels |-> <<<<"start", 0>>>>],
     [lines |-> <<0, Source, 2>>, labels |-> <<<<"main", 0>>, <<"loop", 2>>>>]}
McCartridgePrograms == {[lines |-> <<4, Source, 5>>, labels |-> <<<<"game", 4>>>>]}

(* Three regions, with gaps between them, of more lines than there are labels *)
McRegions == <<<<0, 3>>, <<8, 2>>, <<16, 4>>>>

(* A bird of one dot between two pillars that leave it two rows               *)
McScreen == <<2, 8>>
McBirdStart == <<0, 5>>
McBirdSize == <<1, 1>>
McDirections == {<<0, 0>>, <<1, -1>>}

(* A part that stands still does so in one of its initial states; the memory  *)
(* has not been made then and the sources are not read, so that their         *)
(* properties are not checked again.                                          *)
SourcesNotRead ==
    /\ object = <<>> /\ stage = "units" /\ unitAt = 0 /\ regs = <<>> /\ table = <<>> /\ encoded = 0
    /\ lineBytes = <<>> /\ unitRows = <<>> /\ unitsRead = <<>> /\ symbolsLeft = <<>>
    /\ fileLines = <<>> /\ displayed = <<>>
    /\ translations = <<>> /\ sourceStrings = <<>> /\ sourceLabels = <<>>
    /\ fileAt = 0 /\ rowAt = 0 /\ sectionAt = 0 /\ currentAddress = 0 /\ lastWasEmpty = FALSE
MapNotMade == bytes = <<>> /\ flat = <<>> /\ scratch = <<>> /\ overrun = TRUE /\ odd = FALSE /\ stores = 0

SimulatorInit ==
    /\ part \in Parts
    /\ InstructionInit /\ (part # "instructions" => code = SetZero /\ csr = 0 /\ x[1] = 0 /\ x[2] = 0)
    /\ CpuInit /\ (part # "cpu" => mem = CHOOSE p \in Programs : TRUE)
    /\ IF part = "memory" THEN MapInit ELSE MapNotMade
    /\ VideoInit /\ (part # "video" => words = ModeOnly({}))
    /\ ConsoleInit /\ (part # "console" => ~debug /\ pc = 0)
    /\ IF part = "sources" THEN SourceInit ELSE SourcesNotRead
    /\ ReplayInit /\ ListingInit /\ BoxInit /\ GameInit

InCpu(action) ==
    part = "cpu" /\ action /\ UNCHANGED <<part, instructionVars, mapVars, videoVars, debugVars, gameVars>>
InInstructions(action) ==
    part = "instructions" /\ action /\ UNCHANGED <<part, cpuVars, mapVars, videoVars, debugVars, gameVars>>
InConsole(action) ==
    part = "console" /\ action
    /\ UNCHANGED <<part, guestVars, replayVars, listingVars, sourceVars, boxVars, gameVars>>
InGame(action) == part = "game" /\ action /\ UNCHANGED <<part, guestVars, debugVars>>

SimulatorNext ==
    \/ InGame(GameNext) \/ InCpu(CpuNext) \/ InInstructions(InstructionNext) \/ InConsole(ConsoleNext)
    \/ part = "memory" /\ MapNext
       /\ UNCHANGED <<part, cpuVars, instructionVars, videoVars, debugVars, gameVars>>
    \/ part = "video" /\ VideoNext
       /\ UNCHANGED <<part, cpuVars, instructionVars, mapVars, debugVars, gameVars>>
    \/ part = "replay" /\ ReplayNext
       /\ UNCHANGED <<part, guestVars, consoleVars, listingVars, sourceVars, boxVars, gameVars>>
    \/ part = "listing" /\ ListingNext
       /\ UNCHANGED <<part, guestVars, consoleVars, replayVars, sourceVars, boxVars, gameVars>>
    \/ part = "sources" /\ SourceNext
       /\ UNCHANGED <<part, guestVars, consoleVars, replayVars, listingVars, boxVars, gameVars>>
    \/ part = "box" /\ BoxNext
       /\ UNCHANGED <<part, guestVars, consoleVars, replayVars, listingVars, sourceVars, gameVars>>

(* The processor goes on with the program, the window's thread with the       *)
(* callback it is in, and so do the threads it has started.                   *)
SimulatorSpec ==
    /\ SimulatorInit /\ [][SimulatorNext]_simulatorVars
    /\ WF_simulatorVars(InInstructions(InstructionNext))
    /\ WF_simulatorVars(InConsole(CallStep))
    /\ \A w \in AllWorkers : WF_simulatorVars(InConsole(WorkerStep(w)))
=============================================================================
