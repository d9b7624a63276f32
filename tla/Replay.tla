------------------------------- MODULE Replay -------------------------------
(* Recording what the user does in the debug window                           *)
(* (riscv-sim/src/AutoRecorder.cpp and the callbacks that call it) and        *)
(* playing the file back in a console of its own (AutoRunner.cpp). A machine  *)
(* is the console as far as its user's input goes; its instructions are the   *)
(* same in both, which is what the recording relies on.                       *)
EXTENDS Integers, Sequences, SequencesExt

CONSTANTS
    Inputs,      \* the directions and buttons of the controller
    Cartridges,
    Misplaced,   \* those with a segment outside the cartridge's memory, which are refused
    NoCartridge,
    Faulting,    \* the instructions, counted from the reset, that trap and so do not retire
    Period,      \* instructions from one tick of the timer to the next
    MaxInt,      \* the greatest cycle the file can give back (2^31 - 1)
    MaxSteps,    \* bound on the instructions after a reset
    MaxEvents    \* bound on the events in a recording

ASSUME ReplayAssumption ==
    /\ Period \in Nat \ {0} /\ {MaxInt, MaxSteps, MaxEvents} \subseteq Nat
    /\ Misplaced \subseteq Cartridges /\ NoCartridge \notin Cartridges /\ Faulting \subseteq Nat

VARIABLES
    machine,   \* the console behind the window
    noting,    \* the input whose cycle is not read yet, as a sequence of at most one
    recording, \* the Record button is down
    log,       \* DOutputJSONObjectArray since then; what it held before is cleared
    isArray,   \* whether it is one: saving moves it into the document
    known,     \* DFirmwareFilename, DCartridgeFilename and the depressed sets
    file,      \* the recording last saved
    exact,     \* history: the recording is exact so far,
    reached,   \* and the machine right after each of its inputs
    aborted    \* an assertion of the JSON library has failed

replayVars == <<machine, noting, recording, log, isArray, known, file, exact, reached, aborted>>

-----------------------------------------------------------------------------
(* The console: ticks stands for DTimerTicks and DVideoTicks, which no reset  *)
(* sets; ticked and raised are what the guest's program can tell of the timer *)
(* and of the interrupts since the reset.                                     *)
NewMachine == [firmware |-> FALSE, cartridge |-> NoCartridge, held |-> {}, raised |-> {},
               steps |-> 0, retired |-> 0, ticks |-> Period, ticked |-> {}]

Stepped(m) ==
    LET step == m.steps + 1 IN
    [m EXCEPT !.steps = step,
              !.retired = IF step \in Faulting THEN @ ELSE @ + 1,
              !.ticks = IF @ = 1 THEN Period ELSE @ - 1,
              !.ticked = IF m.ticks = 1 THEN @ \cup {step} ELSE @]

Restarted(m) == [m EXCEPT !.raised = {}, !.steps = 0, !.retired = 0, !.ticked = {}]

(* A cartridge that does not fit changes nothing, in the replay as well.      *)
Event(type, data) == [type |-> type, data |-> data]
Refused(e) == e.type = "insert" /\ e.data \in Misplaced
Applied(m, e) ==
    CASE e.type = "firmware" -> [Restarted(m) EXCEPT !.firmware = TRUE]
      [] e.type = "insert"   -> IF e.data \in Misplaced THEN m
                                ELSE [m EXCEPT !.cartridge = e.data, !.raised = @ \cup {"cartridge"}]
      [] e.type = "remove"   -> [m EXCEPT !.cartridge = NoCartridge,
                                          !.raised = @ \cup {"cartridge"}]
      [] e.type = "press"    -> [m EXCEPT !.held = @ \cup {e.data}]
      [] e.type = "release"  -> [m EXCEPT !.held = @ \ {e.data}]
      [] e.type = "command"  -> [m EXCEPT !.raised = @ \cup {"command"}]

-----------------------------------------------------------------------------
(* The recorder. Every Add... pushes its event into the array and keeps what  *)
(* ResetRecord will need; pushing into what is no array fails an assertion.   *)
Known(k, e) ==
    CASE e.type = "firmware" -> [k EXCEPT !.firmware = TRUE]
      [] e.type = "insert"   -> [k EXCEPT !.cartridge = e.data]
      [] e.type = "remove"   -> [k EXCEPT !.cartridge = NoCartridge]
      [] e.type = "press"    -> [k EXCEPT !.held = @ \cup {e.data}]
      [] e.type = "release"  -> [k EXCEPT !.held = @ \ {e.data}]
      [] OTHER               -> k

At(cycle, e) == [cycle |-> cycle, input |-> e]
Add(e, cycle) ==
    /\ known' = Known(known, e)
    /\ log' = IF recording THEN Append(log, At(cycle, e)) ELSE log
    /\ aborted' = ~isArray

(* ResetRecord: the new recording begins with what the machine has already. *)
Presses(held) == SetToSeq({At(0, Event("press", i)) : i \in held})
Opening(k) ==
    (IF k.firmware THEN <<At(0, Event("firmware", NoCartridge))>> ELSE <<>>)
    \o (IF k.cartridge # NoCartridge THEN <<At(0, Event("insert", k.cartridge))>> ELSE <<>>)
    \o Presses(k.held)

-----------------------------------------------------------------------------
(* The runner: each command, then as many steps as the next one is later.     *)
Parsed(cycle) == IF cycle <= MaxInt THEN cycle ELSE 0
StepsOneMore(f, i) ==            \* mutant: one step too many
    IF i = Len(f) THEN 0
    ELSE (Parsed(f[i + 1].cycle) - Parsed(f[i].cycle) + 1) % (2 * (MaxInt + 1))
StepsAfter(f, i) ==
    IF i = Len(f) THEN 0
    ELSE (Parsed(f[i + 1].cycle) - Parsed(f[i].cycle)) % (2 * (MaxInt + 1))

SteppedBy(m, n) ==
    LET after[k \in 0..n] == IF k = 0 THEN m ELSE Stepped(after[k - 1]) IN after[n]

(* The machine of the replay right after each of the commands. *)
Replayed(f) ==
    LET after[i \in 0..Len(f)] ==
            IF i = 0 THEN NewMachine
            ELSE Applied(IF i = 1 THEN NewMachine
                         ELSE SteppedBy(after[i - 1], StepsAfter(f, i - 1)), f[i].input)
    IN [i \in DOMAIN f |-> after[i]]

-----------------------------------------------------------------------------
(* What a recording needs to be exact: it begins right after the firmware was *)
(* programmed, in a console that had not run before and that has the          *)
(* cartridge last noted; no reset comes after that changes anything; every    *)
(* input is noted at the number of instructions it came at, which none that   *)
(* trapped and none before the note falsifies; and no cycle is too great.     *)
BeginsAfresh(m) ==
    m = [NewMachine EXCEPT !.firmware = TRUE, !.held = m.held, !.cartridge = m.cartridge,
            !.raised = IF m.cartridge = NoCartridge THEN {} ELSE {"cartridge"}]
NotedRight(m, cycle) == m.steps = cycle /\ cycle <= MaxInt
Reaches(m) == reached' = IF recording /\ exact THEN Append(reached, m) ELSE reached
Stays(ok) == exact' = (exact /\ (recording => ok))

(* The system thread *)
SystemStep ==
    /\ machine.steps < MaxSteps
    /\ machine' = Stepped(machine)
    /\ UNCHANGED <<noting, recording, log, isArray, known, file, exact, reached, aborted>>

(* The window's callbacks. The controller and the command button change the   *)
(* machine while it runs, and then read the cycle for the recorder.           *)
Touch(e) ==
    /\ noting = <<>> /\ Len(log) < MaxEvents
    /\ machine' = Applied(machine, e)
    /\ noting' = <<e>>
    /\ Reaches(machine')
    /\ UNCHANGED <<recording, log, isArray, known, file, exact, aborted>>

Note ==
    /\ noting # <<>>
    /\ Add(Head(noting), machine.retired)
    /\ noting' = <<>>
    /\ Stays(NotedRight(reached[Len(reached)], machine.retired))
    /\ UNCHANGED <<machine, recording, isArray, file, reached>>

(* The firmware and the cartridge change only while the machine is stopped.   *)
(* Programming resets it, and is written down at cycle 0. So is a cartridge   *)
(* that is refused: InsertCartridge returns false then, and the window takes  *)
(* it for the cycle of an insertion.                                          *)
CycleOf(e) == IF e.type = "firmware" \/ Refused(e) THEN 0 ELSE machine.retired
ChangeStopped(e) ==
    /\ noting = <<>> /\ Len(log) < MaxEvents
    /\ machine' = Applied(machine, e)
    /\ Add(e, CycleOf(e))
    /\ Reaches(machine')
    /\ Stays(IF e.type = "firmware" THEN machine' = machine ELSE NotedRight(machine, CycleOf(e)))
    /\ UNCHANGED <<noting, recording, isArray, file>>

(* The reset button, and the power button *)
Reset ==
    /\ noting = <<>>
    /\ machine' = Restarted(machine)
    /\ Stays(machine' = machine)
    /\ UNCHANGED <<noting, recording, log, isArray, known, file, reached, aborted>>

(* The Record button goes down: Clear of what is no array fails as well. *)
StartRecord ==
    /\ noting = <<>> /\ ~recording
    /\ recording' = TRUE
    /\ log' = Opening(known)
    /\ aborted' = ~isArray
    /\ exact' = (BeginsAfresh(machine) /\ known.cartridge = machine.cartridge) /\ reached' = <<>>
    /\ UNCHANGED <<machine, noting, isArray, known, file>>

(* and up, and a file is chosen or not *)
EndRecord ==
    /\ noting = <<>> /\ recording
    /\ recording' = FALSE
    /\ \/ file' = log /\ isArray' = FALSE
       \/ UNCHANGED <<file, isArray>>
    /\ exact' = (exact /\ ~isArray') /\ log' = <<>>
    /\ UNCHANGED <<machine, noting, known, reached, aborted>>

ReplayInit ==
    /\ machine = NewMachine /\ noting = <<>> /\ log = <<>> /\ isArray = TRUE
    /\ known = [firmware |-> FALSE, cartridge |-> NoCartridge, held |-> {}]
    /\ recording = FALSE /\ file = <<>> /\ exact = FALSE /\ reached = <<>> /\ aborted = FALSE

ReplayNext ==
    /\ ~aborted
    /\ \/ SystemStep \/ Note \/ Reset \/ StartRecord \/ EndRecord
       \/ \E i \in Inputs : Touch(Event("press", i)) \/ Touch(Event("release", i))
       \/ Touch(Event("command", NoCartridge))
       \/ \E c \in Cartridges : ChangeStopped(Event("insert", c))
       \/ \E type \in {"firmware", "remove"} : ChangeStopped(Event(type, NoCartridge))

ReplaySpec == ReplayInit /\ [][ReplayNext]_replayVars

-----------------------------------------------------------------------------
(* Between two callbacks the recorder knows what the machine holds, so that   *)
(* a recording can begin at any time. The cartridge last noted is the one     *)
(* that is in, unless it is one the machine has refused.                      *)
RecorderKnows ==
    noting = <<>> =>
        /\ known.firmware = machine.firmware /\ known.held = machine.held
        /\ known.cartridge \notin Misplaced => known.cartridge = machine.cartridge

(* docs/autorunner.md: the autorunner simulates the console without user      *)
(* intervention. Every input of an exact recording meets, in the replay, the  *)
(* machine it met when it was recorded: after as many instructions, with the  *)
(* same buttons held, the same ticks and the same interrupts behind it.       *)
ReplayIsFaithful ==
    exact /\ file # <<>> =>
        LET again == Replayed(file) IN
        \A i \in DOMAIN reached : reached[i] = again[Len(file) - Len(reached) + i]

(* A recording can begin at any time, and is the run it records.              *)
ReplayInv == RecorderKnows /\ ReplayIsFaithful

(* include/rapidjson/document.h:1204: PushBack has RAPIDJSON_ASSERT(IsArray()) *)
(* first. The recorder never fails it.                                        *)
PushesIntoArray == ~aborted
=============================================================================
