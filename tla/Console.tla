------------------------------ MODULE Console ------------------------------
(* The run control of the console simulator (riscv-sim, RISCVConsole.cpp and *)
(* the callbacks of RISCVConsoleApplication.cpp). The user interface's       *)
(* thread runs every callback to its end; it starts and joins the threads    *)
(* that run the machine: a CPU and a timer thread in normal mode, one        *)
(* system thread in debug mode. A callback is a sequence of calls, kept in   *)
(* todo; calls that start or stop threads unfold into their steps.           *)
EXTENDS Sequences, Integers

CONSTANTS Modes,      \* values of DDebugMode
          Addresses,  \* values of the program counter
          Buttons     \* what the user does

ASSUME ConsoleAssumption == Modes \subseteq BOOLEAN /\ Addresses # {}

VARIABLES debug,      \* DDebugMode, chosen at the start
          todo,       \* the calls the running callback has still to make
          command,    \* DSystemCommand
          current,    \* the callbacks' local CurrentState
          handles,    \* the workers whose std::thread the console holds
          worker,     \* where each worker's thread function is
          ack,        \* DCPUAcknowledge, DTimerAcknowledge, DSystemAcknowledge
          pc,         \* the program counter of the machine
          breakpoints,\* DBreakpoints
          powerButton, runButton,  \* the toggle buttons of the window
          unseen      \* history: the machine stopped at a breakpoint nobody was told of

consoleVars == <<debug, todo, command, current, handles, worker, ack, pc, breakpoints,
                 powerButton, runButton, unseen>>

AllWorkers == {"cpu", "timer", "system"}
Workers == IF debug THEN {"system"} ELSE {"cpu", "timer"}
Drivers == Workers \ {"timer"}   \* the workers that execute instructions

Head1 == Head(todo)
Then(calls) == todo' = calls \o Tail(todo)
Call(name) == todo # <<>> /\ Head1 = name

windowVars == <<powerButton, runButton>>
machineVars == <<debug, pc, breakpoints>>
threadVars == <<command, handles, worker, ack, unseen>>

-----------------------------------------------------------------------------
(* SystemRun and SystemStop.                                                 *)

(* MUTANT of StopCalls: the threads are told but not waited for.             *)
StopCallsWithoutJoin == <<"command_stop", "drop">>

StopCalls == <<"command_stop", "join", "drop">>

RunCalls == <<"ack_stop", "command_run", "spawn", "await">>

SystemStop ==
    /\ Call("stop")
    /\ Then(IF handles = {} THEN <<>> ELSE StopCalls)
    /\ UNCHANGED <<threadVars, current, machineVars, windowVars>>

SystemRun ==
    /\ Call("run")
    /\ Then(IF handles # {} THEN <<>> ELSE RunCalls)
    /\ UNCHANGED <<threadVars, current, machineVars, windowVars>>

CommandStop ==
    /\ Call("command_stop") /\ Then(<<>>)
    /\ command' = "Stop"
    /\ UNCHANGED <<handles, worker, ack, unseen, current, machineVars, windowVars>>

Join ==
    /\ Call("join") /\ Then(<<>>)
    /\ \A w \in handles : worker[w] = "done"
    /\ UNCHANGED <<threadVars, current, machineVars, windowVars>>

Drop ==
    /\ Call("drop") /\ Then(<<>>)
    /\ handles' = {}
    /\ ack' = IF debug THEN [ack EXCEPT !["system"] = "Stop"] ELSE ack
    /\ UNCHANGED <<command, worker, unseen, current, machineVars, windowVars>>

(* Only the debug mode resets the acknowledgement before it starts a thread. *)
AckStop ==
    /\ Call("ack_stop") /\ Then(<<>>)
    /\ ack' = IF debug THEN [ack EXCEPT !["system"] = "Stop"] ELSE ack
    /\ UNCHANGED <<command, handles, worker, unseen, current, machineVars, windowVars>>

CommandRun ==
    /\ Call("command_run") /\ Then(<<>>)
    /\ command' = "Run"
    /\ UNCHANGED <<handles, worker, ack, unseen, current, machineVars, windowVars>>

Spawn ==
    /\ Call("spawn") /\ Then(<<>>)
    /\ handles' = Workers
    /\ worker' = [w \in AllWorkers |-> IF w \in Workers THEN "started" ELSE "done"]
    /\ UNCHANGED <<command, ack, unseen, current, machineVars, windowVars>>

(* MUTANT of Acknowledged: the debug mode waits like the normal mode.         *)
AcknowledgedRunning == \A w \in Workers : ack[w] = "Run"

Acknowledged == IF debug THEN ack["system"] # "Stop" ELSE \A w \in Workers : ack[w] = "Run"

Await ==
    /\ Call("await") /\ Then(<<>>)
    /\ Acknowledged
    /\ UNCHANGED <<threadVars, current, machineVars, windowVars>>

-----------------------------------------------------------------------------
(* The workers.                                                              *)

WorkerGoto(w, place) == worker' = [worker EXCEPT ![w] = place]
WorkerFrame == UNCHANGED <<todo, command, current, handles, windowVars>>

WorkerStart(w) ==
    /\ worker[w] = "started" /\ WorkerGoto(w, "loop")
    /\ ack' = [ack EXCEPT ![w] = "Run"]
    /\ WorkerFrame /\ UNCHANGED <<machineVars, unseen>>

WorkerTest(w) ==
    /\ worker[w] = "loop"
    /\ WorkerGoto(w, IF command = "Run" THEN "inside" ELSE "leave")
    /\ WorkerFrame /\ UNCHANGED <<ack, machineVars, unseen>>

StopsHere(w, at) == w = "system" /\ at \in breakpoints

(* The instruction ends; the guest's program may be anything. The system     *)
(* thread compares the new program counter with the breakpoints.             *)
WorkerExecute(w) ==
    /\ worker[w] = "inside" /\ w # "timer"
    /\ pc' \in Addresses
    /\ WorkerGoto(w, IF StopsHere(w, pc') THEN "hit" ELSE "loop")
    /\ WorkerFrame /\ UNCHANGED <<ack, debug, breakpoints, unseen>>

WorkerTick(w) ==
    /\ worker[w] = "inside" /\ w = "timer"
    /\ WorkerGoto(w, "loop")
    /\ WorkerFrame /\ UNCHANGED <<ack, machineVars, unseen>>

EndState(w) == IF worker[w] = "hit" THEN "Breakpoint" ELSE "Stop"

WorkerEnd(w) ==
    /\ worker[w] \in {"leave", "hit"}
    /\ ack' = [ack EXCEPT ![w] = EndState(w)]
    /\ unseen' = (unseen \/ worker[w] = "hit")
    /\ WorkerGoto(w, "done")
    /\ WorkerFrame /\ UNCHANGED machineVars

WorkerStep(w) ==
    WorkerStart(w) \/ WorkerTest(w) \/ WorkerExecute(w) \/ WorkerTick(w) \/ WorkerEnd(w)

-----------------------------------------------------------------------------
(* The calls a callback is made of.                                          *)

ReadState ==
    /\ Call("read_state") /\ Then(<<>>)
    /\ current' = command
    /\ UNCHANGED <<threadVars, machineVars, windowVars>>

RunAgain ==
    /\ Call("run_again")
    /\ Then(IF current = "Run" THEN <<"run">> ELSE <<>>)
    /\ UNCHANGED <<threadVars, current, machineVars, windowVars>>

(* Reset, ProgramFirmware, Insert- and RemoveCartridge, Add-, Remove- and    *)
(* ClearBreakpoints: stop, change, and run again if the command was to run.  *)
Around(change) == <<"read_state", "stop", change, "run_again">>

Changes == {"reset", "flash", "toggle_breakpoint", "clear_breakpoints"}

(* ResetComponents, with the flash's EraseAll and StoreData for the firmware *)
(* and the cartridge; the program counter only with a reset.                 *)
Change ==
    /\ todo # <<>> /\ Head1 \in Changes /\ Then(<<>>)
    /\ \/ Head1 = "reset" /\ (\E a \in Addresses : pc' = a) /\ UNCHANGED breakpoints
       \/ Head1 = "flash" /\ UNCHANGED machineVars
       \/ /\ Head1 = "toggle_breakpoint" /\ UNCHANGED pc
          /\ \E a \in Addresses : breakpoints' = IF a \in breakpoints THEN breakpoints \ {a}
                                                 ELSE breakpoints \cup {a}
       \/ Head1 = "clear_breakpoints" /\ breakpoints' = {} /\ UNCHANGED pc
    /\ UNCHANGED <<threadVars, current, debug, windowVars>>

(* SystemStep on the user interface's thread.                                *)
StepBegin ==
    /\ Call("step") /\ Then(<<"step_end">>)
    /\ UNCHANGED <<threadVars, current, machineVars, windowVars>>

StepEnd ==
    /\ Call("step_end") /\ Then(<<>>)
    /\ \E a \in Addresses : pc' = a
    /\ UNCHANGED <<threadVars, current, debug, breakpoints, windowVars>>

(* BreakpointEvent and the other SetActive(FALSE): a toggle that changes     *)
(* runs its own callback, RunButtonToggledEvent, which stops.                *)
ReleaseRun ==
    /\ Call("release_run")
    /\ Then(IF runButton THEN <<"stop">> ELSE <<>>)
    /\ runButton' = FALSE /\ unseen' = FALSE
    /\ UNCHANGED <<command, handles, worker, ack, current, machineVars, powerButton>>

-----------------------------------------------------------------------------
(* The callbacks.                                                            *)

Press(button, calls) ==
    /\ todo = <<>> /\ button \in Buttons
    /\ todo' = calls
    /\ UNCHANGED <<command, handles, worker, ack, current, machineVars>>

PowerOnCalls == Around("reset") \o (IF debug THEN <<>> ELSE <<"run">>)
PoweredBefore(calls) == IF powerButton THEN calls ELSE PowerOnCalls \o calls

PressPower ==
    /\ Press("power", IF ~powerButton THEN PowerOnCalls
                      ELSE <<"stop">> \o (IF debug THEN <<"release_run">> ELSE <<>>))
    /\ powerButton' = ~powerButton
    /\ UNCHANGED <<runButton, unseen>>

PressRun ==
    /\ debug
    /\ Press("run", IF runButton THEN <<"stop">> ELSE PoweredBefore(<<"run">>))
    /\ runButton' = ~runButton
    /\ powerButton' = (powerButton \/ ~runButton)
    /\ unseen' = FALSE

PressStep ==
    /\ debug
    /\ Press("step", PoweredBefore(<<"step">>))
    /\ powerButton' = TRUE
    /\ UNCHANGED <<runButton, unseen>>

PressReset == Press("reset", Around("reset")) /\ UNCHANGED <<windowVars, unseen>>

PressFirmware ==
    /\ Press("firmware", <<"read_state", "stop", "flash", "reset", "run_again">>)
    /\ UNCHANGED <<windowVars, unseen>>

PressCartridge == Press("cartridge", Around("flash")) /\ UNCHANGED <<windowVars, unseen>>

PressBreakpoint ==
    /\ debug
    /\ Press("breakpoint", Around("toggle_breakpoint")) /\ UNCHANGED <<windowVars, unseen>>

PressClear ==
    /\ debug
    /\ Press("clear", Around("clear_breakpoints")) /\ UNCHANGED <<windowVars, unseen>>

(* The recording is saved: the machine stops.                                *)
PressRecord ==
    /\ debug
    /\ Press("record", <<"stop">>) /\ UNCHANGED <<windowVars, unseen>>

BreakpointCalls == <<"stop", "release_run">>

(* The 1 ms timeout; the drawing is left out.                                *)
VideoTimerTick ==
    /\ debug /\ ack["system"] = "Breakpoint" /\ handles # {}
    /\ Press("tick", BreakpointCalls) /\ UNCHANGED <<windowVars, unseen>>

Callback ==
    \/ PressPower \/ PressRun \/ PressStep \/ PressReset \/ PressFirmware \/ PressCartridge
    \/ PressBreakpoint \/ PressClear \/ PressRecord \/ VideoTimerTick

CallStep ==
    \/ SystemStop \/ SystemRun \/ CommandStop \/ Join \/ Drop
    \/ AckStop \/ CommandRun \/ Spawn \/ Await
    \/ ReadState \/ RunAgain \/ Change \/ StepBegin \/ StepEnd \/ ReleaseRun

(* Powered off; the user may have set breakpoints already.                   *)
ConsoleInit ==
    /\ debug \in Modes
    /\ todo = <<>> /\ command = "Stop" /\ current = "Stop" /\ handles = {}
    /\ worker = [w \in AllWorkers |-> "done"] /\ ack = [w \in AllWorkers |-> "Stop"]
    /\ pc \in Addresses /\ breakpoints \in SUBSET (IF debug THEN Addresses ELSE {})
    /\ powerButton = FALSE /\ runButton = FALSE /\ unseen = FALSE

ConsoleNext == Callback \/ CallStep \/ \E w \in AllWorkers : WorkerStep(w)

ConsoleSpec == ConsoleInit /\ [][ConsoleNext]_consoleVars

(* The window's thread goes on with the callback it is in, the workers too.  *)
ConsoleFairSpec ==
    /\ ConsoleSpec
    /\ WF_consoleVars(CallStep)
    /\ \A w \in AllWorkers : WF_consoleVars(WorkerStep(w))

-----------------------------------------------------------------------------
WorkerPlaces == {"started", "loop", "inside", "leave", "hit", "done"}

ConsoleTypeOK ==
    /\ debug \in Modes /\ command \in {"Stop", "Run"} /\ current \in {"Stop", "Run"}
    /\ handles \subseteq Workers /\ worker \in [AllWorkers -> WorkerPlaces]
    /\ ack \in [AllWorkers -> {"Stop", "Run", "Breakpoint"}]
    /\ pc \in Addresses /\ breakpoints \subseteq Addresses
    /\ powerButton \in BOOLEAN /\ runButton \in BOOLEAN /\ unseen \in BOOLEAN

(* Flash, registers and the set of breakpoints, none of which has a lock,    *)
(* change only while every thread of the machine has ended.                  *)
ChangesWhileStopped ==
    todo # <<>> /\ Head1 \in Changes => \A w \in AllWorkers : worker[w] = "done"

(* No thread is forgotten while it runs: a second one started beside it      *)
(* would execute the same machine.                                           *)
NoOrphan == \A w \in AllWorkers : worker[w] # "done" => w \in handles

(* While the Run button is up no worker is inside: a step then has the        *)
(* machine for itself, in every order of the callbacks before it.             *)
StepsAloneWhenStopped == Call("step_end") /\ ~runButton => \A w \in Drivers : worker[w] = "done"

(* A thread that ended at a breakpoint, and that nobody has stopped since, is *)
(* one the next tick of the window tells of.                                  *)
HitIsPending ==
    debug /\ todo = <<>> /\ unseen /\ command = "Run" /\ worker["system"] = "done" =>
        ack["system"] = "Breakpoint" /\ handles # {} /\ runButton

(* docs/simulator.md: the machine runs until a breakpoint is hit. It does    *)
(* not run on past one before the window has been told.                      *)
StopsAtBreakpoint == unseen => \A w \in Drivers : worker[w] = "done"

(* Between two callbacks of the debug window the machine has a thread only    *)
(* while the Run button is down: it never runs unnoticed.                    *)
NeverRunsUnnoticed == debug /\ todo = <<>> /\ handles # {} => runButton

(* Every callback ends: no start waits for a thread that has already ended   *)
(* and no stop for one that does not look.                                   *)
CallbackReturns == todo # <<>> ~> todo = <<>>

(* What the run control promises the rest of the machine, and the user.      *)
RunControlInv ==
    /\ ConsoleTypeOK
    /\ ChangesWhileStopped /\ NoOrphan /\ StepsAloneWhenStopped
    /\ HitIsPending /\ NeverRunsUnnoticed

=============================================================================
