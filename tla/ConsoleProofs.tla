--------------------------- MODULE ConsoleProofs ---------------------------
(* Theorems about the run control of module Console, for every set of         *)
(* addresses and buttons, in both modes and over every order of callbacks.    *)
(* What a callback has still to call decides what it may find, so the         *)
(* inductive invariant speaks about the places of the calls in todo: what     *)
(* needs a stopped machine has a stop before it and no start, a start is      *)
(* begun only while no worker is held, and while the Run button is up nothing *)
(* that starts the machine is left to be called. And about the recorder of    *)
(* module Replay: what is in the log so far is a run of the machine from a    *)
(* fresh one, each input at the instruction it came after, which is what      *)
(* determines the run of its replay.                                          *)
EXTENDS Console, Replay, SequenceTheorems, FiniteSetTheorems, WellFoundedInduction, TLAPS

Starting == {"ack_stop", "command_run", "spawn"}
Launches == Starting \cup {"run", "run_again"}
Quieting == {"stop", "join"}
NeedQuiet == Changes \cup {"drop"}
Ending == {"step", "step_end", "release_run"}
CallNames == Launches \cup Quieting \cup NeedQuiet \cup Ending
                 \cup {"command_stop", "await", "read_state"}

AllDone == \A w \in AllWorkers : worker[w] = "done"

(* A change, or the end of a stop, has a stop before it and no start.         *)
StopsFirst ==
    \A i \in DOMAIN todo : todo[i] \in NeedQuiet =>
        /\ \A j \in 1..i : todo[j] \notin Launches
        /\ AllDone \/ \E j \in 1..i : todo[j] \in Quieting

(* The threads are dropped when they have been told to stop.                  *)
DropsWhenTold ==
    \A i \in DOMAIN todo : todo[i] = "drop" =>
        command = "Stop" \/ \E j \in 1..i : todo[j] = "command_stop"

(* A start that has begun finds no worker and comes first.                    *)
StartsAlone ==
    \A i \in DOMAIN todo : todo[i] \in Starting =>
        handles = {} /\ \A j \in 1..i : todo[j] \in Starting

(* After the command the workers are spawned, once.                           *)
SpawnsNext ==
    \A i \in DOMAIN todo : todo[i] = "command_run" => i < Len(todo) /\ todo[i + 1] = "spawn"
SpawnsOnce ==
    \A i, j \in DOMAIN todo : todo[i] = "spawn" /\ i < j => todo[j] \notin Starting

(* A step and the release of a button end the callback, of the debug mode.    *)
LastCalls ==
    \A i \in DOMAIN todo : todo[i] \in Ending => i = Len(todo) /\ debug

ReadsFirst == \A i \in DOMAIN todo : todo[i] = "read_state" => i = 1

RunsHeld == command = "Run" => handles # {} \/ \E i \in DOMAIN todo : todo[i] = "spawn"

LeavesWhenTold == \A w \in AllWorkers : worker[w] = "leave" => command = "Stop"

(* A thread nobody told to stop ended at a breakpoint, and says so.           *)
HitIsKept ==
    debug /\ handles # {} /\ command = "Run" /\ worker["system"] = "done" =>
        ack["system"] = "Breakpoint"

(* While the Run button is up nothing starts the machine, and what runs or is *)
(* told to run is about to be stopped.                                        *)
ButtonUp == debug /\ ~runButton
NoStartPending == ButtonUp => \A i \in DOMAIN todo : todo[i] \notin Starting \cup {"run"}
StaysStopped ==
    ButtonUp => \A i \in DOMAIN todo : todo[i] = "run_again" => current = "Stop" \/ Call("read_state")
ReadsStop == ButtonUp /\ Call("read_state") => command = "Stop"
HeldIsDropped ==
    ButtonUp /\ handles # {} => \E i \in DOMAIN todo : todo[i] \in {"stop", "drop"}
RunIsStopped ==
    ButtonUp /\ command = "Run" => \E i \in DOMAIN todo : todo[i] \in {"stop", "command_stop"}

PlanOK ==
    /\ todo \in Seq(CallNames)
    /\ StopsFirst /\ DropsWhenTold /\ StartsAlone /\ SpawnsNext /\ SpawnsOnce
    /\ LastCalls /\ ReadsFirst

RunControl ==
    /\ PlanOK /\ NoOrphan /\ RunsHeld /\ LeavesWhenTold /\ HitIsKept
    /\ NoStartPending /\ StaysStopped /\ ReadsStop /\ HeldIsDropped /\ RunIsStopped

ConsoleInductive == ConsoleTypeOK /\ RunControl

-----------------------------------------------------------------------------
(* What is left to call after a step that puts calls in place of the head.    *)
LEMMA ThenPlaces ==
  ASSUME NEW calls \in Seq(CallNames), todo \in Seq(CallNames), todo # <<>>, Then(calls)
  PROVE  /\ todo' \in Seq(CallNames)
         /\ Len(todo') = Len(calls) + Len(todo) - 1 /\ Len(todo) >= 1
         /\ \A i \in 1..Len(calls) : todo'[i] = calls[i]
         /\ \A i \in 1..Len(todo') :
               i > Len(calls) => i - Len(calls) + 1 \in 1..Len(todo) /\ todo'[i] = todo[i - Len(calls) + 1]
         /\ \A i \in 2..Len(todo) :
               i + Len(calls) - 1 \in 1..Len(todo') /\ todo'[i + Len(calls) - 1] = todo[i]
<1> DEFINE rest == Tail(todo)
<1>1. rest \in Seq(CallNames) /\ Len(rest) = Len(todo) - 1 /\ Len(todo) >= 1
  BY HeadTailProperties, LenProperties, EmptySeq
<1>2. \A i \in 1..Len(rest) : rest[i] = todo[i + 1]
  BY HeadTailProperties
<1>3. todo' = calls \o rest
  BY DEF Then
<1>4. /\ calls \o rest \in Seq(CallNames)
      /\ Len(calls \o rest) = Len(calls) + Len(rest)
      /\ \A i \in 1..Len(calls) + Len(rest) :
            (calls \o rest)[i] = IF i <= Len(calls) THEN calls[i] ELSE rest[i - Len(calls)]
  BY <1>1, ConcatProperties
<1>5. Len(calls) \in Nat /\ Len(todo) \in Nat
  BY LenProperties
<1> HIDE DEF rest
<1>6. ASSUME NEW i \in 1..Len(todo'), i > Len(calls)
      PROVE  i - Len(calls) + 1 \in 1..Len(todo) /\ todo'[i] = todo[i - Len(calls) + 1]
  <2>1. i \in 1..(Len(calls) + Len(rest)) /\ ~(i <= Len(calls))
    BY <1>3, <1>4, <1>5, <1>6
  <2>2. i - Len(calls) \in 1..Len(rest) /\ i - Len(calls) + 1 \in 1..Len(todo)
    BY <1>1, <1>5, <2>1
  <2> QED
    BY <1>2, <1>3, <1>4, <2>1, <2>2
<1>7. \A i \in 2..Len(todo) :
          i + Len(calls) - 1 \in 1..Len(todo') /\ todo'[i + Len(calls) - 1] = todo[i]
  <2> TAKE i \in 2..Len(todo)
  <2>1. i + Len(calls) - 1 \in 1..Len(todo') /\ i + Len(calls) - 1 > Len(calls)
    BY <1>1, <1>3, <1>4, <1>5
  <2>2. (i + Len(calls) - 1) - Len(calls) + 1 = i
    BY <1>5
  <2> QED
    BY <1>6, <2>1, <2>2
<1> QED
  BY <1>1, <1>3, <1>4, <1>5, <1>6, <1>7, SMTT(30)

(* A step that only removes the head.                                         *)
LEMMA TailPlaces ==
  ASSUME todo \in Seq(CallNames), todo # <<>>, Then(<<>>)
  PROVE  /\ todo' \in Seq(CallNames)
         /\ Len(todo') = Len(todo) - 1 /\ Len(todo) \in Nat /\ Len(todo) >= 1
         /\ \A i \in 1..Len(todo') : i + 1 \in 1..Len(todo) /\ todo'[i] = todo[i + 1]
         /\ \A i \in 2..Len(todo) : i - 1 \in 1..Len(todo') /\ todo'[i - 1] = todo[i]
<1> DEFINE rest == Tail(todo)
<1>1. rest \in Seq(CallNames) /\ Len(rest) = Len(todo) - 1 /\ Len(todo) >= 1 /\ Len(todo) \in Nat
  BY HeadTailProperties, LenProperties, EmptySeq
<1>2. \A i \in 1..Len(rest) : rest[i] = todo[i + 1]
  BY HeadTailProperties
<1>3. todo' = rest
  BY <1>1, ConcatEmptySeq DEF Then
<1> HIDE DEF rest
<1> QED
  BY <1>1, <1>2, <1>3

(* The plan is kept when the head is done, provided a stop leaves no worker,  *)
(* and only a launch starts one, undoes a stop or takes workers.              *)
LEMMA TailPlan ==
  ASSUME PlanOK, todo # <<>>, Then(<<>>), UNCHANGED debug,
         Head1 \in Launches \/ (AllDone => AllDone'),
         Head1 \in Quieting => AllDone',
         command = "Stop" => command' = "Stop" \/ Head1 \in Launches,
         Head1 = "command_stop" => command' = "Stop",
         handles = {} => handles' = {} \/ Head1 = "spawn"
  PROVE  PlanOK'
<1>1. /\ todo' \in Seq(CallNames) /\ todo \in Seq(CallNames)
      /\ Len(todo') = Len(todo) - 1 /\ Len(todo) \in Nat /\ Len(todo) >= 1
      /\ \A i \in 1..Len(todo') : i + 1 \in 1..Len(todo) /\ todo'[i] = todo[i + 1]
      /\ \A i \in 2..Len(todo) : i - 1 \in 1..Len(todo') /\ todo'[i - 1] = todo[i]
  BY TailPlaces DEF PlanOK
<1>2. DOMAIN todo = 1..Len(todo) /\ DOMAIN todo' = 1..Len(todo') /\ Head1 = todo[1]
  BY <1>1, LenProperties, HeadTailProperties DEF Head1
<1>3. StopsFirst'
  <2> SUFFICES ASSUME NEW i \in 1..Len(todo'), todo'[i] \in NeedQuiet
               PROVE  /\ \A j \in 1..i : todo'[j] \notin Launches
                      /\ AllDone' \/ \E j \in 1..i : todo'[j] \in Quieting
    BY <1>2 DEF StopsFirst
  <2>1. /\ \A j \in 1..(i + 1) : todo[j] \notin Launches
        /\ AllDone \/ \E j \in 1..(i + 1) : todo[j] \in Quieting
    BY <1>1, <1>2 DEF PlanOK, StopsFirst
  <2>2. ASSUME NEW j \in 1..i PROVE todo'[j] \notin Launches
    <3>1. j \in 1..Len(todo') /\ j + 1 \in 1..(i + 1)
      BY <1>1
    <3> QED
      BY <1>1, <2>1, <3>1
  <2>3. todo[1] \notin Launches
    BY <1>1, <2>1
  <2>4. ASSUME NEW j \in 1..(i + 1), todo[j] \in Quieting
        PROVE  AllDone' \/ \E k \in 1..i : todo'[k] \in Quieting
    <3>1. CASE j = 1
      BY <1>2, <2>4, <3>1
    <3>2. CASE j # 1
      <4>1. j \in 2..Len(todo) /\ j - 1 \in 1..i
        BY <1>1, <3>2
      <4> QED
        BY <1>1, <2>4, <4>1
    <3> QED
      BY <3>1, <3>2
  <2> QED
    BY <1>2, <2>1, <2>2, <2>3, <2>4
<1>4. DropsWhenTold'
  <2> SUFFICES ASSUME NEW i \in 1..Len(todo'), todo'[i] = "drop"
               PROVE  command' = "Stop" \/ \E j \in 1..i : todo'[j] = "command_stop"
    BY <1>2 DEF DropsWhenTold
  <2>1. todo[i + 1] = "drop" /\ i + 1 \in DOMAIN todo
    BY <1>1, <1>2
  <2>2. todo[1] \notin Launches
    BY <1>1, <1>2, <2>1 DEF PlanOK, StopsFirst, NeedQuiet
  <2>3. command = "Stop" \/ \E j \in 1..(i + 1) : todo[j] = "command_stop"
    BY <2>1 DEF PlanOK, DropsWhenTold
  <2>4. ASSUME NEW j \in 1..(i + 1), todo[j] = "command_stop"
        PROVE  command' = "Stop" \/ \E k \in 1..i : todo'[k] = "command_stop"
    <3>1. CASE j = 1
      BY <1>2, <2>4, <3>1
    <3>2. CASE j # 1
      <4>1. j \in 2..Len(todo) /\ j - 1 \in 1..i
        BY <1>1, <3>2
      <4> QED
        BY <1>1, <2>4, <4>1
    <3> QED
      BY <3>1, <3>2
  <2> QED
    BY <1>2, <2>2, <2>3, <2>4
<1>5. StartsAlone'
  <2> SUFFICES ASSUME NEW i \in 1..Len(todo'), todo'[i] \in Starting
               PROVE  handles' = {} /\ \A j \in 1..i : todo'[j] \in Starting
    BY <1>2 DEF StartsAlone
  <2>1. todo[i + 1] \in Starting /\ i + 1 \in DOMAIN todo /\ 1 \in DOMAIN todo /\ 1 < i + 1
    BY <1>1, <1>2
  <2>2. handles = {} /\ \A j \in 1..(i + 1) : todo[j] \in Starting
    BY <2>1 DEF PlanOK, StartsAlone
  <2>3. todo[1] # "spawn"
    BY <2>1 DEF PlanOK, SpawnsOnce
  <2> QED
    BY <1>1, <1>2, <2>2, <2>3
<1>6. SpawnsNext'
  <2> SUFFICES ASSUME NEW i \in 1..Len(todo'), todo'[i] = "command_run"
               PROVE  i < Len(todo') /\ todo'[i + 1] = "spawn"
    BY <1>2 DEF SpawnsNext
  <2>1. i + 1 \in DOMAIN todo /\ todo[i + 1] = "command_run"
    BY <1>1, <1>2
  <2>2. i + 1 < Len(todo) /\ todo[(i + 1) + 1] = "spawn"
    BY <2>1 DEF PlanOK, SpawnsNext
  <2>3. i + 1 \in 1..Len(todo')
    BY <1>1, <2>2
  <2> QED
    BY <1>1, <2>2, <2>3
<1>7. SpawnsOnce'
  <2> SUFFICES ASSUME NEW i \in 1..Len(todo'), NEW j \in 1..Len(todo'), todo'[i] = "spawn", i < j
               PROVE  todo'[j] \notin Starting
    BY <1>2 DEF SpawnsOnce
  <2>1. i + 1 \in DOMAIN todo /\ j + 1 \in DOMAIN todo /\ todo[i + 1] = "spawn" /\ i + 1 < j + 1
    BY <1>1, <1>2
  <2>2. todo[j + 1] \notin Starting
    BY <2>1 DEF PlanOK, SpawnsOnce
  <2> QED
    BY <1>1, <2>2
<1>8. LastCalls'
  BY <1>1, <1>2 DEF PlanOK, LastCalls
<1>9. ReadsFirst'
  <2> SUFFICES ASSUME NEW i \in 1..Len(todo'), todo'[i] = "read_state"
               PROVE  FALSE
    BY <1>2 DEF ReadsFirst
  <2>1. i + 1 \in DOMAIN todo /\ todo[i + 1] = "read_state"
    BY <1>1, <1>2
  <2>2. i + 1 = 1
    BY <2>1 DEF PlanOK, ReadsFirst
  <2> QED
    BY <2>2
<1> QED
  BY <1>1, <1>3, <1>4, <1>5, <1>6, <1>7, <1>8, <1>9 DEF PlanOK

(* What the plan says of the calls behind the head.                           *)
LEMMA BehindHead ==
  ASSUME PlanOK, todo # <<>>, NEW i \in 2..Len(todo)
  PROVE  /\ i \in DOMAIN todo /\ todo[i] # "read_state" /\ todo[i] \in CallNames
         /\ todo[i] \in Ending => i = Len(todo) /\ debug
         /\ Head1 \notin Starting => todo[i] \notin Starting
         /\ Head1 \in Launches => todo[i] \notin NeedQuiet
         /\ todo[i] \in NeedQuiet => \A j \in 1..i : todo[j] \notin Launches
         /\ Head1 \notin Ending
<1>1. todo \in Seq(CallNames) /\ Len(todo) \in Nat
  BY LenProperties DEF PlanOK
<1>2. DOMAIN todo = 1..Len(todo) /\ Head1 = todo[1] /\ 1 \in 1..Len(todo) /\ 1 \in 1..i /\ i # 1
  BY <1>1, LenProperties, HeadTailProperties DEF Head1
<1>3. i \in DOMAIN todo /\ 1 \in DOMAIN todo /\ todo[i] \in CallNames /\ 1 # Len(todo)
  BY <1>1, <1>2, ElementOfSeq
<1> HIDE DEF Ending, NeedQuiet, Launches
<1>4. todo[i] # "read_state" /\ (todo[i] \in Ending => i = Len(todo) /\ debug) /\ Head1 \notin Ending
  BY <1>2, <1>3 DEF PlanOK, ReadsFirst, LastCalls
<1>5. Head1 \notin Starting => todo[i] \notin Starting
  BY <1>2, <1>3 DEF PlanOK, StartsAlone
<1>6. todo[i] \in NeedQuiet => \A j \in 1..i : todo[j] \notin Launches
  BY <1>2, <1>3 DEF PlanOK, StopsFirst
<1> QED
  BY <1>2, <1>3, <1>4, <1>5, <1>6

(* The stop of the machine unfolds in front of the rest.                      *)
LEMMA StopPlan ==
  ASSUME PlanOK, Call("stop"), Then(StopCalls),
         UNCHANGED <<debug, command, handles, worker>>
  PROVE  PlanOK'
<1>1. StopCalls \in Seq(CallNames) /\ Len(StopCalls) = 3
      /\ StopCalls[1] = "command_stop" /\ StopCalls[2] = "join" /\ StopCalls[3] = "drop"
  BY DEF StopCalls, CallNames, Launches, Quieting, NeedQuiet, Ending
<1>2. todo # <<>> /\ Head1 = "stop" /\ todo \in Seq(CallNames)
  BY DEF Call, PlanOK
<1>3. /\ todo' \in Seq(CallNames) /\ Len(todo') = Len(todo) + 2 /\ Len(todo) >= 1
      /\ \A i \in 1..3 : todo'[i] = StopCalls[i]
      /\ \A i \in 1..Len(todo') : i > 3 => i - 2 \in 2..Len(todo) /\ todo'[i] = todo[i - 2]
  <2>1. Len(todo) \in Nat /\ Len(todo') \in Nat
    BY <1>1, <1>2, ThenPlaces, LenProperties
  <2>2. /\ todo' \in Seq(CallNames) /\ Len(todo') = Len(StopCalls) + Len(todo) - 1 /\ Len(todo) >= 1
        /\ \A i \in 1..Len(StopCalls) : todo'[i] = StopCalls[i]
        /\ \A i \in 1..Len(todo') : i > Len(StopCalls) =>
              i - Len(StopCalls) + 1 \in 1..Len(todo) /\ todo'[i] = todo[i - Len(StopCalls) + 1]
    BY <1>1, <1>2, ThenPlaces
  <2>3. \A i \in 1..Len(todo') : i > 3 => i - 3 + 1 = i - 2 /\ i - 2 # 1
    BY <2>1
  <2> QED
    BY <1>1, <2>1, <2>2, <2>3
<1>4. Len(todo) \in Nat /\ DOMAIN todo' = 1..Len(todo') /\ DOMAIN todo = 1..Len(todo)
  BY <1>2, <1>3, LenProperties
<1>5. todo'[1] = "command_stop" /\ todo'[2] = "join" /\ todo'[3] = "drop"
  BY <1>1, <1>3
<1>6. ASSUME NEW i \in 1..Len(todo')
      PROVE  \/ i = 1 /\ todo'[i] = "command_stop"
             \/ i = 2 /\ todo'[i] = "join"
             \/ i = 3 /\ todo'[i] = "drop"
             \/ i > 3 /\ i - 2 \in 2..Len(todo) /\ todo'[i] = todo[i - 2]
  BY <1>3, <1>4, <1>5
<1>7. ASSUME NEW i \in 1..Len(todo')
      PROVE  todo'[i] \notin Starting /\ todo'[i] # "read_state"
  BY <1>2, <1>6, BehindHead DEF Starting
<1>8. StopsFirst'
  <2> SUFFICES ASSUME NEW i \in 1..Len(todo'), todo'[i] \in NeedQuiet
               PROVE  /\ \A j \in 1..i : todo'[j] \notin Launches
                      /\ \E j \in 1..i : todo'[j] \in Quieting
    BY <1>4 DEF StopsFirst
  <2>1. i > 2 /\ 2 \in 1..i
    BY <1>6 DEF NeedQuiet, Changes
  <2>2. ASSUME NEW j \in 1..i PROVE todo'[j] \notin Launches
    <3>1. CASE j <= 3
      BY <1>5, <3>1 DEF Launches, Starting
    <3>2. CASE j > 3
      <4>1. j \in 1..Len(todo') /\ i > 3 /\ j - 2 \in 1..(i - 2)
        BY <1>4, <3>2
      <4>2. i - 2 \in 2..Len(todo) /\ todo'[i] = todo[i - 2] /\ todo'[j] = todo[j - 2]
        BY <1>3, <3>2, <4>1
      <4> QED
        BY <1>2, <4>1, <4>2, BehindHead
    <3> QED
      BY <3>1, <3>2
  <2> QED
    BY <1>5, <2>1, <2>2 DEF Quieting
<1>9. DropsWhenTold'
  BY <1>4, <1>5 DEF DropsWhenTold
<1>10. StartsAlone' /\ SpawnsNext' /\ SpawnsOnce' /\ ReadsFirst'
  BY <1>4, <1>7 DEF StartsAlone, SpawnsNext, SpawnsOnce, ReadsFirst, Starting
<1>11. LastCalls'
  <2> SUFFICES ASSUME NEW i \in 1..Len(todo'), todo'[i] \in Ending
               PROVE  i = Len(todo') /\ debug
    BY <1>4 DEF LastCalls
  <2>1. i - 2 \in 2..Len(todo) /\ todo'[i] = todo[i - 2]
    BY <1>6 DEF Ending
  <2>2. i - 2 = Len(todo) /\ debug
    BY <1>2, <2>1, BehindHead
  <2> QED
    BY <1>3, <1>4, <2>2, SMTT(30)
<1> QED
  BY <1>3, <1>8, <1>9, <1>10, <1>11 DEF PlanOK

(* So does the start.                                                         *)
LEMMA RunPlan ==
  ASSUME PlanOK, Call("run"), handles = {}, Then(RunCalls),
         UNCHANGED <<debug, command, handles, worker>>
  PROVE  PlanOK'
<1>1. RunCalls \in Seq(CallNames) /\ Len(RunCalls) = 4
      /\ RunCalls[1] = "ack_stop" /\ RunCalls[2] = "command_run"
      /\ RunCalls[3] = "spawn" /\ RunCalls[4] = "await"
  BY DEF RunCalls, CallNames, Launches, Starting
<1>2. todo # <<>> /\ Head1 = "run" /\ todo \in Seq(CallNames)
  BY DEF Call, PlanOK
<1>3. /\ todo' \in Seq(CallNames) /\ Len(todo') = Len(todo) + 3 /\ Len(todo) >= 1
      /\ \A i \in 1..4 : todo'[i] = RunCalls[i]
      /\ \A i \in 1..Len(todo') : i > 4 => i - 3 \in 2..Len(todo) /\ todo'[i] = todo[i - 3]
  <2>1. Len(todo) \in Nat /\ Len(todo') \in Nat
    BY <1>1, <1>2, ThenPlaces, LenProperties
  <2>2. /\ todo' \in Seq(CallNames) /\ Len(todo') = Len(RunCalls) + Len(todo) - 1 /\ Len(todo) >= 1
        /\ \A i \in 1..Len(RunCalls) : todo'[i] = RunCalls[i]
        /\ \A i \in 1..Len(todo') : i > Len(RunCalls) =>
              i - Len(RunCalls) + 1 \in 1..Len(todo) /\ todo'[i] = todo[i - Len(RunCalls) + 1]
    BY <1>1, <1>2, ThenPlaces
  <2>3. \A i \in 1..Len(todo') : i > 4 => i - 4 + 1 = i - 3 /\ i - 3 # 1
    BY <2>1
  <2> QED
    BY <1>1, <2>1, <2>2, <2>3
<1>4. Len(todo) \in Nat /\ DOMAIN todo' = 1..Len(todo')
  BY <1>2, <1>3, LenProperties
<1>5. todo'[1] = "ack_stop" /\ todo'[2] = "command_run" /\ todo'[3] = "spawn" /\ todo'[4] = "await"
  BY <1>1, <1>3
<1>6. ASSUME NEW i \in 1..Len(todo')
      PROVE  \/ i = 1 /\ todo'[i] = "ack_stop"
             \/ i = 2 /\ todo'[i] = "command_run"
             \/ i = 3 /\ todo'[i] = "spawn"
             \/ i = 4 /\ todo'[i] = "await"
             \/ i > 4 /\ i - 3 \in 2..Len(todo) /\ todo'[i] = todo[i - 3]
  BY <1>3, <1>4, <1>5
<1>7. ASSUME NEW i \in 1..Len(todo')
      PROVE  /\ todo'[i] \notin NeedQuiet /\ todo'[i] # "read_state" /\ todo'[i] # "drop"
             /\ i > 3 => todo'[i] \notin Starting
  BY <1>2, <1>6, BehindHead DEF Starting, Launches, NeedQuiet, Changes
<1>8. StopsFirst' /\ DropsWhenTold' /\ ReadsFirst'
  BY <1>4, <1>7 DEF StopsFirst, DropsWhenTold, ReadsFirst
<1>9. StartsAlone'
  BY <1>4, <1>5, <1>7 DEF StartsAlone, Starting
<1>10. SpawnsNext'
  BY <1>3, <1>4, <1>5, <1>6, <1>7 DEF SpawnsNext, Starting
<1>11. SpawnsOnce'
  BY <1>4, <1>5, <1>7, <1>6 DEF SpawnsOnce, Starting
<1>12. LastCalls'
  <2> SUFFICES ASSUME NEW i \in 1..Len(todo'), todo'[i] \in Ending
               PROVE  i = Len(todo') /\ debug
    BY <1>4 DEF LastCalls
  <2>1. i - 3 \in 2..Len(todo) /\ todo'[i] = todo[i - 3]
    BY <1>6 DEF Ending
  <2>2. i - 3 = Len(todo) /\ debug
    BY <1>2, <2>1, BehindHead
  <2> QED
    BY <1>3, <1>4, <2>2, SMTT(30)
<1> QED
  BY <1>3, <1>8, <1>9, <1>10, <1>11, <1>12 DEF PlanOK

(* One call in the place of another.                                          *)
LEMMA OneForOne ==
  ASSUME todo \in Seq(CallNames), todo # <<>>, NEW c \in CallNames, Then(<<c>>)
  PROVE  /\ todo' \in Seq(CallNames) /\ Len(todo') = Len(todo) /\ Len(todo) \in Nat
         /\ DOMAIN todo' = 1..Len(todo) /\ DOMAIN todo = 1..Len(todo) /\ 1 \in 1..Len(todo)
         /\ todo'[1] = c /\ todo[1] = Head1
         /\ \A i \in 2..Len(todo) : todo'[i] = todo[i]
<1>1. <<c>> \in Seq(CallNames) /\ Len(<<c>>) = 1 /\ <<c>>[1] = c
  OBVIOUS
<1>2. Len(todo) \in Nat /\ Len(todo') \in Nat
  BY <1>1, ThenPlaces, LenProperties
<1>3. /\ todo' \in Seq(CallNames) /\ Len(todo') = Len(<<c>>) + Len(todo) - 1 /\ Len(todo) >= 1
      /\ \A i \in 1..Len(<<c>>) : todo'[i] = <<c>>[i]
      /\ \A i \in 2..Len(todo) : todo'[i + Len(<<c>>) - 1] = todo[i]
  BY <1>1, ThenPlaces
<1>4. todo'[1] = c /\ \A i \in 2..Len(todo) : i + Len(<<c>>) - 1 = i
  BY <1>1, <1>3
<1> QED
  BY <1>1, <1>2, <1>3, <1>4, LenProperties, HeadTailProperties DEF Head1

LEMMA AgainPlan ==
  ASSUME PlanOK, Call("run_again"), Then(<<"run">>),
         UNCHANGED <<debug, command, handles, worker>>
  PROVE  PlanOK'
<1> USE DEF CallNames, Launches
<1>1. /\ todo' \in Seq(CallNames) /\ Len(todo') = Len(todo) /\ Len(todo) \in Nat
      /\ DOMAIN todo' = 1..Len(todo) /\ 1 \in 1..Len(todo)
      /\ todo'[1] = "run" /\ todo[1] = "run_again" /\ todo # <<>> /\ Head1 = "run_again"
      /\ \A i \in 2..Len(todo) : todo'[i] = todo[i]
  BY OneForOne DEF Call, PlanOK
<1>2. ASSUME NEW i \in 1..Len(todo)
      PROVE  /\ todo'[i] \notin NeedQuiet /\ todo'[i] # "read_state" /\ todo'[i] # "drop"
             /\ todo'[i] \notin Starting
             /\ todo'[i] \in Ending => i = Len(todo) /\ debug
  <2>1. CASE i = 1
    BY <1>1, <2>1 DEF NeedQuiet, Changes, Starting, Ending
  <2>2. CASE i # 1
    <3>1. i \in 2..Len(todo)
      BY <1>1, <2>2
    <3> QED
      BY <1>1, <3>1, BehindHead DEF NeedQuiet, Starting
  <2> QED
    BY <2>1, <2>2
<1>3. StopsFirst' /\ DropsWhenTold' /\ ReadsFirst' /\ LastCalls'
  BY <1>1, <1>2 DEF StopsFirst, DropsWhenTold, ReadsFirst, LastCalls
<1>4. StartsAlone' /\ SpawnsNext' /\ SpawnsOnce'
  BY <1>1, <1>2 DEF StartsAlone, SpawnsNext, SpawnsOnce, Starting
<1> QED
  BY <1>1, <1>3, <1>4 DEF PlanOK

(* The last call of a callback is the only one left when it is made.          *)
LEMMA LastPlan ==
  ASSUME PlanOK, todo # <<>>, Head1 \in Ending
  PROVE  debug /\ Len(todo) = 1 /\ todo[1] = Head1 /\ DOMAIN todo = 1..1
<1>1. todo \in Seq(CallNames) /\ Len(todo) \in Nat /\ Len(todo) >= 1
  BY LenProperties, EmptySeq DEF PlanOK
<1>2. DOMAIN todo = 1..Len(todo) /\ Head1 = todo[1]
  BY <1>1, LenProperties, HeadTailProperties DEF Head1
<1> QED
  BY <1>1, <1>2 DEF PlanOK, LastCalls

LEMMA ReplacedLast ==
  ASSUME PlanOK, todo # <<>>, Head1 \in Ending, NEW c \in {"stop", "step_end"}, Then(<<c>>),
         UNCHANGED <<debug, command, handles, worker>>
  PROVE  PlanOK' /\ DOMAIN todo' = 1..1 /\ todo'[1] = c
<1>1. c \in CallNames
  BY DEF CallNames, Quieting, Ending
<1>2. /\ todo' \in Seq(CallNames) /\ Len(todo') = 1 /\ DOMAIN todo' = 1..1
      /\ todo'[1] = c /\ debug
  BY <1>1, OneForOne, LastPlan DEF PlanOK
<1>3. \A i \in DOMAIN todo' : i = 1
  BY <1>2
<1>4. StopsFirst' /\ DropsWhenTold' /\ ReadsFirst' /\ LastCalls'
  BY <1>2, <1>3 DEF StopsFirst, DropsWhenTold, ReadsFirst, LastCalls, NeedQuiet, Changes
<1>5. StartsAlone' /\ SpawnsNext' /\ SpawnsOnce'
  BY <1>2, <1>3 DEF StartsAlone, SpawnsNext, SpawnsOnce, Starting
<1> QED
  BY <1>2, <1>4, <1>5 DEF PlanOK

(* What every callback plans to call when it begins.                          *)
Planned(calls) ==
    /\ calls \in Seq(CallNames)
    /\ \A i \in DOMAIN calls :
          /\ calls[i] \notin Starting \cup {"drop"}
          /\ calls[i] \in Changes =>
                (\A j \in 1..i : calls[j] \notin Launches) /\ \E j \in 1..i : calls[j] = "stop"
          /\ calls[i] \in Ending => i = Len(calls) /\ debug
          /\ calls[i] = "read_state" => i = 1
          /\ calls[i] = "run_again" => calls[1] = "read_state"

LEMMA Concatenated ==
  /\ \A c : Around(c) = <<"read_state", "stop", c, "run_again">>
  /\ \A a, b, c, d, e : <<a, b, c, d>> \o <<e>> = <<a, b, c, d, e>>
  /\ \A a, b, c, d : <<a, b, c, d>> \o <<>> = <<a, b, c, d>>
  /\ \A a, b : <<a>> \o <<b>> = <<a, b>>
  /\ \A a : <<a>> \o <<>> = <<a>>
<1>1. \A c : Around(c) = <<"read_state", "stop", c, "run_again">>
  BY DEF Around
<1>2. ASSUME NEW a, NEW b, NEW c, NEW d, NEW e
      PROVE  <<a, b, c, d>> \o <<e>> = <<a, b, c, d, e>>
  <2> DEFINE S == {a, b, c, d, e}
             s == <<a, b, c, d>>
             t == <<e>>
             u == <<a, b, c, d, e>>
  <2>1. s \in Seq(S) /\ t \in Seq(S) /\ u \in Seq(S) /\ Len(s) = 4 /\ Len(t) = 1 /\ Len(u) = 5
    OBVIOUS
  <2>2. s[1] = a /\ s[2] = b /\ s[3] = c /\ s[4] = d /\ t[1] = e
    OBVIOUS
  <2>3. u[1] = a /\ u[2] = b /\ u[3] = c /\ u[4] = d /\ u[5] = e
    OBVIOUS
  <2> HIDE DEF s, t, u, S
  <2>4. /\ s \o t \in Seq(S) /\ Len(s \o t) = Len(s) + Len(t)
        /\ \A i \in 1..(Len(s) + Len(t)) : (s \o t)[i] = IF i <= Len(s) THEN s[i] ELSE t[i - Len(s)]
    BY <2>1, ConcatProperties
  <2>5. \A i \in 1..5 : (s \o t)[i] = u[i]
    BY <2>1, <2>2, <2>3, <2>4
  <2>6. s \o t = u
    BY <2>1, <2>4, <2>5, SeqEqual, SMTT(30)
  <2> QED
    BY <2>6 DEF s, t, u
<1>3. ASSUME NEW a, NEW b, NEW c, NEW d PROVE <<a, b, c, d>> \o <<>> = <<a, b, c, d>>
  <2>1. <<a, b, c, d>> \in Seq({a, b, c, d})
    OBVIOUS
  <2> QED
    BY <2>1, ConcatEmptySeq
<1>4. ASSUME NEW a, NEW b PROVE <<a>> \o <<b>> = <<a, b>>
  <2> DEFINE S == {a, b}
             s == <<a>>
             t == <<b>>
             u == <<a, b>>
  <2>1. s \in Seq(S) /\ t \in Seq(S) /\ u \in Seq(S) /\ Len(s) = 1 /\ Len(t) = 1 /\ Len(u) = 2
    OBVIOUS
  <2>2. s[1] = a /\ t[1] = b /\ u[1] = a /\ u[2] = b
    OBVIOUS
  <2> HIDE DEF s, t, u, S
  <2>3. /\ s \o t \in Seq(S) /\ Len(s \o t) = Len(s) + Len(t)
        /\ \A i \in 1..(Len(s) + Len(t)) : (s \o t)[i] = IF i <= Len(s) THEN s[i] ELSE t[i - Len(s)]
    BY <2>1, ConcatProperties
  <2>4. \A i \in 1..2 : (s \o t)[i] = u[i]
    BY <2>1, <2>2, <2>3
  <2>5. s \o t = u
    BY <2>1, <2>3, <2>4, SeqEqual
  <2> QED
    BY <2>5 DEF s, t, u
<1>5. ASSUME NEW a PROVE <<a>> \o <<>> = <<a>>
  <2>1. <<a>> \in Seq({a})
    OBVIOUS
  <2> QED
    BY <2>1, ConcatEmptySeq
<1> QED
  BY <1>1, <1>2, <1>3, <1>4, <1>5

LEMMA PlannedCallbacks ==
  ASSUME NEW c \in Changes
  PROVE  /\ Planned(<<"run">>) /\ Planned(<<"stop">>)
         /\ debug => Planned(<<"step">>) /\ Planned(<<"stop", "release_run">>)
         /\ Planned(<<"read_state", "stop", c, "run_again">>)
         /\ Planned(<<"read_state", "stop", c, "run_again", "run">>)
         /\ debug => Planned(<<"read_state", "stop", c, "run_again", "step">>)
         /\ Planned(<<"read_state", "stop", "flash", "reset", "run_again">>)
<1> USE DEF Planned, CallNames, Starting, Launches, Quieting, NeedQuiet, Ending, Changes
<1>1. Planned(<<"run">>) /\ Planned(<<"stop">>)
  OBVIOUS
<1>2. debug => Planned(<<"step">>) /\ Planned(<<"stop", "release_run">>)
  OBVIOUS
<1>3. Planned(<<"read_state", "stop", c, "run_again">>)
  OBVIOUS
<1>4. Planned(<<"read_state", "stop", c, "run_again", "run">>)
  OBVIOUS
<1>5. debug => Planned(<<"read_state", "stop", c, "run_again", "step">>)
  OBVIOUS
<1>6. Planned(<<"read_state", "stop", "flash", "reset", "run_again">>)
  OBVIOUS
<1> QED
  BY <1>1, <1>2, <1>3, <1>4, <1>5, <1>6

(* A callback begins with a plan that the invariant allows.                   *)
LEMMA Begins ==
  ASSUME ConsoleTypeOK, RunControl, todo = <<>>, NEW calls, Planned(calls), calls # <<>>,
         todo' = calls, UNCHANGED <<debug, command, current, handles, worker, ack>>,
         debug /\ ~runButton' =>
             (\A i \in DOMAIN calls : calls[i] # "run") /\ (~runButton \/ calls = <<"stop">>)
  PROVE  RunControl'
<1>1. DOMAIN todo = {}
  OBVIOUS
<1>2. calls \in Seq(CallNames) /\ DOMAIN calls = 1..Len(calls) /\ Head(calls) = calls[1]
  BY LenProperties, HeadTailProperties DEF Planned
<1>3. PlanOK'
  <2>1. StopsFirst'
    BY <1>2 DEF StopsFirst, Planned, Quieting, NeedQuiet
  <2>2. DropsWhenTold' /\ StartsAlone' /\ SpawnsNext' /\ SpawnsOnce'
    BY <1>2 DEF DropsWhenTold, StartsAlone, SpawnsNext, SpawnsOnce, Planned, Starting
  <2>3. LastCalls' /\ ReadsFirst'
    BY <1>2 DEF LastCalls, ReadsFirst, Planned
  <2> QED
    BY <1>2, <2>1, <2>2, <2>3 DEF PlanOK
<1>4. NoOrphan' /\ LeavesWhenTold' /\ HitIsKept'
  BY DEF RunControl, NoOrphan, LeavesWhenTold, HitIsKept
<1>5. RunsHeld'
  BY <1>1 DEF RunControl, RunsHeld
<1>6. NoStartPending'
  BY <1>2 DEF NoStartPending, ButtonUp, Planned
<1>7. StaysStopped'
  BY <1>2 DEF StaysStopped, ButtonUp, Planned, Call, Head1
<1>8. ReadsStop'
  <2> SUFFICES ASSUME ButtonUp', Call("read_state")' PROVE command = "Stop"
    BY DEF ReadsStop
  <2>1. Head(calls) = "read_state" /\ debug /\ ~runButton'
    BY DEF Call, Head1, ButtonUp
  <2>2. calls # <<"stop">>
    BY <2>1
  <2>3. ~runButton
    BY <2>1, <2>2
  <2> QED
    BY <1>1, <2>1, <2>3 DEF RunControl, RunIsStopped, ButtonUp, ConsoleTypeOK
<1>9. HeldIsDropped' /\ RunIsStopped'
  <2> SUFFICES ASSUME ButtonUp'
               PROVE  /\ handles # {} => \E i \in DOMAIN calls : calls[i] \in {"stop", "drop"}
                      /\ command = "Run" => \E i \in DOMAIN calls : calls[i] \in {"stop", "command_stop"}
    BY DEF HeldIsDropped, RunIsStopped
  <2>1. CASE ~runButton
    BY <1>1, <2>1 DEF RunControl, HeldIsDropped, RunIsStopped, ButtonUp
  <2>2. CASE runButton
    <3>1. calls = <<"stop">>
      BY <2>2 DEF ButtonUp
    <3>2. 1 \in DOMAIN calls /\ calls[1] = "stop"
      BY <3>1
    <3> QED
      BY <3>2
  <2> QED
    BY <2>1, <2>2 DEF ConsoleTypeOK
<1> QED
  BY <1>3, <1>4, <1>5, <1>6, <1>7, <1>8, <1>9 DEF RunControl

LEMMA CallbackKeeps ==
  ASSUME ConsoleTypeOK, RunControl, Callback
  PROVE  RunControl'
<1> USE DEF Press, machineVars, windowVars
<1>1. "reset" \in Changes /\ "flash" \in Changes /\ "toggle_breakpoint" \in Changes
      /\ "clear_breakpoints" \in Changes
  BY DEF Changes
<1>2. powerButton \in BOOLEAN /\ runButton \in BOOLEAN
  BY DEF ConsoleTypeOK
<1>3. ASSUME NEW c \in Changes, todo' = Around(c), todo = <<>>,
             UNCHANGED <<debug, command, current, handles, worker, ack, runButton>>
      PROVE  RunControl'
  <2>1. todo' = <<"read_state", "stop", c, "run_again">>
    BY <1>3, Concatenated
  <2>2. Planned(<<"read_state", "stop", c, "run_again">>)
    BY PlannedCallbacks
  <2>3. \A i \in DOMAIN <<"read_state", "stop", c, "run_again">> :
            <<"read_state", "stop", c, "run_again">>[i] # "run"
    BY DEF Changes
  <2> QED
    BY <1>2, <1>3, <2>1, <2>2, <2>3, Begins
<1>4. ASSUME todo' = <<"stop">>, todo = <<>>,
             UNCHANGED <<debug, command, current, handles, worker, ack>>
      PROVE  RunControl'
  <2>1. Planned(<<"stop">>)
    BY <1>1, PlannedCallbacks
  <2>2. \A i \in DOMAIN <<"stop">> : <<"stop">>[i] # "run"
    OBVIOUS
  <2> QED
    BY <1>4, <2>1, <2>2, Begins
<1>5. ASSUME todo' = <<"stop", "release_run">>, todo = <<>>, debug,
             UNCHANGED <<debug, command, current, handles, worker, ack, runButton>>
      PROVE  RunControl'
  <2>1. Planned(<<"stop", "release_run">>)
    BY <1>1, <1>5, PlannedCallbacks
  <2>2. \A i \in DOMAIN <<"stop", "release_run">> : <<"stop", "release_run">>[i] # "run"
    OBVIOUS
  <2> QED
    BY <1>2, <1>5, <2>1, <2>2, Begins
<1>6. CASE PressPower
  <2>1. CASE powerButton
    <3>1. CASE debug
      <4>1. todo' = <<"stop", "release_run">>
        BY <1>6, <2>1, <3>1, Concatenated DEF PressPower
      <4> QED
        BY <1>5, <1>6, <3>1, <4>1 DEF PressPower
    <3>2. CASE ~debug
      <4>1. todo' = <<"stop">>
        BY <1>6, <2>1, <3>2, Concatenated DEF PressPower
      <4> QED
        BY <1>4, <1>6, <4>1 DEF PressPower
    <3> QED
      BY <3>1, <3>2
  <2>2. CASE ~powerButton /\ debug
    <3>1. PowerOnCalls = Around("reset")
      BY <2>2, Concatenated DEF PowerOnCalls
    <3> QED
      BY <1>1, <1>3, <1>6, <2>2, <3>1 DEF PressPower
  <2>3. CASE ~powerButton /\ ~debug
    <3>0. todo' = <<"read_state", "stop", "reset", "run_again">> \o <<"run">>
      <4>1. todo' = Around("reset") \o <<"run">>
        BY <1>6, <2>3 DEF PressPower, PowerOnCalls
      <4> QED
        BY <4>1, Concatenated
    <3>1. todo' = <<"read_state", "stop", "reset", "run_again", "run">>
      BY <3>0, Concatenated
    <3>2. Planned(<<"read_state", "stop", "reset", "run_again", "run">>)
      BY <1>1, PlannedCallbacks
    <3> QED
      BY <1>6, <2>3, <3>1, <3>2, Begins DEF PressPower
  <2> QED
    BY <2>1, <2>2, <2>3
<1>7. CASE PressRun
  <2>1. CASE runButton
    BY <1>4, <1>7, <2>1 DEF PressRun
  <2>2. CASE ~runButton /\ powerButton
    <3>1. todo' = <<"run">> /\ runButton'
      BY <1>7, <2>2 DEF PressRun, PoweredBefore
    <3>2. Planned(<<"run">>)
      BY <1>1, PlannedCallbacks
    <3> QED
      BY <1>7, <3>1, <3>2, Begins DEF PressRun
  <2>3. CASE ~runButton /\ ~powerButton
    <3>1. PowerOnCalls = <<"read_state", "stop", "reset", "run_again">>
      BY <1>7, Concatenated DEF PressRun, PowerOnCalls
    <3>2. todo' = <<"read_state", "stop", "reset", "run_again", "run">> /\ runButton'
      <4>1. todo' = <<"read_state", "stop", "reset", "run_again">> \o <<"run">> /\ runButton'
        BY <1>7, <2>3, <3>1 DEF PressRun, PoweredBefore
      <4> QED
        BY <4>1, Concatenated
    <3>3. Planned(<<"read_state", "stop", "reset", "run_again", "run">>)
      BY <1>1, PlannedCallbacks
    <3> QED
      BY <1>7, <3>2, <3>3, Begins DEF PressRun
  <2> QED
    BY <2>1, <2>2, <2>3
<1>8. CASE PressStep
  <2>1. CASE powerButton
    <3>1. todo' = <<"step">>
      BY <1>8, <2>1 DEF PressStep, PoweredBefore
    <3>2. Planned(<<"step">>)
      BY <1>1, <1>8, PlannedCallbacks DEF PressStep
    <3>3. \A i \in DOMAIN <<"step">> : <<"step">>[i] # "run"
      OBVIOUS
    <3> QED
      BY <1>2, <1>8, <3>1, <3>2, <3>3, Begins DEF PressStep
  <2>2. CASE ~powerButton
    <3> DEFINE plan == <<"read_state", "stop", "reset", "run_again", "step">>
    <3>1. PowerOnCalls = <<"read_state", "stop", "reset", "run_again">>
      BY <1>8, Concatenated DEF PressStep, PowerOnCalls
    <3>2. todo' = plan
      BY <1>8, <2>2, <3>1, Concatenated DEF PressStep, PoweredBefore
    <3>3. Planned(plan)
      BY <1>1, <1>8, PlannedCallbacks DEF PressStep
    <3>4. (\A i \in DOMAIN plan : plan[i] # "run") /\ plan # <<>>
      OBVIOUS
    <3>5. todo = <<>> /\ UNCHANGED <<debug, command, current, handles, worker, ack, runButton>>
      BY <1>8 DEF PressStep
    <3> HIDE DEF plan
    <3> QED
      BY <1>2, <3>2, <3>3, <3>4, <3>5, Begins
  <2> QED
    BY <2>1, <2>2
<1>9. CASE PressReset
  BY <1>1, <1>3, <1>9 DEF PressReset
<1>10. CASE PressFirmware
  <2> DEFINE plan == <<"read_state", "stop", "flash", "reset", "run_again">>
  <2>1. Planned(plan)
    BY <1>1, PlannedCallbacks
  <2>4. (\A i \in DOMAIN plan : plan[i] # "run") /\ plan # <<>>
    OBVIOUS
  <2>2. todo' = plan
    BY <1>10 DEF PressFirmware
  <2>3. todo = <<>> /\ UNCHANGED <<debug, command, current, handles, worker, ack, runButton>>
    BY <1>10 DEF PressFirmware
  <2> HIDE DEF plan
  <2> QED
    BY <1>2, <2>1, <2>2, <2>3, <2>4, Begins
<1>11. CASE PressCartridge
  BY <1>1, <1>3, <1>11 DEF PressCartridge
<1>12. CASE PressBreakpoint
  BY <1>1, <1>3, <1>12 DEF PressBreakpoint
<1>13. CASE PressClear
  BY <1>1, <1>3, <1>13 DEF PressClear
<1>14. CASE PressRecord
  BY <1>4, <1>14 DEF PressRecord
<1>15. CASE VideoTimerTick
  BY <1>5, <1>15 DEF VideoTimerTick, BreakpointCalls
<1> QED
  BY <1>6, <1>7, <1>8, <1>9, <1>10, <1>11, <1>12, <1>13, <1>14, <1>15 DEF Callback

-----------------------------------------------------------------------------
(* Which calls are left, wherever they stand.                                 *)
LEMMA Left ==
  ASSUME NEW calls \in Seq(CallNames), todo \in Seq(CallNames), todo # <<>>, Then(calls)
  PROVE  /\ todo' \in Seq(CallNames) /\ 1 \in DOMAIN todo /\ todo[1] = Head1
         /\ \A i \in DOMAIN todo' : \/ \E k \in DOMAIN calls : todo'[i] = calls[k]
                                    \/ \E k \in 2..Len(todo) : todo'[i] = todo[k]
         /\ \A k \in DOMAIN calls : \E i \in DOMAIN todo' : todo'[i] = calls[k]
         /\ \A k \in DOMAIN todo : k # 1 => k \in 2..Len(todo) /\ \E i \in DOMAIN todo' : todo'[i] = todo[k]
<1>1. /\ todo' \in Seq(CallNames)
      /\ Len(todo') = Len(calls) + Len(todo) - 1 /\ Len(todo) >= 1
      /\ \A i \in 1..Len(calls) : todo'[i] = calls[i]
      /\ \A i \in 1..Len(todo') :
            i > Len(calls) => i - Len(calls) + 1 \in 1..Len(todo) /\ todo'[i] = todo[i - Len(calls) + 1]
      /\ \A i \in 2..Len(todo) :
            i + Len(calls) - 1 \in 1..Len(todo') /\ todo'[i + Len(calls) - 1] = todo[i]
  BY ThenPlaces
<1>2. Len(todo) \in Nat /\ Len(calls) \in Nat /\ Len(todo') \in Nat /\ DOMAIN todo = 1..Len(todo)
      /\ DOMAIN todo' = 1..Len(todo') /\ DOMAIN calls = 1..Len(calls) /\ todo[1] = Head1
  BY <1>1, LenProperties, HeadTailProperties DEF Head1
<1>3. ASSUME NEW i \in DOMAIN todo'
      PROVE  \/ \E k \in DOMAIN calls : todo'[i] = calls[k]
             \/ \E k \in 2..Len(todo) : todo'[i] = todo[k]
  <2>1. CASE i <= Len(calls)
    BY <1>1, <1>2, <2>1
  <2>2. CASE i > Len(calls)
    <3>1. i - Len(calls) + 1 \in 2..Len(todo)
      BY <1>1, <1>2, <2>2
    <3> QED
      BY <1>1, <1>2, <2>2, <3>1
  <2> QED
    BY <1>2, <2>1, <2>2
<1>4. \A k \in DOMAIN calls : k \in DOMAIN todo'
  BY <1>1, <1>2
<1>5. \A k \in DOMAIN todo : k # 1 => k \in 2..Len(todo)
  BY <1>2
<1>6. \A k \in DOMAIN calls : \E i \in DOMAIN todo' : todo'[i] = calls[k]
  BY <1>1, <1>2, <1>4
<1>7. \A k \in 2..Len(todo) : \E i \in DOMAIN todo' : todo'[i] = todo[k]
  BY <1>1, <1>2
<1>8. todo' \in Seq(CallNames) /\ 1 \in DOMAIN todo /\ todo[1] = Head1
  BY <1>1, <1>2
<1> QED
  BY <1>3, <1>5, <1>6, <1>7, <1>8

(* What any call keeps of the button's conditions.                            *)
LEMMA Advances ==
  ASSUME ConsoleTypeOK, RunControl, todo # <<>>, UNCHANGED <<debug, runButton>>,
         NEW calls \in Seq(CallNames), Then(calls),
         current' = IF Head1 = "read_state" THEN command ELSE current,
         \A k \in DOMAIN calls : calls[k] \notin {"read_state", "run_again"},
         ButtonUp => \A k \in DOMAIN calls : calls[k] \notin Starting \cup {"run"}
  PROVE  /\ todo \in Seq(CallNames) /\ 1 \in DOMAIN todo /\ todo[1] = Head1
         /\ NoStartPending' /\ StaysStopped' /\ ReadsStop'
<1>1. PlanOK /\ todo \in Seq(CallNames)
  BY DEF RunControl, PlanOK
<1>2. /\ todo' \in Seq(CallNames) /\ 1 \in DOMAIN todo /\ todo[1] = Head1
      /\ \A i \in DOMAIN todo' : \/ \E k \in DOMAIN calls : todo'[i] = calls[k]
                                 \/ \E k \in 2..Len(todo) : todo'[i] = todo[k]
  BY <1>1, Left
<1>3. \A k \in 2..Len(todo) : k \in DOMAIN todo /\ todo[k] # "read_state"
  BY <1>1, BehindHead
<1>4. NoStartPending'
  BY <1>2, <1>3 DEF NoStartPending, ButtonUp, RunControl
<1>5. \A i \in DOMAIN todo' : todo'[i] # "read_state"
  BY <1>2, <1>3
<1>6. todo' # <<>> => 1 \in DOMAIN todo' /\ todo'[1] = Head(todo')
  BY <1>2, LenProperties, HeadTailProperties
<1>7. ReadsStop'
  BY <1>5, <1>6 DEF ReadsStop, Call, Head1
<1>8. StaysStopped'
  <2> SUFFICES ASSUME ButtonUp, NEW i \in DOMAIN todo', todo'[i] = "run_again"
               PROVE  current' = "Stop"
    BY DEF StaysStopped, ButtonUp
  <2>1. PICK k \in 2..Len(todo) : todo[k] = "run_again"
    BY <1>2
  <2>2. current = "Stop" \/ Call("read_state")
    BY <1>3, <2>1 DEF RunControl, StaysStopped
  <2>3. CASE Call("read_state")
    BY <2>3, <2>2 DEF RunControl, ReadsStop, Call
  <2>4. CASE ~Call("read_state")
    BY <2>2, <2>4 DEF Call
  <2> QED
    BY <2>3, <2>4
<1> QED
  BY <1>1, <1>2, <1>4, <1>7, <1>8

(* A call that is done and changes no thread.                                 *)
LEMMA QuietStep ==
  ASSUME ConsoleTypeOK, RunControl, todo # <<>>, Then(<<>>),
         UNCHANGED <<debug, runButton, command, handles, worker, ack>>,
         current' = IF Head1 = "read_state" THEN command ELSE current,
         Head1 \notin {"spawn", "drop", "command_stop"},
         Head1 \in Quieting => AllDone,
         Head1 = "stop" => handles = {}
  PROVE  RunControl'
<1>1. PlanOK /\ todo \in Seq(CallNames)
  BY DEF RunControl, PlanOK
<1>2. <<>> \in Seq(CallNames) /\ DOMAIN <<>> = {}
  OBVIOUS
<1>3. PlanOK'
  BY <1>1, TailPlan DEF AllDone
<1>4. NoStartPending' /\ StaysStopped' /\ ReadsStop'
  BY <1>2, Advances
<1>5. /\ 1 \in DOMAIN todo /\ todo[1] = Head1
      /\ \A k \in DOMAIN todo : k # 1 => \E i \in DOMAIN todo' : todo'[i] = todo[k]
  BY <1>1, <1>2, Left
<1>6. NoOrphan' /\ LeavesWhenTold' /\ HitIsKept'
  BY DEF RunControl, NoOrphan, LeavesWhenTold, HitIsKept
<1>7. RunsHeld'
  BY <1>5 DEF RunControl, RunsHeld
<1>8. HeldIsDropped'
  <2> SUFFICES ASSUME ButtonUp, handles # {}
               PROVE  \E i \in DOMAIN todo' : todo'[i] \in {"stop", "drop"}
    BY DEF HeldIsDropped, ButtonUp
  <2>1. PICK k \in DOMAIN todo : todo[k] \in {"stop", "drop"}
    BY DEF RunControl, HeldIsDropped
  <2> QED
    BY <1>5, <2>1
<1>9. RunIsStopped'
  <2> SUFFICES ASSUME ButtonUp, command = "Run"
               PROVE  \E i \in DOMAIN todo' : todo'[i] \in {"stop", "command_stop"}
    BY DEF RunIsStopped, ButtonUp
  <2>1. handles # {}
    BY DEF RunControl, RunsHeld, NoStartPending, Starting
  <2>2. PICK k \in DOMAIN todo : todo[k] \in {"stop", "command_stop"}
    BY DEF RunControl, RunIsStopped
  <2> QED
    BY <1>5, <2>1, <2>2
<1> QED
  BY <1>3, <1>4, <1>6, <1>7, <1>8, <1>9 DEF RunControl

LEMMA Idle ==
  ASSUME NoOrphan, handles = {} \/ \A w \in handles : worker[w] = "done"
  PROVE  AllDone
  BY DEF NoOrphan, AllDone

LEMMA QuietCalls ==
  ASSUME ConsoleTypeOK, RunControl,
         \/ SystemStop /\ handles = {}
         \/ SystemRun /\ handles # {}
         \/ RunAgain /\ current # "Run"
         \/ ReleaseRun /\ ~runButton
         \/ Join \/ Await \/ ReadState \/ Change \/ StepEnd
  PROVE  RunControl'
<1> USE DEF Call, machineVars, windowVars, threadVars
<1>1. ASSUME NoOrphan, handles = {} \/ \A w \in handles : worker[w] = "done" PROVE AllDone
  BY <1>1, Idle
<1>2. NoOrphan /\ runButton \in BOOLEAN
  BY DEF RunControl, ConsoleTypeOK
<1>3. CASE SystemStop /\ handles = {}
  BY <1>1, <1>2, <1>3, QuietStep DEF SystemStop
<1>4. CASE SystemRun /\ handles # {}
  BY <1>4, QuietStep DEF SystemRun, Quieting
<1>5. CASE RunAgain /\ current # "Run"
  BY <1>5, QuietStep DEF RunAgain, Quieting
<1>6. CASE ReleaseRun /\ ~runButton
  BY <1>2, <1>6, QuietStep DEF ReleaseRun, Quieting
<1>7. CASE Join
  BY <1>1, <1>2, <1>7, QuietStep DEF Join
<1>8. CASE Await
  BY <1>8, QuietStep DEF Await, Quieting
<1>9. CASE ReadState
  BY <1>9, QuietStep DEF ReadState, Quieting
<1>10. CASE Change
  <2>1. /\ Head1 \in Changes /\ todo # <<>> /\ Then(<<>>)
        /\ UNCHANGED <<debug, runButton, command, handles, worker, ack, current>>
    BY <1>10 DEF Change
  <2> QED
    BY <2>1, QuietStep DEF Quieting, Changes
<1>11. CASE StepEnd
  BY <1>11, QuietStep DEF StepEnd, Quieting
<1> QED
  BY <1>3, <1>4, <1>5, <1>6, <1>7, <1>8, <1>9, <1>10, <1>11

(* The calls that start and stop threads.                                     *)
LEMMA StopKeeps ==
  ASSUME ConsoleTypeOK, RunControl, SystemStop, handles # {}
  PROVE  RunControl'
<1> USE DEF Call, machineVars, windowVars, threadVars
<1>1. todo # <<>> /\ Head1 = "stop" /\ Then(StopCalls) /\ PlanOK /\ todo \in Seq(CallNames)
      /\ UNCHANGED <<debug, runButton, command, handles, worker, ack, current>>
  BY DEF SystemStop, RunControl, PlanOK
<1>2. StopCalls \in Seq(CallNames) /\ 1 \in DOMAIN StopCalls /\ StopCalls[1] = "command_stop"
      /\ 3 \in DOMAIN StopCalls /\ StopCalls[3] = "drop"
      /\ \A k \in DOMAIN StopCalls :
            StopCalls[k] \notin {"read_state", "run_again"} \cup Starting \cup {"run"}
  BY DEF StopCalls, CallNames, Quieting, NeedQuiet, Starting
<1>3. PlanOK'
  BY <1>1, StopPlan
<1>4. NoStartPending' /\ StaysStopped' /\ ReadsStop'
  BY <1>1, <1>2, Advances
<1>5. \A k \in DOMAIN StopCalls : \E i \in DOMAIN todo' : todo'[i] = StopCalls[k]
  BY <1>1, <1>2, Left
<1>6. NoOrphan' /\ LeavesWhenTold' /\ HitIsKept' /\ RunsHeld'
  BY <1>1 DEF RunControl, NoOrphan, LeavesWhenTold, HitIsKept, RunsHeld
<1>7. HeldIsDropped' /\ RunIsStopped'
  BY <1>2, <1>5 DEF HeldIsDropped, RunIsStopped
<1> QED
  BY <1>3, <1>4, <1>6, <1>7 DEF RunControl

LEMMA RunKeeps ==
  ASSUME ConsoleTypeOK, RunControl, SystemRun, handles = {}
  PROVE  RunControl'
<1> USE DEF Call, machineVars, windowVars, threadVars
<1>1. todo # <<>> /\ Head1 = "run" /\ Then(RunCalls) /\ PlanOK /\ todo \in Seq(CallNames)
      /\ UNCHANGED <<debug, runButton, command, handles, worker, ack, current>>
  BY DEF SystemRun, RunControl, PlanOK
<1>2. RunCalls \in Seq(CallNames) /\ 3 \in DOMAIN RunCalls /\ RunCalls[3] = "spawn"
      /\ \A k \in DOMAIN RunCalls : RunCalls[k] \notin {"read_state", "run_again"}
  BY DEF RunCalls, CallNames, Launches, Starting
<1>3. 1 \in DOMAIN todo /\ todo[1] = "run"
  BY <1>1, <1>2, Left
<1>4. ~ButtonUp
  BY <1>3 DEF RunControl, NoStartPending
<1>5. PlanOK'
  BY <1>1, RunPlan
<1>6. NoStartPending' /\ StaysStopped' /\ ReadsStop'
  BY <1>1, <1>2, <1>4, Advances
<1>7. \A k \in DOMAIN RunCalls : \E i \in DOMAIN todo' : todo'[i] = RunCalls[k]
  BY <1>1, <1>2, Left
<1>8. RunsHeld'
  BY <1>2, <1>7 DEF RunsHeld
<1>9. NoOrphan' /\ LeavesWhenTold' /\ HitIsKept'
  BY <1>1 DEF RunControl, NoOrphan, LeavesWhenTold, HitIsKept
<1>10. HeldIsDropped' /\ RunIsStopped'
  BY <1>1, <1>4 DEF HeldIsDropped, RunIsStopped, ButtonUp
<1> QED
  BY <1>5, <1>6, <1>8, <1>9, <1>10 DEF RunControl

LEMMA AgainKeeps ==
  ASSUME ConsoleTypeOK, RunControl, RunAgain, current = "Run"
  PROVE  RunControl'
<1> USE DEF Call, machineVars, windowVars, threadVars
<1>1. todo # <<>> /\ Head1 = "run_again" /\ Then(<<"run">>) /\ PlanOK /\ todo \in Seq(CallNames)
      /\ UNCHANGED <<debug, runButton, command, handles, worker, ack, current>>
  BY DEF RunAgain, RunControl, PlanOK
<1>2. <<"run">> \in Seq(CallNames)
      /\ \A k \in DOMAIN <<"run">> : <<"run">>[k] \notin {"read_state", "run_again"}
  BY DEF CallNames, Launches
<1>3. /\ 1 \in DOMAIN todo /\ todo[1] = "run_again"
      /\ \A k \in DOMAIN todo : k # 1 => \E i \in DOMAIN todo' : todo'[i] = todo[k]
  BY <1>1, <1>2, Left
<1>4. ~ButtonUp
  BY <1>1, <1>3 DEF RunControl, StaysStopped
<1>5. PlanOK'
  BY <1>1, AgainPlan
<1>6. NoStartPending' /\ StaysStopped' /\ ReadsStop'
  BY <1>1, <1>2, <1>4, Advances
<1>7. RunsHeld'
  BY <1>1, <1>3 DEF RunControl, RunsHeld
<1>8. NoOrphan' /\ LeavesWhenTold' /\ HitIsKept'
  BY <1>1 DEF RunControl, NoOrphan, LeavesWhenTold, HitIsKept
<1>9. HeldIsDropped' /\ RunIsStopped'
  BY <1>1, <1>4 DEF HeldIsDropped, RunIsStopped, ButtonUp
<1> QED
  BY <1>5, <1>6, <1>7, <1>8, <1>9 DEF RunControl

(* The steps that tell, forget or start the workers remove the head.          *)
LEMMA ThreadStep ==
  ASSUME ConsoleTypeOK, RunControl, todo # <<>>, Then(<<>>),
         UNCHANGED <<debug, runButton, current>>, Head1 \in Starting \cup {"command_stop", "drop"}
  PROVE  /\ PlanOK /\ todo \in Seq(CallNames) /\ 1 \in DOMAIN todo /\ todo[1] = Head1
         /\ NoStartPending' /\ StaysStopped' /\ ReadsStop'
         /\ \A k \in DOMAIN todo : k # 1 => \E i \in DOMAIN todo' : todo'[i] = todo[k]
         /\ \A i \in DOMAIN todo' : \E k \in 2..Len(todo) : todo'[i] = todo[k]
<1>1. PlanOK /\ todo \in Seq(CallNames)
  BY DEF RunControl, PlanOK
<1>2. <<>> \in Seq(CallNames) /\ DOMAIN <<>> = {}
  OBVIOUS
<1>3. Head1 # "read_state"
  BY DEF Starting
<1>4. NoStartPending' /\ StaysStopped' /\ ReadsStop'
  BY <1>2, <1>3, Advances
<1> QED
  BY <1>1, <1>2, <1>4, Left

LEMMA CommandStopKeeps ==
  ASSUME ConsoleTypeOK, RunControl, CommandStop
  PROVE  RunControl'
<1> USE DEF Call, machineVars, windowVars, threadVars
<1>1. todo # <<>> /\ Head1 = "command_stop" /\ Then(<<>>) /\ command' = "Stop"
      /\ UNCHANGED <<debug, runButton, handles, worker, ack, current>>
  BY DEF CommandStop
<1>2. /\ PlanOK /\ todo[1] = "command_stop"
      /\ NoStartPending' /\ StaysStopped' /\ ReadsStop'
      /\ \A k \in DOMAIN todo : k # 1 => \E i \in DOMAIN todo' : todo'[i] = todo[k]
  BY <1>1, ThreadStep
<1>3. PlanOK'
  BY <1>1, <1>2, TailPlan DEF AllDone, Quieting
<1>4. NoOrphan' /\ LeavesWhenTold' /\ HitIsKept' /\ RunsHeld' /\ RunIsStopped'
  BY <1>1 DEF RunControl, NoOrphan, LeavesWhenTold, HitIsKept, RunsHeld, RunIsStopped
<1>5. HeldIsDropped'
  BY <1>1, <1>2 DEF RunControl, HeldIsDropped, ButtonUp
<1> QED
  BY <1>2, <1>3, <1>4, <1>5 DEF RunControl

LEMMA DropKeeps ==
  ASSUME ConsoleTypeOK, RunControl, Drop
  PROVE  RunControl'
<1> USE DEF Call, machineVars, windowVars, threadVars
<1>1. todo # <<>> /\ Head1 = "drop" /\ Then(<<>>) /\ handles' = {}
      /\ UNCHANGED <<debug, runButton, command, worker, current>>
  BY DEF Drop
<1>2. /\ PlanOK /\ todo \in Seq(CallNames) /\ 1 \in DOMAIN todo /\ todo[1] = "drop"
      /\ NoStartPending' /\ StaysStopped' /\ ReadsStop'
  BY <1>1, ThreadStep
<1>3. PlanOK'
  BY <1>1, <1>2, TailPlan DEF AllDone, Quieting
<1>4. \A j \in 1..1 : j = 1
  OBVIOUS
<1>5. AllDone
  BY <1>2, <1>4 DEF PlanOK, StopsFirst, NeedQuiet, Quieting
<1>6. command = "Stop"
  BY <1>2, <1>4 DEF PlanOK, DropsWhenTold
<1>7. NoOrphan' /\ LeavesWhenTold'
  BY <1>1, <1>5 DEF RunControl, NoOrphan, LeavesWhenTold, AllDone
<1>8. HitIsKept' /\ RunsHeld' /\ RunIsStopped' /\ HeldIsDropped'
  BY <1>1, <1>6 DEF HitIsKept, RunsHeld, RunIsStopped, HeldIsDropped
<1> QED
  BY <1>2, <1>3, <1>7, <1>8 DEF RunControl

LEMMA StartKeeps ==
  ASSUME ConsoleTypeOK, RunControl, AckStop \/ CommandRun \/ Spawn
  PROVE  RunControl'
<1> USE DEF Call, machineVars, windowVars, threadVars
<1>1. todo # <<>> /\ Head1 \in Starting /\ Then(<<>>) /\ UNCHANGED <<debug, runButton, current>>
  BY DEF AckStop, CommandRun, Spawn, Starting
<1>2. /\ PlanOK /\ todo \in Seq(CallNames) /\ 1 \in DOMAIN todo /\ todo[1] = Head1
      /\ NoStartPending' /\ StaysStopped' /\ ReadsStop'
      /\ \A k \in DOMAIN todo : k # 1 => \E i \in DOMAIN todo' : todo'[i] = todo[k]
  BY <1>1, ThreadStep
<1>3. handles = {} /\ AllDone
  BY <1>1, <1>2, Idle DEF PlanOK, StartsAlone, RunControl
<1>4. ~ButtonUp /\ ~ButtonUp'
  BY <1>1, <1>2 DEF RunControl, NoStartPending, ButtonUp
<1>5. HeldIsDropped' /\ RunIsStopped'
  BY <1>4 DEF HeldIsDropped, RunIsStopped
<1>6. CASE AckStop
  <2>1. PlanOK'
    BY <1>1, <1>2, <1>6, TailPlan DEF AckStop, AllDone, Quieting
  <2>2. NoOrphan' /\ LeavesWhenTold' /\ HitIsKept'
    BY <1>3, <1>6 DEF AckStop, RunControl, NoOrphan, LeavesWhenTold, HitIsKept
  <2>3. RunsHeld'
    BY <1>2, <1>6 DEF AckStop, RunControl, RunsHeld
  <2> QED
    BY <1>2, <1>5, <2>1, <2>2, <2>3 DEF RunControl
<1>7. CASE CommandRun
  <2>1. PlanOK'
    BY <1>1, <1>2, <1>7, TailPlan DEF CommandRun, AllDone, Launches, Quieting
  <2>2. NoOrphan' /\ LeavesWhenTold' /\ HitIsKept'
    BY <1>3, <1>7 DEF CommandRun, RunControl, NoOrphan, LeavesWhenTold, HitIsKept, AllDone
  <2>3. Len(todo) \in Nat /\ DOMAIN todo = 1..Len(todo)
    BY <1>2, LenProperties
  <2>4. 1 + 1 \in DOMAIN todo /\ todo[1 + 1] = "spawn"
    BY <1>2, <1>7, <2>3 DEF CommandRun, PlanOK, SpawnsNext
  <2>5. RunsHeld'
    BY <1>2, <2>4 DEF RunsHeld
  <2> QED
    BY <1>2, <1>5, <2>1, <2>2, <2>5 DEF RunControl
<1>8. CASE Spawn
  <2>1. PlanOK'
    BY <1>1, <1>2, <1>8, TailPlan DEF Spawn, Launches, Quieting
  <2>2. /\ handles' = Workers /\ Workers # {} /\ debug' = debug
        /\ \A w \in AllWorkers : worker'[w] = IF w \in Workers THEN "started" ELSE "done"
    BY <1>8 DEF Spawn, Workers
  <2>3. NoOrphan' /\ LeavesWhenTold' /\ RunsHeld'
    BY <2>2 DEF NoOrphan, LeavesWhenTold, RunsHeld
  <2>4. HitIsKept'
    BY <2>2 DEF HitIsKept, Workers, AllWorkers
  <2> QED
    BY <1>2, <1>5, <2>1, <2>3, <2>4 DEF RunControl
<1> QED
  BY <1>6, <1>7, <1>8

LEMMA StepBeginKeeps ==
  ASSUME ConsoleTypeOK, RunControl, StepBegin
  PROVE  RunControl'
<1> USE DEF Call, machineVars, windowVars, threadVars
<1>1. todo # <<>> /\ Head1 = "step" /\ Then(<<"step_end">>) /\ Head1 \in Ending
      /\ UNCHANGED <<debug, runButton, command, handles, worker, ack, current>>
  BY DEF StepBegin, Ending
<1>2. <<"step_end">> \in Seq(CallNames)
      /\ \A k \in DOMAIN <<"step_end">> :
            <<"step_end">>[k] \notin {"read_state", "run_again"} \cup Starting \cup {"run"}
  BY DEF CallNames, Ending, Starting
<1>3. PlanOK /\ DOMAIN todo = 1..1 /\ todo[1] = "step"
  BY <1>1, LastPlan DEF RunControl
<1>4. PlanOK' /\ DOMAIN todo' = 1..1 /\ todo'[1] = "step_end"
  BY <1>1, <1>3, ReplacedLast
<1>5. NoStartPending' /\ StaysStopped' /\ ReadsStop'
  BY <1>1, <1>2, Advances
<1>6. \A i \in 1..1 : i = 1
  OBVIOUS
<1>7. NoOrphan' /\ LeavesWhenTold' /\ HitIsKept'
  BY <1>1 DEF RunControl, NoOrphan, LeavesWhenTold, HitIsKept
<1>8. RunsHeld' /\ HeldIsDropped' /\ RunIsStopped'
  BY <1>1, <1>3, <1>6 DEF RunControl, RunsHeld, HeldIsDropped, RunIsStopped, ButtonUp
<1> QED
  BY <1>4, <1>5, <1>7, <1>8 DEF RunControl

LEMMA ReleaseKeeps ==
  ASSUME ConsoleTypeOK, RunControl, ReleaseRun, runButton
  PROVE  RunControl'
<1> USE DEF Call, machineVars, windowVars, threadVars
<1>1. todo # <<>> /\ Head1 = "release_run" /\ Then(<<"stop">>) /\ Head1 \in Ending
      /\ UNCHANGED <<debug, command, handles, worker, ack, current>>
  BY DEF ReleaseRun, Ending
<1>2. PlanOK /\ DOMAIN todo = 1..1 /\ todo[1] = "release_run"
  BY <1>1, LastPlan DEF RunControl
<1>3. PlanOK' /\ DOMAIN todo' = 1..1 /\ todo'[1] = "stop"
  BY <1>1, <1>2, ReplacedLast
<1>4. \A i \in 1..1 : i = 1
  OBVIOUS
<1>5. todo' \in Seq(CallNames) /\ 1 \in DOMAIN todo'
  BY <1>3, <1>4 DEF PlanOK
<1>6. Head(todo') = "stop"
  BY <1>3, <1>5, HeadTailProperties, EmptySeq
<1>7. NoStartPending' /\ StaysStopped' /\ ReadsStop'
  BY <1>3, <1>4, <1>6 DEF NoStartPending, StaysStopped, ReadsStop, Head1, Starting
<1>8. NoOrphan' /\ LeavesWhenTold' /\ HitIsKept'
  BY <1>1 DEF RunControl, NoOrphan, LeavesWhenTold, HitIsKept
<1>9. RunsHeld' /\ HeldIsDropped' /\ RunIsStopped'
  BY <1>1, <1>2, <1>3, <1>4, <1>5 DEF RunControl, RunsHeld, HeldIsDropped, RunIsStopped
<1> QED
  BY <1>3, <1>7, <1>8, <1>9 DEF RunControl

(* A worker ends by itself; what the window's thread plans does not change.   *)
LEMMA WorkerKeeps ==
  ASSUME ConsoleTypeOK, RunControl, NEW w \in AllWorkers, WorkerStep(w)
  PROVE  RunControl'
<1> USE DEF WorkerFrame, WorkerGoto, machineVars, windowVars
<1>1. UNCHANGED <<todo, command, current, handles, debug, runButton>> /\ worker[w] # "done"
  BY DEF WorkerStep, WorkerStart, WorkerTest, WorkerExecute, WorkerTick, WorkerEnd
<1>2. ~AllDone /\ w \in handles
  BY <1>1 DEF AllDone, RunControl, NoOrphan
<1>3. worker \in [AllWorkers -> WorkerPlaces] /\ ack \in [AllWorkers -> {"Stop", "Run", "Breakpoint"}]
      /\ command \in {"Stop", "Run"} /\ handles \subseteq Workers
  BY DEF ConsoleTypeOK
<1>4. PlanOK'
  BY <1>1, <1>2 DEF RunControl, PlanOK, StopsFirst, DropsWhenTold, StartsAlone, SpawnsNext,
                    SpawnsOnce, LastCalls, ReadsFirst
<1>5. NoStartPending' /\ StaysStopped' /\ ReadsStop' /\ HeldIsDropped' /\ RunIsStopped' /\ RunsHeld'
  BY <1>1 DEF RunControl, NoStartPending, StaysStopped, ReadsStop, HeldIsDropped, RunIsStopped,
              RunsHeld, ButtonUp, Call, Head1
<1>6. \A v \in AllWorkers : v # w => worker'[v] = worker[v]
  BY <1>3 DEF WorkerStep, WorkerStart, WorkerTest, WorkerExecute, WorkerTick, WorkerEnd
<1>7. NoOrphan'
  BY <1>1, <1>2, <1>6 DEF RunControl, NoOrphan
<1>8. worker'[w] = "leave" => command = "Stop"
  BY <1>3 DEF WorkerStep, WorkerStart, WorkerTest, WorkerExecute, WorkerTick, WorkerEnd
<1>9. LeavesWhenTold'
  BY <1>1, <1>6, <1>8 DEF RunControl, LeavesWhenTold
<1>10. worker'[w] = "done" /\ command = "Run" => ack'[w] = "Breakpoint"
  BY <1>3 DEF WorkerStep, WorkerStart, WorkerTest, WorkerExecute, WorkerTick, WorkerEnd,
              EndState, RunControl, LeavesWhenTold
<1>11. debug => w = "system"
  BY <1>2, <1>3 DEF Workers
<1>12. HitIsKept'
  BY <1>1, <1>10, <1>11 DEF HitIsKept
<1> QED
  BY <1>4, <1>5, <1>7, <1>9, <1>12 DEF RunControl

-----------------------------------------------------------------------------
LEMMA StartsStopped ==
  ASSUME ConsoleInit
  PROVE  ConsoleInductive
<1> USE DEF ConsoleInit
<1>1. todo = <<>> /\ DOMAIN todo = {} /\ todo \in Seq(CallNames)
  OBVIOUS
<1>2. ConsoleTypeOK
  BY DEF ConsoleTypeOK, WorkerPlaces
<1>3. PlanOK
  BY <1>1 DEF PlanOK, StopsFirst, DropsWhenTold, StartsAlone, SpawnsNext, SpawnsOnce, LastCalls, ReadsFirst
<1>4. NoOrphan /\ LeavesWhenTold /\ HitIsKept /\ RunsHeld
  BY DEF NoOrphan, LeavesWhenTold, HitIsKept, RunsHeld
<1>5. NoStartPending /\ StaysStopped /\ ReadsStop /\ HeldIsDropped /\ RunIsStopped
  BY <1>1 DEF NoStartPending, StaysStopped, ReadsStop, HeldIsDropped, RunIsStopped, Call
<1> QED
  BY <1>2, <1>3, <1>4, <1>5 DEF ConsoleInductive, RunControl

LEMMA ConsoleTypes ==
  ASSUME ConsoleTypeOK, [ConsoleNext]_consoleVars
  PROVE  ConsoleTypeOK'
<1> USE DEF ConsoleTypeOK, machineVars, windowVars, threadVars, WorkerPlaces
<1>1. CASE Callback
  <2>1. UNCHANGED <<command, handles, worker, ack, current, machineVars>>
    BY <1>1 DEF Callback, PressPower, PressRun, PressStep, PressReset, PressFirmware, PressCartridge,
                PressBreakpoint, PressClear, PressRecord, VideoTimerTick, Press
  <2>2. powerButton' \in BOOLEAN /\ runButton' \in BOOLEAN /\ unseen' \in BOOLEAN
    BY <1>1 DEF Callback, PressPower, PressRun, PressStep, PressReset, PressFirmware, PressCartridge,
                PressBreakpoint, PressClear, PressRecord, VideoTimerTick
  <2> QED
    BY <2>1, <2>2 DEF Workers
<1>2. ASSUME UNCHANGED <<handles, worker, machineVars, powerButton>>,
             command' \in {"Stop", "Run"}, current' \in {"Stop", "Run"},
             ack' \in [AllWorkers -> {"Stop", "Run", "Breakpoint"}],
             runButton' \in BOOLEAN, unseen' \in BOOLEAN
      PROVE  ConsoleTypeOK'
  BY <1>2 DEF Workers
<1>3. CASE SystemStop \/ SystemRun \/ Join \/ Await \/ RunAgain \/ StepBegin
  <2>1. UNCHANGED <<threadVars, current, machineVars, windowVars>>
    BY <1>3 DEF SystemStop, SystemRun, Join, Await, RunAgain, StepBegin
  <2> QED
    BY <1>2, <2>1
<1>4. CASE CommandStop \/ CommandRun
  BY <1>2, <1>4 DEF CommandStop, CommandRun
<1>11. CASE Drop \/ AckStop
  <2>1. ack' = [ack EXCEPT !["system"] = "Stop"] \/ ack' = ack
    BY <1>11 DEF Drop, AckStop
  <2>2. ack' \in [AllWorkers -> {"Stop", "Run", "Breakpoint"}]
    BY <2>1
  <2>3. /\ UNCHANGED <<command, worker, unseen, current, machineVars, windowVars>>
        /\ handles' = {} \/ handles' = handles
    BY <1>11 DEF Drop, AckStop
  <2> QED
    BY <2>2, <2>3 DEF Workers
<1>5. CASE Spawn
  BY <1>5 DEF Spawn, Workers
<1>6. CASE ReadState
  BY <1>6 DEF ReadState, Workers
<1>7. CASE Change \/ StepEnd
  <2>1. UNCHANGED <<threadVars, current, debug, windowVars>> /\ pc' \in Addresses
    BY <1>7 DEF Change, StepEnd
  <2>2. breakpoints' \subseteq Addresses
    BY <1>7 DEF Change, StepEnd
  <2> QED
    BY <2>1, <2>2 DEF Workers
<1>8. CASE ReleaseRun
  BY <1>8 DEF ReleaseRun, Workers
<1>9. ASSUME NEW w \in AllWorkers, WorkerStep(w) PROVE ConsoleTypeOK'
  <2> USE DEF WorkerFrame, WorkerGoto, Workers
  <2>1. CASE WorkerStart(w)
    BY <2>1 DEF WorkerStart
  <2>2. CASE WorkerTest(w)
    BY <2>2 DEF WorkerTest
  <2>3. CASE WorkerExecute(w)
    BY <2>3 DEF WorkerExecute
  <2>4. CASE WorkerTick(w)
    BY <2>4 DEF WorkerTick
  <2>5. CASE WorkerEnd(w)
    BY <2>5 DEF WorkerEnd, EndState
  <2> QED
    BY <1>9, <2>1, <2>2, <2>3, <2>4, <2>5 DEF WorkerStep
<1>10. CASE UNCHANGED consoleVars
  BY <1>10 DEF consoleVars, Workers
<1> QED
  BY <1>1, <1>3, <1>4, <1>5, <1>6, <1>7, <1>8, <1>9, <1>10, <1>11 DEF ConsoleNext, CallStep

LEMMA ConsoleStep ==
  ASSUME ConsoleInductive, [ConsoleNext]_consoleVars
  PROVE  ConsoleInductive'
<1> USE DEF ConsoleInductive
<1>1. ConsoleTypeOK'
  BY ConsoleTypes
<1>2. runButton \in BOOLEAN /\ current \in {"Stop", "Run"}
  BY DEF ConsoleTypeOK
<1>3. CASE Callback
  BY <1>1, <1>3, CallbackKeeps
<1>4. CASE SystemStop \/ SystemRun \/ RunAgain
  <2>1. CASE SystemStop
    <3>1. CASE handles = {}
      BY <1>1, <2>1, <3>1, QuietCalls
    <3>2. CASE handles # {}
      BY <1>1, <2>1, <3>2, StopKeeps
    <3> QED
      BY <3>1, <3>2
  <2>2. CASE SystemRun
    BY <1>1, <2>2, QuietCalls, RunKeeps
  <2>3. CASE RunAgain
    <3>1. CASE current # "Run"
      BY <1>1, <2>3, <3>1, QuietCalls
    <3>2. CASE current = "Run"
      BY <1>1, <2>3, <3>2, AgainKeeps
    <3> QED
      BY <3>1, <3>2
  <2> QED
    BY <1>4, <2>1, <2>2, <2>3
<1>5. CASE CommandStop \/ Drop \/ AckStop \/ CommandRun \/ Spawn
  BY <1>1, <1>5, CommandStopKeeps, DropKeeps, StartKeeps
<1>6. CASE Join \/ Await \/ ReadState \/ Change \/ StepEnd
  BY <1>1, <1>6, QuietCalls
<1>7. CASE StepBegin
  BY <1>1, <1>7, StepBeginKeeps
<1>8. CASE ReleaseRun
  BY <1>1, <1>2, <1>8, QuietCalls, ReleaseKeeps
<1>9. ASSUME NEW w \in AllWorkers, WorkerStep(w) PROVE ConsoleInductive'
  BY <1>1, <1>9, WorkerKeeps
<1>10. CASE UNCHANGED consoleVars
  <2> USE <1>10 DEF consoleVars
  <2>1. PlanOK'
    BY DEF RunControl, PlanOK, StopsFirst, DropsWhenTold, StartsAlone, SpawnsNext,
           SpawnsOnce, LastCalls, ReadsFirst, AllDone
  <2>2. NoOrphan' /\ RunsHeld' /\ LeavesWhenTold' /\ HitIsKept'
    BY DEF RunControl, NoOrphan, RunsHeld, LeavesWhenTold, HitIsKept
  <2>3. NoStartPending' /\ StaysStopped' /\ ReadsStop' /\ HeldIsDropped' /\ RunIsStopped'
    BY DEF RunControl, NoStartPending, StaysStopped, ReadsStop, HeldIsDropped, RunIsStopped,
           ButtonUp, Call, Head1
  <2> QED
    BY <1>1, <2>1, <2>2, <2>3 DEF RunControl
<1> QED
  BY <1>3, <1>4, <1>5, <1>6, <1>7, <1>8, <1>9, <1>10 DEF ConsoleNext, CallStep

LEMMA ConsolePromises ==
  ASSUME ConsoleInductive
  PROVE  RunControlInv
<1>1. ConsoleTypeOK /\ RunControl /\ NoOrphan /\ PlanOK /\ todo \in Seq(CallNames)
  BY DEF ConsoleInductive, RunControl, PlanOK
<1>2. ChangesWhileStopped
  <2> SUFFICES ASSUME todo # <<>>, Head1 \in Changes PROVE AllDone
    BY DEF ChangesWhileStopped, AllDone
  <2>1. 1 \in DOMAIN todo /\ todo[1] = Head1
    BY <1>1, LenProperties, HeadTailProperties, EmptySeq DEF Head1
  <2>2. \A j \in 1..1 : j = 1
    OBVIOUS
  <2> QED
    BY <1>1, <2>1, <2>2 DEF PlanOK, StopsFirst, NeedQuiet, Changes, Quieting
<1>3. StepsAloneWhenStopped
  <2> SUFFICES ASSUME Call("step_end"), ~runButton PROVE AllDone
    BY DEF StepsAloneWhenStopped, AllDone, Drivers, Workers, AllWorkers
  <2>1. debug /\ DOMAIN todo = 1..1 /\ todo[1] = "step_end"
    BY <1>1, LastPlan DEF Call, Ending
  <2>2. \A i \in 1..1 : i = 1
    OBVIOUS
  <2>3. handles = {}
    BY <1>1, <2>1, <2>2 DEF RunControl, HeldIsDropped, ButtonUp
  <2> QED
    BY <1>1, <2>3, Idle
<1>4. todo = <<>> => DOMAIN todo = {}
  OBVIOUS
<1>5. NeverRunsUnnoticed
  BY <1>1, <1>4 DEF NeverRunsUnnoticed, RunControl, HeldIsDropped, ButtonUp
<1>6. HitIsPending
  BY <1>1, <1>4 DEF HitIsPending, RunControl, RunsHeld, RunIsStopped, HitIsKept, ButtonUp
<1> QED
  BY <1>1, <1>2, <1>3, <1>5, <1>6 DEF RunControlInv

(* Over every sequence of callbacks, in both modes: the flash, the registers  *)
(* and the breakpoints change only while every thread of the machine has      *)
(* ended, no thread is forgotten while it runs, a step is made alone while    *)
(* the Run button is up, a breakpoint that was hit is told of, and the        *)
(* debugger's machine never runs unnoticed.                                   *)
THEOREM ConsoleSafe == ConsoleSpec => []RunControlInv
<1>1. ConsoleInit => ConsoleInductive
  BY StartsStopped
<1>2. ConsoleInductive /\ [ConsoleNext]_consoleVars => ConsoleInductive'
  BY ConsoleStep
<1>3. ConsoleInductive => RunControlInv
  BY ConsolePromises
<1> QED
  BY <1>1, <1>2, <1>3, PTL DEF ConsoleSpec
-----------------------------------------------------------------------------
(* The recording. A machine as a recording that is exact begins with it, and  *)
(* what the recorder knows of a machine.                                      *)
Unstepped(firmware, cartridge, held, raised) ==
    [firmware |-> firmware, cartridge |-> cartridge, held |-> held, raised |-> raised,
     steps |-> 0, retired |-> 0, ticks |-> Period, ticked |-> {}]
Raises(c) == IF c = NoCartridge THEN {} ELSE {"cartridge"}
Fresh(held, c) == Unstepped(TRUE, c, held, Raises(c))
KnownOf(m) == [firmware |-> m.firmware, cartridge |-> m.cartridge, held |-> m.held]

TouchEvents ==
    {Event(t, i) : t \in {"press", "release"}, i \in Inputs} \cup {Event("command", NoCartridge)}
StoppedEvents ==
    {Event("insert", c) : c \in Cartridges} \cup {Event(t, NoCartridge) : t \in {"firmware", "remove"}}
Events == TouchEvents \cup StoppedEvents

(* The cartridge a machine can have, and one the recorder can have noted      *)
Taken == (Cartridges \ Misplaced) \cup {NoCartridge}
Records == [firmware : BOOLEAN, cartridge : Cartridges \cup {NoCartridge}, held : SUBSET Inputs]
Knows(k, m) ==
    k.firmware = m.firmware /\ k.held = m.held /\ (k.cartridge \in Misplaced \/ k.cartridge = m.cartridge)

Machines ==
    [firmware : BOOLEAN, cartridge : Taken, held : SUBSET Inputs,
     raised : SUBSET {"cartridge", "command"}, steps : Nat, retired : Nat, ticks : Int, ticked : SUBSET Nat]

(* What is in the log after its opening are the inputs the machine reached,   *)
(* each at the instructions it came after; the last one may not be noted yet. *)
Tail0 == Len(reached) - Len(noting)
InputAt(i) == IF i <= Tail0 THEN log[Len(log) - Tail0 + i].input ELSE Head(noting)
From(b, i) == IF i = 1 THEN b ELSE reached[i - 1]
After(m, n) == n.steps >= m.steps /\ n = SteppedBy(m, n.steps - m.steps)
Written(b) ==
    LET o == Len(Opening(KnownOf(b))) IN
    /\ Len(log) = o + Tail0 /\ Tail0 \in Nat
    /\ \A i \in 1..o : log[i] = Opening(KnownOf(b))[i]
    /\ \A i \in 1..Tail0 : /\ log[o + i] = At(reached[i].steps, log[o + i].input)
                           /\ reached[i].steps <= MaxInt
    /\ \A i \in 1..Len(reached) :
          /\ InputAt(i) \in Events
          /\ \E d \in Nat : /\ reached[i] = Applied(SteppedBy(From(b, i), d), InputAt(i))
                            /\ reached[i].steps = From(b, i).steps + d
Recorded(b) == Written(b) /\ After(From(b, Len(reached) + 1), machine)

RecorderTypes ==
    /\ machine \in Machines /\ IsFiniteSet(machine.held)
    /\ noting = <<>> \/ \E e \in TouchEvents : noting = <<e>>
    /\ recording \in BOOLEAN /\ isArray \in BOOLEAN /\ exact \in BOOLEAN /\ aborted \in BOOLEAN
    /\ log \in Seq([cycle : Nat, input : Events]) /\ reached \in Seq(Machines)
KnowsMachine ==
    /\ known \in Records
    /\ Knows(IF noting = <<>> THEN known ELSE Known(known, Head(noting)), machine)
FilesOnce ==
    /\ recording => isArray \/ (aborted /\ reached = <<>>)
    /\ file # <<>> => ~isArray
IsRecorded ==
    recording /\ exact =>
        \E held \in SUBSET Inputs, c \in Taken :
            IsFiniteSet(held) /\ Recorded(Fresh(held, c))
ReplayInductive == RecorderTypes /\ KnowsMachine /\ FilesOnce /\ IsRecorded /\ ReplayIsFaithful

LEMMA LeastCycle == ASSUME NEW S \in SUBSET Nat, S # {} PROVE \E x \in S : \A y \in S : x <= y
<1> DEFINE R == OpToRel(<, Nat)
<1>1. IsWellFoundedOn(R, Nat)
  BY NatLessThanWellFounded
<1>2. \A x, y \in Nat : <<x, y>> \in R <=> x < y
  BY DEF OpToRel
<1> HIDE DEF R
<1>3. PICK x \in S : \A y \in S : ~(<<y, x>> \in R)
  BY <1>1, WFMin
<1>4. ASSUME NEW y \in S PROVE x <= y
  <2>1. x \in Nat /\ y \in Nat /\ ~(<<y, x>> \in R)
    BY <1>3
  <2>2. ~(y < x)
    BY <1>2, <2>1
  <2> QED BY <2>1, <2>2
<1> QED BY <1>4

(* The steps of the runner between two commands, one by one.                  *)
Walks(m, n, f) == f = [k \in 0..n |-> IF k = 0 THEN m ELSE Stepped(f[k - 1])]
StepsTo(m, f, n) == \A k \in 0..n : f[k] = IF k = 0 THEN m ELSE Stepped(f[k - 1])

LEMMA WalkAt ==
    ASSUME NEW m, NEW n \in Nat, NEW f, Walks(m, n, f)
    PROVE  StepsTo(m, f, n)
BY DEF Walks, StepsTo

LEMMA WalksAgree ==
    ASSUME NEW m, NEW n \in Nat, NEW l \in 0..n, NEW f, NEW g, Walks(m, n, f), Walks(m, l, g)
    PROVE  f[l] = g[l]
<1> DEFINE bad == {k \in 0..l : f[k] # g[k]}
<1>1. bad = {}
  <2> SUFFICES ASSUME bad # {} PROVE FALSE
    OBVIOUS
  <2>1. PICK k \in bad : \A y \in bad : k <= y
    <3>1. bad \in SUBSET Nat
      OBVIOUS
    <3> HIDE DEF bad
    <3> QED BY <3>1, LeastCycle
  <2>2. k \in 0..l /\ k \in 0..n /\ f[k] # g[k]
    BY <2>1
  <2>7. l \in Nat
    OBVIOUS
  <2> HIDE DEF bad
  <2>8. StepsTo(m, f, n)
    BY WalkAt
  <2>9. StepsTo(m, g, l)
    BY <2>7, WalkAt
  <2>3. /\ f[k] = IF k = 0 THEN m ELSE Stepped(f[k - 1])
        /\ g[k] = IF k = 0 THEN m ELSE Stepped(g[k - 1])
    BY <2>2, <2>8, <2>9 DEF StepsTo
  <2>4. k # 0
    BY <2>2, <2>3
  <2>5. k - 1 \in 0..l /\ k - 1 \notin bad
    BY <2>1, <2>2, <2>4 DEF bad
  <2>6. f[k - 1] = g[k - 1]
    BY <2>5 DEF bad
  <2> QED BY <2>2, <2>3, <2>4, <2>6
<1> QED BY <1>1

LEMMA WalksExist == ASSUME NEW m, NEW n \in Nat PROVE \E f : Walks(m, n, f)
<1> DEFINE bad == {k \in Nat : ~\E f : Walks(m, k, f)}
<1>1. bad = {}
  <2> SUFFICES ASSUME bad # {} PROVE FALSE
    OBVIOUS
  <2>1. PICK k \in bad : \A y \in bad : k <= y
    <3>1. bad \in SUBSET Nat
      OBVIOUS
    <3> HIDE DEF bad
    <3> QED BY <3>1, LeastCycle
  <2>2. k \in Nat /\ ~\E f : Walks(m, k, f)
    BY <2>1
  <2>3. k # 0
    <3>1. Walks(m, 0, [j \in 0..0 |-> m])
      BY DEF Walks
    <3> QED BY <2>2, <3>1
  <2>4. k - 1 \in Nat /\ k - 1 \notin bad
    BY <2>1, <2>2, <2>3
  <2>5. PICK g : Walks(m, k - 1, g)
    BY <2>4
  <2> DEFINE f == [j \in 0..k |-> IF j = k THEN Stepped(g[k - 1]) ELSE g[j]]
  <2>6. \A j \in 0..k : f[j] = IF j = 0 THEN m ELSE Stepped(f[j - 1])
    <3> SUFFICES ASSUME NEW j \in 0..k PROVE f[j] = IF j = 0 THEN m ELSE Stepped(f[j - 1])
      OBVIOUS
    <3>1. CASE j = k
      BY <2>2, <2>3, <3>1
    <3>2. CASE j # k
      <4>1. j \in 0..k-1 /\ (j # 0 => j - 1 \in 0..k /\ j - 1 # k)
        BY <2>2, <3>2
      <4>0. StepsTo(m, g, k - 1)
        BY <2>4, <2>5, WalkAt
      <4>2. g[j] = IF j = 0 THEN m ELSE Stepped(g[j - 1])
        BY <4>0, <4>1 DEF StepsTo
      <4>3. f[j] = g[j] /\ (j # 0 => f[j - 1] = g[j - 1])
        BY <3>2, <4>1
      <4> QED BY <4>2, <4>3
    <3> QED BY <3>1, <3>2
  <2>7. f = [j \in 0..k |-> f[j]]
    OBVIOUS
  <2> HIDE DEF f
  <2>8. Walks(m, k, f)
    BY <2>6, <2>7 DEF Walks
  <2> QED BY <2>2, <2>8
<1> QED BY <1>1

LEMMA SteppedByIs ==
    ASSUME NEW m, NEW n \in Nat
    PROVE  SteppedBy(m, 0) = m /\ SteppedBy(m, n + 1) = Stepped(SteppedBy(m, n))
<1>1. ASSUME NEW k \in Nat PROVE \E f : Walks(m, k, f) /\ SteppedBy(m, k) = f[k]
  <2>1. Walks(m, k, CHOOSE f : Walks(m, k, f))
    BY WalksExist
  <2>2. SteppedBy(m, k) = (CHOOSE f : Walks(m, k, f))[k]
    BY DEF SteppedBy, Walks
  <2> QED BY <2>1, <2>2
<1>2. PICK f : Walks(m, 0, f) /\ SteppedBy(m, 0) = f[0]
  BY <1>1
<1>3. SteppedBy(m, 0) = m
  <2>1. StepsTo(m, f, 0) /\ 0 \in 0..0
    BY <1>2, WalkAt
  <2> QED BY <1>2, <2>1 DEF StepsTo
<1>4. PICK g : Walks(m, n, g) /\ SteppedBy(m, n) = g[n]
  BY <1>1
<1>5. PICK h : Walks(m, n + 1, h) /\ SteppedBy(m, n + 1) = h[n + 1]
  <2>1. n + 1 \in Nat
    OBVIOUS
  <2> QED BY <1>1, <2>1
<1>6. h[n + 1] = Stepped(h[n])
  <2>1. n + 1 \in 0..n+1 /\ n + 1 \in Nat /\ n + 1 # 0 /\ (n + 1) - 1 = n
    OBVIOUS
  <2>2. StepsTo(m, h, n + 1)
    BY <1>5, <2>1, WalkAt
  <2> QED BY <2>1, <2>2 DEF StepsTo
<1>7. h[n] = g[n]
  <2>1. n \in 0..n+1 /\ n + 1 \in Nat
    OBVIOUS
  <2> QED BY <1>4, <1>5, <2>1, WalksAgree
<1> QED BY <1>3, <1>4, <1>5, <1>6, <1>7

(* What a step, an input and the recorder's own copy of an input do.          *)
LEMMA SteppedIs ==
    ASSUME NEW m \in Machines
    PROVE  /\ Stepped(m) \in Machines /\ Stepped(m).steps = m.steps + 1
           /\ KnownOf(Stepped(m)) = KnownOf(m) /\ Stepped(m).held = m.held
<1>1. Period \in Int
  BY ReplayAssumption
<1>2. m.steps + 1 \in Nat /\ m.retired + 1 \in Nat /\ m.ticks - 1 \in Int
  BY DEF Machines
<1> QED BY <1>1, <1>2 DEF Stepped, Machines, KnownOf

LEMMA AppliedIs ==
    ASSUME NEW m \in Machines, NEW e \in Events, IsFiniteSet(m.held)
    PROVE  /\ Applied(m, e) \in Machines /\ IsFiniteSet(Applied(m, e).held)
           /\ e.type # "firmware" => Applied(m, e).steps = m.steps
<1>0. m.raised \cup {"command"} \in SUBSET {"cartridge", "command"}
      /\ m.raised \cup {"cartridge"} \in SUBSET {"cartridge", "command"}
  BY DEF Machines
<1>1. CASE \E i \in Inputs : e = Event("press", i)
  <2>1. PICK i \in Inputs : e = Event("press", i)
    BY <1>1
  <2>2. e.type = "press" /\ e.data = i
    BY <2>1 DEF Event
  <2>3. Applied(m, e) = [m EXCEPT !.held = @ \cup {i}]
    BY <2>2 DEF Applied
  <2>4. IsFiniteSet(m.held \cup {i})
    BY FS_AddElement
  <2> QED BY <2>2, <2>3, <2>4 DEF Machines
<1>2. CASE \E i \in Inputs : e = Event("release", i)
  <2>1. PICK i \in Inputs : e = Event("release", i)
    BY <1>2
  <2>2. e.type = "release" /\ e.data = i
    BY <2>1 DEF Event
  <2>3. Applied(m, e) = [m EXCEPT !.held = @ \ {i}]
    BY <2>2 DEF Applied
  <2>4. IsFiniteSet(m.held \ {i})
    BY FS_RemoveElement
  <2> QED BY <2>2, <2>3, <2>4 DEF Machines
<1>3. CASE e = Event("command", NoCartridge)
  <2>1. e.type = "command"
    BY <1>3 DEF Event
  <2>2. Applied(m, e) = [m EXCEPT !.raised = @ \cup {"command"}]
    BY <2>1 DEF Applied
  <2> QED BY <1>0, <2>2 DEF Machines
<1>4. CASE \E c \in Cartridges : e = Event("insert", c)
  <2>1. PICK c \in Cartridges : e = Event("insert", c)
    BY <1>4
  <2>2. e.type = "insert" /\ e.data = c
    BY <2>1 DEF Event
  <2>3. Applied(m, e) = IF c \in Misplaced THEN m
                        ELSE [m EXCEPT !.cartridge = c, !.raised = @ \cup {"cartridge"}]
    BY <2>2 DEF Applied
  <2>4. CASE c \in Misplaced
    BY <2>3, <2>4
  <2>5. CASE c \notin Misplaced
    <3>1. c \in Taken
      BY <2>5 DEF Taken
    <3>2. Applied(m, e) = [m EXCEPT !.cartridge = c, !.raised = @ \cup {"cartridge"}]
      BY <2>3, <2>5
    <3> QED BY <1>0, <3>1, <3>2 DEF Machines
  <2> QED BY <2>4, <2>5
<1>5. CASE e = Event("remove", NoCartridge)
  <2>1. e.type = "remove"
    BY <1>5 DEF Event
  <2>2. Applied(m, e) = [m EXCEPT !.cartridge = NoCartridge, !.raised = @ \cup {"cartridge"}]
    BY <2>1 DEF Applied
  <2>3. NoCartridge \in Taken
    BY DEF Taken
  <2> QED BY <1>0, <2>2, <2>3 DEF Machines
<1>6. CASE e = Event("firmware", NoCartridge)
  <2>1. e.type = "firmware"
    BY <1>6 DEF Event
  <2>2. Applied(m, e) = [m EXCEPT !.firmware = TRUE, !.raised = {}, !.steps = 0, !.retired = 0,
                                  !.ticked = {}]
    BY <2>1 DEF Applied, Restarted, Machines
  <2>3. Applied(m, e) = [firmware |-> TRUE, cartridge |-> m.cartridge, held |-> m.held, raised |-> {},
                         steps |-> 0, retired |-> 0, ticks |-> m.ticks, ticked |-> {}]
    BY <2>2 DEF Machines
  <2>4. Applied(m, e) \in Machines /\ Applied(m, e).held = m.held
    <3>1. 0 \in Nat /\ {} \in SUBSET Nat /\ {} \in SUBSET {"cartridge", "command"} /\ TRUE \in BOOLEAN
      OBVIOUS
    <3>2. m.cartridge \in Taken /\ m.held \in SUBSET Inputs /\ m.ticks \in Int
      BY DEF Machines
    <3> QED BY <2>3, <3>1, <3>2 DEF Machines
  <2> QED BY <2>1, <2>4
<1> QED BY <1>1, <1>2, <1>3, <1>4, <1>5, <1>6 DEF Events, TouchEvents, StoppedEvents

(* What is noted of an input is what it did, but for a refused cartridge.     *)
LEMMA KnownIs ==
    ASSUME NEW m \in Machines, NEW e \in Events, NEW k \in Records, Knows(k, m)
    PROVE  Known(k, e) \in Records /\ Knows(Known(k, e), Applied(m, e))
<1>1. CASE \E i \in Inputs : e = Event("press", i) \/ e = Event("release", i)
  <2>1. PICK i \in Inputs : e = Event("press", i) \/ e = Event("release", i)
    BY <1>1
  <2>2. e.data = i /\ (e.type = "press" \/ e.type = "release")
    BY <2>1 DEF Event
  <2>3. CASE e.type = "press"
    <3>1. Applied(m, e) = [m EXCEPT !.held = @ \cup {i}] /\ Known(k, e) = [k EXCEPT !.held = @ \cup {i}]
      BY <2>2, <2>3 DEF Applied, Known
    <3> QED BY <3>1 DEF Machines, Records, Knows
  <2>4. CASE e.type = "release"
    <3>1. Applied(m, e) = [m EXCEPT !.held = @ \ {i}] /\ Known(k, e) = [k EXCEPT !.held = @ \ {i}]
      BY <2>2, <2>4 DEF Applied, Known
    <3> QED BY <3>1 DEF Machines, Records, Knows
  <2> QED BY <2>2, <2>3, <2>4
<1>2. CASE e = Event("command", NoCartridge)
  <2>1. e.type = "command"
    BY <1>2 DEF Event
  <2>2. Applied(m, e) = [m EXCEPT !.raised = @ \cup {"command"}] /\ Known(k, e) = k
    BY <2>1 DEF Applied, Known
  <2> QED BY <2>2 DEF Machines, Knows
<1>3. CASE \E c \in Cartridges : e = Event("insert", c)
  <2>1. PICK c \in Cartridges : e = Event("insert", c)
    BY <1>3
  <2>2. e.type = "insert" /\ e.data = c
    BY <2>1 DEF Event
  <2>3. Known(k, e) = [k EXCEPT !.cartridge = c]
    BY <2>2 DEF Known
  <2>4. CASE c \in Misplaced
    <3>1. Applied(m, e) = m
      BY <2>2, <2>4 DEF Applied
    <3> QED BY <2>3, <2>4, <3>1 DEF Machines, Records, Knows
  <2>5. CASE c \notin Misplaced
    <3>1. Applied(m, e) = [m EXCEPT !.cartridge = c, !.raised = @ \cup {"cartridge"}]
      BY <2>2, <2>5 DEF Applied
    <3> QED BY <2>3, <3>1 DEF Machines, Records, Knows
  <2> QED BY <2>4, <2>5
<1>4. CASE e = Event("remove", NoCartridge)
  <2>1. e.type = "remove"
    BY <1>4 DEF Event
  <2>2. /\ Applied(m, e) = [m EXCEPT !.cartridge = NoCartridge, !.raised = @ \cup {"cartridge"}]
        /\ Known(k, e) = [k EXCEPT !.cartridge = NoCartridge]
    BY <2>1 DEF Applied, Known
  <2> QED BY <2>2 DEF Machines, Records, Knows
<1>5. CASE e = Event("firmware", NoCartridge)
  <2>1. e.type = "firmware"
    BY <1>5 DEF Event
  <2>2. /\ Applied(m, e) = [[m EXCEPT !.raised = {}, !.steps = 0, !.retired = 0, !.ticked = {}]
                                EXCEPT !.firmware = TRUE]
        /\ Known(k, e) = [k EXCEPT !.firmware = TRUE]
    BY <2>1 DEF Applied, Restarted, Known
  <2> QED BY <2>2 DEF Machines, Records, Knows
<1> QED BY <1>1, <1>2, <1>3, <1>4, <1>5 DEF Events, TouchEvents, StoppedEvents

LEMMA RestartedIs ==
    ASSUME NEW m \in Machines
    PROVE  Restarted(m) \in Machines /\ KnownOf(Restarted(m)) = KnownOf(m) /\ Restarted(m).held = m.held
BY DEF Restarted, Machines, KnownOf

(* The opening: the firmware, the cartridge, and each button held, once.      *)
PressOf(i) == At(0, Event("press", i))
LEMMA PressesAre ==
    ASSUME NEW held, IsFiniteSet(held)
    PROVE  /\ Len(Presses(held)) \in Nat /\ Presses(held) \in Seq({PressOf(i) : i \in held})
           /\ \A i \in held : \E j \in 1..Len(Presses(held)) : Presses(held)[j] = PressOf(i)
<1> DEFINE S == {PressOf(i) : i \in held}
           n == Cardinality(S)
           s == Presses(held)
<1>1. IsFiniteSet(S)
  <2> DEFINE f == [i \in held |-> PressOf(i)]
  <2>1. f \in Surjection(held, S)
    BY DEF Surjection
  <2> QED BY <2>1, FS_Surjection
<1>2. n \in Nat /\ \E f \in [1..n -> S] : IsInjective(f)
  BY <1>1, FS_CardinalityType DEF ExistsBijection, Bijection, Injection
<1>3. s = SetToSeq(S)
  BY DEF Presses, PressOf
<1> HIDE DEF S
<1>4. SetToSeq(S) = CHOOSE f \in [1..n -> S] : IsInjective(f)
  BY DEF SetToSeq
<1> HIDE DEF s
<1>5. s \in [1..n -> S] /\ IsInjective(s)
  BY <1>2, <1>3, <1>4
<1>6. s \in Injection(1..n, S)
  BY <1>5 DEF Injection
<1>7. Cardinality(1..n) = n
  BY <1>2, FS_Interval
<1>8. s \in Surjection(1..n, S)
  BY <1>1, <1>6, <1>7, FS_Injection
<1>9. \A e \in S : \E j \in 1..n : s[j] = e
  BY <1>8 DEF Surjection
<1>10. s \in Seq(S) /\ Len(s) = n
  BY <1>2, <1>5
<1> QED BY <1>2, <1>9, <1>10 DEF S, s

(* The replay of a file: what any run that applies its inputs in turn has.    *)
AppliedNext(f, g, i) ==
    Applied(IF i = 1 THEN NewMachine ELSE SteppedBy(g[i - 1], StepsAfter(f, i - 1)), f[i].input)
Runs(f, g) == g = [i \in 0..Len(f) |-> IF i = 0 THEN NewMachine ELSE AppliedNext(f, g, i)]
RunsTo(f, g) == g[0] = NewMachine /\ \A i \in 1..Len(f) : g[i] = AppliedNext(f, g, i)

LEMMA RunIs ==
    ASSUME NEW f, Len(f) \in Nat, DOMAIN f = 1..Len(f), NEW g, g = [i \in 0..Len(f) |-> g[i]], RunsTo(f, g)
    PROVE  \A i \in 1..Len(f) : Replayed(f)[i] = g[i]
<1>1. Runs(f, g)
  <2>1. \A i \in 0..Len(f) : g[i] = IF i = 0 THEN NewMachine ELSE AppliedNext(f, g, i)
    BY DEF RunsTo
  <2> QED BY <2>1 DEF Runs
<1> DEFINE h == CHOOSE x : Runs(f, x)
<1>2. Runs(f, h)
  BY <1>1
<1>3. \A i \in 1..Len(f) : Replayed(f)[i] = h[i]
  BY DEF Replayed, Runs, AppliedNext
<1> HIDE DEF h
<1>4. RunsTo(f, h)
  BY <1>2 DEF Runs, RunsTo
<1> DEFINE bad == {i \in 0..Len(f) : g[i] # h[i]}
<1>5. bad = {}
  <2> SUFFICES ASSUME bad # {} PROVE FALSE
    OBVIOUS
  <2>1. PICK k \in bad : \A y \in bad : k <= y
    <3>1. bad \in SUBSET Nat
      OBVIOUS
    <3> HIDE DEF bad
    <3> QED BY <3>1, LeastCycle
  <2>2. k \in 0..Len(f) /\ g[k] # h[k]
    BY <2>1
  <2> HIDE DEF bad
  <2>3. k # 0
    BY <1>4, <2>2 DEF RunsTo
  <2>4. k \in 1..Len(f) /\ k - 1 \in 0..Len(f) /\ k - 1 \notin bad
    BY <2>1, <2>2, <2>3 DEF bad
  <2>5. g[k - 1] = h[k - 1]
    BY <2>4 DEF bad
  <2>6. AppliedNext(f, g, k) = AppliedNext(f, h, k)
    BY <2>5 DEF AppliedNext
  <2> QED BY <1>4, <2>2, <2>4, <2>6 DEF RunsTo
<1> QED BY <1>3, <1>5

OpeningOf(held, c) == Opening(KnownOf(Fresh(held, c)))
Things(c) == IF c = NoCartridge THEN 1 ELSE 2
LEMMA OpeningIs ==
    ASSUME NEW held \in SUBSET Inputs, IsFiniteSet(held), NEW c
    PROVE  LET op == OpeningOf(held, c)
               q == Things(c)
           IN  /\ Len(op) \in Nat /\ Len(op) >= q /\ op[1] = At(0, Event("firmware", NoCartridge))
               /\ c # NoCartridge => op[2] = At(0, Event("insert", c))
               /\ \A i \in q+1..Len(op) : \E x \in held : op[i] = PressOf(x)
               /\ \A x \in held : \E i \in q+1..Len(op) : op[i] = PressOf(x)
<1> DEFINE op == OpeningOf(held, c)
           q == Things(c)
           s == Presses(held)
           F == <<At(0, Event("firmware", NoCartridge))>>
           C == IF c # NoCartridge THEN <<At(0, Event("insert", c))>> ELSE <<>>
<1>1. op = F \o C \o s
  <2>1. KnownOf(Fresh(held, c)) = [firmware |-> TRUE, cartridge |-> c, held |-> held]
    BY DEF KnownOf, Fresh, Unstepped
  <2> QED BY <2>1 DEF OpeningOf, Opening
<1>2. Len(s) \in Nat /\ s \in Seq({PressOf(i) : i \in held})
  BY PressesAre
<1>3. \A i \in 1..Len(s) : \E x \in held : s[i] = PressOf(x)
  BY <1>2
<1>4. \A x \in held : \E j \in 1..Len(s) : s[j] = PressOf(x)
  BY PressesAre
<1> DEFINE P == F \o C
<1>5. /\ P \in Seq({P[1], P[2]}) /\ Len(P) = q /\ q \in 1..2 /\ P[1] = At(0, Event("firmware", NoCartridge))
      /\ c # NoCartridge => P[2] = At(0, Event("insert", c))
  <2> DEFINE a == At(0, Event("firmware", NoCartridge))
             b == At(0, Event("insert", c))
  <2>1. CASE c = NoCartridge
    <3>1. P = <<a>> /\ q = 1
      <4>1. P = <<a>> \o <<>>
        BY <2>1
      <4> HIDE DEF a, P
      <4>2. <<a>> \in Seq({a})
        OBVIOUS
      <4> QED BY <2>1, <4>1, <4>2, ConcatEmptySeq DEF Things
    <3> HIDE DEF a, b, P
    <3> QED BY <2>1, <3>1 DEF a
  <2>2. CASE c # NoCartridge
    <3>1. P = <<a>> \o <<b>> /\ q = 2
      BY <2>2 DEF Things
    <3> HIDE DEF a, b, P
    <3> DEFINE V == {a, b}
    <3>2. <<a>> \in Seq(V) /\ <<b>> \in Seq(V) /\ Len(<<a>>) = 1 /\ Len(<<b>>) = 1
          /\ <<a>>[1] = a /\ <<b>>[1] = b
      OBVIOUS
    <3> HIDE DEF V
    <3>3. P \in Seq(V) /\ Len(P) = 2 /\ P[1] = a /\ P[2] = b
      BY <3>1, <3>2
    <3> QED BY <2>2, <3>1, <3>3 DEF a, b, V
  <2> QED BY <2>1, <2>2
<1> HIDE DEF P, s
<1> DEFINE U == {P[1], P[2]} \cup {PressOf(i) : i \in held}
<1>6. op = P \o s /\ P \in Seq(U) /\ s \in Seq(U)
  BY <1>1, <1>2, <1>5 DEF P
<1> HIDE DEF U, op, q
<1>7. /\ Len(op) = q + Len(s) /\ \A i \in 1..q : op[i] = P[i]
      /\ \A i \in q+1..Len(op) : op[i] = s[i - q]
  BY <1>2, <1>5, <1>6
<1>8. \A i \in q+1..Len(op) : i - q \in 1..Len(s)
  BY <1>2, <1>5, <1>7
<1>9. \A j \in 1..Len(s) : j + q \in q+1..Len(op) /\ op[j + q] = s[j]
  BY <1>2, <1>5, <1>7
<1>10. /\ Len(op) \in Nat /\ Len(op) >= q /\ op[1] = At(0, Event("firmware", NoCartridge))
       /\ c # NoCartridge => op[2] = At(0, Event("insert", c))
  BY <1>2, <1>5, <1>7 DEF q, Things
<1>11. \A i \in q+1..Len(op) : \E x \in held : op[i] = PressOf(x)
  BY <1>3, <1>7, <1>8
<1>12. \A x \in held : \E i \in q+1..Len(op) : op[i] = PressOf(x)
  BY <1>4, <1>9
<1> QED BY <1>10, <1>11, <1>12 DEF op, q

LEMMA StepsAre ==
    ASSUME NEW f, Len(f) \in Nat, NEW i \in 1..Len(f)-1, f[i].cycle \in Nat, f[i + 1].cycle \in Nat,
           f[i].cycle <= f[i + 1].cycle, f[i + 1].cycle <= MaxInt
    PROVE  StepsAfter(f, i) = f[i + 1].cycle - f[i].cycle
<1> DEFINE a == f[i].cycle
           b == f[i + 1].cycle
           M == 2 * (MaxInt + 1)
<1>1. StepsAfter(f, i) = (b - a) % M
  <2>1. i # Len(f) /\ a <= MaxInt /\ b <= MaxInt
    BY ReplayAssumption
  <2>2. Parsed(a) = a /\ Parsed(b) = b
    BY <2>1 DEF Parsed
  <2> QED BY <2>1, <2>2 DEF StepsAfter
<1>2. b - a \in Nat /\ M \in Nat /\ b - a < M
  <2>1. MaxInt \in Nat
    BY ReplayAssumption
  <2>2. a <= b /\ b <= MaxInt /\ a \in Nat /\ b \in Nat
    OBVIOUS
  <2> HIDE DEF a, b
  <2> QED BY <2>1, <2>2
<1> HIDE DEF a, b, M
<1>3. ASSUME NEW x \in Nat, NEW y \in Nat, x < y PROVE x % y = x
  BY <1>3, SMTT(30)
<1> QED BY <1>1, <1>2, <1>3 DEF a, b

LEMMA UnsteppedRestarts ==
    ASSUME NEW fw, NEW ct, NEW held, NEW raised
    PROVE  Restarted(Unstepped(fw, ct, held, raised)) = Unstepped(fw, ct, held, {})
<1> DEFINE m == Unstepped(fw, ct, held, raised)
           m1 == [m EXCEPT !.raised = {}]
           m2 == [m1 EXCEPT !.steps = 0]
           m3 == [m2 EXCEPT !.retired = 0]
           m4 == [m3 EXCEPT !.ticked = {}]
<1>1. m1 = Unstepped(fw, ct, held, {})
  BY DEF Unstepped
<1> HIDE DEF m1
<1>2. m2 = m1
  BY <1>1 DEF Unstepped
<1> HIDE DEF m2
<1>3. m3 = m2
  BY <1>1, <1>2 DEF Unstepped
<1> HIDE DEF m3
<1>4. m4 = m3
  BY <1>1, <1>2, <1>3 DEF Unstepped
<1>5. Restarted(m) = m4
  BY DEF Restarted, m1, m2, m3
<1> QED BY <1>1, <1>2, <1>3, <1>4, <1>5

LEMMA UnsteppedPrograms ==
    ASSUME NEW fw, NEW ct, NEW held, NEW raised
    PROVE  Applied(Unstepped(fw, ct, held, raised), Event("firmware", NoCartridge))
               = Unstepped(TRUE, ct, held, {})
<1> DEFINE m == Unstepped(fw, ct, held, raised)
<1>1. Event("firmware", NoCartridge).type = "firmware"
  BY DEF Event
<1> HIDE DEF m
<1>2. Applied(m, Event("firmware", NoCartridge)) = [Restarted(m) EXCEPT !.firmware = TRUE]
  BY <1>1 DEF Applied
<1>3. Restarted(m) = Unstepped(fw, ct, held, {})
  BY UnsteppedRestarts DEF m
<1>4. ASSUME NEW x
      PROVE  [Unstepped(fw, ct, held, {}) EXCEPT !.firmware = x] = Unstepped(x, ct, held, {})
  BY DEF Unstepped
<1> QED BY <1>2, <1>3, <1>4 DEF m

LEMMA UnsteppedInserts ==
    ASSUME NEW fw, NEW ct, NEW held, NEW raised, NEW c, c \notin Misplaced
    PROVE  Applied(Unstepped(fw, ct, held, raised), Event("insert", c))
               = Unstepped(fw, c, held, raised \cup {"cartridge"})
<1> DEFINE m == Unstepped(fw, ct, held, raised)
<1>1. Event("insert", c).type = "insert" /\ Event("insert", c).data = c
  BY DEF Event
<1>2. Applied(m, Event("insert", c)) = [m EXCEPT !.cartridge = c, !.raised = @ \cup {"cartridge"}]
  BY <1>1 DEF Applied
<1> QED BY <1>2 DEF Unstepped

LEMMA UnsteppedPressed ==
    ASSUME NEW fw, NEW ct, NEW held, NEW raised, NEW i
    PROVE  Applied(Unstepped(fw, ct, held, raised), Event("press", i))
               = Unstepped(fw, ct, held \cup {i}, raised)
<1> DEFINE m == Unstepped(fw, ct, held, raised)
<1>1. Event("press", i).type = "press" /\ Event("press", i).data = i
  BY DEF Event
<1>2. Applied(m, Event("press", i)) = [m EXCEPT !.held = @ \cup {i}]
  BY <1>1 DEF Applied
<1> QED BY <1>2 DEF Unstepped

LEMMA NewIsUnstepped == NewMachine = Unstepped(FALSE, NoCartridge, {}, {})
BY DEF NewMachine, Unstepped

(* The machine of the replay after so many inputs of the opening.             *)
HeldBy(held, c, i) == {OpeningOf(held, c)[j].input.data : j \in Things(c)+1..i}
Began(held, c, i) ==
    Unstepped(TRUE, IF i < Things(c) THEN NoCartridge ELSE c, HeldBy(held, c, i),
              IF i < Things(c) THEN {} ELSE Raises(c))

LEMMA BeganIs ==
    ASSUME NEW held \in SUBSET Inputs, IsFiniteSet(held), NEW c \in Taken
    PROVE  LET op == OpeningOf(held, c) IN
           /\ Began(held, c, 1) = Applied(NewMachine, op[1].input)
           /\ \A i \in 2..Len(op) : Began(held, c, i) = Applied(Began(held, c, i - 1), op[i].input)
           /\ Began(held, c, Len(op)) = Fresh(held, c)
           /\ \A i \in 1..Len(op) : op[i].cycle = 0
<1> DEFINE op == OpeningOf(held, c)
           q == Things(c)
           M(i) == Began(held, c, i)
           H(i) == HeldBy(held, c, i)
<1>1. /\ Len(op) \in Nat /\ Len(op) >= q /\ op[1] = At(0, Event("firmware", NoCartridge))
      /\ c # NoCartridge => op[2] = At(0, Event("insert", c))
      /\ \A i \in q+1..Len(op) : \E x \in held : op[i] = PressOf(x)
      /\ \A x \in held : \E i \in q+1..Len(op) : op[i] = PressOf(x)
  BY OpeningIs
<1>2. q \in 1..2 /\ (q = 2 <=> c # NoCartridge)
  BY DEF Things
<1>3. \A i : H(i) = {op[j].input.data : j \in q+1..i}
  BY DEF HeldBy
<1>4. \A i : M(i) = Unstepped(TRUE, IF i < q THEN NoCartridge ELSE c, H(i), IF i < q THEN {} ELSE Raises(c))
  BY DEF Began
<1>5. \A e, cycle : At(cycle, e).cycle = cycle /\ At(cycle, e).input = e
  BY DEF At
<1>6. \A x : PressOf(x).cycle = 0 /\ PressOf(x).input = Event("press", x) /\ PressOf(x).input.data = x
  BY DEF At, PressOf, Event
<1> HIDE DEF op, q, M, H
<1>7. M(1) = Applied(NewMachine, op[1].input)
  <2>1. op[1].input = Event("firmware", NoCartridge)
    BY <1>1, <1>5
  <2>2. Applied(NewMachine, op[1].input) = Unstepped(TRUE, NoCartridge, {}, {})
    BY <2>1, NewIsUnstepped, UnsteppedPrograms
  <2>3. q+1..1 = {}
    BY <1>2
  <2>4. H(1) = {}
    BY <1>3, <2>3
  <2>5. (IF 1 < q THEN NoCartridge ELSE c) = NoCartridge /\ (IF 1 < q THEN {} ELSE Raises(c)) = {}
    BY <1>2 DEF Raises
  <2> QED BY <1>4, <2>2, <2>4, <2>5
<1>8. ASSUME NEW i \in 2..Len(op) PROVE M(i) = Applied(M(i - 1), op[i].input)
  <2>0. i \in Int /\ i >= 2
    BY <1>1
  <2>1. CASE i <= q
    <3>1. i = 2 /\ q = 2 /\ c # NoCartridge /\ i - 1 = 1 /\ 1 < q /\ ~(2 < q)
      BY <1>2, <2>0, <2>1
    <3>2. op[i].input = Event("insert", c)
      BY <1>1, <1>5, <3>1
    <3>3. q+1..1 = {} /\ q+1..2 = {}
      BY <3>1
    <3>4. H(1) = {} /\ H(2) = {}
      BY <1>3, <3>3
    <3>5. M(1) = Unstepped(TRUE, NoCartridge, {}, {}) /\ M(2) = Unstepped(TRUE, c, {}, {"cartridge"})
      BY <1>4, <3>1, <3>4 DEF Raises
    <3>6. {} \cup {"cartridge"} = {"cartridge"}
      OBVIOUS
    <3>8. \A fw : Applied(Unstepped(fw, NoCartridge, {}, {}), Event("insert", c))
                  = Unstepped(fw, c, {}, {} \cup {"cartridge"})
      <4>1. c \notin Misplaced
        BY <3>1, ReplayAssumption DEF Taken
      <4> QED BY <4>1, UnsteppedInserts
    <3>7. Applied(M(1), Event("insert", c)) = Unstepped(TRUE, c, {}, {} \cup {"cartridge"})
      BY <3>5, <3>8
    <3> QED BY <3>1, <3>2, <3>5, <3>6, <3>7
  <2>2. CASE ~(i <= q)
    <3>1. i \in q+1..Len(op) /\ ~(i < q) /\ ~(i - 1 < q)
      BY <1>1, <1>2, <2>0, <2>2
    <3>2. PICK x \in held : op[i] = PressOf(x)
      BY <1>1, <3>1
    <3>3. op[i].input = Event("press", x) /\ op[i].input.data = x
      BY <1>6, <3>2
    <3>4. H(i) = H(i - 1) \cup {x}
      <4>1. \A j : j \in q+1..i <=> j \in q+1..i-1 \/ j = i
        BY <1>2, <2>0, <3>1
      <4> QED BY <1>3, <3>3, <4>1
    <3>5. M(i) = Unstepped(TRUE, c, H(i), Raises(c)) /\ M(i - 1) = Unstepped(TRUE, c, H(i - 1), Raises(c))
      BY <1>4, <3>1
    <3>7. \A fw : Applied(Unstepped(fw, c, H(i - 1), Raises(c)), Event("press", x))
                  = Unstepped(fw, c, H(i - 1) \cup {x}, Raises(c))
      BY UnsteppedPressed
    <3>6. Applied(M(i - 1), Event("press", x)) = Unstepped(TRUE, c, H(i - 1) \cup {x}, Raises(c))
      BY <3>5, <3>7
    <3> QED BY <3>3, <3>4, <3>5, <3>6
  <2> QED BY <2>1, <2>2
<1>9. M(Len(op)) = Fresh(held, c)
  <2>1. H(Len(op)) = held
    <3>1. \A j \in q+1..Len(op) : op[j].input.data \in held
      BY <1>1, <1>6
    <3>2. \A x \in held : \E j \in q+1..Len(op) : op[j].input.data = x
      BY <1>1, <1>6
    <3> QED BY <1>3, <3>1, <3>2
  <2>2. ~(Len(op) < q)
    BY <1>1, <1>2
  <2> QED BY <1>4, <2>1, <2>2 DEF Fresh
<1>10. ASSUME NEW i \in 1..Len(op) PROVE op[i].cycle = 0
  <2>1. i = 1 \/ (i = 2 /\ c # NoCartridge) \/ i \in q+1..Len(op)
    BY <1>1, <1>2
  <2> QED BY <1>1, <1>5, <1>6, <2>1
<1> QED BY <1>7, <1>8, <1>9, <1>10 DEF op, M

(* A recording that has been made so far is what its replay does.             *)
LEMMA RecordReplays ==
    ASSUME RecorderTypes, noting = <<>>, NEW held \in SUBSET Inputs, IsFiniteSet(held), NEW c \in Taken,
           Recorded(Fresh(held, c))
    PROVE  \A i \in 1..Len(reached) : reached[i] = Replayed(log)[Len(log) - Len(reached) + i]
<1> DEFINE b == Fresh(held, c)
           op == OpeningOf(held, c)
           o == Len(op)
           n == Len(reached)
           g == [i \in 0..Len(log) |-> IF i = 0 THEN NewMachine
                                       ELSE IF i <= o THEN Began(held, c, i) ELSE reached[i - o]]
<1>1. /\ o \in Nat /\ o >= 1
      /\ Began(held, c, 1) = Applied(NewMachine, op[1].input)
      /\ \A i \in 2..o : Began(held, c, i) = Applied(Began(held, c, i - 1), op[i].input)
      /\ Began(held, c, o) = b
      /\ \A i \in 1..o : op[i].cycle = 0
  <2>1. o \in Nat /\ o >= Things(c) /\ Things(c) >= 1
    BY OpeningIs DEF Things
  <2> QED BY <2>1, BeganIs DEF Things
<1>2. n \in Nat /\ Tail0 = n /\ DOMAIN log = 1..Len(log) /\ Len(log) \in Nat
  BY DEF RecorderTypes, Tail0
<1>3. b.steps = 0
  BY DEF Fresh, Unstepped
<1>4. /\ Len(log) = o + n
      /\ \A i \in 1..o : log[i] = op[i]
      /\ \A i \in 1..n : log[o + i].cycle = reached[i].steps /\ reached[i].steps <= MaxInt
      /\ \A i \in 1..n : InputAt(i) = log[o + i].input
      /\ \A i \in 1..n :
            \E d \in Nat : /\ reached[i] = Applied(SteppedBy(From(b, i), d), InputAt(i))
                           /\ reached[i].steps = From(b, i).steps + d
  <2>1. \A i \in 1..n : InputAt(i) = log[o + i].input
    <3>1. Len(log) = o + n
      BY <1>2 DEF Recorded, Written, OpeningOf
    <3>2. \A i \in 1..n : i <= Tail0 /\ Len(log) - Tail0 + i = o + i
      BY <1>1, <1>2, <3>1
    <3> QED BY <3>2 DEF InputAt
  <2>2. \A cycle, e : At(cycle, e).cycle = cycle
    BY DEF At
  <2> QED BY <1>2, <2>1, <2>2 DEF Recorded, Written, OpeningOf
<1>5. \A i \in 1..n : reached[i] \in Machines /\ reached[i].steps \in Nat
  <2>1. \A i \in 1..n : reached[i] \in Machines
    BY DEF RecorderTypes
  <2>2. \A m \in Machines : m.steps \in Nat
    BY DEF Machines
  <2> QED BY <2>1, <2>2
<1> HIDE DEF b, op, o, n
<1>6. g[0] = NewMachine
  BY <1>2
<1>7. \A i \in 1..o : g[i] = Began(held, c, i)
  BY <1>1, <1>2, <1>4
<1>8. \A i \in 1..n : g[o + i] = reached[i]
  BY <1>1, <1>2, <1>4
<1>9. g = [i \in 0..Len(log) |-> g[i]]
  OBVIOUS
<1> HIDE DEF g
<1>10. ASSUME NEW i \in 1..Len(log) PROVE g[i] = AppliedNext(log, g, i)
  <2>1. CASE i = 1
    <3>1. 1 \in 1..o
      BY <1>1
    <3>2. g[1] = Applied(NewMachine, log[1].input)
      BY <1>1, <1>4, <1>7, <3>1
    <3> QED BY <2>1, <3>2 DEF AppliedNext
  <2>2. CASE i > 1 /\ i <= o
    <3>1. i \in 2..o /\ i \in 1..o /\ i - 1 \in 1..o /\ i - 1 \in 1..Len(log)-1 /\ (i - 1) + 1 = i /\ i # 1
      BY <1>1, <1>2, <1>4, <2>2
    <3>2. log[i - 1].cycle = 0 /\ log[i].cycle = 0
      BY <1>1, <1>4, <3>1
    <3>3. StepsAfter(log, i - 1) = 0
      <4>1. 0 \in Nat /\ 0 <= MaxInt
        BY ReplayAssumption
      <4>2. StepsAfter(log, i - 1) = log[(i - 1) + 1].cycle - log[i - 1].cycle
        BY <1>2, <3>1, <3>2, <4>1, StepsAre
      <4> QED BY <3>1, <3>2, <4>2
    <3>4. SteppedBy(g[i - 1], 0) = g[i - 1]
      BY SteppedByIs
    <3>5. g[i] = Applied(g[i - 1], log[i].input)
      BY <1>1, <1>4, <1>7, <3>1
    <3> QED BY <3>1, <3>3, <3>4, <3>5 DEF AppliedNext
  <2>3. CASE i > o
    <3> DEFINE j == i - o
    <3>1. j \in 1..n /\ i = o + j /\ i # 1 /\ i - 1 \in 1..Len(log)-1 /\ (i - 1) + 1 = i
      BY <1>1, <1>2, <1>4, <2>3
    <3> HIDE DEF j
    <3>2. PICK d \in Nat : /\ reached[j] = Applied(SteppedBy(From(b, j), d), log[i].input)
                           /\ reached[j].steps = From(b, j).steps + d
      BY <1>4, <3>1
    <3>3. g[i - 1] = From(b, j) /\ log[i - 1].cycle = From(b, j).steps /\ From(b, j).steps \in Nat
      <4>1. CASE j = 1
        <5>1. i - 1 = o /\ o \in 1..o /\ From(b, j) = b
          BY <1>1, <3>1, <4>1 DEF From
        <5> QED BY <1>1, <1>3, <1>4, <1>7, <5>1
      <4>2. CASE j # 1
        <5>1. j - 1 \in 1..n /\ i - 1 = o + (j - 1) /\ From(b, j) = reached[j - 1]
          BY <1>1, <1>2, <3>1, <4>2 DEF From
        <5> QED BY <1>4, <1>5, <1>8, <5>1
      <4> QED BY <4>1, <4>2
    <3>4. log[i].cycle = From(b, j).steps + d /\ log[i].cycle <= MaxInt
      BY <1>4, <3>1, <3>2
    <3>5. StepsAfter(log, i - 1) = d
      <4>1. /\ log[i - 1].cycle \in Nat /\ log[(i - 1) + 1].cycle \in Nat
            /\ log[i - 1].cycle <= log[(i - 1) + 1].cycle /\ log[(i - 1) + 1].cycle <= MaxInt
        BY <3>1, <3>2, <3>3, <3>4
      <4>2. StepsAfter(log, i - 1) = log[(i - 1) + 1].cycle - log[i - 1].cycle
        BY <1>2, <3>1, <4>1, StepsAre
      <4> QED BY <3>1, <3>2, <3>3, <3>4, <4>2
    <3>6. g[i] = Applied(SteppedBy(g[i - 1], d), log[i].input)
      BY <1>8, <3>1, <3>2, <3>3
    <3> QED BY <3>1, <3>5, <3>6 DEF AppliedNext
  <2>4. i \in Int /\ i >= 1 /\ o \in Int
    BY <1>1, <1>2
  <2> QED BY <2>1, <2>2, <2>3, <2>4
<1>11. \A i \in 1..Len(log) : Replayed(log)[i] = g[i]
  <2>1. RunsTo(log, g)
    BY <1>6, <1>10 DEF RunsTo
  <2> QED BY <1>2, <1>9, <2>1, RunIs
<1>12. ASSUME NEW i \in 1..n PROVE reached[i] = Replayed(log)[Len(log) - n + i]
  <2>1. Len(log) - n + i = o + i /\ o + i \in 1..Len(log)
    BY <1>1, <1>2, <1>4
  <2> QED BY <1>8, <1>11, <2>1
<1> QED BY <1>12 DEF n

-----------------------------------------------------------------------------
(* The steps of the recorder. What one leaves alone stays as it was.          *)
LEMMA FreshIs ==
    ASSUME NEW held \in SUBSET Inputs, IsFiniteSet(held), NEW c \in Taken
    PROVE  Fresh(held, c) \in Machines /\ Fresh(held, c).steps = 0
<1>1. Period \in Int
  BY ReplayAssumption
<1>2. Raises(c) \in SUBSET {"cartridge", "command"}
  BY DEF Raises
<1> QED BY <1>1, <1>2 DEF Fresh, Unstepped, Machines

LEMMA FromIs ==
    ASSUME RecorderTypes, NEW b \in Machines, NEW i \in 1..Len(reached)+1
    PROVE  From(b, i) \in Machines /\ From(b, i).steps \in Nat
<1>1. From(b, i) \in Machines
  BY DEF From, RecorderTypes
<1> HIDE DEF RecorderTypes
<1> QED BY <1>1 DEF Machines

LEMMA AfterItself == ASSUME NEW m \in Machines PROVE After(m, m)
<1>1. m.steps - m.steps = 0 /\ m.steps >= m.steps
  BY DEF Machines
<1>2. SteppedBy(m, 0) = m
  BY SteppedByIs
<1> QED BY <1>1, <1>2 DEF After

LEMMA AfterAStep ==
    ASSUME NEW m \in Machines, NEW n \in Machines, After(m, n)
    PROVE  After(m, Stepped(n))
<1> DEFINE d == n.steps - m.steps
<1>1. m.steps \in Nat /\ n.steps \in Nat
  BY DEF Machines
<1>2. d \in Nat /\ n = SteppedBy(m, d)
  BY <1>1 DEF After
<1>3. Stepped(n).steps = n.steps + 1
  BY SteppedIs
<1>4. Stepped(n).steps - m.steps = d + 1 /\ Stepped(n).steps >= m.steps
  BY <1>1, <1>2, <1>3
<1> HIDE DEF d
<1>5. SteppedBy(m, d + 1) = Stepped(SteppedBy(m, d))
  BY <1>2, SteppedByIs
<1> QED BY <1>2, <1>4, <1>5 DEF After

LEMMA WrittenStays ==
    ASSUME NEW b, Written(b), UNCHANGED <<log, reached, noting>>
    PROVE  Written(b)'
BY DEF Written, Tail0, InputAt, From

LEMMA RecordedStays ==
    ASSUME IsRecorded, UNCHANGED <<machine, log, reached, noting>>, recording' /\ exact' => recording /\ exact
    PROVE  IsRecorded'
<1> SUFFICES ASSUME recording', exact'
             PROVE  \E held \in SUBSET Inputs, c \in Taken :
                        IsFiniteSet(held) /\ Recorded(Fresh(held, c))'
  BY DEF IsRecorded
<1>1. PICK held \in SUBSET Inputs, c \in Taken :
          IsFiniteSet(held) /\ Recorded(Fresh(held, c))
  BY DEF IsRecorded
<1> DEFINE b == Fresh(held, c)
<1> HIDE DEF b
<1>2. Recorded(b)'
  BY <1>1, WrittenStays DEF Recorded, b, From
<1> QED BY <1>1, <1>2 DEF b

LEMMA FaithfulStays ==
    ASSUME ReplayIsFaithful, UNCHANGED file, exact' => exact,
           reached' = reached \/ file = <<>> \/ reached' = <<>>
    PROVE  ReplayIsFaithful'
BY DEF ReplayIsFaithful

LEMMA SystemKeeps ==
    ASSUME ReplayInductive, SystemStep
    PROVE  ReplayInductive'
<1> USE DEF ReplayInductive
<1>1. machine \in Machines /\ IsFiniteSet(machine.held)
  BY DEF RecorderTypes
<1>2. Stepped(machine) \in Machines /\ KnownOf(Stepped(machine)) = KnownOf(machine)
      /\ Stepped(machine).held = machine.held
  BY <1>1, SteppedIs
<1>3. RecorderTypes'
  BY <1>1, <1>2 DEF RecorderTypes, SystemStep
<1>4. KnowsMachine'
  BY <1>2 DEF KnowsMachine, Knows, SystemStep, KnownOf
<1>5. FilesOnce'
  BY DEF FilesOnce, SystemStep
<1>6. IsRecorded'
  <2> SUFFICES ASSUME recording', exact'
               PROVE  \E held \in SUBSET Inputs, c \in Taken :
                          IsFiniteSet(held) /\ Recorded(Fresh(held, c))'
    BY DEF IsRecorded
  <2>1. recording /\ exact
    BY DEF SystemStep
  <2>2. PICK held \in SUBSET Inputs, c \in Taken :
            IsFiniteSet(held) /\ Recorded(Fresh(held, c))
    BY <2>1 DEF IsRecorded
  <2> DEFINE b == Fresh(held, c)
  <2>3. b \in Machines
    BY <2>2, FreshIs
  <2> HIDE DEF b
  <2>4. Written(b)'
    BY <2>2, WrittenStays DEF Recorded, b, SystemStep
  <2> DEFINE m == From(b, Len(reached) + 1)
  <2>5. m \in Machines
    <3>1. Len(reached) + 1 \in 1..Len(reached)+1
      BY DEF RecorderTypes
    <3> QED BY <2>3, <3>1, FromIs
  <2>6. After(m, Stepped(machine))
    BY <1>1, <2>2, <2>5, AfterAStep DEF Recorded, b
  <2>7. m' = m
    BY DEF SystemStep, From
  <2> HIDE DEF m
  <2>8. After(m', machine')
    BY <2>6, <2>7 DEF SystemStep
  <2>9. Recorded(b)'
    BY <2>4, <2>8 DEF Recorded, m
  <2> QED BY <2>2, <2>9 DEF b
<1>7. ReplayIsFaithful'
  BY FaithfulStays DEF SystemStep
<1> QED BY <1>3, <1>4, <1>5, <1>6, <1>7

LEMMA OpeningTypes ==
    ASSUME NEW k \in Records, IsFiniteSet(k.held)
    PROVE  Opening(k) \in Seq([cycle : Nat, input : Events]) /\ Len(Opening(k)) \in Nat
<1> DEFINE S == [cycle : Nat, input : Events]
           F == IF k.firmware THEN <<At(0, Event("firmware", NoCartridge))>> ELSE <<>>
           C == IF k.cartridge # NoCartridge THEN <<At(0, Event("insert", k.cartridge))>> ELSE <<>>
<1>1. Opening(k) = F \o C \o Presses(k.held)
  BY DEF Opening
<1>2. \A e \in Events : At(0, e) \in S
  BY DEF At
<1>3. F \in Seq(S)
  <2>1. Event("firmware", NoCartridge) \in Events
    BY DEF Events, StoppedEvents
  <2> DEFINE x == At(0, Event("firmware", NoCartridge))
  <2>2. x \in S
    BY <1>2, <2>1
  <2> HIDE DEF S, x
  <2>3. <<x>> \in Seq(S) /\ <<>> \in Seq(S)
    BY <2>2
  <2> QED BY <2>3 DEF x
<1>4. C \in Seq(S)
  <2>1. k.cartridge # NoCartridge => k.cartridge \in Cartridges
    BY DEF Records
  <2>2. \A c \in Cartridges : Event("insert", c) \in Events
    BY DEF Events, StoppedEvents
  <2> DEFINE x == At(0, Event("insert", k.cartridge))
  <2>3. k.cartridge # NoCartridge => x \in S
    BY <1>2, <2>1, <2>2
  <2> HIDE DEF S, x
  <2>4. <<>> \in Seq(S) /\ (k.cartridge # NoCartridge => <<x>> \in Seq(S))
    BY <2>3
  <2> QED BY <2>4 DEF x
<1>5. Presses(k.held) \in Seq(S)
  <2>1. {PressOf(i) : i \in k.held} \subseteq S
    <3>1. \A i \in k.held : Event("press", i) \in Events
      BY DEF Events, TouchEvents, Records
    <3> QED BY <1>2, <3>1 DEF PressOf
  <2> DEFINE T == {PressOf(i) : i \in k.held}
  <2>2. Presses(k.held) \in Seq(T)
    BY PressesAre
  <2> HIDE DEF T
  <2>3. T \subseteq S
    BY <2>1 DEF T
  <2> HIDE DEF S
  <2> QED BY <2>2, <2>3
<1> HIDE DEF S, F, C
<1>6. F \o C \o Presses(k.held) \in Seq(S)
  BY <1>3, <1>4, <1>5
<1>7. \A s \in Seq(S) : Len(s) \in Nat
  OBVIOUS
<1> QED BY <1>1, <1>6, <1>7 DEF S

LEMMA OpeningOfMachine ==
    ASSUME NEW b \in Machines, IsFiniteSet(b.held)
    PROVE  /\ Opening(KnownOf(b)) \in Seq([cycle : Nat, input : Events])
           /\ Len(Opening(KnownOf(b))) \in Nat
<1>1. KnownOf(b) \in Records /\ KnownOf(b).held = b.held
  BY DEF KnownOf, Machines, Records, Taken
<1> QED BY <1>1, OpeningTypes

(* An input that reaches the machine, whether it is noted at once or not.     *)
LEMMA InputIsRecorded ==
    ASSUME RecorderTypes, RecorderTypes', noting = <<>>, NEW e \in Events,
           machine' = Applied(machine, e), machine'.steps = machine.steps,
           reached' = Append(reached, machine'),
           \/ log' = log /\ noting' = <<e>>
           \/ log' = Append(log, At(machine'.steps, e)) /\ noting' = <<>> /\ machine'.steps <= MaxInt,
           NEW b \in Machines, IsFiniteSet(b.held), Recorded(b)
    PROVE  Recorded(b)'
<1>0. PICK n : n = Len(reached)
  OBVIOUS
<1> DEFINE op == Opening(KnownOf(b))
           o == Len(op)
<1>1. /\ n \in Nat /\ Len(reached') = n + 1 /\ \A i \in 1..n : reached'[i] = reached[i]
      /\ reached'[n + 1] = machine'
  BY <1>0 DEF RecorderTypes
<1>2. machine \in Machines /\ machine' \in Machines /\ Len(log) \in Nat /\ Tail0 = n
  BY <1>0, <1>1 DEF RecorderTypes, Tail0
<1>3. /\ \A i \in 1..n+1 : From(b, i)' = From(b, i)
      /\ From(b, n + 2)' = machine'
  <2>1. ASSUME NEW i \in 1..n+1 PROVE From(b, i)' = From(b, i)
    <3>1. CASE i = 1
      BY <3>1 DEF From
    <3>2. CASE i # 1
      <4>1. i - 1 \in 1..n
        BY <1>1, <3>2
      <4> QED BY <1>1, <3>2, <4>1 DEF From
    <3> QED BY <3>1, <3>2
  <2>2. From(b, n + 2)' = machine'
    <3>1. n + 2 # 1 /\ (n + 2) - 1 = n + 1
      BY <1>1
    <3> QED BY <1>1, <3>1 DEF From
  <2> QED BY <2>1, <2>2
<1>4. /\ Len(log) = o + n /\ o = Len(log) - n
      /\ \A i \in 1..o : log[i] = op[i]
      /\ \A i \in 1..n : /\ log[o + i] = At(reached[i].steps, log[o + i].input)
                         /\ reached[i].steps <= MaxInt
      /\ \A i \in 1..n :
            /\ InputAt(i) \in Events
            /\ \E d \in Nat : /\ reached[i] = Applied(SteppedBy(From(b, i), d), InputAt(i))
                              /\ reached[i].steps = From(b, i).steps + d
      /\ After(From(b, n + 1), machine)
  <2>1. Len(log) = o + n /\ o = Len(log) - n
    <3>1. Len(log) = o + n
      BY <1>2 DEF Recorded, Written
    <3>2. o \in Nat
      BY OpeningOfMachine
    <3> HIDE DEF o
    <3> QED BY <1>1, <1>2, <3>1, <3>2
  <2> QED BY <1>0, <1>2, <2>1 DEF Recorded, Written
<1> HIDE DEF op, o
<1>5. o \in Int /\ o >= 0
  BY OpeningOfMachine DEF o, op
<1>6. /\ \A i \in 1..n : InputAt(i)' = InputAt(i)
      /\ InputAt(n + 1)' = e
  <2>1. \A i \in 1..n : InputAt(i) = log[o + i].input
    <3>1. \A i \in 1..n : i <= Tail0 /\ Len(log) - Tail0 + i = o + i
      BY <1>1, <1>2, <1>4, <1>5
    <3> QED BY <3>1 DEF InputAt
  <2>2. CASE log' = log /\ noting' = <<e>>
    <3>1. Tail0' = n
      BY <1>1, <2>2 DEF Tail0
    <3>2. \A i \in 1..n : i <= n /\ Len(log) - n + i = o + i
      BY <1>1, <1>2, <1>4, <1>5
    <3>3. ~(n + 1 <= n) /\ Head(<<e>>) = e
      BY <1>1
    <3> QED BY <2>1, <2>2, <3>1, <3>2, <3>3 DEF InputAt
  <2>3. CASE log' = Append(log, At(machine'.steps, e)) /\ noting' = <<>>
    <3>1. Tail0' = n + 1
      BY <1>1, <2>3 DEF Tail0
    <3>2. Len(log') = Len(log) + 1 /\ (\A i \in 1..Len(log) : log'[i] = log[i])
          /\ log'[Len(log) + 1] = At(machine'.steps, e)
      BY <2>3 DEF RecorderTypes
    <3>3. \A i \in 1..n : i <= n + 1 /\ (Len(log) + 1) - (n + 1) + i = o + i /\ o + i \in 1..Len(log)
      BY <1>1, <1>2, <1>4, <1>5
    <3>4. n + 1 <= n + 1 /\ (Len(log) + 1) - (n + 1) + (n + 1) = Len(log) + 1
      BY <1>1, <1>2
    <3>5. At(machine'.steps, e).input = e
      BY DEF At
    <3>6. \A i : InputAt(i)' = IF i <= n + 1 THEN log'[(Len(log) + 1) - (n + 1) + i].input ELSE Head(noting')
      BY <3>1, <3>2 DEF InputAt
    <3> QED BY <2>1, <3>2, <3>3, <3>4, <3>5, <3>6
  <2> QED BY <2>2, <2>3
<1>7. \E d \in Nat : /\ machine' = Applied(SteppedBy(From(b, n + 1), d), e)
                     /\ machine'.steps = From(b, n + 1).steps + d
  <2> DEFINE m == From(b, n + 1)
             d == machine.steps - m.steps
  <2>1. m.steps \in Nat /\ machine.steps \in Nat
    <3>1. n + 1 \in 1..Len(reached)+1
      BY <1>0, <1>1
    <3> QED BY <1>2, <3>1, FromIs DEF Machines
  <2>2. machine.steps >= m.steps /\ machine = SteppedBy(m, d)
    BY <1>4 DEF After
  <2> HIDE DEF m
  <2>3. d \in Nat /\ machine.steps = m.steps + d
    BY <2>1, <2>2
  <2> HIDE DEF d
  <2> QED BY <2>2, <2>3 DEF m
<1>8. After(From(b, Len(reached) + 1), machine)'
  <2>1. After(machine', machine')
    BY <1>2, AfterItself
  <2>2. Len(reached') + 1 = n + 2
    BY <1>1
  <2>3. From(b, Len(reached) + 1)' = machine'
    BY <1>3, <2>2 DEF From
  <2> QED BY <2>1, <2>3 DEF After
<1>9. \A i \in 1..n+1 :
         /\ InputAt(i)' \in Events
         /\ \E d \in Nat : /\ reached'[i] = Applied(SteppedBy(From(b, i), d), InputAt(i))'
                           /\ reached'[i].steps = From(b, i)'.steps + d
  <2>1. ASSUME NEW i \in 1..n
        PROVE  /\ InputAt(i)' \in Events
               /\ \E d \in Nat : /\ reached'[i] = Applied(SteppedBy(From(b, i)', d), InputAt(i)')
                                 /\ reached'[i].steps = From(b, i)'.steps + d
    <3>1. i \in 1..n+1
      BY <1>1
    <3> QED BY <1>1, <1>3, <1>4, <1>6, <3>1
  <2>2. /\ InputAt(n + 1)' \in Events
        /\ \E d \in Nat : /\ reached'[n + 1] = Applied(SteppedBy(From(b, n + 1)', d), InputAt(n + 1)')
                          /\ reached'[n + 1].steps = From(b, n + 1)'.steps + d
    <3>1. n + 1 \in 1..n+1
      BY <1>1
    <3> QED BY <1>1, <1>3, <1>6, <1>7, <3>1
  <2>3. \A i \in 1..n+1 : i \in 1..n \/ i = n + 1
    BY <1>1
  <2> QED BY <2>1, <2>2, <2>3
<1>10. /\ Len(log') = o + Tail0' /\ Tail0' \in Nat
       /\ \A i \in 1..o : log'[i] = op[i]
       /\ \A i \in 1..Tail0' : /\ log'[o + i] = At(reached'[i].steps, log'[o + i].input)
                               /\ reached'[i].steps <= MaxInt
  <2>1. CASE log' = log /\ noting' = <<e>>
    <3>1. Tail0' = n
      BY <1>1, <2>1 DEF Tail0
    <3> QED BY <1>1, <1>4, <2>1, <3>1
  <2>2. CASE log' = Append(log, At(machine'.steps, e)) /\ noting' = <<>> /\ machine'.steps <= MaxInt
    <3>1. Tail0' = n + 1
      BY <1>1, <2>2 DEF Tail0
    <3>2. Len(log') = Len(log) + 1 /\ (\A i \in 1..Len(log) : log'[i] = log[i])
          /\ log'[Len(log) + 1] = At(machine'.steps, e)
      BY <2>2 DEF RecorderTypes
    <3>3. /\ \A i \in 1..n : o + i \in 1..Len(log)
          /\ \A i \in 1..o : i \in 1..Len(log)
          /\ Len(log') = o + (n + 1) /\ o + (n + 1) = Len(log) + 1
      <4>1. n \in Nat /\ o \in Int /\ o >= 0 /\ Len(log) = o + n /\ Len(log') = Len(log) + 1
        BY <1>1, <1>4, <1>5, <3>2
      <4> QED BY <4>1
    <3>4. \A i \in 1..n+1 : i \in 1..n \/ i = n + 1
      BY <1>1
    <3>5. \A i \in 1..n : /\ log'[o + i] = At(reached'[i].steps, log'[o + i].input)
                          /\ reached'[i].steps <= MaxInt
      BY <1>1, <1>4, <3>2, <3>3
    <3>6. /\ log'[o + (n + 1)] = At(reached'[n + 1].steps, log'[o + (n + 1)].input)
          /\ reached'[n + 1].steps <= MaxInt
      BY <1>1, <2>2, <3>2, <3>3 DEF At
    <3>7. \A i \in 1..o : log'[i] = op[i]
      BY <1>4, <3>2, <3>3
    <3> QED BY <1>1, <3>1, <3>3, <3>4, <3>5, <3>6, <3>7
  <2> QED BY <2>1, <2>2
<1>11. Written(b)'
  BY <1>1, <1>9, <1>10 DEF Written, o, op
<1> QED BY <1>8, <1>11 DEF Recorded

LEMMA TouchKeeps ==
    ASSUME ReplayInductive, ~aborted, NEW e \in TouchEvents, Touch(e)
    PROVE  ReplayInductive'
<1> USE DEF ReplayInductive
<1>1. e \in Events /\ e.type # "firmware"
  BY DEF Events, TouchEvents, Event
<1>2. machine \in Machines /\ IsFiniteSet(machine.held)
  BY DEF RecorderTypes
<1>3. /\ machine' = Applied(machine, e) /\ machine' \in Machines /\ IsFiniteSet(machine'.held)
      /\ machine'.steps = machine.steps
  BY <1>1, <1>2, AppliedIs DEF Touch
<1>4. RecorderTypes'
  <2>1. noting' = <<e>> /\ log' = log
    BY DEF Touch
  <2>2. reached' \in Seq(Machines)
    BY <1>3 DEF Touch, Reaches, RecorderTypes
  <2> QED BY <1>3, <2>1, <2>2 DEF RecorderTypes, Touch
<1>5. KnowsMachine'
  <2>1. noting = <<>> /\ noting' = <<e>> /\ noting' # <<>> /\ Head(noting') = e /\ known' = known
    BY DEF Touch
  <2>2. known \in Records /\ Knows(known, machine)
    BY <2>1 DEF KnowsMachine
  <2>3. Knows(Known(known, e), machine')
    BY <1>1, <1>2, <1>3, <2>2, KnownIs
  <2> QED BY <2>1, <2>2, <2>3 DEF KnowsMachine, Knows
<1>6. FilesOnce'
  BY DEF FilesOnce, Touch
<1>7. IsRecorded'
  <2> SUFFICES ASSUME recording', exact'
               PROVE  \E held \in SUBSET Inputs, c \in Taken :
                          IsFiniteSet(held) /\ Recorded(Fresh(held, c))'
    BY DEF IsRecorded
  <2>1. recording /\ exact
    BY DEF Touch
  <2>2. PICK held \in SUBSET Inputs, c \in Taken :
            IsFiniteSet(held) /\ Recorded(Fresh(held, c))
    BY <2>1 DEF IsRecorded
  <2> DEFINE b == Fresh(held, c)
  <2>3. b \in Machines /\ IsFiniteSet(b.held)
    BY <2>2, FreshIs DEF Fresh, Unstepped
  <2> HIDE DEF b
  <2>4. reached' = Append(reached, machine') /\ log' = log /\ noting' = <<e>> /\ noting = <<>>
    BY <2>1 DEF Touch, Reaches
  <2>5. Recorded(b)'
    BY <1>1, <1>3, <1>4, <2>2, <2>3, <2>4, InputIsRecorded DEF b
  <2> QED BY <2>2, <2>5 DEF b
<1>8. ReplayIsFaithful'
  <2>1. reached' = reached \/ file = <<>>
    BY DEF Touch, Reaches, FilesOnce
  <2> QED BY <2>1, FaithfulStays DEF Touch
<1> QED BY <1>4, <1>5, <1>6, <1>7, <1>8

LEMMA NoteKeeps ==
    ASSUME ReplayInductive, ~aborted, Note
    PROVE  ReplayInductive'
<1> USE DEF ReplayInductive
<1>1. PICK e \in TouchEvents : noting = <<e>>
  BY DEF Note, RecorderTypes
<1>2. noting # <<>> /\ Len(noting) = 1 /\ Head(noting) = e /\ e \in Events
  BY <1>1 DEF Events
<1>3. PICK entry : entry = At(machine.retired, e)
  OBVIOUS
<1>4. entry \in [cycle : Nat, input : Events] /\ entry.input = e /\ entry.cycle = machine.retired
  <2>1. machine.retired \in Nat
    BY DEF RecorderTypes, Machines
  <2> QED BY <1>2, <1>3, <2>1 DEF At
<1>5. /\ known' = Known(known, e) /\ log' = (IF recording THEN Append(log, entry) ELSE log)
      /\ aborted' = ~isArray /\ noting' = <<>>
      /\ UNCHANGED <<machine, recording, isArray, file, reached>>
      /\ exact' = (exact /\ (recording => NotedRight(reached[Len(reached)], machine.retired)))
  BY <1>2, <1>3 DEF Note, Add, Stays
<1> HIDE DEF Note
<1>6. RecorderTypes'
  <2>1. log' \in Seq([cycle : Nat, input : Events])
    <3> DEFINE S == [cycle : Nat, input : Events]
    <3>1. log \in Seq(S) /\ entry \in S
      BY <1>4 DEF RecorderTypes
    <3> HIDE DEF S
    <3>2. log' \in Seq(S)
      BY <1>5, <3>1
    <3> QED BY <3>2 DEF S
  <2>2. aborted' \in BOOLEAN /\ exact' \in BOOLEAN
    BY <1>5 DEF RecorderTypes
  <2> QED BY <1>5, <2>1, <2>2 DEF RecorderTypes
<1>7. KnowsMachine'
  <2>1. known' \in Records
    <3>1. known \in Records
      BY DEF KnowsMachine
    <3>2. CASE e = Event("command", NoCartridge)
      <4>1. e.type = "command"
        BY <3>2 DEF Event
      <4> QED BY <1>5, <3>1, <4>1 DEF Known
    <3>3. CASE \E i \in Inputs : e = Event("press", i) \/ e = Event("release", i)
      <4>1. PICK i \in Inputs : e = Event("press", i) \/ e = Event("release", i)
        BY <3>3
      <4>2. e.data = i /\ (e.type = "press" \/ e.type = "release")
        BY <4>1 DEF Event
      <4>3. known' = [known EXCEPT !.held = @ \cup {i}] \/ known' = [known EXCEPT !.held = @ \ {i}]
        BY <1>5, <4>2 DEF Known
      <4> QED BY <3>1, <4>3 DEF Records
    <3> QED BY <1>1, <3>2, <3>3 DEF TouchEvents
  <2>2. Knows(known', machine')
    BY <1>2, <1>5 DEF KnowsMachine, Knows
  <2> QED BY <1>5, <2>1, <2>2 DEF KnowsMachine, Knows
<1>8. FilesOnce'
  BY <1>5 DEF FilesOnce
<1>9. IsRecorded'
  <2> SUFFICES ASSUME recording', exact'
               PROVE  \E held \in SUBSET Inputs, c \in Taken :
                          IsFiniteSet(held) /\ Recorded(Fresh(held, c))'
    BY DEF IsRecorded
  <2>1. recording /\ exact /\ NotedRight(reached[Len(reached)], machine.retired)
    BY <1>5
  <2>2. PICK held \in SUBSET Inputs, c \in Taken :
            IsFiniteSet(held) /\ Recorded(Fresh(held, c))
    BY <2>1 DEF IsRecorded
  <2> DEFINE b == Fresh(held, c)
             op == Opening(KnownOf(b))
             o == Len(op)
  <2>3. PICK n : n = Len(reached)
    OBVIOUS
  <2>4. b \in Machines /\ IsFiniteSet(b.held)
    BY <2>2, FreshIs DEF Fresh, Unstepped
  <2>5. o \in Nat
    BY <2>4, OpeningOfMachine
  <2> HIDE DEF b, op, o
  <2>6. n \in Nat /\ Len(log) \in Nat /\ Tail0 = n - 1
    BY <1>2, <2>3 DEF RecorderTypes, Tail0
  <2>7. /\ Len(log) = o + (n - 1) /\ n - 1 \in Nat
        /\ \A i \in 1..o : log[i] = op[i]
        /\ \A i \in 1..n-1 : /\ log[o + i] = At(reached[i].steps, log[o + i].input)
                             /\ reached[i].steps <= MaxInt
        /\ \A i \in 1..n :
              /\ InputAt(i) \in Events
              /\ \E d \in Nat : /\ reached[i] = Applied(SteppedBy(From(b, i), d), InputAt(i))
                                /\ reached[i].steps = From(b, i).steps + d
        /\ After(From(b, n + 1), machine)
    BY <2>2, <2>3, <2>6 DEF Recorded, Written, b, op, o
  <2>8. Tail0' = n
    BY <1>5, <2>3, <2>6 DEF Tail0
  <2>9. /\ Len(log') = Len(log) + 1 /\ (\A i \in 1..Len(log) : log'[i] = log[i])
        /\ log'[Len(log) + 1] = entry
    BY <1>4, <1>5, <2>1 DEF RecorderTypes
  <2>10. /\ Len(log') = o + n /\ Len(log) + 1 = o + n
         /\ \A i \in 1..n-1 : o + i \in 1..Len(log)
         /\ \A i \in 1..o : i \in 1..Len(log)
         /\ \A i \in 1..n : i \in 1..n-1 \/ i = n
    <3>1. n \in Nat /\ n - 1 \in Nat /\ o \in Nat /\ Len(log) = o + (n - 1) /\ Len(log') = Len(log) + 1
      BY <2>5, <2>6, <2>7, <2>9
    <3> QED BY <3>1
  <2>11. entry = At(reached[n].steps, e) /\ reached[n].steps <= MaxInt
    BY <1>3, <2>1, <2>3 DEF NotedRight
  <2>12. \A i \in 1..n : /\ log'[o + i] = At(reached[i].steps, log'[o + i].input)
                         /\ reached[i].steps <= MaxInt
    BY <1>4, <2>7, <2>9, <2>10, <2>11
  <2>13. \A i \in 1..n : InputAt(i)' = InputAt(i)
    <3>1. \A i \in 1..n : InputAt(i)' = log'[o + i].input
      <4>1. \A i \in 1..n : i <= n /\ Len(log') - n + i = o + i
        BY <2>5, <2>6, <2>10
      <4> QED BY <2>8, <4>1 DEF InputAt
    <3>2. \A i \in 1..n-1 : InputAt(i) = log[o + i].input
      <4>1. \A i \in 1..n-1 : i <= n - 1 /\ Len(log) - (n - 1) + i = o + i
        <5>1. n \in Nat /\ o \in Nat /\ Len(log) = o + (n - 1)
          BY <2>5, <2>6, <2>7
        <5> QED BY <5>1
      <4> QED BY <2>6, <4>1 DEF InputAt
    <3>3. InputAt(n) = e
      BY <1>2, <2>6 DEF InputAt
    <3> QED BY <1>4, <2>9, <2>10, <3>1, <3>2, <3>3
  <2>14. Written(b)'
    <3>1. \A i \in 1..n : From(b, i)' = From(b, i)
      BY <1>5 DEF From
    <3>2. \A i \in 1..n :
              /\ InputAt(i)' \in Events
              /\ \E d \in Nat : /\ reached'[i] = Applied(SteppedBy(From(b, i), d), InputAt(i))'
                                /\ reached'[i].steps = From(b, i)'.steps + d
      BY <1>5, <2>7, <2>13, <3>1
    <3>3. \A i \in 1..o : log'[i] = op[i]
      BY <2>7, <2>9, <2>10
    <3> QED BY <1>5, <2>3, <2>6, <2>8, <2>10, <2>12, <3>2, <3>3 DEF Written, op, o
  <2>15. Recorded(b)'
    BY <1>5, <2>3, <2>7, <2>14 DEF Recorded, From
  <2> QED BY <2>2, <2>15 DEF b
<1>10. ReplayIsFaithful'
  BY <1>5, FaithfulStays
<1> QED BY <1>6, <1>7, <1>8, <1>9, <1>10

LEMMA ChangeKeeps ==
    ASSUME ReplayInductive, ~aborted, NEW e \in StoppedEvents, ChangeStopped(e)
    PROVE  ReplayInductive'
<1> USE DEF ReplayInductive
<1>1. e \in Events
  BY DEF Events
<1>2. machine \in Machines /\ IsFiniteSet(machine.held) /\ machine.retired \in Nat /\ machine.steps \in Nat
  BY DEF RecorderTypes, Machines
<1>3. /\ machine' = Applied(machine, e) /\ machine' \in Machines /\ IsFiniteSet(machine'.held)
      /\ (e.type # "firmware" => machine'.steps = machine.steps)
  BY <1>1, <1>2, AppliedIs DEF ChangeStopped
<1>4. e.type = "firmware" => machine'.steps = 0
  <2>1. ASSUME e.type = "firmware" PROVE machine'.steps = 0
    <3>1. machine' = [Restarted(machine) EXCEPT !.firmware = TRUE]
      BY <1>3, <2>1 DEF Applied
    <3> QED BY <1>2, <3>1 DEF Restarted, Machines
  <2> QED BY <2>1
<1>5. PICK entry : entry = At(CycleOf(e), e)
  OBVIOUS
<1>6. entry \in [cycle : Nat, input : Events]
  BY <1>1, <1>2, <1>5 DEF At, CycleOf
<1>7. /\ known' = Known(known, e) /\ log' = (IF recording THEN Append(log, entry) ELSE log)
      /\ aborted' = ~isArray /\ noting = <<>>
      /\ reached' = (IF recording /\ exact THEN Append(reached, machine') ELSE reached)
      /\ UNCHANGED <<noting, recording, isArray, file>>
  BY <1>5 DEF ChangeStopped, Add, Reaches
<1>8. exact' = (exact /\ (recording => IF e.type = "firmware" THEN machine' = machine
                                       ELSE NotedRight(machine, CycleOf(e))))
  BY DEF ChangeStopped, Stays
<1> HIDE DEF ChangeStopped
<1>9. RecorderTypes'
  <2>1. log' \in Seq([cycle : Nat, input : Events])
    <3> DEFINE S == [cycle : Nat, input : Events]
    <3>1. log \in Seq(S) /\ entry \in S
      BY <1>6 DEF RecorderTypes
    <3> HIDE DEF S
    <3>2. log' \in Seq(S)
      BY <1>7, <3>1
    <3> QED BY <3>2 DEF S
  <2>2. aborted' \in BOOLEAN /\ exact' \in BOOLEAN
    BY <1>7, <1>8 DEF RecorderTypes
  <2>3. reached' \in Seq(Machines)
    BY <1>3, <1>7 DEF RecorderTypes
  <2> QED BY <1>3, <1>7, <2>1, <2>2, <2>3 DEF RecorderTypes
<1>10. KnowsMachine'
  <2>1. known \in Records /\ Knows(known, machine)
    BY <1>7 DEF KnowsMachine
  <2>2. known' \in Records /\ Knows(known', machine')
    BY <1>1, <1>2, <1>3, <1>7, <2>1, KnownIs
  <2> QED BY <1>7, <2>2 DEF KnowsMachine, Knows
<1>11. FilesOnce'
  BY <1>7 DEF FilesOnce
<1>12. IsRecorded'
  <2> SUFFICES ASSUME recording', exact'
               PROVE  \E held \in SUBSET Inputs, c \in Taken :
                          IsFiniteSet(held) /\ Recorded(Fresh(held, c))'
    BY DEF IsRecorded
  <2>1. recording /\ exact /\ IF e.type = "firmware" THEN machine' = machine
                              ELSE NotedRight(machine, CycleOf(e))
    BY <1>7, <1>8
  <2>2. PICK held \in SUBSET Inputs, c \in Taken :
            IsFiniteSet(held) /\ Recorded(Fresh(held, c))
    BY <2>1 DEF IsRecorded
  <2> DEFINE b == Fresh(held, c)
  <2>3. b \in Machines /\ IsFiniteSet(b.held)
    BY <2>2, FreshIs DEF Fresh, Unstepped
  <2> HIDE DEF b
  <2>4. machine'.steps = machine.steps /\ entry = At(machine'.steps, e) /\ machine'.steps <= MaxInt
    <3>1. CASE e.type = "firmware"
      <4>1. 0 <= MaxInt
        BY ReplayAssumption
      <4> QED BY <1>4, <1>5, <2>1, <3>1, <4>1 DEF CycleOf
    <3>2. CASE e.type # "firmware"
      BY <1>3, <1>5, <2>1, <3>2 DEF NotedRight
    <3> QED BY <3>1, <3>2
  <2>5. reached' = Append(reached, machine') /\ log' = Append(log, At(machine'.steps, e)) /\ noting' = <<>>
    BY <1>7, <2>1, <2>4
  <2>6. Recorded(b)'
    BY <1>1, <1>3, <1>7, <1>9, <2>2, <2>3, <2>4, <2>5, InputIsRecorded DEF b
  <2> QED BY <2>2, <2>6 DEF b
<1>13. ReplayIsFaithful'
  <2>1. reached' = reached \/ file = <<>>
    BY <1>7 DEF FilesOnce
  <2> QED BY <1>7, <1>8, <2>1, FaithfulStays
<1> QED BY <1>9, <1>10, <1>11, <1>12, <1>13

LEMMA ResetKeeps ==
    ASSUME ReplayInductive, Reset
    PROVE  ReplayInductive'
<1> USE DEF ReplayInductive
<1>1. machine \in Machines /\ IsFiniteSet(machine.held)
  BY DEF RecorderTypes
<1>2. /\ machine' \in Machines /\ KnownOf(machine') = KnownOf(machine) /\ machine'.held = machine.held
  BY <1>1, RestartedIs DEF Reset
<1>3. exact' = (exact /\ (recording => machine' = machine))
      /\ UNCHANGED <<noting, recording, log, isArray, known, file, reached, aborted>>
  BY DEF Reset, Stays
<1>4. RecorderTypes'
  BY <1>1, <1>2, <1>3 DEF RecorderTypes
<1>5. KnowsMachine'
  BY <1>2, <1>3 DEF KnowsMachine, Knows, KnownOf
<1>6. FilesOnce'
  BY <1>3 DEF FilesOnce
<1>7. IsRecorded'
  <2>1. CASE machine' = machine
    BY <1>3, <2>1, RecordedStays
  <2>2. CASE machine' # machine
    BY <1>3, <2>2 DEF IsRecorded
  <2> QED BY <2>1, <2>2
<1>8. ReplayIsFaithful'
  BY <1>3, FaithfulStays
<1> QED BY <1>4, <1>5, <1>6, <1>7, <1>8

LEMMA StartRecordKeeps ==
    ASSUME ReplayInductive, StartRecord
    PROVE  ReplayInductive'
<1> USE DEF ReplayInductive
<1>1. machine \in Machines /\ IsFiniteSet(machine.held)
  BY DEF RecorderTypes
<1>2. /\ noting = <<>> /\ recording' = TRUE /\ log' = Opening(known) /\ aborted' = ~isArray
      /\ exact' = (BeginsAfresh(machine) /\ known.cartridge = machine.cartridge) /\ reached' = <<>>
      /\ UNCHANGED <<machine, noting, isArray, known, file>>
  BY DEF StartRecord
<1>3. known \in Records /\ known.firmware = machine.firmware /\ known.held = machine.held
  BY <1>2 DEF KnowsMachine, Knows
<1>4. RecorderTypes'
  <2>1. log' \in Seq([cycle : Nat, input : Events])
    BY <1>1, <1>2, <1>3, OpeningTypes
  <2>2. aborted' \in BOOLEAN /\ exact' \in BOOLEAN /\ recording' \in BOOLEAN
    BY <1>2 DEF RecorderTypes, BeginsAfresh
  <2>3. reached' \in Seq(Machines)
    BY <1>2
  <2> QED BY <1>2, <2>1, <2>2, <2>3 DEF RecorderTypes
<1>5. KnowsMachine'
  BY <1>2 DEF KnowsMachine, Knows
<1>6. FilesOnce'
  BY <1>2 DEF FilesOnce
<1>7. IsRecorded'
  <2> SUFFICES ASSUME exact'
               PROVE  \E held \in SUBSET Inputs, c \in Taken :
                          IsFiniteSet(held) /\ Recorded(Fresh(held, c))'
    BY DEF IsRecorded
  <2>1. BeginsAfresh(machine)
    BY <1>2
  <2>2. PICK held \in SUBSET Inputs, c \in Taken :
            held = machine.held /\ c = machine.cartridge
    BY <1>1 DEF Machines
  <2>3. IsFiniteSet(held)
    BY <1>1, <2>2
  <2> DEFINE b == Fresh(held, c)
             op == Opening(KnownOf(b))
             o == Len(op)
  <2>4. machine = b
    <3>1. machine = [NewMachine EXCEPT !.firmware = TRUE, !.held = held, !.cartridge = c,
                                       !.raised = Raises(c)]
      BY <2>1, <2>2 DEF BeginsAfresh, Raises
    <3> DEFINE r == Raises(c)
               m1 == [NewMachine EXCEPT !.firmware = TRUE]
               m2 == [m1 EXCEPT !.held = held]
               m3 == [m2 EXCEPT !.cartridge = c]
               m4 == [m3 EXCEPT !.raised = r]
    <3> HIDE DEF r
    <3>2. m1 = Unstepped(TRUE, NoCartridge, {}, {})
      <4>1. \A x : [Unstepped(FALSE, NoCartridge, {}, {}) EXCEPT !.firmware = x]
                     = Unstepped(x, NoCartridge, {}, {})
        BY DEF Unstepped
      <4> QED BY <4>1, NewIsUnstepped
    <3>3. \A x : /\ [Unstepped(x, NoCartridge, {}, {}) EXCEPT !.held = held]
                      = Unstepped(x, NoCartridge, held, {})
                 /\ [Unstepped(x, NoCartridge, held, {}) EXCEPT !.cartridge = c] = Unstepped(x, c, held, {})
                 /\ [Unstepped(x, c, held, {}) EXCEPT !.raised = r] = Unstepped(x, c, held, r)
      BY DEF Unstepped
    <3> HIDE DEF m1
    <3>4. m4 = Unstepped(TRUE, c, held, r)
      BY <3>2, <3>3
    <3>5. machine = m4
      BY <3>1 DEF m1, r
    <3> QED BY <3>4, <3>5 DEF Fresh, r
  <2>5. b \in Machines /\ IsFiniteSet(b.held)
    BY <1>1, <2>4
  <2>6. o \in Nat /\ log' = op
    <3>1. known = KnownOf(machine)
      BY <1>2, <1>3 DEF KnownOf, Records
    <3> QED BY <1>2, <2>4, <2>5, <3>1, OpeningOfMachine
  <2>7. After(b, b)
    BY <2>5, AfterItself
  <2> HIDE DEF b, op, o
  <2>8. Len(reached') = 0 /\ Tail0' = 0
    BY <1>2 DEF Tail0
  <2>9. 1..0 = {} /\ o = o + 0
    BY <2>6
  <2>10. Written(b)'
    BY <2>6, <2>8, <2>9 DEF Written, op, o
  <2>11. From(b, Len(reached) + 1)' = b
    BY <2>8 DEF From
  <2>12. Recorded(b)'
    BY <1>2, <2>4, <2>7, <2>10, <2>11 DEF Recorded, After
  <2> QED BY <2>3, <2>12 DEF b
<1>8. ReplayIsFaithful'
  BY <1>2 DEF ReplayIsFaithful
<1> QED BY <1>4, <1>5, <1>6, <1>7, <1>8

LEMMA EndRecordKeeps ==
    ASSUME ReplayInductive, ~aborted, EndRecord
    PROVE  ReplayInductive'
<1> USE DEF ReplayInductive
<1>1. /\ noting = <<>> /\ recording /\ recording' = FALSE /\ log' = <<>>
      /\ exact' = (exact /\ ~isArray') /\ UNCHANGED <<machine, noting, known, reached, aborted>>
      /\ (file' = log /\ isArray' = FALSE) \/ UNCHANGED <<file, isArray>>
  BY DEF EndRecord
<1>2. isArray
  BY <1>1 DEF FilesOnce
<1>3. RecorderTypes'
  <2>1. isArray' \in BOOLEAN
    BY <1>1 DEF RecorderTypes
  <2>2. exact' \in BOOLEAN
    BY <1>1, <2>1 DEF RecorderTypes
  <2>3. log' \in Seq([cycle : Nat, input : Events])
    <3>1. log' = <<>>
      BY <1>1
    <3> QED BY <3>1
  <2>4. recording' \in BOOLEAN
    BY <1>1
  <2> QED BY <1>1, <2>1, <2>2, <2>3, <2>4 DEF RecorderTypes
<1>4. KnowsMachine'
  BY <1>1 DEF KnowsMachine, Knows
<1>5. FilesOnce'
  BY <1>1 DEF FilesOnce
<1>6. IsRecorded'
  BY <1>1 DEF IsRecorded
<1>7. ReplayIsFaithful'
  <2>1. CASE file' = log /\ isArray' = FALSE
    <3> SUFFICES ASSUME exact' PROVE ReplayIsFaithful'
      BY DEF ReplayIsFaithful
    <3>1. PICK held \in SUBSET Inputs, c \in Taken :
              IsFiniteSet(held) /\ Recorded(Fresh(held, c))
      BY <1>1 DEF IsRecorded
    <3>2. \A i \in 1..Len(reached) : reached[i] = Replayed(log)[Len(log) - Len(reached) + i]
      BY <1>1, <3>1, RecordReplays
    <3>3. DOMAIN reached = 1..Len(reached)
      BY DEF RecorderTypes
    <3>4. Replayed(file)' = Replayed(log) /\ file' = log /\ reached' = reached
      BY <1>1, <2>1 DEF Replayed
    <3> QED BY <3>2, <3>3, <3>4 DEF ReplayIsFaithful
  <2>2. CASE UNCHANGED <<file, isArray>>
    BY <1>1, <1>2, <2>2 DEF ReplayIsFaithful
  <2> QED BY <1>1, <2>1, <2>2
<1> QED BY <1>3, <1>4, <1>5, <1>6, <1>7

LEMMA ReplayStarts == ReplayInit => ReplayInductive
<1> SUFFICES ASSUME ReplayInit PROVE ReplayInductive
  OBVIOUS
<1> USE DEF ReplayInit
<1>1. RecorderTypes
  <2>1. NewMachine \in Machines
    BY ReplayAssumption DEF NewMachine, Machines, Taken
  <2>2. IsFiniteSet(NewMachine.held)
    BY FS_EmptySet DEF NewMachine
  <2>3. machine \in Machines /\ IsFiniteSet(machine.held)
    BY <2>1, <2>2
  <2>4. log \in Seq([cycle : Nat, input : Events]) /\ reached \in Seq(Machines)
    OBVIOUS
  <2> QED BY <2>3, <2>4 DEF RecorderTypes
<1>2. KnowsMachine
  BY DEF KnowsMachine, Knows, Records, NewMachine
<1> QED BY <1>1, <1>2 DEF ReplayInductive, FilesOnce, IsRecorded, ReplayIsFaithful

LEMMA ReplayStutters == ASSUME ReplayInductive, UNCHANGED replayVars PROVE ReplayInductive'
<1> USE DEF ReplayInductive, replayVars
<1>1. RecorderTypes' /\ KnowsMachine' /\ FilesOnce'
  BY DEF RecorderTypes, KnowsMachine, Knows, FilesOnce
<1>2. IsRecorded'
  BY RecordedStays
<1>3. ReplayIsFaithful'
  BY FaithfulStays
<1> QED BY <1>1, <1>2, <1>3

(* Whatever the user does, in whatever order and with whatever instructions   *)
(* between: between two callbacks the recorder knows what the machine holds,  *)
(* but for a cartridge that was refused, and every input of an exact          *)
(* recording meets in the replay of the saved file the very machine it met    *)
(* when it was recorded.                                                      *)
THEOREM ReplaySafe == ReplaySpec => []ReplayInv
<1>1. ReplayInit => ReplayInductive
  BY ReplayStarts
<1>2. ReplayInductive /\ [ReplayNext]_replayVars => ReplayInductive'
  <2> SUFFICES ASSUME ReplayInductive, [ReplayNext]_replayVars PROVE ReplayInductive'
    OBVIOUS
  <2>1. CASE SystemStep
    BY <2>1, SystemKeeps
  <2>2. CASE ~aborted /\ Note
    BY <2>2, NoteKeeps
  <2>3. CASE Reset
    BY <2>3, ResetKeeps
  <2>4. CASE StartRecord
    BY <2>4, StartRecordKeeps
  <2>5. CASE ~aborted /\ EndRecord
    BY <2>5, EndRecordKeeps
  <2>6. ASSUME ~aborted, NEW e \in TouchEvents, Touch(e) PROVE ReplayInductive'
    BY <2>6, TouchKeeps
  <2>7. ASSUME ~aborted, NEW e \in StoppedEvents, ChangeStopped(e) PROVE ReplayInductive'
    BY <2>7, ChangeKeeps
  <2>8. CASE UNCHANGED replayVars
    BY <2>8, ReplayStutters
  <2>9. /\ \A i \in Inputs : Event("press", i) \in TouchEvents /\ Event("release", i) \in TouchEvents
        /\ Event("command", NoCartridge) \in TouchEvents
        /\ \A c \in Cartridges : Event("insert", c) \in StoppedEvents
        /\ \A t \in {"firmware", "remove"} : Event(t, NoCartridge) \in StoppedEvents
    BY DEF TouchEvents, StoppedEvents
  <2> HIDE DEF ReplayInductive
  <2> QED BY <2>1, <2>2, <2>3, <2>4, <2>5, <2>6, <2>7, <2>8, <2>9 DEF ReplayNext
<1>3. ReplayInductive => ReplayInv
  <2>1. KnowsMachine => RecorderKnows
    BY DEF KnowsMachine, RecorderKnows, Knows
  <2> QED BY <2>1 DEF ReplayInductive, ReplayInv
<1> QED BY <1>1, <1>2, <1>3, PTL DEF ReplaySpec
=============================================================================
