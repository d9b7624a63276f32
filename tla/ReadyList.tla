----------------------------- MODULE ReadyList -----------------------------
(* ready_list_ of the scheduler (os_kernel/src/cs251_scheduler.h) without the *)
(* assumption of Scheduler.tla that its operations are atomic. A thread that  *)
(* pushes or pops has preemption off, so no other thread comes between; but   *)
(* interrupts stay on, and the timer's handler resumes sleepers, which pushes *)
(* into the same deque (cs251_timer.h:30-39), preemption or not. A push may   *)
(* also turn the storage and let it grow, whose vector takes its new capacity *)
(* before its new block (ecs_vector.h:33-44). An interrupt that pushes in the *)
(* middle of that may write anywhere; the behaviour is followed up to there.  *)
EXTENDS Deque, FiniteSets

CONSTANTS OsThreads,     \* the threads
          FirstReady     \* those main creates; the first is launched

ASSUME ReadyAssumption ==
    /\ IsFiniteSet(OsThreads) /\ Blank \notin OsThreads
    /\ FirstReady \in Seq(OsThreads) /\ FirstReady # <<>>
    /\ \A i, j \in DOMAIN FirstReady : FirstReady[i] = FirstReady[j] => i = j

VARIABLES
    rstep,      \* where the running thread is inside push_back or pop_front
    list,       \* ready_list_
    index,      \* the index it has read and not yet written back
    pushed,     \* the thread id it pushes, Blank when it only pops
    following,  \* next_thread_id of switchCurrentThreadTo, Blank outside it
    current,    \* running_thread_id_
    asleep,     \* the threads that wait
    cap,        \* cap_ of the list's vector
    block,      \* how many slots mem_ really has
    struck,     \* an interrupt has pushed in the middle of an operation
    exposed     \* ... while the storage was being turned or grown

readyVars == <<rstep, list, index, pushed, following, current, asleep, cap, block, struck, exposed>>

(* findMemSize: the power of two that n slots take *)
MemSizes(n) == {m \in n..(2 * n - 1) : \E k \in 0..n : m = 2 ^ k}

(* The places inside push_back where the storage is neither the old one nor   *)
(* the new one.                                                               *)
Growing == {"invert", "widen", "move", "resize"}

-----------------------------------------------------------------------------
(* switchCurrentThreadTo: front() and pop_front() of a list that is not empty; *)
(* a thread that yields is pushed after that, one that suspends is not.       *)
Switch ==
    /\ rstep = "idle" /\ Size(list) > 0
    /\ index' = list.begin
    /\ following' = Foremost(list)
    /\ pushed' \in {current, Blank}
    /\ rstep' = "pop"
    /\ UNCHANGED <<list, current, asleep, cap, block, struck, exposed>>

WriteBegin ==
    /\ rstep = "pop"
    /\ list' = [list EXCEPT !.begin = Wrap(index + 1, list.room)]
    /\ IF pushed = Blank
       THEN /\ rstep' = "idle"
            /\ current' = following /\ following' = Blank
            /\ asleep' = asleep \cup {current}
       ELSE rstep' = "test" /\ UNCHANGED <<current, following, asleep>>
    /\ UNCHANGED <<index, pushed, cap, block, struck, exposed>>

(* resume, called by a thread *)
Resume(t) ==
    /\ rstep = "idle" /\ t \in asleep
    /\ pushed' = t /\ asleep' = asleep \ {t}
    /\ rstep' = "test"
    /\ UNCHANGED <<list, index, following, current, cap, block, struck, exposed>>

-----------------------------------------------------------------------------
(* push_back *)
TestRoom ==
    /\ rstep = "test"
    /\ rstep' = IF Size(list) = Capacity(list) THEN "turn" ELSE "store"
    /\ UNCHANGED <<list, index, pushed, following, current, asleep, cap, block, struck, exposed>>

(* normalize_idx returns at once when the list starts at slot 0.              *)
Turn ==
    /\ rstep = "turn"
    /\ index' = list.begin
    /\ rstep' = IF list.begin = 0 THEN "widen" ELSE "invert"
    /\ UNCHANGED <<list, pushed, following, current, asleep, cap, block, struck, exposed>>

Invert ==
    /\ rstep = "invert"
    /\ list' = Normalize(list)
    /\ rstep' = "widen"
    /\ UNCHANGED <<index, pushed, following, current, asleep, cap, block, struck, exposed>>

(* storage_.resize(capacity() + 2): the new capacity, then the new block with *)
(* the old elements, then the new size with its new elements.                 *)
Widen ==
    /\ rstep = "widen"
    /\ IF Capacity(list) + 2 > cap
       THEN cap' \in MemSizes(Capacity(list) + 2) /\ rstep' = "move"
       ELSE cap' = cap /\ rstep' = "resize"
    /\ UNCHANGED <<list, index, pushed, following, current, asleep, block, struck, exposed>>

Move ==
    /\ rstep = "move"
    /\ block' = cap
    /\ rstep' = "resize"
    /\ UNCHANGED <<list, index, pushed, following, current, asleep, cap, struck, exposed>>

Resize ==
    /\ rstep = "resize"
    /\ list' = Resized(list, Capacity(list) + 2)
    /\ rstep' = "store"
    /\ UNCHANGED <<index, pushed, following, current, asleep, cap, block, struck, exposed>>

(* storage_.at(idx_end_) = val; the compiled code may keep the index for the  *)
(* next line or read it again there.                                          *)
Store ==
    /\ rstep = "store"
    /\ list' = Stored(list, pushed)
    /\ index' = list.end
    /\ rstep' \in {"read", "write"}
    /\ UNCHANGED <<pushed, following, current, asleep, cap, block, struck, exposed>>

ReadEnd ==
    /\ rstep = "read"
    /\ index' = list.end
    /\ rstep' = "write"
    /\ UNCHANGED <<list, pushed, following, current, asleep, cap, block, struck, exposed>>

WriteEnd ==
    /\ rstep = "write"
    /\ list' = [list EXCEPT !.end = Wrap(index + 1, list.room)]
    /\ rstep' = "idle"
    /\ current' = IF following = Blank THEN current ELSE following
    /\ following' = Blank /\ pushed' = Blank
    /\ UNCHANGED <<index, asleep, cap, block, struck, exposed>>

-----------------------------------------------------------------------------
(* The timer's interrupt, between any two of those steps: notifyAll resumes a *)
(* sleeper, the whole push_back at once, which may reallocate too.            *)
Push(pushedTo, t) ==
    /\ t \in asleep
    /\ list' = pushedTo
    /\ IF pushedTo.room > cap
       THEN cap' \in MemSizes(pushedTo.room) /\ block' = cap'
       ELSE UNCHANGED <<cap, block>>
    /\ asleep' = asleep \ {t}
    /\ struck' = (struck \/ rstep # "idle")
    /\ exposed' = (rstep \in Growing)
    /\ UNCHANGED <<rstep, index, pushed, following, current>>
WakePastEnd(t) ==            \* mutant: the index is not brought back into range
    Push([PushBack(list, t) EXCEPT !.end = @ + 1], t)
WakeInInterrupt(t) == Push(PushBack(list, t), t)

ReadyInit ==
    /\ rstep = "idle" /\ index = 0 /\ pushed = Blank /\ following = Blank
    /\ current = Head(FirstReady)
    /\ list = [store |-> [i \in 0..Len(FirstReady) |->
                             IF i < Len(FirstReady) THEN FirstReady[i + 1] ELSE Blank],
               room |-> Len(FirstReady) + 1, begin |-> 1, end |-> Len(FirstReady)]
    /\ asleep = OsThreads \ {FirstReady[i] : i \in DOMAIN FirstReady}
    /\ cap \in MemSizes(Len(FirstReady) + 1) /\ block = cap
    /\ struck = FALSE /\ exposed = FALSE

ReadyNext ==
    /\ ~exposed
    /\ \/ Switch \/ WriteBegin \/ TestRoom \/ Turn \/ Invert \/ Widen \/ Move \/ Resize
       \/ Store \/ ReadEnd \/ WriteEnd
       \/ \E t \in OsThreads : Resume(t) \/ WakeInInterrupt(t)
ReadySpec == ReadyInit /\ [][ReadyNext]_readyVars

-----------------------------------------------------------------------------
(* The indexes stay inside the storage, the storage inside the block of the   *)
(* vector, and every slot holds a thread or nothing.                          *)
IndexesInRange ==
    /\ {list.begin, list.end, index} \subseteq 0..Capacity(list)
    /\ list.room <= block
    /\ list.store \in [0..list.room-1 -> OsThreads \cup {Blank}]

(* cs251_scheduler.h:186-189, of switchCurrentThreadTo: "Voluntary context    *)
(* switch and involuntary context switch could generate race condition.       *)
(* Therefore disable preemption here." Between two operations every thread is *)
(* in the list once, or waits, or runs. It is not so: an interrupt that       *)
(* pushes between the reads and the writes of an operation loses a thread.    *)
ThreadsFiled ==
    rstep = "idle" =>
        \A t \in OsThreads :
            Cardinality({k \in DOMAIN Contents(list) : Contents(list)[k] = t})
                = IF t \in asleep \cup {current} THEN 0 ELSE 1

(* ready_list_, over any number of turns and growths: no thread is lost or    *)
(* filed twice unless an interrupt pushes in the middle of an operation; and  *)
(* even then no operation runs off the vector, unless the interrupt came      *)
(* while the storage was being turned or grown.                               *)
ReadyListInv == (~exposed => IndexesInRange) /\ (~struck => ThreadsFiled)
=============================================================================
