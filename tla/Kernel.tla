------------------------------- MODULE Kernel -------------------------------
(* The whole kernel: threads, mutexes and condition variables, join and exit, *)
(* the sleep timer (os_kernel/src/cs251_timer.h) and the timer interrupt that *)
(* drives both the tick and preemption.                                       *)
(*                                                                            *)
(* The kernel's lists and the map of its control blocks are plain containers, *)
(* and most of the code that changes them runs with interrupts on.  A step of *)
(* this model does a whole operation on them: an interrupt comes before it or *)
(* after it.  One that comes in the middle of it is Tear, below: from then on *)
(* the containers hold anything, and nothing is said of the kernel any more.  *)
EXTENDS CondVar

CONSTANTS
    MaxTick     \* bound of the tick count; the interrupts go on beyond it

ASSUME TickAssumption == MaxTick \in Nat

VARIABLES
    systick,    \* systick_
    wake,       \* wake[t]: wake_tick of the sleep t is in
    tgt,        \* tgt[t]: the thread t is joining
    torn        \* has an interrupt met one of the kernel's containers half
                \* changed?  (a history variable)

timerVars == <<systick, wake>>
vars      == <<schedVars, mutexVars, condVars, timerVars, tgt, torn>>

Whole == ~torn /\ UNCHANGED torn

-----------------------------------------------------------------------------
(* join: wait, under the target's mtx_for_join_ and cond_for_join_, until its *)
(* state is eFINISHED.  Applications do not join themselves or the idle       *)
(* thread.                                                                    *)
CallJoin ==
    /\ \E t \in Threads \ {cpu, Idle} :
          /\ state[t] # "INIT"
          /\ tgt' = [tgt EXCEPT ![cpu] = t]
          /\ mtx' = [mtx EXCEPT ![cpu] = t]
    /\ EnterCall("join", "lk_off")
    /\ UNCHANGED <<tcbVars, listVars, swVars, owner, mwait, holds, condVars,
                   timerVars>>

JnTest ==
    /\ At("jn_test")
    /\ IF state[tgt[cpu]] = "FINISHED"
       THEN /\ Goto("ul_off")
            /\ LetsGo(cpu, tgt[cpu])
            /\ tgt' = [tgt EXCEPT ![cpu] = Idle]
            /\ UNCHANGED cnd
       ELSE /\ Goto("wt_off")
            /\ cnd' = [cnd EXCEPT ![cpu] = tgt[cpu]]
            /\ UNCHANGED <<holds, tgt>>
    /\ UNCHANGED <<hartVars, tcbVars, listVars, swVars, op, owner, mwait, mtx,
                   cwait, timerVars>>

(* The thread's function returns to stub_wrapper: notify the joiners, exit.   *)
CallExit ==
    /\ holds[cpu] = {}
    /\ cnd' = [cnd EXCEPT ![cpu] = cpu]
    /\ EnterCall("exit", "na_test")
    /\ UNCHANGED <<tcbVars, listVars, swVars, mutexVars, cwait, timerVars, tgt>>

Exit ==
    /\ At("exit")
    /\ Switch("dead")
    /\ UNCHANGED <<hartVars, tcbVars, listVars, cur, nxt, op, mutexVars,
                   condVars, timerVars, tgt>>

JoinStep == CallJoin \/ JnTest
ExitStep == CallExit \/ Exit

-----------------------------------------------------------------------------
(* sleep: the wake-up tick is computed before the mutex is taken. *)
CallSleep ==
    /\ systick < MaxTick
    /\ \E w \in (systick + 1) .. MaxTick : wake' = [wake EXCEPT ![cpu] = w]
    /\ mtx' = [mtx EXCEPT ![cpu] = SleepMutex]
    /\ EnterCall("sleep", "lk_off")
    /\ UNCHANGED <<tcbVars, listVars, swVars, owner, mwait, holds, condVars,
                   systick, tgt>>

SlTestOnce ==                \* mutant: "if" for "while": any tick ends the sleep
    /\ At("sl_test")
    /\ IF systick < wake[cpu] /\ systick = 0
       THEN Goto("wt_off") /\ UNCHANGED <<holds, wake>>
       ELSE /\ Goto("ul_off")
            /\ LetsGo(cpu, SleepMutex)
            /\ wake' = [wake EXCEPT ![cpu] = 0]
    /\ UNCHANGED <<hartVars, tcbVars, listVars, swVars, op, owner, mwait, mtx,
                   condVars, systick, tgt>>
SlTest ==
    /\ At("sl_test")
    /\ IF systick < wake[cpu]
       THEN Goto("wt_off") /\ UNCHANGED <<holds, wake>>
       ELSE /\ Goto("ul_off")
            /\ LetsGo(cpu, SleepMutex)
            /\ wake' = [wake EXCEPT ![cpu] = 0]
    /\ UNCHANGED <<hartVars, tcbVars, listVars, swVars, op, owner, mwait, mtx,
                   condVars, systick, tgt>>

SleepStep == CallSleep \/ SlTest

-----------------------------------------------------------------------------
StuckTick == UNCHANGED systick   \* mutant: updateTick only notifies
Tick == systick' = IF systick < MaxTick THEN systick + 1 ELSE systick

(* The timer interrupt: updateTick wakes every sleeping thread, then the      *)
(* handler may preempt the running one.                                       *)
TimerInterrupt ==
    /\ Whole
    /\ mie = 1
    /\ Tick
    /\ cwait' = [cwait EXCEPT ![SleepCond] = <<>>]
    /\ LET woken == cwait[SleepCond]
           st == [t \in Threads |-> IF \E i \in DOMAIN woken : woken[i] = t
                                    THEN "READY" ELSE state[t]]
       IN  InInterruptYield(ready \o woken, st)
    /\ UNCHANGED <<preempt, finished, swVars, op, mutexVars, cnd, wake, tgt>>

(* Any other interrupt (a video frame, the command button) takes the same     *)
(* handler without the tick.                                                  *)
DeviceInterrupt ==
    /\ Whole
    /\ mie = 1
    /\ InInterruptYield(ready, state)
    /\ UNCHANGED <<preempt, finished, swVars, op, mutexVars, condVars,
                   timerVars, tgt>>

-----------------------------------------------------------------------------
(* The hart is inside an operation on the ready list, or on a list that grows *)
(* as the ready list may: malloc serves both.                                 *)
InsideList ==
    \/ At("sw_pick") /\ ready # <<>>
    \/ At("sw_put") /\ SwitchState # "WAITING"
    \/ At("ul_body") /\ mwait[mtx[cpu]] # <<>>
    \/ At("wt_unlock") /\ mwait[mtx[cpu]] # <<>>
    \/ At("no_pop") /\ cwait[cnd[cpu]] # <<>>
    \/ At("lk_push") \/ At("wt_push") \/ At("cr_new")

(* The handler wakes sleepers whatever preemption_on_ says: its push_back     *)
(* comes between two stores of the thread's own operation on the deque, and   *)
(* one slot ends up with another thread's id, or the thread's own push is     *)
(* undone (ReadyList has the indexes).                                        *)
WakeTears ==
    /\ mie = 1
    /\ InsideList
    /\ cwait[SleepCond] # <<>>
    /\ LET filed == ready \o cwait[SleepCond] IN
         \E i, j \in DOMAIN filed : ready' = [filed EXCEPT ![i] = filed[j]]
    /\ cwait' = [cwait EXCEPT ![SleepCond] = <<>>]
    /\ UNCHANGED pc

(* create's operator[] grows the map's vector, which gets its new block       *)
(* before the entries are copied: the handler of any interrupt looks up the   *)
(* running thread there, and at()'s assertion does not find it.               *)
GrowthTears ==
    /\ mie = 1
    /\ At("cr_new")
    /\ Goto("hang")
    /\ UNCHANGED <<ready, cwait>>

(* A thread preempted between the look-up of a control block and its use has  *)
(* a pointer into the vector's old block when create has moved it.            *)
LookUpLabels == {"lk_off", "ul_off", "wt_off", "no_off", "cr_off", "sw_off", "jn_test"}
MoveTears ==
    /\ At("cr_new")
    /\ \E t \in trapped : pc[t] \in LookUpLabels
    /\ UNCHANGED <<ready, cwait, pc>>

Tear ==
    /\ ~torn
    /\ torn' = TRUE
    /\ WakeTears \/ GrowthTears \/ MoveTears
    /\ UNCHANGED <<hartVars, tcbVars, finished, swVars, op, mutexVars, cnd, timerVars, tgt>>

-----------------------------------------------------------------------------
Init ==
    /\ SchedInit
    /\ MutexInit
    /\ CondInit
    /\ systick = 0
    /\ wake = [t \in Threads |-> 0]
    /\ tgt = [t \in Threads |-> Idle]
    /\ torn = FALSE

SchedStep == Stub \/ CallYield \/ EcallYield \/ CreateStep \/ SwitchStep
             \/ SysReturn \/ HandlerReturn

(* the hart executes an instruction of the thread it is on *)
ThreadStep ==
    /\ Whole
    /\ \/ SchedStep /\ UNCHANGED <<mutexVars, condVars, timerVars, tgt>>
       \/ MutexStep /\ UNCHANGED <<condVars, timerVars, tgt>>
       \/ CondStep /\ UNCHANGED <<timerVars, tgt>>
       \/ JoinStep \/ ExitStep \/ SleepStep

WholeStep == ThreadStep \/ TimerInterrupt \/ DeviceInterrupt

Next == WholeStep \/ Tear \/ (torn /\ UNCHANGED vars)

Spec == Init /\ [][Next]_vars

(* The hart never stops; the timer period (increaseTimeCompare(100)) leaves   *)
(* every thread that keeps being scheduled time for a step of its own; a      *)
(* pending timer interrupt is taken if interrupts keep being enabled; and     *)
(* application code releases what it has locked.                              *)
OwnStep(t) == cpu = t /\ t \notin trapped /\ ThreadStep
FairSpec ==
    /\ Spec
    /\ WF_vars(ThreadStep)
    /\ SF_vars(TimerInterrupt)
    /\ \A t \in Threads : SF_vars(OwnStep(t))
    /\ \A t \in Threads :
         SF_vars(cpu = t /\ CallUnlock /\ Whole /\ UNCHANGED <<condVars, timerVars, tgt>>)

-----------------------------------------------------------------------------
(* Properties *)

SwLabels   == {"sw_off", "sw_pick", "sw_put", "sw_dis", "sw_run", "sw_ctx",
               "sw_en", "sw_on"}
OffLabels  == {"lk_test", "lk_own", "lk_push", "lk_on", "tl_fail", "ul_body",
               "ul_on", "wt_unlock", "wt_push", "wt_on", "no_pop", "no_on",
               "cr_new", "cr_on"}
OnLabels   == {"none", "user", "stub", "sysret", "lk_off", "ul_off", "wt_off",
               "no_off", "na_test", "cr_off", "jn_test", "sl_test", "exit"}
Labels     == SwLabels \cup OffLabels \cup OnLabels \cup {"hang", "dead"}
Ops        == {"none", "yield", "lock", "trylock", "unlock", "wait",
               "notifyOne", "notifyAll", "create", "join", "sleep", "exit"}
States     == {"INIT", "READY", "RUNNING", "WAITING", "FINISHED"}
SwRets     == {"none", "return", "lk_on", "wt_on", "dead"}
Maybe      == Threads \cup {NoThread}

HartType ==
    /\ cpu \in Threads /\ running \in Threads
    /\ nest \in Int /\ mie \in {0, 1}
    /\ ctx \in [Threads -> Threads]
    /\ smie \in [Threads -> {0, 1}]
    /\ mpie \in [Threads -> {0, 1}]
    /\ trapped \subseteq Threads
TcbType  == state \in [Threads -> States] /\ preempt \in [Threads -> Int]
ListType == ready \in Seq(Threads) /\ finished \in Seq(Threads)
PcType   == pc \in [Threads -> Labels]
OpType   == op \in [Threads -> Ops]
SwType   == /\ swRet \in [Threads -> SwRets]
            /\ cur \in [Threads -> Maybe] /\ nxt \in [Threads -> Maybe]
MutexType ==
    /\ owner \in [Mutexes -> Maybe]
    /\ mwait \in [Mutexes -> Seq(Threads)]
    /\ mtx \in [Threads -> Mutexes]
    /\ holds \in [Threads -> SUBSET Mutexes]
CondType  == cwait \in [Conds -> Seq(Threads)] /\ cnd \in [Threads -> Conds]
TimerType == systick \in Nat /\ wake \in [Threads -> Nat]
JoinType  == tgt \in [Threads -> Threads]
KernelType ==
    /\ HartType /\ TcbType /\ ListType /\ PcType /\ OpType /\ SwType
    /\ MutexType /\ CondType /\ TimerType /\ JoinType

(* Every variable keeps its type. *)
TypeOK == KernelType /\ torn \in BOOLEAN

(* The switch frame reached through a control block is the frame of that      *)
(* block's own thread, and outside the last two steps of a switch the kernel  *)
(* believes it runs the thread whose stack it is on: no thread is ever        *)
(* continued on another one's stack (switchCurrentThreadTo, inInterruptYield, *)
(* context_switch).                                                           *)
StackOwnership ==
    /\ \A t \in Threads : ctx[t] = t
    /\ pc[cpu] # "sw_ctx" => running = cpu

(* Interrupts are on whenever a thread runs its own code: no path through     *)
(* nest_critical_cnt leaves the machine deaf to the timer.                    *)
UserInterruptible == At("user") => mie = 1 /\ nest = 0

(* How many times t's code has turned preemption off and not yet on again.    *)
PreemptDepth(t) ==
    (IF pc[t] \in OffLabels \/ swRet[t] \in {"lk_on", "wt_on"} THEN 1 ELSE 0)
    + (IF pc[t] \in SwLabels \ {"sw_off"} THEN 1 ELSE 0)

(* preemption_on_ of every thread is what the calls it is in have made it,    *)
(* though they count in the block of running_thread_id_ and a switch lies     *)
(* between the two halves: no off is ever charged to another thread's block.  *)
PreemptBalanced ==
    \A t \in Threads : pc[t] # "hang" => preempt[t] = 1 - PreemptDepth(t)

(* A thread is taken off the hart by an interrupt only outside the sections   *)
(* that turn preemption off: what the kernel does between the two halves of a *)
(* setPreemption pair is atomic to every other thread.                        *)
CriticalSectionsAtomic ==
    \A t \in trapped : PreemptDepth(t) = 0

PreemptionRespected == PreemptBalanced /\ CriticalSectionsAtomic

(* No assertion of the scheduler fails (setPreemption above 1, switching a    *)
(* thread to itself, switching with preemption on), no exited thread returns  *)
(* past the end of its stub, and only the idle thread can find the ready list *)
(* empty when it gives up the hart: a thread that suspends is always switched *)
(* away from.  All this until an interrupt meets a container half changed: the *)
(* code can then fail its assertions (switchCurrentThreadTo, ecs_queue.h).    *)
NoHang == ~torn =>
    /\ \A t \in Threads : pc[t] \notin {"hang", "dead"}
    /\ At("sw_pick") /\ ready = <<>> => cpu = Idle

(* The places a thread can be filed in: the ready list, a mutex's waiting     *)
(* list, a condition variable's waiting list.                                 *)
Filed(t) ==
    {<<"ready", i>> : i \in {j \in DOMAIN ready : ready[j] = t}}
    \cup (UNION {{<<"mutex", m, i>> : i \in {j \in DOMAIN mwait[m] : mwait[m][j] = t}}
                  : m \in Mutexes})
    \cup (UNION {{<<"cond", c, i>> : i \in {j \in DOMAIN cwait[c] : cwait[c][j] = t}}
                  : c \in Conds})

(* Until an interrupt meets a container half changed (then one can be: see    *)
(* ReadyList), no thread is lost or filed twice by the kernel's own protocol: *)
(* a live thread that neither runs nor is just being switched to is in        *)
(* exactly one list, a thread that has finished or was not created is in none. *)
EveryThreadFiledOnce == ~torn =>
    \A t \in Threads :
        LET n == Cardinality(Filed(t)) IN
        IF state[t] \in {"INIT", "FINISHED"} \/ t = nxt[cpu] THEN n = 0
        ELSE IF t = cpu THEN n <= 1
        ELSE n = 1

(* A mutex is held by at most one thread, the one owner_ names, also across a *)
(* hand-over, a wait, and the lock a woken waiter takes again; and a mutex    *)
(* that nobody owns has no waiter: none is forgotten when it frees.           *)
MutualExclusion ==
    /\ \A t \in Threads : \A m \in holds[t] : owner[m] = t
    /\ \A m \in Mutexes : owner[m] = NoThread => mwait[m] = <<>>

(* A thread that has finished and left the hart never gets it back. *)
FinishedForGood ==
    [][\A t \in Threads : state[t] = "FINISHED" /\ cpu # t
                          => state'[t] = "FINISHED" /\ cpu' # t]_vars

-----------------------------------------------------------------------------
(* What each mutex promises: FifoLock, with the owner and the waiting list    *)
(* as one queue.                                                              *)
LockQueue(m) == IF owner[m] = NoThread THEN <<>> ELSE <<owner[m]>> \o mwait[m]
Fifo == INSTANCE FifoLock WITH
          Clients <- Threads, Locks <- Mutexes,
          queue <- [m \in Mutexes |-> LockQueue(m)]
ImplementsFifoLock == Fifo!Spec

(* Every lock call returns, unless the kernel's containers are torn first. *)
LockReturns == \A t \in Threads : op[t] = "lock" ~> op[t] # "lock" \/ torn

(* Every sleeping thread wakes up, unless they are torn first. *)
SleepReturns == \A t \in Threads : op[t] = "sleep" ~> op[t] # "sleep" \/ torn

(* A thread that a notification has taken off the waiting list returns from   *)
(* wait, with the mutex, unless they are torn first.                          *)
Woken(t) == /\ op[t] = "wait" /\ swRet[t] = "wt_on" /\ cpu # t
            /\ \A c \in Conds : \A i \in DOMAIN cwait[c] : cwait[c][i] # t
WokenWaiterReturns == \A t \in Threads : Woken(t) ~> op[t] # "wait" \/ torn

(* sleep never returns before its tick, though every tick wakes every         *)
(* sleeping thread: only a test that found the tick come ends its loop, and   *)
(* only an ended loop leads out of the call.                                  *)
NoEarlyWake ==
    [][\A t \in Threads :
         /\ wake[t] > 0 /\ wake'[t] = 0 => systick >= wake[t]
         /\ op[t] = "sleep" /\ op'[t] # "sleep" => wake[t] = 0]_vars

(* join returns once its thread has finished. *)
JoinReturns ==
    \A s, t \in Threads : (op[s] = "join" /\ tgt[s] = t /\ state[t] = "FINISHED")
                          ~> (op[s] # "join")
=============================================================================
