------------------------------- MODULE Mutex -------------------------------
(* MutexInternal (os_kernel/src/cs251_mutex.h) on top of the scheduler: a     *)
(* mutex is an owner and a first-in first-out list of waiting threads, and    *)
(* unlock hands the mutex over to the first of them.                          *)
EXTENDS Scheduler

CONSTANTS
    UserMutexes,  \* the mutexes application code creates
    SleepMutex    \* mtx_for_sleep_ of the sleep timer

(* Each control block has a mutex of its own, mtx_for_join_, named here by    *)
(* the thread it belongs to.                                                  *)
Mutexes == UserMutexes \cup {SleepMutex} \cup Threads

ASSUME MutexAssumption ==
    SleepMutex \notin UserMutexes \cup Threads /\ UserMutexes \cap Threads = {}

VARIABLES
    owner,   \* owner[m]: owner_
    mwait,   \* mwait[m]: waiting_list_
    mtx,     \* mtx[t]: the mutex t's current call is about
    holds    \* holds[t]: the mutexes t has locked and not released, as t's
             \* own code sees it (a history variable: the kernel keeps none)

mutexVars == <<owner, mwait, mtx, holds>>

Holds(t, m)   == holds' = [holds EXCEPT ![t] = @ \cup {m}]
LetsGo(t, m)  == holds' = [holds EXCEPT ![t] = @ \ {m}]

(* the body of unlock(m), executed with preemption off                        *)
UnlockFreesAndWakes(m) ==    \* mutant: frees the mutex and lets the woken race for it
    IF mwait[m] = <<>>
    THEN owner' = [owner EXCEPT ![m] = NoThread] /\ UNCHANGED <<mwait, state, ready>>
    ELSE /\ owner' = [owner EXCEPT ![m] = NoThread]
         /\ mwait' = [mwait EXCEPT ![m] = Tail(@)]
         /\ Resume(Head(mwait[m]))
UnlockToLast(m) ==           \* mutant: hands over to the back of the list
    LET n == Len(mwait[m]) IN
    IF n = 0
    THEN owner' = [owner EXCEPT ![m] = NoThread] /\ UNCHANGED <<mwait, state, ready>>
    ELSE /\ owner' = [owner EXCEPT ![m] = mwait[m][n]]
         /\ mwait' = [mwait EXCEPT ![m] = SubSeq(@, 1, n - 1)]
         /\ Resume(mwait[m][n])
UnlockNeverResumes(m) ==     \* mutant: hands over to a thread it does not wake
    IF mwait[m] = <<>>
    THEN owner' = [owner EXCEPT ![m] = NoThread] /\ UNCHANGED <<mwait, state, ready>>
    ELSE /\ owner' = [owner EXCEPT ![m] = Head(mwait[m])]
         /\ mwait' = [mwait EXCEPT ![m] = Tail(@)]
         /\ UNCHANGED <<state, ready>>
UnlockBody(m) ==
    IF mwait[m] = <<>>
    THEN /\ owner' = IF owner[m] = running THEN [owner EXCEPT ![m] = NoThread]
                     ELSE owner
         /\ UNCHANGED <<mwait, state, ready>>
    ELSE /\ owner' = [owner EXCEPT ![m] = Head(mwait[m])]
         /\ mwait' = [mwait EXCEPT ![m] = Tail(@)]
         /\ Resume(Head(mwait[m]))

-----------------------------------------------------------------------------
CallLock ==
    /\ \E m \in UserMutexes : mtx' = [mtx EXCEPT ![cpu] = m]
    /\ EnterCall("lock", "lk_off")
    /\ UNCHANGED <<tcbVars, listVars, swVars, owner, mwait, holds>>

(* try_lock is lock with one difference, taken in LkTest. *)
CallTryLock ==
    /\ \E m \in UserMutexes : mtx' = [mtx EXCEPT ![cpu] = m]
    /\ EnterCall("trylock", "lk_off")
    /\ UNCHANGED <<tcbVars, listVars, swVars, owner, mwait, holds>>

LkOff ==
    /\ At("lk_off")
    /\ PreemptionOff("lk_test")
    /\ UNCHANGED <<hartVars, state, listVars, swVars, op, mutexVars>>

(* isLocked: a locked mutex is waited for, unless the caller only tries or    *)
(* has it already (lock twice falls through).                                 *)
LkTest ==
    /\ At("lk_test")
    /\ LET o == owner[mtx[cpu]] IN
       Goto(IF o = NoThread            THEN "lk_own"
            ELSE IF op[cpu] = "trylock" THEN "tl_fail"
            ELSE IF o = running        THEN "lk_on"
            ELSE "lk_push")
    /\ UNCHANGED <<hartVars, tcbVars, listVars, swVars, op, mutexVars>>

LkOwnStoresId ==             \* mutant: stores the mutex's id for the thread's
    /\ At("lk_own")
    /\ owner' = [owner EXCEPT ![mtx[cpu]] = mtx[cpu]]
    /\ Goto("lk_on")
    /\ UNCHANGED <<hartVars, tcbVars, listVars, swVars, op, mwait, mtx, holds>>
LkOwn ==
    /\ At("lk_own")
    /\ owner' = [owner EXCEPT ![mtx[cpu]] = running]
    /\ Goto("lk_on")
    /\ UNCHANGED <<hartVars, tcbVars, listVars, swVars, op, mwait, mtx, holds>>

LkPushTwice ==               \* mutant: the waiter is also kept in the ready list
    /\ At("lk_push")
    /\ mwait' = [mwait EXCEPT ![mtx[cpu]] = Append(@, running)]
    /\ Switch("lk_on")
    /\ ready' = Append(ready, running)
    /\ UNCHANGED <<hartVars, tcbVars, finished, cur, nxt, op, owner, mtx, holds>>
LkPush ==
    /\ At("lk_push")
    /\ mwait' = [mwait EXCEPT ![mtx[cpu]] = Append(@, running)]
    /\ Switch("lk_on")
    /\ UNCHANGED <<hartVars, tcbVars, listVars, cur, nxt, op, owner, mtx, holds>>

(* The end of lock: its caller is user code, join, or sleep.                  *)
LkOn ==
    /\ At("lk_on")
    /\ PreemptionOn(CASE op[cpu] = "join"  -> "jn_test"
                      [] op[cpu] = "sleep" -> "sl_test"
                      [] OTHER             -> ReturnLabel)
    /\ Holds(cpu, mtx[cpu])
    /\ IF op[cpu] \in {"join", "sleep"}
       THEN UNCHANGED <<mtx, op>>
       ELSE /\ mtx' = [mtx EXCEPT ![cpu] = SleepMutex]
            /\ op' = IF ViaEcall THEN op ELSE [op EXCEPT ![cpu] = "none"]
    /\ UNCHANGED <<hartVars, state, listVars, swVars, owner, mwait>>

TlFail ==
    /\ At("tl_fail")
    /\ PreemptionOn("user")
    /\ mtx' = [mtx EXCEPT ![cpu] = SleepMutex]
    /\ op' = [op EXCEPT ![cpu] = "none"]
    /\ UNCHANGED <<hartVars, state, listVars, swVars, owner, mwait, holds>>

(* Application code unlocks only a mutex it has locked. *)
CallUnlock ==
    /\ \E m \in UserMutexes \cap holds[cpu] :
          mtx' = [mtx EXCEPT ![cpu] = m] /\ LetsGo(cpu, m)
    /\ EnterCall("unlock", "ul_off")
    /\ UNCHANGED <<tcbVars, listVars, swVars, owner, mwait>>

UlOff ==
    /\ At("ul_off")
    /\ PreemptionOff("ul_body")
    /\ UNCHANGED <<hartVars, state, listVars, swVars, op, mutexVars>>

UlBody ==
    /\ At("ul_body")
    /\ UnlockBody(mtx[cpu])
    /\ Goto("ul_on")
    /\ UNCHANGED <<hartVars, preempt, finished, swVars, op, mtx, holds>>

UlOn ==
    /\ At("ul_on")
    /\ PreemptionOn(ReturnLabel)
    /\ mtx' = [mtx EXCEPT ![cpu] = SleepMutex]
    /\ op' = IF ViaEcall THEN op ELSE [op EXCEPT ![cpu] = "none"]
    /\ UNCHANGED <<hartVars, state, listVars, swVars, owner, mwait, holds>>

LockStep   == CallLock \/ CallTryLock \/ LkOff \/ LkTest \/ LkOwn \/ LkPush
              \/ LkOn \/ TlFail
UnlockStep == CallUnlock \/ UlOff \/ UlBody \/ UlOn
MutexStep  == LockStep \/ UnlockStep

MutexInit ==
    /\ owner = [m \in Mutexes |-> NoThread]
    /\ mwait = [m \in Mutexes |-> <<>>]
    /\ mtx = [t \in Threads |-> SleepMutex]
    /\ holds = [t \in Threads |-> {}]
=============================================================================
