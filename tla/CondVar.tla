------------------------------ MODULE CondVar ------------------------------
(* ConditionVariableInternal (os_kernel/src/cs251_condition_variable.h): a    *)
(* first-in first-out list of waiting threads.                                *)
EXTENDS Mutex

CONSTANTS
    UserConds,   \* the condition variables application code creates
    SleepCond    \* cond_for_sleep_ of the sleep timer

(* Like mtx_for_join_, cond_for_join_ is named by its thread. *)
Conds == UserConds \cup {SleepCond} \cup Threads

ASSUME CondAssumption ==
    SleepCond \notin UserConds \cup Threads /\ UserConds \cap Threads = {}

VARIABLES
    cwait,   \* cwait[c]: waiting_list_
    cnd      \* cnd[t]: the condition variable t's current call is about

condVars == <<cwait, cnd>>

-----------------------------------------------------------------------------
(* wait: the caller has the mutex. *)
CallWait ==
    /\ \E c \in UserConds, m \in UserMutexes \cap holds[cpu] :
          cnd' = [cnd EXCEPT ![cpu] = c] /\ mtx' = [mtx EXCEPT ![cpu] = m]
    /\ EnterCall("wait", "wt_off")
    /\ UNCHANGED <<tcbVars, listVars, swVars, owner, mwait, holds, cwait>>

WtOff ==
    /\ At("wt_off")
    /\ PreemptionOff("wt_unlock")
    /\ UNCHANGED <<hartVars, state, listVars, swVars, op, mutexVars, condVars>>

(* the nested unlock: its own setPreemption pair cancels out, since preemption *)
(* is off already                                                             *)
WtUnlock ==
    /\ At("wt_unlock")
    /\ UnlockBody(mtx[cpu])
    /\ LetsGo(cpu, mtx[cpu])
    /\ Goto("wt_push")
    /\ UNCHANGED <<hartVars, preempt, finished, swVars, op, mtx, condVars>>

WtPush ==
    /\ At("wt_push")
    /\ cwait' = [cwait EXCEPT ![cnd[cpu]] = Append(@, running)]
    /\ Switch("wt_on")
    /\ UNCHANGED <<hartVars, tcbVars, listVars, cur, nxt, op, mutexVars, cnd>>

(* Woken: the mutex is locked again by an ordinary lock. *)
WtOn ==
    /\ At("wt_on")
    /\ PreemptionOn("lk_off")
    /\ cnd' = [cnd EXCEPT ![cpu] = SleepCond]
    /\ UNCHANGED <<hartVars, state, listVars, swVars, op, mutexVars, cwait>>

WaitStep == CallWait \/ WtOff \/ WtUnlock \/ WtPush \/ WtOn

-----------------------------------------------------------------------------
CallNotifyOne ==
    /\ \E c \in UserConds : cnd' = [cnd EXCEPT ![cpu] = c]
    /\ EnterCall("notifyOne", "no_off")
    /\ UNCHANGED <<tcbVars, listVars, swVars, mutexVars, cwait>>

CallNotifyAll ==
    /\ \E c \in UserConds : cnd' = [cnd EXCEPT ![cpu] = c]
    /\ EnterCall("notifyAll", "na_test")
    /\ UNCHANGED <<tcbVars, listVars, swVars, mutexVars, cwait>>

(* notifyAll: the emptiness test of its loop runs with preemption on. The     *)
(* loop is left to user code, or to the exit of a finished thread.            *)
NaTest ==
    /\ At("na_test")
    /\ IF cwait[cnd[cpu]] # <<>>
       THEN Goto("no_off") /\ UNCHANGED <<op, cnd>>
       ELSE /\ Goto(IF op[cpu] = "exit" THEN "exit" ELSE ReturnLabel)
            /\ op' = IF op[cpu] = "exit" \/ ViaEcall THEN op
                     ELSE [op EXCEPT ![cpu] = "none"]
            /\ cnd' = [cnd EXCEPT ![cpu] = SleepCond]
    /\ UNCHANGED <<hartVars, tcbVars, listVars, swVars, mutexVars, cwait>>

NoOff ==
    /\ At("no_off")
    /\ PreemptionOff("no_pop")
    /\ UNCHANGED <<hartVars, state, listVars, swVars, op, mutexVars, condVars>>

NoPopLosesThread ==          \* mutant: the popped thread is not resumed
    /\ At("no_pop")
    /\ cwait' = [cwait EXCEPT ![cnd[cpu]] = IF @ = <<>> THEN @ ELSE Tail(@)]
    /\ Goto("no_on")
    /\ UNCHANGED <<hartVars, tcbVars, listVars, swVars, op, mutexVars, cnd>>
NoPop ==
    /\ At("no_pop")
    /\ LET queue == cwait[cnd[cpu]] IN
       IF queue = <<>>
       THEN UNCHANGED <<state, ready, cwait>>
       ELSE /\ cwait' = [cwait EXCEPT ![cnd[cpu]] = Tail(@)]
            /\ Resume(Head(queue))
    /\ Goto("no_on")
    /\ UNCHANGED <<hartVars, preempt, finished, swVars, op, mutexVars, cnd>>

NoOn ==
    /\ At("no_on")
    /\ PreemptionOn(IF op[cpu] = "notifyOne" THEN ReturnLabel ELSE "na_test")
    /\ IF op[cpu] = "notifyOne"
       THEN /\ cnd' = [cnd EXCEPT ![cpu] = SleepCond]
            /\ op' = IF ViaEcall THEN op ELSE [op EXCEPT ![cpu] = "none"]
       ELSE UNCHANGED <<cnd, op>>
    /\ UNCHANGED <<hartVars, state, listVars, swVars, mutexVars, cwait>>

NotifyStep == CallNotifyOne \/ CallNotifyAll \/ NaTest \/ NoOff \/ NoPop \/ NoOn
CondStep   == WaitStep \/ NotifyStep

CondInit ==
    /\ cwait = [c \in Conds |-> <<>>]
    /\ cnd = [t \in Threads |-> SleepCond]
=============================================================================
