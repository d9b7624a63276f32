---------------------------- MODULE OwnerProofs -----------------------------
(* Whose a mutex is: a thread that has a claim to it, in its own code, in a   *)
(* call that has taken it, or woken by the thread that handed it over, is the *)
(* one owner_ names.  From this follow mutual exclusion and that the mutexes  *)
(* implement FifoLock.                                                        *)
EXTENDS FilingProofs

Claims(t, m) ==
    \/ m \in holds[t]
    \/ mtx[t] = m /\ pc[t] \in {"lk_on", "ul_off", "ul_body"}
    \/ mtx[t] = m /\ swRet[t] = "lk_on" /\ ~In(t, mwait[m])
ClaimsOwned == \A t \in Threads : \A m \in Mutexes : Claims(t, m) => owner[m] = t

WaitersHaveOwner == \A m \in Mutexes : mwait[m] # <<>> => owner[m] # NoThread

(* What lock has tested is still so when it acts on it.                       *)
TestedOwner ==
    /\ pc[cpu] = "lk_own" => owner[mtx[cpu]] = NoThread
    /\ pc[cpu] = "lk_push" => owner[mtx[cpu]] \notin {NoThread, cpu}

(* Around its calls a thread knows what it has.                               *)
Releasing == {"ul_off", "ul_body"}
Keeping   == {"wt_off", "wt_unlock", "jn_test", "sl_test"}
OwnCode ==
    \A t \in Threads : /\ pc[t] \in Releasing => mtx[t] \notin holds[t]
                       /\ pc[t] \in Keeping => mtx[t] \in holds[t]

OwnInv == ClaimsOwned /\ WaitersHaveOwner /\ TestedOwner /\ OwnCode

-----------------------------------------------------------------------------
OwnTypes ==
    /\ FileTypes
    /\ owner \in [Mutexes -> Maybe] /\ holds \in [Threads -> SUBSET Mutexes]
LEMMA OwnTyped == TypeInv => OwnTypes
BY Types DEF TypeInv, KernelType, MutexType, OwnTypes

-----------------------------------------------------------------------------
(* The mutex a join or a sleep is about stays the one it began with, until    *)
(* the call is on its way out.                                                *)
WayOut == {"ul_off", "ul_body", "ul_on", "hang"}
CallMutexOf(p, o, x, j) ==
    /\ o = "join" => x = j \/ p \in WayOut
    /\ o = "sleep" => x = SleepMutex
    /\ p = "jn_test" => o = "join"
    /\ p = "sl_test" => o = "sleep"
CallMutex == \A t \in Threads : CallMutexOf(pc[t], op[t], mtx[t], tgt[t])

LEMMA NextCallMutex ==
    ASSUME TypeInv, HartInv, CallMutex, [Next]_vars
    PROVE  CallMutex'
<1>0. OwnTypes /\ FileTypes /\ op \in [Threads -> Ops] /\ tgt \in [Threads -> Threads]
  BY OwnTyped DEF OwnTypes, TypeInv, KernelType, OpType, JoinType
<1>1. CallMutexOf(pc[cpu], op[cpu], mtx[cpu], tgt[cpu])
  BY <1>0 DEF CallMutex, FileTypes
<1>2. ASSUME \A t \in Threads \ {cpu} : /\ UNCHANGED <<op[t], mtx[t], tgt[t]>>
                                        /\ pc'[t] = pc[t] \/ (pc[t] = "none" /\ pc'[t] = "stub"),
             CallMutexOf(pc'[cpu], op'[cpu], mtx'[cpu], tgt'[cpu])
      PROVE  CallMutex'
  BY <1>2 DEF CallMutex, CallMutexOf, WayOut
<1> DEFINE Own == /\ \A t \in Threads \ {cpu} : UNCHANGED <<pc[t], op[t], mtx[t], tgt[t]>>
                  /\ CallMutexOf(pc'[cpu], op'[cpu], mtx'[cpu], tgt'[cpu])
           Same == op' = op /\ mtx' = mtx /\ tgt' = tgt
<1>a. Own => CallMutex'
  BY <1>2
<1>3. ASSUME NEW o \in Ops \ {"join", "sleep"}, op' = [op EXCEPT ![cpu] = o], UNCHANGED tgt,
             mtx' = mtx \/ \E m : mtx' = [mtx EXCEPT ![cpu] = m],
             NEW l \in Labels \ {"jn_test", "sl_test"}, Goto(l)
      PROVE  Own
  BY <1>0, <1>3 DEF CallMutexOf, Goto, FileTypes
<1>4. ASSUME Same, NEW l \in Labels \ {"jn_test", "sl_test"}, Goto(l),
             pc[cpu] \in {"ul_off", "ul_body"} => l \in WayOut, pc[cpu] \notin {"ul_on", "hang"}
      PROVE  Own
  BY <1>0, <1>1, <1>4 DEF CallMutexOf, Goto, FileTypes, WayOut
<1> HIDE DEF Own
<1> USE DEF Labels, SwLabels, OffLabels, OnLabels
<1>5. CASE (Stub \/ SwOff \/ SwPick \/ SwPut \/ SwDis \/ SwRun \/ SwCtx \/ SwEn \/ CrOff)
           /\ UNCHANGED <<mutexVars, tgt>>
  <2>1. Same /\ pc[cpu] \notin WayOut
    BY <1>5 DEF Stub, SwOff, SwPick, SwPut, SwDis, SwRun, SwCtx, SwEn, CrOff, At, mutexVars, WayOut
  <2>2. \E l \in Labels \ {"jn_test", "sl_test"} : Goto(l)
    BY <1>5 DEF Stub, SwOff, SwPick, SwPut, SwDis, SwRun, SwCtx, SwEn, CrOff, PreemptionOff
  <2> QED BY <1>a, <1>4, <2>1, <2>2 DEF WayOut
<1>6. CASE (LkOff \/ LkTest \/ LkOwn \/ LkPush \/ WtOff \/ WtUnlock \/ WtPush \/ WtOn \/ NoOff
            \/ NoPop \/ Exit)
           /\ UNCHANGED tgt
  <2>1. Same /\ pc[cpu] \notin WayOut
    BY <1>6 DEF LkOff, LkTest, LkOwn, LkPush, WtOff, WtUnlock, WtPush, WtOn, NoOff, NoPop, Exit, At,
       mutexVars, WayOut
  <2>2. \E l \in Labels \ {"jn_test", "sl_test"} : Goto(l)
    BY <1>6 DEF LkOff, LkTest, LkOwn, LkPush, WtOff, WtUnlock, WtPush, WtOn, NoOff, NoPop, Exit,
       PreemptionOff, PreemptionOn, Switch
  <2> QED BY <1>a, <1>4, <2>1, <2>2 DEF WayOut
<1>7. CASE (UlOff \/ UlBody) /\ UNCHANGED tgt
  <2>1. Same /\ (pc[cpu] = "ul_off" \/ pc[cpu] = "ul_body")
    BY <1>7 DEF UlOff, UlBody, At, mutexVars
  <2>2. Goto("ul_body") \/ Goto("ul_on")
    BY <1>7 DEF UlOff, UlBody, PreemptionOff
  <2> QED BY <1>a, <1>4, <2>1, <2>2 DEF WayOut
<1>8. CASE (CallLock \/ CallTryLock \/ CallUnlock \/ CallWait \/ CallNotifyOne \/ CallNotifyAll)
           /\ UNCHANGED tgt
  <2>1. mtx' = mtx \/ \E m : mtx' = [mtx EXCEPT ![cpu] = m]
    BY <1>8 DEF CallLock, CallTryLock, CallUnlock, CallWait, CallNotifyOne, CallNotifyAll, mutexVars
  <2>2. \E o \in Ops \ {"join", "sleep"} : op' = [op EXCEPT ![cpu] = o]
    BY <1>8 DEF CallLock, CallTryLock, CallUnlock, CallWait, CallNotifyOne, CallNotifyAll, EnterCall, Ops
  <2>3. \E l \in Labels \ {"jn_test", "sl_test"} : Goto(l)
    BY <1>8 DEF CallLock, CallTryLock, CallUnlock, CallWait, CallNotifyOne, CallNotifyAll, EnterCall
  <2> QED BY <1>a, <1>3, <1>8, <2>1, <2>2, <2>3
<1>9. CASE (CallYield \/ CallCreate \/ CallExit \/ SysReturn \/ TlFail) /\ UNCHANGED tgt
           /\ (UNCHANGED mtx \/ \E m : mtx' = [mtx EXCEPT ![cpu] = m])
  <2>2. \E o \in Ops \ {"join", "sleep"} : op' = [op EXCEPT ![cpu] = o]
    BY <1>9 DEF CallYield, CallCreate, CallExit, SysReturn, TlFail, EnterCall, Ops
  <2>3. \E l \in Labels \ {"jn_test", "sl_test"} : Goto(l)
    BY <1>9 DEF CallYield, CallCreate, CallExit, SysReturn, TlFail, EnterCall, PreemptionOn
  <2> QED BY <1>a, <1>3, <1>9, <2>2, <2>3
<1>10. CASE (CrOn \/ NaTest \/ NoOn \/ SwOn \/ UlOn) /\ UNCHANGED tgt
           /\ (UNCHANGED mtx \/ (UlOn /\ \E m : mtx' = [mtx EXCEPT ![cpu] = m]))
  <2>1. \E l \in Labels \ {"jn_test", "sl_test"} : Goto(l)
    <3>1. ReturnLabel \in {"user", "sysret"}
      BY DEF ReturnLabel
    <3>2. swRet[cpu] \in SwRets
      BY <1>0 DEF FileTypes
    <3> QED BY <1>10, <3>1, <3>2 DEF CrOn, NaTest, NoOn, SwOn, UlOn, PreemptionOn, SwRets
  <2>2. pc[cpu] \notin WayOut \/ UlOn
    BY <1>10 DEF CrOn, NaTest, NoOn, SwOn, At, WayOut
  <2>3. \/ op' = op \/ op' = [op EXCEPT ![cpu] = "none"]
    BY <1>10 DEF CrOn, NaTest, NoOn, SwOn, UlOn
  <2>4. UlOn /\ op' = op => op[cpu] \in EcallOps \/ op[cpu] = "none"
    BY <1>0 DEF UlOn, ViaEcall, FileTypes
  <2>5. CASE op' = [op EXCEPT ![cpu] = "none"]
    BY <1>a, <1>3, <1>10, <2>1, <2>5 DEF Ops
  <2>6. CASE op' = op /\ op[cpu] \in EcallOps \cup {"none"}
    <3>1. op' = [op EXCEPT ![cpu] = op[cpu]] /\ op[cpu] \in Ops \ {"join", "sleep"}
      BY <1>0, <2>6 DEF EcallOps, Ops
    <3> QED BY <1>a, <1>3, <1>10, <2>1, <3>1
  <2>7. CASE ~UlOn /\ op' = op
    BY <1>a, <1>4, <1>10, <2>1, <2>2, <2>7 DEF WayOut
  <2> QED BY <2>3, <2>4, <2>5, <2>6, <2>7
<1>11. CASE LkOn /\ UNCHANGED tgt
  <2>1. CASE op[cpu] \in {"join", "sleep"}
    <3>1. Same /\ pc[cpu] = "lk_on"
      BY <1>11, <2>1 DEF LkOn, At
    <3>2. pc'[cpu] \in {"hang", IF op[cpu] = "join" THEN "jn_test" ELSE "sl_test"}
          /\ \A t \in Threads \ {cpu} : pc'[t] = pc[t]
      BY <1>0, <1>11, <2>1 DEF LkOn, PreemptionOn, Goto, FileTypes
    <3> QED BY <1>1, <1>2, <2>1, <3>1, <3>2 DEF CallMutexOf, WayOut
  <2>2. CASE op[cpu] \notin {"join", "sleep"}
    <3>1. \E m : mtx' = [mtx EXCEPT ![cpu] = m]
      BY <1>11, <2>2 DEF LkOn
    <3>2. \E o \in Ops \ {"join", "sleep"} : op' = [op EXCEPT ![cpu] = o]
      <4>1. op' = [op EXCEPT ![cpu] = op[cpu]] \/ op' = [op EXCEPT ![cpu] = "none"]
        BY <1>0, <1>11, <2>2 DEF LkOn
      <4>2. op[cpu] \in Ops \ {"join", "sleep"} /\ "none" \in Ops \ {"join", "sleep"}
        BY <1>0, <2>2 DEF FileTypes, Ops
      <4> QED BY <4>1, <4>2
    <3>3. \E l \in Labels \ {"jn_test", "sl_test"} : Goto(l)
      BY <1>11, <2>2 DEF LkOn, PreemptionOn, ReturnLabel
    <3> QED BY <1>a, <1>3, <1>11, <3>1, <3>2, <3>3
  <2> QED BY <2>1, <2>2
<1>12. CASE JnTest
  <2>1. op[cpu] = "join" /\ mtx[cpu] = tgt[cpu] /\ UNCHANGED <<op, mtx>>
    BY <1>1, <1>12 DEF JnTest, At, CallMutexOf, WayOut
  <2>2. /\ \A t \in Threads \ {cpu} : pc'[t] = pc[t] /\ tgt'[t] = tgt[t]
        /\ pc'[cpu] = "ul_off" \/ (pc'[cpu] = "wt_off" /\ tgt' = tgt)
    BY <1>0, <1>12 DEF JnTest, Goto, FileTypes
  <2> QED BY <1>2, <2>1, <2>2 DEF CallMutexOf, WayOut
<1>13. CASE SlTest
  <2>1. Same /\ pc[cpu] = "sl_test"
    BY <1>13 DEF SlTest, At
  <2>2. Goto("ul_off") \/ Goto("wt_off")
    BY <1>13 DEF SlTest
  <2> QED BY <1>a, <1>4, <2>1, <2>2 DEF WayOut
<1>14. CASE CallJoin \/ CallSleep
  <2>1. /\ \A t \in Threads \ {cpu} : UNCHANGED <<pc[t], op[t], mtx[t], tgt[t]>>
        /\ pc'[cpu] = "lk_off"
        /\ \/ op'[cpu] = "join" /\ mtx'[cpu] = tgt'[cpu]
           \/ op'[cpu] = "sleep" /\ mtx'[cpu] = SleepMutex
    BY <1>0, <1>14 DEF CallJoin, CallSleep, EnterCall, Goto, FileTypes
  <2> QED BY <1>2, <2>1 DEF CallMutexOf
<1>15. CASE CrNew /\ UNCHANGED <<mutexVars, tgt>>
  <2>1. Same /\ pc[cpu] = "cr_new"
    BY <1>15 DEF CrNew, At, mutexVars
  <2>2. \/ pc' = [pc EXCEPT ![cpu] = "cr_on"]
        \/ \E h \in Threads : state[h] = "INIT" /\ pc' = [pc EXCEPT ![h] = "stub", ![cpu] = "cr_on"]
    BY <1>15 DEF CrNew, Goto
  <2>3. pc'[cpu] = "cr_on" /\ \A t \in Threads \ {cpu} : pc'[t] = pc[t] \/ (pc[t] = "none" /\ pc'[t] = "stub")
    BY <1>0, <2>2 DEF HartInv, ControlInv, UnbornIdle, FileTypes
  <2> QED BY <1>1, <1>2, <2>1, <2>3 DEF CallMutexOf, WayOut
<1>16. CASE (HandlerReturn /\ UNCHANGED <<mutexVars, tgt>>) \/ UNCHANGED vars
  BY <1>16 DEF HandlerReturn, vars, schedVars, mutexVars, CallMutex
<1>17. CASE (EcallYield /\ UNCHANGED <<mutexVars, tgt>>) \/ TimerInterrupt \/ DeviceInterrupt
  <2>1. PICK rdy, st : InInterruptYield(rdy, st)
    BY <1>17 DEF TimerInterrupt, DeviceInterrupt, EcallYield
  <2>2. Same /\ (UNCHANGED pc \/ pc' = [pc EXCEPT ![cpu] = "hang"])
    BY <1>17, <2>1 DEF InInterruptYield, Goto, TimerInterrupt, DeviceInterrupt, EcallYield, mutexVars
  <2>3. \A t \in Threads : pc'[t] = pc[t] \/ pc'[t] = "hang"
    BY <1>0, <2>2 DEF FileTypes
  <2> QED BY <2>2, <2>3 DEF CallMutex, CallMutexOf, WayOut
<1>22. CASE Tear
  <2>1. Same /\ \A t \in Threads : pc'[t] = pc[t] \/ pc'[t] = "hang"
    BY <1>0, <1>22 DEF Tear, WakeTears, GrowthTears, MoveTears, Goto, mutexVars, FileTypes
  <2> QED BY <2>1 DEF CallMutex, CallMutexOf, WayOut
<1> HIDE DEF Labels, SwLabels, OffLabels, OnLabels
<1>18. CASE SchedStep /\ UNCHANGED <<mutexVars, condVars, timerVars, tgt>>
  BY <1>5, <1>9, <1>10, <1>15, <1>16, <1>17, <1>18 DEF SchedStep, CreateStep, SwitchStep, mutexVars
<1>19. CASE MutexStep /\ UNCHANGED <<condVars, timerVars, tgt>>
  <2>1. UlOn \/ TlFail => \E m : mtx' = [mtx EXCEPT ![cpu] = m]
    BY DEF UlOn, TlFail
  <2> QED BY <1>6, <1>7, <1>8, <1>9, <1>10, <1>11, <1>19, <2>1
          DEF MutexStep, LockStep, UnlockStep
<1>20. CASE CondStep /\ UNCHANGED <<timerVars, tgt>>
  <2>1. NaTest \/ NoOn => UNCHANGED mtx
    BY DEF NaTest, NoOn, mutexVars
  <2> QED BY <1>6, <1>8, <1>10, <1>20, <2>1 DEF CondStep, WaitStep, NotifyStep
<1>21. CASE JoinStep \/ ExitStep \/ SleepStep
  <2>1. CallExit \/ Exit => UNCHANGED <<mtx, tgt>>
    BY DEF CallExit, Exit, mutexVars
  <2> QED BY <1>6, <1>9, <1>12, <1>13, <1>14, <1>21, <2>1 DEF JoinStep, ExitStep, SleepStep
<1> QED BY <1>16, <1>17, <1>18, <1>19, <1>20, <1>21, <1>22
         DEF Next, WholeStep, ThreadStep
(* The steps that take no part: no thread comes to a label that claims a      *)
(* mutex or has tested one, and the mutex a call is about changes only at its *)
(* ends.                                                                      *)
Tested == {"lk_own", "lk_push"}
Elsewhere ==
    /\ UNCHANGED <<owner, mwait, holds>>
    /\ pc'[cpu'] \notin Tested
    /\ \A t \in Threads :
          /\ pc'[t] = "lk_on" => pc[t] = "lk_on"
          /\ pc'[t] \in Releasing => pc[t] \in Releasing
          /\ pc'[t] \in Keeping => pc[t] \in Keeping
          /\ swRet'[t] = "lk_on" => swRet[t] = "lk_on"
          /\ \/ mtx'[t] = mtx[t]
             \/ pc'[t] \notin {"lk_on"} \cup Releasing \cup Keeping /\ swRet'[t] # "lk_on"

LEMMA ElsewhereKeeps ==
    ASSUME OwnInv, Elsewhere
    PROVE  OwnInv'
<1>1. \A t \in Threads : \A m \in Mutexes : Claims(t, m)' => Claims(t, m)
  BY DEF Elsewhere, Claims, Releasing
<1>2. ClaimsOwned' /\ WaitersHaveOwner'
  BY <1>1 DEF Elsewhere, OwnInv, ClaimsOwned, WaitersHaveOwner
<1>3. TestedOwner'
  BY DEF Elsewhere, TestedOwner, Tested
<1>4. OwnCode'
  BY DEF Elsewhere, OwnInv, OwnCode, Releasing, Keeping
<1> QED BY <1>2, <1>3, <1>4 DEF OwnInv

(* What such a step of the thread on the hart looks like.                     *)
Beyond == {"lk_on"} \cup Releasing \cup Keeping \cup Tested
LEMMA MovesElsewhere ==
    ASSUME TypeInv, UNCHANGED <<cpu, owner, mwait, holds>>,
           NEW l \in Labels \ Beyond, Goto(l),
           swRet' = swRet \/ \E r \in SwRets \ {"lk_on"} : swRet' = [swRet EXCEPT ![cpu] = r],
           \/ mtx' = mtx
           \/ (\E m : mtx' = [mtx EXCEPT ![cpu] = m]) /\ swRet'[cpu] # "lk_on"
    PROVE  Elsewhere
<1>0. FileTypes
  BY Types
<1>1. pc'[cpu] = l /\ \A t \in Threads \ {cpu} : pc'[t] = pc[t]
  BY <1>0 DEF Goto, FileTypes
<1>2. /\ swRet'[cpu] = "lk_on" => swRet[cpu] = "lk_on"
      /\ \A t \in Threads \ {cpu} : swRet'[t] = swRet[t]
  BY <1>0 DEF FileTypes
<1>3. /\ mtx'[cpu] = mtx[cpu] \/ swRet'[cpu] # "lk_on"
      /\ \A t \in Threads \ {cpu} : mtx'[t] = mtx[t]
  BY <1>0 DEF FileTypes
<1> QED BY <1>0, <1>1, <1>2, <1>3 DEF Elsewhere, Beyond, FileTypes

LEMMA Off ==
    ASSUME TypeInv, HartInv, CountInv, NEW t \in Threads, t # cpu
    PROVE  pc[t] \notin Tested
<1>1. CASE t \in trapped
  BY <1>1 DEF CountInv, Counted, Fits, Depth, OffLabels, Tested, TypeInv, KernelType, TcbType
<1>2. CASE t \notin trapped
  BY <1>2 DEF HartInv, ControlInv, Suspended, Born, Tested
<1> QED BY <1>1, <1>2

-----------------------------------------------------------------------------
(* The scheduler's own steps, the notifications and the interrupts.           *)
PastAction ==
    \/ (CrOff \/ CrOn \/ SwOff \/ SwPick \/ SwPut \/ SwDis \/ SwRun \/ SwEn \/ SysReturn \/ Stub
        \/ CallYield \/ CallCreate) /\ UNCHANGED mutexVars
    \/ LkOff \/ TlFail \/ UlOn \/ CallLock \/ CallTryLock
    \/ WtOn \/ WtPush \/ CallNotifyOne \/ CallNotifyAll \/ NaTest \/ NoOff \/ NoPop \/ NoOn
    \/ CallJoin \/ CallExit \/ Exit \/ CallSleep

LEMMA PastFrame ==
    ASSUME TypeInv, PastAction
    PROVE  /\ UNCHANGED <<cpu, owner, mwait, holds>>
           /\ mtx' = mtx \/ ((\E m : mtx' = [mtx EXCEPT ![cpu] = m]) /\ UNCHANGED swRet
                             /\ pc[cpu] \in {"user", "tl_fail", "ul_on"})
           /\ \E l \in Labels \ Beyond : Goto(l)
           /\ swRet' = swRet \/ \E r \in SwRets \ {"lk_on"} : swRet' = [swRet EXCEPT ![cpu] = r]
<1> USE DEF PastAction, Labels, SwLabels, OffLabels, OnLabels, Beyond, Releasing, Keeping, Tested,
        SwRets, mutexVars, hartVars, tcbVars, swVars, PreemptionOff, PreemptionOn
<1>1. CASE (CrOff \/ SwOff \/ SwPick \/ SwPut \/ SwDis \/ SwRun \/ SwEn \/ SysReturn \/ Stub)
           /\ UNCHANGED mutexVars
  BY <1>1 DEF CrOff, SwOff, SwPick, SwPut, SwDis, SwRun, SwEn, SysReturn, Stub
<1>2. CASE (CrOn \/ CallYield \/ CallCreate) /\ UNCHANGED mutexVars
  BY <1>2 DEF CrOn, CallYield, CallCreate, EnterCall, ReturnLabel
<1>3. CASE LkOff \/ TlFail \/ UlOn \/ CallLock \/ CallTryLock
  BY <1>3 DEF LkOff, TlFail, UlOn, CallLock, CallTryLock, EnterCall, ReturnLabel, At
<1>4. CASE WtOn \/ WtPush \/ CallNotifyOne \/ CallNotifyAll \/ NoOff \/ NoPop
  BY <1>4 DEF WtOn, WtPush, CallNotifyOne, CallNotifyAll, NoOff, NoPop, EnterCall, Switch
<1>5. CASE NaTest \/ NoOn
  BY <1>5 DEF NaTest, NoOn, ReturnLabel
<1>6. CASE CallJoin \/ CallExit \/ Exit \/ CallSleep
  BY <1>6 DEF CallJoin, CallExit, Exit, CallSleep, EnterCall, Switch, At
<1> QED BY <1>1, <1>2, <1>3, <1>4, <1>5, <1>6

LEMMA PastOwns ==
    ASSUME TypeInv, HartInv, CountInv, OwnInv, PastAction
    PROVE  OwnInv'
<1>0. CountTypes /\ Fits(pc[cpu], swRet[cpu], preempt[cpu])
  BY Counting
<1>1. pc[cpu] \in {"user", "tl_fail", "ul_on"} => swRet[cpu] = "none"
  BY <1>0 DEF Fits, SwLabels
<1>2. \/ mtx' = mtx
      \/ (\E m : mtx' = [mtx EXCEPT ![cpu] = m]) /\ swRet'[cpu] # "lk_on"
  BY <1>1, PastFrame
<1>3. PICK l \in Labels \ Beyond : Goto(l)
  BY PastFrame
<1> QED BY <1>2, <1>3, PastFrame, MovesElsewhere, ElsewhereKeeps

(* The steps that change the hart, or create a thread.                        *)
LEMMA HartOwns ==
    ASSUME TypeInv, TypeInv', HartInv, CountInv, OwnInv,
           \/ (SwCtx \/ HandlerReturn \/ CrNew \/ EcallYield) /\ UNCHANGED mutexVars
           \/ TimerInterrupt \/ DeviceInterrupt
           \/ UNCHANGED vars
    PROVE  OwnInv'
<1>0. FileTypes
  BY Types
<1>1. UNCHANGED <<owner, mwait, holds, mtx, swRet>>
  BY DEF SwCtx, HandlerReturn, CrNew, EcallYield, TimerInterrupt, DeviceInterrupt, mutexVars, swVars,
     vars, schedVars
<1>2. CASE SwCtx
  <2>1. pc' = [pc EXCEPT ![cpu] = "sw_en"] /\ cpu' \in Threads \ {cpu}
    BY <1>0, <1>2 DEF SwCtx, Goto, At, HartInv, ControlInv, OwnStack, SwitchLocals, Picked, Born, FileTypes
  <2>2. pc[cpu'] \notin Tested
    <3>1. PICK n \in Threads \ {cpu} : cpu' = n
      BY <2>1
    <3> QED BY <3>1, Off
  <2>3. Elsewhere
    BY <1>0, <1>1, <2>1, <2>2 DEF Elsewhere, Releasing, Keeping, FileTypes
  <2> QED BY <2>3, ElsewhereKeeps
<1>3. CASE CrNew
  <2>1. pc[cpu] = "cr_new" /\ cpu' = cpu
    BY <1>3 DEF CrNew, At, hartVars
  <2>2. \/ pc' = [pc EXCEPT ![cpu] = "cr_on"]
        \/ \E h \in Threads : pc' = [pc EXCEPT ![h] = "stub", ![cpu] = "cr_on"]
    BY <1>3 DEF CrNew, Goto
  <2>3. pc'[cpu] = "cr_on" /\ \A t \in Threads : pc'[t] = pc[t] \/ pc'[t] \in {"stub", "cr_on"}
    BY <1>0, <2>2 DEF FileTypes
  <2>4. Elsewhere
    BY <1>1, <2>1, <2>3 DEF Elsewhere, Releasing, Keeping, Tested
  <2> QED BY <2>4, ElsewhereKeeps
<1>4. CASE HandlerReturn \/ UNCHANGED vars
  <2>1. UNCHANGED <<cpu, pc>>
    BY <1>4 DEF HandlerReturn, vars, schedVars, hartVars
  <2> QED BY <1>1, <2>1 DEF OwnInv, ClaimsOwned, Claims, WaitersHaveOwner, TestedOwner, OwnCode
<1>5. CASE TimerInterrupt \/ DeviceInterrupt \/ EcallYield
  <2>1. PICK rdy, st : InInterruptYield(rdy, st)
    BY <1>5 DEF TimerInterrupt, DeviceInterrupt, EcallYield
  <2>2. \/ UNCHANGED <<cpu, pc>>
        \/ pc' = [pc EXCEPT ![cpu] = "hang"] /\ cpu' = cpu
        \/ UNCHANGED pc /\ cpu' = ctx[Head(rdy)]
    BY <2>1 DEF InInterruptYield, Goto, hartVars
  <2>3. CASE UNCHANGED <<cpu, pc>>
    BY <1>1, <2>3 DEF OwnInv, ClaimsOwned, Claims, WaitersHaveOwner, TestedOwner, OwnCode
  <2>4. CASE pc' = [pc EXCEPT ![cpu] = "hang"] /\ cpu' = cpu
    <3>1. pc'[cpu] = "hang" /\ \A t \in Threads \ {cpu} : pc'[t] = pc[t]
      BY <1>0, <2>4 DEF FileTypes
    <3>2. Elsewhere
      BY <1>0, <1>1, <2>4, <3>1 DEF Elsewhere, Releasing, Keeping, Tested, FileTypes
    <3> QED BY <3>2, ElsewhereKeeps
  <2>5. CASE UNCHANGED pc /\ cpu' # cpu
    <3>1. PICK n \in Threads : cpu' = n
      BY DEF TypeInv, KernelType, HartType
    <3>2. pc[n] \notin Tested
      BY <2>5, <3>1, Off
    <3>3. Elsewhere
      BY <1>1, <2>5, <3>1, <3>2 DEF Elsewhere
    <3> QED BY <3>3, ElsewhereKeeps
  <2> QED BY <2>2, <2>3, <2>4, <2>5
<1> QED BY <1>2, <1>3, <1>4, <1>5
-----------------------------------------------------------------------------
(* The steps that take part.  Where the thread on the hart is outside a       *)
(* switch, its claims are those of its code and its label.                    *)
LEMMA OnHartOwn ==
    ASSUME TypeInv, HartInv, CountInv, FileInv
    PROVE  /\ OwnTypes /\ (pc[cpu] # "sw_ctx" => running = cpu)
           /\ pc[cpu] \notin SwLabels => swRet[cpu] = "none"
           /\ pc[cpu] \in LocalFrom => ~Listed(cpu) /\ \A m \in Mutexes : ~In(cpu, mwait[m])
BY OwnTyped, Counting DEF Fits, FileInv, NoneHangs, CountTypes, OnHart, LocalFrom, Listed, Blocked

LEMMA LkTestOwns ==
    ASSUME TypeInv, HartInv, CountInv, FileInv, OwnInv, LkTest
    PROVE  OwnInv'
<1>0. OwnTypes /\ FileTypes /\ running = cpu /\ pc[cpu] = "lk_test"
  BY OnHartOwn DEF LkTest, At, OwnTypes
<1>1. UNCHANGED <<cpu, owner, mwait, holds, mtx, swRet>>
  BY DEF LkTest, hartVars, swVars, mutexVars
<1> DEFINE o == owner[mtx[cpu]]
           l == IF o = NoThread THEN "lk_own" ELSE IF op[cpu] = "trylock" THEN "tl_fail"
                ELSE IF o = cpu THEN "lk_on" ELSE "lk_push"
<1>2. pc'[cpu] = l /\ \A t \in Threads \ {cpu} : pc'[t] = pc[t]
  BY <1>0 DEF LkTest, Goto, FileTypes
<1>3. ClaimsOwned'
  BY <1>0, <1>1, <1>2 DEF OwnInv, ClaimsOwned, Claims
<1>4. WaitersHaveOwner' /\ TestedOwner'
  BY <1>0, <1>1, <1>2 DEF OwnInv, WaitersHaveOwner, TestedOwner
<1>5. OwnCode'
  BY <1>0, <1>1, <1>2 DEF OwnInv, OwnCode, Releasing, Keeping
<1> QED BY <1>3, <1>4, <1>5 DEF OwnInv

LEMMA LkOwnOwns ==
    ASSUME TypeInv, HartInv, CountInv, FileInv, OwnInv, LkOwn
    PROVE  OwnInv'
<1>0. OwnTypes /\ FileTypes /\ running = cpu /\ pc[cpu] = "lk_own" /\ NoThread \notin Threads
  BY OnHartOwn, NoThreadAssumption DEF LkOwn, At, OwnTypes
<1>1. UNCHANGED <<cpu, mwait, holds, mtx, swRet>>
  BY DEF LkOwn, hartVars, swVars
<1>2. /\ pc'[cpu] = "lk_on" /\ \A t \in Threads \ {cpu} : pc'[t] = pc[t]
      /\ \A m \in Mutexes : owner'[m] = IF m = mtx[cpu] THEN cpu ELSE owner[m]
  BY <1>0 DEF LkOwn, Goto, FileTypes, OwnTypes
<1>3. owner[mtx[cpu]] = NoThread
  BY <1>0 DEF OwnInv, TestedOwner
<1>4. ClaimsOwned'
  <2> SUFFICES ASSUME NEW t \in Threads, NEW m \in Mutexes, Claims(t, m)' PROVE owner'[m] = t
    BY DEF ClaimsOwned
  <2>1. CASE t = cpu /\ m = mtx[cpu]
    BY <1>2, <2>1
  <2>2. CASE t # cpu \/ m # mtx[cpu]
    <3>1. Claims(t, m)
      BY <1>1, <1>2, <2>2 DEF Claims, Releasing
    <3>2. owner[m] = t
      BY <3>1 DEF OwnInv, ClaimsOwned
    <3>3. m # mtx[cpu]
      BY <1>0, <1>3, <3>2
    <3> QED BY <1>2, <3>2, <3>3
  <2> QED BY <2>1, <2>2
<1>5. WaitersHaveOwner' /\ TestedOwner'
  BY <1>0, <1>1, <1>2 DEF OwnInv, WaitersHaveOwner, TestedOwner, FileTypes
<1>6. OwnCode'
  BY <1>0, <1>1, <1>2 DEF OwnInv, OwnCode, Releasing, Keeping
<1> QED BY <1>4, <1>5, <1>6 DEF OwnInv

LEMMA LkPushOwns ==
    ASSUME TypeInv, HartInv, CountInv, FileInv, OwnInv, LkPush
    PROVE  OwnInv'
<1>0. OwnTypes /\ FileTypes /\ running = cpu /\ pc[cpu] = "lk_push"
  BY OnHartOwn DEF LkPush, At, OwnTypes
<1> DEFINE k == mtx[cpu]
           q == Append(mwait[k], cpu)
<1>1. UNCHANGED <<cpu, owner, holds, mtx>>
  BY DEF LkPush, hartVars
<1>2. /\ pc'[cpu] = "sw_off" /\ \A t \in Threads \ {cpu} : pc'[t] = pc[t]
      /\ swRet'[cpu] = "lk_on" /\ \A t \in Threads \ {cpu} : swRet'[t] = swRet[t]
      /\ \A m \in Mutexes : mwait'[m] = IF m = k THEN q ELSE mwait[m]
  BY <1>0 DEF LkPush, Switch, Goto, FileTypes, OwnTypes
<1>3. \A t : In(t, q) <=> In(t, mwait[k]) \/ t = cpu
  BY <1>0, Appended DEF FileTypes
<1>4. owner[k] # NoThread
  BY <1>0 DEF OwnInv, TestedOwner
<1> HIDE DEF q
<1>5. \A t \in Threads : \A m \in Mutexes : Claims(t, m)' => Claims(t, m)
  <2> SUFFICES ASSUME NEW t \in Threads, NEW m \in Mutexes, Claims(t, m)' PROVE Claims(t, m)
    OBVIOUS
  <2>1. CASE t = cpu
    BY <1>0, <1>1, <1>2, <1>3, <2>1 DEF Claims
  <2>2. CASE t # cpu
    BY <1>1, <1>2, <1>3, <2>2 DEF Claims
  <2> QED BY <2>1, <2>2
<1>6. ClaimsOwned'
  BY <1>1, <1>5 DEF OwnInv, ClaimsOwned
<1>7. WaitersHaveOwner' /\ TestedOwner'
  BY <1>1, <1>2, <1>4 DEF OwnInv, WaitersHaveOwner, TestedOwner
<1>8. OwnCode'
  BY <1>0, <1>1, <1>2 DEF OwnInv, OwnCode, Releasing, Keeping
<1> QED BY <1>6, <1>7, <1>8 DEF OwnInv

(* lock returns to its caller.                                                *)
LEMMA LkOnOwns ==
    ASSUME TypeInv, HartInv, CountInv, FileInv, OwnInv, LkOn
    PROVE  OwnInv'
<1>0. OwnTypes /\ FileTypes /\ pc[cpu] = "lk_on" /\ swRet[cpu] = "none"
  BY OnHartOwn DEF LkOn, At, OwnTypes, SwLabels
<1>1. UNCHANGED <<cpu, owner, mwait, swRet>>
  BY DEF LkOn, hartVars, swVars
<1>2. PICK l \in {"user", "sysret", "jn_test", "sl_test", "lk_off", "na_test"} : Goto(l)
  BY OnGoes DEF OnAction
<1>3. l \in Keeping => op[cpu] \in {"join", "sleep"}
  <2>1. ASSUME op[cpu] \notin {"join", "sleep"} PROVE l \notin Keeping
    <3>1. PreemptionOn(ReturnLabel)
      BY <2>1 DEF LkOn
    <3>2. pc'[cpu] \in {"user", "sysret", "hang"}
      BY <1>0, <3>1 DEF PreemptionOn, Goto, ReturnLabel, FileTypes
    <3> QED BY <1>0, <1>2, <3>2 DEF Goto, Keeping, FileTypes
  <2> QED BY <2>1
<1>4. /\ pc'[cpu] = l /\ \A t \in Threads \ {cpu} : pc'[t] = pc[t]
      /\ holds'[cpu] = holds[cpu] \cup {mtx[cpu]} /\ \A t \in Threads \ {cpu} : holds'[t] = holds[t]
      /\ \A t \in Threads \ {cpu} : mtx'[t] = mtx[t]
      /\ l \in Keeping => mtx'[cpu] = mtx[cpu]
  BY <1>0, <1>2, <1>3 DEF LkOn, Goto, Holds, FileTypes, OwnTypes
<1>5. \A t \in Threads : \A m \in Mutexes : Claims(t, m)' => Claims(t, m)
  BY <1>0, <1>1, <1>4 DEF Claims
<1>6. ClaimsOwned' /\ WaitersHaveOwner'
  BY <1>1, <1>5 DEF OwnInv, ClaimsOwned, WaitersHaveOwner
<1>7. TestedOwner'
  BY <1>1, <1>4 DEF TestedOwner
<1>8. OwnCode'
  BY <1>0, <1>1, <1>4 DEF OwnInv, OwnCode, Releasing, Keeping
<1> QED BY <1>6, <1>7, <1>8 DEF OwnInv

(* The calls that begin with a mutex the caller has, and the tests of join    *)
(* and sleep, which go on to release it or to wait.                           *)
LEMMA CodeOwns ==
    ASSUME TypeInv, HartInv, CountInv, FileInv, OwnInv,
           CallMutex, CallUnlock \/ CallWait \/ JnTest \/ SlTest \/ WtOff \/ UlOff
    PROVE  OwnInv'
<1>0. OwnTypes /\ FileTypes
  BY OnHartOwn DEF OwnTypes
<1>1. UNCHANGED <<cpu, owner, mwait, swRet>>
  BY DEF CallUnlock, CallWait, JnTest, SlTest, WtOff, UlOff, EnterCall, hartVars, swVars, mutexVars
<1>2. pc[cpu] \in {"user"} \cup Keeping \cup Releasing /\ swRet[cpu] = "none"
  <2>1. pc[cpu] \in {"user"} \cup Keeping \cup Releasing
    BY DEF CallUnlock, CallWait, JnTest, SlTest, WtOff, UlOff, EnterCall, At, Keeping, Releasing
  <2> QED BY <2>1, OnHartOwn DEF Keeping, Releasing, SwLabels
<1>3. CASE CallUnlock
  <2>1. PICK m \in holds[cpu] : mtx' = [mtx EXCEPT ![cpu] = m] /\ LetsGo(cpu, m)
    BY <1>3 DEF CallUnlock
  <2>2. /\ pc'[cpu] = "ul_off" /\ mtx'[cpu] = m /\ holds'[cpu] = holds[cpu] \ {m}
        /\ \A t \in Threads \ {cpu} : pc'[t] = pc[t] /\ mtx'[t] = mtx[t] /\ holds'[t] = holds[t]
    BY <1>0, <1>3, <2>1 DEF CallUnlock, EnterCall, Goto, LetsGo, FileTypes, OwnTypes
  <2>3. \A t \in Threads : \A k \in Mutexes : Claims(t, k)' => Claims(t, k)
    BY <1>1, <1>2, <2>2 DEF Claims
  <2>4. ClaimsOwned' /\ WaitersHaveOwner' /\ TestedOwner'
    BY <1>1, <2>2, <2>3 DEF OwnInv, ClaimsOwned, WaitersHaveOwner, TestedOwner
  <2>5. OwnCode'
    BY <2>2 DEF OwnInv, OwnCode, Releasing, Keeping
  <2> QED BY <2>4, <2>5 DEF OwnInv
<1>4. CASE CallWait
  <2>1. PICK m \in holds[cpu] : mtx' = [mtx EXCEPT ![cpu] = m]
    BY <1>4 DEF CallWait
  <2>2. /\ pc'[cpu] = "wt_off" /\ mtx'[cpu] = m /\ UNCHANGED holds
        /\ \A t \in Threads \ {cpu} : pc'[t] = pc[t] /\ mtx'[t] = mtx[t]
    BY <1>0, <1>4, <2>1 DEF CallWait, EnterCall, Goto, FileTypes
  <2>3. \A t \in Threads : \A k \in Mutexes : Claims(t, k)' => Claims(t, k)
    BY <1>1, <1>2, <2>2 DEF Claims
  <2>4. ClaimsOwned' /\ WaitersHaveOwner' /\ TestedOwner'
    BY <1>1, <2>2, <2>3 DEF OwnInv, ClaimsOwned, WaitersHaveOwner, TestedOwner
  <2>5. OwnCode'
    BY <2>2 DEF OwnInv, OwnCode, Releasing, Keeping
  <2> QED BY <2>4, <2>5 DEF OwnInv
<1>5. CASE JnTest \/ SlTest
  <2>1. mtx[cpu] \in holds[cpu] /\ UNCHANGED mtx
    BY <1>0, <1>5 DEF JnTest, SlTest, At, OwnInv, OwnCode, Keeping, FileTypes
  <2>2. CASE Goto("ul_off") /\ holds' = [holds EXCEPT ![cpu] = @ \ {mtx[cpu]}]
    <3>1. /\ pc'[cpu] = "ul_off" /\ holds'[cpu] = holds[cpu] \ {mtx[cpu]}
          /\ \A t \in Threads \ {cpu} : pc'[t] = pc[t] /\ holds'[t] = holds[t]
      BY <1>0, <2>2 DEF Goto, FileTypes, OwnTypes
    <3>2. \A t \in Threads : \A k \in Mutexes : Claims(t, k)' => Claims(t, k)
      BY <1>1, <1>2, <2>1, <3>1 DEF Claims
    <3>3. ClaimsOwned' /\ WaitersHaveOwner' /\ TestedOwner'
      BY <1>1, <3>1, <3>2 DEF OwnInv, ClaimsOwned, WaitersHaveOwner, TestedOwner
    <3>4. OwnCode'
      BY <2>1, <3>1 DEF OwnInv, OwnCode, Releasing, Keeping
    <3> QED BY <3>3, <3>4 DEF OwnInv
  <2>3. CASE Goto("wt_off") /\ UNCHANGED holds
    <3>1. pc'[cpu] = "wt_off" /\ \A t \in Threads \ {cpu} : pc'[t] = pc[t]
      BY <1>0, <2>3 DEF Goto, FileTypes
    <3>2. \A t \in Threads : \A k \in Mutexes : Claims(t, k)' => Claims(t, k)
      BY <1>1, <1>2, <2>1, <2>3, <3>1 DEF Claims
    <3>3. ClaimsOwned' /\ WaitersHaveOwner' /\ TestedOwner'
      BY <1>1, <3>1, <3>2 DEF OwnInv, ClaimsOwned, WaitersHaveOwner, TestedOwner
    <3>4. OwnCode'
      BY <2>1, <2>3, <3>1 DEF OwnInv, OwnCode, Releasing, Keeping
    <3> QED BY <3>3, <3>4 DEF OwnInv
  <2>4. (JnTest => tgt[cpu] = mtx[cpu]) /\ (SlTest => SleepMutex = mtx[cpu])
    BY <1>0 DEF JnTest, SlTest, At, CallMutex, CallMutexOf, WayOut, FileTypes
  <2> QED BY <1>5, <2>2, <2>3, <2>4 DEF JnTest, SlTest, LetsGo
<1>6. CASE WtOff \/ UlOff
  <2>1. /\ UNCHANGED <<holds, mtx>>
        /\ \A t \in Threads \ {cpu} : pc'[t] = pc[t]
        /\ \/ pc[cpu] = "wt_off" /\ pc'[cpu] = "wt_unlock"
           \/ pc[cpu] = "ul_off" /\ pc'[cpu] = "ul_body"
    BY <1>0, <1>6 DEF WtOff, UlOff, PreemptionOff, Goto, At, mutexVars, FileTypes
  <2>2. Elsewhere
    BY <1>0, <1>1, <2>1 DEF Elsewhere, Releasing, Keeping, Tested, FileTypes
  <2> QED BY <2>2, ElsewhereKeeps
<1> QED BY <1>3, <1>4, <1>5, <1>6


(* A woken thread comes back into lock: it was filed nowhere any more.        *)
LEMMA SwOnOwns ==
    ASSUME TypeInv, HartInv, CountInv, FileInv, OwnInv, SwOn, UNCHANGED mutexVars
    PROVE  OwnInv'
<1>0. OwnTypes /\ FileTypes /\ pc[cpu] = "sw_on"
  BY OnHartOwn DEF SwOn, At, OwnTypes
<1>1. UNCHANGED <<cpu, owner, mwait, holds, mtx>>
  BY DEF SwOn, hartVars, mutexVars
<1>2. /\ pc'[cpu] \in {"user", "hang", swRet[cpu]} /\ swRet[cpu] \in SwRets
      /\ swRet'[cpu] = "none"
      /\ \A t \in Threads \ {cpu} : pc'[t] = pc[t] /\ swRet'[t] = swRet[t]
  BY <1>0 DEF SwOn, PreemptionOn, Goto, FileTypes
<1>3. \A m \in Mutexes : ~In(cpu, mwait[m])
  BY <1>0 DEF FileInv, OnHart, Placing, Leaving, Listed, Blocked
<1>4. \A t \in Threads : \A m \in Mutexes : Claims(t, m)' => Claims(t, m)
  BY <1>1, <1>2, <1>3 DEF Claims, SwRets
<1>5. ClaimsOwned' /\ WaitersHaveOwner'
  BY <1>1, <1>4 DEF OwnInv, ClaimsOwned, WaitersHaveOwner
<1>6. TestedOwner' /\ OwnCode'
  BY <1>0, <1>1, <1>2 DEF OwnInv, TestedOwner, OwnCode, Releasing, Keeping, SwRets
<1> QED BY <1>5, <1>6 DEF OwnInv

(* unlock: the caller is the owner, and either nobody waits or the first of   *)
(* those waiting is the owner from now on.                                    *)
Freed(k, q) ==
    \/ q = <<>> /\ owner' = [owner EXCEPT ![k] = NoThread] /\ mwait' = mwait
    \/ q # <<>> /\ owner' = [owner EXCEPT ![k] = Head(q)] /\ mwait' = [mwait EXCEPT ![k] = Tail(q)]

LEMMA UnlockFrees ==
    ASSUME TypeInv, HartInv, CountInv, FileInv, OwnInv, UlBody \/ WtUnlock
    PROVE  /\ owner[mtx[cpu]] = cpu /\ Freed(mtx[cpu], mwait[mtx[cpu]])
           /\ UNCHANGED <<cpu, mtx, swRet>> /\ swRet[cpu] = "none"
           /\ pc'[cpu] \in {"ul_on", "wt_push"} /\ mtx[cpu] \notin holds'[cpu]
           /\ holds'[cpu] \subseteq holds[cpu]
           /\ \A t \in Threads \ {cpu} : pc'[t] = pc[t] /\ holds'[t] = holds[t]
<1>0. OwnTypes /\ FileTypes
  BY OnHartOwn DEF OwnTypes
<1>1. pc[cpu] \in {"ul_body", "wt_unlock"} /\ UNCHANGED <<cpu, mtx, swRet>>
  BY DEF UlBody, WtUnlock, At, hartVars, swVars
<1>2. swRet[cpu] = "none" /\ running = cpu
  BY <1>1, OnHartOwn DEF SwLabels
<1>3. /\ pc'[cpu] \in {"ul_on", "wt_push"}
      /\ \A t \in Threads \ {cpu} : pc'[t] = pc[t] /\ holds'[t] = holds[t]
      /\ holds'[cpu] = IF pc[cpu] = "ul_body" THEN holds[cpu] ELSE holds[cpu] \ {mtx[cpu]}
  BY <1>0 DEF UlBody, WtUnlock, At, Goto, LetsGo, FileTypes, OwnTypes
<1>4. mtx[cpu] \notin holds'[cpu] /\ holds'[cpu] \subseteq holds[cpu]
  BY <1>0, <1>1, <1>3 DEF OwnInv, OwnCode, Releasing, FileTypes
<1>5. owner[mtx[cpu]] = cpu
  <2>1. Claims(cpu, mtx[cpu])
    BY <1>0, <1>1 DEF OwnInv, OwnCode, Keeping, Claims, FileTypes
  <2> QED BY <1>0, <2>1 DEF OwnInv, ClaimsOwned, FileTypes
<1>6. Freed(mtx[cpu], mwait[mtx[cpu]])
  BY <1>0, <1>2, <1>5 DEF UlBody, WtUnlock, UnlockBody, Freed, OwnTypes
<1> QED BY <1>1, <1>2, <1>3, <1>4, <1>5, <1>6

LEMMA UnlockOwns ==
    ASSUME TypeInv, HartInv, CountInv, FileInv, OwnInv, UlBody \/ WtUnlock
    PROVE  OwnInv'
<1> DEFINE k == mtx[cpu]
           q == mwait[k]
<1>0. OwnTypes /\ FileTypes /\ k \in Mutexes /\ q \in Seq(Threads) /\ NoThread \notin Threads
  BY OnHartOwn DEF OwnTypes, FileTypes
<1>1. /\ owner[k] = cpu /\ Freed(k, q)
      /\ UNCHANGED <<cpu, mtx, swRet>> /\ swRet[cpu] = "none"
      /\ pc'[cpu] \in {"ul_on", "wt_push"} /\ k \notin holds'[cpu] /\ holds'[cpu] \subseteq holds[cpu]
      /\ \A t \in Threads \ {cpu} : pc'[t] = pc[t] /\ holds'[t] = holds[t]
  BY UnlockFrees
<1>2. \A m \in Mutexes \ {k} : owner'[m] = owner[m] /\ mwait'[m] = mwait[m]
  BY <1>0, <1>1 DEF Freed, OwnTypes, FileTypes
<1>3. \/ q = <<>> /\ owner'[k] = NoThread /\ mwait'[k] = <<>>
      \/ /\ q # <<>> /\ owner'[k] = Head(q) /\ Head(q) \in Threads
         /\ \A t : In(t, mwait'[k]) <=> In(t, q) /\ t # Head(q)
  <2>1. CASE q = <<>>
    BY <1>0, <1>1, <2>1 DEF Freed, OwnTypes, FileTypes
  <2>2. CASE q # <<>>
    <3>1. Distinct(q)
      BY <1>0 DEF FileInv, ListsDistinct, FileTypes
    <3>2. Head(q) \in Threads /\ \A t : In(t, Tail(q)) <=> In(t, q) /\ t # Head(q)
      BY <1>0, <2>2, <3>1, Popped, InFirst
    <3>3. owner'[k] = Head(q) /\ mwait'[k] = Tail(q)
      BY <1>0, <1>1, <2>2 DEF Freed, OwnTypes, FileTypes
    <3> QED BY <2>2, <3>2, <3>3
  <2> QED BY <2>1, <2>2
<1>4. q = mwait[k] /\ k = mtx[cpu]
  OBVIOUS
<1> HIDE DEF q, k
<1>5. ClaimsOwned'
  <2> SUFFICES ASSUME NEW t \in Threads, NEW m \in Mutexes, Claims(t, m)' PROVE owner'[m] = t
    BY DEF ClaimsOwned
  <2>1. CASE m # k
    <3>1. Claims(t, m)
      BY <1>1, <1>2, <1>4, <2>1 DEF Claims, Releasing
    <3> QED BY <1>2, <2>1, <3>1 DEF OwnInv, ClaimsOwned
  <2>2. CASE m = k /\ t = cpu
    BY <1>1, <1>4, <2>2 DEF Claims
  <2>3. CASE m = k /\ t # cpu
    <3>1. ~Claims(t, k)
      BY <1>0, <1>1, <2>3 DEF OwnInv, ClaimsOwned
    <3>2. In(t, q) /\ ~In(t, mwait'[k])
      BY <1>1, <1>4, <2>3, <3>1 DEF Claims
    <3>3. q # <<>> /\ t = Head(q)
      BY <1>0, <1>3, <3>2, InFirst
    <3> QED BY <1>3, <2>3, <3>3
  <2> QED BY <2>1, <2>2, <2>3
<1>6. WaitersHaveOwner'
  BY <1>0, <1>2, <1>3 DEF OwnInv, WaitersHaveOwner
<1>7. TestedOwner' /\ OwnCode'
  BY <1>1 DEF OwnInv, TestedOwner, OwnCode, Releasing, Keeping
<1> QED BY <1>5, <1>6, <1>7 DEF OwnInv

-----------------------------------------------------------------------------
LEMMA InitOwns == Init => OwnInv /\ CallMutex
<1> SUFFICES ASSUME Init PROVE OwnInv /\ CallMutex
  OBVIOUS
<1>1. /\ holds = [t \in Threads |-> {}] /\ mtx = [t \in Threads |-> SleepMutex]
      /\ swRet = [t \in Threads |-> "none"] /\ op = [t \in Threads |-> "none"]
      /\ mwait = [m \in Mutexes |-> <<>>]
  BY DEF Init, SchedInit, MutexInit
<1>2. \A t \in Threads : pc[t] \in {"stub", "none"}
  BY DEF Init, SchedInit
<1>3. cpu \in Threads
  BY InitType DEF TypeInv, KernelType, HartType
<1> QED BY <1>1, <1>2, <1>3 DEF OwnInv, ClaimsOwned, Claims, WaitersHaveOwner, TestedOwner, OwnCode,
           Releasing, Keeping, CallMutex, CallMutexOf

LEMMA NextOwns ==
    ASSUME TypeInv, TypeInv', HartInv, CountInv, FileInv, CallMutex, OwnInv, [WholeStep]_vars
    PROVE  OwnInv'
<1>1. CASE SchedStep /\ UNCHANGED mutexVars
  <2>1. CASE SwCtx \/ HandlerReturn \/ CrNew \/ EcallYield
    BY <1>1, <2>1, HartOwns
  <2>2. CASE SwOn
    BY <1>1, <2>2, SwOnOwns
  <2>3. CASE CrOff \/ CrOn \/ SwOff \/ SwPick \/ SwPut \/ SwDis \/ SwRun \/ SwEn \/ SysReturn \/ Stub
             \/ CallYield \/ CallCreate
    BY <1>1, <2>3, PastOwns DEF PastAction
  <2> QED BY <1>1, <2>1, <2>2, <2>3 DEF SchedStep, CreateStep, SwitchStep
<1>2. CASE MutexStep
  <2>1. CASE LkOff \/ TlFail \/ UlOn \/ CallLock \/ CallTryLock
    BY <2>1, PastOwns DEF PastAction
  <2>2. CASE CallUnlock \/ UlOff
    BY <2>2, CodeOwns
  <2> QED BY <1>2, <2>1, <2>2, LkTestOwns, LkOwnOwns, LkPushOwns, LkOnOwns, UnlockOwns
          DEF MutexStep, LockStep, UnlockStep
<1>3. CASE CondStep
  <2>1. CASE CallWait \/ WtOff
    BY <2>1, CodeOwns
  <2>2. CASE WtUnlock
    BY <2>2, UnlockOwns
  <2>3. CASE WtPush \/ WtOn \/ NotifyStep
    BY <2>3, PastOwns DEF PastAction, NotifyStep
  <2> QED BY <1>3, <2>1, <2>2, <2>3 DEF CondStep, WaitStep
<1>4. CASE JoinStep \/ ExitStep \/ SleepStep
  <2>1. CASE JnTest \/ SlTest
    BY <2>1, CodeOwns
  <2>2. CASE CallJoin \/ CallExit \/ Exit \/ CallSleep
    BY <2>2, PastOwns DEF PastAction
  <2> QED BY <1>4, <2>1, <2>2 DEF JoinStep, ExitStep, SleepStep
<1>5. CASE TimerInterrupt \/ DeviceInterrupt \/ UNCHANGED vars
  BY <1>5, HartOwns
<1> QED BY <1>1, <1>2, <1>3, <1>4, <1>5 DEF WholeStep, ThreadStep

LEMMA TornOwns ==
    ASSUME TypeInv, OwnInv, Tear
    PROVE  OwnInv'
<1>0. FileTypes
  BY Types
<1>1. UNCHANGED <<owner, mwait, holds, mtx, swRet, cpu>>
  BY DEF Tear, mutexVars, swVars, hartVars
<1>2. \A t \in Threads : pc'[t] \in {pc[t], "hang"}
  BY <1>0 DEF Tear, WakeTears, GrowthTears, MoveTears, Goto, FileTypes
<1>3. ClaimsOwned'
  BY <1>1, <1>2 DEF OwnInv, ClaimsOwned, Claims
<1>4. WaitersHaveOwner' /\ TestedOwner' /\ OwnCode'
  BY <1>0, <1>1, <1>2 DEF OwnInv, WaitersHaveOwner, TestedOwner, OwnCode, Releasing, Keeping, FileTypes
<1> QED BY <1>3, <1>4 DEF OwnInv

AllInv == FiledInv /\ CallMutex /\ OwnInv

(* What is left of it when an interrupt has met a container half changed.     *)
AllKept == KeptInv /\ CallMutex /\ OwnInv

LEMMA AllInvariant == NonBlockingEcalls => (Spec => []AllKept)
<1> SUFFICES ASSUME NonBlockingEcalls PROVE Spec => []AllKept
  OBVIOUS
<1>1. Init => AllKept
  BY InitType, InitInv, InitCounts, InitFiles, InitOwns DEF AllKept, KeptInv
<1>2. AllKept /\ [Next]_vars => AllKept'
  <2> SUFFICES ASSUME AllKept, [Next]_vars PROVE AllKept'
    OBVIOUS
  <2>1. TypeInv' /\ HartInv' /\ CountInv'
    BY NextType, NextInv, NextCounts DEF AllKept, KeptInv
  <2>2. ~torn' => FileInv'
    BY WholeOrTorn, NextFiles DEF AllKept, KeptInv
  <2>3. CallMutex'
    BY NextCallMutex DEF AllKept, KeptInv
  <2>4. OwnInv'
    <3>1. CASE WholeStep /\ ~torn
      BY <2>1, <3>1, NextOwns DEF AllKept, KeptInv
    <3>2. CASE Tear
      BY <3>2, TornOwns DEF AllKept, KeptInv
    <3>3. CASE UNCHANGED vars
      BY <2>1, <3>3, HartOwns DEF AllKept, KeptInv
    <3> QED BY <3>1, <3>2, <3>3, WholeOrTear
  <2> QED BY <2>1, <2>2, <2>3, <2>4 DEF AllKept, KeptInv
<1> QED BY <1>1, <1>2, PTL DEF Spec

(* A mutex is held by at most one thread, the one owner_ names, and nobody    *)
(* waits for a mutex that is free: also across a hand-over, and in the lock a *)
(* woken waiter takes again.                                                  *)
THEOREM MutexCorrect == NonBlockingEcalls => (Spec => []MutualExclusion)
<1>1. AllKept => MutualExclusion
  <2> SUFFICES ASSUME AllKept PROVE MutualExclusion
    OBVIOUS
  <2>1. holds \in [Threads -> SUBSET Mutexes]
    BY OwnTyped DEF AllKept, KeptInv, OwnTypes
  <2>2. \A t \in Threads : \A m \in holds[t] : owner[m] = t
    BY <2>1 DEF AllKept, OwnInv, ClaimsOwned, Claims
  <2> QED BY <2>2 DEF AllKept, OwnInv, WaitersHaveOwner, MutualExclusion
<1> QED BY <1>1, AllInvariant, PTL

-----------------------------------------------------------------------------
(* A queue is its first element and the list behind it.                       *)
LEMMA Fronted ==
    ASSUME NEW S, NEW s \in Seq(S), NEW x \in S
    PROVE  /\ <<x>> \o s # <<>> /\ Tail(<<x>> \o s) = s
           /\ \A y \in S : <<x>> \o Append(s, y) = Append(<<x>> \o s, y)
           /\ \A t : In(t, <<x>> \o s) <=> t = x \/ In(t, s)
           /\ s # <<>> => <<Head(s)>> \o Tail(s) = s
           /\ s = <<>> => <<x>> \o s = <<x>>
<1> DEFINE c == <<x>> \o s
<1>0. <<x>> \in Seq(S) /\ Len(<<x>>) = 1 /\ <<x>>[1] = x
  OBVIOUS
<1>1. /\ c \in Seq(S) /\ Len(s) \in Nat /\ Len(c) = 1 + Len(s)
      /\ \A i \in 1 .. 1 + Len(s) : c[i] = IF i <= 1 THEN x ELSE s[i - 1]
      /\ DOMAIN c = 1 .. Len(c) /\ DOMAIN s = 1 .. Len(s)
  BY <1>0, ConcatProperties, LenProperties
<1> HIDE DEF c
<1>2. c # <<>>
  BY <1>1, EmptySeq
<1>3. Tail(c) = s
  <2>1. /\ Tail(c) \in Seq(S) /\ Len(Tail(c)) = Len(s)
        /\ \A i \in 1 .. Len(s) : Tail(c)[i] = c[i + 1]
    BY <1>1, <1>2, HeadTailProperties
  <2>2. \A i \in 1 .. Len(s) : i + 1 \in 1 .. 1 + Len(s) /\ ~(i + 1 <= 1) /\ (i + 1) - 1 = i
    BY <1>1
  <2>3. \A i \in 1 .. Len(s) : Tail(c)[i] = s[i]
    BY <1>1, <2>1, <2>2
  <2> QED BY <2>1, <2>3, SeqEqual
<1>4. ASSUME NEW y \in S PROVE <<x>> \o Append(s, y) = Append(c, y)
  <2>1. Append(s, y) = s \o <<y>> /\ Append(c, y) = c \o <<y>> /\ <<y>> \in Seq(S)
    BY <1>1, AppendIsConcat
  <2> QED BY <1>0, <2>1, ConcatAssociative DEF c
<1>5. ASSUME NEW t PROVE In(t, c) <=> t = x \/ In(t, s)
  <2>1. ASSUME In(t, c) PROVE t = x \/ In(t, s)
    <3>1. PICK i \in 1 .. 1 + Len(s) : c[i] = t
      BY <1>1, <2>1 DEF In
    <3>2. CASE i <= 1
      BY <1>1, <3>1, <3>2
    <3>3. CASE ~(i <= 1)
      <4>1. i - 1 \in DOMAIN s /\ s[i - 1] = t
        BY <1>1, <3>1, <3>3
      <4> QED BY <4>1 DEF In
    <3> QED BY <3>2, <3>3
  <2>2. In(x, c)
    <3>1. 1 \in DOMAIN c /\ c[1] = x
      BY <1>1
    <3> QED BY <3>1 DEF In
  <2>3. ASSUME In(t, s) PROVE In(t, c)
    <3>1. PICK i \in 1 .. Len(s) : s[i] = t
      BY <1>1, <2>3 DEF In
    <3>2. i + 1 \in 1 .. 1 + Len(s) /\ ~(i + 1 <= 1) /\ (i + 1) - 1 = i
      BY <1>1
    <3>3. i + 1 \in DOMAIN c /\ c[i + 1] = t
      BY <1>1, <3>1, <3>2
    <3> QED BY <3>3 DEF In
  <2> QED BY <2>1, <2>2, <2>3
<1>6. s # <<>> => <<Head(s)>> \o Tail(s) = s
  <2> SUFFICES ASSUME s # <<>> PROVE <<Head(s)>> \o Tail(s) = s
    OBVIOUS
  <2>1. Len(s) \in Nat \ {0} /\ SubSeq(s, 1, Len(s)) = s
    BY EmptySeq, SubSeqFull
  <2>2. SubSeq(s, 1, Len(s)) = <<s[1]>> \o SubSeq(s, 1 + 1, Len(s))
    BY <2>1, SubSeqRecursiveFirst
  <2>3. Head(s) = s[1] /\ Tail(s) = SubSeq(s, 2, Len(s))
    BY InFirst, TailIsSubSeq
  <2> QED BY <2>1, <2>2, <2>3
<1>7. s = <<>> => c = <<x>>
  BY <1>0, ConcatEmptySeq DEF c
<1> QED BY <1>2, <1>3, <1>4, <1>5, <1>6, <1>7 DEF c

(* A step of FifoLock, from what happens to one of its queues.                *)
QueueMap == [m \in Mutexes |-> LockQueue(m)]
LEMMA OneQueue ==
    ASSUME TypeInv, NEW k \in Mutexes,
           \A m \in Mutexes \ {k} : LockQueue(m)' = LockQueue(m),
           \/ LockQueue(k)' = LockQueue(k)
           \/ LockQueue(k) # <<>> /\ LockQueue(k)' = Tail(LockQueue(k))
           \/ \E t \in Threads : ~In(t, LockQueue(k)) /\ LockQueue(k)' = Append(LockQueue(k), t)
    PROVE  [Fifo!Next]_QueueMap
<1>1. /\ QueueMap = [m \in Mutexes |-> QueueMap[m]] /\ QueueMap' = [m \in Mutexes |-> QueueMap'[m]]
      /\ \A m \in Mutexes : QueueMap[m] = LockQueue(m) /\ QueueMap'[m] = LockQueue(m)'
  BY DEF QueueMap
<1>2. CASE LockQueue(k)' = LockQueue(k)
  BY <1>2 DEF QueueMap
<1>3. CASE LockQueue(k) # <<>> /\ LockQueue(k)' = Tail(LockQueue(k))
  <2>1. QueueMap' = [QueueMap EXCEPT ![k] = Tail(@)] /\ QueueMap[k] # <<>>
    BY <1>1, <1>3
  <2> QED BY <2>1 DEF Fifo!Next, Fifo!Release, QueueMap
<1>4. CASE \E t \in Threads : ~In(t, LockQueue(k)) /\ LockQueue(k)' = Append(LockQueue(k), t)
  <2>1. PICK t \in Threads : ~In(t, LockQueue(k)) /\ LockQueue(k)' = Append(LockQueue(k), t)
    BY <1>4
  <2>2. QueueMap' = [QueueMap EXCEPT ![k] = Append(@, t)] /\ ~In(t, QueueMap[k])
    BY <1>1, <2>1
  <2> QED BY <2>2 DEF Fifo!Next, Fifo!Ask, Fifo!Queued, QueueMap, In
<1> QED BY <1>2, <1>3, <1>4

LEMMA StepRefines ==
    ASSUME AllInv, [WholeStep]_vars
    PROVE  [Fifo!Next]_QueueMap
<1>k. PICK k \in Mutexes : k = mtx[cpu]
  BY OnHartOwn DEF OwnTypes, FileTypes, AllInv, FiledInv
<1> DEFINE q == mwait[k]
<1>0. /\ OwnTypes /\ FileTypes /\ k = mtx[cpu] /\ q \in Seq(Threads) /\ NoThread \notin Threads
      /\ TypeInv /\ (pc[cpu] # "sw_ctx" => running = cpu)
  BY <1>k, OnHartOwn DEF OwnTypes, FileTypes, AllInv, FiledInv
<1>1. CASE UNCHANGED <<owner, mwait>>
  BY <1>1 DEF QueueMap, LockQueue
<1>2. CASE LkOwn
  <2>1. owner[k] = NoThread /\ q = <<>> /\ running = cpu
    BY <1>0, <1>2 DEF LkOwn, At, AllInv, OwnInv, TestedOwner, WaitersHaveOwner
  <2>2. mwait' = mwait /\ \A m \in Mutexes : owner'[m] = IF m = k THEN cpu ELSE owner[m]
    BY <1>0, <1>2, <2>1 DEF LkOwn, OwnTypes
  <2>3. /\ LockQueue(k) = <<>> /\ LockQueue(k)' = <<cpu>>
        /\ \A m \in Mutexes \ {k} : LockQueue(m)' = LockQueue(m)
    <3>1. <<cpu>> \o <<>> = <<cpu>> /\ cpu # NoThread
      BY <1>0, <2>1, Fronted DEF FileTypes
    <3> QED BY <1>0, <2>1, <2>2, <3>1 DEF LockQueue
  <2>4. ~In(cpu, <<>>) /\ <<cpu>> = Append(<<>>, cpu)
    BY <1>0, InFirst DEF FileTypes
  <2> QED BY <1>0, <2>3, <2>4, OneQueue DEF FileTypes
<1>3. CASE LkPush
  <2>1. owner[k] \in Threads \ {cpu} /\ ~In(cpu, q) /\ running = cpu
    BY <1>0, <1>3, OnHartOwn DEF LkPush, At, AllInv, FiledInv, OwnInv, TestedOwner, LocalFrom, Labels,
       OffLabels, Placing, Leaving, OwnTypes, Maybe
  <2>2. owner' = owner /\ \A m \in Mutexes : mwait'[m] = IF m = k THEN Append(q, cpu) ELSE mwait[m]
    BY <1>0, <1>3, <2>1 DEF LkPush, FileTypes
  <2>3. /\ LockQueue(k) = <<owner[k]>> \o q /\ LockQueue(k)' = <<owner[k]>> \o Append(q, cpu)
        /\ \A m \in Mutexes \ {k} : LockQueue(m)' = LockQueue(m)
    BY <1>0, <2>1, <2>2 DEF LockQueue
  <2>4. ~In(cpu, <<owner[k]>> \o q) /\ <<owner[k]>> \o Append(q, cpu) = Append(<<owner[k]>> \o q, cpu)
    <3>1. PICK w \in Seq(Threads), o \in Threads : w = q /\ o = owner[k] /\ o # cpu /\ ~In(cpu, w)
      BY <1>0, <2>1
    <3>2. cpu \in Threads
      BY <1>0 DEF FileTypes
    <3>3. /\ \A t : In(t, <<o>> \o w) <=> t = o \/ In(t, w)
          /\ <<o>> \o Append(w, cpu) = Append(<<o>> \o w, cpu)
      <4>1. w \in Seq(Threads) /\ o \in Threads
        BY <3>1
      <4>2. \A t : In(t, <<o>> \o w) <=> t = o \/ In(t, w)
        BY <4>1, Fronted
      <4>3. \A y \in Threads : <<o>> \o Append(w, y) = Append(<<o>> \o w, y)
        BY <4>1, Fronted
      <4> QED BY <3>2, <4>2, <4>3
    <3>4. ~In(cpu, <<o>> \o w)
      BY <3>1, <3>3
    <3>5. <<owner[k]>> \o q = <<o>> \o w /\ Append(q, cpu) = Append(w, cpu)
      BY <3>1
    <3>6. <<owner[k]>> \o Append(q, cpu) = <<o>> \o Append(w, cpu)
      BY <3>1
    <3> HIDE DEF q
    <3> QED BY <3>3, <3>4, <3>5, <3>6
  <2> QED BY <1>0, <2>3, <2>4, OneQueue DEF FileTypes
<1>4. CASE UlBody \/ WtUnlock
  <2>1. owner[k] = cpu /\ Freed(k, q) /\ cpu # NoThread
    BY <1>0, <1>4, UnlockFrees DEF AllInv, FiledInv, FileTypes
  <2>2. \A m \in Mutexes \ {k} : owner'[m] = owner[m] /\ mwait'[m] = mwait[m]
    BY <1>0, <2>1 DEF Freed, OwnTypes, FileTypes
  <2>3. LockQueue(k) = <<cpu>> \o q /\ \A m \in Mutexes \ {k} : LockQueue(m)' = LockQueue(m)
    BY <2>1, <2>2 DEF LockQueue
  <2>4. <<cpu>> \o q # <<>> /\ Tail(<<cpu>> \o q) = q
    <3>1. PICK w \in Seq(Threads) : w = q
      BY <1>0
    <3>2. cpu \in Threads
      BY <1>0 DEF FileTypes
    <3>3. <<cpu>> \o w # <<>> /\ Tail(<<cpu>> \o w) = w
      BY <3>2, Fronted
    <3> QED BY <3>1, <3>3
  <2>5. LockQueue(k)' = q
    <3>1. CASE q = <<>>
      BY <1>0, <2>1, <3>1 DEF Freed, LockQueue, OwnTypes
    <3>2. CASE q # <<>>
      <4>1. owner'[k] = Head(q) /\ mwait'[k] = Tail(q) /\ Head(q) \in Threads
        BY <1>0, <2>1, <3>2, HeadTailProperties DEF Freed, OwnTypes, FileTypes
      <4>2. <<Head(q)>> \o Tail(q) = q
        BY <1>0, <3>2, Fronted DEF FileTypes
      <4> QED BY <1>0, <4>1, <4>2 DEF LockQueue
    <3> QED BY <3>1, <3>2
  <2> QED BY <1>0, <2>3, <2>4, <2>5, OneQueue
<1>5. UNCHANGED <<owner, mwait>> \/ LkOwn \/ LkPush \/ UlBody \/ WtUnlock
  <2>1. CASE (SchedStep /\ UNCHANGED mutexVars) \/ UNCHANGED vars
    BY <2>1 DEF mutexVars, vars
  <2>2. CASE MutexStep
    BY <2>2 DEF MutexStep, LockStep, UnlockStep, CallLock, CallTryLock, LkOff, LkTest, LkOn, TlFail,
       CallUnlock, UlOff, UlOn, mutexVars
  <2>3. CASE CondStep
    BY <2>3 DEF CondStep, WaitStep, NotifyStep, CallWait, WtOff, WtPush, WtOn, CallNotifyOne,
       CallNotifyAll, NaTest, NoOff, NoPop, NoOn, mutexVars
  <2>4. CASE JoinStep \/ ExitStep \/ SleepStep
    BY <2>4 DEF JoinStep, ExitStep, SleepStep, CallJoin, JnTest, CallExit, Exit, CallSleep, SlTest, mutexVars
  <2>5. CASE TimerInterrupt \/ DeviceInterrupt
    BY <2>5 DEF TimerInterrupt, DeviceInterrupt, mutexVars
  <2> QED BY <2>1, <2>2, <2>3, <2>4, <2>5 DEF WholeStep, ThreadStep
<1> QED BY <1>1, <1>2, <1>3, <1>4, <1>5

(* owner_ and waiting_list_ of every mutex together are one first-in first-   *)
(* out queue: whoever asks joins at its end once, and only its head leaves.   *)
THEOREM FifoLockImplemented == NonBlockingEcalls => (Spec => ImplementsFifoLock)
<1>1. Init => Fifo!Init
  BY DEF Init, MutexInit, LockQueue, Fifo!Init
<1>2. AllKept /\ [Next]_vars => [Fifo!Next]_QueueMap
  <2> SUFFICES ASSUME AllKept, [Next]_vars PROVE [Fifo!Next]_QueueMap
    OBVIOUS
  <2>1. CASE WholeStep /\ ~torn
    BY <2>1, StepRefines DEF AllKept, KeptInv, AllInv, FiledInv
  <2>2. CASE Tear \/ UNCHANGED vars
    <3>1. UNCHANGED <<owner, mwait>>
      BY <2>2 DEF Tear, vars, mutexVars
    <3> QED BY <3>1 DEF QueueMap, LockQueue
  <2> QED BY <2>1, <2>2, WholeOrTear
<1>3. ASSUME NonBlockingEcalls PROVE Spec => ImplementsFifoLock
  <2>1. Spec => []AllKept
    BY <1>3, AllInvariant
  <2> QED BY <1>1, <1>2, <2>1, PTL DEF Spec, ImplementsFifoLock, Fifo!Spec, QueueMap
<1> QED BY <1>3
=============================================================================
