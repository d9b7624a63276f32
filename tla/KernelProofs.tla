---------------------------- MODULE KernelProofs ----------------------------
(* Machine-checked proofs about Kernel, for any set of threads, mutexes and   *)
(* condition variables and any calls their code makes. First the types, one   *)
(* lemma per action; then the hart: HartInv is preserved by every action, one *)
(* lemma per kind of action, and what follows from it; then the preemption    *)
(* counts.                                                                    *)
EXTENDS KernelInv, SequenceTheorems, TLAPS

(* The locals of switchCurrentThreadTo are threads while they are used.       *)
PickedType ==
    \A t \in Threads : pc[t] \in Picked => cur[t] \in Threads /\ nxt[t] \in Threads

TypeInv == KernelType /\ PickedType

(* What an action leaves alone keeps its type. *)
LEMMA SameType ==
    /\ HartType /\ UNCHANGED hartVars => HartType'
    /\ TcbType /\ UNCHANGED tcbVars => TcbType'
    /\ ListType /\ UNCHANGED listVars => ListType'
    /\ OpType /\ UNCHANGED op => OpType'
    /\ SwType /\ UNCHANGED swVars => SwType'
    /\ MutexType /\ UNCHANGED mutexVars => MutexType'
    /\ CondType /\ UNCHANGED condVars => CondType'
    /\ TimerType /\ UNCHANGED timerVars => TimerType'
    /\ JoinType /\ UNCHANGED tgt => JoinType'
<1>1. HartType /\ UNCHANGED hartVars => HartType' BY DEF HartType, hartVars
<1>2. TcbType /\ UNCHANGED tcbVars => TcbType' BY DEF TcbType, tcbVars
<1>3. ListType /\ UNCHANGED listVars => ListType' BY DEF ListType, listVars
<1>4. OpType /\ UNCHANGED op => OpType' BY DEF OpType
<1>5. SwType /\ UNCHANGED swVars => SwType' BY DEF SwType, swVars
<1>6. MutexType /\ UNCHANGED mutexVars => MutexType' BY DEF MutexType, mutexVars
<1>7. CondType /\ UNCHANGED condVars => CondType' BY DEF CondType, condVars
<1>8. TimerType /\ UNCHANGED timerVars => TimerType' BY DEF TimerType, timerVars
<1>9. JoinType /\ UNCHANGED tgt => JoinType' BY DEF JoinType
<1> QED BY <1>1, <1>2, <1>3, <1>4, <1>5, <1>6, <1>7, <1>8, <1>9

(* What a handler that yields does to the typed variables it touches. *)
LEMMA YieldType ==
    ASSUME TypeInv, NEW rdy \in Seq(Threads), NEW st \in [Threads -> States],
           InInterruptYield(rdy, st)
    PROVE  /\ cpu' \in Threads /\ running' \in Threads
           /\ nest' \in Int /\ mie' \in {0, 1}
           /\ ctx' \in [Threads -> Threads]
           /\ smie' \in [Threads -> {0, 1}]
           /\ mpie' \in [Threads -> {0, 1}]
           /\ trapped' \subseteq Threads
           /\ state' \in [Threads -> States]
           /\ ready' \in Seq(Threads)
           /\ pc' \in [Threads -> Labels]
           /\ \A t \in Threads : pc'[t] \in Picked => pc[t] \in Picked
<1> USE DEF TypeInv, KernelType
<1>1. CASE ~AllowPreemption \/ rdy = <<>>
  BY <1>1 DEF InInterruptYield, HartType, PcType, hartVars
<1>2. CASE ~(~AllowPreemption \/ rdy = <<>>)
  <2>1. Head(rdy) \in Threads /\ Tail(rdy) \in Seq(Threads)
    BY <1>2, HeadTailProperties
  <2>2. /\ state' = [st EXCEPT ![running] = "READY", ![Head(rdy)] = "RUNNING"]
        /\ ready' = Append(Tail(rdy), running)
    BY <1>2 DEF InInterruptYield
  <2>3. state' \in [Threads -> States] /\ ready' \in Seq(Threads)
    BY <2>1, <2>2, AppendProperties DEF States, HartType
  <2>4. CASE Head(rdy) = running
    <3>1. /\ mie' = 0
          /\ pc' = [pc EXCEPT ![cpu] = "hang"]
          /\ UNCHANGED <<cpu, running, nest, ctx, smie, mpie, trapped>>
      BY <1>2, <2>4 DEF InInterruptYield, Goto
    <3>2. /\ pc' \in [Threads -> Labels]
          /\ \A t \in Threads : pc'[t] \in Picked => pc[t] \in Picked
      BY <3>1 DEF HartType, PcType, Labels, Picked
    <3> QED BY <2>3, <3>1, <3>2 DEF HartType
  <2>5. CASE Head(rdy) # running
    <3>1. /\ running' = Head(rdy)
          /\ ctx' = [ctx EXCEPT ![running] = cpu]
          /\ nest' = nest + 1
          /\ mpie' = [mpie EXCEPT ![cpu] = mie]
          /\ smie' = [smie EXCEPT ![cpu] = 0]
          /\ trapped' = trapped \cup {cpu}
          /\ cpu' = ctx[Head(rdy)]
          /\ mie' = smie[ctx[Head(rdy)]]
          /\ UNCHANGED pc
      BY <1>2, <2>5 DEF InInterruptYield
    <3>2. /\ cpu' \in Threads /\ running' \in Threads /\ mie' \in {0, 1}
      BY <3>1, <2>1, ctx[Head(rdy)] \in Threads, smie[ctx[Head(rdy)]] \in {0, 1}
      DEF HartType
    <3>3. /\ ctx' \in [Threads -> Threads]
          /\ smie' \in [Threads -> {0, 1}]
          /\ mpie' \in [Threads -> {0, 1}]
          /\ trapped' \subseteq Threads
      BY <3>1 DEF HartType
    <3>4. nest' \in Int /\ pc' \in [Threads -> Labels]
      BY <3>1 DEF HartType, PcType
    <3> QED BY <2>3, <3>1, <3>2, <3>3, <3>4
  <2> QED BY <2>4, <2>5
<1> QED BY <1>1, <1>2

LEMMA SleepIn == SleepMutex \in Mutexes /\ SleepCond \in Conds
BY DEF Mutexes, Conds

(* unlock hands on threads and nothing else. *)
LEMMA UnlockType ==
    ASSUME TypeInv, NEW m \in Mutexes, UnlockBody(m)
    PROVE  /\ owner' \in [Mutexes -> Maybe]
           /\ mwait' \in [Mutexes -> Seq(Threads)]
           /\ state' \in [Threads -> States]
           /\ ready' \in Seq(Threads)
<1> USE DEF TypeInv, KernelType
<1>1. CASE mwait[m] = <<>>
  BY <1>1 DEF UnlockBody, MutexType, TcbType, ListType, Maybe
<1>2. CASE mwait[m] # <<>>
  <2>1. mwait[m] \in Seq(Threads)
    BY DEF MutexType
  <2>2. Head(mwait[m]) \in Threads /\ Tail(mwait[m]) \in Seq(Threads)
    BY <1>2, <2>1, HeadTailProperties
  <2>3. Append(ready, Head(mwait[m])) \in Seq(Threads)
    BY <2>2, AppendProperties DEF ListType
  <2> QED
    BY ZenonT(60), <1>2, <2>2, <2>3 DEF UnlockBody, Resume, MutexType, TcbType, States, Maybe
<1> QED BY <1>1, <1>2

(* The scheduler's own steps keep every type. *)
LEMMA SchedStepType ==
    ASSUME TypeInv, SchedStep, UNCHANGED <<mutexVars, condVars, timerVars, tgt>>
    PROVE  TypeInv'
<1> USE DEF TypeInv, KernelType
<1>1. CASE Stub
  <2>1. PcType' /\ PickedType'
    BY <1>1 DEF Stub, HartType, PcType, PickedType, Picked, Goto, swVars,
        Labels, SwLabels, OffLabels, OnLabels
  <2>2. HartType'
    BY <1>1 DEF Stub, HartType, EnableInterrupts
  <2> QED BY <1>1, <2>1, <2>2, SameType DEF Stub
<1>2. CASE CallYield
  <2>1. PcType' /\ PickedType'
    BY <1>2 DEF CallYield, HartType, PcType, PickedType, Picked, Goto, swVars,
        Labels, SwLabels, OffLabels, OnLabels, EnterCall, At
  <2>2. HartType'
    BY <1>2 DEF CallYield, HartType, EnterCall, At
  <2>3. OpType'
    BY <1>2 DEF CallYield, HartType, OpType, Ops, EnterCall, At
  <2>4. SwType'
    BY <1>2 DEF CallYield, HartType, SwType, SwRets, Maybe, EnterCall, At
  <2> QED BY <1>2, <2>1, <2>2, <2>3, <2>4, SameType DEF CallYield, EnterCall
<1>3. CASE CallCreate
  <2>1. PcType' /\ PickedType'
    BY <1>3 DEF CallCreate, HartType, PcType, PickedType, Picked, Goto,
        swVars, Labels, SwLabels, OffLabels, OnLabels, EnterCall, At
  <2>2. HartType'
    BY <1>3 DEF CallCreate, HartType, EnterCall, At
  <2>3. OpType'
    BY <1>3 DEF CallCreate, HartType, OpType, Ops, EnterCall, At
  <2> QED BY <1>3, <2>1, <2>2, <2>3, SameType DEF CallCreate, EnterCall
<1>4. CASE CrOff
  <2>1. PcType' /\ PickedType'
    BY <1>4 DEF CrOff, HartType, PcType, PickedType, Picked, Goto, swVars,
        Labels, SwLabels, OffLabels, OnLabels, PreemptionOff
  <2>2. TcbType'
    BY <1>4 DEF CrOff, HartType, TcbType, States, PreemptionOff
  <2> QED BY <1>4, <2>1, <2>2, SameType DEF CrOff
<1>5. CASE CrOn
  <2>1. PcType' /\ PickedType'
    BY <1>5 DEF CrOn, HartType, PcType, PickedType, Picked, Goto, swVars,
        Labels, SwLabels, OffLabels, OnLabels, PreemptionOn, ReturnLabel
  <2>2. TcbType'
    BY <1>5 DEF CrOn, HartType, TcbType, States, PreemptionOn
  <2>3. OpType'
    BY <1>5 DEF CrOn, HartType, OpType, Ops
  <2> QED BY <1>5, <2>1, <2>2, <2>3, SameType DEF CrOn
<1>6. CASE SwOff
  <2>1. PcType' /\ PickedType'
    BY <1>6 DEF SwOff, HartType, PcType, PickedType, Picked, Goto, swVars,
        Labels, SwLabels, OffLabels, OnLabels, PreemptionOff
  <2>2. TcbType'
    BY <1>6 DEF SwOff, HartType, TcbType, States, PreemptionOff
  <2> QED BY <1>6, <2>1, <2>2, SameType DEF SwOff
<1>7. CASE SwDis
  <2>1. PcType' /\ PickedType'
    BY <1>7 DEF SwDis, HartType, PcType, PickedType, Picked, Goto, swVars,
        Labels, SwLabels, OffLabels, OnLabels, At
  <2>2. HartType'
    BY <1>7 DEF SwDis, HartType, DisableInterrupts
  <2> QED BY <1>7, <2>1, <2>2, SameType DEF SwDis
<1>8. CASE SwRun
  <2>1. PcType' /\ PickedType'
    BY <1>8 DEF SwRun, HartType, PcType, PickedType, Picked, Goto, swVars,
        Labels, SwLabels, OffLabels, OnLabels, At
  <2>2. HartType'
    BY <1>8 DEF SwRun, HartType, PickedType, Picked, At
  <2> QED BY <1>8, <2>1, <2>2, SameType DEF SwRun
<1>9. CASE SwCtx
  <2>1. PcType' /\ PickedType'
    BY <1>9 DEF SwCtx, HartType, PcType, PickedType, Picked, Goto, swVars,
        Labels, SwLabels, OffLabels, OnLabels
  <2>2. HartType'
    BY <1>9 DEF SwCtx, HartType, PickedType, Picked, At
  <2>3. SwType'
    BY <1>9 DEF SwCtx, HartType, SwType, SwRets, Maybe
  <2> QED BY <1>9, <2>1, <2>2, <2>3, SameType DEF SwCtx
<1>10. CASE SwEn
  <2>1. PcType' /\ PickedType'
    BY <1>10 DEF SwEn, HartType, PcType, PickedType, Picked, Goto, swVars,
        Labels, SwLabels, OffLabels, OnLabels
  <2>2. HartType'
    BY <1>10 DEF SwEn, HartType, EnableInterrupts
  <2> QED BY <1>10, <2>1, <2>2, SameType DEF SwEn
<1>11. CASE SwOn
  <2>1. PcType' /\ PickedType'
    BY <1>11 DEF SwOn, HartType, PcType, PickedType, Picked, Goto, swVars,
        Labels, SwLabels, OffLabels, OnLabels, PreemptionOn, SwType, SwRets
  <2>2. TcbType'
    BY <1>11 DEF SwOn, HartType, TcbType, States, PreemptionOn
  <2>3. OpType'
    BY <1>11 DEF SwOn, HartType, OpType, Ops
  <2>4. SwType'
    BY <1>11 DEF SwOn, HartType, SwType, SwRets, Maybe
  <2> QED BY <1>11, <2>1, <2>2, <2>3, <2>4, SameType DEF SwOn
<1>12. CASE SysReturn
  <2>1. PcType' /\ PickedType'
    BY <1>12 DEF SysReturn, HartType, PcType, PickedType, Picked, Goto,
        swVars, Labels, SwLabels, OffLabels, OnLabels
  <2>2. HartType'
    BY <1>12 DEF SysReturn, HartType
  <2>3. OpType'
    BY <1>12 DEF SysReturn, HartType, OpType, Ops
  <2> QED BY <1>12, <2>1, <2>2, <2>3, SameType DEF SysReturn
<1>13. CASE HandlerReturn
  <2>1. PcType' /\ PickedType'
    BY <1>13 DEF HandlerReturn, HartType, PcType, PickedType, Picked, Goto,
        swVars, Labels, SwLabels, OffLabels, OnLabels
  <2>2. HartType'
    BY <1>13 DEF HandlerReturn, HartType
  <2> QED BY <1>13, <2>1, <2>2, SameType DEF HandlerReturn
<1>14. CASE CrNew
  <2>1. PcType' /\ PickedType'
    BY <1>14 DEF CrNew, HartType, PcType, PickedType, Picked, Goto, swVars,
       Labels, OffLabels, OnLabels
  <2>2. TcbType'
    <3>1. CASE \E t \in Threads : state[t] = "INIT"
      <4>1. PICK t \in Threads :
              /\ state' = [state EXCEPT ![t] = "READY"]
              /\ preempt' = [preempt EXCEPT ![t] = 1]
        BY <1>14, <3>1 DEF CrNew
      <4> QED BY <4>1 DEF TcbType, States
    <3>2. CASE ~\E t \in Threads : state[t] = "INIT"
      BY <1>14, <3>2 DEF CrNew, TcbType
    <3> QED BY <3>1, <3>2
  <2>3. ListType'
    <3>1. finished' = finished /\ (ready' = ready \/ \E t \in Threads : ready' = Append(ready, t))
      BY <1>14 DEF CrNew
    <3>2. \A t \in Threads : Append(ready, t) \in Seq(Threads)
      BY AppendProperties DEF ListType
    <3> QED BY <3>1, <3>2 DEF ListType
  <2> QED BY <1>14, <2>1, <2>2, <2>3, SameType DEF CrNew
<1>15. CASE SwPick
  <2>1. CASE ready = <<>>
    <3>1. PcType' /\ PickedType'
      BY <1>15, <2>1 DEF SwPick, HartType, PcType, PickedType, Picked, Goto,
         Labels, SwLabels
    <3>2. ListType' /\ SwType'
      BY <1>15, <2>1 DEF SwPick, ListType, SwType
    <3> QED BY <1>15, <3>1, <3>2, SameType DEF SwPick
  <2>2. CASE ready # <<>>
    <3>1. Head(ready) \in Threads /\ Tail(ready) \in Seq(Threads)
      BY <2>2, HeadTailProperties DEF ListType
    <3>2. PcType' /\ PickedType'
      BY SMTT(30), <1>15, <2>2, <3>1 DEF SwPick, HartType, PcType, PickedType, SwType,
         Picked, Goto, Labels, SwLabels
    <3>3. ListType' /\ SwType'
      BY <1>15, <2>2, <3>1 DEF SwPick, HartType, ListType, SwType, Maybe
    <3> QED BY <1>15, <3>2, <3>3, SameType DEF SwPick
  <2> QED BY <2>1, <2>2
<1>16. CASE SwPut
  <2>1. cur[cpu] \in Threads
    BY <1>16 DEF SwPut, At, HartType, PickedType, Picked
  <2>2. PcType' /\ PickedType'
    BY <1>16 DEF SwPut, At, HartType, PcType, PickedType, Picked, Goto, swVars,
       Labels, SwLabels
  <2>3. TcbType'
    BY <1>16 DEF SwPut, SwitchState, TcbType, States
  <2>4. ListType'
    BY <1>16, <2>1, AppendProperties DEF SwPut, ListType
  <2> QED BY <1>16, <2>2, <2>3, <2>4, SameType DEF SwPut
<1>17. CASE EcallYield
  <2>1. InInterruptYield(ready, state) /\ UNCHANGED <<preempt, finished, swVars, op>>
    BY <1>17 DEF EcallYield
  <2>2. ready \in Seq(Threads) /\ state \in [Threads -> States]
    BY DEF ListType, TcbType
  <2>3. HartType' /\ TcbType' /\ ListType' /\ PcType'
    BY <2>1, <2>2, YieldType DEF HartType, TcbType, ListType, PcType
  <2>4. PickedType'
    BY <2>1, <2>2, YieldType DEF PickedType, swVars
  <2> QED BY <2>1, <2>3, <2>4, SameType
<1> QED BY <1>1, <1>2, <1>3, <1>4, <1>5, <1>6, <1>7, <1>8, <1>9, <1>10, <1>11,
    <1>12, <1>13, <1>14, <1>15, <1>16, <1>17 DEF SchedStep, CreateStep,
    SwitchStep

(* So do those of the mutexes, ... *)
LEMMA MutexStepType ==
    ASSUME TypeInv, MutexStep, UNCHANGED <<condVars, timerVars, tgt>>
    PROVE  TypeInv'
<1> USE DEF TypeInv, KernelType
<1>1. CASE CallLock
  <2>1. PcType' /\ PickedType'
    BY <1>1 DEF CallLock, HartType, PcType, PickedType, Picked, Goto, swVars,
        Labels, SwLabels, OffLabels, OnLabels, EnterCall, At
  <2>2. HartType'
    BY <1>1 DEF CallLock, HartType, EnterCall, At
  <2>3. OpType'
    BY <1>1 DEF CallLock, HartType, OpType, Ops, EnterCall, At
  <2>4. MutexType'
    BY SleepIn, <1>1 DEF CallLock, HartType, MutexType, Maybe, Mutexes
  <2> QED BY <1>1, <2>1, <2>2, <2>3, <2>4, SameType DEF CallLock, EnterCall
<1>2. CASE CallTryLock
  <2>1. PcType' /\ PickedType'
    BY <1>2 DEF CallTryLock, HartType, PcType, PickedType, Picked, Goto,
        swVars, Labels, SwLabels, OffLabels, OnLabels, EnterCall, At
  <2>2. HartType'
    BY <1>2 DEF CallTryLock, HartType, EnterCall, At
  <2>3. OpType'
    BY <1>2 DEF CallTryLock, HartType, OpType, Ops, EnterCall, At
  <2>4. MutexType'
    BY SleepIn, <1>2 DEF CallTryLock, HartType, MutexType, Maybe, Mutexes
  <2> QED BY <1>2, <2>1, <2>2, <2>3, <2>4, SameType DEF CallTryLock, EnterCall
<1>3. CASE LkOff
  <2>1. PcType' /\ PickedType'
    BY <1>3 DEF LkOff, HartType, PcType, PickedType, Picked, Goto, swVars,
        Labels, SwLabels, OffLabels, OnLabels, PreemptionOff
  <2>2. TcbType'
    BY <1>3 DEF LkOff, HartType, TcbType, States, PreemptionOff
  <2> QED BY <1>3, <2>1, <2>2, SameType DEF LkOff
<1>4. CASE LkTest
  <2>1. PcType' /\ PickedType'
    BY <1>4 DEF LkTest, HartType, PcType, PickedType, Picked, Goto, swVars,
        Labels, SwLabels, OffLabels, OnLabels
  <2> QED BY <1>4, <2>1, SameType DEF LkTest
<1>5. CASE LkOwn
  <2>1. PcType' /\ PickedType'
    BY <1>5 DEF LkOwn, HartType, PcType, PickedType, Picked, Goto, swVars,
        Labels, SwLabels, OffLabels, OnLabels
  <2>2. MutexType'
    BY SleepIn, <1>5 DEF LkOwn, HartType, MutexType, Maybe
  <2> QED BY <1>5, <2>1, <2>2, SameType DEF LkOwn
<1>6. CASE LkPush
  <2>1. PcType' /\ PickedType'
    BY <1>6 DEF LkPush, HartType, PcType, PickedType, Picked, Goto, swVars,
        Labels, SwLabels, OffLabels, OnLabels, Switch
  <2>2. SwType'
    BY <1>6 DEF LkPush, HartType, SwType, SwRets, Maybe, Switch
  <2>3. MutexType'
    BY SleepIn, <1>6 DEF LkPush, HartType, MutexType, Maybe
  <2> QED BY <1>6, <2>1, <2>2, <2>3, SameType DEF LkPush, Switch
<1>7. CASE LkOn
  <2>1. PcType' /\ PickedType'
    BY <1>7 DEF LkOn, HartType, PcType, PickedType, Picked, Goto, swVars,
        Labels, SwLabels, OffLabels, OnLabels, PreemptionOn, ReturnLabel
  <2>2. TcbType'
    BY <1>7 DEF LkOn, HartType, TcbType, States, PreemptionOn
  <2>3. OpType'
    BY <1>7 DEF LkOn, HartType, OpType, Ops
  <2>4. MutexType'
    BY ZenonT(60), SleepIn, <1>7 DEF LkOn, HartType, MutexType, Maybe, Holds
  <2> QED BY <1>7, <2>1, <2>2, <2>3, <2>4, SameType DEF LkOn
<1>8. CASE TlFail
  <2>1. PcType' /\ PickedType'
    BY <1>8 DEF TlFail, HartType, PcType, PickedType, Picked, Goto, swVars,
        Labels, SwLabels, OffLabels, OnLabels, PreemptionOn
  <2>2. TcbType'
    BY <1>8 DEF TlFail, HartType, TcbType, States, PreemptionOn
  <2>3. OpType'
    BY <1>8 DEF TlFail, HartType, OpType, Ops
  <2>4. MutexType'
    BY SleepIn, <1>8 DEF TlFail, HartType, MutexType, Maybe
  <2> QED BY <1>8, <2>1, <2>2, <2>3, <2>4, SameType DEF TlFail
<1>9. CASE CallUnlock
  <2>1. PcType' /\ PickedType'
    BY <1>9 DEF CallUnlock, HartType, PcType, PickedType, Picked, Goto,
        swVars, Labels, SwLabels, OffLabels, OnLabels, EnterCall, At
  <2>2. HartType'
    BY <1>9 DEF CallUnlock, HartType, EnterCall, At
  <2>3. OpType'
    BY <1>9 DEF CallUnlock, HartType, OpType, Ops, EnterCall, At
  <2>4. MutexType'
    BY SleepIn, <1>9 DEF CallUnlock, HartType, MutexType, Maybe, LetsGo,
        Mutexes
  <2> QED BY <1>9, <2>1, <2>2, <2>3, <2>4, SameType DEF CallUnlock, EnterCall
<1>10. CASE UlOff
  <2>1. PcType' /\ PickedType'
    BY <1>10 DEF UlOff, HartType, PcType, PickedType, Picked, Goto, swVars,
        Labels, SwLabels, OffLabels, OnLabels, PreemptionOff
  <2>2. TcbType'
    BY <1>10 DEF UlOff, HartType, TcbType, States, PreemptionOff
  <2> QED BY <1>10, <2>1, <2>2, SameType DEF UlOff
<1>11. CASE UlOn
  <2>1. PcType' /\ PickedType'
    BY <1>11 DEF UlOn, HartType, PcType, PickedType, Picked, Goto, swVars,
        Labels, SwLabels, OffLabels, OnLabels, PreemptionOn, ReturnLabel
  <2>2. TcbType'
    BY <1>11 DEF UlOn, HartType, TcbType, States, PreemptionOn
  <2>3. OpType'
    BY <1>11 DEF UlOn, HartType, OpType, Ops
  <2>4. MutexType'
    BY SleepIn, <1>11 DEF UlOn, HartType, MutexType, Maybe
  <2> QED BY <1>11, <2>1, <2>2, <2>3, <2>4, SameType DEF UlOn
<1>12. CASE UlBody
  <2>1. mtx[cpu] \in Mutexes
    BY DEF HartType, MutexType
  <2>2. PcType' /\ PickedType'
    BY <1>12 DEF UlBody, HartType, PcType, PickedType, Picked, Goto, swVars,
       Labels, OffLabels
  <2>3. TcbType' /\ ListType' /\ MutexType'
    BY <1>12, <2>1, UnlockType DEF UlBody, TcbType, ListType, MutexType
  <2> QED BY <1>12, <2>2, <2>3, SameType DEF UlBody
<1> QED BY <1>1, <1>2, <1>3, <1>4, <1>5, <1>6, <1>7, <1>8, <1>9, <1>10, <1>11,
    <1>12 DEF MutexStep, LockStep, UnlockStep

(* ... those of the condition variables, ... *)
LEMMA CondStepType ==
    ASSUME TypeInv, CondStep, UNCHANGED <<timerVars, tgt>>
    PROVE  TypeInv'
<1> USE DEF TypeInv, KernelType
<1>1. CASE CallWait
  <2>1. PcType' /\ PickedType'
    BY <1>1 DEF CallWait, HartType, PcType, PickedType, Picked, Goto, swVars,
        Labels, SwLabels, OffLabels, OnLabels, EnterCall, At
  <2>2. HartType'
    BY <1>1 DEF CallWait, HartType, EnterCall, At
  <2>3. OpType'
    BY <1>1 DEF CallWait, HartType, OpType, Ops, EnterCall, At
  <2>4. MutexType'
    BY SleepIn, <1>1 DEF CallWait, HartType, MutexType, Maybe, Mutexes
  <2>5. CondType'
    BY SleepIn, <1>1 DEF CallWait, HartType, CondType, Conds
  <2> QED BY <1>1, <2>1, <2>2, <2>3, <2>4, <2>5, SameType DEF CallWait,
      EnterCall
<1>2. CASE WtOff
  <2>1. PcType' /\ PickedType'
    BY <1>2 DEF WtOff, HartType, PcType, PickedType, Picked, Goto, swVars,
        Labels, SwLabels, OffLabels, OnLabels, PreemptionOff
  <2>2. TcbType'
    BY <1>2 DEF WtOff, HartType, TcbType, States, PreemptionOff
  <2> QED BY <1>2, <2>1, <2>2, SameType DEF WtOff
<1>3. CASE WtPush
  <2>1. PcType' /\ PickedType'
    BY <1>3 DEF WtPush, HartType, PcType, PickedType, Picked, Goto, swVars,
        Labels, SwLabels, OffLabels, OnLabels, Switch
  <2>2. SwType'
    BY <1>3 DEF WtPush, HartType, SwType, SwRets, Maybe, Switch
  <2>3. CondType'
    BY SleepIn, <1>3 DEF WtPush, HartType, CondType, Conds
  <2> QED BY <1>3, <2>1, <2>2, <2>3, SameType DEF WtPush, Switch
<1>4. CASE WtOn
  <2>1. PcType' /\ PickedType'
    BY <1>4 DEF WtOn, HartType, PcType, PickedType, Picked, Goto, swVars,
        Labels, SwLabels, OffLabels, OnLabels, PreemptionOn
  <2>2. TcbType'
    BY <1>4 DEF WtOn, HartType, TcbType, States, PreemptionOn
  <2>3. CondType'
    BY SleepIn, <1>4 DEF WtOn, HartType, CondType, Conds
  <2> QED BY <1>4, <2>1, <2>2, <2>3, SameType DEF WtOn
<1>5. CASE CallNotifyOne
  <2>1. PcType' /\ PickedType'
    BY <1>5 DEF CallNotifyOne, HartType, PcType, PickedType, Picked, Goto,
        swVars, Labels, SwLabels, OffLabels, OnLabels, EnterCall, At
  <2>2. HartType'
    BY <1>5 DEF CallNotifyOne, HartType, EnterCall, At
  <2>3. OpType'
    BY <1>5 DEF CallNotifyOne, HartType, OpType, Ops, EnterCall, At
  <2>4. CondType'
    BY SleepIn, <1>5 DEF CallNotifyOne, HartType, CondType, Conds
  <2> QED BY <1>5, <2>1, <2>2, <2>3, <2>4, SameType DEF CallNotifyOne,
      EnterCall
<1>6. CASE CallNotifyAll
  <2>1. PcType' /\ PickedType'
    BY <1>6 DEF CallNotifyAll, HartType, PcType, PickedType, Picked, Goto,
        swVars, Labels, SwLabels, OffLabels, OnLabels, EnterCall, At
  <2>2. HartType'
    BY <1>6 DEF CallNotifyAll, HartType, EnterCall, At
  <2>3. OpType'
    BY <1>6 DEF CallNotifyAll, HartType, OpType, Ops, EnterCall, At
  <2>4. CondType'
    BY SleepIn, <1>6 DEF CallNotifyAll, HartType, CondType, Conds
  <2> QED BY <1>6, <2>1, <2>2, <2>3, <2>4, SameType DEF CallNotifyAll,
      EnterCall
<1>7. CASE NaTest
  <2>1. PcType' /\ PickedType'
    BY <1>7 DEF NaTest, HartType, PcType, PickedType, Picked, Goto, swVars,
        Labels, SwLabels, OffLabels, OnLabels, ReturnLabel
  <2>2. OpType'
    BY <1>7 DEF NaTest, HartType, OpType, Ops
  <2>3. CondType'
    BY SleepIn, <1>7 DEF NaTest, HartType, CondType, Conds
  <2> QED BY <1>7, <2>1, <2>2, <2>3, SameType DEF NaTest
<1>8. CASE NoOff
  <2>1. PcType' /\ PickedType'
    BY <1>8 DEF NoOff, HartType, PcType, PickedType, Picked, Goto, swVars,
        Labels, SwLabels, OffLabels, OnLabels, PreemptionOff
  <2>2. TcbType'
    BY <1>8 DEF NoOff, HartType, TcbType, States, PreemptionOff
  <2> QED BY <1>8, <2>1, <2>2, SameType DEF NoOff
<1>9. CASE NoOn
  <2>1. PcType' /\ PickedType'
    BY <1>9 DEF NoOn, HartType, PcType, PickedType, Picked, Goto, swVars,
        Labels, SwLabels, OffLabels, OnLabels, PreemptionOn, ReturnLabel
  <2>2. TcbType'
    BY <1>9 DEF NoOn, HartType, TcbType, States, PreemptionOn
  <2>3. OpType'
    BY <1>9 DEF NoOn, HartType, OpType, Ops
  <2>4. CondType'
    BY SleepIn, <1>9 DEF NoOn, HartType, CondType, Conds
  <2> QED BY <1>9, <2>1, <2>2, <2>3, <2>4, SameType DEF NoOn
<1>10. CASE WtUnlock
  <2>1. mtx[cpu] \in Mutexes
    BY DEF HartType, MutexType
  <2>2. PcType' /\ PickedType'
    BY <1>10 DEF WtUnlock, HartType, PcType, PickedType, Picked, Goto, swVars,
       Labels, OffLabels
  <2>3. TcbType' /\ ListType'
    BY <1>10, <2>1, UnlockType DEF WtUnlock, TcbType, ListType
  <2>4. MutexType'
    BY <1>10, <2>1, UnlockType DEF WtUnlock, LetsGo, HartType, MutexType
  <2> QED BY <1>10, <2>2, <2>3, <2>4, SameType DEF WtUnlock
<1>11. CASE NoPop
  <2> DEFINE queue == cwait[cnd[cpu]]
  <2>1. PcType' /\ PickedType'
    BY <1>11 DEF NoPop, HartType, PcType, PickedType, Picked, Goto, swVars,
       Labels, OffLabels
  <2>2. queue \in Seq(Threads)
    BY DEF HartType, CondType
  <2>3. TcbType' /\ ListType' /\ CondType'
    <3>1. CASE queue = <<>>
      BY <1>11, <3>1 DEF NoPop, TcbType, ListType, CondType
    <3>2. CASE queue # <<>>
      <4>1. Head(queue) \in Threads /\ Tail(queue) \in Seq(Threads)
        BY <2>2, <3>2, HeadTailProperties
      <4>2. Append(ready, Head(queue)) \in Seq(Threads)
        BY <4>1, AppendProperties DEF ListType
      <4> QED
        BY <1>11, <3>2, <4>1, <4>2 DEF NoPop, Resume, TcbType, States, ListType,
           CondType
    <3> QED BY <3>1, <3>2
  <2> QED BY <1>11, <2>1, <2>3, SameType DEF NoPop
<1> QED BY <1>1, <1>2, <1>3, <1>4, <1>5, <1>6, <1>7, <1>8, <1>9, <1>10, <1>11
    DEF CondStep, WaitStep, NotifyStep

(* ... and those of join, exit and sleep. *)
LEMMA LifeStepType ==
    ASSUME TypeInv, (JoinStep \/ ExitStep \/ SleepStep)
    PROVE  TypeInv'
<1> USE DEF TypeInv, KernelType
<1>1. CASE CallJoin
  <2>1. PcType' /\ PickedType'
    BY <1>1 DEF CallJoin, HartType, PcType, PickedType, Picked, Goto, swVars,
        Labels, SwLabels, OffLabels, OnLabels, EnterCall, At
  <2>2. HartType'
    BY <1>1 DEF CallJoin, HartType, EnterCall, At
  <2>3. OpType'
    BY <1>1 DEF CallJoin, HartType, OpType, Ops, EnterCall, At
  <2>4. MutexType'
    BY SleepIn, <1>1 DEF CallJoin, HartType, MutexType, Maybe, Mutexes
  <2>5. JoinType'
    BY <1>1 DEF CallJoin, HartType, JoinType
  <2> QED BY <1>1, <2>1, <2>2, <2>3, <2>4, <2>5, SameType DEF CallJoin,
      EnterCall
<1>2. CASE JnTest
  <2>1. PcType' /\ PickedType'
    BY <1>2 DEF JnTest, HartType, PcType, PickedType, Picked, Goto, swVars,
       Labels, OnLabels
  <2>2. CondType'
    BY <1>2 DEF JnTest, HartType, CondType, JoinType, Conds
  <2>3. MutexType'
    <3>1. CASE state[tgt[cpu]] = "FINISHED"
      <4>1. /\ holds' = [holds EXCEPT ![cpu] = @ \ {tgt[cpu]}]
            /\ UNCHANGED <<owner, mwait, mtx>>
        BY <1>2, <3>1 DEF JnTest, LetsGo
      <4> QED BY <4>1 DEF MutexType
    <3>2. CASE state[tgt[cpu]] # "FINISHED"
      BY <1>2, <3>2 DEF JnTest, MutexType
    <3> QED BY <3>1, <3>2
  <2>4. JoinType'
    BY <1>2, IdleAssumption DEF JnTest, HartType, JoinType
  <2> QED BY <1>2, <2>1, <2>2, <2>3, <2>4, SameType DEF JnTest
<1>3. CASE CallExit
  <2>1. PcType' /\ PickedType'
    BY <1>3 DEF CallExit, HartType, PcType, PickedType, Picked, Goto, swVars,
        Labels, SwLabels, OffLabels, OnLabels, EnterCall, At
  <2>2. HartType'
    BY <1>3 DEF CallExit, HartType, EnterCall, At
  <2>3. OpType'
    BY <1>3 DEF CallExit, HartType, OpType, Ops, EnterCall, At
  <2>4. CondType'
    BY SleepIn, <1>3 DEF CallExit, HartType, CondType, Conds
  <2> QED BY <1>3, <2>1, <2>2, <2>3, <2>4, SameType DEF CallExit, EnterCall
<1>4. CASE Exit
  <2>1. PcType' /\ PickedType'
    BY <1>4 DEF Exit, HartType, PcType, PickedType, Picked, Goto, swVars,
        Labels, SwLabels, OffLabels, OnLabels, Switch
  <2>2. SwType'
    BY <1>4 DEF Exit, HartType, SwType, SwRets, Maybe, Switch
  <2> QED BY <1>4, <2>1, <2>2, SameType DEF Exit, Switch
<1>5. CASE CallSleep
  <2>1. PICK w \in (systick + 1) .. MaxTick : wake' = [wake EXCEPT ![cpu] = w]
    BY <1>5 DEF CallSleep
  <2>2. TimerType'
    <3>1. w \in Nat
      BY TickAssumption DEF TimerType
    <3>2. UNCHANGED systick
      BY <1>5 DEF CallSleep
    <3> QED BY <2>1, <3>1, <3>2 DEF TimerType
  <2>3. PcType' /\ PickedType'
    BY <1>5 DEF CallSleep, EnterCall, HartType, PcType, PickedType, Picked, Goto,
       swVars, Labels, OffLabels, OnLabels
  <2>4. HartType' /\ OpType'
    BY <1>5 DEF CallSleep, EnterCall, At, HartType, OpType, Ops
  <2>5. MutexType'
    BY <1>5, SleepIn DEF CallSleep, MutexType
  <2> QED BY <1>5, <2>2, <2>3, <2>4, <2>5, SameType DEF CallSleep, EnterCall
<1>6. CASE SlTest
  <2>1. PcType' /\ PickedType'
    BY <1>6 DEF SlTest, HartType, PcType, PickedType, Picked, Goto, swVars,
       Labels, OnLabels
  <2>2. MutexType'
    <3>1. CASE systick < wake[cpu]
      BY <1>6, <3>1 DEF SlTest, MutexType
    <3>2. CASE ~(systick < wake[cpu])
      <4>1. /\ holds' = [holds EXCEPT ![cpu] = @ \ {SleepMutex}]
            /\ UNCHANGED <<owner, mwait, mtx>>
        BY <1>6, <3>2 DEF SlTest, LetsGo
      <4> QED BY <4>1 DEF MutexType
    <3> QED BY <3>1, <3>2
  <2>3. TimerType'
    BY <1>6 DEF SlTest, HartType, TimerType
  <2> QED BY <1>6, <2>1, <2>2, <2>3, SameType DEF SlTest
<1> QED BY <1>1, <1>2, <1>3, <1>4, <1>5, <1>6 DEF JoinStep, ExitStep,
    SleepStep

(* The timer interrupt: the sleepers it wakes are threads. *)
LEMMA InterruptType ==
    ASSUME TypeInv, TimerInterrupt
    PROVE  TypeInv'
<1> USE DEF TypeInv, KernelType
<1> DEFINE woken == cwait[SleepCond]
           st == [t \in Threads |-> IF \E i \in DOMAIN woken : woken[i] = t
                                    THEN "READY" ELSE state[t]]
<1>1. InInterruptYield(ready \o woken, st)
  BY DEF TimerInterrupt
<1>2. woken \in Seq(Threads)
  BY SleepIn DEF CondType
<1>3. ready \o woken \in Seq(Threads)
  BY <1>2, ConcatProperties DEF ListType
<1>4. st \in [Threads -> States]
  BY DEF TcbType, States
<1> HIDE DEF woken, st
<1>5. HartType' /\ TcbType' /\ ListType' /\ PcType'
  BY <1>1, <1>3, <1>4, YieldType
  DEF TimerInterrupt, HartType, TcbType, ListType, PcType
<1>6. PickedType'
  BY <1>1, <1>3, <1>4, YieldType DEF TimerInterrupt, PickedType, swVars
<1>7. CondType'
  BY EmptySeq DEF TimerInterrupt, CondType
<1>8. TimerType'
  BY TickAssumption DEF TimerInterrupt, Tick, TimerType
<1> QED BY <1>5, <1>6, <1>7, <1>8, SameType DEF TimerInterrupt

LEMMA DeviceType ==
    ASSUME TypeInv, DeviceInterrupt
    PROVE  TypeInv'
<1> USE DEF TypeInv, KernelType
<1>1. InInterruptYield(ready, state) /\ UNCHANGED <<preempt, finished, swVars, op>>
  BY DEF DeviceInterrupt
<1>2. ready \in Seq(Threads) /\ state \in [Threads -> States]
  BY DEF ListType, TcbType
<1>3. HartType' /\ TcbType' /\ ListType' /\ PcType'
  BY <1>1, <1>2, YieldType DEF HartType, TcbType, ListType, PcType
<1>4. PickedType'
  BY <1>1, <1>2, YieldType DEF PickedType, swVars
<1> QED BY <1>1, <1>3, <1>4, SameType DEF DeviceInterrupt

LEMMA InitType == Init => TypeInv
<1> SUFFICES ASSUME Init PROVE TypeInv
  OBVIOUS
<1> DEFINE first == Head(Boot)
<1>1. Boot \in Seq(Threads) /\ first \in Threads /\ Tail(Boot) \in Seq(Threads)
  BY BootAssumption, HeadTailProperties
<1>2. HartType /\ TcbType
  BY <1>1 DEF Init, SchedInit, HartType, TcbType, States
<1>3. ListType /\ SwType
  BY <1>1, EmptySeq DEF Init, SchedInit, ListType, SwType, SwRets, Maybe
<1>4. PcType /\ OpType /\ PickedType
  BY DEF Init, SchedInit, PcType, OpType, Ops, PickedType, Picked, Labels, OnLabels
<1>5. MutexType /\ CondType
  BY SleepIn, EmptySeq
  DEF Init, MutexInit, CondInit, MutexType, CondType, Maybe
<1>6. TimerType /\ JoinType
  BY IdleAssumption DEF Init, TimerType, JoinType
<1> QED BY <1>2, <1>3, <1>4, <1>5, <1>6 DEF TypeInv, KernelType

(* A torn list still holds threads. *)
LEMMA TornFiling ==
    ASSUME NEW S, NEW q \in Seq(S), NEW r \in Seq(S),
           NEW i \in DOMAIN (q \o r), NEW j \in DOMAIN (q \o r)
    PROVE  [q \o r EXCEPT ![i] = (q \o r)[j]] \in Seq(S)
<1>1. q \o r \in Seq(S)
  BY ConcatProperties
<1>2. (q \o r)[j] \in S
  BY <1>1, ElementOfSeq
<1> QED BY <1>1, <1>2, ExceptSeq

LEMMA TearType ==
    ASSUME TypeInv, Tear
    PROVE  TypeInv'
<1> USE DEF TypeInv, KernelType
<1>1. ready' \in Seq(Threads) /\ CondType'
  <2>1. CASE WakeTears
    <3>1. ready \in Seq(Threads) /\ cwait[SleepCond] \in Seq(Threads)
      BY SleepIn DEF ListType, CondType
    <3>2. ready' \in Seq(Threads)
      BY <2>1, <3>1, TornFiling DEF WakeTears
    <3> QED BY <2>1, <3>2, EmptySeq DEF WakeTears, Tear, CondType
  <2>2. CASE GrowthTears \/ MoveTears
    BY <2>2 DEF GrowthTears, MoveTears, Tear, ListType, CondType
  <2> QED BY <2>1, <2>2 DEF Tear
<1>2. PcType' /\ PickedType'
  BY DEF Tear, WakeTears, GrowthTears, MoveTears, Goto, PcType, Labels, PickedType, Picked, swVars
<1> QED BY <1>1, <1>2, SameType DEF Tear, ListType

LEMMA NextType == TypeInv /\ [Next]_vars => TypeInv'
<1> SUFFICES ASSUME TypeInv, [Next]_vars PROVE TypeInv'
  OBVIOUS
<1>1. CASE ThreadStep
  BY <1>1, SchedStepType, MutexStepType, CondStepType, LifeStepType
  DEF ThreadStep
<1>2. CASE TimerInterrupt \/ DeviceInterrupt
  BY <1>2, InterruptType, DeviceType
<1>3. CASE UNCHANGED vars
  <2>1. UNCHANGED <<pc, swVars>> => (PickedType => PickedType')
    BY DEF PickedType, swVars
  <2>2. UNCHANGED pc => (PcType => PcType')
    BY DEF PcType
  <2> QED BY <1>3, <2>1, <2>2, SameType DEF vars, schedVars, TypeInv, KernelType
<1>4. CASE Tear
  BY <1>4, TearType
<1> QED BY <1>1, <1>2, <1>3, <1>4 DEF Next, WholeStep

(* Every variable keeps its type in every behaviour. *)
THEOREM TypeCorrect == Spec => []TypeOK
<1>1. Init => torn \in BOOLEAN
  BY DEF Init
<1>2. torn \in BOOLEAN /\ [Next]_vars => torn' \in BOOLEAN
  BY DEF Next, WholeStep, ThreadStep, TimerInterrupt, DeviceInterrupt, Whole, Tear, vars
<1>3. TypeInv /\ torn \in BOOLEAN => TypeOK
  BY DEF TypeInv, TypeOK
<1>4. Init => TypeInv /\ torn \in BOOLEAN
  BY InitType, <1>1
<1>5. (TypeInv /\ torn \in BOOLEAN) /\ [Next]_vars => (TypeInv /\ torn \in BOOLEAN)'
  BY NextType, <1>2
<1> QED BY <1>3, <1>4, <1>5, PTL DEF Spec

-----------------------------------------------------------------------------
(* A step of the thread on the hart that opens and closes no nesting level.   *)
LocalMove ==
    /\ cpu \notin trapped /\ ~Masked(cpu) /\ pc[cpu] # "hang"
    /\ \E k \in Labels \ {"none", "sw_run", "sw_ctx", "sw_en", "stub"} : Goto(k)
    /\ pc'[cpu] \in Picked => pc[cpu] \in Picked
    /\ \A t \in Threads \ {cpu} : op'[t] = op[t] /\ swRet'[t] = swRet[t]
    /\ InSyscall(cpu)' <=> InSyscall(cpu)
    /\ CallOf(cpu)'
    /\ \A t \in Threads : state'[t] = "INIT" => state[t] = "INIT"
    /\ UNCHANGED <<hartVars, cur, nxt>>

LEMMA LocalStep ==
    ASSUME TypeInv, ControlInv, LocalMove
    PROVE  ControlInv' /\ Born' = Born
<1> PICK k \in Labels \ {"none", "sw_run", "sw_ctx", "sw_en", "stub"} : Goto(k)
  BY DEF LocalMove
<1>1. /\ cpu \in Threads /\ pc'[cpu] = k /\ cpu \in Born
      /\ \A t \in Threads \ {cpu} : pc'[t] = pc[t]
  BY DEF Goto, TypeInv, KernelType, HartType, PcType, ControlInv, OwnStack
<1>2. Born' = Born
  BY <1>1 DEF Born
<1>3. UnbornIdle'
  BY <1>1 DEF UnbornIdle, ControlInv, LocalMove, hartVars, Born
<1>4. SwitchLocals'
  BY <1>1, <1>2 DEF SwitchLocals, ControlInv, LocalMove
<1>5. SyscallLabels'
  <2>1. SUFFICES ASSUME NEW t \in Threads PROVE CallOf(t)'
    BY DEF SyscallLabels
  <2>2. cpu' = cpu /\ CallOf(cpu)' /\ UNCHANGED mpie
    BY DEF LocalMove, hartVars
  <2>3. CallOf(t)
    BY DEF ControlInv, SyscallLabels
  <2>4. CASE t # cpu
    BY <1>1, <2>2, <2>3, <2>4 DEF CallOf, InSyscall, LocalMove
  <2> QED BY <2>2, <2>4
<1>6. HartNesting'
  <2>1. UNCHANGED hartVars /\ pc[cpu] # "hang" /\ ~Masked(cpu)
        /\ (InSyscall(cpu)' <=> InSyscall(cpu))
    BY DEF LocalMove
  <2>2. UNCHANGED <<cpu, nest, mie, trapped>> /\ ~Masked(cpu)'
    BY <1>1, <2>1 DEF Masked, hartVars
  <2> QED BY <2>1, <2>2 DEF HartNesting, ControlInv
<1>7. Suspended'
  <2>1. trapped \subseteq Threads \ {cpu}
    BY DEF TypeInv, KernelType, HartType, LocalMove
  <2>2. UNCHANGED <<cpu, trapped, mpie, smie>>
    BY DEF LocalMove, hartVars
  <2>3. \A t \in Threads \ {cpu} : op'[t] = op[t]
    BY DEF LocalMove
  <2>4. \A t \in trapped : mpie'[t] = 1 /\ ~Masked(t)' /\ ~InSyscall(t)'
    BY <1>1, <2>1, <2>2, <2>3 DEF Suspended, ControlInv, Masked, InSyscall
  <2>5. \A t \in Born \ {cpu} :
           /\ smie'[t] = 0 /\ ~InSyscall(t)'
           /\ t \in trapped' \/ pc'[t] \in {"sw_en", "stub"}
    BY <1>1, <2>1, <2>2, <2>3 DEF Suspended, ControlInv, InSyscall, Born
  <2> QED BY <1>2, <2>2, <2>4, <2>5 DEF Suspended
<1>8. OwnStack'
  BY <1>1, <1>2 DEF OwnStack, Masked, ControlInv, LocalMove, hartVars
<1> QED BY <1>2, <1>3, <1>4, <1>5, <1>6, <1>7, <1>8 DEF ControlInv

(* What is filed stays filed among the threads that have been created.        *)
LEMMA FiledKept ==
    ASSUME FiledAreBorn, Born \subseteq Born', UNCHANGED <<ready, mwait, cwait>>
    PROVE  FiledAreBorn'
<1>1. Seq(Born) \subseteq Seq(Born')
  BY SeqMonotonic
<1> QED BY <1>1 DEF FiledAreBorn


-----------------------------------------------------------------------------
(* The actions that are local moves: those that file a thread and the others. *)
FilingAction ==
    \/ SwPut /\ UNCHANGED <<mutexVars, condVars>>
    \/ (LkPush \/ UlBody) /\ UNCHANGED condVars
    \/ WtUnlock \/ WtPush \/ NoPop
QuietAction ==
    \/ (CrOff \/ CrOn \/ SwOff \/ SwOn) /\ UNCHANGED <<mutexVars, condVars>>
    \/ (LkOff \/ LkTest \/ LkOwn \/ LkOn \/ TlFail \/ UlOff \/ UlOn)
       /\ UNCHANGED condVars
    \/ WtOff \/ WtOn \/ NaTest \/ NoOff \/ NoOn \/ JnTest \/ Exit \/ SlTest
LocalAction == FilingAction \/ QuietAction

LEMMA LocalActionMoves ==
    ASSUME TypeInv, ControlInv, LocalAction
    PROVE  LocalMove
<1> USE DEF LocalAction, FilingAction, QuietAction, PreemptionOff, PreemptionOn, ReturnLabel, ViaEcall,
      Switch, UnlockBody, Resume, CrOff, CrOn, SwOff, SwPut, SwOn, LkOff,
      LkTest, LkOwn, LkPush, LkOn, TlFail, UlOff, UlBody, UlOn, WtOff,
      WtUnlock, WtPush, WtOn, NaTest, NoOff, NoPop, NoOn, JnTest, Exit, SlTest
<1>1. \E k \in Labels \ {"none", "sw_run", "sw_ctx", "sw_en", "stub"} : Goto(k)
  BY SMTT(60) DEF At, TypeInv, KernelType, HartType, PcType, SwType, SwRets,
     ControlInv, SyscallLabels, CallOf, Labels, SwLabels, OffLabels, OnLabels
<1>2. CallOf(cpu)' /\ (InSyscall(cpu)' <=> InSyscall(cpu))
  BY SMTT(60) DEF At, Goto, hartVars, swVars, CallOf, InSyscall, BlockLabels,
     SwLabels, EcallOps, TypeInv, KernelType, HartType, PcType, OpType, SwType,
     SwRets, ControlInv, SyscallLabels
<1>3. pc'[cpu] \in Picked => pc[cpu] \in Picked
  BY SMTT(60) DEF At, Goto, Picked, TypeInv, KernelType, HartType, PcType, SwType,
     SwRets
<1>4. \A t \in Threads \ {cpu} : op'[t] = op[t] /\ swRet'[t] = swRet[t]
  BY SMTT(60) DEF swVars, TypeInv, KernelType, HartType, OpType, SwType
<1>5. \A t \in Threads : state'[t] = "INIT" => state[t] = "INIT"
  BY SMTT(60) DEF tcbVars, SwitchState, TypeInv, KernelType, TcbType
<1> QED
  BY <1>1, <1>2, <1>3, <1>4, <1>5, SMTT(60) DEF LocalMove, Masked, At, swVars

(* unlock resumes a thread that was filed with the mutex. *)
LEMMA UnlockFiles ==
    ASSUME TypeInv, FiledAreBorn, NEW m \in Mutexes, UnlockBody(m)
    PROVE  ready' \in Seq(Born) /\ mwait' \in [Mutexes -> Seq(Born)]
<1>1. CASE mwait[m] = <<>>
  BY <1>1 DEF UnlockBody, FiledAreBorn
<1>2. CASE mwait[m] # <<>>
  <2>1. mwait[m] \in Seq(Born)
    BY DEF FiledAreBorn
  <2>2. Head(mwait[m]) \in Born /\ Tail(mwait[m]) \in Seq(Born)
    BY <1>2, <2>1, HeadTailProperties
  <2>3. Append(ready, Head(mwait[m])) \in Seq(Born)
    BY <2>2, AppendProperties DEF FiledAreBorn
  <2> QED BY <1>2, <2>2, <2>3 DEF UnlockBody, Resume, FiledAreBorn
<1> QED BY <1>1, <1>2

LEMMA LocalActionFiles ==
    ASSUME TypeInv, HartInv, LocalAction
    PROVE  /\ ready' \in Seq(Born)
           /\ mwait' \in [Mutexes -> Seq(Born)]
           /\ cwait' \in [Conds -> Seq(Born)]
<1> USE DEF HartInv, ControlInv
<1>0. cpu \in Threads /\ cpu \in Born /\ mtx[cpu] \in Mutexes /\ cnd[cpu] \in Conds
  BY DEF OwnStack, TypeInv, KernelType, HartType, MutexType, CondType
<1>1. CASE SwPut /\ UNCHANGED <<mutexVars, condVars>>
  <2>1. cur[cpu] \in Born
    BY <1>0, <1>1 DEF SwPut, At, SwitchLocals, Picked
  <2> QED
    BY <1>1, <2>1, AppendProperties DEF SwPut, FiledAreBorn, mutexVars, condVars
<1>2. CASE LkPush /\ UNCHANGED condVars
  <2>1. running \in Born
    BY <1>0, <1>2 DEF LkPush, At, OwnStack
  <2>2. mwait[mtx[cpu]] \in Seq(Born)
    BY <1>0 DEF FiledAreBorn
  <2>3. Append(mwait[mtx[cpu]], running) \in Seq(Born)
    BY <2>1, <2>2, AppendProperties
  <2>4. /\ mwait' = [mwait EXCEPT ![mtx[cpu]] = Append(@, running)]
        /\ UNCHANGED <<ready, cwait>>
    BY <1>2 DEF LkPush, listVars, condVars
  <2> QED BY <2>3, <2>4 DEF FiledAreBorn
<1>3. CASE WtPush
  <2>1. running \in Born
    BY <1>0, <1>3 DEF WtPush, At, OwnStack
  <2>2. cwait[cnd[cpu]] \in Seq(Born)
    BY <1>0 DEF FiledAreBorn
  <2>3. Append(cwait[cnd[cpu]], running) \in Seq(Born)
    BY <2>1, <2>2, AppendProperties
  <2>4. /\ cwait' = [cwait EXCEPT ![cnd[cpu]] = Append(@, running)]
        /\ UNCHANGED <<ready, mwait>>
    BY <1>3 DEF WtPush, listVars, mutexVars
  <2> QED BY <2>3, <2>4 DEF FiledAreBorn
<1>4. CASE UlBody /\ UNCHANGED condVars
  BY <1>0, <1>4, UnlockFiles DEF UlBody, FiledAreBorn, condVars
<1>5. CASE WtUnlock
  BY <1>0, <1>5, UnlockFiles DEF WtUnlock, FiledAreBorn, condVars
<1>6. CASE NoPop
  <2> DEFINE queue == cwait[cnd[cpu]]
  <2>1. CASE queue = <<>>
    BY <1>6, <2>1 DEF NoPop, FiledAreBorn, mutexVars
  <2>2. CASE queue # <<>>
    <3>1. queue \in Seq(Born)
      BY <1>0 DEF FiledAreBorn
    <3>2. Head(queue) \in Born /\ Tail(queue) \in Seq(Born)
      BY <2>2, <3>1, HeadTailProperties
    <3>3. Append(ready, Head(queue)) \in Seq(Born)
      BY <3>2, AppendProperties DEF FiledAreBorn
    <3> QED BY <1>6, <2>2, <3>2, <3>3 DEF NoPop, Resume, FiledAreBorn, mutexVars
  <2> QED BY <2>1, <2>2
<1>7. CASE QuietAction
  <2>1. UNCHANGED <<ready, mwait, cwait>>
    BY <1>7, SMTT(60) DEF QuietAction, CrOff, CrOn, SwOff, SwOn, LkOff, LkTest,
       LkOwn, LkOn, TlFail, UlOff, UlOn, WtOff, WtOn, NaTest, NoOff, NoOn,
       JnTest, Exit, SlTest, listVars, mutexVars, condVars
  <2> QED BY <2>1 DEF FiledAreBorn
<1> QED
  BY <1>1, <1>2, <1>3, <1>4, <1>5, <1>6, <1>7 DEF LocalAction, FilingAction

(* The local actions keep the whole invariant. *)
LEMMA LocalInv ==
    ASSUME TypeInv, HartInv, LocalAction
    PROVE  HartInv'
<1>1. LocalMove
  BY LocalActionMoves DEF HartInv
<1>2. ControlInv' /\ Born' = Born
  BY <1>1, LocalStep DEF HartInv
<1> QED BY <1>2, LocalActionFiles DEF HartInv, FiledAreBorn

-----------------------------------------------------------------------------
(* A kernel call begins, directly or behind the ecall interface. *)
CallAction ==
    \/ (CallYield \/ CallCreate) /\ UNCHANGED <<mutexVars, condVars>>
    \/ (CallLock \/ CallTryLock \/ CallUnlock) /\ UNCHANGED condVars
    \/ CallWait \/ CallNotifyOne \/ CallNotifyAll
    \/ CallJoin \/ CallExit \/ CallSleep

EntryLabels == {"sw_off", "cr_off", "lk_off", "ul_off", "wt_off", "no_off", "na_test"}
Entry(o, e) ==
    /\ EnterCall(o, e)
    /\ e \in BlockLabels => ~(cpu \in Ecall /\ o \in EcallOps)
    /\ e = "sw_off" => swRet'[cpu] # "none"

LEMMA CallEnters ==
    ASSUME NonBlockingEcalls, TypeInv, CallAction
    PROVE  \E o \in Ops \ {"none"}, e \in EntryLabels : Entry(o, e)
<1> DEFINE Enters == \E o \in Ops \ {"none"}, e \in EntryLabels : Entry(o, e)
<1> USE DEF Entry, EntryLabels, Ops, EcallOps, BlockLabels, SwLabels
<1>1. CASE CallYield
  <2>1. EnterCall("yield", "sw_off") /\ cpu \notin Ecall /\ swRet'[cpu] = "return"
    BY <1>1 DEF CallYield, TypeInv, KernelType, HartType, SwType
  <2>2. Entry("yield", "sw_off")
    BY <2>1
  <2> QED BY <2>2
<1>2. CASE CallCreate
  BY <1>2 DEF CallCreate
<1>3. CASE CallLock
  <2>1. EnterCall("lock", "lk_off") /\ "lock" \in Calls[cpu]
    BY <1>3 DEF CallLock, EnterCall
  <2>2. cpu \notin Ecall
    BY <2>1 DEF NonBlockingEcalls
  <2>3. Entry("lock", "lk_off")
    BY <2>1, <2>2
  <2> QED BY <2>3
<1>4. CASE CallTryLock
  BY <1>4 DEF CallTryLock
<1>5. CASE CallUnlock
  BY <1>5 DEF CallUnlock
<1>6. CASE CallWait
  <2>1. EnterCall("wait", "wt_off") /\ "wait" \in Calls[cpu]
    BY <1>6 DEF CallWait, EnterCall
  <2>2. cpu \notin Ecall
    BY <2>1 DEF NonBlockingEcalls
  <2>3. Entry("wait", "wt_off")
    BY <2>1, <2>2
  <2> QED BY <2>3
<1>7. CASE CallNotifyOne
  BY <1>7 DEF CallNotifyOne
<1>8. CASE CallNotifyAll
  BY <1>8 DEF CallNotifyAll
<1>9. CASE CallJoin
  BY <1>9 DEF CallJoin
<1>10. CASE CallExit
  BY <1>10 DEF CallExit
<1>11. CASE CallSleep
  BY <1>11 DEF CallSleep
<1> QED
  BY <1>1, <1>2, <1>3, <1>4, <1>5, <1>6, <1>7, <1>8, <1>9, <1>10, <1>11
  DEF CallAction

LEMMA CallLeaves ==
    ASSUME TypeInv, CallAction
    PROVE  /\ UNCHANGED <<state, cur, nxt, ready, mwait, cwait>>
           /\ \A t \in Threads \ {cpu} : swRet'[t] = swRet[t]
<1> USE DEF CallAction, tcbVars, listVars, swVars, mutexVars, condVars
<1>1. UNCHANGED <<state, cur, nxt, ready, mwait, cwait>>
  BY SMTT(60) DEF CallYield, CallCreate, CallLock, CallTryLock, CallUnlock,
     CallWait, CallNotifyOne, CallNotifyAll, CallJoin, CallExit, CallSleep
<1>2. \A t \in Threads \ {cpu} : swRet'[t] = swRet[t]
  BY SMTT(60) DEF CallYield, CallCreate, CallLock, CallTryLock, CallUnlock,
     CallWait, CallNotifyOne, CallNotifyAll, CallJoin, CallExit, CallSleep,
     TypeInv, KernelType, SwType
<1> QED BY <1>1, <1>2

(* A direct call is a local move; an ecall opens one level, which nest, MPIE  *)
(* and the label record.                                                      *)
LEMMA CallInv ==
    ASSUME NonBlockingEcalls, TypeInv, HartInv, CallAction
    PROVE  HartInv'
<1> USE DEF HartInv, ControlInv
<1>1. PICK o \in Ops \ {"none"}, e \in EntryLabels : Entry(o, e)
  BY CallEnters
<1>2. /\ UNCHANGED <<state, cur, nxt, ready, mwait, cwait>>
      /\ \A t \in Threads \ {cpu} : swRet'[t] = swRet[t]
  BY CallLeaves
<1>3. /\ cpu \in Threads /\ cpu \in Born /\ cpu \notin trapped
      /\ pc[cpu] = "user" /\ op[cpu] = "none" /\ ~InSyscall(cpu)
      /\ pc'[cpu] = e /\ op'[cpu] = o
      /\ \A t \in Threads \ {cpu} : pc'[t] = pc[t] /\ op'[t] = op[t]
      /\ UNCHANGED <<cpu, running, ctx, smie, trapped>>
  BY <1>1 DEF Entry, EnterCall, At, Goto, TypeInv, KernelType, HartType, PcType,
     OpType, SyscallLabels, CallOf, OwnStack, InSyscall, EcallOps
<1>4. Born' = Born
  BY <1>1, <1>3 DEF Born, EntryLabels
<1>5. FiledAreBorn'
  BY <1>2, <1>4 DEF FiledAreBorn
<1>6. CASE ~(cpu \in Ecall /\ o \in EcallOps)
  <2>1. UNCHANGED hartVars
    BY <1>1, <1>6 DEF Entry, EnterCall, hartVars
  <2>2. ~InSyscall(cpu)' /\ CallOf(cpu)'
    BY <1>1, <1>3, <1>6 DEF InSyscall, CallOf, Entry, EntryLabels, SwLabels
  <2>3. e \in Labels \ {"none", "sw_run", "sw_ctx", "sw_en", "stub"} /\ Goto(e)
    BY <1>1 DEF Entry, EnterCall, EntryLabels, Labels, SwLabels, OnLabels
  <2>4. LocalMove
    BY <1>1, <1>2, <1>3, <2>1, <2>2, <2>3
    DEF LocalMove, Masked, Picked, EntryLabels
  <2> QED BY <1>5, <2>4, LocalStep
<1>7. CASE cpu \in Ecall /\ o \in EcallOps
  <2>1. nest = 0 /\ mie = 1
    BY <1>3 DEF HartNesting, Masked
  <2>2. nest' = 1 /\ mie' = 0 /\ mpie' = [mpie EXCEPT ![cpu] = 1]
    BY <1>1, <1>7, <2>1 DEF Entry, EnterCall
  <2>3. /\ mpie'[cpu] = 1
        /\ \A t \in Threads \ {cpu} : mpie'[t] = mpie[t]
    BY <1>3, <2>2 DEF TypeInv, KernelType, HartType
  <2>4. e \notin BlockLabels /\ e \in EntryLabels
    BY <1>1, <1>7 DEF Entry
  <2>5. UnbornIdle'
    BY <1>2, <1>3, <2>4 DEF UnbornIdle, EntryLabels, Born
  <2>6. SwitchLocals'
    BY <1>2, <1>3, <1>4, <2>4 DEF SwitchLocals, Picked, EntryLabels
  <2>7. SyscallLabels'
    <3>1. SUFFICES ASSUME NEW t \in Threads PROVE CallOf(t)'
      BY DEF SyscallLabels
    <3>2. CallOf(t)
      BY DEF SyscallLabels
    <3>3. CASE t = cpu
      BY <1>3, <1>7, <2>3, <2>4, <3>3
      DEF CallOf, InSyscall, EntryLabels, BlockLabels
    <3>4. CASE t # cpu
      BY <1>2, <1>3, <2>3, <3>2, <3>4 DEF CallOf, InSyscall
    <3> QED BY <3>3, <3>4
  <2>8. HartNesting'
    BY <1>3, <1>7, <2>2, <2>4 DEF HartNesting, Masked, InSyscall, EntryLabels
  <2>9. Suspended'
    BY <1>3, <1>4, <2>3 DEF Suspended, Masked, InSyscall, Born, TypeInv, KernelType,
       HartType
  <2>10. OwnStack'
    BY <1>3, <1>4, <2>4 DEF OwnStack, EntryLabels
  <2> QED BY <1>5, <2>5, <2>6, <2>7, <2>8, <2>9, <2>10
<1> QED BY <1>6, <1>7

-----------------------------------------------------------------------------
(* A step of the thread on the hart that may open or close a nesting level.   *)
HartMove ==
    /\ \A t \in Threads \ {cpu} : pc'[t] = pc[t] /\ op'[t] = op[t]
    /\ pc'[cpu] # "none"
    /\ pc'[cpu] \in Picked => pc[cpu] \in Picked
    /\ trapped' = trapped \ {cpu}
    /\ CallOf(cpu)' /\ HartNesting' /\ OwnStack'
    /\ UNCHANGED <<cpu, smie, mpie, state, swVars, ready, mwait, cwait>>

LEMMA HartStep ==
    ASSUME TypeInv, HartInv, HartMove
    PROVE  HartInv'
<1> USE DEF HartInv, ControlInv
<1>1. /\ cpu \in Threads /\ cpu \in Born /\ cpu' = cpu
      /\ UNCHANGED <<smie, mpie, state, swRet, cur, nxt, ready, mwait, cwait>>
      /\ trapped \subseteq Threads
  BY DEF HartMove, OwnStack, TypeInv, KernelType, HartType, swVars
<1>2. Born' = Born
  BY <1>1 DEF Born, HartMove
<1>3. FiledAreBorn'
  BY <1>1, <1>2 DEF FiledAreBorn
<1>4. UnbornIdle'
  BY <1>1 DEF UnbornIdle, HartMove, Born
<1>5. SwitchLocals'
  BY <1>1, <1>2 DEF SwitchLocals, HartMove
<1>6. SyscallLabels'
  <2>1. SUFFICES ASSUME NEW t \in Threads PROVE CallOf(t)'
    BY DEF SyscallLabels
  <2>2. CallOf(t)
    BY DEF SyscallLabels
  <2>3. CASE t # cpu
    BY <1>1, <2>2, <2>3 DEF CallOf, InSyscall, HartMove
  <2> QED BY <1>1, <2>3 DEF HartMove
<1>7. Suspended'
  BY <1>1, <1>2 DEF Suspended, Masked, InSyscall, HartMove, Born
<1> QED BY <1>3, <1>4, <1>5, <1>6, <1>7 DEF HartMove

LevelAction == Stub \/ SwDis \/ SwRun \/ SwEn \/ SysReturn \/ HandlerReturn

LEMMA LevelInv ==
    ASSUME TypeInv, HartInv, LevelAction, UNCHANGED <<mutexVars, condVars>>
    PROVE  HartInv'
<1> USE DEF HartInv, ControlInv
<1>1. cpu \in Threads /\ cpu \in Born /\ trapped \subseteq Threads
  BY DEF OwnStack, TypeInv, KernelType, HartType
<1>2. CallOf(cpu)
  BY <1>1 DEF SyscallLabels
<1>3. /\ UNCHANGED <<cpu, ctx, smie, mpie, state, swVars, ready, mwait, cwait>>
      /\ trapped' = trapped \ {cpu}
  BY DEF LevelAction, Stub, SwDis, SwRun, SwEn, SysReturn, HandlerReturn, At,
     tcbVars, listVars, mutexVars, condVars
<1>4. /\ \A t \in Threads \ {cpu} : pc'[t] = pc[t] /\ op'[t] = op[t]
      /\ pc'[cpu] # "none"
      /\ pc'[cpu] \in Picked => pc[cpu] \in Picked
  BY <1>1 DEF LevelAction, Stub, SwDis, SwRun, SwEn, SysReturn, HandlerReturn,
     At, Goto, Picked, TypeInv, KernelType, PcType, OpType, Born
<1>5. CallOf(cpu)'
  BY <1>1, <1>2, <1>3 DEF LevelAction, Stub, SwDis, SwRun, SwEn, SysReturn,
     HandlerReturn, At, Goto, CallOf, InSyscall, EcallOps, BlockLabels,
     SwLabels, swVars, TypeInv, KernelType, PcType, OpType
<1>6. OwnStack'
  <2>1. CASE SwRun
    BY <1>1, <1>3, <1>4, <2>1 DEF SwRun, At, Goto, OwnStack, swVars, Born,
       TypeInv, KernelType, PcType
  <2>2. CASE ~SwRun
    BY <1>1, <1>3, <1>4, <2>2 DEF LevelAction, Stub, SwDis, SwEn, SysReturn,
       HandlerReturn, At, Goto, OwnStack, Born, Suspended, Masked,
       TypeInv, KernelType, PcType
  <2> QED BY <2>1, <2>2
<1>7. HartNesting'
  <2>1. CASE Stub
    BY <1>1, <1>2, <2>1 DEF Stub, EnableInterrupts, At, Goto, HartNesting,
       Masked, InSyscall, CallOf, EcallOps, TypeInv, KernelType, HartType, PcType
  <2>2. CASE SwDis
    BY <1>1, <1>2, <2>2 DEF SwDis, DisableInterrupts, At, Goto, HartNesting,
       Masked, InSyscall, CallOf, BlockLabels, SwLabels, TypeInv, KernelType,
       HartType, PcType
  <2>3. CASE SwRun
    BY <1>1, <1>2, <2>3 DEF SwRun, At, Goto, HartNesting,
       Masked, InSyscall, TypeInv, KernelType, HartType, PcType
  <2>4. CASE SwEn
    BY <1>1, <1>2, <2>4 DEF SwEn, EnableInterrupts, At, Goto, HartNesting,
       Masked, InSyscall, CallOf, BlockLabels, SwLabels, TypeInv, KernelType,
       HartType, PcType
  <2>5. CASE SysReturn
    BY <1>1, <1>2, <2>5 DEF SysReturn, At, Goto, HartNesting, Masked,
       InSyscall, EcallOps, CallOf, TypeInv, KernelType, HartType, PcType, OpType
  <2>6. CASE HandlerReturn
    BY <1>1, <1>2, <2>6 DEF HandlerReturn, HartNesting, Masked, InSyscall,
       Suspended, TypeInv, KernelType, HartType, PcType
  <2> QED BY <2>1, <2>2, <2>3, <2>4, <2>5, <2>6 DEF LevelAction
<1> QED BY <1>3, <1>4, <1>5, <1>6, <1>7, HartStep DEF HartMove

-----------------------------------------------------------------------------
(* The pick of the next thread takes a created thread other than the current. *)
LEMMA PickInv ==
    ASSUME TypeInv, HartInv, SwPick, UNCHANGED <<mutexVars, condVars>>
    PROVE  HartInv'
<1> USE DEF HartInv, ControlInv
<1>1. /\ cpu \in Threads /\ cpu \in Born /\ running = cpu /\ pc[cpu] = "sw_pick"
      /\ cpu \notin trapped /\ trapped \subseteq Threads
      /\ UNCHANGED <<cpu, hartVars, smie, mpie, trapped, state, swRet, op, mwait, cwait>>
  BY DEF SwPick, At, OwnStack, TypeInv, KernelType, HartType, hartVars, tcbVars,
     mutexVars, condVars
<1>2. /\ \A t \in Threads \ {cpu} : pc'[t] = pc[t]
      /\ pc'[cpu] \in {"sw_on", "hang", "sw_put"}
  BY <1>1 DEF SwPick, Goto, TypeInv, KernelType, PcType
<1>3. Born' = Born
  BY <1>1, <1>2 DEF Born
<1>4. FiledAreBorn'
  <2>1. CASE ready = <<>>
    BY <1>1, <1>3, <2>1 DEF SwPick, FiledAreBorn
  <2>2. CASE ready # <<>>
    <3>1. Tail(ready) \in Seq(Born)
      BY <2>2, HeadTailProperties DEF FiledAreBorn
    <3> QED BY <1>1, <1>3, <2>2, <3>1 DEF SwPick, FiledAreBorn
  <2> QED BY <2>1, <2>2
<1>5. SwitchLocals'
  <2>1. CASE ready = <<>>
    BY <1>1, <1>2, <1>3, <2>1 DEF SwPick, Goto, SwitchLocals, Picked, TypeInv,
       KernelType, PcType
  <2>2. CASE ready # <<>>
    <3>1. Head(ready) \in Born
      BY <2>2, HeadTailProperties DEF FiledAreBorn
    <3>2. /\ \A t \in Threads \ {cpu} : cur'[t] = cur[t] /\ nxt'[t] = nxt[t]
          /\ cur'[cpu] = cpu /\ nxt'[cpu] = Head(ready)
          /\ pc'[cpu] = "sw_put" => Head(ready) # cpu
      BY <1>1, <2>2 DEF SwPick, Goto, TypeInv, KernelType, PcType, SwType
    <3> QED BY <1>1, <1>2, <1>3, <3>1, <3>2 DEF SwitchLocals, Picked
  <2> QED BY <2>1, <2>2
<1>6. UnbornIdle'
  BY <1>1, <1>2 DEF UnbornIdle, Born
<1>7. SyscallLabels'
  BY <1>1, <1>2 DEF SyscallLabels, CallOf, InSyscall, BlockLabels, SwLabels
<1>8. HartNesting'
  BY <1>1, <1>2 DEF HartNesting, Masked, InSyscall, hartVars
<1>9. Suspended'
  BY <1>1, <1>2, <1>3 DEF Suspended, Masked, InSyscall, Born
<1>10. OwnStack'
  BY <1>1, <1>2, <1>3 DEF OwnStack, hartVars
<1> QED BY <1>4, <1>5, <1>6, <1>7, <1>8, <1>9, <1>10

(* A new thread is filed with a frame that opens one level, as if it had been *)
(* switched away from.                                                        *)
LEMMA CreateInv ==
    ASSUME TypeInv, HartInv, CrNew, UNCHANGED <<mutexVars, condVars>>
    PROVE  HartInv'
<1> USE DEF HartInv, ControlInv
<1>1. /\ cpu \in Threads /\ cpu \in Born /\ running = cpu /\ pc[cpu] = "cr_new"
      /\ cpu \notin trapped /\ trapped \subseteq Threads
      /\ UNCHANGED <<hartVars, cpu, smie, mpie, trapped, swRet, cur, nxt, op, mwait, cwait>>
  BY DEF CrNew, At, OwnStack, TypeInv, KernelType, HartType, hartVars, swVars,
     mutexVars, condVars
<1>2. CASE ~\E t \in Threads : state[t] = "INIT"
  <2>1. Goto("cr_on") /\ UNCHANGED <<state, ready>>
    BY <1>2 DEF CrNew
  <2>2. CallOf(cpu)' /\ (InSyscall(cpu)' <=> InSyscall(cpu))
    BY <1>1, <2>1 DEF Goto, CallOf, InSyscall, BlockLabels, SwLabels,
       SyscallLabels, TypeInv, KernelType, PcType
  <2>3. LocalMove
    BY <1>1, <2>1, <2>2 DEF LocalMove, Goto, Masked, Picked, Labels, OffLabels,
       TypeInv, KernelType, PcType
  <2> QED BY <1>1, <2>1, <2>3, LocalStep, FiledKept
<1>3. CASE \E t \in Threads : state[t] = "INIT"
  <2>1. PICK new \in Threads :
          /\ state[new] = "INIT"
          /\ state' = [state EXCEPT ![new] = "READY"]
          /\ ready' = Append(ready, new)
          /\ pc' = [pc EXCEPT ![new] = "stub", ![cpu] = "cr_on"]
    BY <1>3 DEF CrNew
  <2>2. /\ new # cpu /\ pc[new] = "none" /\ smie[new] = 0 /\ new \notin trapped
        /\ op[new] = "none"
    BY <1>1, <2>1 DEF UnbornIdle, Born
  <2>3. /\ pc'[new] = "stub" /\ pc'[cpu] = "cr_on"
        /\ \A t \in Threads \ {cpu, new} : pc'[t] = pc[t]
    BY <1>1, <2>1, <2>2 DEF TypeInv, KernelType, PcType
  <2>4. Born' = Born \cup {new}
    BY <1>1, <2>2, <2>3 DEF Born
  <2>5. FiledAreBorn'
    <3>1. Append(ready, new) \in Seq(Born')
      BY <2>4, SeqMonotonic, AppendProperties DEF FiledAreBorn
    <3>2. Seq(Born) \subseteq Seq(Born')
      BY <2>4, SeqMonotonic
    <3> QED BY <1>1, <2>1, <3>1, <3>2 DEF FiledAreBorn
  <2>6. UnbornIdle'
    BY <1>1, <2>1, <2>2, <2>3 DEF UnbornIdle, TypeInv, KernelType, TcbType
  <2>7. SwitchLocals'
    BY <1>1, <2>3, <2>4 DEF SwitchLocals, Picked
  <2>8. SyscallLabels'
    BY <1>1, <2>2, <2>3 DEF SyscallLabels, CallOf, InSyscall, EcallOps,
       BlockLabels, SwLabels
  <2>9. HartNesting'
    BY <1>1, <2>3 DEF HartNesting, Masked, InSyscall, hartVars
  <2>10. Suspended'
    BY <1>1, <2>2, <2>3, <2>4 DEF Suspended, Masked, InSyscall, EcallOps, Born
  <2>11. OwnStack'
    BY <1>1, <2>3, <2>4 DEF OwnStack, hartVars
  <2> QED BY <2>5, <2>6, <2>7, <2>8, <2>9, <2>10, <2>11
<1> QED BY <1>2, <1>3

(* The switch itself: the next thread was left with one level open, and that  *)
(* is the level the current one hands over.                                   *)
LEMMA SwitchInv ==
    ASSUME TypeInv, HartInv, SwCtx, UNCHANGED <<mutexVars, condVars>>
    PROVE  HartInv'
<1> USE DEF HartInv, ControlInv
<1> DEFINE next == nxt[cpu]
<1>1. /\ cpu \in Threads /\ cpu \in Born /\ running = next /\ pc[cpu] = "sw_ctx"
      /\ cpu \notin trapped /\ trapped \subseteq Threads
      /\ cur[cpu] = cpu /\ next \in Born \ {cpu} /\ next \in Threads
      /\ ~InSyscall(cpu) /\ nest = 1 /\ mie = 0
  BY DEF SwCtx, At, OwnStack, SwitchLocals, Picked, Born, HartNesting, Masked,
     SyscallLabels, CallOf, BlockLabels, SwLabels, TypeInv, KernelType, HartType
<1>2. /\ ctx[next] = next /\ smie[next] = 0 /\ ~InSyscall(next)
      /\ next \in trapped \/ pc[next] \in {"sw_en", "stub"}
      /\ next \in trapped => ~Masked(next)
  BY <1>1 DEF OwnStack, Suspended
<1>3. /\ cpu' = next /\ mie' = 0 /\ UNCHANGED <<running, nest, mpie, trapped>>
      /\ ctx' = [ctx EXCEPT ![cpu] = cpu] /\ smie' = [smie EXCEPT ![cpu] = 0]
      /\ UNCHANGED <<state, swRet, op, ready, mwait, cwait>>
  BY <1>1, <1>2 DEF SwCtx, tcbVars, listVars, mutexVars, condVars
<1>4. /\ \A t \in Threads \ {cpu} : /\ pc'[t] = pc[t] /\ smie'[t] = smie[t]
                                  /\ cur'[t] = cur[t] /\ nxt'[t] = nxt[t]
      /\ pc'[cpu] = "sw_en" /\ smie'[cpu] = 0
      /\ \A t \in Threads : ctx'[t] = t
  BY <1>1, <1>3 DEF SwCtx, Goto, OwnStack, TypeInv, KernelType, HartType, PcType,
     SwType
<1>5. Born' = Born
  BY <1>1, <1>4 DEF Born
<1>6. FiledAreBorn'
  BY <1>3, <1>5 DEF FiledAreBorn
<1>7. UnbornIdle'
  BY <1>1, <1>3, <1>4 DEF UnbornIdle, Born
<1>8. SwitchLocals'
  BY <1>4, <1>5 DEF SwitchLocals, Picked
<1>9. SyscallLabels'
  BY <1>1, <1>3, <1>4 DEF SyscallLabels, CallOf, InSyscall, BlockLabels, SwLabels
<1>10. HartNesting'
  BY <1>1, <1>2, <1>3, <1>4 DEF HartNesting, Masked, InSyscall
<1>11. Suspended'
  BY <1>1, <1>3, <1>4, <1>5 DEF Suspended, Masked, InSyscall, Born
<1>12. OwnStack'
  BY <1>1, <1>2, <1>3, <1>4, <1>5 DEF OwnStack, Masked
<1> QED BY <1>6, <1>7, <1>8, <1>9, <1>10, <1>11, <1>12

-----------------------------------------------------------------------------
(* A handler that yields: with interrupts on no level is open, and the        *)
(* handler itself opens the one that the next thread was left with.           *)
LEMMA HandlerInv ==
    ASSUME TypeInv, ControlInv, mwait \in [Mutexes -> Seq(Born)],
           NEW rdy \in Seq(Born), NEW st \in [Threads -> States],
           InInterruptYield(rdy, st), mie = 1,
           cwait' \in [Conds -> Seq(Born)],
           \A t \in Threads : st[t] = "INIT" => state[t] = "INIT",
           UNCHANGED <<swVars, op, mwait>>
    PROVE  HartInv'
<1> USE DEF HartInv, ControlInv
<1>1. /\ cpu \in Threads /\ cpu \in Born /\ trapped \subseteq Threads
      /\ nest = 0 /\ cpu \notin trapped /\ ~Masked(cpu) /\ ~InSyscall(cpu)
      /\ running = cpu
  BY DEF OwnStack, HartNesting, Masked, InSyscall, TypeInv, KernelType, HartType
<1>2. UNCHANGED <<swRet, cur, nxt, op, mwait>>
  BY DEF swVars
<1>3. CASE ~AllowPreemption \/ rdy = <<>>
  <2>1. ready' = rdy /\ state' = st /\ UNCHANGED <<hartVars, pc>>
    BY <1>3 DEF InInterruptYield
  <2>2. Born' = Born /\ UNCHANGED <<cpu, running, nest, mie, ctx, smie, mpie, trapped, pc>>
    BY <2>1 DEF Born, hartVars
  <2>3. FiledAreBorn'
    BY <1>2, <2>1, <2>2 DEF FiledAreBorn
  <2>4. UnbornIdle' /\ SwitchLocals'
    BY <1>2, <2>1, <2>2 DEF UnbornIdle, SwitchLocals
  <2>5. SyscallLabels'
    BY <1>2, <2>2 DEF SyscallLabels, CallOf, InSyscall
  <2>6. HartNesting' /\ Suspended' /\ OwnStack'
    BY <1>2, <2>2 DEF HartNesting, Suspended, OwnStack, Masked, InSyscall
  <2> QED BY <2>3, <2>4, <2>5, <2>6
<1>4. CASE ~(~AllowPreemption \/ rdy = <<>>)
  <2> DEFINE next == Head(rdy)
  <2>1. next \in Born /\ next \in Threads /\ Tail(rdy) \in Seq(Born)
    BY <1>4, HeadTailProperties DEF Born
  <2>2. /\ state' = [st EXCEPT ![cpu] = "READY", ![next] = "RUNNING"]
        /\ ready' = Append(Tail(rdy), cpu)
    BY <1>1, <1>4 DEF InInterruptYield
  <2>3. ready' \in Seq(Born)
    BY <1>1, <2>1, <2>2, AppendProperties
  <2>4. \A t \in Threads : state'[t] = "INIT" => state[t] = "INIT"
    BY <1>1, <2>1, <2>2
  <2>5. CASE next = cpu
    <3>1. /\ mie' = 0 /\ Goto("hang")
          /\ UNCHANGED <<cpu, running, nest, ctx, smie, mpie, trapped>>
      BY <1>1, <1>4, <2>5 DEF InInterruptYield
    <3>2. pc'[cpu] = "hang" /\ \A t \in Threads \ {cpu} : pc'[t] = pc[t]
      BY <1>1, <3>1 DEF Goto, TypeInv, KernelType, PcType
    <3>3. Born' = Born
      BY <1>1, <3>2 DEF Born
    <3>4. FiledAreBorn'
      BY <1>2, <2>3, <3>3 DEF FiledAreBorn
    <3>5. UnbornIdle' /\ SwitchLocals'
      BY <1>1, <1>2, <2>4, <3>1, <3>2, <3>3 DEF UnbornIdle, SwitchLocals, Picked,
         Born
    <3>6. SyscallLabels'
      BY <1>1, <1>2, <3>1, <3>2 DEF SyscallLabels, CallOf, InSyscall,
         BlockLabels, SwLabels
    <3>7. HartNesting' /\ OwnStack'
      BY <1>1, <1>2, <3>1, <3>2, <3>3 DEF HartNesting, OwnStack, Masked, InSyscall
    <3>8. Suspended'
      BY <1>1, <1>2, <3>1, <3>2, <3>3 DEF Suspended, Masked, InSyscall, Born
    <3> QED BY <3>4, <3>5, <3>6, <3>7, <3>8
  <2>6. CASE next # cpu
    <3>1. /\ ctx[next] = next /\ smie[next] = 0 /\ ~InSyscall(next)
          /\ next \in trapped \/ pc[next] \in {"sw_en", "stub"}
          /\ next \in trapped => ~Masked(next)
      BY <2>1, <2>6 DEF OwnStack, Suspended
    <3>2. /\ running' = next /\ cpu' = next /\ mie' = 0 /\ nest' = 1
          /\ ctx' = [ctx EXCEPT ![cpu] = cpu]
          /\ mpie' = [mpie EXCEPT ![cpu] = 1]
          /\ smie' = [smie EXCEPT ![cpu] = 0]
          /\ trapped' = trapped \cup {cpu}
          /\ UNCHANGED pc
      BY <1>1, <1>4, <2>6, <3>1 DEF InInterruptYield
    <3>3. /\ \A t \in Threads \ {cpu} : mpie'[t] = mpie[t] /\ smie'[t] = smie[t]
          /\ mpie'[cpu] = 1 /\ smie'[cpu] = 0
          /\ \A t \in Threads : ctx'[t] = t
      BY <1>1, <3>2 DEF OwnStack, TypeInv, KernelType, HartType
    <3>4. Born' = Born
      BY <3>2 DEF Born
    <3>5. FiledAreBorn'
      BY <1>2, <2>3, <3>4 DEF FiledAreBorn
    <3>6. UnbornIdle' /\ SwitchLocals'
      BY <1>1, <1>2, <2>4, <3>2, <3>3, <3>4 DEF UnbornIdle, SwitchLocals, Born
    <3>7. SyscallLabels'
      BY <1>1, <1>2, <3>2, <3>3 DEF SyscallLabels, CallOf, InSyscall
    <3>8. HartNesting'
      BY <1>2, <2>1, <2>6, <3>1, <3>2 DEF HartNesting, Masked, InSyscall
    <3>9. Suspended'
      BY <1>1, <1>2, <3>2, <3>3, <3>4 DEF Suspended, Masked, InSyscall
    <3>10. OwnStack'
      BY <2>1, <3>1, <3>2, <3>3, <3>4 DEF OwnStack, Masked
    <3> QED BY <3>5, <3>6, <3>7, <3>8, <3>9, <3>10
  <2> QED BY <2>5, <2>6
<1> QED BY <1>3, <1>4

LEMMA YieldInv ==
    ASSUME TypeInv, HartInv, EcallYield, UNCHANGED <<mutexVars, condVars>>
    PROVE  HartInv'
<1> USE DEF HartInv, ControlInv
<1>1. mie = 1
  BY DEF EcallYield, At, HartNesting, Masked, SyscallLabels, CallOf, InSyscall,
     EcallOps, TypeInv, KernelType, HartType
<1>2. /\ InInterruptYield(ready, state) /\ ready \in Seq(Born)
      /\ state \in [Threads -> States] /\ mwait \in [Mutexes -> Seq(Born)]
      /\ cwait' \in [Conds -> Seq(Born)]
      /\ UNCHANGED <<swVars, op, mwait>>
  BY DEF EcallYield, FiledAreBorn, TypeInv, KernelType, TcbType, mutexVars, condVars
<1> QED BY <1>1, <1>2, HandlerInv

LEMMA DeviceInv ==
    ASSUME TypeInv, HartInv, DeviceInterrupt
    PROVE  HartInv'
<1>1. /\ mie = 1 /\ InInterruptYield(ready, state) /\ ready \in Seq(Born)
      /\ state \in [Threads -> States] /\ mwait \in [Mutexes -> Seq(Born)]
      /\ cwait' \in [Conds -> Seq(Born)]
      /\ UNCHANGED <<swVars, op, mwait>>
  BY DEF DeviceInterrupt, HartInv, FiledAreBorn, TypeInv, KernelType, TcbType,
     mutexVars, condVars
<1> QED BY <1>1, HandlerInv DEF HartInv

LEMMA InterruptInv ==
    ASSUME TypeInv, HartInv, TimerInterrupt
    PROVE  HartInv'
<1> USE DEF HartInv, ControlInv
<1> DEFINE woken == cwait[SleepCond]
           st == [t \in Threads |-> IF \E i \in DOMAIN woken : woken[i] = t
                                    THEN "READY" ELSE state[t]]
<1>1. mie = 1 /\ InInterruptYield(ready \o woken, st)
  BY DEF TimerInterrupt
<1>2. woken \in Seq(Born)
  BY SleepIn DEF FiledAreBorn
<1>3. ready \o woken \in Seq(Born)
  BY <1>2, ConcatProperties DEF FiledAreBorn
<1>4. /\ st \in [Threads -> States]
      /\ \A t \in Threads : st[t] = "INIT" => state[t] = "INIT"
  BY DEF TypeInv, KernelType, TcbType, States
<1>5. cwait' \in [Conds -> Seq(Born)]
  BY EmptySeq DEF TimerInterrupt, FiledAreBorn
<1>6. mwait \in [Mutexes -> Seq(Born)] /\ UNCHANGED <<swVars, op, mwait>>
  BY DEF TimerInterrupt, FiledAreBorn, mutexVars
<1> HIDE DEF woken, st
<1> QED BY <1>1, <1>3, <1>4, <1>5, <1>6, HandlerInv

(* A tear changes no thread's place in the code, unless it hangs there.       *)
LEMMA TearInv ==
    ASSUME TypeInv, HartInv, Tear
    PROVE  HartInv'
<1> USE DEF HartInv, ControlInv
<1>1. UNCHANGED <<hartVars, tcbVars, swVars, op, mwait>>
  BY DEF Tear, mutexVars
<1>2. \/ UNCHANGED pc
      \/ /\ pc[cpu] = "cr_new" /\ mie = 1
         /\ pc' = [pc EXCEPT ![cpu] = "hang"]
  BY DEF Tear, WakeTears, GrowthTears, MoveTears, At, Goto
<1>3. Born' = Born
  BY <1>2 DEF Born, TypeInv, KernelType, PcType, HartType
<1>4. FiledAreBorn'
  <2>1. ready' \in Seq(Born) /\ cwait' \in [Conds -> Seq(Born)]
    <3>1. CASE WakeTears
      <4>1. ready \in Seq(Born) /\ cwait[SleepCond] \in Seq(Born)
        BY SleepIn DEF FiledAreBorn
      <4>2. ready' \in Seq(Born)
        BY <3>1, <4>1, TornFiling DEF WakeTears
      <4> QED BY <3>1, <4>2, EmptySeq DEF WakeTears, FiledAreBorn
    <3>2. CASE GrowthTears \/ MoveTears
      BY <3>2 DEF GrowthTears, MoveTears, FiledAreBorn
    <3> QED BY <3>1, <3>2 DEF Tear
  <2> QED BY <1>1, <1>3, <2>1 DEF FiledAreBorn
<1> USE <1>1, <1>2 DEF hartVars, tcbVars, swVars, TypeInv, KernelType, PcType, HartType
<1>5. UnbornIdle' /\ SwitchLocals'
  BY <1>3 DEF UnbornIdle, SwitchLocals, Picked
<1>6. SyscallLabels'
  BY DEF SyscallLabels, CallOf, InSyscall, BlockLabels, SwLabels
<1>7. HartNesting'
  BY DEF HartNesting, Masked, InSyscall
<1>8. Suspended'
  <2>1. \A t \in Threads : /\ Masked(t)' => Masked(t)
                           /\ InSyscall(t)' <=> InSyscall(t)
                           /\ pc[t] \in {"sw_en", "stub"} => pc'[t] = pc[t]
    BY DEF Masked, InSyscall
  <2>2. UNCHANGED <<cpu, trapped, mpie, smie>>
    OBVIOUS
  <2>3. trapped \subseteq Threads /\ Born \subseteq Threads
    BY DEF Born
  <2>4. Suspended
    OBVIOUS
  <2> QED BY <1>3, <2>1, <2>2, <2>3, <2>4 DEF Suspended
<1>9. OwnStack'
  BY <1>3 DEF OwnStack
<1> QED BY <1>4, <1>5, <1>6, <1>7, <1>8, <1>9

-----------------------------------------------------------------------------
LEMMA InitInv == Init => HartInv
<1> SUFFICES ASSUME Init PROVE HartInv
  OBVIOUS
<1> DEFINE first == Head(Boot)
           born  == {Boot[i] : i \in DOMAIN Boot}
<1>1. Boot \in Seq(Threads) /\ Boot # <<>>
  BY BootAssumption
<1>2. born \subseteq Threads /\ Boot \in Seq(born) /\ first \in born
  BY <1>1
<1>3. Tail(Boot) \in Seq(born)
  BY <1>1, <1>2, HeadTailProperties
<1>4. pc = [t \in Threads |-> IF t \in born THEN "stub" ELSE "none"]
  BY DEF Init, SchedInit
<1> HIDE DEF born, first
<1>5. Born = born
  BY <1>2, <1>4 DEF Born
<1>6. FiledAreBorn
  BY <1>3, <1>5, EmptySeq
  DEF Init, SchedInit, MutexInit, CondInit, FiledAreBorn
<1>7. cpu = first /\ running = first /\ cpu \in Threads /\ pc[cpu] = "stub"
  BY <1>2, <1>4 DEF Init, SchedInit, first
<1>8. \A t \in Threads : state[t] = "INIT" => t \notin born
  BY <1>2 DEF Init, SchedInit, first, born
<1>9. UnbornIdle
  BY <1>4, <1>8 DEF Init, SchedInit, UnbornIdle
<1>10. SwitchLocals /\ SyscallLabels
  BY <1>4 DEF Init, SchedInit, SwitchLocals, Picked, SyscallLabels, CallOf,
     BlockLabels, SwLabels, InSyscall, EcallOps
<1>11. HartNesting
  BY <1>7 DEF Init, SchedInit, HartNesting, Masked, InSyscall, EcallOps
<1>12. Suspended
  BY <1>4, <1>5, <1>2 DEF Init, SchedInit, Suspended, InSyscall, EcallOps
<1>13. OwnStack
  BY <1>2, <1>5, <1>7 DEF Init, SchedInit, OwnStack
<1> QED
  BY <1>6, <1>9, <1>10, <1>11, <1>12, <1>13 DEF HartInv, ControlInv

LEMMA NextInv ==
    NonBlockingEcalls /\ TypeInv /\ HartInv /\ [Next]_vars => HartInv'
<1> SUFFICES ASSUME NonBlockingEcalls, TypeInv, HartInv, [Next]_vars
             PROVE  HartInv'
  OBVIOUS
<1> USE LocalInv, CallInv DEF LocalAction, FilingAction, QuietAction, CallAction
<1>1. CASE SchedStep /\ UNCHANGED <<mutexVars, condVars, timerVars, tgt>>
  <2>1. UNCHANGED <<mutexVars, condVars>>
    BY <1>1
  <2>2. CASE SwitchStep
    BY <2>1, <2>2, PickInv, SwitchInv, LevelInv DEF SwitchStep, LevelAction
  <2>3. CASE CreateStep
    BY <2>1, <2>3, CreateInv DEF CreateStep
  <2>4. CASE Stub \/ SysReturn \/ HandlerReturn
    BY <2>1, <2>4, LevelInv DEF LevelAction
  <2>5. CASE CallYield \/ EcallYield
    BY <2>1, <2>5, YieldInv
  <2> QED BY <1>1, <2>2, <2>3, <2>4, <2>5 DEF SchedStep
<1>2. CASE MutexStep /\ UNCHANGED <<condVars, timerVars, tgt>>
  BY <1>2 DEF MutexStep, LockStep, UnlockStep
<1>3. CASE CondStep
  BY <1>3 DEF CondStep, WaitStep, NotifyStep
<1>4. CASE JoinStep \/ ExitStep \/ SleepStep
  BY <1>4 DEF JoinStep, ExitStep, SleepStep
<1>5. CASE TimerInterrupt \/ DeviceInterrupt
  BY <1>5, InterruptInv, DeviceInv
<1>6. CASE UNCHANGED vars
  <2>1. UNCHANGED <<hartVars, tcbVars, listVars, swVars, pc, op, mwait, cwait>>
    BY <1>6 DEF vars, schedVars, mutexVars, condVars
  <2> USE <2>1 DEF HartInv, ControlInv, hartVars, tcbVars, listVars, swVars
  <2>2. Born' = Born
    BY DEF Born
  <2>3. FiledAreBorn' /\ UnbornIdle' /\ SwitchLocals'
    BY <2>2 DEF FiledAreBorn, UnbornIdle, SwitchLocals
  <2>4. SyscallLabels'
    BY DEF SyscallLabels, CallOf, InSyscall
  <2>5. HartNesting' /\ Suspended' /\ OwnStack'
    BY <2>2 DEF HartNesting, Suspended, OwnStack, Masked, InSyscall
  <2> QED BY <2>3, <2>4, <2>5
<1>7. CASE Tear
  BY <1>7, TearInv
<1> QED BY <1>1, <1>2, <1>3, <1>4, <1>5, <1>6, <1>7 DEF Next, WholeStep, ThreadStep

(* If no code blocks inside a system call, every suspended thread keeps its   *)
(* own stack and one open level (context_switch, nest_critical_cnt).          *)
THEOREM HartCorrect == NonBlockingEcalls => (Spec => []HartInv)
<1> SUFFICES ASSUME NonBlockingEcalls PROVE Spec => []HartInv
  OBVIOUS
<1>1. Init => TypeInv /\ HartInv
  BY InitType, InitInv
<1>2. TypeInv /\ HartInv /\ [Next]_vars => TypeInv' /\ HartInv'
  BY NextType, NextInv
<1> QED BY <1>1, <1>2, PTL DEF Spec

(* No thread is ever continued on another thread's stack. *)
THEOREM StacksOwned == NonBlockingEcalls => (Spec => []StackOwnership)
<1> SUFFICES ASSUME NonBlockingEcalls PROVE Spec => []StackOwnership
  OBVIOUS
<1>1. HartInv => StackOwnership
  BY DEF HartInv, ControlInv, OwnStack, StackOwnership
<1> QED BY <1>1, HartCorrect, PTL

(* Application code always runs with interrupts on and no level open. *)
THEOREM UserCodeInterruptible == NonBlockingEcalls => (Spec => []UserInterruptible)
<1> SUFFICES ASSUME NonBlockingEcalls PROVE Spec => []UserInterruptible
  OBVIOUS
<1>1. TypeInv /\ HartInv => UserInterruptible
  BY DEF TypeInv, KernelType, HartType, HartInv, ControlInv, HartNesting, Masked,
     InSyscall, EcallOps, SyscallLabels, CallOf, UserInterruptible, At
<1>2. Spec => []TypeInv
  BY InitType, NextType, PTL DEF Spec
<1> QED BY <1>1, <1>2, HartCorrect, PTL

-----------------------------------------------------------------------------
(* setPreemption counts in the control block of running_thread_id_, and every *)
(* off has its on in the same block: proved from HartInv, by which            *)
(* running_thread_id_ is the thread on the hart wherever the kernel counts.   *)
(* A count p fits the label l and the place r a switch will return to.        *)
Depth(l, r) ==
    (IF l \in OffLabels \/ r \in {"lk_on", "wt_on"} THEN 1 ELSE 0)
    + (IF l \in SwLabels \ {"sw_off"} THEN 1 ELSE 0)
Fits(l, r, p) ==
    /\ l # "hang" => p = 1 - Depth(l, r)
    /\ l \notin SwLabels \cup {"hang"} => r = "none"

(* What is true of every thread between any two steps: its count is what the  *)
(* calls it is in have made it, it has a place to return to only inside a     *)
(* switch, only a preemptible thread is preempted, and a failed assertion     *)
(* stops the machine for good.                                                *)
Counted(t) ==
    /\ Fits(pc[t], swRet[t], preempt[t])
    /\ t \in trapped => preempt[t] > 0 /\ pc[t] # "hang"
    /\ pc[t] = "hang" => t = cpu /\ (preempt[t] <= 0 \/ mie = 0)
CountInv == \A t \in Threads : Counted(t)

-----------------------------------------------------------------------------
(* The types and the facts about the hart that the steps below use.           *)
CountTypes ==
    /\ cpu \in Threads /\ trapped \subseteq Threads
    /\ pc \in [Threads -> Labels] /\ swRet \in [Threads -> SwRets]
    /\ preempt \in [Threads -> Int]
LEMMA Counting ==
    ASSUME TypeInv, HartInv, CountInv
    PROVE  /\ CountTypes
           /\ Fits(pc[cpu], swRet[cpu], preempt[cpu])
           /\ pc[cpu] # "sw_ctx" => running = cpu
BY DEF TypeInv, KernelType, HartType, PcType, SwType, TcbType, CountTypes,
   CountInv, Counted, HartInv, ControlInv, OwnStack

(* A step that counts for the thread on the hart alone, and counts right.     *)
Alone ==
    /\ pc[cpu] # "hang" /\ cpu \notin trapped /\ trapped' = trapped
    /\ \A t \in Threads \ {cpu} :
          pc'[t] = pc[t] /\ swRet'[t] = swRet[t] /\ preempt'[t] = preempt[t]
    /\ Fits(pc'[cpu], swRet'[cpu], preempt'[cpu])
    /\ pc'[cpu] = "hang" => cpu' = cpu /\ preempt'[cpu] <= 0

LEMMA AloneKeeps ==
    ASSUME CountInv, Alone
    PROVE  CountInv'
<1>1. SUFFICES ASSUME NEW t \in Threads PROVE Counted(t)'
  BY DEF CountInv
<1>2. CASE t = cpu
  BY <1>2 DEF Alone, Counted
<1>3. CASE t # cpu
  BY <1>3 DEF Alone, CountInv, Counted
<1> QED BY <1>2, <1>3

-----------------------------------------------------------------------------
(* The steps that turn preemption off, and the labels they do it at.          *)
OffAction == SwOff \/ CrOff \/ LkOff \/ UlOff \/ WtOff \/ NoOff

LEMMA OffCounts ==
    ASSUME TypeInv, HartInv, CountInv, OffAction
    PROVE  CountInv'
<1> USE DEF Fits, Depth, OffLabels, SwLabels
<1>0. /\ CountTypes /\ Fits(pc[cpu], swRet[cpu], preempt[cpu])
      /\ pc[cpu] # "sw_ctx" => running = cpu
  BY Counting
<1>1. /\ pc[cpu] \in {"sw_off", "cr_off", "lk_off", "ul_off", "wt_off", "no_off"}
      /\ cpu \notin trapped
  BY DEF OffAction, SwOff, CrOff, LkOff, UlOff, WtOff, NoOff, At
<1>2. \E l \in OffLabels \cup {"sw_pick"} : 
         PreemptionOff(l) /\ (l = "sw_pick" <=> pc[cpu] = "sw_off")
  BY DEF OffAction, SwOff, CrOff, LkOff, UlOff, WtOff, NoOff, At
<1>3. UNCHANGED <<swRet, trapped>>
  BY DEF OffAction, SwOff, CrOff, LkOff, UlOff, WtOff, NoOff, hartVars, swVars
<1>4. PICK l \in OffLabels \cup {"sw_pick"} :
         PreemptionOff(l) /\ (l = "sw_pick" <=> pc[cpu] = "sw_off")
  BY <1>2
<1>5. /\ pc' = [pc EXCEPT ![cpu] = l]
      /\ preempt' = [preempt EXCEPT ![cpu] = preempt[cpu] - 1]
  BY <1>0, <1>1, <1>4 DEF PreemptionOff, Goto
<1>6. pc'[cpu] = l /\ preempt'[cpu] = preempt[cpu] - 1 /\ swRet'[cpu] = swRet[cpu]
  BY <1>0, <1>3, <1>5 DEF CountTypes
<1>7. Fits(l, swRet[cpu], preempt[cpu] - 1)
  BY <1>0, <1>1, <1>4 DEF CountTypes, SwRets
<1>8. Alone
  BY <1>0, <1>1, <1>3, <1>5, <1>6, <1>7 DEF Alone, CountTypes
<1> QED BY <1>8, AloneKeeps

(* The steps that turn it on again where it was turned off.                   *)
OnAction == CrOn \/ LkOn \/ TlFail \/ UlOn \/ WtOn \/ NoOn

LEMMA OnCounts ==
    ASSUME TypeInv, HartInv, CountInv, OnAction
    PROVE  CountInv'
<1> USE DEF Fits, Depth, OffLabels, SwLabels
<1>0. /\ CountTypes /\ Fits(pc[cpu], swRet[cpu], preempt[cpu])
      /\ pc[cpu] # "sw_ctx" => running = cpu
  BY Counting
<1>1. /\ pc[cpu] \in {"cr_on", "lk_on", "tl_fail", "ul_on", "wt_on", "no_on"}
      /\ cpu \notin trapped
  BY DEF OnAction, CrOn, LkOn, TlFail, UlOn, WtOn, NoOn, At
<1>2. \E l \in {"user", "sysret", "jn_test", "sl_test", "lk_off", "na_test"} : PreemptionOn(l)
  BY DEF OnAction, CrOn, LkOn, TlFail, UlOn, WtOn, NoOn, ReturnLabel
<1>3. UNCHANGED <<swRet, trapped>>
  BY DEF OnAction, CrOn, LkOn, TlFail, UlOn, WtOn, NoOn, hartVars, swVars
<1>4. PICK l \in {"user", "sysret", "jn_test", "sl_test", "lk_off", "na_test"} : PreemptionOn(l)
  BY <1>2
<1>5. preempt[cpu] = 0 /\ swRet[cpu] = "none"
  BY <1>0, <1>1 DEF CountTypes
<1>6. /\ pc' = [pc EXCEPT ![cpu] = l]
      /\ preempt' = [preempt EXCEPT ![cpu] = 1]
  <2>1. running = cpu
    BY <1>0, <1>1
  <2>2. preempt[running] + 1 = 1 /\ ~(preempt[running] + 1 > 1)
    BY <2>1, <1>5
  <2>3. pc' = [pc EXCEPT ![cpu] = l]
    BY <1>4, <2>2 DEF PreemptionOn, Goto
  <2> QED BY <1>4, <2>1, <2>2, <2>3 DEF PreemptionOn
<1>7. pc'[cpu] = l /\ preempt'[cpu] = 1 /\ swRet'[cpu] = "none"
  BY <1>0, <1>3, <1>5, <1>6 DEF CountTypes
<1>8. Fits(l, "none", 1)
  BY <1>4
<1>9. Alone
  BY <1>0, <1>1, <1>3, <1>6, <1>7, <1>8 DEF Alone, CountTypes
<1> QED BY <1>9, AloneKeeps

(* The end of a switch, on the way back into the call that has switched.      *)
LEMMA SwOnCounts ==
    ASSUME TypeInv, HartInv, CountInv, SwOn
    PROVE  CountInv'
<1> USE DEF Fits, Depth, OffLabels, SwLabels
<1>0. /\ CountTypes /\ Fits(pc[cpu], swRet[cpu], preempt[cpu])
      /\ pc[cpu] # "sw_ctx" => running = cpu
  BY Counting
<1>1. pc[cpu] = "sw_on" /\ cpu \notin trapped /\ running = cpu
  BY <1>0 DEF SwOn, At
<1>2. swRet[cpu] \in {"return", "lk_on", "wt_on", "dead"}
  BY <1>1 DEF HartInv, ControlInv, OwnStack, SyscallLabels, CallOf, TypeInv, KernelType, SwType,
              SwRets, HartType
<1>3. preempt[cpu] = IF swRet[cpu] \in {"lk_on", "wt_on"} THEN -1 ELSE 0
  BY <1>0, <1>1 DEF CountTypes
<1> DEFINE l == IF swRet[cpu] = "return" THEN "user" ELSE swRet[cpu]
<1>4. /\ pc' = [pc EXCEPT ![cpu] = l]
      /\ preempt' = [preempt EXCEPT ![cpu] = preempt[cpu] + 1]
      /\ swRet' = [swRet EXCEPT ![cpu] = "none"]
      /\ UNCHANGED trapped
  BY <1>1, <1>2, <1>3 DEF SwOn, PreemptionOn, Goto, hartVars
<1>5. pc'[cpu] = l /\ preempt'[cpu] = preempt[cpu] + 1 /\ swRet'[cpu] = "none"
  BY <1>0, <1>4 DEF CountTypes
<1>6. Fits(l, "none", preempt[cpu] + 1) /\ l # "hang"
  BY <1>2, <1>3
<1>7. Alone
  BY <1>0, <1>1, <1>4, <1>5, <1>6 DEF Alone, CountTypes
<1> QED BY <1>7, AloneKeeps

(* A call gives up the hart: the level it has open, if any, goes with what the *)
(* switch will return to.                                                     *)
LEMMA SwitchCounts ==
    ASSUME TypeInv, HartInv, CountInv, CallYield \/ LkPush \/ WtPush \/ Exit
    PROVE  CountInv'
<1> USE DEF Fits, Depth, OffLabels, SwLabels
<1>0. /\ CountTypes /\ Fits(pc[cpu], swRet[cpu], preempt[cpu])
  BY Counting
<1>1. \E l \in {"user", "exit", "lk_push", "wt_push"} :
         /\ pc[cpu] = l /\ cpu \notin trapped
         /\ pc' = [pc EXCEPT ![cpu] = "sw_off"]
         /\ swRet' = [swRet EXCEPT ![cpu] =
                CASE l = "user" -> "return" [] l = "exit" -> "dead"
                  [] l = "lk_push" -> "lk_on" [] l = "wt_push" -> "wt_on"]
         /\ UNCHANGED <<preempt, trapped>>
  <2>1. CASE CallYield
    BY <2>1 DEF CallYield, EnterCall, At, Goto, tcbVars
  <2>2. CASE LkPush
    BY <2>2 DEF LkPush, Switch, At, Goto, tcbVars, hartVars
  <2>3. CASE WtPush
    BY <2>3 DEF WtPush, Switch, At, Goto, tcbVars, hartVars
  <2>4. CASE Exit
    BY <2>4 DEF Exit, Switch, At, Goto, tcbVars, hartVars
  <2> QED BY <2>1, <2>2, <2>3, <2>4
<1>2. Alone
  BY <1>0, <1>1 DEF Alone, CountTypes
<1> QED BY <1>2, AloneKeeps

-----------------------------------------------------------------------------
(* The steps that leave the count alone stay on one level: outside the        *)
(* sections that turn preemption off, inside one, or inside a switch.         *)
Quiet(l) ==
    /\ UNCHANGED <<preempt, swRet, trapped>> /\ cpu \notin trapped
    /\ Goto(l)
    /\ \E level \in {OnLabels, OffLabels, SwLabels \ {"sw_off"}} : {pc[cpu], l} \subseteq level

LEMMA QuietKeeps ==
    ASSUME TypeInv, HartInv, CountInv, NEW l, Quiet(l)
    PROVE  CountInv'
<1>0. CountTypes /\ Fits(pc[cpu], swRet[cpu], preempt[cpu])
  BY Counting
<1>1. pc'[cpu] = l /\ swRet'[cpu] = swRet[cpu] /\ preempt'[cpu] = preempt[cpu]
  BY <1>0 DEF Quiet, Goto, CountTypes
<1>2. Fits(l, swRet[cpu], preempt[cpu]) /\ pc[cpu] # "hang" /\ l # "hang"
  BY <1>0 DEF Quiet, Fits, Depth, OnLabels, OffLabels, SwLabels
<1>3. Alone
  BY <1>0, <1>1, <1>2 DEF Alone, Quiet, Goto, CountTypes
<1> QED BY <1>3, AloneKeeps

QuietAct ==
    \/ SysReturn \/ Stub \/ NaTest \/ JnTest \/ SlTest
    \/ LkTest \/ LkOwn \/ UlBody \/ WtUnlock \/ NoPop
    \/ SwPut \/ SwDis \/ SwRun \/ SwCtx \/ SwEn

LEMMA QuietCounts ==
    ASSUME TypeInv, HartInv, CountInv, QuietAct
    PROVE  CountInv'
<1> USE DEF OnLabels, OffLabels, SwLabels, At, Quiet, hartVars, tcbVars, swVars
<1>0. CountTypes /\ Fits(pc[cpu], swRet[cpu], preempt[cpu]) /\ (pc[cpu] # "sw_ctx" => running = cpu)
  BY Counting
<1>1. CASE SysReturn \/ Stub
  <2>1. Quiet("user")
    BY <1>1 DEF SysReturn, Stub
  <2> QED BY <2>1, QuietKeeps
<1>2. CASE NaTest
  <2>1. Quiet("no_off") \/ Quiet("exit") \/ Quiet("user") \/ Quiet("sysret")
    BY <1>2 DEF NaTest, ReturnLabel
  <2> QED BY <2>1, QuietKeeps
<1>3. CASE JnTest \/ SlTest
  <2>1. Quiet("ul_off") \/ Quiet("wt_off")
    BY <1>3 DEF JnTest, SlTest
  <2> QED BY <2>1, QuietKeeps
<1>4. CASE LkTest
  <2>1. Quiet("lk_own") \/ Quiet("tl_fail") \/ Quiet("lk_on") \/ Quiet("lk_push")
    BY <1>4 DEF LkTest
  <2> QED BY <2>1, QuietKeeps
<1>5. CASE LkOwn \/ UlBody \/ WtUnlock \/ NoPop
  <2>1. Quiet("lk_on") \/ Quiet("ul_on") \/ Quiet("wt_push") \/ Quiet("no_on")
    BY <1>5 DEF LkOwn, UlBody, WtUnlock, NoPop
  <2> QED BY <2>1, QuietKeeps
<1>6. CASE SwPut
  <2>1. running = cpu /\ preempt[cpu] <= 0
    BY <1>0, <1>6 DEF SwPut, Fits, Depth, CountTypes
  <2>2. ~AllowPreemption
    BY <2>1, <1>0 DEF AllowPreemption, CountTypes
  <2>3. Quiet("sw_dis")
    BY <1>6, <2>2 DEF SwPut
  <2> QED BY <2>3, QuietKeeps
<1>7. CASE SwDis \/ SwRun \/ SwCtx \/ SwEn
  <2>1. Quiet("sw_run") \/ Quiet("sw_ctx") \/ Quiet("sw_en") \/ Quiet("sw_on")
    BY <1>7 DEF SwDis, SwRun, SwCtx, SwEn
  <2> QED BY <2>1, QuietKeeps
<1> QED BY <1>1, <1>2, <1>3, <1>4, <1>5, <1>6, <1>7 DEF QuietAct

(* A call begins outside every section; a yield is the switch itself.         *)
LEMMA CallCounts ==
    ASSUME TypeInv, HartInv, CountInv, CallAction
    PROVE  CountInv'
<1>1. CASE CallYield
  BY <1>1, SwitchCounts
<1>2. CASE ~CallYield
  <2>1. \E l \in EntryLabels \ {"sw_off"} :
           Goto(l) /\ pc[cpu] = "user" /\ UNCHANGED <<preempt, swRet, trapped>> /\ cpu \notin trapped
    BY <1>2 DEF CallAction, CallCreate, CallLock, CallTryLock, CallUnlock, CallWait, CallNotifyOne,
       CallNotifyAll, CallJoin, CallExit, CallSleep, EnterCall, At, EntryLabels, tcbVars, swVars
  <2>2. \E l \in EntryLabels \ {"sw_off"} : Quiet(l)
    BY <2>1 DEF Quiet, EntryLabels, OnLabels
  <2> QED BY <2>2, QuietKeeps
<1> QED BY <1>1, <1>2

-----------------------------------------------------------------------------
(* The pick leaves or goes on inside the switch; if it fails, preemption is   *)
(* off.                                                                       *)
LEMMA PickCounts ==
    ASSUME TypeInv, HartInv, CountInv, SwPick
    PROVE  CountInv'
<1>0. CountTypes /\ Fits(pc[cpu], swRet[cpu], preempt[cpu])
  BY Counting
<1>1. \E l \in {"sw_on", "hang", "sw_put"} : Goto(l)
  BY DEF SwPick
<1>2. PICK l \in {"sw_on", "hang", "sw_put"} : Goto(l)
  BY <1>1
<1>3. /\ pc[cpu] = "sw_pick" /\ cpu \notin trapped /\ cpu' = cpu
      /\ UNCHANGED <<preempt, swRet, trapped>>
  BY DEF SwPick, At, hartVars, tcbVars
<1>4. pc'[cpu] = l /\ preempt'[cpu] = preempt[cpu] /\ swRet'[cpu] = swRet[cpu]
  BY <1>0, <1>2, <1>3 DEF Goto, CountTypes
<1>5. preempt[cpu] <= 0 /\ Fits(l, swRet[cpu], preempt[cpu])
  BY <1>0, <1>3 DEF Fits, Depth, CountTypes, SwLabels, OffLabels
<1>6. Alone
  BY <1>0, <1>2, <1>3, <1>4, <1>5 DEF Alone, Goto, CountTypes
<1> QED BY <1>6, AloneKeeps

(* A new thread can be preempted from the start.                              *)
LEMMA NewCounts ==
    ASSUME TypeInv, HartInv, CountInv, CrNew
    PROVE  CountInv'
<1>0. CountTypes /\ Fits(pc[cpu], swRet[cpu], preempt[cpu])
  BY Counting
<1>1. pc[cpu] = "cr_new" /\ cpu \notin trapped /\ UNCHANGED <<cpu, mie, swRet, trapped>>
  BY DEF CrNew, At, hartVars, swVars
<1>2. CASE \E t \in Threads : state[t] = "INIT"
  <2>1. PICK t \in Threads :
           /\ state[t] = "INIT"
           /\ preempt' = [preempt EXCEPT ![t] = 1]
           /\ pc' = [pc EXCEPT ![t] = "stub", ![cpu] = "cr_on"]
    BY <1>2 DEF CrNew
  <2>2. pc[t] = "none" /\ t \notin trapped /\ t # cpu
    BY <1>1, <2>1 DEF HartInv, ControlInv, UnbornIdle
  <2>3. Counted(t)'
    <3>1. swRet[t] = "none"
      BY <2>2 DEF CountInv, Counted, Fits, SwLabels
    <3> QED BY <1>0, <1>1, <2>1, <2>2, <3>1 DEF CountTypes, Counted, Fits, Depth, OffLabels, SwLabels
  <2>4. ASSUME NEW u \in Threads \ {t, cpu} PROVE Counted(u)'
    <3>1. pc'[u] = pc[u] /\ preempt'[u] = preempt[u] /\ swRet'[u] = swRet[u]
      BY <1>0, <1>1, <2>1 DEF CountTypes
    <3> QED BY <1>1, <3>1 DEF CountInv, Counted
  <2>5. pc'[cpu] = "cr_on" /\ preempt'[cpu] = preempt[cpu]
    BY <1>0, <2>1, <2>2 DEF CountTypes
  <2>6. Fits("cr_on", swRet[cpu], preempt[cpu])
    BY <1>0, <1>1 DEF Fits, Depth, OffLabels, SwLabels
  <2>7. ASSUME NEW u \in Threads, u = cpu PROVE Counted(u)'
    BY <1>1, <2>5, <2>6, <2>7 DEF Counted
  <2> QED BY <2>3, <2>4, <2>7 DEF CountInv
<1>3. CASE ~\E t \in Threads : state[t] = "INIT"
  <2>1. Quiet("cr_on")
    BY <1>1, <1>3 DEF CrNew, Quiet, OffLabels
  <2> QED BY <2>1, QuietKeeps
<1> QED BY <1>2, <1>3

(* Leaving the handler changes no count.                                      *)
LEMMA ReturnCounts ==
    ASSUME TypeInv, HartInv, CountInv, HandlerReturn
    PROVE  CountInv'
<1>1. SUFFICES ASSUME NEW t \in Threads PROVE Counted(t)'
  BY DEF CountInv
<1>2. pc[cpu] # "hang"
  BY Counting DEF HandlerReturn, CountInv, Counted, CountTypes
<1>3. pc[t] # "hang"
  BY <1>2 DEF CountInv, Counted
<1> QED BY <1>3 DEF HandlerReturn, CountInv, Counted, tcbVars, swVars

-----------------------------------------------------------------------------
(* A handler preempts only a thread whose count allows it, and so none that   *)
(* is inside a section; if its assertion fails, interrupts stay off.          *)
LEMMA YieldCounts ==
    ASSUME TypeInv, HartInv, CountInv, cpu \notin trapped, pc[cpu] # "sw_ctx",
           pc[cpu] = "hang" => mie = 1,
           NEW rdy, NEW st, InInterruptYield(rdy, st), UNCHANGED <<preempt, swRet>>
    PROVE  CountInv'
<1>0. CountTypes /\ Fits(pc[cpu], swRet[cpu], preempt[cpu]) /\ running = cpu
  BY Counting
<1>1. SUFFICES ASSUME NEW t \in Threads PROVE Counted(t)'
  BY DEF CountInv
<1>2. CASE ~AllowPreemption \/ rdy = <<>>
  BY <1>2 DEF InInterruptYield, CountInv, Counted, hartVars
<1>3. CASE ~(~AllowPreemption \/ rdy = <<>>)
  <2>1. preempt[cpu] > 0 /\ pc[cpu] # "hang"
    BY <1>0, <1>3 DEF AllowPreemption, CountInv, Counted, CountTypes
  <2>2. CASE Head(rdy) = running
    <3>1. /\ UNCHANGED <<cpu, trapped>> /\ mie' = 0
          /\ pc' = [pc EXCEPT ![cpu] = "hang"]
      BY <1>3, <2>2 DEF InInterruptYield, Goto
    <3> QED BY <1>0, <3>1 DEF CountInv, Counted, CountTypes, Fits
  <2>3. CASE Head(rdy) # running
    <3>1. UNCHANGED pc /\ trapped' = trapped \cup {cpu}
      BY <1>3, <2>3 DEF InInterruptYield
    <3>2. pc[t] # "hang"
      BY <2>1 DEF CountInv, Counted
    <3> QED BY <1>0, <2>1, <3>1, <3>2 DEF CountInv, Counted, CountTypes
  <2> QED BY <2>2, <2>3
<1> QED BY <1>2, <1>3

LEMMA InterruptCounts ==
    ASSUME TypeInv, HartInv, CountInv, TimerInterrupt \/ DeviceInterrupt \/ EcallYield
    PROVE  CountInv'
<1>1. cpu \notin trapped /\ pc[cpu] # "sw_ctx" /\ (pc[cpu] = "hang" => mie = 1)
  <2>1. mie = 1 => nest = 0
    BY DEF HartInv, ControlInv, HartNesting
  <2>2. nest = 0 => cpu \notin trapped /\ pc[cpu] # "sw_ctx"
    BY DEF HartInv, ControlInv, HartNesting, Masked, TypeInv, KernelType, HartType
  <2> QED BY <2>1, <2>2 DEF TimerInterrupt, DeviceInterrupt, EcallYield, At
<1>2. UNCHANGED <<preempt, swRet>>
  BY DEF TimerInterrupt, DeviceInterrupt, EcallYield, swVars
<1>3. \E rdy, st : InInterruptYield(rdy, st)
  BY DEF TimerInterrupt, DeviceInterrupt, EcallYield
<1> QED BY <1>1, <1>2, <1>3, YieldCounts

-----------------------------------------------------------------------------
LEMMA InitCounts == Init => CountInv
BY HeadTailProperties, BootAssumption
DEF Init, SchedInit, CountInv, Counted, Fits, Depth, OffLabels, SwLabels

LEMMA NextCounts ==
    TypeInv /\ HartInv /\ CountInv /\ [Next]_vars => CountInv'
<1> SUFFICES ASSUME TypeInv, HartInv, CountInv, [Next]_vars PROVE CountInv'
  OBVIOUS
<1> USE DEF QuietAct, OffAction, OnAction, CallAction
<1>1. CASE SchedStep /\ UNCHANGED <<mutexVars, condVars, timerVars, tgt>>
  BY <1>1, OffCounts, OnCounts, SwOnCounts, SwitchCounts, QuietCounts, CallCounts, PickCounts,
     NewCounts, ReturnCounts, InterruptCounts
  DEF SchedStep, SwitchStep, CreateStep
<1>2. CASE MutexStep /\ UNCHANGED <<condVars, timerVars, tgt>>
  BY <1>2, OffCounts, OnCounts, SwitchCounts, QuietCounts, CallCounts
  DEF MutexStep, LockStep, UnlockStep
<1>3. CASE CondStep
  BY <1>3, OffCounts, OnCounts, SwitchCounts, QuietCounts, CallCounts
  DEF CondStep, WaitStep, NotifyStep
<1>4. CASE JoinStep \/ ExitStep \/ SleepStep
  BY <1>4, SwitchCounts, QuietCounts, CallCounts DEF JoinStep, ExitStep, SleepStep
<1>5. CASE TimerInterrupt \/ DeviceInterrupt
  BY <1>5, InterruptCounts
<1>6. CASE UNCHANGED vars
  BY <1>6 DEF vars, schedVars, hartVars, tcbVars, swVars, CountInv, Counted
<1>7. CASE Tear
  <2>1. UNCHANGED <<cpu, trapped, mie, preempt, swRet>>
    BY <1>7 DEF Tear, hartVars, tcbVars, swVars
  <2>2. CASE UNCHANGED pc
    BY <2>1, <2>2 DEF CountInv, Counted
  <2>3. CASE At("cr_new") /\ Goto("hang")
    <3>1. CountTypes /\ Counted(cpu)
      BY Counting DEF CountInv, CountTypes
    <3>2. preempt[cpu] = 0
      BY <2>3, <3>1 DEF At, Counted, Fits, Depth, OffLabels, SwLabels
    <3>3. Counted(cpu)'
      BY <2>1, <2>3, <3>1, <3>2 DEF CountTypes, Counted, Fits, At, Goto
    <3>4. ASSUME NEW t \in Threads, t # cpu PROVE Counted(t)'
      BY <2>1, <2>3, <3>1, <3>4 DEF CountInv, CountTypes, Counted, Fits, Goto
    <3> QED BY <2>1, <3>3, <3>4 DEF CountInv
  <2> QED BY <1>7, <2>2, <2>3 DEF Tear, WakeTears, GrowthTears, MoveTears
<1> QED BY <1>1, <1>2, <1>3, <1>4, <1>5, <1>6, <1>7 DEF Next, WholeStep, ThreadStep

(* Every setPreemption(false) is made good by its setPreemption(true), in the *)
(* same control block, and nothing between the two is ever interrupted by     *)
(* another thread: for any threads, mutexes, condition variables and calls    *)
(* that do not block inside a system call.                                    *)
THEOREM PreemptionCorrect == NonBlockingEcalls => (Spec => []PreemptionRespected)
<1> SUFFICES ASSUME NonBlockingEcalls PROVE Spec => []PreemptionRespected
  OBVIOUS
<1>1. Init => TypeInv /\ HartInv /\ CountInv
  BY InitType, InitInv, InitCounts
<1>2. TypeInv /\ HartInv /\ CountInv /\ [Next]_vars => TypeInv' /\ HartInv' /\ CountInv'
  BY NextType, NextInv, NextCounts
<1>3. TypeInv /\ CountInv => PreemptionRespected
  BY DEF TypeInv, KernelType, HartType, PreemptionRespected, PreemptBalanced,
     CriticalSectionsAtomic, PreemptDepth, CountInv, Counted, Fits, Depth
<1> QED BY <1>1, <1>2, <1>3, PTL DEF Spec
=============================================================================
