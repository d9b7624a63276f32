---------------------------- MODULE FilingProofs ----------------------------
(* Who is filed where: every thread is at all times on the hart, about to be, *)
(* in exactly one list, finished, or not yet born. From this follows that no  *)
(* thread is lost or filed twice, that no assertion of the scheduler fails,   *)
(* and that a thread that has finished never runs again.                      *)
EXTENDS KernelProofs, FiniteSetTheorems

In(t, s) == \E i \in DOMAIN s : s[i] = t
Distinct(s) == \A i, j \in DOMAIN s : s[i] = s[j] => i = j

Blocked(t) == (\E m \in Mutexes : In(t, mwait[m])) \/ (\E c \in Conds : In(t, cwait[c]))
Listed(t) == In(t, ready) \/ Blocked(t)

ListsDistinct ==
    /\ Distinct(ready)
    /\ \A m \in Mutexes : Distinct(mwait[m])
    /\ \A c \in Conds : Distinct(cwait[c])

(* A thread waits in the list its own call is about, and is then in no other. *)
Waiters ==
    \A t \in Threads :
        /\ \A m \in Mutexes : In(t, mwait[m]) => mtx[t] = m /\ swRet[t] = "lk_on" /\ ~In(t, ready)
        /\ \A c \in Conds : In(t, cwait[c]) => cnd[t] = c /\ swRet[t] = "wt_on" /\ ~In(t, ready)

(* The thread on the hart is filed only inside a switch: a waiting thread     *)
(* from the beginning, if it is not woken in between, a yielding one once it  *)
(* has put itself back.                                                       *)
Placing == {"sw_off", "sw_pick", "sw_put"}
Leaving == {"sw_dis", "sw_run", "sw_ctx"}
OnHart ==
    /\ Listed(cpu) => pc[cpu] \in Placing \cup Leaving
    /\ In(cpu, ready) => swRet[cpu] = "wt_on" \/ (swRet[cpu] = "return" /\ pc[cpu] \in Leaving)
    /\ pc[cpu] \in Placing /\ swRet[cpu] \in {"lk_on", "wt_on"} => Listed(cpu)
    /\ pc[cpu] \in Leaving => state[cpu] = "FINISHED" \/ Listed(cpu)
    /\ pc[cpu] \in {"sw_off", "sw_pick"} /\ In(cpu, ready) => Head(ready) # cpu

(* The thread a switch has picked is in no list until it is on the hart.      *)
NextPicked ==
    IF pc[cpu] \in Picked THEN ~Listed(nxt[cpu]) /\ state[nxt[cpu]] # "FINISHED"
                          ELSE nxt[cpu] = NoThread
OffHartPicksNone == \A t \in Threads \ {cpu} : nxt[t] = NoThread

NoneLost ==
    \A t \in Threads \ {cpu} :
        t # nxt[cpu] /\ state[t] \notin {"INIT", "FINISHED"} => Listed(t)

(* An exiting thread is finished once it has left the hart, and left for good.*)
Exits ==
    \A t \in Threads :
        /\ state[t] = "FINISHED" =>
              /\ ~Listed(t) /\ swRet[t] = "dead"
              /\ IF t = cpu THEN pc[t] \in Leaving ELSE pc[t] = "sw_en" /\ t \notin trapped
        /\ swRet[t] = "dead" =>
              pc[t] \in Placing \cup Leaving \/ (pc[t] = "sw_en" /\ t # cpu /\ state[t] = "FINISHED")

(* The idle thread only yields.                                               *)
IdleYields ==
    /\ swRet[Idle] \in {"none", "return"} /\ op[Idle] \in {"none", "yield"}
    /\ pc[Idle] \in {"stub", "user"} \cup SwLabels

NoneHangs == \A t \in Threads : pc[t] \notin {"hang", "dead"}

FileInv ==
    /\ ListsDistinct /\ Waiters /\ OnHart /\ NextPicked /\ OffHartPicksNone
    /\ NoneLost /\ Exits /\ IdleYields /\ NoneHangs

-----------------------------------------------------------------------------
(* Lists: what is in them, before and after each operation of the kernel.     *)
LEMMA InFirst ==
    ASSUME NEW S, NEW s \in Seq(S)
    PROVE  /\ \A t : In(t, s) => t \in S /\ s # <<>>
           /\ ~\E t : In(t, <<>>)
           /\ Distinct(<<>>)
           /\ s # <<>> => In(Head(s), s) /\ Head(s) = s[1]
BY LenProperties, EmptySeq, HeadTailProperties DEF In, Distinct

LEMMA Appended ==
    ASSUME NEW S, NEW s \in Seq(S), NEW x \in S
    PROVE  /\ \A t : In(t, Append(s, x)) <=> In(t, s) \/ t = x
           /\ Distinct(s) /\ ~In(x, s) => Distinct(Append(s, x))
           /\ s # <<>> => Head(Append(s, x)) = Head(s)
<1> DEFINE a == Append(s, x)
<1>1. /\ a \in Seq(S) /\ Len(s) \in Nat /\ Len(a) = Len(s) + 1
      /\ \A i \in 1..Len(s) : a[i] = s[i]
      /\ a[Len(s) + 1] = x
      /\ DOMAIN s = 1..Len(s) /\ DOMAIN a = 1..Len(a)
  BY AppendProperties, LenProperties
<1> HIDE DEF a
<1>2. ASSUME NEW t PROVE In(t, a) <=> In(t, s) \/ t = x
  <2>1. ASSUME In(t, a) PROVE In(t, s) \/ t = x
    <3>1. PICK i \in DOMAIN a : a[i] = t
      BY <2>1 DEF In
    <3>2. i \in 1..Len(s) \/ i = Len(s) + 1
      BY <1>1
    <3> QED BY <1>1, <3>1, <3>2 DEF In
  <2>2. ASSUME In(t, s) PROVE In(t, a)
    <3>1. PICK i \in DOMAIN s : s[i] = t
      BY <2>2 DEF In
    <3>2. i \in DOMAIN a /\ a[i] = t
      BY <1>1, <3>1
    <3> QED BY <3>2 DEF In
  <2>3. In(x, a)
    <3>1. Len(s) + 1 \in DOMAIN a
      BY <1>1
    <3> QED BY <1>1, <3>1 DEF In
  <2> QED BY <2>1, <2>2, <2>3
<1>3. ASSUME Distinct(s), ~In(x, s) PROVE Distinct(a)
  <2> SUFFICES ASSUME NEW i \in DOMAIN a, NEW j \in DOMAIN a, a[i] = a[j] PROVE i = j
    BY DEF Distinct
  <2>1. (i \in 1..Len(s) \/ i = Len(s) + 1) /\ (j \in 1..Len(s) \/ j = Len(s) + 1)
    BY <1>1
  <2>2. \A k \in 1..Len(s) : s[k] # x
    BY <1>1, <1>3 DEF In
  <2> QED BY <1>1, <1>3, <2>1, <2>2 DEF Distinct
<1>4. ASSUME s # <<>> PROVE Head(a) = Head(s)
  <2>1. Len(s) # 0
    BY <1>4, EmptySeq
  <2>2. a # <<>> /\ 1 \in 1..Len(s)
    BY <1>1, <2>1, EmptySeq
  <2> QED BY <1>1, <1>4, <2>2, InFirst
<1> QED BY <1>2, <1>3, <1>4 DEF a

LEMMA Popped ==
    ASSUME NEW S, NEW s \in Seq(S), s # <<>>, Distinct(s)
    PROVE  /\ \A t : In(t, Tail(s)) <=> In(t, s) /\ t # Head(s)
           /\ Distinct(Tail(s))
<1> DEFINE r == Tail(s)
<1>1. /\ r \in Seq(S) /\ Len(r) = Len(s) - 1 /\ Len(s) \in Nat \ {0} /\ Head(s) = s[1]
      /\ \A i \in 1..Len(r) : r[i] = s[i + 1]
      /\ DOMAIN s = 1..Len(s) /\ DOMAIN r = 1..Len(r)
  BY HeadTailProperties, LenProperties, EmptySeq, InFirst
<1> HIDE DEF r
<1>2. ASSUME NEW t PROVE In(t, r) <=> In(t, s) /\ t # Head(s)
  <2>1. ASSUME In(t, r) PROVE In(t, s) /\ t # Head(s)
    <3>1. PICK i \in DOMAIN r : r[i] = t
      BY <2>1 DEF In
    <3>2. i + 1 \in DOMAIN s /\ s[i + 1] = t /\ 1 \in DOMAIN s /\ i + 1 # 1
      BY <1>1, <3>1
    <3> QED BY <1>1, <3>2 DEF In, Distinct
  <2>2. ASSUME In(t, s), t # Head(s) PROVE In(t, r)
    <3>1. PICK i \in DOMAIN s : s[i] = t
      BY <2>2 DEF In
    <3>2. i # 1
      BY <1>1, <2>2, <3>1
    <3>3. i - 1 \in DOMAIN r /\ r[i - 1] = s[i - 1 + 1] /\ i - 1 + 1 = i
      BY <1>1, <3>1, <3>2
    <3> QED BY <3>1, <3>3 DEF In
  <2> QED BY <2>1, <2>2
<1>3. Distinct(r)
  <2> SUFFICES ASSUME NEW i \in DOMAIN r, NEW j \in DOMAIN r, r[i] = r[j] PROVE i = j
    BY DEF Distinct
  <2>1. i + 1 \in DOMAIN s /\ j + 1 \in DOMAIN s /\ s[i + 1] = s[j + 1]
    BY <1>1
  <2>2. i + 1 = j + 1
    BY <2>1 DEF Distinct
  <2> QED BY <1>1, <2>2
<1> QED BY <1>2, <1>3 DEF r

LEMMA Joined ==
    ASSUME NEW S, NEW s \in Seq(S), NEW w \in Seq(S)
    PROVE  /\ \A t : In(t, s \o w) <=> In(t, s) \/ In(t, w)
           /\ Distinct(s) /\ Distinct(w) /\ (\A t : ~(In(t, s) /\ In(t, w))) => Distinct(s \o w)
           /\ s # <<>> => Head(s \o w) = Head(s)
<1> DEFINE c == s \o w
<1>1. /\ c \in Seq(S) /\ Len(s) \in Nat /\ Len(w) \in Nat /\ Len(c) = Len(s) + Len(w)
      /\ \A i \in 1..Len(c) : c[i] = IF i <= Len(s) THEN s[i] ELSE w[i - Len(s)]
      /\ DOMAIN s = 1..Len(s) /\ DOMAIN w = 1..Len(w) /\ DOMAIN c = 1..Len(c)
  BY ConcatProperties, LenProperties
<1> HIDE DEF c
<1>2. \A i \in DOMAIN c : \/ i \in DOMAIN s /\ c[i] = s[i]
                          \/ i - Len(s) \in DOMAIN w /\ c[i] = w[i - Len(s)]
  BY <1>1
<1>3. \A i \in DOMAIN s : i \in DOMAIN c /\ c[i] = s[i]
  BY <1>1
<1>4. \A i \in DOMAIN w : i + Len(s) \in DOMAIN c /\ c[i + Len(s)] = w[i]
  BY <1>1
<1>5. \A t : In(t, c) <=> In(t, s) \/ In(t, w)
  BY <1>2, <1>3, <1>4 DEF In
<1>6. ASSUME Distinct(s), Distinct(w), \A t : ~(In(t, s) /\ In(t, w)) PROVE Distinct(c)
  <2> SUFFICES ASSUME NEW i \in DOMAIN c, NEW j \in DOMAIN c, c[i] = c[j] PROVE i = j
    BY DEF Distinct
  <2>1. i \in Nat /\ j \in Nat
    BY <1>1
  <2>2. CASE i \in DOMAIN s /\ c[i] = s[i] /\ j \in DOMAIN s /\ c[j] = s[j]
    BY <1>6, <2>2 DEF Distinct
  <2>3. CASE /\ i - Len(s) \in DOMAIN w /\ c[i] = w[i - Len(s)]
             /\ j - Len(s) \in DOMAIN w /\ c[j] = w[j - Len(s)]
    <3>1. i - Len(s) = j - Len(s)
      BY <1>6, <2>3 DEF Distinct
    <3> QED BY <1>1, <2>1, <3>1
  <2>4. CASE i \in DOMAIN s /\ c[i] = s[i] /\ j - Len(s) \in DOMAIN w /\ c[j] = w[j - Len(s)]
    BY <1>6, <2>4 DEF In
  <2>5. CASE j \in DOMAIN s /\ c[j] = s[j] /\ i - Len(s) \in DOMAIN w /\ c[i] = w[i - Len(s)]
    BY <1>6, <2>5 DEF In
  <2> QED BY <1>2, <2>2, <2>3, <2>4, <2>5
<1>7. ASSUME s # <<>> PROVE Head(c) = Head(s)
  <2>1. 1 \in DOMAIN s
    BY <1>1, <1>7, EmptySeq
  <2>2. c[1] = s[1] /\ 1 \in DOMAIN c
    BY <1>3, <2>1
  <2>3. c # <<>>
    BY <1>1, <2>2, EmptySeq
  <2> QED BY <1>1, <1>7, <2>2, <2>3, InFirst
<1> QED BY <1>5, <1>6, <1>7 DEF c

-----------------------------------------------------------------------------
FileTypes ==
    /\ cpu \in Threads /\ Idle \in Threads /\ NoThread \notin Threads
    /\ pc \in [Threads -> Labels] /\ state \in [Threads -> States]
    /\ swRet \in [Threads -> SwRets] /\ op \in [Threads -> Ops]
    /\ cur \in [Threads -> Maybe] /\ nxt \in [Threads -> Maybe]
    /\ ready \in Seq(Threads)
    /\ mwait \in [Mutexes -> Seq(Threads)] /\ cwait \in [Conds -> Seq(Threads)]
    /\ mtx \in [Threads -> Mutexes] /\ cnd \in [Threads -> Conds]
LEMMA Types == TypeInv => FileTypes
BY IdleAssumption, NoThreadAssumption
DEF TypeInv, KernelType, HartType, TcbType, ListType, PcType, OpType, SwType, MutexType, CondType, FileTypes

(* What is true of a thread off the hart.                                     *)
LEMMA OffHart ==
    ASSUME TypeInv, HartInv, CountInv, NEW t \in Threads, t # cpu
    PROVE  /\ pc[t] \notin Picked \cup {"sw_pick", "sw_on"}
           /\ t \in trapped => swRet[t] \notin {"lk_on", "wt_on"} /\ pc[t] # "sw_en"
           /\ pc[t] = "sw_off" => swRet[t] \notin {"lk_on", "wt_on"}
<1>1. CASE t \in trapped
  BY <1>1 DEF CountInv, Counted, Fits, Depth, SwLabels, Picked, CountTypes, TypeInv, KernelType, TcbType
<1>2. CASE t \notin trapped
  <2>1. pc[t] = "none" \/ pc[t] \in {"sw_en", "stub"}
    BY <1>2 DEF HartInv, ControlInv, Suspended, Born
  <2> QED BY <1>2, <2>1 DEF Picked
<1> QED BY <1>1, <1>2

(* What is in a list has been born and is a thread.                           *)
LEMMA ListedBorn ==
    ASSUME TypeInv, HartInv, NEW t, Listed(t)
    PROVE  t \in Threads /\ pc[t] # "none" /\ state[t] # "INIT"
<1>1. t \in Born
  BY InFirst DEF HartInv, FiledAreBorn, Listed, Blocked, In
<1> QED BY <1>1 DEF Born, HartInv, ControlInv, UnbornIdle

(* A step of the thread on the hart that moves no list, and starts where that *)
(* thread is in none.                                                         *)
Alike ==
    /\ UNCHANGED <<ready, mwait, cwait, state, cpu, nxt, trapped>>
    /\ \A t \in Threads \ {cpu} :
          /\ pc'[t] = pc[t] /\ swRet'[t] = swRet[t] /\ op'[t] = op[t]
          /\ mtx'[t] = mtx[t] /\ cnd'[t] = cnd[t]
LocalFrom == Labels \ (Placing \cup Leaving \cup {"hang", "dead"})

LEMMA LocalFile ==
    ASSUME TypeInv, HartInv, CountInv, FileInv, Alike,
           pc[cpu] \in LocalFrom \cup {"sw_off", "sw_pick"}, ~Listed(cpu),
           pc'[cpu] \in LocalFrom \/ (pc'[cpu] = "sw_off" /\ swRet'[cpu] \in {"return", "dead"}),
           swRet'[cpu] = "dead" => pc'[cpu] = "sw_off",
           cpu = Idle => /\ swRet'[cpu] \in {"none", "return"} /\ op'[cpu] \in {"none", "yield"}
                         /\ pc'[cpu] \in {"stub", "user"} \cup SwLabels
    PROVE  FileInv'
<1> USE DEF Alike
<1>0. FileTypes
  BY Types
<1>1. \A t : Listed(t)' <=> Listed(t)
  BY DEF Listed, Blocked
<1>2. ListsDistinct'
  BY DEF FileInv, ListsDistinct
<1>3. Waiters'
  BY <1>0 DEF FileInv, Waiters, Listed, Blocked, FileTypes
<1>4. OnHart'
  BY <1>1 DEF OnHart, LocalFrom, Placing, Leaving, Listed
<1>5. NextPicked'
  BY DEF FileInv, NextPicked, Picked, LocalFrom, Placing, Leaving
<1>6. OffHartPicksNone'
  BY DEF FileInv, OffHartPicksNone
<1>7. NoneLost'
  BY <1>1 DEF FileInv, NoneLost
<1>8. Exits'
  <2>1. state[cpu] # "FINISHED"
    BY <1>0 DEF FileInv, Exits, Leaving, LocalFrom, FileTypes
  <2>2. swRet'[cpu] = "dead" => pc'[cpu] \in Placing
    BY DEF Placing
  <2> QED BY <1>1, <2>1, <2>2 DEF FileInv, Exits
<1>9. IdleYields'
  BY <1>0 DEF FileInv, IdleYields, FileTypes
<1>10. NoneHangs'
  BY DEF FileInv, NoneHangs, LocalFrom
<1> QED BY <1>2, <1>3, <1>4, <1>5, <1>6, <1>7, <1>8, <1>9, <1>10 DEF FileInv

(* The steps of this kind.                                                    *)
OffLocal  == CrOff \/ LkOff \/ UlOff \/ WtOff \/ NoOff
TestLocal == NaTest \/ JnTest \/ SlTest \/ LkTest \/ LkOwn \/ SysReturn
Beside ==
    /\ UNCHANGED <<mwait, cwait>>
    /\ mtx' = mtx \/ \E m : mtx' = [mtx EXCEPT ![cpu] = m]
    /\ cnd' = cnd \/ \E c : cnd' = [cnd EXCEPT ![cpu] = c]
LocalActs ==
    /\ OffLocal \/ OnAction \/ TestLocal \/ SwEn \/ SwOn \/ Stub \/ CallAction \/ Exit
    /\ Beside

LEMMA IdleCalls ==
    ASSUME NEW o, o \in Calls[Idle]
    PROVE  o = "yield" /\ Idle \notin Ecall
BY CallsAssumption

LEMMA LocalFrame ==
    ASSUME TypeInv, LocalActs
    PROVE  /\ UNCHANGED <<ready, state, cpu, nxt, trapped>>
           /\ swRet' = swRet \/ \E r : swRet' = [swRet EXCEPT ![cpu] = r]
           /\ op' = op \/ \E o : op' = [op EXCEPT ![cpu] = o]
<1> USE DEF LocalActs, OffLocal, TestLocal, OnAction, CallAction, hartVars, tcbVars, listVars, swVars
<1>1. CASE CrOff \/ LkOff \/ UlOff \/ WtOff \/ NoOff \/ SwEn \/ SwOn
  BY <1>1 DEF CrOff, LkOff, UlOff, WtOff, NoOff, SwEn, SwOn
<1>2. CASE OnAction
  BY <1>2 DEF CrOn, LkOn, TlFail, UlOn, WtOn, NoOn
<1>3. CASE SysReturn \/ Stub \/ NaTest \/ JnTest \/ SlTest \/ LkTest \/ LkOwn \/ Exit
  BY <1>3 DEF SysReturn, Stub, NaTest, JnTest, SlTest, LkTest, LkOwn, Exit, Switch
<1>4. CASE CallYield \/ CallCreate \/ CallLock \/ CallTryLock \/ CallUnlock
  BY <1>4 DEF CallYield, CallCreate, CallLock, CallTryLock, CallUnlock, EnterCall
<1>5. CASE CallWait \/ CallNotifyOne \/ CallNotifyAll \/ CallJoin \/ CallExit \/ CallSleep
  BY <1>5 DEF CallWait, CallNotifyOne, CallNotifyAll, CallJoin, CallExit, CallSleep, EnterCall
<1> QED BY <1>1, <1>2, <1>3, <1>4, <1>5

(* Where it goes: preemption is never turned on above 1.                      *)
LEMMA OnGoes ==
    ASSUME TypeInv, HartInv, CountInv, OnAction
    PROVE  /\ UNCHANGED swRet
           /\ \E l \in {"user", "sysret", "jn_test", "sl_test", "lk_off", "na_test"} : Goto(l)
           /\ pc[cpu] \in {"cr_on", "lk_on", "tl_fail", "ul_on", "wt_on", "no_on"}
<1> USE DEF OnAction, CrOn, LkOn, TlFail, UlOn, WtOn, NoOn
<1>0. /\ CountTypes /\ Fits(pc[cpu], swRet[cpu], preempt[cpu])
      /\ pc[cpu] # "sw_ctx" => running = cpu
  BY Counting
<1>1. pc[cpu] \in {"cr_on", "lk_on", "tl_fail", "ul_on", "wt_on", "no_on"}
  BY DEF At
<1>2. \E l \in {"user", "sysret", "jn_test", "sl_test", "lk_off", "na_test"} : PreemptionOn(l)
  BY DEF ReturnLabel
<1>3. preempt[running] = 0
  BY <1>0, <1>1 DEF CountTypes, Fits, Depth, OffLabels, SwLabels
<1>4. ~(preempt[running] + 1 > 1)
  BY <1>3
<1>5. ASSUME NEW l, PreemptionOn(l) PROVE Goto(l)
  BY <1>4, <1>5 DEF PreemptionOn
<1>6. UNCHANGED swRet
  BY DEF swVars
<1> QED BY <1>1, <1>2, <1>5, <1>6

LEMMA SwOnGoes ==
    ASSUME TypeInv, HartInv, CountInv, FileInv, SwOn
    PROVE  /\ \E l \in {"user", "lk_on", "wt_on"} :
                 Goto(l) /\ swRet[cpu] = IF l = "user" THEN "return" ELSE l
           /\ pc[cpu] = "sw_on" /\ swRet' = [swRet EXCEPT ![cpu] = "none"]
<1>0. /\ CountTypes /\ Fits(pc[cpu], swRet[cpu], preempt[cpu])
      /\ pc[cpu] # "sw_ctx" => running = cpu
  BY Counting
<1>1. pc[cpu] = "sw_on" /\ running = cpu /\ swRet' = [swRet EXCEPT ![cpu] = "none"]
  BY <1>0 DEF SwOn, At
<1>2. swRet[cpu] # "none"
  BY <1>0, <1>1 DEF HartInv, ControlInv, SyscallLabels, CallOf, SwLabels, CountTypes
<1>3. swRet[cpu] # "dead"
  BY <1>0, <1>1 DEF FileInv, Exits, Placing, Leaving, CountTypes
<1>4. swRet[cpu] \in {"return", "lk_on", "wt_on"}
  BY <1>0, <1>2, <1>3 DEF CountTypes, SwRets
<1>5. preempt[running] \in Int /\ preempt[running] <= 0
  BY <1>0, <1>1 DEF CountTypes, Fits, Depth, SwLabels
<1>6. Goto(IF swRet[cpu] = "return" THEN "user" ELSE swRet[cpu])
  <2>1. ~(preempt[running] + 1 > 1)
    BY <1>5
  <2> QED BY <2>1 DEF SwOn, PreemptionOn
<1> QED BY <1>1, <1>4, <1>6

LEMMA LocalGoes ==
    ASSUME TypeInv, HartInv, CountInv, FileInv, LocalActs
    PROVE  /\ pc[cpu] \in LocalFrom
           /\ \E l \in LocalFrom \cup {"sw_off"} :
                 Goto(l) /\ (l = "sw_off" => swRet' = [swRet EXCEPT ![cpu] = "return"]
                                          \/ swRet' = [swRet EXCEPT ![cpu] = "dead"])
           /\ swRet' = swRet \/ pc'[cpu] = "sw_off" \/ swRet' = [swRet EXCEPT ![cpu] = "none"]
<1> USE DEF LocalFrom, Labels, OffLabels, OnLabels, SwLabels, Placing, Leaving
<1>1. CASE OffLocal
  BY <1>1 DEF OffLocal, CrOff, LkOff, UlOff, WtOff, NoOff, At, PreemptionOff, swVars
<1>2. CASE OnAction
  BY <1>2, OnGoes
<1>3. CASE TestLocal
  BY <1>3 DEF TestLocal, NaTest, JnTest, SlTest, LkTest, LkOwn, SysReturn, ReturnLabel, At, swVars
<1>4. CASE SwOn
  BY <1>4, SwOnGoes
<1>5. CASE SwEn \/ Stub
  BY <1>5 DEF SwEn, Stub, At, swVars
<1>6. CASE CallYield
  <2>1. pc[cpu] = "user" /\ Goto("sw_off") /\ swRet' = [swRet EXCEPT ![cpu] = "return"]
    BY <1>6 DEF CallYield, EnterCall, At
  <2>2. pc'[cpu] = "sw_off"
    BY <2>1, Counting DEF Goto, CountTypes
  <2> QED BY <2>1, <2>2
<1>7. CASE Exit
  <2>1. pc[cpu] = "exit" /\ Goto("sw_off") /\ swRet' = [swRet EXCEPT ![cpu] = "dead"]
    BY <1>7 DEF Exit, Switch, At
  <2>2. pc'[cpu] = "sw_off"
    BY <2>1, Counting DEF Goto, CountTypes
  <2> QED BY <2>1, <2>2
<1>8. CASE CallAction /\ ~CallYield
  BY <1>8 DEF CallAction, CallCreate, CallLock, CallTryLock, CallUnlock, CallWait, CallNotifyOne,
       CallNotifyAll, CallJoin, CallExit, CallSleep, EnterCall, At, swVars
<1> QED BY <1>1, <1>2, <1>3, <1>4, <1>5, <1>6, <1>7, <1>8 DEF LocalActs

(* The idle thread has four of these steps.                                   *)
LEMMA IdleSteps ==
    ASSUME TypeInv, HartInv, CountInv, FileInv, LocalActs, cpu = Idle
    PROVE  /\ swRet'[cpu] \in {"none", "return"} /\ op'[cpu] \in {"none", "yield"}
           /\ pc'[cpu] \in {"stub", "user"} \cup SwLabels
<1>0. FileTypes /\ pc[Idle] \in {"stub", "user"} \cup SwLabels
      /\ swRet[Idle] \in {"none", "return"} /\ op[Idle] \in {"none", "yield"}
  BY Types DEF FileInv, IdleYields
<1>1. CASE SwOn
  <2>1. Goto("user") /\ swRet' = [swRet EXCEPT ![cpu] = "none"] /\ op' = [op EXCEPT ![cpu] = "none"]
    <3>1. PICK l \in {"user", "lk_on", "wt_on"} :
             Goto(l) /\ swRet[cpu] = IF l = "user" THEN "return" ELSE l
      BY <1>1, SwOnGoes
    <3>2. l = "user"
      BY <1>0, <3>1
    <3> QED BY <1>1, <3>1, <3>2 DEF SwOn
  <2> QED BY <1>0, <2>1 DEF Goto, FileTypes
<1>2. CASE SwEn \/ Stub
  BY <1>0, <1>2 DEF SwEn, Stub, Goto, FileTypes, SwLabels, swVars
<1>3. CASE CallAction
  <2>1. CASE CallYield
    BY <1>0, <2>1 DEF CallYield, EnterCall, Goto, FileTypes, SwLabels
  <2>2. CASE ~CallYield
    <3>1. \E o \in Calls[cpu] : o # "yield"
      BY <1>3, <2>2 DEF CallAction, CallCreate, CallLock, CallTryLock, CallUnlock, CallWait,
         CallNotifyOne, CallNotifyAll, CallJoin, CallExit, CallSleep, EnterCall
    <3> QED BY <3>1, IdleCalls
  <2> QED BY <2>1, <2>2
<1>4. CASE OffLocal \/ OnAction \/ TestLocal \/ Exit
  <2>1. pc[cpu] \in OffLabels \cup (OnLabels \ {"user", "stub"})
    BY <1>4 DEF OffLocal, OnAction, TestLocal, CrOff, LkOff, UlOff, WtOff, NoOff, NaTest, JnTest,
       SlTest, LkTest, LkOwn, SysReturn, CrOn, LkOn, TlFail, UlOn, WtOn, NoOn, Exit, At,
       OffLabels, OnLabels
  <2> QED BY <1>0, <2>1 DEF OffLabels, OnLabels, SwLabels
<1> QED BY <1>1, <1>2, <1>3, <1>4 DEF LocalActs

LEMMA LocalFiles ==
    ASSUME TypeInv, HartInv, CountInv, FileInv, LocalActs
    PROVE  FileInv'
<1>0. FileTypes
  BY Types
<1>1. PICK l \in LocalFrom \cup {"sw_off"} :
         Goto(l) /\ (l = "sw_off" => swRet' = [swRet EXCEPT ![cpu] = "return"]
                                  \/ swRet' = [swRet EXCEPT ![cpu] = "dead"])
  BY LocalGoes
<1>2. pc'[cpu] = l /\ \A t \in Threads \ {cpu} : pc'[t] = pc[t]
  BY <1>0, <1>1 DEF Goto, FileTypes
<1>3. Alike
  <2>1. \A t \in Threads \ {cpu} : swRet'[t] = swRet[t] /\ op'[t] = op[t]
                                  /\ mtx'[t] = mtx[t] /\ cnd'[t] = cnd[t]
    BY <1>0, LocalFrame DEF FileTypes, LocalActs, Beside
  <2> QED BY <1>2, <2>1, LocalFrame DEF Alike, LocalActs, Beside
<1>4. pc[cpu] \in LocalFrom
  BY LocalGoes
<1>5. ~Listed(cpu)
  BY <1>4 DEF FileInv, OnHart, LocalFrom, Placing, Leaving
<1>6. l = "sw_off" => swRet'[cpu] \in {"return", "dead"}
  BY <1>0, <1>1 DEF FileTypes
<1>7. swRet'[cpu] = "dead" => l = "sw_off"
  <2>1. swRet[cpu] # "dead"
    BY <1>0, <1>4 DEF FileInv, Exits, LocalFrom, Placing, Leaving, FileTypes
  <2> QED BY <1>0, <1>2, <2>1, LocalGoes DEF FileTypes
<1> QED BY <1>0, <1>1, <1>2, <1>3, <1>4, <1>5, <1>6, <1>7, LocalFile, IdleSteps

-----------------------------------------------------------------------------
(* The steps of a switch that only go on to the next label.                   *)
GlideActs == SwOff \/ SwDis \/ SwRun

LEMMA GlideFiles ==
    ASSUME TypeInv, HartInv, CountInv, FileInv, GlideActs, UNCHANGED <<mutexVars, condVars>>
    PROVE  FileInv'
<1>0. FileTypes
  BY Types
<1>1. /\ UNCHANGED <<ready, mwait, cwait, state, cpu, nxt, trapped, swRet, op, mtx, cnd>>
      /\ \A t \in Threads \ {cpu} : pc'[t] = pc[t]
  BY <1>0 DEF GlideActs, SwOff, SwDis, SwRun, PreemptionOff, Goto, FileTypes, hartVars, tcbVars,
     listVars, swVars, mutexVars, condVars
<1>2. \/ pc[cpu] = "sw_off" /\ pc'[cpu] = "sw_pick"
      \/ {pc[cpu], pc'[cpu]} \subseteq Leaving
  BY <1>0 DEF GlideActs, SwOff, SwDis, SwRun, PreemptionOff, Goto, FileTypes, At, Leaving
<1>3. \A t : Listed(t)' <=> Listed(t)
  BY <1>1 DEF Listed, Blocked
<1>4. ListsDistinct' /\ Waiters'
  BY <1>1 DEF FileInv, ListsDistinct, Waiters
<1>5. OnHart'
  BY <1>1, <1>2, <1>3 DEF FileInv, OnHart, Placing, Leaving
<1>6. NextPicked' /\ OffHartPicksNone' /\ NoneLost'
  BY <1>1, <1>2, <1>3 DEF FileInv, NextPicked, OffHartPicksNone, NoneLost, Picked, Leaving
<1>7. Exits'
  BY <1>1, <1>2, <1>3 DEF FileInv, Exits, Placing, Leaving
<1>8. IdleYields'
  BY <1>0, <1>1, <1>2 DEF FileInv, IdleYields, SwLabels, Leaving, FileTypes
<1>9. NoneHangs'
  BY <1>1, <1>2 DEF FileInv, NoneHangs, Leaving
<1> QED BY <1>4, <1>5, <1>6, <1>7, <1>8, <1>9 DEF FileInv

-----------------------------------------------------------------------------
(* A thread puts itself into a waiting list, and only then gives up the hart. *)
LEMMA LockWaits ==
    ASSUME TypeInv, HartInv, FileInv, LkPush, UNCHANGED condVars
    PROVE  FileInv'
<1> DEFINE q == mwait[mtx[cpu]]
<1>0. FileTypes /\ q \in Seq(Threads)
  BY Types DEF FileTypes
<1>1. /\ pc[cpu] = "lk_push" /\ running = cpu
      /\ pc' = [pc EXCEPT ![cpu] = "sw_off"]
      /\ swRet' = [swRet EXCEPT ![cpu] = "lk_on"]
      /\ mwait' = [mwait EXCEPT ![mtx[cpu]] = Append(q, cpu)]
      /\ UNCHANGED <<ready, cwait, state, cpu, nxt, trapped, op, mtx, cnd>>
  BY DEF LkPush, At, Switch, Goto, HartInv, ControlInv, OwnStack, hartVars, tcbVars, listVars, condVars
<1>2. ~Listed(cpu) /\ state[cpu] # "FINISHED" /\ cpu # Idle /\ nxt[cpu] = NoThread
  BY <1>0, <1>1 DEF FileInv, OnHart, Exits, IdleYields, NextPicked, Picked, Placing, Leaving,
     SwLabels, FileTypes
<1>3. /\ \A t : In(t, Append(q, cpu)) <=> In(t, q) \/ t = cpu
      /\ Distinct(Append(q, cpu))
  <2>1. Distinct(q) /\ ~In(cpu, q)
    BY <1>0, <1>2 DEF FileInv, ListsDistinct, Listed, Blocked, FileTypes
  <2> QED BY <1>0, <2>1, Appended DEF FileTypes
<1> HIDE DEF q
<1>4. \A m \in Mutexes : mwait'[m] = IF m = mtx[cpu] THEN Append(q, cpu) ELSE mwait[m]
  BY <1>0, <1>1 DEF FileTypes
<1>5. \A t, m : m \in Mutexes => (In(t, mwait'[m]) <=> In(t, mwait[m]) \/ (t = cpu /\ m = mtx[cpu]))
  BY <1>3, <1>4 DEF q
<1>6. \A t : Listed(t)' <=> Listed(t) \/ t = cpu
  BY <1>0, <1>1, <1>5 DEF Listed, Blocked, FileTypes
<1>7. ListsDistinct'
  BY <1>1, <1>3, <1>4 DEF FileInv, ListsDistinct
<1>8. Waiters'
  <2> SUFFICES ASSUME NEW t \in Threads
               PROVE  /\ \A m \in Mutexes : In(t, mwait'[m])
                             => mtx'[t] = m /\ swRet'[t] = "lk_on" /\ ~In(t, ready')
                      /\ \A c \in Conds : In(t, cwait'[c])
                             => cnd'[t] = c /\ swRet'[t] = "wt_on" /\ ~In(t, ready')
    BY DEF Waiters
  <2>1. CASE t = cpu
    BY <1>0, <1>1, <1>2, <1>5, <2>1 DEF Listed, Blocked, FileTypes
  <2>2. CASE t # cpu
    BY <1>0, <1>1, <1>5, <2>2 DEF FileInv, Waiters, FileTypes
  <2> QED BY <2>1, <2>2
<1>9. OnHart'
  BY <1>0, <1>1, <1>2, <1>6 DEF OnHart, Listed, Placing, Leaving, FileTypes
<1>10. NextPicked' /\ OffHartPicksNone' /\ NoneLost'
  BY <1>0, <1>1, <1>2, <1>6 DEF FileInv, NextPicked, OffHartPicksNone, NoneLost, Picked, FileTypes
<1>11. Exits'
  BY <1>0, <1>1, <1>2, <1>6 DEF FileInv, Exits, FileTypes
<1>12. IdleYields' /\ NoneHangs'
  BY <1>0, <1>1, <1>2 DEF FileInv, IdleYields, NoneHangs, FileTypes
<1> QED BY <1>7, <1>8, <1>9, <1>10, <1>11, <1>12 DEF FileInv

LEMMA CondWaits ==
    ASSUME TypeInv, HartInv, FileInv, WtPush
    PROVE  FileInv'
<1> DEFINE q == cwait[cnd[cpu]]
<1>0. FileTypes /\ q \in Seq(Threads)
  BY Types DEF FileTypes
<1>1. /\ pc[cpu] = "wt_push" /\ running = cpu
      /\ pc' = [pc EXCEPT ![cpu] = "sw_off"]
      /\ swRet' = [swRet EXCEPT ![cpu] = "wt_on"]
      /\ cwait' = [cwait EXCEPT ![cnd[cpu]] = Append(q, cpu)]
      /\ UNCHANGED <<ready, mwait, state, cpu, nxt, trapped, op, mtx, cnd>>
  BY DEF WtPush, At, Switch, Goto, HartInv, ControlInv, OwnStack, hartVars, tcbVars, listVars, mutexVars
<1>2. ~Listed(cpu) /\ state[cpu] # "FINISHED" /\ cpu # Idle /\ nxt[cpu] = NoThread
  BY <1>0, <1>1 DEF FileInv, OnHart, Exits, IdleYields, NextPicked, Picked, Placing, Leaving,
     SwLabels, FileTypes
<1>3. /\ \A t : In(t, Append(q, cpu)) <=> In(t, q) \/ t = cpu
      /\ Distinct(Append(q, cpu))
  <2>1. Distinct(q) /\ ~In(cpu, q)
    BY <1>0, <1>2 DEF FileInv, ListsDistinct, Listed, Blocked, FileTypes
  <2> QED BY <1>0, <2>1, Appended DEF FileTypes
<1> HIDE DEF q
<1>4. \A c \in Conds : cwait'[c] = IF c = cnd[cpu] THEN Append(q, cpu) ELSE cwait[c]
  BY <1>0, <1>1 DEF FileTypes
<1>5. \A t, c : c \in Conds => (In(t, cwait'[c]) <=> In(t, cwait[c]) \/ (t = cpu /\ c = cnd[cpu]))
  BY <1>3, <1>4 DEF q
<1>6. \A t : Listed(t)' <=> Listed(t) \/ t = cpu
  BY <1>0, <1>1, <1>5 DEF Listed, Blocked, FileTypes
<1>7. ListsDistinct'
  BY <1>1, <1>3, <1>4 DEF FileInv, ListsDistinct
<1>8. Waiters'
  <2> SUFFICES ASSUME NEW t \in Threads
               PROVE  /\ \A m \in Mutexes : In(t, mwait'[m])
                             => mtx'[t] = m /\ swRet'[t] = "lk_on" /\ ~In(t, ready')
                      /\ \A c \in Conds : In(t, cwait'[c])
                             => cnd'[t] = c /\ swRet'[t] = "wt_on" /\ ~In(t, ready')
    BY DEF Waiters
  <2>1. CASE t = cpu
    BY <1>0, <1>1, <1>2, <1>5, <2>1 DEF Listed, Blocked, FileTypes
  <2>2. CASE t # cpu
    BY <1>0, <1>1, <1>5, <2>2 DEF FileInv, Waiters, FileTypes
  <2> QED BY <2>1, <2>2
<1>9. OnHart'
  BY <1>0, <1>1, <1>2, <1>6 DEF OnHart, Listed, Placing, Leaving, FileTypes
<1>10. NextPicked' /\ OffHartPicksNone' /\ NoneLost'
  BY <1>0, <1>1, <1>2, <1>6 DEF FileInv, NextPicked, OffHartPicksNone, NoneLost, Picked, FileTypes
<1>11. Exits'
  BY <1>0, <1>1, <1>2, <1>6 DEF FileInv, Exits, FileTypes
<1>12. IdleYields' /\ NoneHangs'
  BY <1>0, <1>1, <1>2 DEF FileInv, IdleYields, NoneHangs, FileTypes
<1> QED BY <1>7, <1>8, <1>9, <1>10, <1>11, <1>12 DEF FileInv

-----------------------------------------------------------------------------
(* A thread on the hart takes another one off a waiting list and makes it     *)
(* ready; LocalFrom says that it is inside no switch itself.                  *)
WakeOne(h) ==
    /\ Blocked(h) /\ ready' = Append(ready, h) /\ state' = [state EXCEPT ![h] = "READY"]
    /\ \A t : \A m \in Mutexes : In(t, mwait'[m]) => In(t, mwait[m]) /\ t # h
    /\ \A t : \A c \in Conds : In(t, cwait'[c]) => In(t, cwait[c]) /\ t # h
    /\ \A t : Blocked(t) /\ t # h => Blocked(t)'
    /\ \A m \in Mutexes : Distinct(mwait'[m])
    /\ \A c \in Conds : Distinct(cwait'[c])
Apart ==
    /\ {pc[cpu], pc'[cpu]} \subseteq LocalFrom /\ cpu # Idle
    /\ UNCHANGED <<cpu, nxt, trapped, swRet, op, mtx, cnd>>
    /\ \A t \in Threads \ {cpu} : pc'[t] = pc[t]

LEMMA WakeFiles ==
    ASSUME TypeInv, HartInv, FileInv, Apart, NEW h \in Threads, WakeOne(h)
    PROVE  FileInv'
<1> USE DEF Apart
<1>0. FileTypes
  BY Types
<1>1. /\ ~Listed(cpu) /\ nxt[cpu] = NoThread /\ state[cpu] # "FINISHED" /\ swRet[cpu] # "dead"
  BY <1>0 DEF FileInv, OnHart, NextPicked, Exits, LocalFrom, Picked, Placing, Leaving, FileTypes
<1>2. h # cpu /\ ~In(h, ready) /\ state[h] # "FINISHED" /\ h # Idle
      /\ swRet[h] \in {"lk_on", "wt_on"}
  BY <1>0, <1>1 DEF WakeOne, FileInv, Waiters, Exits, Listed, Blocked, IdleYields
<1>3. /\ \A t : In(t, ready') <=> In(t, ready) \/ t = h
      /\ Distinct(ready')
  BY <1>0, <1>2, Appended DEF WakeOne, FileInv, ListsDistinct, FileTypes
<1>4. /\ \A t \in Threads : state'[t] = IF t = h THEN "READY" ELSE state[t]
  BY <1>0 DEF WakeOne, FileTypes
<1>5. \A t : Blocked(t)' <=> Blocked(t) /\ t # h
  BY DEF WakeOne, Blocked
<1>6. \A t : Listed(t)' <=> Listed(t)
  BY <1>3, <1>5 DEF Listed, WakeOne
<1>7. ListsDistinct'
  BY <1>3 DEF ListsDistinct, WakeOne
<1>8. Waiters'
  <2> SUFFICES ASSUME NEW t \in Threads
               PROVE  /\ \A m \in Mutexes : In(t, mwait'[m])
                             => mtx'[t] = m /\ swRet'[t] = "lk_on" /\ ~In(t, ready')
                      /\ \A c \in Conds : In(t, cwait'[c])
                             => cnd'[t] = c /\ swRet'[t] = "wt_on" /\ ~In(t, ready')
    BY DEF Waiters
  <2> QED BY ZenonT(60), <1>3 DEF WakeOne, FileInv, Waiters
<1>9. OnHart'
  BY <1>1, <1>6 DEF OnHart, Listed, LocalFrom, Placing, Leaving
<1>10. NextPicked' /\ OffHartPicksNone'
  BY <1>1 DEF FileInv, NextPicked, OffHartPicksNone, Picked, LocalFrom, Placing, Leaving
<1>11. NoneLost'
  BY <1>4, <1>6 DEF FileInv, NoneLost, WakeOne, Listed
<1>12. Exits'
  BY <1>0, <1>1, <1>2, <1>4, <1>6 DEF FileInv, Exits
<1>13. IdleYields' /\ NoneHangs'
  BY <1>0 DEF FileInv, IdleYields, NoneHangs, LocalFrom, FileTypes
<1> QED BY <1>7, <1>8, <1>9, <1>10, <1>11, <1>12, <1>13 DEF FileInv

(* unlock, on its own and within wait: the first waiter, if there is one.     *)
LEMMA UnlockWakes ==
    ASSUME TypeInv, HartInv, CountInv, FileInv, UlBody \/ WtUnlock, UNCHANGED condVars
    PROVE  FileInv'
<1> DEFINE q == mwait[mtx[cpu]]
<1>0. FileTypes /\ q \in Seq(Threads)
  BY Types DEF FileTypes
<1>1. /\ UnlockBody(mtx[cpu])
      /\ UNCHANGED <<cpu, nxt, trapped, swRet, op, mtx, cnd, cwait>>
      /\ pc[cpu] \in {"ul_body", "wt_unlock"}
      /\ \E l \in {"ul_on", "wt_push"} : pc' = [pc EXCEPT ![cpu] = l]
  BY DEF UlBody, WtUnlock, At, Goto, hartVars, swVars, condVars
<1>2. Apart
  BY <1>0, <1>1 DEF Apart, LocalFrom, Labels, OffLabels, Placing, Leaving, FileInv, IdleYields,
     SwLabels, FileTypes
<1>3. CASE q = <<>>
  <2>1. UNCHANGED <<mwait, state, ready>>
    BY <1>1, <1>3 DEF UnlockBody
  <2>2. Alike
    BY <1>1, <1>2, <2>1 DEF Alike, Apart
  <2>3. ~Listed(cpu) /\ swRet[cpu] # "dead"
    BY <1>0, <1>2 DEF Apart, FileInv, OnHart, Exits, LocalFrom, Placing, Leaving, FileTypes
  <2> QED BY <1>0, <1>1, <1>2, <2>2, <2>3, LocalFile DEF Apart
<1>4. CASE q # <<>>
  <2> DEFINE h == Head(q)
  <2>1. /\ ready' = Append(ready, h) /\ state' = [state EXCEPT ![h] = "READY"]
        /\ mwait' = [mwait EXCEPT ![mtx[cpu]] = Tail(q)]
    BY <1>1, <1>4 DEF UnlockBody, Resume
  <2>2. /\ \A t : In(t, Tail(q)) <=> In(t, q) /\ t # h
        /\ Distinct(Tail(q))
        /\ h \in Threads /\ In(h, q)
    <3>1. Distinct(q)
      BY <1>0 DEF FileInv, ListsDistinct, FileTypes
    <3> QED BY <1>0, <1>4, <3>1, Popped, InFirst
  <2> HIDE DEF q, h
  <2>3. \A m \in Mutexes : mwait'[m] = IF m = mtx[cpu] THEN Tail(q) ELSE mwait[m]
    BY <1>0, <2>1 DEF FileTypes
  <2>4. mtx[cpu] \in Mutexes /\ q = mwait[mtx[cpu]] /\ In(h, mwait[mtx[cpu]])
    BY <1>0, <2>2 DEF FileTypes, q
  <2>5. /\ \A m \in Mutexes : In(h, mwait[m]) => m = mtx[cpu]
        /\ \A c \in Conds : ~In(h, cwait[c])
    BY <2>2, <2>4 DEF FileInv, Waiters
  <2>6. \A t : \A m \in Mutexes : In(t, mwait'[m]) <=> In(t, mwait[m]) /\ t # h
    BY <2>2, <2>3, <2>4, <2>5
  <2>7. \A t : Blocked(t) /\ t # h => Blocked(t)'
    BY <1>1, <2>6 DEF Blocked
  <2>8. WakeOne(h)
    BY <1>1, <2>1, <2>2, <2>3, <2>4, <2>5, <2>6, <2>7 DEF WakeOne, Blocked, FileInv, ListsDistinct
  <2> QED BY <1>2, <2>2, <2>8, WakeFiles
<1> QED BY <1>3, <1>4

(* A notification: the first waiter of the condition variable.                *)
LEMMA NotifyWakes ==
    ASSUME TypeInv, HartInv, CountInv, FileInv, NoPop
    PROVE  FileInv'
<1> DEFINE q == cwait[cnd[cpu]]
<1>0. FileTypes /\ q \in Seq(Threads)
  BY Types DEF FileTypes
<1>1. /\ UNCHANGED <<cpu, nxt, trapped, swRet, op, mtx, cnd, mwait>>
      /\ pc[cpu] = "no_pop" /\ pc' = [pc EXCEPT ![cpu] = "no_on"]
  BY DEF NoPop, At, Goto, hartVars, swVars, mutexVars
<1>2. Apart
  BY <1>0, <1>1 DEF Apart, LocalFrom, Labels, OffLabels, Placing, Leaving, FileInv, IdleYields,
     SwLabels, FileTypes
<1>3. CASE q = <<>>
  <2>1. UNCHANGED <<cwait, state, ready>>
    BY <1>3 DEF NoPop
  <2>2. Alike
    BY <1>1, <1>2, <2>1 DEF Alike, Apart
  <2>3. ~Listed(cpu) /\ swRet[cpu] # "dead"
    BY <1>0, <1>2 DEF Apart, FileInv, OnHart, Exits, LocalFrom, Placing, Leaving, FileTypes
  <2> QED BY <1>0, <1>1, <1>2, <2>2, <2>3, LocalFile DEF Apart
<1>4. CASE q # <<>>
  <2> DEFINE h == Head(q)
  <2>1. /\ ready' = Append(ready, h) /\ state' = [state EXCEPT ![h] = "READY"]
        /\ cwait' = [cwait EXCEPT ![cnd[cpu]] = Tail(q)]
    BY <1>4 DEF NoPop, Resume
  <2>2. /\ \A t : In(t, Tail(q)) <=> In(t, q) /\ t # h
        /\ Distinct(Tail(q))
        /\ h \in Threads /\ In(h, q)
    <3>1. Distinct(q)
      BY <1>0 DEF FileInv, ListsDistinct, FileTypes
    <3> QED BY <1>0, <1>4, <3>1, Popped, InFirst
  <2> HIDE DEF q, h
  <2>3. \A c \in Conds : cwait'[c] = IF c = cnd[cpu] THEN Tail(q) ELSE cwait[c]
    BY <1>0, <2>1 DEF FileTypes
  <2>4. cnd[cpu] \in Conds /\ q = cwait[cnd[cpu]] /\ In(h, cwait[cnd[cpu]])
    BY <1>0, <2>2 DEF FileTypes, q
  <2>5. /\ \A c \in Conds : In(h, cwait[c]) => c = cnd[cpu]
        /\ \A m \in Mutexes : ~In(h, mwait[m])
    BY <2>2, <2>4 DEF FileInv, Waiters
  <2>6. \A t : \A c \in Conds : In(t, cwait'[c]) <=> In(t, cwait[c]) /\ t # h
    BY <2>2, <2>3, <2>4, <2>5
  <2>7. \A t : Blocked(t) /\ t # h => Blocked(t)'
    BY <1>1, <2>6 DEF Blocked
  <2>8. WakeOne(h)
    BY <1>1, <2>1, <2>2, <2>3, <2>4, <2>5, <2>6, <2>7 DEF WakeOne, Blocked, FileInv, ListsDistinct
  <2> QED BY <1>2, <2>2, <2>8, WakeFiles
<1> QED BY <1>3, <1>4

(* A new thread is filed as ready, and was filed nowhere before.              *)
LEMMA NewFiles ==
    ASSUME TypeInv, HartInv, CountInv, FileInv, CrNew, UNCHANGED <<mutexVars, condVars>>
    PROVE  FileInv'
<1>0. FileTypes
  BY Types
<1>1. /\ pc[cpu] = "cr_new"
      /\ UNCHANGED <<cpu, nxt, trapped, swRet, op, mtx, cnd, mwait, cwait>>
  BY DEF CrNew, At, hartVars, swVars, mutexVars, condVars
<1>2. /\ ~Listed(cpu) /\ nxt[cpu] = NoThread /\ state[cpu] # "FINISHED" /\ swRet[cpu] # "dead"
      /\ cpu # Idle
  BY <1>0, <1>1 DEF FileInv, OnHart, NextPicked, Exits, Picked, Placing, Leaving, FileTypes,
     IdleYields, SwLabels
<1>3. CASE \E t \in Threads : state[t] = "INIT"
  <2>1. PICK h \in Threads :
           /\ state[h] = "INIT" /\ state' = [state EXCEPT ![h] = "READY"]
           /\ ready' = Append(ready, h)
           /\ pc' = [pc EXCEPT ![h] = "stub", ![cpu] = "cr_on"]
    BY <1>3 DEF CrNew
  <2>2. pc[h] = "none" /\ ~Listed(h) /\ h # cpu /\ h # Idle
    <3>1. pc[h] = "none"
      BY <2>1 DEF HartInv, ControlInv, UnbornIdle
    <3> QED BY <1>1, <2>1, <3>1, ListedBorn DEF FileInv, IdleYields, SwLabels
  <2>3. /\ pc'[h] = "stub" /\ pc'[cpu] = "cr_on" /\ \A t \in Threads \ {h, cpu} : pc'[t] = pc[t]
        /\ \A t \in Threads : state'[t] = IF t = h THEN "READY" ELSE state[t]
    BY <1>0, <2>1, <2>2 DEF FileTypes
  <2>4. /\ \A t : In(t, ready') <=> In(t, ready) \/ t = h
        /\ Distinct(ready')
    BY <1>0, <2>1, <2>2, Appended DEF FileInv, ListsDistinct, FileTypes, Listed
  <2>5. \A t : Listed(t)' <=> Listed(t) \/ t = h
    BY <1>1, <2>4 DEF Listed, Blocked
  <2>6. ListsDistinct'
    BY <1>1, <2>4 DEF FileInv, ListsDistinct
  <2>7. Waiters'
    BY <1>1, <2>2, <2>4 DEF FileInv, Waiters, Listed, Blocked
  <2>8. OnHart'
    BY <1>1, <1>2, <2>2, <2>3, <2>5 DEF OnHart, Listed, Placing, Leaving
  <2>9. NextPicked' /\ OffHartPicksNone'
    BY <1>1, <1>2, <2>3 DEF FileInv, NextPicked, OffHartPicksNone, Picked
  <2>10. NoneLost'
    <3>1. \A t \in Threads \ {cpu} : t # nxt[cpu] /\ state'[t] \notin {"INIT", "FINISHED"} => Listed(t)'
      BY <2>3, <2>5 DEF FileInv, NoneLost
    <3> QED BY <1>1, <3>1 DEF NoneLost
  <2>11. Exits'
    <3>1. swRet[h] # "dead"
      BY <2>2 DEF FileInv, Exits, Placing, Leaving
    <3>2. \A t \in Threads : state'[t] = "FINISHED" => t # h /\ t # cpu /\ state[t] = "FINISHED"
      BY <1>0, <1>2, <2>2, <2>3 DEF FileTypes
    <3>3. \A t \in Threads : swRet[t] = "dead" => t # h /\ t # cpu
      BY <1>2, <3>1
    <3>4. \A t \in Threads : t # h /\ t # cpu => pc'[t] = pc[t] /\ state'[t] = state[t]
                                               /\ (Listed(t)' <=> Listed(t))
      BY <2>3, <2>5
    <3> QED BY <1>1, <3>2, <3>3, <3>4 DEF FileInv, Exits
  <2>12. IdleYields' /\ NoneHangs'
    <3>1. pc'[Idle] = pc[Idle]
      BY <1>0, <1>2, <2>2, <2>3 DEF FileTypes
    <3>2. IdleYields'
      BY <1>1, <3>1 DEF FileInv, IdleYields
    <3>3. NoneHangs'
      BY <2>3 DEF FileInv, NoneHangs
    <3> QED BY <3>2, <3>3
  <2> QED BY <2>6, <2>7, <2>8, <2>9, <2>10, <2>11, <2>12 DEF FileInv
<1>4. CASE ~\E t \in Threads : state[t] = "INIT"
  <2>1. pc' = [pc EXCEPT ![cpu] = "cr_on"] /\ UNCHANGED <<state, ready>>
    BY <1>4 DEF CrNew, Goto
  <2>2. Alike /\ pc'[cpu] = "cr_on"
    BY <1>0, <1>1, <2>1 DEF Alike, FileTypes
  <2> QED BY <1>1, <1>2, <2>2, LocalFile DEF LocalFrom, Labels, OffLabels, Placing, Leaving
<1> QED BY <1>3, <1>4

-----------------------------------------------------------------------------
(* Outside the picked part of a switch, the idle thread is ready whenever it  *)
(* does not run itself: the ready list is never empty for another thread.     *)
LEMMA IdleReady ==
    ASSUME TypeInv, HartInv, FileInv
    PROVE  /\ ~Blocked(Idle)
           /\ cpu # Idle /\ nxt[cpu] = NoThread => In(Idle, ready) /\ ready # <<>>
<1>0. FileTypes
  BY Types
<1>1. ~Blocked(Idle)
  BY <1>0 DEF FileInv, IdleYields, Waiters, Blocked, FileTypes
<1>2. state[Idle] \notin {"INIT", "FINISHED"}
  BY <1>0 DEF FileInv, IdleYields, Exits, HartInv, ControlInv, UnbornIdle, SwLabels, FileTypes
<1>3. ASSUME cpu # Idle, nxt[cpu] = NoThread PROVE In(Idle, ready)
  BY <1>0, <1>1, <1>2, <1>3 DEF FileInv, NoneLost, Listed, FileTypes
<1> QED BY <1>0, <1>1, <1>3, InFirst DEF FileTypes

(* The pick: an empty list stops only the idle thread, and a thread never     *)
(* picks itself.                                                              *)
LEMMA PickFiles ==
    ASSUME TypeInv, HartInv, CountInv, FileInv, SwPick, UNCHANGED <<mutexVars, condVars>>
    PROVE  FileInv'
<1>0. FileTypes
  BY Types
<1>1. /\ pc[cpu] = "sw_pick" /\ running = cpu
      /\ UNCHANGED <<cpu, trapped, swRet, op, mtx, cnd, mwait, cwait, state>>
  BY DEF SwPick, At, HartInv, ControlInv, OwnStack, hartVars, tcbVars, mutexVars, condVars
<1>2. nxt[cpu] = NoThread /\ state[cpu] # "FINISHED"
  BY <1>0, <1>1 DEF FileInv, NextPicked, Exits, Picked, Leaving, FileTypes
<1>3. CASE ready = <<>>
  <2>1. cpu = Idle
    BY <1>2, <1>3, IdleReady
  <2>2. ~Listed(cpu) /\ swRet[cpu] = "return"
    <3>1. ~In(cpu, ready)
      BY <1>3, InFirst DEF In
    <3>2. swRet[cpu] # "none"
      BY <1>0, <1>1 DEF HartInv, ControlInv, SyscallLabels, CallOf, SwLabels, FileTypes
    <3> QED BY <2>1, <3>1, <3>2, IdleReady DEF Listed, FileInv, IdleYields
  <2>3. pc' = [pc EXCEPT ![cpu] = "sw_on"] /\ UNCHANGED <<ready, nxt>>
    BY <1>3 DEF SwPick, Goto
  <2>4. Alike /\ pc'[cpu] = "sw_on"
    BY <1>0, <1>1, <2>3 DEF Alike, FileTypes
  <2> QED BY <1>1, <2>1, <2>2, <2>4, LocalFile
    DEF LocalFrom, Labels, SwLabels, Placing, Leaving, FileInv, IdleYields
<1>4. CASE ready # <<>>
  <2> DEFINE h == Head(ready)
  <2>1. h \in Threads /\ In(h, ready) /\ Tail(ready) \in Seq(Threads)
        /\ (\A t : In(t, Tail(ready)) <=> In(t, ready) /\ t # h) /\ Distinct(Tail(ready))
    BY <1>0, <1>4, InFirst, Popped, HeadTailProperties DEF FileTypes, FileInv, ListsDistinct
  <2>2. h # cpu
    BY <1>1, <2>1 DEF FileInv, OnHart
  <2>3. /\ ready' = Tail(ready) /\ nxt' = [nxt EXCEPT ![cpu] = h]
        /\ pc' = [pc EXCEPT ![cpu] = "sw_put"]
    BY <1>1, <1>4, <2>2 DEF SwPick, Goto
  <2> HIDE DEF h
  <2>4. /\ pc'[cpu] = "sw_put" /\ nxt'[cpu] = h
        /\ \A t \in Threads \ {cpu} : pc'[t] = pc[t] /\ nxt'[t] = nxt[t]
    BY <1>0, <2>3 DEF FileTypes
  <2>5. ~Blocked(h) /\ state[h] # "FINISHED"
    BY <2>1 DEF FileInv, Waiters, Exits, Blocked, Listed
  <2>6. \A t : Listed(t)' <=> Listed(t) /\ t # h
    BY <1>1, <2>1, <2>3, <2>5 DEF Listed, Blocked
  <2>7. ListsDistinct' /\ Waiters'
    BY <1>1, <2>1, <2>3 DEF FileInv, ListsDistinct, Waiters
  <2>8. OnHart'
    BY <1>1, <2>1, <2>2, <2>3, <2>4, <2>6 DEF FileInv, OnHart, Placing, Leaving
  <2>9. NextPicked' /\ OffHartPicksNone'
    BY <1>1, <2>4, <2>5, <2>6 DEF FileInv, NextPicked, OffHartPicksNone, Picked
  <2>10. NoneLost'
    <3>1. \A t \in Threads \ {cpu} : state[t] \notin {"INIT", "FINISHED"} => Listed(t)
      BY <1>0, <1>2 DEF FileInv, NoneLost, FileTypes
    <3>2. \A t \in Threads \ {cpu} : t # h /\ state[t] \notin {"INIT", "FINISHED"} => Listed(t)'
      BY <2>6, <3>1
    <3> QED BY <1>1, <2>4, <3>2 DEF NoneLost
  <2>11. Exits'
    BY <1>1, <1>2, <2>4, <2>6 DEF FileInv, Exits, Placing, Leaving
  <2>12. IdleYields'
    BY <1>0, <1>1, <2>4 DEF FileInv, IdleYields, SwLabels, FileTypes
  <2>13. NoneHangs'
    BY <1>1, <2>4 DEF FileInv, NoneHangs
  <2> QED BY <2>7, <2>8, <2>9, <2>10, <2>11, <2>12, <2>13 DEF FileInv
<1> QED BY <1>3, <1>4

(* The thread that leaves is filed by what it asked for.                      *)
LEMMA PutFiles ==
    ASSUME TypeInv, HartInv, CountInv, FileInv, SwPut, UNCHANGED <<mutexVars, condVars>>
    PROVE  FileInv'
<1> DEFINE n == nxt[cpu]
           r == swRet[cpu]
<1>0. /\ FileTypes /\ CountTypes /\ Fits(pc[cpu], swRet[cpu], preempt[cpu])
  BY Types, Counting
<1>1. /\ pc[cpu] = "sw_put" /\ running = cpu /\ cur[cpu] = cpu
      /\ n \in Threads /\ n # cpu
      /\ UNCHANGED <<cpu, nxt, trapped, swRet, op, mtx, cnd, mwait, cwait>>
  BY <1>0 DEF SwPut, At, HartInv, ControlInv, OwnStack, SwitchLocals, Picked, Born, hartVars, swVars,
     mutexVars, condVars, CountTypes
<1>2. ~AllowPreemption
  BY <1>0, <1>1 DEF AllowPreemption, Fits, Depth, SwLabels, CountTypes
<1>3. /\ pc' = [pc EXCEPT ![cpu] = "sw_dis"]
      /\ state' = [state EXCEPT ![cpu] = SwitchState, ![n] = "RUNNING"]
      /\ ready' = IF SwitchState = "READY" THEN Append(ready, cpu) ELSE ready
  BY <1>1, <1>2 DEF SwPut, Goto
<1>4. r \in {"return", "lk_on", "wt_on", "dead"}
  BY <1>0, <1>1 DEF HartInv, ControlInv, SyscallLabels, CallOf, SwLabels, FileTypes, SwRets
<1>5. SwitchState = CASE r = "return" -> "READY" [] r = "dead" -> "FINISHED"
                      [] r \in {"lk_on", "wt_on"} -> "WAITING"
  BY <1>4 DEF SwitchState
<1>6. /\ ~Listed(n) /\ state[n] # "FINISHED" /\ state[cpu] # "FINISHED"
  BY <1>0, <1>1 DEF FileInv, NextPicked, Exits, Picked, Leaving, FileTypes
<1>7. IF r \in {"return", "dead"} THEN ~Listed(cpu) ELSE Listed(cpu)
  <2>1. r \in {"return", "dead"} => ~Blocked(cpu)
    BY <1>0 DEF FileInv, Waiters, Blocked, FileTypes
  <2>2. r \in {"return", "dead"} => ~In(cpu, ready)
    BY <1>1 DEF FileInv, OnHart, Leaving
  <2>3. r \in {"lk_on", "wt_on"} => Listed(cpu)
    BY <1>1 DEF FileInv, OnHart, Placing
  <2> QED BY <1>4, <2>1, <2>2, <2>3 DEF Listed
<1>8. /\ \A t : In(t, ready') <=> In(t, ready) \/ (t = cpu /\ r = "return")
      /\ Distinct(ready')
  BY <1>0, <1>3, <1>4, <1>5, <1>7, Appended DEF FileTypes, FileInv, ListsDistinct, Listed
<1>9. \A t : Listed(t)' <=> Listed(t) \/ (t = cpu /\ r = "return")
  BY <1>1, <1>8 DEF Listed, Blocked
<1>10. /\ pc'[cpu] = "sw_dis" /\ state'[n] = "RUNNING"
       /\ state'[cpu] = CASE r = "return" -> "READY" [] r = "dead" -> "FINISHED"
                          [] r \in {"lk_on", "wt_on"} -> "WAITING"
       /\ \A t \in Threads \ {cpu} : pc'[t] = pc[t]
       /\ \A t \in Threads \ {cpu, n} : state'[t] = state[t]
  BY <1>0, <1>1, <1>3, <1>5 DEF FileTypes
<1> HIDE DEF n, r
<1>11. n = nxt[cpu] /\ r = swRet[cpu]
  BY DEF n, r
<1>12. ListsDistinct'
  BY <1>1, <1>8 DEF FileInv, ListsDistinct
<1>13. Waiters'
  BY <1>1, <1>4, <1>8, <1>11 DEF FileInv, Waiters
<1>14. OnHart'
  <2>1. In(cpu, ready') => r \in {"wt_on", "return"}
    BY <1>1, <1>8, <1>11 DEF FileInv, OnHart
  <2>2. state'[cpu] = "FINISHED" \/ Listed(cpu) \/ r = "return"
    BY <1>4, <1>7, <1>10
  <2> QED BY <1>1, <1>9, <1>10, <1>11, <2>1, <2>2 DEF OnHart, Placing, Leaving
<1>15. NextPicked' /\ OffHartPicksNone'
  BY <1>1, <1>6, <1>9, <1>10, <1>11 DEF FileInv, NextPicked, OffHartPicksNone, Picked
<1>16. NoneLost'
  <2>1. \A t \in Threads \ {cpu} : t # n /\ state'[t] \notin {"INIT", "FINISHED"} => Listed(t)'
    BY <1>9, <1>10, <1>11 DEF FileInv, NoneLost
  <2> QED BY <1>1, <1>11, <2>1 DEF NoneLost
<1>17. Exits'
  <2>1. \A t \in Threads \ {cpu, n} : state'[t] = state[t] /\ pc'[t] = pc[t] /\ (Listed(t)' <=> Listed(t))
    BY <1>9, <1>10
  <2>2. state'[n] # "FINISHED" /\ pc'[n] = pc[n]
    BY <1>1, <1>10
  <2>3. state'[cpu] = "FINISHED" => r = "dead" /\ ~Listed(cpu)
    BY <1>4, <1>7, <1>10
  <2>4. \A t : r # "return" \/ t # cpu => (Listed(t)' <=> Listed(t))
    BY <1>9
  <2> SUFFICES ASSUME NEW t \in Threads
               PROVE  /\ state'[t] = "FINISHED" =>
                            /\ ~Listed(t)' /\ swRet[t] = "dead"
                            /\ IF t = cpu THEN pc'[t] \in Leaving
                                          ELSE pc'[t] = "sw_en" /\ t \notin trapped
                      /\ swRet[t] = "dead" =>
                            pc'[t] \in Placing \cup Leaving
                            \/ (pc'[t] = "sw_en" /\ t # cpu /\ state'[t] = "FINISHED")
    BY <1>1 DEF Exits
  <2>5. CASE t = cpu
    BY <1>10, <1>11, <2>3, <2>4, <2>5 DEF Leaving
  <2>6. CASE t = n
    BY <1>1, <1>6, <2>2, <2>6 DEF FileInv, Exits
  <2>7. CASE t \notin {cpu, n}
    BY <2>1, <2>7 DEF FileInv, Exits
  <2> QED BY <2>5, <2>6, <2>7
<1>18. IdleYields' /\ NoneHangs'
  BY <1>0, <1>1, <1>10 DEF FileInv, IdleYields, NoneHangs, SwLabels, FileTypes
<1> QED BY <1>12, <1>13, <1>14, <1>15, <1>16, <1>17, <1>18 DEF FileInv

(* The hart is handed on; the thread that leaves it is finished or filed.     *)
LEMMA HandFiles ==
    ASSUME TypeInv, HartInv, CountInv, FileInv, SwCtx, UNCHANGED <<mutexVars, condVars>>
    PROVE  FileInv'
<1> DEFINE n == nxt[cpu]
<1>0. FileTypes
  BY Types
<1>1. /\ pc[cpu] = "sw_ctx" /\ cpu \notin trapped
      /\ n \in Threads /\ n # cpu /\ cpu' = n
      /\ pc' = [pc EXCEPT ![cpu] = "sw_en"] /\ nxt' = [nxt EXCEPT ![cpu] = NoThread]
      /\ UNCHANGED <<trapped, swRet, op, mtx, cnd, mwait, cwait, state, ready>>
  BY <1>0 DEF SwCtx, At, Goto, HartInv, ControlInv, OwnStack, SwitchLocals, Picked, Born,
     listVars, tcbVars, mutexVars, condVars, FileTypes
<1> HIDE DEF n
<1>2. /\ n = nxt[cpu] /\ pc'[cpu] = "sw_en" /\ nxt'[cpu] = NoThread
      /\ \A t \in Threads \ {cpu} : pc'[t] = pc[t] /\ nxt'[t] = NoThread
  BY <1>0, <1>1 DEF FileInv, OffHartPicksNone, FileTypes, n
<1>3. ~Listed(n) /\ state[n] # "FINISHED" /\ pc[n] \notin Picked \cup {"sw_pick"}
      /\ (pc[n] = "sw_off" => swRet[n] \notin {"lk_on", "wt_on"})
  BY <1>1, <1>2, OffHart DEF FileInv, NextPicked, Picked
<1>4. \A t : Listed(t)' <=> Listed(t)
  BY <1>1 DEF Listed, Blocked
<1>5. ListsDistinct' /\ Waiters'
  BY <1>1 DEF FileInv, ListsDistinct, Waiters
<1>6. OnHart'
  BY <1>1, <1>2, <1>3, <1>4 DEF OnHart, Placing, Leaving, Picked, Listed
<1>7. NextPicked' /\ OffHartPicksNone'
  BY <1>1, <1>2, <1>3 DEF NextPicked, OffHartPicksNone
<1>8. state[cpu] = "FINISHED" \/ Listed(cpu)
  BY <1>1 DEF FileInv, OnHart, Leaving
<1>9. NoneLost'
  BY <1>1, <1>2, <1>4, <1>8 DEF FileInv, NoneLost
<1>10. Exits'
  <2>1. Listed(cpu) => swRet[cpu] # "dead"
    BY <1>0 DEF FileInv, OnHart, Waiters, Listed, Blocked, FileTypes
  <2> QED BY <1>1, <1>2, <1>3, <1>4, <1>8, <2>1 DEF FileInv, Exits
<1>11. IdleYields' /\ NoneHangs'
  BY <1>0, <1>1, <1>2 DEF FileInv, IdleYields, NoneHangs, SwLabels, FileTypes
<1> QED BY <1>5, <1>6, <1>7, <1>9, <1>10, <1>11 DEF FileInv

(* Leaving the handler moves nothing.                                         *)
LEMMA ReturnFiles ==
    ASSUME FileInv, HandlerReturn, UNCHANGED <<mutexVars, condVars>>
    PROVE  FileInv'
<1>1. /\ UNCHANGED <<cpu, pc, nxt, swRet, op, mtx, cnd, mwait, cwait, state, ready>>
      /\ trapped' \subseteq trapped
  BY DEF HandlerReturn, tcbVars, listVars, swVars, mutexVars, condVars
<1>2. \A t : Listed(t)' <=> Listed(t)
  BY <1>1 DEF Listed, Blocked
<1>3. ListsDistinct' /\ Waiters' /\ OnHart' /\ NextPicked' /\ OffHartPicksNone'
  BY <1>1, <1>2 DEF FileInv, ListsDistinct, Waiters, OnHart, NextPicked, OffHartPicksNone
<1>4. NoneLost' /\ Exits' /\ IdleYields' /\ NoneHangs'
  BY <1>1, <1>2 DEF FileInv, NoneLost, Exits, IdleYields, NoneHangs
<1> QED BY <1>3, <1>4 DEF FileInv

-----------------------------------------------------------------------------
(* A handler makes the threads of W ready, all of them waiting for the tick,  *)
(* and then preempts the thread on the hart or goes on.                       *)
Wakes(W, rdy, st) ==
    /\ rdy \in Seq(Threads) /\ st \in [Threads -> States]
    /\ \A t : In(t, rdy) <=> In(t, ready) \/ t \in W
    /\ Distinct(rdy) /\ (ready # <<>> => Head(rdy) = Head(ready))
    /\ \A t \in Threads : st[t] = IF t \in W THEN "READY" ELSE state[t]
    /\ \A t \in W : t \in Threads /\ \E c \in Conds : In(t, cwait[c])
    /\ \A t : \A c \in Conds : In(t, cwait'[c]) <=> In(t, cwait[c]) /\ t \notin W
    /\ \A c \in Conds : Distinct(cwait'[c])
    /\ UNCHANGED <<mwait, mtx, cnd, swRet, op, nxt>>

LEMMA WokenFacts ==
    ASSUME FileInv, NEW W, NEW rdy, NEW st, Wakes(W, rdy, st), NEW t \in W
    PROVE  /\ t \in Threads /\ Listed(t) /\ swRet[t] = "wt_on" /\ ~In(t, ready)
           /\ \A m \in Mutexes : ~In(t, mwait[m])
           /\ state[t] # "FINISHED"
<1>1. PICK c \in Conds : t \in Threads /\ In(t, cwait[c])
  BY DEF Wakes
<1> QED BY <1>1 DEF FileInv, Waiters, Exits, Listed, Blocked

LEMMA GoesOnFiles ==
    ASSUME TypeInv, HartInv, CountInv, FileInv, NEW W, NEW rdy, NEW st, Wakes(W, rdy, st),
           ready' = rdy, state' = st, UNCHANGED <<cpu, trapped, pc>>
    PROVE  FileInv'
<1>0. FileTypes
  BY Types
<1>1. UNCHANGED <<mwait, mtx, cnd, swRet, op, nxt>>
  BY DEF Wakes
<1>2. \A t \in W : /\ t \in Threads /\ Listed(t) /\ swRet[t] = "wt_on" /\ ~In(t, ready)
                   /\ \A m \in Mutexes : ~In(t, mwait[m])
                   /\ state[t] # "FINISHED"
  BY WokenFacts
<1>3. \A t : Blocked(t)' <=> Blocked(t) /\ t \notin W
  BY <1>1, <1>2 DEF Blocked, Wakes
<1>4. \A t : Listed(t)' <=> Listed(t)
  BY <1>2, <1>3 DEF Listed, Wakes
<1>5. ListsDistinct'
  BY <1>1 DEF FileInv, ListsDistinct, Wakes
<1>6. Waiters'
  <2> SUFFICES ASSUME NEW t \in Threads
               PROVE  /\ \A m \in Mutexes : In(t, mwait'[m])
                             => mtx'[t] = m /\ swRet'[t] = "lk_on" /\ ~In(t, ready')
                      /\ \A c \in Conds : In(t, cwait'[c])
                             => cnd'[t] = c /\ swRet'[t] = "wt_on" /\ ~In(t, ready')
    BY DEF Waiters
  <2> QED BY <1>1, <1>2 DEF Wakes, FileInv, Waiters
<1>7. OnHart'
  <2>1. In(cpu, rdy) => In(cpu, ready) \/ swRet[cpu] = "wt_on"
    BY <1>2 DEF Wakes
  <2>2. ASSUME pc[cpu] \in {"sw_off", "sw_pick"}, In(cpu, rdy) PROVE Head(rdy) # cpu
    <3>1. CASE In(cpu, ready)
      BY <2>2, <3>1, InFirst DEF FileInv, OnHart, Wakes, In
    <3>2. CASE cpu \in W
      <4>1. cpu # Idle /\ nxt[cpu] = NoThread
        BY <1>2, <2>2, <3>2 DEF FileInv, IdleYields, NextPicked, Picked
      <4>2. ready # <<>> /\ In(Head(ready), ready)
        BY <1>0, <4>1, IdleReady, InFirst DEF FileTypes
      <4> QED BY <1>2, <3>2, <4>2 DEF Wakes
    <3> QED BY <2>2, <3>1, <3>2 DEF Wakes
  <2>3. state[cpu] = "FINISHED" => st[cpu] = "FINISHED"
    BY <1>0, <1>2 DEF Wakes, FileTypes
  <2> QED BY <1>1, <1>4, <2>1, <2>2, <2>3 DEF FileInv, OnHart
<1>8. NextPicked' /\ OffHartPicksNone'
  <2>1. pc[cpu] \in Picked => nxt[cpu] \notin W /\ nxt[cpu] \in Threads
    BY <1>0, <1>2 DEF FileInv, NextPicked, HartInv, ControlInv, SwitchLocals, Born, FileTypes
  <2>2. pc[cpu] \in Picked => st[nxt[cpu]] = state[nxt[cpu]]
    BY <2>1 DEF Wakes
  <2> QED BY <1>1, <1>4, <2>2 DEF FileInv, NextPicked, OffHartPicksNone
<1>9. NoneLost'
  <2>1. \A t \in Threads \ {cpu} : t # nxt[cpu] /\ st[t] \notin {"INIT", "FINISHED"} => Listed(t)
    BY <1>2 DEF FileInv, NoneLost, Wakes
  <2> QED BY <1>1, <1>4, <2>1 DEF NoneLost
<1>10. Exits'
  <2>1. \A t \in Threads : st[t] = "FINISHED" <=> state[t] = "FINISHED"
    BY <1>2 DEF Wakes
  <2> QED BY <1>1, <1>4, <2>1 DEF FileInv, Exits
<1>11. IdleYields' /\ NoneHangs'
  BY <1>1 DEF FileInv, IdleYields, NoneHangs
<1> QED BY <1>5, <1>6, <1>7, <1>8, <1>9, <1>10, <1>11 DEF FileInv

(* A thread that the handler may preempt is inside no section: it is filed    *)
(* nowhere, and so is not the one the handler continues.                      *)
LEMMA PreemptFiles ==
    ASSUME TypeInv, HartInv, CountInv, FileInv, NEW W, NEW rdy, NEW st, Wakes(W, rdy, st),
           cpu \notin trapped, pc[cpu] # "sw_ctx", InInterruptYield(rdy, st),
           AllowPreemption, rdy # <<>>
    PROVE  FileInv'
<1> DEFINE n == Head(rdy)
<1>0. /\ FileTypes /\ CountTypes /\ Fits(pc[cpu], swRet[cpu], preempt[cpu]) /\ running = cpu
  BY Types, Counting
<1>1. UNCHANGED <<mwait, mtx, cnd, swRet, op, nxt>>
  BY DEF Wakes
<1>2. \A t \in W : /\ t \in Threads /\ Listed(t) /\ swRet[t] = "wt_on" /\ ~In(t, ready)
                   /\ \A m \in Mutexes : ~In(t, mwait[m])
                   /\ state[t] # "FINISHED"
  BY WokenFacts
<1>3. preempt[cpu] = 1 - Depth(pc[cpu], swRet[cpu]) /\ preempt[cpu] > 0
  BY <1>0 DEF AllowPreemption, FileInv, NoneHangs, Fits, CountTypes
<1>4. /\ pc[cpu] \notin SwLabels \ {"sw_off"} /\ swRet[cpu] \notin {"lk_on", "wt_on"}
  BY <1>3 DEF Depth
<1>5. ~Listed(cpu) /\ nxt[cpu] = NoThread /\ state[cpu] # "FINISHED" /\ cpu \notin W
      /\ (swRet[cpu] = "dead" => pc[cpu] \in Placing)
  <2>1. pc[cpu] \notin Leaving /\ pc[cpu] \notin Picked
    BY <1>4 DEF Leaving, Picked, SwLabels
  <2>2. ~Blocked(cpu)
    BY <1>0, <1>4 DEF FileInv, Waiters, Blocked, FileTypes
  <2>3. ~In(cpu, ready)
    BY <1>4, <2>1 DEF FileInv, OnHart
  <2> QED BY <1>0, <1>2, <1>4, <2>1, <2>2, <2>3 DEF FileInv, NextPicked, Exits, Listed, FileTypes
<1>6. n \in Threads /\ In(n, rdy) /\ Tail(rdy) \in Seq(Threads)
      /\ (\A t : In(t, Tail(rdy)) <=> In(t, rdy) /\ t # n) /\ Distinct(Tail(rdy))
  BY InFirst, Popped, HeadTailProperties DEF Wakes
<1>7. n # cpu
  BY <1>5, <1>6 DEF Wakes, Listed
<1>8. /\ cpu' = n /\ ready' = Append(Tail(rdy), cpu)
      /\ state' = [st EXCEPT ![cpu] = "READY", ![n] = "RUNNING"]
      /\ trapped' = trapped \cup {cpu} /\ UNCHANGED pc
  BY <1>0, <1>6, <1>7 DEF InInterruptYield, HartInv, ControlInv, OwnStack
<1> HIDE DEF n
<1>9. /\ state'[cpu] = "READY" /\ state'[n] = "RUNNING"
      /\ \A t \in Threads \ {cpu, n} : state'[t] = st[t]
  BY <1>0, <1>6, <1>7, <1>8 DEF Wakes, FileTypes
<1>10. /\ \A t : In(t, ready') <=> (In(t, rdy) /\ t # n) \/ t = cpu
       /\ Distinct(ready')
  <2>1. ~In(cpu, Tail(rdy))
    BY <1>5, <1>6 DEF Wakes, Listed
  <2> QED BY ZenonT(60), <1>0, <1>6, <1>8, <2>1, Appended DEF FileTypes
<1>11. \A t : Blocked(t)' <=> Blocked(t) /\ t \notin W
  BY <1>1, <1>2 DEF Blocked, Wakes
<1>12. /\ ~Blocked(n)' /\ Listed(n) /\ state[n] # "FINISHED"
       /\ (swRet[n] = "dead" => pc[n] \in Placing \cup Leaving)
  <2>1. n \in W \/ In(n, ready)
    BY <1>6 DEF Wakes
  <2>2. In(n, ready) => ~Blocked(n)
    BY <1>6 DEF FileInv, Waiters, Blocked
  <2>3. Listed(n)
    BY <1>2, <2>1 DEF Listed
  <2> QED BY <1>6, <1>11, <2>1, <2>2, <2>3 DEF FileInv, Exits
<1>13. \A t : Listed(t)' <=> (Listed(t) /\ t # n) \/ t = cpu
  BY <1>2, <1>10, <1>11, <1>12 DEF Listed, Wakes
<1>14. ListsDistinct'
  BY <1>1, <1>10 DEF FileInv, ListsDistinct, Wakes
<1>15. Waiters'
  <2> SUFFICES ASSUME NEW t \in Threads
               PROVE  /\ \A m \in Mutexes : In(t, mwait'[m])
                             => mtx'[t] = m /\ swRet'[t] = "lk_on" /\ ~In(t, ready')
                      /\ \A c \in Conds : In(t, cwait'[c])
                             => cnd'[t] = c /\ swRet'[t] = "wt_on" /\ ~In(t, ready')
    BY DEF Waiters
  <2>1. t = cpu => ~Blocked(t)'
    BY <1>5, <1>11 DEF Listed
  <2>2. ASSUME t # cpu, In(t, ready') PROVE t \in W \/ In(t, ready)
    BY <1>10, <2>2 DEF Wakes
  <2>3. CASE t = cpu
    BY <2>1, <2>3 DEF Blocked
  <2>4. CASE t # cpu
    BY <1>1, <1>2, <2>2, <2>4 DEF Wakes, FileInv, Waiters
  <2> QED BY <2>3, <2>4
<1>16. OnHart'
  <2>1. /\ pc[n] \notin Picked \cup {"sw_pick"}
        /\ pc[n] = "sw_off" => swRet[n] \notin {"lk_on", "wt_on"}
    BY <1>6, <1>7, OffHart
  <2>2. \A t : t = n => ~Listed(t)' /\ ~In(t, ready')
    BY <1>7, <1>10, <1>13
  <2> QED BY <1>1, <1>8, <2>1, <2>2 DEF OnHart, Placing, Leaving, Picked
<1>17. NextPicked' /\ OffHartPicksNone'
  <2>1. pc[n] \notin Picked
    BY <1>6, <1>7, OffHart
  <2> QED BY <1>1, <1>5, <1>6, <1>7, <1>8, <2>1 DEF FileInv, NextPicked, OffHartPicksNone
<1>18. NoneLost'
  <2>1. ASSUME NEW t \in Threads \ {cpu, n}, st[t] \notin {"INIT", "FINISHED"} PROVE Listed(t)
    BY <1>0, <1>2, <1>5, <2>1 DEF FileInv, NoneLost, Wakes, FileTypes
  <2>2. \A t \in Threads \ {n} : state'[t] \notin {"INIT", "FINISHED"} => Listed(t)'
    BY <1>9, <1>13, <2>1
  <2> QED BY <1>8, <2>2 DEF NoneLost
<1>19. Exits'
  <2>1. \A t \in Threads : st[t] = "FINISHED" <=> state[t] = "FINISHED"
    BY <1>2 DEF Wakes
  <2> SUFFICES ASSUME NEW t \in Threads
               PROVE  /\ state'[t] = "FINISHED" =>
                            /\ ~Listed(t)' /\ swRet[t] = "dead"
                            /\ IF t = n THEN pc[t] \in Leaving
                                        ELSE pc[t] = "sw_en" /\ t \notin trapped'
                      /\ swRet[t] = "dead" =>
                            pc[t] \in Placing \cup Leaving
                            \/ (pc[t] = "sw_en" /\ t # n /\ state'[t] = "FINISHED")
    BY <1>1, <1>8 DEF Exits
  <2>2. CASE t = cpu
    BY <1>5, <1>9, <2>2
  <2>3. CASE t = n
    BY <1>9, <1>12, <2>3
  <2>4. CASE t \notin {cpu, n}
    BY ZenonT(60), <1>8, <1>9, <1>13, <2>1, <2>4 DEF FileInv, Exits
  <2> QED BY <2>2, <2>3, <2>4
<1>20. IdleYields' /\ NoneHangs'
  BY <1>1, <1>8 DEF FileInv, IdleYields, NoneHangs
<1> QED BY <1>14, <1>15, <1>16, <1>17, <1>18, <1>19, <1>20 DEF FileInv

LEMMA HandlerFiles ==
    ASSUME TypeInv, HartInv, CountInv, FileInv, NEW W, NEW rdy, NEW st, Wakes(W, rdy, st),
           cpu \notin trapped, pc[cpu] # "sw_ctx", InInterruptYield(rdy, st)
    PROVE  FileInv'
<1>1. CASE ~AllowPreemption \/ rdy = <<>>
  BY <1>1, GoesOnFiles DEF InInterruptYield, hartVars
<1>2. CASE ~(~AllowPreemption \/ rdy = <<>>)
  BY <1>2, PreemptFiles
<1> QED BY <1>1, <1>2

(* The handlers: the timer wakes the sleepers, the others nobody.             *)
LEMMA InterruptFiles ==
    ASSUME TypeInv, HartInv, CountInv, FileInv,
           TimerInterrupt \/ DeviceInterrupt \/ (EcallYield /\ UNCHANGED <<mwait, mtx, cwait, cnd>>)
    PROVE  FileInv'
<1>0. FileTypes /\ TcbType
  BY Types DEF TypeInv, KernelType
<1>1. cpu \notin trapped /\ pc[cpu] # "sw_ctx"
  <2>1. mie = 1 => nest = 0
    BY DEF HartInv, ControlInv, HartNesting
  <2>2. nest = 0 => cpu \notin trapped /\ pc[cpu] # "sw_ctx"
    BY DEF HartInv, ControlInv, HartNesting, Masked, TypeInv, KernelType, HartType
  <2> QED BY <2>1, <2>2 DEF TimerInterrupt, DeviceInterrupt, EcallYield, At
<1>2. UNCHANGED <<mwait, mtx, cnd, swRet, op, nxt>>
  BY DEF TimerInterrupt, DeviceInterrupt, EcallYield, swVars, mutexVars, condVars
<1>3. CASE DeviceInterrupt \/ (EcallYield /\ UNCHANGED <<mwait, mtx, cwait, cnd>>)
  <2>1. InInterruptYield(ready, state) /\ UNCHANGED cwait
    BY <1>3 DEF DeviceInterrupt, EcallYield, condVars
  <2>2. Wakes({}, ready, state)
    BY <1>0, <1>2, <2>1 DEF Wakes, FileTypes, TcbType, FileInv, ListsDistinct
  <2> QED BY <1>1, <2>1, <2>2, HandlerFiles
<1>4. CASE TimerInterrupt
  <2> DEFINE woken == cwait[SleepCond]
             W == {t \in Threads : In(t, woken)}
             st == [t \in Threads |-> IF \E i \in DOMAIN woken : woken[i] = t
                                      THEN "READY" ELSE state[t]]
             rdy == ready \o woken
  <2>1. InInterruptYield(rdy, st) /\ cwait' = [cwait EXCEPT ![SleepCond] = <<>>]
    BY <1>4 DEF TimerInterrupt
  <2>2. SleepCond \in Conds /\ woken \in Seq(Threads) /\ Distinct(woken)
    BY <1>0, SleepIn DEF FileTypes, FileInv, ListsDistinct
  <2>3. \A t : In(t, woken) <=> t \in W
    BY <2>2, InFirst
  <2>4. \A t \in Threads : st[t] = IF t \in W THEN "READY" ELSE state[t]
    BY DEF In
  <2>5. st \in [Threads -> States]
    BY <1>0 DEF TcbType, States
  <2> HIDE DEF st, W
  <2>6. \A t : ~(In(t, ready) /\ In(t, woken))
    BY <1>0, <2>2, InFirst DEF FileInv, Waiters, FileTypes
  <2>7. /\ rdy \in Seq(Threads) /\ Distinct(rdy)
        /\ \A t : In(t, rdy) <=> In(t, ready) \/ t \in W
        /\ ready # <<>> => Head(rdy) = Head(ready)
    BY <1>0, <2>2, <2>3, <2>6, Joined, ConcatProperties DEF FileTypes, FileInv, ListsDistinct
  <2> HIDE DEF rdy
  <2>8. \A c \in Conds : cwait'[c] = IF c = SleepCond THEN <<>> ELSE cwait[c]
    BY <1>0, <2>1 DEF FileTypes
  <2>9. \A t : \A c \in Conds : In(t, cwait'[c]) <=> In(t, cwait[c]) /\ t \notin W
    <3> SUFFICES ASSUME NEW t, NEW c \in Conds
                 PROVE  In(t, cwait'[c]) <=> In(t, cwait[c]) /\ t \notin W
      OBVIOUS
    <3>1. CASE c = SleepCond
      BY <2>3, <2>8, <3>1, InFirst DEF In
    <3>2. CASE c # SleepCond
      <4>1. cwait'[c] = cwait[c]
        BY <2>8, <3>2
      <4>2. In(t, cwait[c]) => t \in Threads
        BY <1>0, InFirst DEF FileTypes
      <4>3. In(t, cwait[c]) => ~In(t, woken)
        BY <2>2, <3>2, <4>2 DEF FileInv, Waiters
      <4> QED BY <2>3, <4>1, <4>3
    <3> QED BY <3>1, <3>2
  <2>10. \A c \in Conds : Distinct(cwait'[c])
    BY <2>8, InFirst DEF FileInv, ListsDistinct, Distinct
  <2>11. \A t \in W : t \in Threads /\ \E c \in Conds : In(t, cwait[c])
    BY <2>2, <2>3, InFirst
  <2>12. Wakes(W, rdy, st)
    BY <1>2, <2>4, <2>5, <2>7, <2>9, <2>10, <2>11 DEF Wakes
  <2> QED BY <1>1, <2>1, <2>12, HandlerFiles
<1> QED BY <1>3, <1>4

-----------------------------------------------------------------------------
LEMMA InitFiles == Init => FileInv
<1> SUFFICES ASSUME Init PROVE FileInv
  OBVIOUS
<1> DEFINE first == Head(Boot)
           born  == {Boot[i] : i \in DOMAIN Boot}
<1>1. Boot \in Seq(Threads) /\ Boot # <<>> /\ Distinct(Boot) /\ In(Idle, Boot)
  BY BootAssumption DEF Distinct, In
<1>2. \A t : t \in born <=> In(t, Boot)
  BY DEF In
<1>3. /\ cpu = first /\ ready = Tail(Boot) /\ trapped = {}
      /\ state = [t \in Threads |-> IF t = first THEN "RUNNING"
                                    ELSE IF t \in born THEN "READY" ELSE "INIT"]
      /\ pc = [t \in Threads |-> IF t \in born THEN "stub" ELSE "none"]
      /\ op = [t \in Threads |-> "none"] /\ swRet = [t \in Threads |-> "none"]
      /\ nxt = [t \in Threads |-> NoThread]
      /\ mwait = [m \in Mutexes |-> <<>>] /\ cwait = [c \in Conds |-> <<>>]
  BY DEF Init, SchedInit, MutexInit, CondInit
<1>4. first \in Threads /\ In(first, Boot) /\ Distinct(Tail(Boot))
      /\ \A t : In(t, Tail(Boot)) <=> In(t, Boot) /\ t # first
  BY <1>1, InFirst, Popped
<1>5. \A t : ~In(t, <<>>)
  BY InFirst DEF In
<1>6. \A t \in Threads : /\ state[t] # "FINISHED" /\ (state[t] # "INIT" => In(t, Boot))
                         /\ pc[t] \in {"stub", "none"} /\ (In(t, Boot) => pc[t] = "stub")
                         /\ op[t] = "none" /\ swRet[t] = "none" /\ nxt[t] = NoThread
  BY <1>2, <1>3, <1>4
<1> HIDE DEF first, born
<1>7. ListsDistinct /\ Waiters
  BY <1>3, <1>4, <1>5, InFirst DEF ListsDistinct, Waiters, Distinct
<1>8. ~Listed(cpu) /\ \A t : Listed(t) <=> In(t, Boot) /\ t # cpu
  BY <1>3, <1>4, <1>5 DEF Listed, Blocked
<1>9. OnHart /\ NextPicked /\ OffHartPicksNone
  BY <1>3, <1>4, <1>6, <1>8 DEF OnHart, NextPicked, OffHartPicksNone, Placing, Leaving, Picked, Listed
<1>10. NoneLost /\ Exits
  BY <1>3, <1>4, <1>6, <1>8 DEF NoneLost, Exits
<1>11. IdleYields /\ NoneHangs
  BY <1>1, <1>6, IdleAssumption DEF IdleYields, NoneHangs
<1> QED BY <1>7, <1>9, <1>10, <1>11 DEF FileInv

LEMMA NextFiles ==
    TypeInv /\ HartInv /\ CountInv /\ FileInv /\ [WholeStep]_vars => FileInv'
<1> SUFFICES ASSUME TypeInv, HartInv, CountInv, FileInv, [WholeStep]_vars PROVE FileInv'
  OBVIOUS
<1> USE DEF OffLocal, TestLocal, OnAction, CallAction
<1>1. CASE SchedStep /\ UNCHANGED <<mutexVars, condVars, timerVars, tgt>>
  <2>1. /\ UNCHANGED <<mutexVars, condVars>>
        /\ UNCHANGED <<mwait, mtx, cwait, cnd>> /\ Beside
    BY <1>1 DEF mutexVars, condVars, Beside
  <2>2. CASE SwPick \/ SwPut \/ SwCtx \/ CrNew \/ HandlerReturn
    BY <2>1, <2>2, PickFiles, PutFiles, HandFiles, NewFiles, ReturnFiles
  <2>3. CASE SwOff \/ SwDis \/ SwRun
    BY <2>1, <2>3, GlideFiles DEF GlideActs
  <2>4. CASE EcallYield
    BY <2>1, <2>4, InterruptFiles
  <2>5. CASE CrOff \/ CrOn \/ SwEn \/ SwOn \/ SysReturn \/ Stub \/ CallYield \/ CallCreate
    BY <2>1, <2>5, LocalFiles DEF LocalActs
  <2> QED BY <1>1, <2>2, <2>3, <2>4, <2>5 DEF SchedStep, SwitchStep, CreateStep
<1>2. CASE MutexStep /\ UNCHANGED <<condVars, timerVars, tgt>>
  <2>1. UNCHANGED condVars /\ UNCHANGED <<cwait, cnd>>
    BY <1>2 DEF condVars
  <2>2. CASE UlBody
    BY <2>1, <2>2, UnlockWakes
  <2>3. CASE LkPush
    BY <2>1, <2>3, LockWaits
  <2>4. CASE LkOff \/ LkOn \/ TlFail \/ UlOn \/ UlOff \/ LkTest \/ LkOwn
             \/ CallLock \/ CallTryLock \/ CallUnlock
    <3>1. Beside
      BY <2>1, <2>4 DEF Beside, LkOff, LkOn, TlFail, UlOn, UlOff, LkTest, LkOwn, CallLock,
         CallTryLock, CallUnlock, mutexVars
    <3> QED BY <2>1, <2>4, <3>1, LocalFiles DEF LocalActs
  <2> QED BY <1>2, <2>2, <2>3, <2>4 DEF MutexStep, LockStep, UnlockStep
<1>3. CASE CondStep
  <2>1. CASE WtUnlock
    BY <2>1, UnlockWakes DEF WtUnlock
  <2>2. CASE WtPush \/ NoPop
    BY <2>2, CondWaits, NotifyWakes
  <2>3. CASE CallWait \/ WtOff \/ WtOn \/ CallNotifyOne \/ CallNotifyAll \/ NaTest \/ NoOff \/ NoOn
    <3>1. Beside
      BY <2>3 DEF Beside, CallWait, WtOff, WtOn, CallNotifyOne, CallNotifyAll, NaTest, NoOff, NoOn,
         mutexVars, condVars
    <3> QED BY <2>3, <3>1, LocalFiles DEF LocalActs
  <2> QED BY <1>3, <2>1, <2>2, <2>3 DEF CondStep, WaitStep, NotifyStep
<1>4. CASE JoinStep \/ ExitStep \/ SleepStep
  <2>1. CallJoin \/ JnTest \/ CallExit \/ Exit \/ CallSleep \/ SlTest
    BY <1>4 DEF JoinStep, ExitStep, SleepStep
  <2>2. Beside
    BY <2>1 DEF Beside, CallJoin, JnTest, CallExit, Exit, CallSleep, SlTest, mutexVars, condVars
  <2> QED BY <2>1, <2>2, LocalFiles DEF LocalActs
<1>5. CASE TimerInterrupt \/ DeviceInterrupt
  BY <1>5, InterruptFiles
<1>6. CASE UNCHANGED vars
  <2>1. UNCHANGED <<cpu, pc, nxt, trapped, swRet, op, mtx, cnd, mwait, cwait, state, ready>>
    BY <1>6 DEF vars, schedVars, hartVars, tcbVars, listVars, swVars, mutexVars, condVars
  <2>2. ListsDistinct' /\ Waiters' /\ OnHart' /\ NextPicked' /\ OffHartPicksNone'
    BY <2>1 DEF FileInv, ListsDistinct, Waiters, OnHart, NextPicked, OffHartPicksNone, Listed, Blocked
  <2>3. NoneLost' /\ Exits' /\ IdleYields' /\ NoneHangs'
    BY <2>1 DEF FileInv, NoneLost, Exits, IdleYields, NoneHangs, Listed, Blocked
  <2> QED BY <2>2, <2>3 DEF FileInv
<1> QED BY <1>1, <1>2, <1>3, <1>4, <1>5, <1>6 DEF WholeStep, ThreadStep

-----------------------------------------------------------------------------
FiledInv == TypeInv /\ HartInv /\ CountInv /\ FileInv

(* What is left of it when an interrupt has met a container half changed.     *)
KeptInv == TypeInv /\ HartInv /\ CountInv /\ (~torn => FileInv)

LEMMA WholeOrTorn ==
    ASSUME [Next]_vars
    PROVE  torn' \/ (~torn /\ [WholeStep]_vars)
BY DEF Next, Tear, vars, WholeStep, ThreadStep, TimerInterrupt, DeviceInterrupt, Whole

LEMMA WholeOrTear ==
    ASSUME [Next]_vars
    PROVE  (WholeStep /\ ~torn /\ ~torn') \/ Tear \/ UNCHANGED vars
BY DEF Next, WholeStep, ThreadStep, TimerInterrupt, DeviceInterrupt, Whole

LEMMA FiledInvariant == NonBlockingEcalls => (Spec => []KeptInv)
<1> SUFFICES ASSUME NonBlockingEcalls PROVE Spec => []KeptInv
  OBVIOUS
<1>1. Init => KeptInv
  BY InitType, InitInv, InitCounts, InitFiles DEF KeptInv
<1>2. KeptInv /\ [Next]_vars => KeptInv'
  <2> SUFFICES ASSUME KeptInv, [Next]_vars PROVE KeptInv'
    OBVIOUS
  <2>1. TypeInv' /\ HartInv' /\ CountInv'
    BY NextType, NextInv, NextCounts DEF KeptInv
  <2>2. ~torn' => FileInv'
    BY WholeOrTorn, NextFiles DEF KeptInv
  <2> QED BY <2>1, <2>2 DEF KeptInv
<1> QED BY <1>1, <1>2, PTL DEF Spec

(* The places in Filed are as many as the lists a thread is in.               *)
LEMMA FiledCount ==
    ASSUME TypeInv, FileInv, NEW t \in Threads
    PROVE  Cardinality(Filed(t)) = IF Listed(t) THEN 1 ELSE 0
<1>0. FileTypes
  BY Types
<1> DEFINE R == {<<"ready", i>> : i \in {j \in DOMAIN ready : ready[j] = t}}
           M(m) == {<<"mutex", m, i>> : i \in {j \in DOMAIN mwait[m] : mwait[m][j] = t}}
           Q(c) == {<<"cond", c, i>> : i \in {j \in DOMAIN cwait[c] : cwait[c][j] = t}}
<1> DEFINE MM == UNION {M(m) : m \in Mutexes}
           QQ == UNION {Q(c) : c \in Conds}
<1>a. Filed(t) = R \cup MM \cup QQ
  BY DEF Filed
<1> HIDE DEF R, M, Q
<1>1. /\ \A p : p \in MM <=> \E m \in Mutexes : p \in M(m)
      /\ \A p : p \in QQ <=> \E c \in Conds : p \in Q(c)
  OBVIOUS
<1> HIDE DEF MM, QQ
<1>c. \A p : p \in Filed(t) <=> p \in R \/ p \in MM \/ p \in QQ
  BY <1>a
<1>b. \A S : (\A p : p \in Filed(t) <=> p \in S) => Filed(t) \subseteq S /\ S \subseteq Filed(t)
  OBVIOUS
<1> USE DEF R, M, Q
<1>2. CASE ~Listed(t)
  <2>1. Filed(t) = {}
    BY <1>1, <1>c, <1>2 DEF Listed, Blocked, In
  <2> QED BY <1>2, <2>1, FS_EmptySet
<1>3. CASE Listed(t)
  <2>1. \E p : Filed(t) = {p}
    <3>1. CASE In(t, ready)
      <4>1. PICK i \in DOMAIN ready : ready[i] = t
        BY <3>1 DEF In
      <4>2. \A j \in DOMAIN ready : ready[j] = t => j = i
        BY <4>1 DEF FileInv, ListsDistinct, Distinct
      <4>3. /\ \A m \in Mutexes : \A j \in DOMAIN mwait[m] : mwait[m][j] # t
            /\ \A c \in Conds : \A j \in DOMAIN cwait[c] : cwait[c][j] # t
        BY <3>1 DEF FileInv, Waiters, In
      <4>4. R = {<<"ready", i>>}
        BY <4>1, <4>2, <4>3
      <4>5. \A p : p \in Filed(t) <=> p \in R
        BY <1>1, <1>c, <4>1, <4>2, <4>3
      <4>6. Filed(t) = R
        BY <1>b, <4>5, Zenon
      <4> QED BY <4>4, <4>6
    <3>2. CASE \E m \in Mutexes : In(t, mwait[m])
      <4>1. PICK m \in Mutexes : In(t, mwait[m])
        BY <3>2
      <4>2. PICK i \in DOMAIN mwait[m] : mwait[m][i] = t
        BY <4>1 DEF In
      <4>3. \A j \in DOMAIN mwait[m] : mwait[m][j] = t => j = i
        BY <4>2 DEF FileInv, ListsDistinct, Distinct
      <4>4. /\ \A j \in DOMAIN ready : ready[j] # t
            /\ \A k \in Mutexes : \A j \in DOMAIN mwait[k] : mwait[k][j] = t => k = m
            /\ \A c \in Conds : \A j \in DOMAIN cwait[c] : cwait[c][j] # t
        BY <4>1 DEF FileInv, Waiters, In
      <4>5. M(m) = {<<"mutex", m, i>>}
        BY <4>2, <4>3, <4>4
      <4>6. \A p : p \in Filed(t) <=> p \in M(m)
        BY <1>1, <1>c, <4>2, <4>3, <4>4
      <4>7. Filed(t) = M(m)
        BY <1>b, <4>6, Zenon
      <4> QED BY <4>5, <4>7
    <3>3. CASE \E c \in Conds : In(t, cwait[c])
      <4>1. PICK c \in Conds : In(t, cwait[c])
        BY <3>3
      <4>2. PICK i \in DOMAIN cwait[c] : cwait[c][i] = t
        BY <4>1 DEF In
      <4>3. \A j \in DOMAIN cwait[c] : cwait[c][j] = t => j = i
        BY <4>2 DEF FileInv, ListsDistinct, Distinct
      <4>4. /\ \A j \in DOMAIN ready : ready[j] # t
            /\ \A m \in Mutexes : \A j \in DOMAIN mwait[m] : mwait[m][j] # t
            /\ \A k \in Conds : \A j \in DOMAIN cwait[k] : cwait[k][j] = t => k = c
        BY <4>1 DEF FileInv, Waiters, In
      <4>5. Q(c) = {<<"cond", c, i>>}
        BY <4>2, <4>3, <4>4
      <4>6. \A p : p \in Filed(t) <=> p \in Q(c)
        BY <1>1, <1>c, <4>2, <4>3, <4>4
      <4>7. Filed(t) = Q(c)
        BY <1>b, <4>6, Zenon
      <4> QED BY <4>5, <4>7
    <3> QED BY <1>3, <3>1, <3>2, <3>3 DEF Listed, Blocked
  <2>2. PICK p : Filed(t) = {p}
    BY <2>1
  <2> QED BY <1>3, <2>2, FS_Singleton
<1> QED BY <1>2, <1>3

(* The kernel's protocol keeps every live thread off the hart in one list     *)
(* once, and a dead or unborn one in none, whatever the threads call, until   *)
(* an interrupt meets a container half changed.                               *)
THEOREM FilingCorrect == NonBlockingEcalls => (Spec => []EveryThreadFiledOnce)
<1> SUFFICES ASSUME NonBlockingEcalls PROVE Spec => []EveryThreadFiledOnce
  OBVIOUS
<1>1. KeptInv => EveryThreadFiledOnce
  <2> SUFFICES ASSUME TypeInv, HartInv, CountInv, FileInv, NEW t \in Threads
               PROVE  LET n == Cardinality(Filed(t)) IN
                      IF state[t] \in {"INIT", "FINISHED"} \/ t = nxt[cpu] THEN n = 0
                      ELSE IF t = cpu THEN n <= 1
                      ELSE n = 1
    BY DEF KeptInv, EveryThreadFiledOnce
  <2>1. Cardinality(Filed(t)) = IF Listed(t) THEN 1 ELSE 0
    BY FiledCount
  <2>2. state[t] \in {"INIT", "FINISHED"} => ~Listed(t)
    BY ListedBorn DEF FileInv, Exits
  <2>3. t = nxt[cpu] => ~Listed(t)
    BY NoThreadAssumption DEF FileInv, NextPicked
  <2>4. t # cpu /\ t # nxt[cpu] /\ state[t] \notin {"INIT", "FINISHED"} => Listed(t)
    BY DEF FileInv, NoneLost
  <2> QED BY <2>1, <2>2, <2>3, <2>4
<1> QED BY <1>1, FiledInvariant, PTL

(* Until an interrupt meets a container half changed no assertion of the      *)
(* scheduler can fail, no exited thread returns from its last switch, and     *)
(* only the idle thread ever finds nothing to switch to.                      *)
THEOREM NeverHangs == NonBlockingEcalls => (Spec => []NoHang)
<1> SUFFICES ASSUME NonBlockingEcalls PROVE Spec => []NoHang
  OBVIOUS
<1>1. KeptInv => NoHang
  <2> SUFFICES ASSUME TypeInv, HartInv, CountInv, FileInv PROVE NoHang
    BY DEF KeptInv, NoHang
  <2>1. pc[cpu] = "sw_pick" => nxt[cpu] = NoThread
    BY DEF FileInv, NextPicked, Picked
  <2> QED BY <2>1, IdleReady DEF NoHang, At, FileInv, NoneHangs
<1> QED BY <1>1, FiledInvariant, PTL

(* A step changes the place of another thread only if it creates that thread, *)
(* and never where another thread's switch returns to.                        *)
LEMMA OthersKept ==
    ASSUME [WholeStep]_vars
    PROVE  /\ swRet' = swRet \/ \E r : swRet' = [swRet EXCEPT ![cpu] = r]
           /\ \/ pc' = pc \/ \E l : pc' = [pc EXCEPT ![cpu] = l]
              \/ \E h \in Threads : /\ state[h] = "INIT"
                                    /\ pc' = [pc EXCEPT ![h] = "stub", ![cpu] = "cr_on"]
<1> USE DEF Goto, swVars
<1>1. CASE SwitchStep
  BY <1>1 DEF SwitchStep, SwOff, SwPick, SwPut, SwDis, SwRun, SwCtx, SwEn, SwOn, PreemptionOff,
     PreemptionOn
<1>2. CASE Stub \/ SysReturn \/ HandlerReturn \/ CallYield
  BY <1>2 DEF Stub, SysReturn, HandlerReturn, CallYield, EnterCall
<1>3. CASE CreateStep
  BY <1>3 DEF CreateStep, CallCreate, CrOff, CrNew, CrOn, PreemptionOff, PreemptionOn, EnterCall
<1>4. CASE EcallYield \/ TimerInterrupt \/ DeviceInterrupt
  BY <1>4 DEF EcallYield, TimerInterrupt, DeviceInterrupt, InInterruptYield
<1>5. CASE MutexStep
  BY <1>5 DEF MutexStep, LockStep, UnlockStep, CallLock, CallTryLock, LkOff, LkTest, LkOwn, LkPush,
     LkOn, TlFail, CallUnlock, UlOff, UlBody, UlOn, PreemptionOff, PreemptionOn, EnterCall, Switch
<1>6. CASE CondStep
  BY <1>6 DEF CondStep, WaitStep, NotifyStep, CallWait, WtOff, WtUnlock, WtPush, WtOn, CallNotifyOne,
     CallNotifyAll, NaTest, NoOff, NoPop, NoOn, PreemptionOff, PreemptionOn, EnterCall, Switch
<1>7. CASE JoinStep \/ ExitStep \/ SleepStep
  BY <1>7 DEF JoinStep, ExitStep, SleepStep, CallJoin, JnTest, CallExit, Exit, CallSleep, SlTest,
     EnterCall, Switch
<1>8. CASE UNCHANGED vars
  BY <1>8 DEF vars, schedVars
<1> QED BY <1>1, <1>2, <1>3, <1>4, <1>5, <1>6, <1>7, <1>8 DEF WholeStep, ThreadStep, SchedStep

(* A thread that has exited and left the hart is not made ready, picked or    *)
(* continued by any later step.                                               *)
THEOREM ExitsForGood == NonBlockingEcalls => (Spec => FinishedForGood)
<1> SUFFICES ASSUME NonBlockingEcalls PROVE Spec => FinishedForGood
  OBVIOUS
<1> DEFINE Gone == \A t \in Threads : state[t] = "FINISHED" /\ cpu # t
                          => state'[t] = "FINISHED" /\ cpu' # t
<1>1. KeptInv /\ KeptInv' /\ [Next]_vars => [Gone]_vars
  <2> SUFFICES ASSUME TypeInv, FileInv, FileInv', [WholeStep]_vars,
                      NEW t \in Threads, state[t] = "FINISHED", cpu # t
               PROVE  state'[t] = "FINISHED" /\ cpu' # t
    BY WholeOrTear DEF KeptInv, Tear, tcbVars, hartVars
  <2>1. FileTypes
    BY Types
  <2>2. pc[t] = "sw_en" /\ swRet[t] = "dead"
    BY DEF FileInv, Exits
  <2>3. swRet'[t] = "dead"
    BY <2>1, <2>2, OthersKept DEF FileTypes
  <2>4. pc'[t] = "sw_en"
    <3>1. CASE \E h \in Threads : /\ state[h] = "INIT"
                                  /\ pc' = [pc EXCEPT ![h] = "stub", ![cpu] = "cr_on"]
      BY <2>1, <2>2, <3>1 DEF FileTypes
    <3>2. CASE pc' = pc \/ \E l : pc' = [pc EXCEPT ![cpu] = l]
      BY <2>1, <2>2, <3>2 DEF FileTypes
    <3> QED BY <3>1, <3>2, OthersKept
  <2> QED BY <2>3, <2>4 DEF FileInv, Exits, Placing, Leaving
<1> QED BY <1>1, FiledInvariant, PTL DEF Spec, FinishedForGood

-----------------------------------------------------------------------------
(* A thread in sleep is between the lock and the unlock of the sleep mutex,   *)
(* and is past the loop only with its tick behind it.                         *)
Awake == {"ul_off", "ul_body", "ul_on"}
SleepPath ==
    SwLabels \cup Awake \cup
    {"lk_off", "lk_test", "lk_own", "lk_push", "lk_on", "sl_test",
     "wt_off", "wt_unlock", "wt_push", "wt_on", "hang"}
SleepOf(p, o, r, w) ==
    o = "sleep" => p \in SleepPath /\ r \in {"none", "lk_on", "wt_on"} /\ (p \in Awake => w = 0)
Sleeps == \A t \in Threads : SleepOf(pc[t], op[t], swRet[t], wake[t])

(* What the steps of a sleep have in common with those of other calls: the    *)
(* hart's thread goes on along the path, or is in another call.               *)
GoesOn ==
    /\ \A t \in Threads \ {cpu} : /\ UNCHANGED <<op[t], swRet[t], wake[t]>>
                                  /\ pc'[t] = pc[t] \/ (pc[t] = "none" /\ pc'[t] = "stub")
    /\ SleepOf(pc'[cpu], op'[cpu], swRet'[cpu], wake'[cpu])
    /\ op[cpu] = "sleep" /\ op'[cpu] # "sleep" => wake[cpu] = 0
    /\ wake[cpu] > 0 /\ wake'[cpu] = 0 => systick >= wake[cpu]

SleepsStep(t) ==
    /\ wake[t] > 0 /\ wake'[t] = 0 => systick >= wake[t]
    /\ op[t] = "sleep" /\ op'[t] # "sleep" => wake[t] = 0

LEMMA GoesOnSuffices ==
    ASSUME TypeInv, Sleeps, GoesOn
    PROVE  Sleeps' /\ \A t \in Threads : SleepsStep(t)
<1>1. cpu \in Threads
  BY Types DEF FileTypes
<1>2. wake \in [Threads -> Nat]
  BY DEF TypeInv, KernelType, TimerType
<1>3. ASSUME NEW t \in Threads \ {cpu}
      PROVE  SleepOf(pc[t], op[t], swRet[t], wake[t])' /\ SleepsStep(t)
  <2>1. "none" \notin SleepPath
    BY DEF SleepPath, SwLabels, Awake
  <2>2. wake[t] \in Nat
    BY <1>2
  <2> QED BY <1>3, <2>1, <2>2 DEF GoesOn, Sleeps, SleepOf, SleepsStep
<1>4. SleepOf(pc[cpu], op[cpu], swRet[cpu], wake[cpu])' \/ cpu' # cpu
  BY DEF GoesOn
<1>5. SleepOf(pc'[cpu], op'[cpu], swRet'[cpu], wake'[cpu]) /\ SleepsStep(cpu)
  BY DEF GoesOn, SleepsStep
<1>6. \A t \in Threads : SleepOf(pc'[t], op'[t], swRet'[t], wake'[t])
  <2> SUFFICES ASSUME NEW t \in Threads PROVE SleepOf(pc'[t], op'[t], swRet'[t], wake'[t])
    OBVIOUS
  <2>1. CASE t = cpu
    BY <1>5, <2>1
  <2>2. CASE t # cpu
    BY <1>3, <2>2
  <2> QED BY <2>1, <2>2
<1> QED BY <1>3, <1>5, <1>6 DEF Sleeps

(* The steps of the thread on the hart: outside sleep's path, where it is in  *)
(* another call or in none, and along it.                                     *)
LEMMA SleepNext ==
    ASSUME TypeInv, HartInv, CountInv, Sleeps, [WholeStep]_vars
    PROVE  Sleeps' /\ \A t \in Threads : SleepsStep(t)
<1>0. /\ FileTypes /\ wake \in [Threads -> Nat] /\ cpu \in Threads
      /\ SleepOf(pc[cpu], op[cpu], swRet[cpu], wake[cpu])
  BY Types DEF TypeInv, KernelType, TimerType, FileTypes, Sleeps
<1>1. \A t \in Threads \ {cpu} : /\ swRet'[t] = swRet[t]
                                 /\ pc'[t] = pc[t] \/ (pc[t] = "none" /\ pc'[t] = "stub")
  <2>1. \A t \in Threads : state[t] = "INIT" => pc[t] = "none"
    BY DEF HartInv, ControlInv, UnbornIdle
  <2>2. \A t \in Threads \ {cpu} : swRet'[t] = swRet[t]
    BY <1>0, OthersKept DEF FileTypes
  <2>3. \A t \in Threads \ {cpu} : pc'[t] = pc[t] \/ (pc[t] = "none" /\ pc'[t] = "stub")
    BY <1>0, <2>1, OthersKept DEF FileTypes
  <2> QED BY <2>2, <2>3
<1> DEFINE Elsewhere == wake' = wake /\ (op' = op \/ \E o \in Ops \ {"sleep"} : op' = [op EXCEPT ![cpu] = o])
<1>2. ASSUME Elsewhere, pc[cpu] \notin SleepPath PROVE GoesOn
  <2>1. op[cpu] # "sleep"
    BY <1>0, <1>2 DEF SleepOf
  <2>2. op'[cpu] # "sleep" /\ \A t \in Threads \ {cpu} : op'[t] = op[t]
    BY <1>0, <1>2, <2>1 DEF FileTypes
  <2>3. wake[cpu] \in Nat
    BY <1>0
  <2> QED BY <1>1, <1>2, <2>1, <2>2, <2>3 DEF GoesOn, SleepOf
<1>3. ASSUME wake' = wake, op' = op,
             NEW l \in Labels, Goto(l),
             op[cpu] = "sleep" => /\ l \in SleepPath /\ (l \in Awake => pc[cpu] \in Awake)
                                  /\ swRet'[cpu] \in {"none", "lk_on", "wt_on"}
      PROVE  GoesOn
  <2>1. pc'[cpu] = l
    BY <1>0, <1>3 DEF Goto, FileTypes
  <2>2. wake[cpu] \in Nat
    BY <1>0
  <2>3. SleepOf(pc'[cpu], op'[cpu], swRet'[cpu], wake'[cpu])
    BY <1>0, <1>3, <2>1 DEF SleepOf
  <2> QED BY <1>1, <1>3, <2>2, <2>3 DEF GoesOn
<1>4. ASSUME wake' = wake, op' = op, UNCHANGED swRet,
             UNCHANGED pc \/ pc' = [pc EXCEPT ![cpu] = "hang"]
      PROVE  GoesOn
  <2>1. wake[cpu] \in Nat
    BY <1>0
  <2>2. pc'[cpu] = pc[cpu] \/ pc'[cpu] = "hang"
    BY <1>0, <1>4 DEF FileTypes
  <2>3. SleepOf(pc'[cpu], op'[cpu], swRet'[cpu], wake'[cpu])
    BY <1>0, <1>4, <2>2 DEF SleepOf, SleepPath, Awake
  <2> QED BY <1>1, <1>4, <2>1, <2>3 DEF GoesOn
<1> HIDE DEF Elsewhere
<1> USE DEF SleepPath, SwLabels, Awake
(* The other calls, the application's own code and the beginning of a sleep. *)
<1>5. ASSUME (Stub \/ CrOff \/ CrNew \/ CrOn \/ SysReturn \/ CallYield \/ CallCreate)
           /\ UNCHANGED timerVars
      PROVE  GoesOn
  <2>1. Elsewhere
    BY <1>5 DEF Stub, CrOff, CrNew, CrOn, SysReturn, CallYield, CallCreate, EnterCall, timerVars, Ops,
                Elsewhere
  <2>2. pc[cpu] \notin SleepPath
    BY <1>5 DEF Stub, CrOff, CrNew, CrOn, SysReturn, CallYield, CallCreate, EnterCall, At
  <2> QED BY <1>2, <2>1, <2>2
<1>6. ASSUME (CallLock \/ CallTryLock \/ CallUnlock \/ TlFail \/ CallWait \/ CallNotifyOne \/ CallNotifyAll)
           /\ UNCHANGED timerVars
      PROVE  GoesOn
  <2>1. Elsewhere
    BY <1>6 DEF CallLock, CallTryLock, CallUnlock, TlFail, CallWait, CallNotifyOne, CallNotifyAll,
                EnterCall, timerVars, Ops, Elsewhere
  <2>2. pc[cpu] \notin SleepPath
    BY <1>6 DEF CallLock, CallTryLock, CallUnlock, TlFail, CallWait, CallNotifyOne, CallNotifyAll,
                EnterCall, At
  <2> QED BY <1>2, <2>1, <2>2
<1>7. ASSUME ((NaTest \/ NoOff \/ NoPop \/ NoOn) /\ UNCHANGED timerVars)
           \/ CallJoin \/ JnTest \/ CallExit \/ Exit
      PROVE  GoesOn
  <2>1. Elsewhere
    BY <1>7 DEF NaTest, NoOff, NoPop, NoOn, CallJoin, JnTest, CallExit, Exit, EnterCall, timerVars, Ops,
                Elsewhere
  <2>2. pc[cpu] \notin SleepPath
    BY <1>7 DEF NaTest, NoOff, NoPop, NoOn, CallJoin, JnTest, CallExit, Exit, EnterCall, At
  <2> QED BY <1>2, <2>1, <2>2
<1>8. ASSUME CallSleep
      PROVE  GoesOn
  <2>1. pc[cpu] = "user" /\ op[cpu] # "sleep"
    BY <1>0, <1>8 DEF CallSleep, EnterCall, At, SleepOf
  <2>2. PICK w \in (systick + 1) .. MaxTick : wake' = [wake EXCEPT ![cpu] = w]
    BY <1>8 DEF CallSleep
  <2>3. systick \in Nat /\ w \in Nat \ {0}
    BY TickAssumption DEF TypeInv, KernelType, TimerType
  <2>4. /\ wake'[cpu] = w /\ \A t \in Threads \ {cpu} : wake'[t] = wake[t]
        /\ \A t \in Threads \ {cpu} : op'[t] = op[t]
        /\ pc'[cpu] = "lk_off" /\ swRet' = swRet
    BY <1>0, <1>8, <2>2 DEF CallSleep, EnterCall, Goto, FileTypes, swVars
  <2>5. swRet[cpu] = "none"
    BY <2>1, Counting DEF Fits
  <2>6. SleepOf(pc'[cpu], op'[cpu], swRet'[cpu], wake'[cpu])
    BY <2>4, <2>5 DEF SleepOf
  <2> QED BY <1>1, <2>1, <2>3, <2>4, <2>6 DEF GoesOn
(* Along the path. *)
<1>9. ASSUME (SwOff \/ SwPick \/ SwPut \/ SwDis \/ SwRun \/ SwCtx \/ SwEn) /\ UNCHANGED timerVars
      PROVE  GoesOn
  <2>1. wake' = wake /\ op' = op /\ swRet' = swRet
    BY <1>9 DEF SwOff, SwPick, SwPut, SwDis, SwRun, SwCtx, SwEn, swVars, timerVars
  <2>2. \E l \in SwLabels \cup {"hang"} : Goto(l)
    BY <1>9 DEF SwOff, SwPick, SwPut, SwDis, SwRun, SwCtx, SwEn, PreemptionOff
  <2> QED BY <1>0, <1>3, <2>1, <2>2 DEF SleepOf, Labels
<1>10. ASSUME SwOn /\ UNCHANGED timerVars
      PROVE  GoesOn
  <2>1. wake' = wake /\ swRet' = [swRet EXCEPT ![cpu] = "none"] /\ pc[cpu] = "sw_on"
    BY <1>10 DEF SwOn, timerVars, At
  <2>2. CASE op[cpu] = "sleep"
    <3>1. swRet[cpu] \in {"lk_on", "wt_on"}
      BY <1>0, <2>1, <2>2 DEF SleepOf, HartInv, ControlInv, SyscallLabels, CallOf
    <3>2. op' = op /\ (Goto(swRet[cpu]) \/ Goto("hang")) /\ swRet'[cpu] = "none"
      BY <1>0, <1>10, <2>1, <3>1 DEF SwOn, PreemptionOn, FileTypes
    <3> QED BY <1>3, <2>1, <3>1, <3>2 DEF Labels, OffLabels
  <2>3. CASE op[cpu] # "sleep"
    <3>1. op'[cpu] # "sleep" /\ \A t \in Threads \ {cpu} : op'[t] = op[t]
      BY <1>0, <1>10, <2>3 DEF SwOn, FileTypes
    <3>2. wake[cpu] \in Nat
      BY <1>0
    <3> QED BY <1>1, <2>1, <2>3, <3>1, <3>2 DEF GoesOn, SleepOf
  <2> QED BY <2>2, <2>3
<1>11. ASSUME (LkOff \/ LkTest \/ LkOwn \/ LkPush \/ WtOff \/ WtUnlock \/ WtPush \/ WtOn)
            /\ UNCHANGED timerVars
      PROVE  GoesOn
  <2>1. wake' = wake /\ op' = op
    BY <1>11 DEF LkOff, LkTest, LkOwn, LkPush, WtOff, WtUnlock, WtPush, WtOn, timerVars
  <2>2. /\ \E l \in (SleepPath \ Awake) \cup {"tl_fail"} : Goto(l) /\ (op[cpu] = "sleep" => l # "tl_fail")
        /\ swRet' = swRet \/ swRet' = [swRet EXCEPT ![cpu] = "lk_on"]
           \/ swRet' = [swRet EXCEPT ![cpu] = "wt_on"]
    BY <1>11 DEF LkOff, LkTest, LkOwn, LkPush, WtOff, WtUnlock, WtPush, WtOn, PreemptionOff,
                 PreemptionOn, Switch, swVars
  <2>3. op[cpu] = "sleep" => swRet'[cpu] \in {"none", "lk_on", "wt_on"}
    BY <1>0, <2>2 DEF SleepOf, FileTypes
  <2> QED BY <1>3, <2>1, <2>2, <2>3 DEF Labels, OffLabels, OnLabels
<1>12. ASSUME LkOn /\ UNCHANGED timerVars
      PROVE  GoesOn
  <2>1. wake' = wake /\ swRet' = swRet
    BY <1>12 DEF LkOn, timerVars, swVars
  <2>2. CASE op[cpu] = "sleep"
    <3>1. op' = op /\ (Goto("sl_test") \/ Goto("hang"))
      BY <1>12, <2>2 DEF LkOn, PreemptionOn
    <3> QED BY <1>0, <1>3, <2>1, <3>1 DEF SleepOf, Labels, OnLabels
  <2>3. CASE op[cpu] # "sleep"
    <3>1. op'[cpu] # "sleep" /\ \A t \in Threads \ {cpu} : op'[t] = op[t]
      BY <1>0, <1>12, <2>3 DEF LkOn, FileTypes
    <3>2. wake[cpu] \in Nat
      BY <1>0
    <3> QED BY <1>1, <2>1, <2>3, <3>1, <3>2 DEF GoesOn, SleepOf
  <2> QED BY <2>2, <2>3
<1>13. ASSUME SlTest
      PROVE  GoesOn
  <2>1. op' = op /\ swRet' = swRet /\ pc[cpu] = "sl_test"
    BY <1>13 DEF SlTest, swVars, At
  <2>2. CASE systick < wake[cpu]
    <3>1. wake' = wake /\ Goto("wt_off")
      BY <1>13, <2>2 DEF SlTest
    <3> QED BY <1>0, <1>3, <2>1, <3>1 DEF SleepOf, Labels, OnLabels
  <2>3. CASE ~(systick < wake[cpu])
    <3>1. wake' = [wake EXCEPT ![cpu] = 0] /\ Goto("ul_off")
      BY <1>13, <2>3 DEF SlTest
    <3>2. wake'[cpu] = 0 /\ pc'[cpu] = "ul_off" /\ \A t \in Threads \ {cpu} : wake'[t] = wake[t]
      BY <1>0, <3>1 DEF Goto, FileTypes
    <3>3. systick \in Nat /\ wake[cpu] \in Nat
      BY <1>0 DEF TypeInv, KernelType, TimerType
    <3>4. SleepOf(pc'[cpu], op'[cpu], swRet'[cpu], wake'[cpu])
      BY <1>0, <2>1, <3>2 DEF SleepOf
    <3> QED BY <1>1, <2>1, <2>3, <3>2, <3>3, <3>4 DEF GoesOn
  <2> QED BY <2>2, <2>3
<1>14. ASSUME (UlOff \/ UlBody) /\ UNCHANGED timerVars
      PROVE  GoesOn
  <2>1. wake' = wake /\ op' = op /\ swRet' = swRet /\ pc[cpu] \in Awake
    BY <1>14 DEF UlOff, UlBody, timerVars, swVars, At
  <2>2. \E l \in {"ul_body", "ul_on"} : Goto(l)
    BY <1>14 DEF UlOff, UlBody, PreemptionOff
  <2> QED BY <1>0, <1>3, <2>1, <2>2 DEF SleepOf, Labels, OffLabels
<1>15. ASSUME UlOn /\ UNCHANGED timerVars
      PROVE  GoesOn
  <2>1. wake' = wake /\ pc[cpu] = "ul_on"
    BY <1>15 DEF UlOn, timerVars, At
  <2>2. op[cpu] = "sleep" => wake[cpu] = 0
    BY <1>0, <2>1 DEF SleepOf
  <2>3. op'[cpu] # "sleep" /\ \A t \in Threads \ {cpu} : op'[t] = op[t]
    BY <1>0, <1>15 DEF UlOn, ViaEcall, EcallOps, FileTypes
  <2>4. wake[cpu] \in Nat
    BY <1>0
  <2> QED BY <1>1, <2>1, <2>2, <2>3, <2>4 DEF GoesOn, SleepOf
(* The interrupts and what returns from them. *)
<1>16. ASSUME ((EcallYield \/ HandlerReturn) /\ UNCHANGED timerVars)
            \/ TimerInterrupt \/ DeviceInterrupt \/ UNCHANGED vars
      PROVE  GoesOn
  <2>1. wake' = wake /\ op' = op /\ swRet' = swRet
    BY <1>16 DEF EcallYield, HandlerReturn, TimerInterrupt, DeviceInterrupt, swVars, timerVars, vars,
                 schedVars
  <2>2. UNCHANGED pc \/ pc' = [pc EXCEPT ![cpu] = "hang"]
    BY <1>16 DEF EcallYield, HandlerReturn, TimerInterrupt, DeviceInterrupt, InInterruptYield, Goto,
                 vars, schedVars
  <2> QED BY <1>4, <2>1, <2>2
<1>17. GoesOn
  <2>1. CASE SchedStep /\ UNCHANGED <<mutexVars, condVars, timerVars, tgt>>
    BY <1>5, <1>9, <1>10, <1>16, <2>1 DEF SchedStep, CreateStep, SwitchStep
  <2>2. CASE MutexStep /\ UNCHANGED <<condVars, timerVars, tgt>>
    BY <1>6, <1>11, <1>12, <1>14, <1>15, <2>2 DEF MutexStep, LockStep, UnlockStep
  <2>3. CASE CondStep /\ UNCHANGED <<timerVars, tgt>>
    BY <1>6, <1>7, <1>11, <2>3 DEF CondStep, WaitStep, NotifyStep
  <2>4. CASE JoinStep \/ ExitStep \/ SleepStep
    BY <1>7, <1>8, <1>13, <2>4 DEF JoinStep, ExitStep, SleepStep
  <2> QED BY <1>16, <2>1, <2>2, <2>3, <2>4 DEF WholeStep, ThreadStep
<1> QED BY <1>17, GoesOnSuffices

LEMMA SleepTorn ==
    ASSUME TypeInv, Sleeps, Tear
    PROVE  Sleeps' /\ \A t \in Threads : SleepsStep(t)
<1>1. UNCHANGED <<wake, op, swRet>>
  BY DEF Tear, timerVars, swVars
<1>2. \A t \in Threads : pc'[t] \in {pc[t], "hang"}
  BY DEF Tear, WakeTears, GrowthTears, MoveTears, Goto, TypeInv, KernelType, PcType
<1>3. \A t \in Threads : wake[t] \in Nat
  BY DEF TypeInv, KernelType, TimerType
<1> QED BY <1>1, <1>2, <1>3 DEF Sleeps, SleepOf, SleepPath, Awake, SleepsStep

(* sleep returns only when its tick has come, however often the ticks before  *)
(* it, and the mutex it has to take again, hold it up.                        *)
THEOREM SleepsLongEnough == NonBlockingEcalls => (Spec => NoEarlyWake)
<1> SUFFICES ASSUME NonBlockingEcalls PROVE Spec => NoEarlyWake
  OBVIOUS
<1> DEFINE Step == \A t \in Threads :
                      /\ wake[t] > 0 /\ wake'[t] = 0 => systick >= wake[t]
                      /\ op[t] = "sleep" /\ op'[t] # "sleep" => wake[t] = 0
<1>1. Init => Sleeps
  <2>1. ASSUME Init PROVE \A t \in Threads : op[t] = "none"
    BY <2>1 DEF Init, SchedInit
  <2> QED BY <2>1 DEF Sleeps, SleepOf
<1>2. KeptInv /\ Sleeps /\ [Next]_vars => Sleeps' /\ [Step]_vars
  <2> SUFFICES ASSUME KeptInv, Sleeps, [Next]_vars PROVE Sleeps' /\ [Step]_vars
    OBVIOUS
  <2>1. CASE WholeStep \/ UNCHANGED vars
    BY <2>1, SleepNext DEF KeptInv, SleepsStep
  <2>2. CASE Tear
    BY <2>2, SleepTorn DEF KeptInv, SleepsStep
  <2> QED BY <2>1, <2>2, WholeOrTear
<1> QED BY <1>1, <1>2, FiledInvariant, PTL DEF Spec, NoEarlyWake
=============================================================================
