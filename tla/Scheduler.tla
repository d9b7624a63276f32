----------------------------- MODULE Scheduler -----------------------------
(* The FlitOS scheduler (os_kernel/src/cs251_scheduler.h, _scheduler_impl.h,  *)
(* context_switch.s, utils.c) on its single hart.                             *)
(*                                                                            *)
(* Threads are interleaved only by the timer interrupt and by their own       *)
(* voluntary switches, so the model keeps apart the thread the kernel         *)
(* believes it runs (running, the code's running_thread_id_) and the thread   *)
(* whose stack the stack pointer is on (cpu).  A thread's control state is a  *)
(* label: every label is a point of the source where a timer interrupt may    *)
(* find the hart.  A list changes in one step; what an interrupt in the       *)
(* middle of that does to it is Kernel's Tear, and ReadyList.                 *)
EXTENDS Integers, Sequences, FiniteSets

CONSTANTS
    Threads,     \* every thread that may ever exist
    Idle,        \* the idle thread of main(): it does nothing but yield
    Boot,        \* the threads main() creates, in order, before the launch
    Calls,       \* Calls[t]: the kernel calls the code of thread t makes
    Ecall,       \* threads whose code sits behind the ecall interface
    NoThread     \* the code's owner_ == -1

ASSUME IdleAssumption == Idle \in Threads
ASSUME BootAssumption ==
    /\ Boot \in Seq(Threads)
    /\ Boot # <<>>
    /\ \A i, j \in DOMAIN Boot : Boot[i] = Boot[j] => i = j
    /\ \E i \in DOMAIN Boot : Boot[i] = Idle
ASSUME CallsAssumption == Calls[Idle] = {"yield"} /\ Idle \notin Ecall
ASSUME NoThreadAssumption == NoThread \notin Threads

(* The calls a cartridge makes with the ecall instruction; join and sleep go  *)
(* to the kernel directly, through hookFunction.                              *)
EcallOps == {"yield", "lock", "unlock", "wait", "notifyOne", "notifyAll",
             "create"}

VARIABLES
    cpu,        \* the thread whose stack the hart executes on
    running,    \* running_thread_id_
    nest,       \* nest_critical_cnt
    mie,        \* mstatus.MIE, 0 or 1
    ctx,        \* ctx[t]: the thread whose switch frame t's stack_ptr_ points to
    smie,       \* smie[t]: MIE in the mstatus saved in t's switch frame
    mpie,       \* mpie[t]: MPIE, the MIE that t's mret restores
    trapped,    \* the threads inside a trap handler that switched away from them
    state,      \* state_ of t's control block
    preempt,    \* preemption_on_ of t's control block
    ready,      \* ready_list_
    finished,   \* finished_list_
    pc,         \* control label of t
    op,         \* the kernel call t is executing
    swRet,      \* where switchCurrentThreadTo returns to in t
    cur, nxt    \* its locals curr_thread_id and next_thread_id

hartVars  == <<cpu, running, nest, mie, ctx, smie, mpie, trapped>>
tcbVars   == <<state, preempt>>
listVars  == <<ready, finished>>
swVars    == <<swRet, cur, nxt>>
schedVars == <<hartVars, tcbVars, listVars, swVars, pc, op>>

-----------------------------------------------------------------------------
(* Control *)

At(l)   == pc[cpu] = l /\ cpu \notin trapped
Goto(l) == pc' = [pc EXCEPT ![cpu] = l]

ViaEcall == cpu \in Ecall /\ op[cpu] \in EcallOps

(* setPreemption: it counts in the control block of running_thread_id_, and   *)
(* hangs in assert(false) when the count exceeds 1.                           *)
PreemptionOff(l) ==
    /\ preempt' = [preempt EXCEPT ![running] = @ - 1]
    /\ Goto(l)
PreemptionOn(l) ==
    /\ preempt' = [preempt EXCEPT ![running] = @ + 1]
    /\ Goto(IF preempt[running] + 1 > 1 THEN "hang" ELSE l)

AlwaysPreempts == TRUE       \* mutant: the handler does not ask
AllowPreemption == preempt[running] > 0

(* enable_interrupts and disable_interrupts, with the clamp of                *)
(* isCriticalBound.                                                           *)
EnablesLate ==               \* mutant: the level is tested before it is left
    nest' = nest - 1 /\ mie' = IF nest <= 0 THEN 1 ELSE mie
EnableInterrupts ==
    /\ nest' = IF nest - 1 < 0 THEN 0 ELSE nest - 1
    /\ mie' = IF nest - 1 <= 0 THEN 1 ELSE mie
DisablesNothing ==           \* mutant: the level is counted, MIE is not cleared
    nest' = (IF nest < 0 THEN 0 ELSE nest) + 1 /\ UNCHANGED mie
DisableInterrupts ==
    /\ nest' = (IF nest < 0 THEN 0 ELSE nest) + 1
    /\ mie' = IF nest <= 0 THEN 0 ELSE mie

(* The running thread makes call o: directly, or by ecall, which traps        *)
(* (MPIE := MIE, MIE := 0) and counts one more nesting level.                 *)
EnterCall(o, entry) ==
    /\ At("user")
    /\ o \in Calls[cpu]
    /\ op' = [op EXCEPT ![cpu] = o]
    /\ Goto(entry)
    /\ IF cpu \in Ecall /\ o \in EcallOps
       THEN /\ nest' = nest + 1
            /\ mpie' = [mpie EXCEPT ![cpu] = mie]
            /\ mie' = 0
       ELSE UNCHANGED <<nest, mpie, mie>>
    /\ UNCHANGED <<cpu, running, ctx, smie, trapped>>

(* The label a call returns to: the caller, or the end of c_system_call.      *)
ReturnLabel == IF ViaEcall THEN "sysret" ELSE "user"

SysReturn ==
    /\ At("sysret")
    /\ nest' = nest - 1
    /\ mie' = mpie[cpu]
    /\ op' = [op EXCEPT ![cpu] = "none"]
    /\ Goto("user")
    /\ UNCHANGED <<cpu, running, ctx, smie, mpie, trapped, tcbVars, listVars,
                   swVars>>

(* resume(tid): ready again, at the end of the ready list. *)
Resume(t) ==
    /\ state' = [state EXCEPT ![t] = "READY"]
    /\ ready' = Append(ready, t)

-----------------------------------------------------------------------------
(* switchCurrentThreadTo(StateOf): the caller sets swRet and enters at sw_off *)

Switch(ret) ==
    /\ swRet' = [swRet EXCEPT ![cpu] = ret]
    /\ Goto("sw_off")

(* the state the caller asks for: yield READY, exit FINISHED, suspend WAITING *)
SwitchState ==
    CASE swRet[cpu] = "return" -> "READY"
      [] swRet[cpu] = "dead"   -> "FINISHED"
      [] OTHER                 -> "WAITING"

SwOff ==
    /\ At("sw_off")
    /\ PreemptionOff("sw_pick")
    /\ UNCHANGED <<hartVars, state, listVars, swVars, op>>

(* Take the head of the ready list; an empty list leaves without switching,   *)
(* and the head being the current thread hangs in the assert.                 *)
SwPick ==
    /\ At("sw_pick")
    /\ IF ready = <<>>
       THEN Goto("sw_on") /\ UNCHANGED <<ready, cur, nxt>>
       ELSE /\ cur' = [cur EXCEPT ![cpu] = running]
            /\ nxt' = [nxt EXCEPT ![cpu] = Head(ready)]
            /\ ready' = Tail(ready)
            /\ Goto(IF Head(ready) = running THEN "hang" ELSE "sw_put")
    /\ UNCHANGED <<hartVars, tcbVars, finished, swRet, op>>

SwPutFilesFinished ==        \* mutant: a finished thread is filed as ready too
    /\ At("sw_put")
    /\ LET self == cur[cpu] IN
       /\ state' = [state EXCEPT ![self] = SwitchState, ![nxt[cpu]] = "RUNNING"]
       /\ ready' = IF SwitchState = "WAITING" THEN ready ELSE Append(ready, self)
       /\ UNCHANGED finished
    /\ Goto("sw_dis")
    /\ UNCHANGED <<hartVars, preempt, swVars, op>>
SwPutForgetsNext ==          \* mutant: a yielding thread is not filed again
    /\ At("sw_put")
    /\ state' = [state EXCEPT ![cur[cpu]] = SwitchState, ![nxt[cpu]] = "RUNNING"]
    /\ Goto("sw_dis")
    /\ UNCHANGED <<hartVars, preempt, swVars, op, listVars>>

(* Set both states and file the current thread; debugContextSwitchInfo then   *)
(* hangs if preemption is still allowed.                                      *)
SwPut ==
    /\ At("sw_put")
    /\ LET self == cur[cpu] IN
       /\ state' = [state EXCEPT ![self] = SwitchState, ![nxt[cpu]] = "RUNNING"]
       /\ ready' = IF SwitchState = "READY" THEN Append(ready, self) ELSE ready
       /\ finished' = IF SwitchState = "FINISHED" THEN Append(finished, self)
                      ELSE finished
    /\ Goto(IF AllowPreemption THEN "hang" ELSE "sw_dis")
    /\ UNCHANGED <<hartVars, preempt, swVars, op>>

SwDis ==
    /\ At("sw_dis")
    /\ DisableInterrupts
    /\ Goto("sw_run")
    /\ UNCHANGED <<cpu, running, ctx, smie, mpie, trapped, tcbVars, listVars,
                   swVars, op>>

SwRun ==
    /\ At("sw_run")
    /\ running' = nxt[cpu]
    /\ Goto("sw_ctx")
    /\ UNCHANGED <<cpu, nest, mie, ctx, smie, mpie, trapped, tcbVars, listVars,
                   swVars, op>>

(* context_switch: push the frame, store sp in the current control block,     *)
(* load sp and mstatus of the next.                                           *)
SwCtx ==
    /\ At("sw_ctx")
    /\ LET target == ctx[nxt[cpu]] IN
       /\ ctx' = [ctx EXCEPT ![cur[cpu]] = cpu]
       /\ smie' = [smie EXCEPT ![cpu] = mie]
       /\ cpu' = target
       /\ mie' = smie[target]
    /\ Goto("sw_en")
    /\ cur' = [cur EXCEPT ![cpu] = NoThread]
    /\ nxt' = [nxt EXCEPT ![cpu] = NoThread]
    /\ UNCHANGED <<running, nest, mpie, trapped, tcbVars, listVars, swRet, op>>

SwEn ==
    /\ At("sw_en")
    /\ EnableInterrupts
    /\ Goto("sw_on")
    /\ UNCHANGED <<cpu, running, ctx, smie, mpie, trapped, tcbVars, listVars,
                   swVars, op>>

(* The switch returns: to user code after a yield, into lock or wait after a  *)
(* suspend, and past the end of the stub after an exit.                       *)
SwOn ==
    /\ At("sw_on")
    /\ PreemptionOn(IF swRet[cpu] = "return" THEN "user" ELSE swRet[cpu])
    /\ op' = IF swRet[cpu] = "return" THEN [op EXCEPT ![cpu] = "none"] ELSE op
    /\ swRet' = [swRet EXCEPT ![cpu] = "none"]
    /\ UNCHANGED <<hartVars, state, listVars, cur, nxt>>

SwitchStep == SwOff \/ SwPick \/ SwPut \/ SwDis \/ SwRun \/ SwCtx \/ SwEn \/ SwOn

-----------------------------------------------------------------------------
(* inInterruptYield from a trap handler: rdy and st are the ready list and    *)
(* the states the handler has reached.  Interrupts stay masked throughout.    *)
InInterruptYield(rdy, st) ==
    IF ~AllowPreemption \/ rdy = <<>>
    THEN ready' = rdy /\ state' = st /\ UNCHANGED <<hartVars, pc>>
    ELSE LET next   == Head(rdy)
             target == ctx[next]
         IN  /\ state' = [st EXCEPT ![running] = "READY", ![next] = "RUNNING"]
             /\ ready' = Append(Tail(rdy), running)
             /\ IF next = running        \* debugContextSwitchInfo's assert
                THEN /\ mie' = 0
                     /\ Goto("hang")
                     /\ UNCHANGED <<cpu, running, nest, ctx, smie, mpie, trapped>>
                ELSE /\ running' = next
                     /\ ctx' = [ctx EXCEPT ![running] = cpu]
                     /\ nest' = nest + 1
                     /\ mpie' = [mpie EXCEPT ![cpu] = mie]
                     /\ smie' = [smie EXCEPT ![cpu] = 0]
                     /\ trapped' = trapped \cup {cpu}
                     /\ cpu' = target
                     /\ mie' = smie[target]
                     /\ UNCHANGED pc

(* The other half of the handler, in the thread switched back to: it leaves   *)
(* one nesting level and mret puts MPIE back into MIE.                        *)
HandlerReturn ==
    /\ cpu \in trapped
    /\ nest' = nest - 1
    /\ mie' = mpie[cpu]
    /\ trapped' = trapped \ {cpu}
    /\ UNCHANGED <<cpu, running, ctx, smie, mpie, tcbVars, listVars, swVars, pc,
                   op>>

-----------------------------------------------------------------------------
StubStaysMasked ==           \* mutant: a new thread does not open interrupts
    /\ At("stub")
    /\ Goto("user")
    /\ UNCHANGED <<hartVars, tcbVars, listVars, swVars, op>>
(* A thread that runs for the first time enters stub_wrapper with MIE = 0. *)
Stub ==
    /\ At("stub")
    /\ EnableInterrupts
    /\ Goto("user")
    /\ UNCHANGED <<cpu, running, ctx, smie, mpie, trapped, tcbVars, listVars,
                   swVars, op>>

(* thread_yield by a direct call. *)
CallYield ==
    /\ ~(cpu \in Ecall)
    /\ EnterCall("yield", "sw_off")
    /\ swRet' = [swRet EXCEPT ![cpu] = "return"]
    /\ UNCHANGED <<tcbVars, listVars, cur, nxt>>

(* system call 11: the handler yields as an interrupt would. *)
EcallYield ==
    /\ At("user")
    /\ cpu \in Ecall
    /\ "yield" \in Calls[cpu]
    /\ InInterruptYield(ready, state)
    /\ UNCHANGED <<preempt, finished, swVars, op>>

(* create: the next id gets a control block, a stack whose frame enters the   *)
(* stub with interrupts closed, and a place at the end of the ready list.     *)
CallCreate ==
    /\ \E t \in Threads : state[t] = "INIT"
    /\ EnterCall("create", "cr_off")
    /\ UNCHANGED <<tcbVars, listVars, swVars>>
CrOff ==
    /\ At("cr_off")
    /\ PreemptionOff("cr_new")
    /\ UNCHANGED <<hartVars, state, listVars, swVars, op>>
CrNew ==
    /\ At("cr_new")
    /\ IF \E t \in Threads : state[t] = "INIT"
       THEN \E t \in Threads :
              /\ state[t] = "INIT"
              /\ state' = [state EXCEPT ![t] = "READY"]
              /\ preempt' = [preempt EXCEPT ![t] = 1]
              /\ ready' = Append(ready, t)
              /\ pc' = [pc EXCEPT ![t] = "stub", ![cpu] = "cr_on"]
       ELSE Goto("cr_on") /\ UNCHANGED <<state, preempt, ready>>
    /\ UNCHANGED <<hartVars, finished, swVars, op>>
CrOn ==
    /\ At("cr_on")
    /\ PreemptionOn(ReturnLabel)
    /\ op' = IF ViaEcall THEN op ELSE [op EXCEPT ![cpu] = "none"]
    /\ UNCHANGED <<hartVars, state, listVars, swVars>>

CreateStep == CallCreate \/ CrOff \/ CrNew \/ CrOn

-----------------------------------------------------------------------------
(* main() masks interrupts, creates the Boot threads and launches the first;  *)
(* it never returns.                                                          *)
SchedInit ==
    LET first == Head(Boot)
        born  == {Boot[i] : i \in DOMAIN Boot}
    IN  /\ cpu = first
        /\ running = first
        /\ nest = 1
        /\ mie = 0
        /\ ctx = [t \in Threads |-> t]
        /\ smie = [t \in Threads |-> 0]
        /\ mpie = [t \in Threads |-> 1]
        /\ trapped = {}
        /\ state = [t \in Threads |-> IF t = first THEN "RUNNING"
                                      ELSE IF t \in born THEN "READY"
                                      ELSE "INIT"]
        /\ preempt = [t \in Threads |-> 1]
        /\ ready = Tail(Boot)
        /\ finished = <<>>
        /\ pc = [t \in Threads |-> IF t \in born THEN "stub" ELSE "none"]
        /\ op = [t \in Threads |-> "none"]
        /\ swRet = [t \in Threads |-> "none"]
        /\ cur = [t \in Threads |-> NoThread]
        /\ nxt = [t \in Threads |-> NoThread]
=============================================================================
