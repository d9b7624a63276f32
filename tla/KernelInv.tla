------------------------------ MODULE KernelInv ------------------------------
(* The inductive invariants behind the theorems of KernelProofs: what is true *)
(* of the hart and of every suspended thread between any two steps.           *)
EXTENDS Kernel

(* The theorems about the hart are for code that blocks only by direct calls: *)
(* a lock or a wait behind the ecall interface breaks them.                   *)
NonBlockingEcalls == \A t \in Ecall : Calls[t] \cap {"lock", "wait"} = {}

Born == {t \in Threads : pc[t] # "none"}

(* What is filed, and what a switch has picked, has been created.             *)
FiledAreBorn ==
    /\ ready \in Seq(Born)
    /\ mwait \in [Mutexes -> Seq(Born)]
    /\ cwait \in [Conds -> Seq(Born)]
UnbornIdle ==
    \A t \in Threads :
        /\ state[t] = "INIT" => pc[t] = "none"
        /\ pc[t] = "none" => smie[t] = 0 /\ t \notin trapped /\ op[t] = "none"

(* The locals of switchCurrentThreadTo, from the pick to the context switch.  *)
Picked == {"sw_put", "sw_dis", "sw_run", "sw_ctx"}
SwitchLocals ==
    \A t \in Threads : pc[t] \in Picked => cur[t] = t /\ nxt[t] \in Born \ {t}

(* The labels of the calls that may block.  None of them is reached inside a  *)
(* system call.                                                               *)
BlockLabels == SwLabels \cup
    {"lk_off", "lk_test", "lk_own", "lk_push", "lk_on", "tl_fail", "wt_off",
     "wt_unlock", "wt_push", "wt_on", "jn_test", "sl_test", "exit", "dead"}
InSyscall(t) == t \in Ecall /\ op[t] \in EcallOps
CallOf(t) ==
    /\ pc[t] \in BlockLabels => ~InSyscall(t)
    /\ pc[t] \in SwLabels => swRet[t] # "none"
    /\ pc[t] \in {"user", "stub"} => op[t] = "none"
    /\ pc[t] = "sysret" => InSyscall(t)
    /\ InSyscall(t) => mpie[t] = 1
SyscallLabels == \A t \in Threads : CallOf(t)

(* Between disable_interrupts and enable_interrupts, or before the first      *)
(* enable_interrupts of a new thread.                                         *)
Masked(t) == pc[t] \in {"sw_run", "sw_ctx", "sw_en", "stub"}

(* nest_critical_cnt is one global counter, yet it is at all times the number *)
(* of levels the thread on the hart has opened itself, and MIE agrees.        *)
HartNesting ==
    /\ nest = (IF Masked(cpu) THEN 1 ELSE 0) + (IF InSyscall(cpu) THEN 1 ELSE 0)
              + (IF cpu \in trapped THEN 1 ELSE 0)
    /\ mie = 1 => nest = 0
    /\ nest = 0 /\ pc[cpu] # "hang" => mie = 1

(* Every thread that is off the hart was left by a trap handler, or with      *)
(* interrupts closed by a switch, and in either case with one level open.     *)
Suspended ==
    /\ \A t \in trapped : mpie[t] = 1 /\ ~Masked(t) /\ ~InSyscall(t)
    /\ \A t \in Born \ {cpu} :
           /\ smie[t] = 0 /\ ~InSyscall(t)
           /\ t \in trapped \/ pc[t] \in {"sw_en", "stub"}

OwnStack ==
    /\ \A t \in Threads : ctx[t] = t
    /\ cpu \in Born
    /\ running = IF pc[cpu] = "sw_ctx" THEN nxt[cpu] ELSE cpu

(* The counter, the saved frames and the switch agree at every instruction:   *)
(* whichever thread a switch or an interrupt continues, it finds its own      *)
(* stack and the nesting level it left with.                                  *)
ControlInv == /\ UnbornIdle /\ SwitchLocals /\ SyscallLabels
              /\ HartNesting /\ Suspended /\ OwnStack
HartInv    == FiledAreBorn /\ ControlInv
=============================================================================
