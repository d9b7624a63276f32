------------------------------ MODULE Chipset ------------------------------
(* The interrupt and timer registers of the console's chipset (riscv-sim,    *)
(* RISCVConsoleChipset.cpp, RISCVCPU.cpp). Every register is an atomic, but  *)
(* a write to one is followed by CheckInterrupt, which loads two registers   *)
(* and then sets or clears a bit of the CPU's mip: three more steps. Three   *)
(* threads do this: the CPU thread (stores of the guest), the timer thread   *)
(* (IncrementTimer) and the user interface's thread (devices).               *)
EXTENDS Integers

CONSTANTS Sources,        \* the interrupt sources of the pending register
          DeviceSources,  \* those the user interface's thread raises
          MaxTime,        \* bound on the machine time
          MaxRaised,      \* bound on the number of device events
          Modes           \* TRUE: one thread does everything; FALSE: three do

ASSUME ChipsetAssumption ==
    /\ DeviceSources \subseteq Sources
    /\ MaxTime \in Nat /\ MaxRaised \in Nat /\ Modes \subseteq BOOLEAN

VARIABLES serial,   \* AutoRunner and the debug mode, or the normal mode
          enable,   \* DInterruptEnable
          pending,  \* DInterruptPending
          time,     \* DMachineTime
          compare,  \* DMachineTimeCompare
          mip,      \* the CPU's DMachineInterruptPendingRegister
          check,    \* where each thread is in CheckInterrupt
          events    \* history: how often each device source was raised

registers == <<serial, enable, pending, time, compare>>
chipsetVars == <<serial, enable, pending, time, compare, mip, check, events>>

Threads == {"cpu", "timer", "ui"}
Lines == {"Timer", "External"}

NoCheck == [line |-> "none"]
Done(t) == check[t] = NoCheck

(* A thread may start an operation when it is in none; when one thread does  *)
(* everything, when none is in one.                                          *)
MayStart(t) == Done(t) /\ (serial => \A u \in Threads : Done(u))

BeginCheck(t, line) == check' = [check EXCEPT ![t] = [line |-> line, at |-> "first"]]

(* The two loads of a check. Their order is the compiler's.                  *)
Registers(line) ==
    IF line = "Timer" THEN [time |-> time, compare |-> compare]
                      ELSE [enable |-> enable, pending |-> pending]

Raises(line, r) ==
    IF line = "Timer" THEN r.time >= r.compare ELSE r.enable \cap r.pending # {}

LoadFirst(t) ==
    /\ ~Done(t) /\ check[t].at = "first"
    /\ \E reg \in DOMAIN Registers(check[t].line) :
          check' = [check EXCEPT ![t] = [line |-> @.line, at |-> "second", loaded |-> reg,
                                         value |-> Registers(@.line)[reg]]]
    /\ UNCHANGED <<registers, mip, events>>

LoadSecond(t) ==
    /\ ~Done(t) /\ check[t].at = "second"
    /\ check' = [check EXCEPT ![t] =
          [line |-> @.line, at |-> "act",
           set |-> Raises(@.line, [Registers(@.line) EXCEPT ![check[t].loaded] = check[t].value])]]
    /\ UNCHANGED <<registers, mip, events>>

(* SetInterruptPending or ClearInterruptPending of the CPU.                  *)
Act(t) ==
    /\ ~Done(t) /\ check[t].at = "act"
    /\ mip' = IF check[t].set THEN mip \cup {check[t].line} ELSE mip \ {check[t].line}
    /\ check' = [check EXCEPT ![t] = NoCheck]
    /\ UNCHANGED <<registers, events>>

CheckStep == \E t \in Threads : LoadFirst(t) \/ LoadSecond(t) \/ Act(t)

-----------------------------------------------------------------------------
(* The devices.                                                              *)

IncrementTimer ==
    /\ MayStart("timer") /\ time < MaxTime
    /\ time' = time + 1
    /\ BeginCheck("timer", "Timer")
    /\ UNCHANGED <<serial, enable, pending, compare, mip, events>>

(* A video tick, the command button, a cartridge.                            *)
SetInterruptPending(s) ==
    /\ MayStart("ui") /\ events[s] < MaxRaised
    /\ pending' = pending \cup {s}
    /\ events' = [events EXCEPT ![s] = @ + 1]
    /\ BeginCheck("ui", "External")
    /\ UNCHANGED <<serial, enable, time, compare, mip>>

-----------------------------------------------------------------------------
(* The stores of the guest.                                                  *)

StoreEnable(s) ==
    /\ MayStart("cpu")
    /\ enable' = s
    /\ BeginCheck("cpu", "External")
    /\ UNCHANGED <<serial, pending, time, compare, mip, events>>

(* A one clears the pending bit.                                             *)
StoreInterruptPending(s) ==
    /\ MayStart("cpu")
    /\ pending' = pending \ s
    /\ BeginCheck("cpu", "External")
    /\ UNCHANGED <<serial, enable, time, compare, mip, events>>

StoreCompare(v) ==
    /\ MayStart("cpu")
    /\ compare' = v
    /\ BeginCheck("cpu", "Timer")
    /\ UNCHANGED <<serial, enable, pending, time, mip, events>>

-----------------------------------------------------------------------------
ChipsetTypeOK ==
    /\ serial \in Modes /\ enable \subseteq Sources /\ pending \subseteq Sources /\ mip \subseteq Lines
    /\ time \in Nat /\ compare \in Nat
    /\ \A t \in Threads : ~Done(t) => check[t].line \in Lines
    /\ events \in [DeviceSources -> Nat]

(* When no thread is inside a check, both lines to the CPU say what the      *)
(* registers say: docs/hardware.md promises that a device event can generate *)
(* an interrupt. CheckInterrupt is there to keep this so.                    *)
LinesSettle ==
    (\A t \in Threads : Done(t)) =>
        /\ "External" \in mip <=> enable \cap pending # {}
        /\ "Timer" \in mip <=> time >= compare

=============================================================================
