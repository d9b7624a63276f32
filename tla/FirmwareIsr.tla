---------------------------- MODULE FirmwareIsr ----------------------------
(* The firmware's interrupt handler (riscv-firmware, startup.c and utils.h)   *)
(* running on the chipset: what it reads from the devices' registers, in     *)
(* which order it clears and counts, and how it programs the next tick.      *)
(* 64-bit registers are accessed as two words of WordSize values each.       *)
EXTENDS Chipset

CONSTANTS WordSize,  \* number of values of a word
          Period,    \* the time between two ticks, 100
          Enables    \* what the cartridge writes to the enable register

ASSUME IsrAssumption ==
    WordSize \in Nat \ {0} /\ Period \in Nat \ {0} /\ Enables \subseteq SUBSET Sources

VARIABLES pc,        \* where the CPU is: user code or a label of the handler
          cause,     \* mcause of the interrupt being handled
          local,     \* the words read so far and the new compare value
          systick,   \* SleepTimer::systick_
          seq,       \* vip_seq and cmd_seq
          began,     \* history: the time when readMachineTime started
          uncounted  \* history: sources with an event since their last count

handlerVars == <<cause, local, systick, seq, began, uncounted>>
isrVars == <<chipsetVars, pc, handlerVars>>

Counted == {"Video", "Command"}

High(n) == n \div WordSize
Low(n) == n % WordSize
Whole(high, low) == high * WordSize + low

Goto(label) == pc' = label
At(label) == pc = label /\ MayStart("cpu")

(* A load of a device register; nothing but the handler's locals changes.    *)
Load(from, name, value, to) ==
    /\ At(from)
    /\ local' = [local EXCEPT ![name] = value]
    /\ Goto(to)
    /\ UNCHANGED <<chipsetVars, cause, systick, seq, uncounted>>

(* CheckInterrupts and InvokeTrap: the external line before the timer's.     *)
Trap ==
    /\ At("user") /\ mip # {}
    /\ cause' = IF "External" \in mip THEN "External" ELSE "Timer"
    /\ Goto(IF "External" \in mip THEN "poll_video" ELSE "time_h1")
    /\ UNCHANGED <<chipsetVars, local, systick, seq, began, uncounted>>

-----------------------------------------------------------------------------
(* increaseTimeCompare.                                                      *)

TimeH1 == Load("time_h1", "h1", High(time), "time_l1") /\ began' = time
TimeL1 == Load("time_l1", "l1", Low(time), "time_h2") /\ UNCHANGED began
TimeH2 == Load("time_h2", "h2", High(time), "time_l2") /\ UNCHANGED began

(* MUTANT of ReadTime: the words of two different moments.                   *)
ReadTimeTorn(l2) == Whole(local.h2, local.l1)

(* The value readMachineTime returns after its last load.                    *)
ReadTime(l2) == IF local.h1 = local.h2 THEN Whole(local.h1, local.l1) ELSE Whole(local.h2, l2)

TimeL2 == Load("time_l2", "now", ReadTime(Low(time)), "compare_h") /\ UNCHANGED began

CompareH == Load("compare_h", "high", High(compare), "compare_l") /\ UNCHANGED began

(* MUTANT of NewCompare: the compare value stays.                             *)
NewCompareKept(now, old) == old

NewCompare(now, old) ==
    IF old <= now THEN now + Period - ((now - old) % Period) ELSE old

CompareL ==
    Load("compare_l", "new", NewCompare(local.now, Whole(local.high, Low(compare))), "store_l")
    /\ UNCHANGED began

StoreLow ==
    /\ pc = "store_l" /\ StoreCompare(Whole(High(compare), Low(local.new)))
    /\ Goto("store_h") /\ UNCHANGED handlerVars

StoreHigh ==
    /\ pc = "store_h" /\ StoreCompare(Whole(High(local.new), Low(compare)))
    /\ Goto("tick") /\ UNCHANGED handlerVars

UpdateTick ==
    /\ At("tick") /\ systick' = systick + 1
    /\ Goto("poll_video")
    /\ UNCHANGED <<chipsetVars, cause, local, seq, began, uncounted>>

-----------------------------------------------------------------------------
(* Polling the pending register.                                             *)

Poll(label, s, found, next) ==
    /\ At(label)
    /\ Goto(IF s \in pending THEN found ELSE next)
    /\ UNCHANGED <<chipsetVars, handlerVars>>

PollVideo == Poll("poll_video", "Video", "clear_video", "poll_command")
PollCommand == Poll("poll_command", "Command", "clear_command", "mret")

(* MUTANT of Cleared: the whole word as it was read.                         *)
ClearedAll(s) == pending

(* INTRPT_PENDING &= bit: what is read, masked, is written, and every one    *)
(* written clears.                                                           *)
Cleared(s) == pending \cap {s}

Clear(label, s, next) ==
    /\ pc = label /\ StoreInterruptPending(Cleared(s))
    /\ Goto(next) /\ UNCHANGED handlerVars

ClearVideo == Clear("clear_video", "Video", "count_video")
ClearCommand == Clear("clear_command", "Command", "count_command")

Count(label, s, next) ==
    /\ At(label)
    /\ seq' = [seq EXCEPT ![s] = @ + 1]
    /\ uncounted' = uncounted \ {s}
    /\ Goto(next)
    /\ UNCHANGED <<chipsetVars, cause, local, systick, began>>

CountVideo == Count("count_video", "Video", "poll_command")
CountCommand == Count("count_command", "Command", "mret")

Mret == At("mret") /\ Goto("user") /\ UNCHANGED <<chipsetVars, handlerVars>>

-----------------------------------------------------------------------------
Handler ==
    \/ Trap \/ TimeH1 \/ TimeL1 \/ TimeH2 \/ TimeL2 \/ CompareH \/ CompareL
    \/ StoreLow \/ StoreHigh \/ UpdateTick
    \/ PollVideo \/ ClearVideo \/ CountVideo \/ PollCommand \/ ClearCommand \/ CountCommand
    \/ Mret

CartridgeStore ==
    /\ pc = "user" /\ \E s \in Enables : s # enable /\ StoreEnable(s)
    /\ UNCHANGED <<pc, handlerVars>>

Tick == IncrementTimer /\ UNCHANGED <<pc, handlerVars>>

DeviceEvent ==
    /\ \E s \in DeviceSources : SetInterruptPending(s) /\ uncounted' = uncounted \cup {s}
    /\ UNCHANGED <<pc, cause, local, systick, seq, began>>

(* After startup.c's init: the first tick is due at time 1.                  *)
IsrInit ==
    /\ serial \in Modes
    /\ enable = {} /\ pending = {} /\ mip = {}
    /\ time = 0 /\ compare = 1
    /\ check = [t \in Threads |-> NoCheck]
    /\ events = [s \in DeviceSources |-> 0]
    /\ pc = "user" /\ cause = "none" /\ systick = 0 /\ began = 0
    /\ local = [name \in {"h1", "l1", "h2", "now", "high", "new"} |-> 0]
    /\ seq = [s \in Counted |-> 0] /\ uncounted = {}

IsrNext ==
    \/ Handler \/ CartridgeStore \/ Tick \/ DeviceEvent
    \/ CheckStep /\ UNCHANGED <<pc, handlerVars>>

IsrSpec == IsrInit /\ [][IsrNext]_isrVars

-----------------------------------------------------------------------------
IsrTypeOK ==
    /\ ChipsetTypeOK
    /\ local \in [{"h1", "l1", "h2", "now", "high", "new"} -> Nat]
    /\ systick \in Nat /\ seq \in [Counted -> Nat] /\ uncounted \subseteq DeviceSources

(* readMachineTime returns a time that was the time while it ran, although   *)
(* it reads words of a register that counts.                                 *)
TimeReadInRange == pc = "compare_h" => began <= local.now /\ local.now <= time

(* Whatever the delays, the next tick is on the grid of periods that started *)
(* at time 1 and ahead of the time the handler has read, at most a period.   *)
CompareOnGrid ==
    pc \in {"tick", "user"} =>
        /\ compare % Period = 1 % Period
        /\ pc = "tick" => compare > local.now /\ compare <= local.now + Period

(* An event of a device that the handler counts is pending, or being counted *)
(* right now, until it is counted: none is lost between the poll and the     *)
(* clear, however the devices interleave.                                    *)
NoEventLost ==
    \A s \in uncounted \cap Counted :
        s \in pending \/ pc = (IF s = "Video" THEN "count_video" ELSE "count_command")

(* The handler never counts more events than there were.                     *)
NoEventCountedTwice == \A s \in Counted \cap DeviceSources : seq[s] <= events[s]

EventsCountedOnce == IsrTypeOK /\ NoEventLost /\ NoEventCountedTwice

(* The number of ticks due by now.                                           *)
TicksDue == IF time = 0 THEN 0 ELSE 1 + (time - 1) \div Period

(* docs/simulator.md: the simulator maintains the timer according to real    *)
(* time. The firmware's clock never runs ahead of the machine time.          *)
NoExtraTick == systick <= TicksDue

(* In the programs in which one thread does everything the clock is right and *)
(* the lines say what the registers say; on the grid it is in all of them.    *)
ClockAndLinesRight ==
    CompareOnGrid /\ (serial => NoExtraTick /\ LinesSettle)

=============================================================================
