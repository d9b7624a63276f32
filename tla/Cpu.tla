-------------------------------- MODULE Cpu --------------------------------
(* The simulator's processor (riscv-sim/src/RISCVCPU.cpp) with its            *)
(* instruction cache: ExecuteInstruction as one action of the processor's     *)
(* thread, the interrupt lines other threads set and clear, and what the      *)
(* window does while the machine is stopped. Addresses count words; an        *)
(* instruction is named for what it does to the control state.                *)
EXTENDS CodeCache, FiniteSets

CONSTANTS
    Mapped,      \* the words that are memory,
    Firmware,    \* those of the firmware's flash, which ProgramFirmware writes,
    Cartridge,   \* and of the cartridge's, which InsertCartridge does
    Programs,    \* what they write there, and what RAM holds at the start
    Targets,     \* where the words that jump do
    Odd,         \* an address that is not a multiple of 4
    TrapBase,    \* what the program has put into mtvec,
    Vectored,    \* and whether with its lowest bit set
    Raised,      \* the interrupts the devices raise
    MaxRetired   \* bound on the instructions retired

(* The flashes are ranges of the memory, and the handler is in the address    *)
(* space.                                                                     *)
ASSUME CpuAssumption ==
    /\ Mapped \subseteq Addresses32 /\ Odd \notin Addresses32
    /\ Firmware \cup Cartridge \subseteq Mapped
    /\ \A flash \in {Firmware, Cartridge} : \E a, b \in Addresses32 : a <= b /\ flash = a..b
    /\ \A p \in Programs : DOMAIN p = Mapped
    /\ \A word \in DOMAIN Targets : Targets[word] \in Addresses32 \cup {Odd}
    /\ TrapBase \in Addresses32 /\ TrapBase + (IF Vectored THEN 11 ELSE 0) \in Addresses32

(* The words: "plain" is a load, store, operation or a branch not taken,      *)
(* "patch" a store into RAM that holds code, and Targets has the jumps.       *)
Faults == [badload |-> 5, badstore |-> 7]

(* InvokeTrap's causes of interrupts: external before timer before software *)
Software == 3
Timer == 7
External == 11
Sources == {Software, Timer, External}

VARIABLES
    cache,       \* DInstructionCache
    mem,      \* the words of flash and RAM
    power,       \* the processor's thread runs
    listing,     \* the words the window has still to list
    hart,        \* the counter and the control and status registers
    lines,       \* mip
    retired,     \* DRetiredInstructionRegister, which DCycleRegister equals
    stale,       \* words the guest has overwritten and nobody has flushed
    open,        \* "no" trap is open, "yes" one is, "lost": they nest, or may
    owed         \* where the code outside the traps goes on

cpuVars == <<cache, mem, power, listing, hart, lines, retired, stale, open, owed>>

-----------------------------------------------------------------------------
(* InvokeTrap. Vectored mode moves exceptions as well as interrupts. *)
TrappedNext(h, cause, interrupt) ==  \* mutant: mepc is past the instruction
    [h EXCEPT !.pc = TrapBase + (IF Vectored THEN cause ELSE 0),
              !.cause = <<cause, interrupt>>, !.prev = h.on, !.on = FALSE,
              !.mepc = IF h.pc = Odd THEN Odd ELSE (h.pc + 1) % WordCount]
Trapped(h, cause, interrupt) ==
    [h EXCEPT !.pc = TrapBase + (IF Vectored THEN cause ELSE 0),
              !.cause = <<cause, interrupt>>, !.prev = h.on, !.on = FALSE, !.mepc = h.pc]

Interrupting(h) == h.on /\ lines \cap h.enabled # {}
First(set) == CHOOSE s \in set : \A u \in set : s >= u     \* the greatest
CheckInterrupts(h) ==
    IF Interrupting(h) THEN Trapped(h, First(lines \cap h.enabled), TRUE) ELSE h

(* What an instruction does to the registers; ecall traps by itself. *)
Following(addr, word) ==
    IF word \in DOMAIN Targets THEN Targets[word] ELSE (addr + 1) % WordCount
Effect(h, word) ==
    CASE word = "mret"    -> [h EXCEPT !.pc = h.mepc, !.on = h.prev]
      [] word = "ecall"   -> Trapped(h, 11, FALSE)
      [] OTHER -> [h EXCEPT !.pc = Following(h.pc, word),
                            !.on = word = "enable" \/ (@ /\ word # "disable"),
                            !.enabled = IF word = "unmask" THEN Sources ELSE @]

(* ExecuteInstruction: the word at the counter, from the cache or decoded and *)
(* put there, or why there is none, which is a trap as well.                  *)
NextWord ==
    IF hart.pc = Odd THEN "misaligned"
    ELSE LET found == Fetch(cache, hart.pc) IN
         IF found # None THEN found.word
         ELSE IF hart.pc \in Mapped THEN mem[hart.pc] ELSE "unmapped"
Decoded(c, addr, word) ==
    IF Fetch(c, addr) # None \/ word \in {"unmapped", "illegal"} THEN Followed(c, addr)
    ELSE Insert(c, addr, [addr |-> addr, word |-> word])
ExceptionCause(word) ==
    CASE word = "misaligned" -> 0
      [] word = "unmapped" -> 1
      [] word = "illegal" -> 2
      [] OTHER -> Faults[word]
Excepted(word) == word \in {"misaligned", "unmapped", "illegal"} \cup DOMAIN Faults

(* History: a trap opens and mret closes it, unless the handler traps again   *)
(* or enables interrupts; outside, one instruction hands over to the next.    *)
Trace(word) ==
    LET itself == Excepted(word) \/ word = "ecall"
        taken == itself \/ Interrupting(Effect(hart, word))
    IN /\ open' = CASE open = "lost" -> "lost"
                    [] open = "no" -> IF word = "mret" THEN "lost" ELSE IF taken THEN "yes" ELSE "no"
                    [] open = "yes" -> IF itself \/ word = "enable" THEN "lost"
                                       ELSE IF word = "mret" /\ ~taken THEN "no" ELSE "yes"
       /\ owed' = IF open = "no" /\ ~itself THEN Following(hart.pc, word) ELSE owed

Step ==
    /\ power /\ retired < MaxRetired
    /\ \E word \in {NextWord} :
       /\ cache' = IF word = "misaligned" THEN cache ELSE Decoded(cache, hart.pc, word)
       /\ IF Excepted(word)
          THEN hart' = Trapped(hart, ExceptionCause(word), FALSE) /\ UNCHANGED retired
          ELSE hart' = CheckInterrupts(Effect(hart, word)) /\ retired' = retired + 1
       /\ IF word = "patch"
          THEN \E a \in Mapped \ (Firmware \cup Cartridge), p \in Programs :
                  mem' = [mem EXCEPT ![a] = p[a]] /\ stale' = stale \cup {a}
          ELSE UNCHANGED <<mem, stale>>
       /\ Trace(word)
    /\ UNCHANGED <<power, listing, lines>>

(* SetInterruptPending and ClearInterruptPending, from any thread *)
SetLine(s) ==
    /\ s \in Raised \ lines /\ lines' = lines \cup {s}
    /\ UNCHANGED <<cache, mem, power, listing, hart, retired, stale, open, owed>>
ClearLine(s) ==
    /\ s \in lines /\ lines' = lines \ {s}
    /\ UNCHANGED <<cache, mem, power, listing, hart, retired, stale, open, owed>>

-----------------------------------------------------------------------------
(* The window, which stops the processor's thread around all it does *)
StopOrRun ==
    /\ listing = {} /\ power' = ~power
    /\ UNCHANGED <<cache, mem, listing, hart, lines, retired, stale, open, owed>>

ResetHart == [pc |-> 0, mepc |-> 0, cause |-> <<0, FALSE>>, on |-> FALSE,
              prev |-> FALSE, enabled |-> {}]

(* New words for a flash, then the flush of its range; the listing follows    *)
Written(p, flash) == [a \in Mapped |-> IF a \in flash THEN p[a] ELSE mem[a]]
FirstOf(flash) == CHOOSE a \in flash : \A b \in flash : a <= b
NeverFlushed(c, flash) == c      \* mutant: the cache keeps the old program
Flushed(c, flash) == FlushRange(c, FirstOf(flash), Cardinality(flash))
Program(p, flash) ==
    /\ ~power /\ listing = {}
    /\ mem' = Written(p, flash)
    /\ cache' = Flushed(cache, flash)
    /\ listing' = flash
    /\ stale' = stale \ flash

(* with the processor's part of ResetComponents, which leaves the cache alone *)
FlashFirmware(p) ==
    /\ Program(p, Firmware)
    /\ hart' = ResetHart /\ lines' = {} /\ retired' = 0
    /\ open' = "no" /\ owed' = 0
    /\ UNCHANGED power

FlashCartridge(p) ==
    /\ Program(p, Cartridge)
    /\ UNCHANGED <<power, hart, lines, retired, open, owed>>

(* ConstructInstructionStrings fetches every word of the program in its turn. *)
ListWord ==
    /\ listing # {}
    /\ LET addr == FirstOf(listing) IN
       /\ cache' = Decoded(cache, addr, mem[addr])
       /\ listing' = listing \ {addr}
    /\ UNCHANGED <<mem, power, hart, lines, retired, stale, open, owed>>

-----------------------------------------------------------------------------
CpuInit ==
    /\ cache = NewCache
    /\ mem \in Programs /\ power = FALSE /\ listing = {} /\ hart = ResetHart /\ lines = {}
    /\ retired = 0 /\ stale = {} /\ open = "no" /\ owed = 0

CpuNext ==
    \/ Step \/ StopOrRun \/ ListWord
    \/ \E s \in Sources : SetLine(s) \/ ClearLine(s)
    \/ \E p \in Programs : FlashFirmware(p) \/ FlashCartridge(p)
CpuSpec == CpuInit /\ [][CpuNext]_cpuVars

-----------------------------------------------------------------------------
(* The registers have their types, and the current sub-block is one that the  *)
(* cache has, so that no index runs off a block.                              *)
CpuTypeOK ==
    /\ hart \in [pc: Addresses32 \cup {Odd}, mepc: Addresses32 \cup {Odd},
                 cause: (0..11) \X BOOLEAN, on: BOOLEAN, prev: BOOLEAN, enabled: SUBSET Sources]
    /\ cache.sub \in DOMAIN cache.subs /\ BlockSubs(cache.block) \subseteq DOMAIN cache.subs

(* Wherever the current block is, a fetch looks into the sub-block of its      *)
(* address: the blocks overlap and do not hide one another's.                 *)
FetchIsByAddress ==
    \A b \in {k * SubSize : k \in 0..SubTotal-1} : SubFor(cache, b) = b

(* A cached instruction is that of its address and of the memory there, as    *)
(* long as the guest did not write over it: programming a flash flushes it.   *)
CacheIsCoherent ==
    \A b \in DOMAIN cache.subs, i \in 0..SubSize-1 :
        LET found == cache.subs[b][i] IN
        found # None => found.addr = b + i /\ (b + i \in stale \/ found.word = mem[b + i])

(* The cache is transparent: what is fetched is what the memory holds.        *)
CacheInv == CpuTypeOK /\ FetchIsByAddress /\ CacheIsCoherent

(* Interrupts and exceptions are precise and transparent: when the handler of *)
(* a trap that neither trapped itself nor enabled interrupts has returned,    *)
(* the hart is where it would be without the trap, no instruction skipped and *)
(* none done twice.                                                           *)
TrapsAreTransparent == open = "no" => hart.pc = owed
=============================================================================
