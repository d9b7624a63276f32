-------------------------------- MODULE Dma --------------------------------
(* The DMA channels of the console's chipset (riscv-sim,                     *)
(* RISCVConsoleChipset.cpp). The CPU thread alternates one instruction with  *)
(* one pass over the channels; each active channel moves at most one word    *)
(* per pass. An instruction of the guest is abstracted to what it does to    *)
(* the channels' registers.                                                  *)
EXTENDS Integers

CONSTANTS ChannelCount,  \* number of channels
          MemorySize,    \* bytes of memory; an access that leaves it throws
          Addresses,     \* what the guest writes to the address registers
          Sizes,         \* the transfer sizes the guest asks for
          MaxJobs        \* bound on the transfers started in one behaviour

ASSUME DmaAssumption ==
    /\ ChannelCount \in Nat \ {0} /\ MemorySize \in Nat \ {0} /\ MaxJobs \in Nat
    /\ Addresses \subseteq Nat /\ Sizes \subseteq Nat \ {0}

VARIABLES memory,    \* the bytes, addressed from 0
          source,    \* DDMASource of each channel
          destination, \* DDMADestination
          next,      \* DNextSource, DNextDestination, DUINT32Transfer
          status,    \* DDMAStatus, bit by bit
          raised,    \* the channels' bits of the pending register
          turn,      \* next in the CPU thread's loop: the instruction, 0, or a channel's pass
          job,       \* history: the transfer each channel was last started with
          jobs       \* number of transfers started

dmaVars == <<memory, source, destination, next, status, raised, turn, job, jobs>>

Channels == 1..ChannelCount
Word == 4

Aligned(n) == n % Word = 0
InMemory(addr, size) == addr < MemorySize /\ addr + size <= MemorySize

Idle == [active |-> FALSE, sourceError |-> FALSE, destinationError |-> FALSE,
         cancelled |-> FALSE, left |-> 0]

(* size bytes copied from one address to another, all read before any is     *)
(* written: LoadUINT32 and StoreUINT32, or a memcpy of at most one word,     *)
(* which the C libraries do through registers also when the bytes overlap.   *)
CopyBytes(mem, from, to, size) ==
    [a \in DOMAIN mem |-> IF a \in to..(to + size - 1) THEN mem[from + a - to] ELSE mem[a]]

-----------------------------------------------------------------------------
(* One pass of a channel.                                                    *)

(* MUTANTS of Portion: the last bytes moved as a whole word, and the distance *)
(* to the next boundary taken without asking whether the address is on one.  *)
PortionWholeWord(n, left) ==
    IF ~n.word /\ left > Word /\ ~Aligned(n.to) THEN Word - (n.to % Word) ELSE Word

PortionZero(n, left) ==
    IF n.word THEN Word ELSE IF left <= Word THEN left ELSE (Word - (n.to % Word)) % Word

(* How many bytes the channel moves in this pass: a word, the bytes up to    *)
(* the destination's next word boundary, or what is left.                    *)
Portion(n, left) ==
    IF n.word THEN Word
    ELSE IF left <= Word THEN left
    ELSE IF ~Aligned(n.to) THEN Word - (n.to % Word)
    ELSE Word

(* What is left of the status when the last byte has been moved: a word      *)
(* transfer keeps its error bits, the other form clears all of them.         *)
Finished(n, st) == IF n.word THEN [st EXCEPT !.active = FALSE, !.left = 0] ELSE Idle

(* MUTANT of Moved: only the destination advances.                            *)
MovedDestinationOnly(n, size) == [n EXCEPT !.to = @ + size]

Moved(n, size) == [from |-> n.from + size, to |-> n.to + size, word |-> n.word]

(* MUTANT of WordPossible: what is left is forgotten.                         *)
WordPossibleForAddresses(n, left) == Aligned(n.from) /\ Aligned(n.to)

WordPossible(n, left) == Aligned(n.from) /\ Aligned(n.to) /\ Aligned(left)

(* The loop of IncrementDMA is at channel c, or returns to the instructions.  *)
NextChannel(c) == turn = c /\ turn' = (c + 1) % (ChannelCount + 1)

Size(c) == Portion(next[c], status[c].left)

Reads(c) == InMemory(next[c].from, Size(c))
Writes(c) == InMemory(next[c].to, Size(c))

SkipIdle(c) ==
    /\ NextChannel(c)
    /\ ~status[c].active
    /\ UNCHANGED <<memory, next, status, raised, source, destination, job, jobs>>

(* More is left: the addresses advance, and a pass that has brought the       *)
(* destination to a word boundary asks again whether words can be moved.     *)
MovePart(c) ==
    LET n == next[c]
        left == status[c].left - Size(c)
        moved == Moved(n, Size(c))
    IN  /\ NextChannel(c)
        /\ status[c].active /\ left > 0
        /\ Reads(c) /\ Writes(c)
        /\ memory' = CopyBytes(memory, n.from, n.to, Size(c))
        /\ next' = [next EXCEPT ![c] =
               IF n.word \/ Aligned(n.to) THEN moved
               ELSE [moved EXCEPT !.word = WordPossible(moved, left)]]
        /\ status' = [status EXCEPT ![c].left = left]
        /\ UNCHANGED <<raised, source, destination, job, jobs>>

MoveLast(c) ==
    LET n == next[c]
        left == status[c].left - Size(c)
    IN  /\ NextChannel(c)
        /\ status[c].active /\ left <= 0
        /\ Reads(c) /\ Writes(c)
        /\ memory' = CopyBytes(memory, n.from, n.to, Size(c))
        /\ next' = [next EXCEPT ![c] = IF n.word THEN Moved(n, Size(c)) ELSE n]
        /\ status' = [status EXCEPT ![c] = Finished(n, status[c])]
        /\ raised' = raised \cup {c}
        /\ UNCHANGED <<source, destination, job, jobs>>

(* An access outside memory is recorded and raises the interrupt; the        *)
(* channel stays active.                                                     *)
Fail(c) ==
    /\ NextChannel(c)
    /\ status[c].active
    /\ ~(Reads(c) /\ Writes(c))
    /\ status' = IF Reads(c) THEN [status EXCEPT ![c].destinationError = TRUE]
                 ELSE [status EXCEPT ![c].sourceError = TRUE]
    /\ raised' = raised \cup {c}
    /\ UNCHANGED <<memory, next, source, destination, job, jobs>>

IncrementDMA == \E c \in Channels : SkipIdle(c) \/ MovePart(c) \/ MoveLast(c) \/ Fail(c)

-----------------------------------------------------------------------------
(* The guest's instructions.                                                 *)

Instruction == turn = 0 /\ turn' = 1

StoreSource(c, a) ==
    /\ Instruction
    /\ source' = [source EXCEPT ![c] = a]
    /\ UNCHANGED <<memory, destination, next, status, raised, job, jobs>>

StoreDestination(c, a) ==
    /\ Instruction
    /\ destination' = [destination EXCEPT ![c] = a]
    /\ UNCHANGED <<memory, source, next, status, raised, job, jobs>>

(* The destination of j meets the destination or the source of k.            *)
Overlap(j, k) == \/ j.to < k.to + k.size /\ k.to < j.to + j.size
                 \/ j.to < k.from + k.size /\ k.from < j.to + j.size

(* A start: the addresses are latched. The history remembers the transfer,   *)
(* the memory it started from, and whether no transfer running beside it     *)
(* touches what it reads or writes.                                          *)
StartTransfer(c, size) ==
    LET j == [from |-> source[c], to |-> destination[c], size |-> size, before |-> memory,
              alone |-> ~Overlap([from |-> source[c], to |-> destination[c], size |-> size],
                                 [from |-> source[c], to |-> source[c], size |-> size])]
        Clash(d) == d # c /\ status[d].active /\ (Overlap(j, job[d]) \/ Overlap(job[d], j))
    IN  /\ next' = [next EXCEPT ![c] =
              [from |-> source[c], to |-> destination[c],
               word |-> WordPossible([from |-> source[c], to |-> destination[c]], size)]]
        /\ status' = [status EXCEPT ![c] = [Idle EXCEPT !.active = TRUE, !.left = size]]
        /\ job' = [d \in Channels |->
              IF d = c THEN [j EXCEPT !.alone = @ /\ \A e \in Channels : ~Clash(e)]
              ELSE [job[d] EXCEPT !.alone = @ /\ ~Clash(d)]]
        /\ jobs' = jobs + 1

(* A command with a size: ignored while a transfer is active.                *)
StoreStart(c, size) ==
    /\ Instruction
    /\ jobs < MaxJobs
    /\ IF status[c].active THEN UNCHANGED <<next, status, job, jobs>> ELSE StartTransfer(c, size)
    /\ UNCHANGED <<memory, source, destination, raised>>

(* MUTANT of StoreCancel: no interrupt.                                       *)
CancelSilently(c) ==
    /\ Instruction
    /\ status[c].active
    /\ status' = [status EXCEPT ![c] = [@ EXCEPT !.cancelled = TRUE, !.active = FALSE]]
    /\ UNCHANGED <<memory, source, destination, next, raised, job, jobs>>

(* A command with size zero: cancels the transfer if one is active.          *)
StoreCancel(c) ==
    /\ Instruction
    /\ status[c].active
    /\ status' = [status EXCEPT ![c] = [@ EXCEPT !.cancelled = TRUE, !.active = FALSE]]
    /\ raised' = raised \cup {c}
    /\ UNCHANGED <<memory, source, destination, next, job, jobs>>

(* The handler clears the channel's pending bit.                             *)
StorePending(c) ==
    /\ Instruction
    /\ raised' = raised \ {c}
    /\ UNCHANGED <<memory, source, destination, next, status, job, jobs>>

OtherInstruction ==
    /\ Instruction
    /\ UNCHANGED <<memory, source, destination, next, status, raised, job, jobs>>

DmaInit ==
    /\ memory = [a \in 0..(MemorySize - 1) |-> a]
    /\ source = [c \in Channels |-> 0]
    /\ destination = [c \in Channels |-> 0]
    /\ next = [c \in Channels |-> [from |-> 0, to |-> 0, word |-> FALSE]]
    /\ status = [c \in Channels |-> Idle]
    /\ raised = {}
    /\ turn = 0
    /\ job = [c \in Channels |-> [from |-> 0, to |-> 0, size |-> 0, before |-> memory, alone |-> FALSE]]
    /\ jobs = 0

DmaNext ==
    \/ IncrementDMA
    \/ OtherInstruction
    \/ \E c \in Channels :
          \/ \E a \in Addresses : StoreSource(c, a) \/ StoreDestination(c, a)
          \/ \E size \in Sizes : StoreStart(c, size)
          \/ StoreCancel(c)
          \/ StorePending(c)

DmaSpec == DmaInit /\ [][DmaNext]_dmaVars

(* The CPU thread goes on executing instructions and passes.                 *)
DmaFairSpec == DmaSpec /\ WF_dmaVars(IncrementDMA) /\ WF_dmaVars(OtherInstruction)

-----------------------------------------------------------------------------
DmaTypeOK ==
    /\ memory \in [0..(MemorySize - 1) -> 0..(MemorySize - 1)]
    /\ source \in [Channels -> Nat] /\ destination \in [Channels -> Nat]
    /\ next \in [Channels -> [from : Nat, to : Nat, word : BOOLEAN]]
    /\ status \in [Channels -> [active : BOOLEAN, sourceError : BOOLEAN,
                                destinationError : BOOLEAN, cancelled : BOOLEAN, left : Nat]]
    /\ raised \subseteq Channels /\ turn \in 0..ChannelCount /\ jobs \in Nat
    /\ job \in [Channels -> [from : Nat, to : Nat, size : Nat, alone : BOOLEAN,
                             before : [0..(MemorySize - 1) -> 0..(MemorySize - 1)]]]

(* An active channel stands where its transfer says: as far from its start   *)
(* as bytes are no longer left, the same distance in both, whatever the      *)
(* guest has written to the address registers since; and it moves words only *)
(* while nothing can make a word cross the end of the transfer.              *)
CursorInv ==
    \A c \in Channels : status[c].active =>
        LET done == job[c].size - status[c].left IN
        /\ status[c].left \in 1..job[c].size
        /\ next[c].from = job[c].from + done
        /\ next[c].to = job[c].to + done
        /\ next[c].word => Aligned(next[c].from) /\ Aligned(next[c].to) /\ Aligned(status[c].left)

(* The channels' registers are of their types and their cursors stand right,  *)
(* whatever the guest writes between two passes.                              *)
DmaInv == DmaTypeOK /\ CursorInv

Completes(c) == /\ status[c].active /\ ~status'[c].active
                /\ status'[c].left = 0 /\ ~status'[c].cancelled

(* A transfer that ends without an error or a cancellation has copied every  *)
(* byte it was asked to, as it was when the transfer started, unless another *)
(* transfer beside it touched the same bytes.                                *)
TransferExact ==
    [][\A c \in Channels : Completes(c) /\ job[c].alone =>
         \A i \in 0..(job[c].size - 1) :
             memory'[job[c].to + i] = job[c].before[job[c].from + i]]_dmaVars

(* No pass writes a byte outside the destination of a transfer in progress.  *)
NoOverrun ==
    [][\A a \in DOMAIN memory : memory'[a] # memory[a] =>
         \E c \in Channels : status[c].active /\ a \in job[c].to..(job[c].to + job[c].size - 1)]_dmaVars

(* A channel never falls inactive without its interrupt pending.             *)
EndIsRaised ==
    [][\A c \in Channels : status[c].active /\ ~status'[c].active => c \in raised']_dmaVars

(* A started transfer ends or reports an error.                              *)
TransferEnds ==
    \A c \in Channels :
        status[c].active ~> (~status[c].active \/ status[c].sourceError \/ status[c].destinationError)

=============================================================================
