--------------------------- MODULE ChipsetProofs ---------------------------
(* Theorems about the chipset. Part one: the DMA channels of module Dma, for  *)
(* every number of channels, every memory and every choice of addresses and   *)
(* sizes: DmaTypeOK is inductive; with it CursorInv is; with both, no pass    *)
(* writes outside the destination of its transfer. Part two: what the         *)
(* firmware's handler reads, counts and programs is right for every word      *)
(* size, period and clock, and any interleaving with the devices.             *)
EXTENDS Dma, FirmwareIsr, TLAPS

CursorOK(c) ==
    status[c].active =>
        LET done == job[c].size - status[c].left IN
        /\ status[c].left \in 1..job[c].size
        /\ next[c].from = job[c].from + done
        /\ next[c].to = job[c].to + done
        /\ next[c].word => Aligned(next[c].from) /\ Aligned(next[c].to) /\ Aligned(status[c].left)

Bytes == [0..(MemorySize - 1) -> 0..(MemorySize - 1)]
Cursors == [from : Nat, to : Nat, word : BOOLEAN]
Statuses == [active : BOOLEAN, sourceError : BOOLEAN, destinationError : BOOLEAN,
             cancelled : BOOLEAN, left : Nat]

(* A pass moves between one byte and a word, and never more than is left.    *)
LEMMA PortionBounds ==
  ASSUME NEW n \in Cursors, NEW left \in Nat, left > 0,
         n.word => Aligned(left)
  PROVE  Portion(n, left) \in 1..Word /\ Portion(n, left) <= left
  BY DEF Portion, Cursors, Aligned, Word

(* IncrementDMA's portion is a number of bytes up to a word.                 *)
LEMMA PortionSmall ==
  ASSUME NEW n \in Cursors, NEW left \in Nat
  PROVE  Portion(n, left) \in 0..Word
  BY DEF Portion, Cursors, Aligned, Word

(* A copy within memory keeps memory a memory.                               *)
LEMMA CopyType ==
  ASSUME NEW mem \in Bytes, NEW from \in Nat, NEW to \in Nat, NEW size \in Nat,
         InMemory(from, size), InMemory(to, size)
  PROVE  CopyBytes(mem, from, to, size) \in Bytes
<1>1. ASSUME NEW a \in 0..(MemorySize - 1), a \in to..(to + size - 1)
      PROVE  from + a - to \in 0..(MemorySize - 1)
  BY <1>1, DmaAssumption DEF InMemory
<1>2. DOMAIN mem = 0..(MemorySize - 1)
  BY DEF Bytes
<1> QED
  BY <1>1, <1>2 DEF CopyBytes, Bytes

LEMMA ChannelStatus ==
  ASSUME DmaTypeOK, NEW c \in Channels
  PROVE  status[c] \in Statuses /\ next[c] \in Cursors /\ Size(c) \in 0..Word
<1>1. status[c] \in Statuses /\ next[c] \in Cursors
  BY DEF DmaTypeOK, Statuses, Cursors
<1>2. status[c].left \in Nat
  BY <1>1 DEF Statuses
<1> QED
  BY <1>1, <1>2, PortionSmall DEF Size

(* A cursor moved by a number of bytes is a cursor.                          *)
LEMMA MovedType ==
  ASSUME NEW n \in Cursors, NEW size \in Nat
  PROVE  /\ Moved(n, size) \in Cursors
         /\ Moved(n, size).from = n.from + size /\ Moved(n, size).to = n.to + size
         /\ Moved(n, size).word = n.word
  BY DEF Moved, Cursors

LEMMA TurnType ==
  ASSUME NEW c \in Channels, NextChannel(c)
  PROVE  turn' \in 0..ChannelCount
  BY DmaAssumption DEF Channels, NextChannel

LEMMA MoveType ==
  ASSUME DmaTypeOK, NEW c \in Channels, MovePart(c) \/ MoveLast(c)
  PROVE  DmaTypeOK'
<1> DEFINE n == next[c]
           left == status[c].left - Size(c)
<1>1. /\ status[c] \in Statuses /\ n \in Cursors /\ Size(c) \in Nat
      /\ status \in [Channels -> Statuses] /\ next \in [Channels -> Cursors]
  <2>1. status[c] \in Statuses /\ n \in Cursors /\ Size(c) \in 0..Word
    BY ChannelStatus
  <2>2. status \in [Channels -> Statuses] /\ next \in [Channels -> Cursors]
    BY DEF DmaTypeOK, Statuses, Cursors
  <2> QED
    BY <2>1, <2>2 DEF Word
<1>2. memory' \in Bytes
  <2>1. memory \in Bytes /\ n.from \in Nat /\ n.to \in Nat
    BY <1>1 DEF DmaTypeOK, Bytes, Cursors
  <2>2. InMemory(n.from, Size(c)) /\ InMemory(n.to, Size(c))
    BY DEF MovePart, MoveLast, Reads, Writes
  <2>3. memory' = CopyBytes(memory, n.from, n.to, Size(c))
    BY DEF MovePart, MoveLast
  <2> QED
    BY <1>1, <2>1, <2>2, <2>3, CopyType
<1>3. turn' \in 0..ChannelCount
  BY TurnType DEF MovePart, MoveLast
<1>4. Moved(n, Size(c)) \in Cursors
  BY <1>1, MovedType
<1>5. next' \in [Channels -> Cursors]
  <2>1. CASE MovePart(c)
    <3>1. [Moved(n, Size(c)) EXCEPT !.word = WordPossible(Moved(n, Size(c)), left)] \in Cursors
      BY <1>4 DEF Cursors, WordPossible, Aligned
    <3> QED
      BY <1>1, <1>4, <2>1, <3>1 DEF MovePart
  <2>2. CASE MoveLast(c)
    BY <1>1, <1>4, <2>2 DEF MoveLast
  <2> QED
    BY <2>1, <2>2
<1>6. status' \in [Channels -> Statuses] /\ raised' \subseteq Channels
  <2>1. CASE MovePart(c)
    <3>1. left \in Nat
      BY <1>1, <2>1 DEF MovePart, Statuses
    <3> QED
      BY <1>1, <2>1, <3>1 DEF MovePart, Statuses, DmaTypeOK
  <2>2. CASE MoveLast(c)
    <3>1. Finished(n, status[c]) \in Statuses
      BY <1>1 DEF Finished, Idle, Statuses
    <3> QED
      BY <1>1, <2>2, <3>1 DEF MoveLast, DmaTypeOK
  <2> QED
    BY <2>1, <2>2
<1>7. UNCHANGED <<source, destination, job, jobs>>
  BY DEF MovePart, MoveLast
<1> QED
  BY <1>2, <1>3, <1>5, <1>6, <1>7 DEF DmaTypeOK, Bytes, Cursors, Statuses

LEMMA StartType ==
  ASSUME DmaTypeOK, NEW c \in Channels, NEW size \in Sizes, StoreStart(c, size)
  PROVE  DmaTypeOK'
<1>1. size \in Nat
  BY DmaAssumption
<1>2. turn' \in 0..ChannelCount
  BY DmaAssumption DEF StoreStart, Instruction
<1>3. CASE status[c].active
  BY <1>2, <1>3 DEF StoreStart, DmaTypeOK
<1>4. CASE ~status[c].active
  <2>1. StartTransfer(c, size)
    BY <1>4 DEF StoreStart
  <2>2. next' \in [Channels -> Cursors]
    BY <2>1 DEF StartTransfer, DmaTypeOK, Cursors, WordPossible, Aligned
  <2>3. status' \in [Channels -> Statuses]
    BY <1>1, <2>1 DEF StartTransfer, DmaTypeOK, Statuses, Idle
  <2>4. job' \in [Channels -> [from : Nat, to : Nat, size : Nat, alone : BOOLEAN, before : Bytes]]
    BY ZenonT(60), <1>1, <2>1 DEF StartTransfer, DmaTypeOK, Bytes
  <2>5. jobs' \in Nat
    BY <2>1 DEF StartTransfer, DmaTypeOK
  <2> QED
    BY <1>2, <2>2, <2>3, <2>4, <2>5 DEF StoreStart, DmaTypeOK, Cursors, Statuses, Bytes
<1> QED
  BY <1>3, <1>4

(* Every register of the channels keeps its type.                            *)
THEOREM DmaTypeCorrect == DmaSpec => []DmaTypeOK
<1>1. DmaInit => DmaTypeOK
  BY DmaAssumption DEF DmaInit, DmaTypeOK, Idle, Channels
<1>2. DmaTypeOK /\ [DmaNext]_dmaVars => DmaTypeOK'
  <2> SUFFICES ASSUME DmaTypeOK, [DmaNext]_dmaVars
               PROVE  DmaTypeOK'
    OBVIOUS
  <2>1. CASE UNCHANGED dmaVars
    BY <2>1 DEF dmaVars, DmaTypeOK
  <2>2. ASSUME NEW c \in Channels, SkipIdle(c)
        PROVE  DmaTypeOK'
    <3>1. turn' \in 0..ChannelCount
      BY <2>2, TurnType DEF SkipIdle
    <3> QED
      BY <2>2, <3>1 DEF SkipIdle, DmaTypeOK
  <2>3. ASSUME NEW c \in Channels, MovePart(c) \/ MoveLast(c)
        PROVE  DmaTypeOK'
    BY <2>3, MoveType
  <2>4. ASSUME NEW c \in Channels, Fail(c)
        PROVE  DmaTypeOK'
    <3>1. turn' \in 0..ChannelCount
      BY <2>4, TurnType DEF Fail
    <3>2. status' \in [Channels -> Statuses]
      BY ZenonT(60), <2>4 DEF Fail, DmaTypeOK, Statuses
    <3> QED
      BY <2>4, <3>1, <3>2 DEF Fail, DmaTypeOK, Statuses
  <2>5. ASSUME Instruction
        PROVE  turn' \in 0..ChannelCount
    BY <2>5, DmaAssumption DEF Instruction
  <2>6. ASSUME NEW c \in Channels, NEW a \in Addresses,
               StoreSource(c, a) \/ StoreDestination(c, a)
        PROVE  DmaTypeOK'
    BY <2>5, <2>6, DmaAssumption DEF StoreSource, StoreDestination, DmaTypeOK
  <2>7. ASSUME NEW c \in Channels, NEW size \in Sizes, StoreStart(c, size)
        PROVE  DmaTypeOK'
    BY <2>7, StartType
  <2>8. ASSUME NEW c \in Channels, StoreCancel(c)
        PROVE  DmaTypeOK'
    BY <2>5, <2>8 DEF StoreCancel, DmaTypeOK
  <2>9. ASSUME NEW c \in Channels, StorePending(c)
        PROVE  DmaTypeOK'
    BY <2>5, <2>9 DEF StorePending, DmaTypeOK
  <2>10. CASE OtherInstruction
    BY <2>5, <2>10 DEF OtherInstruction, DmaTypeOK
  <2> QED
    BY <2>1, <2>2, <2>3, <2>4, <2>6, <2>7, <2>8, <2>9, <2>10 DEF DmaNext, IncrementDMA
<1> QED
  BY <1>1, <1>2, PTL DEF DmaSpec

-----------------------------------------------------------------------------
(* The cursor of the channel that moves.                                     *)
LEMMA MoveCursor ==
  ASSUME DmaTypeOK, NEW c \in Channels, CursorOK(c), MovePart(c)
  PROVE  CursorOK(c)'
<1> DEFINE n == next[c]
           st == status[c]
           size == Size(c)
<1>1. st \in Statuses /\ n \in Cursors /\ st.left \in Nat /\ job[c].size \in Nat
      /\ n.from \in Nat /\ n.to \in Nat /\ job[c].from \in Nat /\ job[c].to \in Nat
  BY ChannelStatus DEF DmaTypeOK, Statuses, Cursors
<1>2. /\ st.left \in 1..job[c].size
      /\ n.from = job[c].from + (job[c].size - st.left)
      /\ n.to = job[c].to + (job[c].size - st.left)
      /\ n.word => Aligned(n.from) /\ Aligned(n.to) /\ Aligned(st.left)
  BY DEF CursorOK, MovePart
<1>3. size \in 1..Word /\ size <= st.left
  BY <1>1, <1>2, PortionBounds DEF Size
<1>4. n.word => size = Word
  BY DEF Size, Portion
<1>5. st.left - size > 0 /\ job' = job
  BY DEF MovePart
<1>6. status'[c].left = st.left - size /\ status'[c].active = st.active
  BY <1>1 DEF MovePart, DmaTypeOK, Statuses
<1>7. next'[c].from = n.from + size /\ next'[c].to = n.to + size
  BY <1>1 DEF MovePart, DmaTypeOK, Moved, Cursors
<1>8. next'[c].word => Aligned(next'[c].from) /\ Aligned(next'[c].to) /\ Aligned(st.left - size)
  <2>1. CASE n.word
    BY <1>1, <1>2, <1>3, <1>4, <1>7, <2>1 DEF Aligned, Word
  <2>2. CASE ~n.word /\ Aligned(n.to)
    BY <1>1, <2>2 DEF MovePart, DmaTypeOK, Moved, Cursors
  <2>3. CASE ~n.word /\ ~Aligned(n.to)
    BY <1>1, <2>3 DEF MovePart, DmaTypeOK, Moved, Cursors, WordPossible
  <2> QED
    BY <2>1, <2>2, <2>3
<1> QED
  BY <1>1, <1>2, <1>3, <1>5, <1>6, <1>7, <1>8 DEF CursorOK, Word

LEMMA StartCursor ==
  ASSUME DmaTypeOK, CursorInv, NEW c \in Channels, NEW size \in Sizes, StartTransfer(c, size),
         NEW d \in Channels
  PROVE  CursorOK(d)'
<1>1. CursorOK(d)
  BY DEF CursorInv, CursorOK
<1>2. size \in Nat /\ size > 0 /\ source[c] \in Nat /\ destination[c] \in Nat
  BY DmaAssumption DEF DmaTypeOK
<1>3. CASE d = c
  <2>1. /\ status'[d].left = size
        /\ next'[d].from = source[c] /\ next'[d].to = destination[c]
        /\ next'[d].word => Aligned(source[c]) /\ Aligned(destination[c]) /\ Aligned(size)
    BY <1>3 DEF StartTransfer, DmaTypeOK, Idle, WordPossible
  <2>2. job'[d].size = size /\ job'[d].from = source[c] /\ job'[d].to = destination[c]
    BY <1>3 DEF StartTransfer
  <2> QED
    BY <1>2, <2>1, <2>2 DEF CursorOK
<1>4. CASE d # c
  <2>1. status'[d] = status[d] /\ next'[d] = next[d]
    BY <1>4 DEF StartTransfer, DmaTypeOK
  <2>2. job'[d].size = job[d].size /\ job'[d].from = job[d].from /\ job'[d].to = job[d].to
    BY <1>4 DEF StartTransfer, DmaTypeOK
  <2> QED
    BY <1>1, <2>1, <2>2 DEF CursorOK
<1> QED
  BY <1>3, <1>4

LEMMA CursorStep ==
  ASSUME DmaTypeOK, CursorInv, [DmaNext]_dmaVars, NEW d \in Channels
  PROVE  CursorOK(d)'
<1>1. CursorOK(d)
  BY DEF CursorInv, CursorOK
<1>2. ASSUME UNCHANGED <<next, status, job>>
      PROVE  CursorOK(d)'
  BY <1>1, <1>2 DEF CursorOK
<1>3. ASSUME NEW c \in Channels, MovePart(c)
      PROVE  CursorOK(d)'
  <2>1. CASE d = c
    BY <1>1, <1>3, <2>1, MoveCursor
  <2>2. CASE d # c
    BY <1>1, <1>3, <2>2 DEF MovePart, CursorOK, DmaTypeOK
  <2> QED
    BY <2>1, <2>2
<1>4. ASSUME NEW c \in Channels, MoveLast(c)
      PROVE  CursorOK(d)'
  <2>1. CASE d = c
    <3>1. ~status'[d].active
      BY <1>4, <2>1 DEF MoveLast, DmaTypeOK, Finished, Idle
    <3> QED
      BY <3>1 DEF CursorOK
  <2>2. CASE d # c
    BY <1>1, <1>4, <2>2 DEF MoveLast, CursorOK, DmaTypeOK
  <2> QED
    BY <2>1, <2>2
<1>5. ASSUME NEW c \in Channels, Fail(c)
      PROVE  CursorOK(d)'
  BY <1>1, <1>5 DEF Fail, CursorOK, DmaTypeOK
<1>6. ASSUME NEW c \in Channels, StoreCancel(c)
      PROVE  CursorOK(d)'
  BY <1>1, <1>6 DEF StoreCancel, CursorOK, DmaTypeOK
<1>7. ASSUME NEW c \in Channels, NEW size \in Sizes, StoreStart(c, size)
      PROVE  CursorOK(d)'
  <2>1. CASE status[c].active
    BY <1>2, <1>7, <2>1 DEF StoreStart
  <2>2. CASE ~status[c].active
    BY <1>7, <2>2, StartCursor DEF StoreStart
  <2> QED
    BY <2>1, <2>2
<1>8. ASSUME \/ UNCHANGED dmaVars \/ OtherInstruction
             \/ \E c \in Channels : \/ SkipIdle(c) \/ StorePending(c)
                                    \/ \E a \in Addresses : StoreSource(c, a) \/ StoreDestination(c, a)
      PROVE  CursorOK(d)'
  BY <1>2, <1>8 DEF dmaVars, OtherInstruction, SkipIdle, StorePending, StoreSource, StoreDestination
<1> QED
  BY <1>3, <1>4, <1>5, <1>6, <1>7, <1>8 DEF DmaNext, IncrementDMA

(* An active channel's cursor is as far from its start as bytes have been    *)
(* moved, and word accesses never straddle the end (IncrementDMA).           *)
THEOREM CursorCorrect == DmaSpec => []CursorInv
<1>1. DmaInit => CursorInv
  BY DEF DmaInit, CursorInv, Idle
<1>2. DmaTypeOK /\ CursorInv /\ [DmaNext]_dmaVars => CursorInv'
  BY CursorStep DEF CursorInv, CursorOK
<1> QED
  BY <1>1, <1>2, DmaTypeCorrect, PTL DEF DmaSpec

(* Both together: types and cursors (StoreStart, IncrementDMA).               *)
THEOREM DmaCorrect == DmaSpec => []DmaInv
<1>1. DmaTypeOK /\ CursorInv => DmaInv
  BY DEF DmaInv
<1> QED
  BY <1>1, DmaTypeCorrect, CursorCorrect, PTL

-----------------------------------------------------------------------------
Within(a) == \E c \in Channels : status[c].active /\ a \in job[c].to..(job[c].to + job[c].size - 1)

(* The byte a pass changes lies in the destination of the channel's transfer.*)
LEMMA MoveWithin ==
  ASSUME DmaTypeOK, CursorInv, NEW c \in Channels, MovePart(c) \/ MoveLast(c),
         NEW a \in DOMAIN memory, memory'[a] # memory[a]
  PROVE  Within(a)
<1>1. status[c] \in Statuses /\ next[c] \in Cursors /\ Size(c) \in 0..Word
      /\ status[c].left \in Nat /\ job[c].size \in Nat
      /\ next[c].to \in Nat /\ job[c].to \in Nat
  BY ChannelStatus DEF DmaTypeOK, Statuses, Cursors
<1>2. status[c].active
  BY DEF MovePart, MoveLast
<1>3. /\ status[c].left \in 1..job[c].size
      /\ next[c].to = job[c].to + (job[c].size - status[c].left)
      /\ next[c].word => Aligned(status[c].left)
  BY <1>2 DEF CursorInv
<1>4. Size(c) <= status[c].left
  BY <1>1, <1>3, PortionBounds DEF Size
<1>5. memory' = CopyBytes(memory, next[c].from, next[c].to, Size(c))
  BY DEF MovePart, MoveLast
<1>6. a \in next[c].to..(next[c].to + Size(c) - 1)
  BY <1>5 DEF CopyBytes
<1>7. Size(c) \in Nat
  BY <1>1 DEF Word
<1>8. a \in job[c].to..(job[c].to + job[c].size - 1)
  BY <1>1, <1>3, <1>4, <1>6, <1>7
<1> QED
  BY <1>2, <1>8 DEF Within

(* No pass of IncrementDMA and no store writes a byte of memory outside the  *)
(* destination of a transfer in progress.                                    *)
THEOREM NoOverrunCorrect == DmaSpec => NoOverrun
<1>1. ASSUME DmaTypeOK, CursorInv, [DmaNext]_dmaVars
      PROVE  [\A a \in DOMAIN memory : memory'[a] # memory[a] =>
                \E c \in Channels : status[c].active
                                    /\ a \in job[c].to..(job[c].to + job[c].size - 1)]_dmaVars
  <2>1. ASSUME NEW c \in Channels, MovePart(c) \/ MoveLast(c), NEW a \in DOMAIN memory,
               memory'[a] # memory[a]
        PROVE  Within(a)
    BY <1>1, <2>1, MoveWithin
  <2>2. \/ memory' = memory
        \/ \E c \in Channels : MovePart(c) \/ MoveLast(c)
    BY <1>1 DEF DmaNext, IncrementDMA, dmaVars, SkipIdle, Fail, OtherInstruction, StoreSource,
                StoreDestination, StoreStart, StoreCancel, StorePending
  <2> QED
    BY <2>1, <2>2 DEF Within
<1> QED
  BY <1>1, DmaTypeCorrect, CursorCorrect, PTL DEF DmaSpec, NoOverrun

(* A pass that moves a part, or fails, leaves every channel as active as it was. *)
LEMMA ActiveKept ==
  ASSUME DmaTypeOK, NEW c \in Channels, MovePart(c) \/ Fail(c), NEW d \in Channels
  PROVE  status'[d].active = status[d].active
<1>1. status \in [Channels -> Statuses]
  BY DEF DmaTypeOK, Statuses
<1>2. \/ status' = [status EXCEPT ![c].left = status[c].left - Size(c)]
      \/ status' = [status EXCEPT ![c].destinationError = TRUE]
      \/ status' = [status EXCEPT ![c].sourceError = TRUE]
  BY DEF MovePart, Fail
<1>3. CASE d = c
  <2>1. status[c] \in Statuses
    BY <1>1
  <2>2. \/ status'[c] = [status[c] EXCEPT !.left = status[c].left - Size(c)]
        \/ status'[c] = [status[c] EXCEPT !.destinationError = TRUE]
        \/ status'[c] = [status[c] EXCEPT !.sourceError = TRUE]
    BY <1>1, <1>2
  <2> QED
    BY <1>3, <2>1, <2>2 DEF Statuses
<1>4. CASE d # c
  BY <1>1, <1>2, <1>4
<1> QED
  BY <1>3, <1>4

(* A channel never falls inactive, at its end or cancelled, without its      *)
(* interrupt pending after the same step.                                    *)
THEOREM EndIsRaisedCorrect == DmaSpec => EndIsRaised
<1>1. ASSUME DmaTypeOK, [DmaNext]_dmaVars
      PROVE  [\A c \in Channels : status[c].active /\ ~status'[c].active => c \in raised']_dmaVars
  <2> SUFFICES ASSUME NEW d \in Channels, status[d].active, ~status'[d].active
               PROVE  d \in raised'
    OBVIOUS
  <2>1. ASSUME UNCHANGED status
        PROVE  FALSE
    BY <2>1
  <2>2. ASSUME NEW c \in Channels, MoveLast(c) \/ StoreCancel(c)
        PROVE  d \in raised'
    BY <1>1, <2>2 DEF MoveLast, StoreCancel, DmaTypeOK
  <2>3. ASSUME NEW c \in Channels, MovePart(c) \/ Fail(c)
        PROVE  FALSE
    BY <1>1, <2>3, ActiveKept
  <2>4. ASSUME NEW c \in Channels, NEW size \in Sizes, StoreStart(c, size)
        PROVE  FALSE
    BY <1>1, <2>4 DEF StoreStart, StartTransfer, Idle, DmaTypeOK
  <2> QED
    BY <1>1, <2>1, <2>2, <2>3, <2>4 DEF DmaNext, IncrementDMA, dmaVars, SkipIdle,
       OtherInstruction, StoreSource, StoreDestination, StorePending
<1> QED
  BY <1>1, DmaTypeCorrect, PTL DEF DmaSpec, EndIsRaised

-----------------------------------------------------------------------------
(* What TransferExact needs beside CursorInv: the bytes moved so far are     *)
(* right, those not moved yet are still as they were, and no other active    *)
(* transfer writes to what an undisturbed one reads or writes.               *)
SoFar(c) == job[c].size - status[c].left
Undisturbed(c) == status[c].active /\ job[c].alone

MovedRight(c) ==
    \A i \in 0..(SoFar(c) - 1) :
        /\ job[c].to + i \in 0..(MemorySize - 1)
        /\ memory[job[c].to + i] = job[c].before[job[c].from + i]

RestUntouched(c) ==
    \A i \in SoFar(c)..(job[c].size - 1) :
        job[c].from + i \in 0..(MemorySize - 1) =>
            memory[job[c].from + i] = job[c].before[job[c].from + i]

SelfDisjoint(c) ==
    \/ job[c].from + job[c].size <= job[c].to
    \/ job[c].to + job[c].size <= job[c].from

Separate(c) ==
    \A d \in Channels : d # c /\ status[d].active => ~Overlap(job[d], job[c])

ExactOK(c) == Undisturbed(c) => MovedRight(c) /\ RestUntouched(c) /\ SelfDisjoint(c) /\ Separate(c)

ExactInv == \A c \in Channels : ExactOK(c)

(* The numbers of an active channel.                                         *)
LEMMA CursorFacts ==
  ASSUME DmaTypeOK, CursorInv, NEW c \in Channels, status[c].active
  PROVE  /\ job[c].from \in Nat /\ job[c].to \in Nat /\ job[c].size \in Nat
         /\ job[c].before \in Bytes
         /\ status[c].left \in Nat /\ SoFar(c) \in Nat
         /\ status[c].left >= 1 /\ SoFar(c) + status[c].left = job[c].size
         /\ next[c].from = job[c].from + SoFar(c) /\ next[c].to = job[c].to + SoFar(c)
         /\ Size(c) \in Nat /\ Size(c) >= 1 /\ Size(c) <= status[c].left
<1>1. status[c] \in Statuses /\ next[c] \in Cursors
  BY ChannelStatus
<1>2. /\ job[c].from \in Nat /\ job[c].to \in Nat /\ job[c].size \in Nat
      /\ job[c].before \in Bytes /\ status[c].left \in Nat
  BY <1>1 DEF DmaTypeOK, Bytes, Statuses
<1>3. /\ status[c].left \in 1..job[c].size
      /\ next[c].from = job[c].from + SoFar(c) /\ next[c].to = job[c].to + SoFar(c)
      /\ next[c].word => Aligned(status[c].left)
  BY DEF CursorInv, SoFar
<1>4. Size(c) \in 1..Word /\ Size(c) <= status[c].left
  BY <1>1, <1>2, <1>3, PortionBounds DEF Size
<1> QED
  BY <1>2, <1>3, <1>4 DEF SoFar, Word

(* A byte of a piece of memory is in memory.                                 *)
LEMMA ByteInMemory ==
  ASSUME NEW b \in Nat, NEW d \in Nat, NEW k \in Nat, InMemory(b + d, k),
         NEW i \in d..(d + k - 1)
  PROVE  b + i \in 0..(MemorySize - 1)
<1>1. MemorySize \in Nat /\ b + d + k <= MemorySize
  BY DmaAssumption DEF InMemory
<1>2. i \in Int /\ d <= i /\ i <= d + k - 1
  OBVIOUS
<1> QED
  BY <1>1, <1>2

(* A pass of channel c copies the next Size(c) bytes of its transfer and     *)
(* changes no other byte.                                                    *)
LEMMA MoveBytes ==
  ASSUME DmaTypeOK, CursorInv, NEW c \in Channels, MovePart(c) \/ MoveLast(c)
  PROVE  /\ \A i \in SoFar(c)..(SoFar(c) + Size(c) - 1) :
               /\ job[c].to + i \in 0..(MemorySize - 1)
               /\ job[c].from + i \in 0..(MemorySize - 1)
               /\ memory'[job[c].to + i] = memory[job[c].from + i]
         /\ \A a \in 0..(MemorySize - 1) :
               a < job[c].to + SoFar(c) \/ job[c].to + SoFar(c) + Size(c) <= a
                 => memory'[a] = memory[a]
<1>1. status[c].active
  BY DEF MovePart, MoveLast
<1> DEFINE from == job[c].from + SoFar(c)
           to == job[c].to + SoFar(c)
           k == Size(c)
<1>2. /\ from \in Nat /\ to \in Nat /\ k \in Nat /\ k >= 1
      /\ next[c].from = from /\ next[c].to = to
      /\ job[c].from \in Nat /\ job[c].to \in Nat /\ SoFar(c) \in Nat
  BY <1>1, CursorFacts
<1>3. InMemory(from, k) /\ InMemory(to, k)
  BY <1>2 DEF MovePart, MoveLast, Reads, Writes
<1>4. memory' = CopyBytes(memory, from, to, k)
  BY <1>2 DEF MovePart, MoveLast
<1>5. DOMAIN memory = 0..(MemorySize - 1) /\ MemorySize \in Nat
  BY DmaAssumption DEF DmaTypeOK
<1>6. \A a \in 0..(MemorySize - 1) :
        memory'[a] = IF a \in to..(to + k - 1) THEN memory[from + a - to] ELSE memory[a]
  BY <1>4, <1>5 DEF CopyBytes
<1>7. ASSUME NEW i \in SoFar(c)..(SoFar(c) + k - 1)
      PROVE  /\ job[c].to + i \in 0..(MemorySize - 1)
             /\ job[c].from + i \in 0..(MemorySize - 1)
             /\ memory'[job[c].to + i] = memory[job[c].from + i]
  <2> DEFINE a == job[c].to + i
  <2>1. a \in 0..(MemorySize - 1) /\ job[c].from + i \in 0..(MemorySize - 1)
    BY <1>2, <1>3, <1>7, ByteInMemory
  <2>2. a \in to..(to + k - 1) /\ from + a - to = job[c].from + i
    BY <1>2, <1>7
  <2> QED
    BY <1>6, <2>1, <2>2
<1>8. ASSUME NEW a \in 0..(MemorySize - 1), a < to \/ to + k <= a
      PROVE  memory'[a] = memory[a]
  BY SMTT(30), <1>2, <1>5, <1>6, <1>8
<1> QED
  BY <1>7, <1>8

(* The moving channel's own bytes.                                           *)
LEMMA ExactOwnMove ==
  ASSUME DmaTypeOK, CursorInv, ExactInv, NEW c \in Channels, MovePart(c)
  PROVE  ExactOK(c)'
<1> SUFFICES ASSUME Undisturbed(c)'
             PROVE  (MovedRight(c) /\ RestUntouched(c) /\ SelfDisjoint(c) /\ Separate(c))'
  BY DEF ExactOK
<1>1. job' = job /\ status[c].active
  BY DEF MovePart
<1>2. status' = [status EXCEPT ![c].left = status[c].left - Size(c)]
  BY DEF MovePart
<1>3. status'[c].left = status[c].left - Size(c)
      /\ \A d \in Channels : status'[d].active = status[d].active
  BY <1>2 DEF DmaTypeOK
<1>4. MovedRight(c) /\ RestUntouched(c) /\ SelfDisjoint(c) /\ Separate(c)
  BY <1>1, <1>3 DEF ExactInv, ExactOK, Undisturbed
<1>5. /\ job[c].from \in Nat /\ job[c].to \in Nat /\ job[c].size \in Nat
      /\ SoFar(c) \in Nat /\ Size(c) \in Nat /\ Size(c) >= 1 /\ status[c].left \in Nat
      /\ SoFar(c) + status[c].left = job[c].size /\ Size(c) <= status[c].left
  BY <1>1, CursorFacts
<1>6. SoFar(c)' = SoFar(c) + Size(c)
  BY <1>1, <1>3, <1>5 DEF SoFar
<1>7. /\ \A i \in SoFar(c)..(SoFar(c) + Size(c) - 1) :
            /\ job[c].to + i \in 0..(MemorySize - 1)
            /\ job[c].from + i \in 0..(MemorySize - 1)
            /\ memory'[job[c].to + i] = memory[job[c].from + i]
      /\ \A a \in 0..(MemorySize - 1) :
            a < job[c].to + SoFar(c) \/ job[c].to + SoFar(c) + Size(c) <= a
              => memory'[a] = memory[a]
  BY MoveBytes
<1>8. ASSUME NEW i \in 0..(SoFar(c) + Size(c) - 1)
      PROVE  /\ job[c].to + i \in 0..(MemorySize - 1)
             /\ memory'[job[c].to + i] = job[c].before[job[c].from + i]
  <2>1. CASE i < SoFar(c)
    <3>1. job[c].to + i \in 0..(MemorySize - 1)
          /\ memory[job[c].to + i] = job[c].before[job[c].from + i]
      BY <1>4, <1>5, <2>1 DEF MovedRight
    <3>2. memory'[job[c].to + i] = memory[job[c].to + i]
      BY <1>5, <1>7, <2>1, <3>1
    <3> QED
      BY <3>1, <3>2
  <2>2. CASE i >= SoFar(c)
    <3>1. i \in SoFar(c)..(SoFar(c) + Size(c) - 1) /\ i \in SoFar(c)..(job[c].size - 1)
      BY <1>5, <2>2
    <3> QED
      BY <1>4, <1>7, <3>1 DEF RestUntouched
  <2> QED
    BY <1>5, <2>1, <2>2
<1>9. ASSUME NEW i \in (SoFar(c) + Size(c))..(job[c].size - 1),
             job[c].from + i \in 0..(MemorySize - 1)
      PROVE  memory'[job[c].from + i] = job[c].before[job[c].from + i]
  <2>1. i \in SoFar(c)..(job[c].size - 1)
    BY <1>5
  <2>2. memory[job[c].from + i] = job[c].before[job[c].from + i]
    BY <1>4, <1>9, <2>1 DEF RestUntouched
  <2>3. job[c].from + i < job[c].to + SoFar(c) \/ job[c].to + SoFar(c) + Size(c) <= job[c].from + i
    BY <1>4, <1>5 DEF SelfDisjoint
  <2>4. memory'[job[c].from + i] = memory[job[c].from + i]
    BY <1>7, <1>9, <2>3
  <2> QED
    BY <2>2, <2>4
<1>10. MovedRight(c)'
  <2> SUFFICES ASSUME NEW i \in 0..(SoFar(c)' - 1)
               PROVE  /\ job[c].to + i \in 0..(MemorySize - 1)
                      /\ memory'[job[c].to + i] = job[c].before[job[c].from + i]
    BY <1>1 DEF MovedRight
  <2>1. i \in 0..(SoFar(c) + Size(c) - 1)
    BY <1>5, <1>6
  <2> QED
    BY <1>8, <2>1
<1>11. RestUntouched(c)'
  BY <1>1, <1>6, <1>9 DEF RestUntouched
<1>12. (SelfDisjoint(c) /\ Separate(c))'
  BY <1>1, <1>3, <1>4 DEF SelfDisjoint, Separate
<1> QED
  BY <1>10, <1>11, <1>12

(* The bytes of an undisturbed transfer while another channel moves.         *)
LEMMA ExactOtherMove ==
  ASSUME DmaTypeOK, CursorInv, ExactInv, NEW c \in Channels, MovePart(c) \/ MoveLast(c),
         NEW e \in Channels, e # c
  PROVE  ExactOK(e)'
<1> SUFFICES ASSUME Undisturbed(e)'
             PROVE  (MovedRight(e) /\ RestUntouched(e) /\ SelfDisjoint(e) /\ Separate(e))'
  BY DEF ExactOK
<1>1. job' = job /\ status[c].active
  BY DEF MovePart, MoveLast
<1>2. status'[e] = status[e] /\ \A d \in Channels : status'[d].active => status[d].active
  BY <1>1 DEF MovePart, MoveLast, DmaTypeOK
<1>3. Undisturbed(e) /\ status[e].active
  BY <1>1, <1>2 DEF Undisturbed
<1>4. MovedRight(e) /\ RestUntouched(e) /\ SelfDisjoint(e) /\ Separate(e)
  BY <1>3 DEF ExactInv, ExactOK
<1>5. /\ job[c].to \in Nat /\ job[c].size \in Nat
      /\ SoFar(c) \in Nat /\ Size(c) \in Nat /\ status[c].left \in Nat
      /\ SoFar(c) + status[c].left = job[c].size /\ Size(c) <= status[c].left
  BY <1>1, CursorFacts
<1>6. /\ job[e].from \in Nat /\ job[e].to \in Nat /\ job[e].size \in Nat
      /\ SoFar(e) \in Nat /\ status[e].left \in Nat /\ SoFar(e) + status[e].left = job[e].size
  BY <1>3, CursorFacts
<1>7. /\ job[c].to + job[c].size <= job[e].to \/ job[e].to + job[e].size <= job[c].to
      /\ job[c].to + job[c].size <= job[e].from \/ job[e].from + job[e].size <= job[c].to
  BY <1>1, <1>4, <1>5, <1>6 DEF Separate, Overlap
<1>8. \A a \in 0..(MemorySize - 1) :
        a < job[c].to + SoFar(c) \/ job[c].to + SoFar(c) + Size(c) <= a => memory'[a] = memory[a]
  BY MoveBytes
<1>9. SoFar(e)' = SoFar(e)
  BY <1>1, <1>2 DEF SoFar
<1>10. ASSUME NEW i \in 0..(SoFar(e) - 1)
       PROVE  /\ job[e].to + i \in 0..(MemorySize - 1)
              /\ memory'[job[e].to + i] = job[e].before[job[e].from + i]
  <2>1. job[e].to + i \in 0..(MemorySize - 1)
        /\ memory[job[e].to + i] = job[e].before[job[e].from + i]
    BY <1>4 DEF MovedRight
  <2>2. job[e].to + i < job[c].to + SoFar(c) \/ job[c].to + SoFar(c) + Size(c) <= job[e].to + i
    BY <1>5, <1>6, <1>7
  <2> QED
    BY <1>8, <2>1, <2>2
<1>11. ASSUME NEW i \in SoFar(e)..(job[e].size - 1), job[e].from + i \in 0..(MemorySize - 1)
       PROVE  memory'[job[e].from + i] = job[e].before[job[e].from + i]
  <2>1. memory[job[e].from + i] = job[e].before[job[e].from + i]
    BY <1>4, <1>11 DEF RestUntouched
  <2>2. job[e].from + i < job[c].to + SoFar(c) \/ job[c].to + SoFar(c) + Size(c) <= job[e].from + i
    BY <1>5, <1>6, <1>7
  <2> QED
    BY <1>8, <1>11, <2>1, <2>2
<1>12. MovedRight(e)'
  BY <1>1, <1>9, <1>10 DEF MovedRight
<1>13. RestUntouched(e)'
  BY <1>1, <1>9, <1>11 DEF RestUntouched
<1>14. (SelfDisjoint(e) /\ Separate(e))'
  BY <1>1, <1>2, <1>4 DEF SelfDisjoint, Separate
<1> QED
  BY <1>12, <1>13, <1>14

(* A start: the new transfer has moved nothing, and every transfer it might  *)
(* disturb or be disturbed by is marked.                                     *)
LEMMA ExactStart ==
  ASSUME DmaTypeOK, ExactInv, NEW c \in Channels, NEW size \in Sizes,
         StartTransfer(c, size), ~status[c].active, memory' = memory, NEW e \in Channels
  PROVE  ExactOK(e)'
<1> SUFFICES ASSUME Undisturbed(e)'
             PROVE  (MovedRight(e) /\ RestUntouched(e) /\ SelfDisjoint(e) /\ Separate(e))'
  BY DEF ExactOK
<1>1. /\ size \in Nat /\ size >= 1 /\ source[c] \in Nat /\ destination[c] \in Nat
  BY DmaAssumption DEF DmaTypeOK
<1>2. /\ job'[c].from = source[c] /\ job'[c].to = destination[c] /\ job'[c].size = size
      /\ job'[c].before = memory
  BY DEF StartTransfer
<1>3. status'[c].left = size /\ \A d \in Channels : d # c => status'[d] = status[d]
  BY DEF StartTransfer, Idle, DmaTypeOK
<1>4. \A d \in Channels : d # c =>
        /\ job'[d].from = job[d].from /\ job'[d].to = job[d].to /\ job'[d].size = job[d].size
        /\ job'[d].before = job[d].before /\ (job'[d].alone => job[d].alone)
        /\ (job'[d].alone /\ status[d].active => ~Overlap(job'[c], job'[d]))
  <2> SUFFICES ASSUME NEW d \in Channels, d # c
               PROVE  /\ job'[d].from = job[d].from /\ job'[d].to = job[d].to /\ job'[d].size = job[d].size
                      /\ job'[d].before = job[d].before /\ (job'[d].alone => job[d].alone)
                      /\ (job'[d].alone /\ status[d].active => ~Overlap(job'[c], job'[d]))
    OBVIOUS
  <2> QED
    BY ZenonT(60) DEF StartTransfer, DmaTypeOK, Overlap
<1>5. job'[c].alone => /\ SelfDisjoint(c)'
                       /\ \A d \in Channels : d # c /\ status[d].active => ~Overlap(job'[d], job'[c])
  <2> SUFFICES ASSUME job'[c].alone
               PROVE  /\ SelfDisjoint(c)'
                      /\ \A d \in Channels : d # c /\ status[d].active => ~Overlap(job'[d], job'[c])
    OBVIOUS
  <2>1. ~Overlap([from |-> source[c], to |-> destination[c], size |-> size],
                 [from |-> source[c], to |-> source[c], size |-> size])
    BY DEF StartTransfer
  <2>2. SelfDisjoint(c)'
    BY <1>1, <1>2, <2>1 DEF Overlap, SelfDisjoint
  <2>3. ASSUME NEW d \in Channels, d # c, status[d].active
        PROVE  ~Overlap(job'[d], job'[c])
    <3>1. ~Overlap(job[d], [from |-> source[c], to |-> destination[c], size |-> size,
                            before |-> memory,
                            alone |-> ~Overlap([from |-> source[c], to |-> destination[c], size |-> size],
                                               [from |-> source[c], to |-> source[c], size |-> size])])
      BY <2>3 DEF StartTransfer
    <3> QED
      BY <1>2, <1>4, <2>3, <3>1 DEF Overlap
  <2> QED
    BY <2>2, <2>3
<1>6. CASE e = c
  <2>1. SoFar(e)' = 0
    BY <1>1, <1>2, <1>3, <1>6 DEF SoFar
  <2>2. MovedRight(e)' /\ RestUntouched(e)'
    BY <1>2, <1>6, <2>1 DEF MovedRight, RestUntouched
  <2> QED
    BY <1>3, <1>5, <1>6, <2>2 DEF Undisturbed, Separate
<1>7. CASE e # c
  <2>1. Undisturbed(e)
    BY <1>3, <1>4, <1>7 DEF Undisturbed
  <2>2. MovedRight(e) /\ RestUntouched(e) /\ SelfDisjoint(e) /\ Separate(e)
    BY <2>1 DEF ExactInv, ExactOK
  <2>3. SoFar(e)' = SoFar(e)
    BY <1>3, <1>4, <1>7 DEF SoFar
  <2>4. (MovedRight(e) /\ RestUntouched(e) /\ SelfDisjoint(e))'
    BY <1>4, <1>7, <2>2, <2>3 DEF MovedRight, RestUntouched, SelfDisjoint
  <2>5. Separate(e)'
    BY <1>3, <1>4, <1>7, <2>1, <2>2 DEF Undisturbed, Separate, Overlap
  <2> QED
    BY <2>4, <2>5
<1> QED
  BY <1>6, <1>7

LEMMA ExactStep ==
  ASSUME DmaTypeOK, CursorInv, ExactInv, [DmaNext]_dmaVars, NEW e \in Channels
  PROVE  ExactOK(e)'
<1>1. ExactOK(e)
  BY DEF ExactInv
<1>2. ASSUME UNCHANGED <<memory, job>>,
             \A d \in Channels : /\ status'[d].left = status[d].left
                                 /\ status'[d].active => status[d].active
      PROVE  ExactOK(e)'
  BY <1>1, <1>2 DEF ExactOK, Undisturbed, MovedRight, RestUntouched, SelfDisjoint, Separate, SoFar
<1>3. ASSUME NEW c \in Channels, MovePart(c)
      PROVE  ExactOK(e)'
  BY <1>3, ExactOwnMove, ExactOtherMove
<1>4. ASSUME NEW c \in Channels, MoveLast(c)
      PROVE  ExactOK(e)'
  <2>1. CASE e = c
    <3>1. ~status'[e].active
      BY <1>4, <2>1 DEF MoveLast, DmaTypeOK, Finished, Idle
    <3> QED
      BY <3>1 DEF ExactOK, Undisturbed
  <2>2. CASE e # c
    BY <1>4, <2>2, ExactOtherMove
  <2> QED
    BY <2>1, <2>2
<1>5. ASSUME NEW c \in Channels, NEW size \in Sizes, StoreStart(c, size)
      PROVE  ExactOK(e)'
  <2>1. CASE status[c].active
    BY <1>2, <1>5, <2>1 DEF StoreStart
  <2>2. CASE ~status[c].active
    BY <1>5, <2>2, ExactStart DEF StoreStart
  <2> QED
    BY <2>1, <2>2
<1>6. ASSUME NEW c \in Channels, Fail(c) \/ StoreCancel(c)
      PROVE  ExactOK(e)'
  <2>1. UNCHANGED <<memory, job>>
    BY <1>6 DEF Fail, StoreCancel
  <2>2. \A d \in Channels : /\ status'[d].left = status[d].left
                            /\ status'[d].active => status[d].active
    <3>1. CASE Fail(c)
      <4>1. \/ status' = [status EXCEPT ![c].destinationError = TRUE]
            \/ status' = [status EXCEPT ![c].sourceError = TRUE]
        BY <3>1 DEF Fail
      <4>2. ASSUME NEW d \in Channels, d # c
            PROVE  status'[d] = status[d]
        BY <4>1, <4>2 DEF DmaTypeOK
      <4>3. status[c] \in Statuses
        BY DEF DmaTypeOK, Statuses
      <4>4. \/ status'[c] = [status[c] EXCEPT !.destinationError = TRUE]
            \/ status'[c] = [status[c] EXCEPT !.sourceError = TRUE]
        BY <4>1 DEF DmaTypeOK
      <4>5. status'[c].left = status[c].left /\ status'[c].active = status[c].active
        BY <4>3, <4>4 DEF Statuses
      <4> QED
        BY <4>2, <4>5
    <3>2. CASE StoreCancel(c)
      BY <3>2 DEF StoreCancel, DmaTypeOK
    <3> QED
      BY <1>6, <3>1, <3>2
  <2> QED
    BY <1>2, <2>1, <2>2
<1>7. ASSUME \/ UNCHANGED dmaVars \/ OtherInstruction
             \/ \E c \in Channels : \/ SkipIdle(c) \/ StorePending(c)
                                    \/ \E a \in Addresses : StoreSource(c, a) \/ StoreDestination(c, a)
      PROVE  ExactOK(e)'
  <2>1. UNCHANGED <<memory, job, status>>
    BY <1>7 DEF dmaVars, OtherInstruction, SkipIdle, StorePending, StoreSource, StoreDestination
  <2> QED
    BY <1>2, <2>1
<1> QED
  BY <1>3, <1>4, <1>5, <1>6, <1>7 DEF DmaNext, IncrementDMA

(* A transfer that ends without error or cancellation has copied every byte  *)
(* as it was when the transfer started, unless another one ran over the same *)
(* bytes: for any number of channels, every alignment and every size.        *)
THEOREM TransferExactCorrect == DmaSpec => TransferExact
<1>1. DmaInit => ExactInv
  BY DEF DmaInit, ExactInv, ExactOK, Undisturbed, Idle
<1>2. ASSUME DmaTypeOK, CursorInv, ExactInv, [DmaNext]_dmaVars
      PROVE  ExactInv'
  BY <1>2, ExactStep DEF ExactInv
<1>3. ASSUME DmaTypeOK, CursorInv, ExactInv, [DmaNext]_dmaVars
      PROVE  [\A c \in Channels : Completes(c) /\ job[c].alone =>
                \A i \in 0..(job[c].size - 1) :
                    memory'[job[c].to + i] = job[c].before[job[c].from + i]]_dmaVars
  <2> SUFFICES ASSUME NEW c \in Channels, Completes(c), job[c].alone,
                      NEW i \in 0..(job[c].size - 1)
               PROVE  memory'[job[c].to + i] = job[c].before[job[c].from + i]
    OBVIOUS
  <2>1. MoveLast(c)
    <3>1. status[c].active /\ ~status'[c].active /\ ~status'[c].cancelled
      BY DEF Completes
    <3>2. ASSUME UNCHANGED status
          PROVE  FALSE
      BY <3>1, <3>2
    <3>3. ASSUME NEW d \in Channels, StoreCancel(d)
          PROVE  FALSE
      BY <1>3, <3>1, <3>3 DEF StoreCancel, DmaTypeOK
    <3>4. ASSUME NEW d \in Channels, MovePart(d) \/ Fail(d)
          PROVE  FALSE
      BY <1>3, <3>1, <3>4, ActiveKept
    <3>5. ASSUME NEW d \in Channels, MoveLast(d), d # c
          PROVE  FALSE
      BY <1>3, <3>1, <3>5 DEF MoveLast, DmaTypeOK
    <3>6. ASSUME NEW d \in Channels, NEW size \in Sizes, StoreStart(d, size)
          PROVE  FALSE
      BY <1>3, <3>1, <3>6 DEF StoreStart, StartTransfer, Idle, DmaTypeOK
    <3> QED
      BY <1>3, <3>2, <3>3, <3>4, <3>5, <3>6 DEF DmaNext, IncrementDMA, dmaVars, SkipIdle,
         OtherInstruction, StoreSource, StoreDestination, StorePending
  <2>2. status[c].active /\ status[c].left - Size(c) <= 0
    BY <2>1 DEF MoveLast
  <2>3. MovedRight(c) /\ RestUntouched(c)
    BY <1>3, <2>2 DEF ExactInv, ExactOK, Undisturbed
  <2>4. /\ job[c].from \in Nat /\ job[c].to \in Nat /\ job[c].size \in Nat
        /\ SoFar(c) \in Nat /\ Size(c) \in Nat /\ status[c].left \in Nat
        /\ SoFar(c) + status[c].left = job[c].size /\ Size(c) <= status[c].left
    BY <1>3, <2>2, CursorFacts
  <2>5. SoFar(c) + Size(c) = job[c].size
    BY <2>2, <2>4
  <2>6. /\ \A k \in SoFar(c)..(SoFar(c) + Size(c) - 1) :
              /\ job[c].from + k \in 0..(MemorySize - 1)
              /\ memory'[job[c].to + k] = memory[job[c].from + k]
        /\ \A a \in 0..(MemorySize - 1) :
              a < job[c].to + SoFar(c) \/ job[c].to + SoFar(c) + Size(c) <= a
                => memory'[a] = memory[a]
    BY <1>3, <2>1, MoveBytes
  <2>7. CASE i < SoFar(c)
    <3>1. job[c].to + i \in 0..(MemorySize - 1)
          /\ memory[job[c].to + i] = job[c].before[job[c].from + i]
      BY <2>3, <2>4, <2>7 DEF MovedRight
    <3> QED
      BY <2>4, <2>6, <2>7, <3>1
  <2>8. CASE i >= SoFar(c)
    <3>1. i \in SoFar(c)..(SoFar(c) + Size(c) - 1) /\ i \in SoFar(c)..(job[c].size - 1)
      BY <2>4, <2>5, <2>8
    <3> QED
      BY <2>3, <2>6, <3>1 DEF RestUntouched
  <2> QED
    BY <2>4, <2>7, <2>8
<1> QED
  BY <1>1, <1>2, <1>3, DmaTypeCorrect, CursorCorrect, PTL DEF DmaSpec, TransferExact

-----------------------------------------------------------------------------
(* The firmware's handler.                                                    *)

(* The words of a register, and their order.                                  *)
LEMMA Words ==
    ASSUME NEW n \in Nat
    PROVE  /\ High(n) \in Nat /\ Low(n) \in Nat /\ Low(n) < WordSize
           /\ n = Whole(High(n), Low(n))
BY IsrAssumption DEF High, Low, Whole

LEMMA Products ==
    ASSUME NEW a \in Nat, NEW b \in Nat, NEW p \in Nat
    PROVE  /\ a * p \in Nat
           /\ a <= b => a * p <= b * p
           /\ (a + b) * p = a * p + b * p
OBVIOUS

(* Division is unique.                                                        *)
LEMMA Division ==
    ASSUME NEW p \in Nat \ {0}, NEW q \in Nat, NEW r \in Nat, r < p
    PROVE  (q * p + r) \div p = q /\ (q * p + r) % p = r
OBVIOUS

LEMMA WordsOf ==
    ASSUME NEW h \in Nat, NEW l \in Nat, l < WordSize
    PROVE  /\ Whole(h, l) \in Nat /\ High(Whole(h, l)) = h /\ Low(Whole(h, l)) = l
<1>1. WordSize \in Nat \ {0}
  BY IsrAssumption
<1> QED BY <1>1, Division, Products DEF High, Low, Whole

LEMMA HighGrows ==
    ASSUME NEW m \in Nat, NEW n \in Nat, m <= n
    PROVE  High(m) <= High(n)
<1>1. WordSize \in Nat \ {0}
  BY IsrAssumption
<1>2. /\ High(m) \in Nat /\ Low(m) \in Nat /\ m = High(m) * WordSize + Low(m)
      /\ High(n) \in Nat /\ Low(n) \in Nat /\ Low(n) < WordSize /\ n = High(n) * WordSize + Low(n)
  BY Words DEF Whole
<1>3. ASSUME High(n) + 1 <= High(m) PROVE FALSE
  <2>1. (High(n) + 1) * WordSize <= High(m) * WordSize
    BY <1>1, <1>2, <1>3, Products
  <2>2. (High(n) + 1) * WordSize = High(n) * WordSize + WordSize
    BY <1>1, <1>2
  <2>3. High(n) * WordSize \in Nat /\ High(m) * WordSize \in Nat
    BY <1>1, <1>2, Products
  <2> QED BY <1>1, <1>2, <2>1, <2>2, <2>3
<1> QED BY <1>2, <1>3

(* A number with a smaller high word is smaller than every one with the other.*)
LEMMA HighDecides ==
    ASSUME NEW m \in Nat, NEW n \in Nat, NEW l \in Nat, l < WordSize, High(m) < High(n)
    PROVE  Whole(High(m), l) < n /\ m <= Whole(High(n), l)
<1>1. WordSize \in Nat \ {0}
  BY IsrAssumption
<1>2. /\ High(m) \in Nat /\ Low(m) \in Nat /\ Low(m) < WordSize /\ m = High(m) * WordSize + Low(m)
      /\ High(n) \in Nat /\ Low(n) \in Nat /\ n = High(n) * WordSize + Low(n)
  BY Words DEF Whole
<1>3. (High(m) + 1) * WordSize <= High(n) * WordSize
  BY <1>1, <1>2, Products
<1>4. (High(m) + 1) * WordSize = High(m) * WordSize + WordSize
  BY <1>1, <1>2
<1>5. High(n) * WordSize \in Nat /\ High(m) * WordSize \in Nat
  BY <1>1, <1>2, Products
<1>6. High(m) * WordSize + WordSize <= High(n) * WordSize
  BY <1>3, <1>4
<1> QED BY <1>1, <1>2, <1>5, <1>6 DEF Whole

(* readMachineTime: whenever its four words are of four moments in this order,*)
(* what it returns lies between the first and the last.                       *)
LEMMA ReadBetween ==
    ASSUME NEW t1 \in Nat, NEW t2 \in Nat, NEW t3 \in Nat, NEW t4 \in Nat,
           t1 <= t2, t2 <= t3, t3 <= t4,
           local.h1 = High(t1), local.l1 = Low(t2), local.h2 = High(t3)
    PROVE  ReadTime(Low(t4)) \in t1..t4
<1>1. /\ High(t1) \in Nat /\ High(t2) \in Nat /\ High(t3) \in Nat /\ High(t4) \in Nat
      /\ High(t1) <= High(t2) /\ High(t2) <= High(t3) /\ High(t3) <= High(t4)
      /\ Low(t4) \in Nat /\ Low(t4) < WordSize /\ High(t1) <= High(t3)
  BY Words, HighGrows
<1>2. CASE High(t1) = High(t3)
  <2>1. High(t2) = High(t1)
    BY <1>1, <1>2
  <2>2. ReadTime(Low(t4)) = t2
    BY <1>2, <2>1, Words DEF ReadTime
  <2> QED BY <2>2
<1>3. CASE High(t1) # High(t3)
  <2>1. ReadTime(Low(t4)) = Whole(High(t3), Low(t4))
    BY <1>3 DEF ReadTime
  <2>2. Whole(High(t3), Low(t4)) \in Nat
    BY <1>1, WordsOf
  <2>3. t1 <= Whole(High(t3), Low(t4))
    BY <1>1, <1>3, HighDecides
  <2>4. Whole(High(t3), Low(t4)) <= t4
    <3>1. CASE High(t3) = High(t4)
      BY <3>1, Words
    <3>2. CASE High(t3) < High(t4)
      BY <1>1, <2>2, <3>2, HighDecides
    <3> QED BY <1>1, <3>1, <3>2
  <2> QED BY <2>1, <2>2, <2>3, <2>4
<1> QED BY <1>2, <1>3

(* The next tick lies on the grid, ahead of the time that was read.           *)
LEMMA NextTick ==
    ASSUME NEW now \in Nat, NEW old \in Nat
    PROVE  LET new == NewCompare(now, old) IN
           /\ new \in Nat /\ new % Period = old % Period /\ now < new /\ old <= new
           /\ old <= now => new <= now + Period /\ old + Period <= new
<1>1. Period \in Nat \ {0}
  BY IsrAssumption
<1>2. CASE ~(old <= now)
  BY <1>2 DEF NewCompare
<1>3. CASE old <= now
  <2> DEFINE q == (now - old) \div Period  r == (now - old) % Period
  <2>1. q \in Nat /\ r \in Nat /\ r < Period /\ now - old = q * Period + r
    BY <1>1, <1>3
  <2>2. NewCompare(now, old) = now + Period - r
    BY <1>3 DEF NewCompare
  <2>3. q * Period \in Nat /\ (q + 1) * Period = q * Period + Period
    BY <1>1, <2>1
  <2>4. NewCompare(now, old) = old + (q + 1) * Period
    BY <1>1, <2>1, <2>2, <2>3
  <2>5. (old + (q + 1) * Period) % Period = old % Period
    <3> DEFINE a == old \div Period  b == old % Period
    <3>1. a \in Nat /\ b \in Nat /\ b < Period /\ old = a * Period + b
      BY <1>1
    <3>2. (a + (q + 1)) * Period = a * Period + (q + 1) * Period
      BY <1>1, <2>1, <3>1, Products
    <3>3. old + (q + 1) * Period = (a + (q + 1)) * Period + b
      <4>1. a * Period \in Nat /\ (q + 1) * Period \in Nat
        BY <1>1, <2>1, <3>1, Products
      <4> QED BY <3>1, <3>2, <4>1
    <3>4. ((a + (q + 1)) * Period + b) % Period = b
      <4>1. a + (q + 1) \in Nat
        BY <2>1, <3>1
      <4> HIDE DEF a, b, q, r
      <4> QED BY <1>1, <3>1, <4>1, Division
    <3> QED BY <3>3, <3>4
  <2> QED BY <1>1, <1>3, <2>1, <2>2, <2>3, <2>4, <2>5
<1> QED BY <1>2, <1>3

-----------------------------------------------------------------------------
(* The types. Where a thread is in a check is any record with a line.         *)
LocalNames == {"h1", "l1", "h2", "now", "high", "new"}
TypeInv ==
    /\ IsrTypeOK
    /\ check = [t \in Threads |-> check[t]]
    /\ began \in Nat

(* The steps of the handler that touch no register of the chipset.            *)
TimeReads == TimeH1 \/ TimeL1 \/ TimeH2 \/ TimeL2 \/ CompareH \/ CompareL
Polls == PollVideo \/ PollCommand
Counts == CountVideo \/ CountCommand
Clears == ClearVideo \/ ClearCommand

LEMMA InitType == IsrInit => TypeInv
BY IsrAssumption, ChipsetAssumption
DEF IsrInit, TypeInv, IsrTypeOK, ChipsetTypeOK, Done, Threads, Counted

LEMMA ReadsType ==
    ASSUME TypeInv, TimeReads
    PROVE  TypeInv'
<1>1. time \in Nat /\ compare \in Nat /\ began \in Nat /\ local \in [LocalNames -> Nat]
  BY DEF TypeInv, IsrTypeOK, ChipsetTypeOK, LocalNames
<1>2. /\ High(time) \in Nat /\ Low(time) \in Nat /\ High(compare) \in Nat /\ Low(compare) \in Nat
  BY <1>1, Words
<1>3. WordSize \in Nat
  BY IsrAssumption
<1>4. ReadTime(Low(time)) \in Nat
  <2>1. local.h1 \in Nat /\ local.l1 \in Nat /\ local.h2 \in Nat
    BY <1>1 DEF LocalNames
  <2>2. local.h1 * WordSize \in Nat /\ local.h2 * WordSize \in Nat
    BY <1>3, <2>1, Products
  <2> QED BY <1>2, <2>1, <2>2 DEF ReadTime, Whole
<1>5. NewCompare(local.now, Whole(local.high, Low(compare))) \in Nat
  <2>1. local.now \in Nat /\ local.high \in Nat
    BY <1>1 DEF LocalNames
  <2>2. Whole(local.high, Low(compare)) \in Nat
    BY <1>2, <1>3, <2>1, Products DEF Whole
  <2> QED BY <2>1, <2>2, NextTick
<1>6. local' \in [LocalNames -> Nat]
  BY <1>1, <1>2, <1>4, <1>5
  DEF TimeReads, TimeH1, TimeL1, TimeH2, TimeL2, CompareH, CompareL, Load, LocalNames
<1>7. UNCHANGED <<chipsetVars, cause, systick, seq, uncounted>> /\ began' \in Nat
  BY <1>1 DEF TimeReads, TimeH1, TimeL1, TimeH2, TimeL2, CompareH, CompareL, Load
<1> QED BY <1>6, <1>7 DEF TypeInv, IsrTypeOK, ChipsetTypeOK, chipsetVars, Done, LocalNames

LEMMA QuietType ==
    ASSUME TypeInv, UNCHANGED <<chipsetVars, local, began>>,
           systick' \in Nat, seq' \in [Counted -> Nat], uncounted' \subseteq DeviceSources
    PROVE  TypeInv'
BY DEF TypeInv, IsrTypeOK, ChipsetTypeOK, chipsetVars, Done

LEMMA CountsType ==
    ASSUME TypeInv, Counts
    PROVE  TypeInv'
<1>1. \E label, s, following : s \in Counted /\ Count(label, s, following)
  BY DEF Counts, CountVideo, CountCommand, Counted
<1>2. PICK label, s, following : s \in Counted /\ Count(label, s, following)
  BY <1>1
<1>3. UNCHANGED <<chipsetVars, local, began, systick>>
  BY <1>2 DEF Count
<1>4. seq' \in [Counted -> Nat] /\ uncounted' \subseteq DeviceSources /\ systick' \in Nat
  BY <1>2, <1>3 DEF Count, TypeInv, IsrTypeOK
<1> QED BY <1>3, <1>4, QuietType

(* A check begins beside whatever else a store or a device changes.           *)
LEMMA BegunType ==
    ASSUME TypeInv, NEW t \in Threads, NEW line \in Lines, BeginCheck(t, line)
    PROVE  /\ check' = [u \in Threads |-> check'[u]]
           /\ \A u \in Threads : ~Done(u)' => check'[u].line \in Lines
<1>1. check = [u \in Threads |-> check[u]]
  BY DEF TypeInv
<1>2. check'[t].line = line
  BY <1>1 DEF BeginCheck
<1>3. \A u \in Threads \ {t} : check'[u] = check[u]
  BY <1>1 DEF BeginCheck
<1> QED BY <1>1, <1>2, <1>3 DEF BeginCheck, TypeInv, IsrTypeOK, ChipsetTypeOK, Done

LEMMA StoresType ==
    ASSUME TypeInv, StoreLow \/ StoreHigh \/ Clears \/ CartridgeStore
    PROVE  TypeInv'
<1>1. \E line \in Lines : BeginCheck("cpu", line)
  BY DEF StoreLow, StoreHigh, Clears, ClearVideo, ClearCommand, Clear, CartridgeStore, StoreCompare,
     StoreInterruptPending, StoreEnable, Lines
<1>2. /\ check' = [u \in Threads |-> check'[u]]
      /\ \A u \in Threads : ~Done(u)' => check'[u].line \in Lines
  BY <1>1, BegunType DEF Threads
<1>3. UNCHANGED handlerVars /\ UNCHANGED <<serial, time, mip, events>>
  BY DEF StoreLow, StoreHigh, Clears, ClearVideo, ClearCommand, Clear, CartridgeStore, StoreCompare,
     StoreInterruptPending, StoreEnable
<1>4. enable' \subseteq Sources /\ pending' \subseteq Sources
  BY IsrAssumption
  DEF StoreLow, StoreHigh, Clears, ClearVideo, ClearCommand, Clear, CartridgeStore, StoreCompare,
      StoreInterruptPending, StoreEnable, TypeInv, IsrTypeOK, ChipsetTypeOK
<1>5. compare' \in Nat
  <2>1. compare \in Nat /\ local.new \in Nat
    BY DEF TypeInv, IsrTypeOK, ChipsetTypeOK
  <2>2. /\ High(compare) \in Nat /\ Low(compare) \in Nat /\ Low(compare) < WordSize
        /\ High(local.new) \in Nat /\ Low(local.new) \in Nat /\ Low(local.new) < WordSize
    BY <2>1, Words
  <2>3. Whole(High(compare), Low(local.new)) \in Nat /\ Whole(High(local.new), Low(compare)) \in Nat
    BY <2>2, WordsOf
  <2> QED BY <2>1, <2>3
      DEF StoreLow, StoreHigh, Clears, ClearVideo, ClearCommand, Clear, CartridgeStore, StoreCompare,
          StoreInterruptPending, StoreEnable
<1> QED BY <1>2, <1>3, <1>4, <1>5 DEF handlerVars, TypeInv, IsrTypeOK, ChipsetTypeOK

LEMMA TickType ==
    ASSUME TypeInv, Tick
    PROVE  TypeInv'
<1>1. BeginCheck("timer", "Timer") /\ time' = time + 1
      /\ UNCHANGED <<serial, enable, pending, compare, mip, events>> /\ UNCHANGED handlerVars
  BY DEF Tick, IncrementTimer
<1>2. /\ check' = [u \in Threads |-> check'[u]]
      /\ \A u \in Threads : ~Done(u)' => check'[u].line \in Lines
  BY <1>1, BegunType DEF Threads, Lines
<1> QED BY <1>1, <1>2 DEF handlerVars, TypeInv, IsrTypeOK, ChipsetTypeOK

LEMMA DeviceType ==
    ASSUME TypeInv, DeviceEvent
    PROVE  TypeInv'
<1>1. PICK s \in DeviceSources : SetInterruptPending(s) /\ uncounted' = uncounted \cup {s}
  BY DEF DeviceEvent
<1>2. /\ BeginCheck("ui", "External") /\ pending' = pending \cup {s}
      /\ events' = [events EXCEPT ![s] = @ + 1]
      /\ UNCHANGED <<serial, enable, time, compare, mip, local, systick, seq, began>>
  BY <1>1 DEF SetInterruptPending, DeviceEvent
<1>3. /\ check' = [u \in Threads |-> check'[u]]
      /\ \A u \in Threads : ~Done(u)' => check'[u].line \in Lines
  BY <1>2, BegunType DEF Threads, Lines
<1>4. events' \in [DeviceSources -> Nat] /\ pending' \subseteq Sources /\ uncounted' \subseteq DeviceSources
  BY <1>1, <1>2, ChipsetAssumption DEF TypeInv, IsrTypeOK, ChipsetTypeOK
<1> QED BY <1>2, <1>3, <1>4 DEF TypeInv, IsrTypeOK, ChipsetTypeOK

LEMMA CheckType ==
    ASSUME TypeInv, CheckStep, UNCHANGED <<pc, handlerVars>>
    PROVE  TypeInv'
<1>1. PICK t \in Threads : LoadFirst(t) \/ LoadSecond(t) \/ Act(t)
  BY DEF CheckStep
<1>2. /\ UNCHANGED <<registers, events>> /\ ~Done(t) /\ check[t].line \in Lines
      /\ check = [u \in Threads |-> check[u]]
  BY <1>1 DEF LoadFirst, LoadSecond, Act, TypeInv, IsrTypeOK, ChipsetTypeOK
<1>3. mip' \subseteq Lines
  BY <1>1, <1>2 DEF LoadFirst, LoadSecond, Act, TypeInv, IsrTypeOK, ChipsetTypeOK
<1>4. check' = [u \in Threads |-> check'[u]] /\ \A u \in Threads \ {t} : check'[u] = check[u]
  BY <1>1, <1>2 DEF LoadFirst, LoadSecond, Act
<1>5. check'[t] = NoCheck \/ check'[t].line \in Lines
  <2>1. CASE LoadFirst(t)
    BY <1>2, <2>1 DEF LoadFirst
  <2>2. CASE LoadSecond(t)
    BY <1>2, <2>2 DEF LoadSecond
  <2>3. CASE Act(t)
    BY <1>2, <2>3 DEF Act
  <2> QED BY <1>1, <2>1, <2>2, <2>3
<1>6. \A u \in Threads : ~Done(u)' => check'[u].line \in Lines
  BY <1>4, <1>5 DEF Done, TypeInv, IsrTypeOK, ChipsetTypeOK
<1> QED BY <1>2, <1>3, <1>4, <1>6 DEF registers, handlerVars, TypeInv, IsrTypeOK, ChipsetTypeOK

LEMMA NextType == TypeInv /\ [IsrNext]_isrVars => TypeInv'
<1> SUFFICES ASSUME TypeInv, [IsrNext]_isrVars PROVE TypeInv'
  OBVIOUS
<1>0. systick \in Nat /\ seq \in [Counted -> Nat] /\ uncounted \subseteq DeviceSources
  BY DEF TypeInv, IsrTypeOK
<1>1. CASE Trap \/ UpdateTick \/ Polls \/ Mret
  BY <1>0, <1>1, QuietType DEF Trap, UpdateTick, Polls, PollVideo, PollCommand, Poll, Mret, handlerVars
<1>2. CASE UNCHANGED isrVars
  BY <1>0, <1>2, QuietType DEF isrVars, handlerVars
<1> QED BY <1>1, <1>2, ReadsType, CountsType, StoresType, TickType, DeviceType, CheckType
        DEF IsrNext, Handler, TimeReads, Polls, Counts, Clears

(* The handler's and the chipset's variables keep their types, whatever the   *)
(* widths and however long the machine runs.                                  *)
THEOREM IsrTypeCorrect == IsrSpec => []IsrTypeOK
<1>1. TypeInv => IsrTypeOK
  BY DEF TypeInv
<1> QED BY <1>1, InitType, NextType, PTL DEF IsrSpec

-----------------------------------------------------------------------------
(* readMachineTime, label by label: the words read so far are those of        *)
(* moments between the beginning and now, in this order.                      *)
AfterRead == {"compare_h", "compare_l", "store_l", "store_h", "tick"}
ReadInv ==
    /\ began <= time
    /\ pc \in {"time_l1", "time_h2", "time_l2"} => local.h1 = High(began)
    /\ pc = "time_h2" => \E t \in began..time : local.l1 = Low(t)
    /\ pc = "time_l2" =>
          \E t \in began..time : \E u \in t..time : local.l1 = Low(t) /\ local.h2 = High(u)
    /\ pc \in AfterRead => local.now \in began..time

(* The clock may have moved; nothing else in it has.                          *)
LEMMA ReadKept ==
    ASSUME TypeInv, ReadInv, UNCHANGED <<pc, local, began>>, time' \in Nat, time <= time'
    PROVE  ReadInv'
<1>1. began \in Nat /\ time \in Nat /\ began <= time'
  BY DEF TypeInv, IsrTypeOK, ChipsetTypeOK, ReadInv
<1>2. began..time \subseteq began..time' /\ \A t \in began..time : t..time \subseteq t..time'
  BY <1>1
<1>3. began' <= time'
  BY <1>1
<1>4. pc \in {"time_l1", "time_h2", "time_l2"} => local.h1 = High(began)
  BY DEF ReadInv
<1>5. pc = "time_h2" => \E t \in began..time' : local.l1 = Low(t)
  BY <1>2 DEF ReadInv
<1>6. pc = "time_l2" =>
        \E t \in began..time' : \E u \in t..time' : local.l1 = Low(t) /\ local.h2 = High(u)
  <2> SUFFICES ASSUME pc = "time_l2"
               PROVE  \E t \in began..time' : \E u \in t..time' : local.l1 = Low(t) /\ local.h2 = High(u)
    OBVIOUS
  <2>1. PICK t \in began..time : \E u \in t..time : local.l1 = Low(t) /\ local.h2 = High(u)
    BY DEF ReadInv
  <2>2. PICK u \in t..time : local.l1 = Low(t) /\ local.h2 = High(u)
    BY <2>1
  <2> QED BY <1>2, <2>1, <2>2
<1>7. pc \in AfterRead => local.now \in began..time'
  BY <1>2 DEF ReadInv
<1> QED BY <1>3, <1>4, <1>5, <1>6, <1>7 DEF ReadInv, AfterRead, High, Low

(* The reads one by one.                                                      *)
LEMMA ReadsRead ==
    ASSUME TypeInv, ReadInv, TimeReads
    PROVE  ReadInv'
<1>1. /\ time \in Nat /\ began \in Nat /\ began <= time /\ time' = time
      /\ local \in [LocalNames -> Nat]
  BY DEF TypeInv, IsrTypeOK, ChipsetTypeOK, ReadInv, LocalNames, TimeReads, TimeH1, TimeL1, TimeH2, TimeL2,
         CompareH, CompareL, Load, chipsetVars
<1>2. CASE TimeH1
  <2>1. began' = time /\ local'.h1 = High(time) /\ pc' = "time_l1"
    BY <1>1, <1>2 DEF TimeH1, Load, Goto, LocalNames
  <2>2. local'.h1 = High(began')
    BY <2>1
  <2> QED BY <1>1, <2>1, <2>2 DEF ReadInv, AfterRead, High
<1>3. CASE TimeL1
  <2>1. began' = began /\ local'.h1 = local.h1 /\ local'.l1 = Low(time) /\ pc' = "time_h2" /\ pc = "time_l1"
    BY <1>1, <1>3 DEF TimeL1, Load, Goto, At, LocalNames
  <2>2. local'.h1 = High(began')
    BY <2>1 DEF ReadInv
  <2>3. \E t \in began'..time' : local'.l1 = Low(t)
    BY <1>1, <2>1
  <2> QED BY <1>1, <2>1, <2>2, <2>3 DEF ReadInv, AfterRead, High, Low
<1>4. CASE TimeH2
  <2>1. /\ began' = began /\ local'.h1 = local.h1 /\ local'.l1 = local.l1 /\ local'.h2 = High(time)
        /\ pc' = "time_l2" /\ pc = "time_h2"
    BY <1>1, <1>4 DEF TimeH2, Load, Goto, At, LocalNames
  <2>2. local'.h1 = High(began')
    BY <2>1 DEF ReadInv
  <2>3. PICK t \in began..time : local.l1 = Low(t)
    BY <2>1 DEF ReadInv
  <2>4. time \in t..time
    BY <1>1, <2>3
  <2>5. \E v \in began'..time' : \E u \in v..time' : local'.l1 = Low(v) /\ local'.h2 = High(u)
    BY <1>1, <2>1, <2>3, <2>4
  <2> QED BY <1>1, <2>1, <2>2, <2>5 DEF ReadInv, AfterRead, High, Low
<1>5. CASE TimeL2
  <2>1. /\ began' = began /\ local'.now = ReadTime(Low(time)) /\ pc' = "compare_h" /\ pc = "time_l2"
    BY <1>1, <1>5 DEF TimeL2, Load, Goto, At, LocalNames
  <2>2. PICK t \in began..time : \E u \in t..time : local.l1 = Low(t) /\ local.h2 = High(u)
    BY <2>1 DEF ReadInv
  <2>3. PICK u \in t..time : local.l1 = Low(t) /\ local.h2 = High(u)
    BY <2>2
  <2>4. t \in Nat /\ u \in Nat /\ began <= t /\ t <= u /\ u <= time
    BY <1>1, <2>2, <2>3
  <2>5. local.h1 = High(began)
    BY <2>1 DEF ReadInv
  <2>6. ReadTime(Low(time)) \in began..time
    BY <1>1, <2>2, <2>3, <2>4, <2>5, ReadBetween
  <2> QED BY <1>1, <2>1, <2>6 DEF ReadInv, AfterRead
<1>6. CASE CompareH \/ CompareL
  <2>1. /\ began' = began /\ local'.now = local.now /\ pc \in {"compare_h", "compare_l"}
        /\ pc' \in {"compare_l", "store_l"}
    BY <1>1, <1>6 DEF CompareH, CompareL, Load, Goto, At, LocalNames
  <2>2. local.now \in began..time
    BY <2>1 DEF ReadInv, AfterRead
  <2> QED BY <1>1, <2>1, <2>2 DEF ReadInv, AfterRead
<1> QED BY <1>2, <1>3, <1>4, <1>5, <1>6 DEF TimeReads

LEMMA NextRead == TypeInv /\ ReadInv /\ [IsrNext]_isrVars => ReadInv'
<1> SUFFICES ASSUME TypeInv, ReadInv, [IsrNext]_isrVars PROVE ReadInv'
  OBVIOUS
<1>0. time \in Nat /\ began \in Nat /\ began <= time
  BY DEF TypeInv, IsrTypeOK, ChipsetTypeOK, ReadInv
<1>1. CASE StoreLow \/ StoreHigh
  <2>1. /\ UNCHANGED <<time, local, began>> /\ pc \in AfterRead /\ pc' \in AfterRead
        /\ pc' \in {"store_h", "tick"}
    BY <1>1 DEF StoreLow, StoreHigh, StoreCompare, handlerVars, Goto, AfterRead
  <2>2. local.now \in began..time
    BY <2>1 DEF ReadInv
  <2> QED BY <1>0, <2>1, <2>2 DEF ReadInv
<1>2. CASE Trap \/ UpdateTick \/ Polls \/ Clears \/ Counts \/ Mret
  <2>1. UNCHANGED <<time, began>>
    BY <1>2 DEF Trap, UpdateTick, Polls, PollVideo, PollCommand, Poll, Clears, ClearVideo, ClearCommand,
       Clear, StoreInterruptPending, Counts, CountVideo, CountCommand, Count, Mret, chipsetVars, handlerVars
  <2>2. pc' \in {"poll_video", "time_h1", "clear_video", "poll_command", "clear_command", "mret",
                 "count_video", "count_command", "user"}
    BY <1>2 DEF Trap, UpdateTick, Polls, PollVideo, PollCommand, Poll, Clears, ClearVideo, ClearCommand,
       Clear, Counts, CountVideo, CountCommand, Count, Mret, Goto
  <2> QED BY <1>0, <2>1, <2>2 DEF ReadInv, AfterRead
<1>3. CASE CartridgeStore \/ Tick \/ DeviceEvent \/ (CheckStep /\ UNCHANGED <<pc, handlerVars>>)
           \/ UNCHANGED isrVars
  <2>1. UNCHANGED <<pc, local, began>>
    BY <1>3 DEF CartridgeStore, Tick, DeviceEvent, handlerVars, isrVars
  <2>2. time' \in Nat /\ time <= time'
    <3>1. time' = time \/ time' = time + 1
      BY <1>3 DEF CartridgeStore, StoreEnable, Tick, IncrementTimer, DeviceEvent, SetInterruptPending,
         CheckStep, LoadFirst, LoadSecond, Act, registers, isrVars, chipsetVars
    <3> QED BY <1>0, <3>1
  <2> QED BY <2>1, <2>2, ReadKept
<1> QED BY <1>1, <1>2, <1>3, ReadsRead DEF IsrNext, Handler, TimeReads, Polls, Counts, Clears

(* readMachineTime returns a time that was the time while it ran, for words   *)
(* of any size and a clock of any speed.                                      *)
THEOREM TimeReadCorrect == IsrSpec => []TimeReadInRange
<1>1. IsrInit => ReadInv
  BY DEF IsrInit, ReadInv, AfterRead
<1>2. TypeInv /\ ReadInv => TimeReadInRange
  BY DEF TypeInv, IsrTypeOK, ChipsetTypeOK, ReadInv, AfterRead, TimeReadInRange
<1> QED BY <1>1, <1>2, InitType, NextType, NextRead, PTL DEF IsrSpec

-----------------------------------------------------------------------------
(* What the handler is about to count is pending when it clears it, and every *)
(* count it has still to make is one of an event there was.                   *)
ClearLabel(s) == IF s = "Video" THEN "clear_video" ELSE "clear_command"
CountLabel(s) == IF s = "Video" THEN "count_video" ELSE "count_command"
Debt(s) == (IF s \in pending THEN 1 ELSE 0) + (IF pc = CountLabel(s) THEN 1 ELSE 0)
CountInv ==
    /\ NoEventLost
    /\ \A s \in Counted : pc = ClearLabel(s) => s \in pending
    /\ \A s \in Counted \cap DeviceSources : seq[s] + Debt(s) <= events[s]

LEMMA ClearsCount ==
    ASSUME TypeInv, CountInv, NEW s \in Counted, Clear(ClearLabel(s), s, CountLabel(s))
    PROVE  CountInv'
<1>1. /\ pc = ClearLabel(s) /\ pc' = CountLabel(s) /\ s \in pending /\ pending' = pending \ {s}
      /\ UNCHANGED <<seq, uncounted, events>>
  BY DEF Clear, StoreInterruptPending, Cleared, Goto, handlerVars, CountInv
<1>2. seq \in [Counted -> Nat] /\ events \in [DeviceSources -> Nat]
  BY DEF TypeInv, IsrTypeOK, ChipsetTypeOK
<1>3. \A u \in Counted : pc # CountLabel(u) /\ pc' # ClearLabel(u) /\ (pc' = CountLabel(u) <=> u = s)
  BY <1>1 DEF Counted, ClearLabel, CountLabel
<1>4. NoEventLost'
  BY <1>1, <1>3 DEF CountInv, NoEventLost, CountLabel
<1>5. ASSUME NEW u \in Counted \cap DeviceSources PROVE seq'[u] + Debt(u)' <= events'[u]
  <2>1. seq[u] + Debt(u) <= events[u] /\ seq[u] \in Nat /\ events[u] \in Nat
    BY <1>2, <1>5 DEF CountInv
  <2>2. Debt(u)' = Debt(u)
    BY <1>1, <1>3, <1>5 DEF Debt, CountLabel
  <2> QED BY <1>1, <2>1, <2>2
<1> QED BY <1>3, <1>4, <1>5 DEF CountInv, ClearLabel

LEMMA CountsCount ==
    ASSUME TypeInv, CountInv, NEW s \in Counted, NEW following \in {"poll_command", "mret"},
           Count(CountLabel(s), s, following)
    PROVE  CountInv'
<1>1. /\ pc = CountLabel(s) /\ pc' = following /\ pending' = pending /\ events' = events
      /\ seq' = [seq EXCEPT ![s] = @ + 1] /\ uncounted' = uncounted \ {s}
  BY DEF Count, At, Goto, chipsetVars
<1>2. seq \in [Counted -> Nat] /\ events \in [DeviceSources -> Nat]
  BY DEF TypeInv, IsrTypeOK, ChipsetTypeOK
<1>3. \A u \in Counted : pc' # CountLabel(u) /\ pc' # ClearLabel(u) /\ (pc = CountLabel(u) <=> u = s)
  BY <1>1 DEF Counted, ClearLabel, CountLabel
<1>4. NoEventLost'
  BY <1>1, <1>3 DEF CountInv, NoEventLost, CountLabel
<1>5. ASSUME NEW u \in Counted \cap DeviceSources PROVE seq'[u] + Debt(u)' <= events'[u]
  <2>1. seq[u] + Debt(u) <= events[u] /\ seq[u] \in Nat /\ events[u] \in Nat
    BY <1>2, <1>5 DEF CountInv
  <2>2. CASE u = s
    BY <1>1, <1>2, <1>3, <2>1, <2>2 DEF Debt, CountLabel
  <2>3. CASE u # s
    BY <1>1, <1>2, <1>3, <2>1, <2>3 DEF Debt, CountLabel
  <2> QED BY <2>2, <2>3
<1> QED BY <1>3, <1>4, <1>5 DEF CountInv, ClearLabel

LEMMA DeviceCount ==
    ASSUME TypeInv, CountInv, DeviceEvent
    PROVE  CountInv'
<1>1. PICK s \in DeviceSources : SetInterruptPending(s) /\ uncounted' = uncounted \cup {s}
  BY DEF DeviceEvent
<1>2. /\ pc' = pc /\ seq' = seq /\ pending' = pending \cup {s} /\ events' = [events EXCEPT ![s] = @ + 1]
  BY <1>1 DEF DeviceEvent, SetInterruptPending
<1>3. seq \in [Counted -> Nat] /\ events \in [DeviceSources -> Nat]
  BY DEF TypeInv, IsrTypeOK, ChipsetTypeOK
<1>4. ASSUME NEW u \in Counted \cap DeviceSources PROVE seq'[u] + Debt(u)' <= events'[u]
  <2>1. seq[u] + Debt(u) <= events[u] /\ seq[u] \in Nat /\ events[u] \in Nat
    BY <1>3, <1>4 DEF CountInv
  <2>2. CASE u = s
    BY <1>2, <1>3, <2>1, <2>2 DEF Debt, CountLabel
  <2>3. CASE u # s
    BY <1>2, <1>3, <2>1, <2>3 DEF Debt, CountLabel
  <2> QED BY <2>2, <2>3
<1> QED BY <1>1, <1>2, <1>4 DEF CountInv, NoEventLost, ClearLabel

(* A step that neither clears nor counts and goes to no such label but from   *)
(* the poll that found the bit.                                               *)
LEMMA OtherCount ==
    ASSUME CountInv, UNCHANGED <<pending, seq, uncounted, events>>,
           \A s \in Counted : pc' = CountLabel(s) => pc = CountLabel(s),
           \A s \in Counted : pc = CountLabel(s) => pc' = CountLabel(s),
           \A s \in Counted : pc' = ClearLabel(s) => pc = ClearLabel(s) \/ s \in pending
    PROVE  CountInv'
<1>1. NoEventLost'
  BY DEF CountInv, NoEventLost, CountLabel
<1>2. \A s \in Counted \cap DeviceSources : Debt(s)' = Debt(s)
  BY DEF Debt, CountLabel
<1> QED BY <1>1, <1>2 DEF CountInv, ClearLabel

LEMMA NextCount == TypeInv /\ CountInv /\ [IsrNext]_isrVars => CountInv'
<1> SUFFICES ASSUME TypeInv, CountInv, [IsrNext]_isrVars PROVE CountInv'
  OBVIOUS
<1>1. CASE Trap \/ TimeReads \/ StoreLow \/ StoreHigh \/ UpdateTick \/ Polls \/ Mret
  <2>1. UNCHANGED <<pending, seq, uncounted, events>>
    BY <1>1 DEF Trap, TimeReads, TimeH1, TimeL1, TimeH2, TimeL2, CompareH, CompareL, Load, StoreLow,
        StoreHigh,
       StoreCompare, UpdateTick, Polls, PollVideo, PollCommand, Poll, Mret, chipsetVars, handlerVars
  <2>2. /\ pc \notin {"count_video", "count_command"} /\ pc' \notin {"count_video", "count_command"}
        /\ pc' = "clear_video" => "Video" \in pending
        /\ pc' = "clear_command" => "Command" \in pending
    BY <1>1 DEF Trap, TimeReads, TimeH1, TimeL1, TimeH2, TimeL2, CompareH, CompareL, Load, StoreLow,
        StoreHigh,
       UpdateTick, Polls, PollVideo, PollCommand, Poll, Mret, Goto, At
  <2> QED BY <2>1, <2>2, OtherCount DEF Counted, ClearLabel, CountLabel
<1>2. CASE Clears
  BY <1>2, ClearsCount DEF Clears, ClearVideo, ClearCommand, ClearLabel, CountLabel, Counted
<1>3. CASE Counts
  BY <1>3, CountsCount DEF Counts, CountVideo, CountCommand, CountLabel, Counted
<1>4. CASE CartridgeStore \/ Tick \/ (CheckStep /\ UNCHANGED <<pc, handlerVars>>) \/ UNCHANGED isrVars
  <2>1. UNCHANGED <<pc, pending, seq, uncounted, events>>
    BY <1>4 DEF CartridgeStore, StoreEnable, Tick, IncrementTimer, CheckStep, LoadFirst, LoadSecond, Act,
       registers, isrVars, chipsetVars, handlerVars
  <2> QED BY <2>1, OtherCount
<1> QED BY <1>1, <1>2, <1>3, <1>4, DeviceCount DEF IsrNext, Handler, TimeReads, Polls, Counts, Clears

(* No event of a device is lost and none is counted twice, for any sources,   *)
(* however the devices interleave with the handler.                           *)
THEOREM EventsCorrect == IsrSpec => []EventsCountedOnce
<1>1. IsrInit => CountInv
  BY DEF IsrInit, CountInv, NoEventLost, Debt, Counted, ClearLabel, CountLabel
<1>2. TypeInv /\ CountInv => EventsCountedOnce
  <2> SUFFICES ASSUME TypeInv, CountInv, NEW s \in Counted \cap DeviceSources PROVE seq[s] <= events[s]
    BY DEF TypeInv, CountInv, EventsCountedOnce, NoEventCountedTwice
  <2>1. seq[s] \in Nat /\ events[s] \in Nat /\ Debt(s) \in Nat /\ seq[s] + Debt(s) <= events[s]
    BY DEF TypeInv, IsrTypeOK, ChipsetTypeOK, CountInv, Debt
  <2> QED BY <2>1
<1> QED BY <1>1, <1>2, InitType, NextType, NextCount, PTL DEF IsrSpec

-----------------------------------------------------------------------------
(* The compare value, label by label: on the grid of periods that started at  *)
(* time 1 except between its two stores, and what the handler has planned for *)
(* it is on the grid and ahead of the time it has read.                       *)
Reading == {"time_l1", "time_h2", "time_l2", "compare_h", "compare_l"}
Storing == {"store_l", "store_h", "tick"}
Planned ==
    /\ local.new % Period = 1 % Period
    /\ local.now < local.new /\ local.new <= local.now + Period
GridInv ==
    /\ pc # "store_h" => compare % Period = 1 % Period /\ compare <= time + Period
    /\ pc \in Reading => compare <= began + Period
    /\ pc = "compare_l" => local.high = High(compare)
    /\ pc \in Storing => Planned
    /\ pc = "store_h" => Low(compare) = Low(local.new)
    /\ pc = "tick" => compare = local.new

LEMMA GridTypes ==
    ASSUME TypeInv
    PROVE  /\ time \in Nat /\ compare \in Nat /\ began \in Nat /\ Period \in Nat \ {0}
           /\ local \in [LocalNames -> Nat] /\ local.now \in Nat /\ local.new \in Nat
           /\ systick \in Nat
BY IsrAssumption DEF TypeInv, IsrTypeOK, ChipsetTypeOK, LocalNames

LEMMA ReadsGrid ==
    ASSUME TypeInv, ReadInv, GridInv, TimeReads
    PROVE  GridInv'
<1>0. /\ time \in Nat /\ compare \in Nat /\ began \in Nat /\ Period \in Nat \ {0}
      /\ local \in [LocalNames -> Nat] /\ local.now \in Nat
  BY GridTypes
<1>1. /\ UNCHANGED <<time, compare>> /\ compare % Period = 1 % Period /\ compare <= time + Period
      /\ began <= time
  BY DEF TimeReads, TimeH1, TimeL1, TimeH2, TimeL2, CompareH, CompareL, Load, At, chipsetVars, GridInv,
      ReadInv
<1>2. CASE TimeH1
  <2>1. began' = time /\ pc' = "time_l1"
    BY <1>2 DEF TimeH1, Load, Goto
  <2> QED BY <1>1, <2>1 DEF GridInv, Storing
<1>3. CASE TimeL1 \/ TimeH2 \/ TimeL2
  <2>1. began' = began /\ pc \in Reading /\ pc' \in {"time_h2", "time_l2", "compare_h"}
    BY <1>3 DEF TimeL1, TimeH2, TimeL2, Load, Goto, At, Reading
  <2> QED BY <1>1, <2>1 DEF GridInv, Storing
<1>4. CASE CompareH
  <2>1. began' = began /\ pc \in Reading /\ pc' = "compare_l" /\ local'.high = High(compare)
    BY <1>0, <1>4 DEF CompareH, Load, Goto, At, Reading, LocalNames
  <2>2. local'.high = High(compare')
    BY <1>1, <2>1
  <2> QED BY <1>1, <2>1, <2>2 DEF GridInv, Storing
<1>5. CASE CompareL
  <2>1. /\ began' = began /\ pc = "compare_l" /\ pc' = "store_l" /\ local'.now = local.now
        /\ local'.new = NewCompare(local.now, Whole(local.high, Low(compare)))
    BY <1>0, <1>5 DEF CompareL, Load, Goto, At, LocalNames
  <2>2. Whole(local.high, Low(compare)) = compare
    BY <1>0, <2>1, Words DEF GridInv
  <2>3. compare <= began + Period /\ local.now \in began..time
    BY <2>1 DEF GridInv, Reading, ReadInv, AfterRead
  <2> DEFINE new == NewCompare(local.now, compare)
  <2>4. /\ new \in Nat /\ new % Period = compare % Period /\ local.now < new
        /\ compare <= local.now => new <= local.now + Period
    BY <1>0, NextTick
  <2>5. ~(compare <= local.now) => new = compare
    BY DEF NewCompare
  <2> HIDE DEF new
  <2>6. new <= local.now + Period
    BY <1>0, <2>3, <2>4, <2>5
  <2>7. local'.new = new
    BY <2>1, <2>2 DEF new
  <2>8. Planned'
    BY <1>1, <2>1, <2>4, <2>6, <2>7 DEF Planned
  <2> QED BY <1>1, <2>1, <2>8 DEF GridInv, Reading
<1> QED BY <1>2, <1>3, <1>4, <1>5 DEF TimeReads

LEMMA StoresGrid ==
    ASSUME TypeInv, ReadInv, GridInv, StoreLow \/ StoreHigh
    PROVE  GridInv'
<1>0. /\ time \in Nat /\ compare \in Nat /\ began \in Nat /\ Period \in Nat \ {0} /\ local.now \in Nat
      /\ local.new \in Nat
  BY GridTypes
<1>1. /\ High(compare) \in Nat /\ Low(compare) \in Nat /\ Low(compare) < WordSize
      /\ High(local.new) \in Nat /\ Low(local.new) \in Nat /\ Low(local.new) < WordSize
  BY <1>0, Words
<1>2. UNCHANGED <<time, local, began>> /\ pc \in Storing
  BY DEF StoreLow, StoreHigh, StoreCompare, handlerVars, Storing
<1>3. Planned /\ local.now \in began..time
  BY <1>2 DEF GridInv, ReadInv, AfterRead, Storing
<1>4. Planned'
  BY <1>2, <1>3 DEF Planned
<1>5. CASE StoreLow
  <2>1. pc' = "store_h" /\ compare' = Whole(High(compare), Low(local.new))
    BY <1>5 DEF StoreLow, StoreCompare, Goto
  <2>2. Low(Whole(High(compare), Low(local.new))) = Low(local.new)
    BY <1>1, WordsOf
  <2>3. Low(compare') = Low(local'.new)
    BY <1>2, <2>1, <2>2
  <2> QED BY <1>4, <2>1, <2>3 DEF GridInv, Reading, Low
<1>6. CASE StoreHigh
  <2>1. pc = "store_h" /\ pc' = "tick" /\ compare' = Whole(High(local.new), Low(compare))
    BY <1>6 DEF StoreHigh, StoreCompare, Goto
  <2>2. Low(compare) = Low(local.new)
    BY <2>1 DEF GridInv
  <2>3. compare' = local.new
    BY <1>0, <2>1, <2>2, Words
  <2>4. compare' % Period = 1 % Period /\ compare' <= time' + Period
    BY <1>0, <1>2, <1>3, <2>3 DEF Planned
  <2> QED BY <1>2, <1>4, <2>1, <2>3, <2>4 DEF GridInv, Reading
<1> QED BY <1>5, <1>6

(* A step after which the handler neither reads nor programs the clock.       *)
LEMMA AwayGrid ==
    ASSUME TypeInv, GridInv, UNCHANGED <<time, compare>>, pc # "store_h",
           pc' \notin Reading \cup Storing
    PROVE  GridInv'
BY DEF GridInv, Reading, Storing

(* A step of the clock or of the devices.                                     *)
LEMMA KeptGrid ==
    ASSUME TypeInv, GridInv, UNCHANGED <<pc, local, began, compare>>, time' = time \/ time' = time + 1
    PROVE  GridInv'
<1>1. time \in Nat /\ compare \in Nat /\ Period \in Nat
  BY GridTypes
<1>2. compare <= time + Period => compare' <= time' + Period
  BY <1>1
<1>3. Planned' = Planned
  BY DEF Planned
<1> QED BY <1>2, <1>3 DEF GridInv, Low, High

(* The steps of each kind, and what they leave alone.                         *)
Away == Trap \/ UpdateTick \/ Polls \/ Clears \/ Counts \/ Mret
Beside == CartridgeStore \/ Tick \/ DeviceEvent \/ (CheckStep /\ UNCHANGED <<pc, handlerVars>>)
          \/ UNCHANGED isrVars
LEMMA AwayKeeps ==
    ASSUME Away
    PROVE  /\ UNCHANGED <<time, compare, serial>>
           /\ pc # "store_h" /\ pc \notin Reading \cup {"time_h1", "store_l"}
           /\ pc' \notin Reading \cup Storing
BY DEF Away, Trap, UpdateTick, Polls, PollVideo, PollCommand, Poll, Clears, ClearVideo, ClearCommand, Clear,
   StoreInterruptPending, Counts, CountVideo, CountCommand, Count, Mret, At, Goto, Reading, Storing,
   chipsetVars, handlerVars
LEMMA BesideKeeps ==
    ASSUME Beside
    PROVE  UNCHANGED <<pc, local, began, compare, systick, serial>> /\ time' \in {time, time + 1}
BY DEF Beside, CartridgeStore, StoreEnable, Tick, IncrementTimer, DeviceEvent, SetInterruptPending,
   CheckStep, LoadFirst, LoadSecond, Act, registers, isrVars, chipsetVars, handlerVars

LEMMA NextKinds ==
    ASSUME [IsrNext]_isrVars
    PROVE  TimeReads \/ StoreLow \/ StoreHigh \/ Away \/ Beside
BY DEF IsrNext, Handler, TimeReads, Away, Beside, Polls, Clears, Counts

LEMMA NextGrid == TypeInv /\ ReadInv /\ GridInv /\ [IsrNext]_isrVars => GridInv'
<1> SUFFICES ASSUME TypeInv, ReadInv, GridInv, [IsrNext]_isrVars PROVE GridInv'
  OBVIOUS
<1>1. CASE Away
  BY <1>1, AwayKeeps, AwayGrid
<1>2. CASE Beside
  BY <1>2, BesideKeeps, KeptGrid
<1> QED BY <1>1, <1>2, NextKinds, ReadsGrid, StoresGrid

LEMMA InitGrid == IsrInit => GridInv
<1> SUFFICES ASSUME IsrInit PROVE GridInv
  OBVIOUS
<1>1. Period \in Nat \ {0}
  BY IsrAssumption
<1>2. pc = "user" /\ compare = 1 /\ time = 0
  BY DEF IsrInit
<1> QED BY <1>1, <1>2 DEF GridInv, Reading, Storing

LEMMA OnGrid == TypeInv /\ GridInv => CompareOnGrid
BY DEF GridInv, Planned, CompareOnGrid, Storing

-----------------------------------------------------------------------------
(* One thread does everything: a check in progress has loaded what is still   *)
(* in the registers, and a line that no check is about is right.              *)
Sound(c) ==
    /\ c.at \in {"first", "second", "act"}
    /\ c.at = "second" => c.loaded \in DOMAIN Registers(c.line) /\ c.value = Registers(c.line)[c.loaded]
    /\ c.at = "act" => (c.set <=> Raises(c.line, Registers(c.line)))
RightLine(line) == line \in mip <=> Raises(line, Registers(line))
LineInv ==
    serial =>
        /\ \A t, u \in Threads : ~Done(t) /\ ~Done(u) => t = u
        /\ \A t \in Threads : ~Done(t) => Sound(check[t])
        /\ \A line \in Lines : (\A t \in Threads : Done(t) \/ check[t].line # line) => RightLine(line)

LEMMA InitLine == IsrInit => LineInv
<1> SUFFICES ASSUME IsrInit PROVE LineInv
  OBVIOUS
<1>1. \A t \in Threads : Done(t)
  BY DEF IsrInit, Done
<1>2. enable = {} /\ pending = {} /\ mip = {} /\ time = 0 /\ compare = 1
  BY DEF IsrInit
<1>3. RightLine("Timer") /\ RightLine("External")
  BY <1>2 DEF RightLine, Raises, Registers
<1> QED BY <1>1, <1>3 DEF LineInv, Lines

(* A store or an event begins the check of the line its register feeds.       *)
LEMMA BegunLine ==
    ASSUME TypeInv, LineInv, NEW t \in Threads, NEW line \in Lines, MayStart(t), BeginCheck(t, line),
           UNCHANGED <<serial, mip>>,
           line = "Timer" => UNCHANGED <<enable, pending>>,
           line = "External" => UNCHANGED <<time, compare>>
    PROVE  LineInv'
<1> SUFFICES ASSUME serial PROVE LineInv'
  BY DEF LineInv
<1>1. \A u \in Threads : Done(u)
  BY DEF MayStart
<1>2. check = [u \in Threads |-> check[u]]
  BY DEF TypeInv
<1>3. check'[t] = [line |-> line, at |-> "first"] /\ \A u \in Threads \ {t} : check'[u] = check[u]
  BY <1>2 DEF BeginCheck
<1>4. check'[t].line = line /\ check'[t].at = "first"
  BY <1>3
<1>5. ~Done(t)' /\ \A u \in Threads \ {t} : Done(u)'
  BY <1>1, <1>3, <1>4 DEF Done, NoCheck, Lines
<1>6. Sound(check[t])'
  BY <1>4 DEF Sound
<1>7. ASSUME NEW l \in Lines, l # line PROVE RightLine(l)'
  <2>1. RightLine(l)
    BY <1>1 DEF LineInv
  <2>2. Registers(l)' = Registers(l)
    BY <1>7 DEF Registers, Lines
  <2> QED BY <2>1, <2>2 DEF RightLine, Raises
<1> QED BY <1>4, <1>5, <1>6, <1>7 DEF LineInv

LEMMA SameLine ==
    ASSUME LineInv, UNCHANGED chipsetVars
    PROVE  LineInv'
BY DEF LineInv, chipsetVars, Done, Sound, Registers, Raises, RightLine

(* One thread is in a check of one line, or has just ended it.                *)
LEMMA OneChecks ==
    ASSUME NEW t \in Threads, NEW line \in Lines, \A u \in Threads \ {t} : Done(u)',
           Done(t)' => RightLine(line)',
           ~Done(t)' => Sound(check[t])' /\ check'[t].line = line,
           \A l \in Lines \ {line} : RightLine(l)'
    PROVE  LineInv'
<1>1. (\A t1, u \in Threads : ~Done(t1) /\ ~Done(u) => t1 = u)'
  OBVIOUS
<1>2. (\A t1 \in Threads : ~Done(t1) => Sound(check[t1]))'
  OBVIOUS
<1>3. ASSUME NEW l \in Lines, \A t1 \in Threads : Done(t1)' \/ check'[t1].line # l
      PROVE  RightLine(l)'
  BY <1>3
<1> QED BY <1>1, <1>2, <1>3 DEF LineInv

LEMMA CheckLine ==
    ASSUME TypeInv, LineInv, CheckStep
    PROVE  LineInv'
<1>1. PICK t \in Threads : LoadFirst(t) \/ LoadSecond(t) \/ Act(t)
  BY DEF CheckStep
<1>2. UNCHANGED registers /\ ~Done(t) /\ check = [u \in Threads |-> check[u]]
  BY <1>1 DEF LoadFirst, LoadSecond, Act, TypeInv
<1> SUFFICES ASSUME serial PROVE LineInv'
  BY <1>2 DEF registers, LineInv
<1>3. Sound(check[t]) /\ check[t].line \in Lines /\ \A u \in Threads \ {t} : Done(u)
  BY <1>2 DEF LineInv, TypeInv, IsrTypeOK, ChipsetTypeOK
<1>4. PICK line \in Lines : line = check[t].line
  BY <1>3
<1>5. \A l \in Lines \ {line} : RightLine(l)
  BY <1>3, <1>4 DEF LineInv
<1>6. \A l : Registers(l)' = Registers(l)
  BY <1>2 DEF registers, Registers
<1>7. \A u \in Threads \ {t} : check'[u] = check[u]
  BY <1>1, <1>2 DEF LoadFirst, LoadSecond, Act
<1>8. \A u \in Threads \ {t} : Done(u)'
  BY <1>3, <1>7 DEF Done
<1>9. CASE LoadFirst(t)
  <2>1. PICK reg \in DOMAIN Registers(line) :
           check' = [check EXCEPT ![t] = [line |-> line, at |-> "second", loaded |-> reg,
                                          value |-> Registers(line)[reg]]]
    BY <1>4, <1>9 DEF LoadFirst
  <2>2. /\ check'[t].line = line /\ check'[t].at = "second" /\ check'[t].loaded = reg
        /\ check'[t].value = Registers(line)[reg] /\ mip' = mip
    BY <1>2, <1>9, <2>1 DEF LoadFirst
  <2>3. Sound(check[t])'
    BY <1>6, <2>1, <2>2 DEF Sound
  <2>4. \A l \in Lines \ {line} : RightLine(l)'
    BY <1>5, <1>6, <2>2 DEF RightLine, Raises
  <2>5. ~Done(t)'
    BY <1>2, <2>1 DEF Done, NoCheck
  <2> QED BY <1>8, <2>2, <2>3, <2>4, <2>5, OneChecks
<1>10. CASE LoadSecond(t)
  <2> DEFINE r == Registers(line)
             both == [r EXCEPT ![check[t].loaded] = check[t].value]
  <2>1. check[t].at = "second" /\ mip' = mip
        /\ check' = [check EXCEPT ![t] = [line |-> line, at |-> "act", set |-> Raises(line, both)]]
    BY <1>4, <1>10 DEF LoadSecond
  <2>2. check[t].loaded \in DOMAIN r /\ check[t].value = r[check[t].loaded]
    BY <1>3, <1>4, <2>1 DEF Sound
  <2>3. both = r
    BY <2>2 DEF Registers, Lines
  <2>4. check'[t] = [line |-> line, at |-> "act", set |-> Raises(line, r)]
    BY <1>2, <2>1, <2>3
  <2>5. check'[t].line = line /\ check'[t].at = "act" /\ check'[t].set = Raises(line, r)
    BY <2>4
  <2>6. Sound(check[t])'
    BY <1>6, <2>5 DEF Sound, Raises
  <2>7. \A l \in Lines \ {line} : RightLine(l)'
    BY <1>5, <1>6, <2>1 DEF RightLine, Raises
  <2>8. ~Done(t)'
    BY <2>4 DEF Done, NoCheck
  <2> QED BY <1>8, <2>5, <2>6, <2>7, <2>8, OneChecks
<1>11. CASE Act(t)
  <2>1. /\ check[t].at = "act" /\ check'[t] = NoCheck
        /\ mip' = IF check[t].set THEN mip \cup {line} ELSE mip \ {line}
    BY <1>2, <1>4, <1>11 DEF Act
  <2>2. check[t].set <=> Raises(line, Registers(line))
    BY <1>3, <1>4, <2>1 DEF Sound
  <2>3. line \in mip' <=> Raises(line, Registers(line))
    BY <2>1, <2>2
  <2>4. \A l : l # line => (l \in mip' <=> l \in mip)
    BY <2>1
  <2>5. RightLine(line)'
    BY <1>6, <2>3 DEF RightLine, Raises
  <2>6. \A l \in Lines \ {line} : RightLine(l)'
    BY <1>5, <1>6, <2>4 DEF RightLine, Raises
  <2>7. Done(t)'
    BY <2>1 DEF Done
  <2> QED BY <1>8, <2>5, <2>6, <2>7, OneChecks
<1> QED BY <1>1, <1>9, <1>10, <1>11

LEMMA NextLine == TypeInv /\ LineInv /\ [IsrNext]_isrVars => LineInv'
<1> SUFFICES ASSUME TypeInv, LineInv, [IsrNext]_isrVars PROVE LineInv'
  OBVIOUS
<1>1. CASE TimeReads \/ Trap \/ UpdateTick \/ Polls \/ Counts \/ Mret \/ UNCHANGED isrVars
  <2>1. UNCHANGED chipsetVars
    BY <1>1 DEF TimeReads, TimeH1, TimeL1, TimeH2, TimeL2, CompareH, CompareL, Load, Trap, UpdateTick, Polls,
       PollVideo, PollCommand, Poll, Counts, CountVideo, CountCommand, Count, Mret, isrVars
  <2> QED BY <2>1, SameLine
<1>2. CASE StoreLow \/ StoreHigh
  <2>1. MayStart("cpu") /\ BeginCheck("cpu", "Timer") /\ UNCHANGED <<serial, mip, enable, pending>>
    BY <1>2 DEF StoreLow, StoreHigh, StoreCompare
  <2> QED BY <2>1, BegunLine DEF Threads, Lines
<1>3. CASE Clears \/ CartridgeStore
  <2>1. MayStart("cpu") /\ BeginCheck("cpu", "External") /\ UNCHANGED <<serial, mip, time, compare>>
    BY <1>3 DEF Clears, ClearVideo, ClearCommand, Clear, StoreInterruptPending, CartridgeStore, StoreEnable
  <2> QED BY <2>1, BegunLine DEF Threads, Lines
<1>4. CASE Tick
  <2>1. MayStart("timer") /\ BeginCheck("timer", "Timer") /\ UNCHANGED <<serial, mip, enable, pending>>
    BY <1>4 DEF Tick, IncrementTimer
  <2> QED BY <2>1, BegunLine DEF Threads, Lines
<1>5. CASE DeviceEvent
  <2>1. MayStart("ui") /\ BeginCheck("ui", "External") /\ UNCHANGED <<serial, mip, time, compare>>
    BY <1>5 DEF DeviceEvent, SetInterruptPending
  <2> QED BY <2>1, BegunLine DEF Threads, Lines
<1> QED BY <1>1, <1>2, <1>3, <1>4, <1>5, CheckLine DEF IsrNext, Handler, TimeReads, Polls, Counts, Clears

LEMMA SettledLines ==
    ASSUME TypeInv, LineInv, serial, \A t \in Threads : Done(t)
    PROVE  /\ "External" \in mip <=> enable \cap pending # {}
           /\ "Timer" \in mip <=> time >= compare
BY DEF LineInv, RightLine, Raises, Registers, Lines

-----------------------------------------------------------------------------
(* The firmware's clock, when one thread does everything: the next tick is    *)
(* never before its period, and the handler of the timer runs only once the   *)
(* compare value has been reached.                                            *)
Before == Reading \cup {"time_h1"}
Due(n) == n * Period + 1
TickInv ==
    serial =>
        /\ systick = 0 \/ Due(systick - 1) <= time
        /\ pc \notin Storing => Due(systick) <= compare
        /\ pc \in Before => compare <= time
        /\ pc \in Reading => compare <= began
        /\ pc \in Storing => Due(systick) <= time /\ Due(systick + 1) <= local.new

LEMMA Dues ==
    ASSUME NEW n \in Nat
    PROVE  /\ Due(n) \in Nat /\ Due(n + 1) = Due(n) + Period
           /\ n # 0 => Due(n - 1) \in Nat
<1>1. Period \in Nat
  BY IsrAssumption
<1>2. n * Period \in Nat /\ (n + 1) * Period = n * Period + Period /\ (n # 0 => (n - 1) * Period \in Nat)
  BY <1>1, Products
<1> QED BY <1>1, <1>2 DEF Due

(* Before a tick is counted, its time has come.                               *)
LEMMA DueByNow ==
    ASSUME NEW n \in Nat, NEW t \in Nat, n # 0, Due(n - 1) <= t
    PROVE  t # 0 /\ n <= 1 + (t - 1) \div Period
<1>1. Period \in Nat \ {0}
  BY IsrAssumption
<1>2. PICK k \in Nat : k = n - 1
  OBVIOUS
<1>3. k * Period \in Nat /\ k * Period + 1 <= t
  BY <1>1, <1>2, Products DEF Due
<1>4. t # 0 /\ t - 1 \in Nat /\ k * Period <= t - 1
  BY <1>3
<1> DEFINE q == (t - 1) \div Period  r == (t - 1) % Period
<1>5. q \in Nat /\ r \in Nat /\ r < Period /\ t - 1 = q * Period + r
  BY <1>1, <1>4
<1>6. ASSUME q + 1 <= k PROVE FALSE
  <2>1. (q + 1) * Period <= k * Period /\ (q + 1) * Period = q * Period + Period
    BY <1>1, <1>5, <1>6, Products
  <2>2. q * Period \in Nat
    BY <1>1, <1>5, Products
  <2> HIDE DEF q, r
  <2> QED BY <1>1, <1>3, <1>4, <1>5, <2>1, <2>2
<1> HIDE DEF q, r
<1>7. k <= q
  BY <1>5, <1>6
<1> QED BY <1>2, <1>4, <1>5, <1>7 DEF q

LEMMA TrapTick ==
    ASSUME TypeInv, LineInv, TickInv, Trap
    PROVE  TickInv'
<1> SUFFICES ASSUME serial PROVE TickInv'
  BY DEF TickInv, Trap, chipsetVars
<1>1. /\ pc = "user" /\ UNCHANGED <<time, compare, local, systick, began>>
      /\ pc' = (IF "External" \in mip THEN "poll_video" ELSE "time_h1")
      /\ mip # {} /\ \A t \in Threads : Done(t)
  BY DEF Trap, At, Goto, MayStart, chipsetVars
<1>2. mip \subseteq Lines
  BY DEF TypeInv, IsrTypeOK, ChipsetTypeOK
<1>3. pc' = "time_h1" => compare <= time
  <2>1. time \in Nat /\ compare \in Nat
    BY GridTypes
  <2>2. "Timer" \in mip => time >= compare
    BY <1>1, SettledLines
  <2>3. pc' = "time_h1" => "Timer" \in mip
    BY <1>1, <1>2 DEF Lines
  <2> QED BY <2>1, <2>2, <2>3
<1>4. (systick = 0 \/ Due(systick - 1) <= time) /\ Due(systick) <= compare
  BY <1>1 DEF TickInv, Storing
<1> QED BY <1>1, <1>3, <1>4 DEF TickInv, Before, Reading, Storing, Due

LEMMA ReadsTick ==
    ASSUME TypeInv, ReadInv, GridInv, TickInv, TimeReads
    PROVE  TickInv'
<1> SUFFICES ASSUME serial PROVE TickInv'
  BY DEF TickInv, TimeReads, TimeH1, TimeL1, TimeH2, TimeL2, CompareH, CompareL, Load, chipsetVars
<1>0. /\ time \in Nat /\ compare \in Nat /\ began \in Nat /\ Period \in Nat \ {0}
      /\ local \in [LocalNames -> Nat] /\ local.now \in Nat /\ systick \in Nat
  BY GridTypes
<1>1. UNCHANGED <<time, compare, systick>> /\ pc \in Before
  BY DEF TimeReads, TimeH1, TimeL1, TimeH2, TimeL2, CompareH, CompareL, Load, At, chipsetVars, Before, Reading
<1>2. (systick = 0 \/ Due(systick - 1) <= time) /\ Due(systick) <= compare /\ compare <= time
  BY <1>1 DEF TickInv, Before, Reading, Storing
<1>3. (systick' = 0 \/ Due(systick' - 1) <= time') /\ Due(systick') <= compare' /\ compare' <= time'
  BY <1>1, <1>2
<1>4. CASE TimeH1
  <2>1. pc' = "time_l1" /\ began' = time
    BY <1>4 DEF TimeH1, Load, Goto
  <2> QED BY <1>1, <1>2, <1>3, <2>1 DEF TickInv, Storing, Due
<1>5. CASE TimeL1 \/ TimeH2 \/ TimeL2 \/ CompareH
  <2>1. pc' \in {"time_h2", "time_l2", "compare_h", "compare_l"} /\ began' = began /\ pc \in Reading
    BY <1>5 DEF TimeL1, TimeH2, TimeL2, CompareH, Load, Goto, At, Reading
  <2>2. compare' <= began'
    BY <1>1, <2>1 DEF TickInv
  <2> QED BY <1>3, <2>1, <2>2 DEF TickInv, Storing, Due
<1>6. CASE CompareL
  <2>1. /\ pc = "compare_l" /\ pc' = "store_l"
        /\ local'.new = NewCompare(local.now, Whole(local.high, Low(compare)))
    BY <1>0, <1>6 DEF CompareL, Load, Goto, At, LocalNames
  <2>2. Whole(local.high, Low(compare)) = compare
    BY <1>0, <2>1, Words DEF GridInv
  <2>3. local.now \in began..time /\ compare <= began
    BY <2>1 DEF ReadInv, AfterRead, TickInv, Reading
  <2>4. compare <= local.now
    BY <1>0, <2>3
  <2>5. NewCompare(local.now, compare) \in Nat /\ compare + Period <= NewCompare(local.now, compare)
    BY <1>0, <2>4, NextTick
  <2>6. Due(systick) \in Nat /\ Due(systick + 1) = Due(systick) + Period
    BY <1>0, Dues
  <2>7. Due(systick) <= time /\ Due(systick + 1) <= NewCompare(local.now, compare)
    BY <1>0, <1>2, <2>5, <2>6
  <2>8. Due(systick') <= time' /\ Due(systick' + 1) <= local'.new
    BY <1>1, <2>1, <2>2, <2>7
  <2> QED BY <1>3, <2>1, <2>8 DEF TickInv, Before, Reading, Storing, Due
<1> QED BY <1>4, <1>5, <1>6 DEF TimeReads

LEMMA StoresTick ==
    ASSUME TickInv, StoreLow \/ StoreHigh
    PROVE  TickInv'
<1>1. /\ UNCHANGED <<time, local, systick, serial>> /\ pc \in Storing /\ pc' \in {"store_h", "tick"}
  BY DEF StoreLow, StoreHigh, StoreCompare, Goto, handlerVars, Storing
<1> QED BY <1>1 DEF TickInv, Storing, Before, Reading, Due

LEMMA CountTick ==
    ASSUME TypeInv, GridInv, TickInv, UpdateTick
    PROVE  TickInv'
<1>1. /\ pc = "tick" /\ pc' = "poll_video" /\ systick' = systick + 1
      /\ UNCHANGED <<time, compare, local, serial>>
  BY DEF UpdateTick, At, Goto, chipsetVars
<1>2. systick \in Nat /\ compare = local.new
  BY <1>1, GridTypes DEF GridInv
<1> SUFFICES ASSUME serial PROVE TickInv'
  BY <1>1 DEF TickInv
<1>3. Due(systick) <= time /\ Due(systick + 1) <= compare
  BY <1>1, <1>2 DEF TickInv, Storing
<1>4. systick' - 1 = systick
  BY <1>1, <1>2
<1>5. Due(systick' - 1) <= time' /\ Due(systick') <= compare'
  BY <1>1, <1>3, <1>4
<1> QED BY <1>1, <1>5 DEF TickInv, Storing, Before, Reading, Due

(* The other steps of the handler, and the steps beside it.                   *)
LEMMA OtherTick ==
    ASSUME TypeInv, TickInv, UNCHANGED <<serial, compare, systick>>,
           \/ UNCHANGED time /\ pc \notin Storing /\ pc' \notin Before \cup Storing
           \/ UNCHANGED <<pc, local, began>> /\ time' \in {time, time + 1}
    PROVE  TickInv'
<1> SUFFICES ASSUME serial PROVE TickInv'
  BY DEF TickInv
<1>1. time \in Nat /\ compare \in Nat /\ began \in Nat /\ systick \in Nat /\ local.new \in Nat
  BY GridTypes
<1>2. systick = 0 \/ Due(systick - 1) <= time
  BY DEF TickInv
<1>3. Due(systick) \in Nat /\ (systick # 0 => Due(systick - 1) \in Nat)
  BY <1>1, Dues
<1>4. CASE UNCHANGED time /\ pc \notin Storing /\ pc' \notin Before \cup Storing
  <2>1. Due(systick) <= compare
    BY <1>4 DEF TickInv
  <2> QED BY <1>2, <1>4, <2>1 DEF TickInv, Before, Due
<1>5. CASE UNCHANGED <<pc, local, began>> /\ time' \in {time, time + 1}
  <2>1. \A n \in Nat : n <= time => n <= time'
    BY <1>1, <1>5
  <2>2. systick' = 0 \/ Due(systick' - 1) <= time'
    BY <1>2, <1>3, <2>1
  <2>3. (pc' \notin Storing => Due(systick') <= compare') /\ (pc' \in Reading => compare' <= began')
    BY <1>5 DEF TickInv
  <2>4. pc' \in Before => compare' <= time'
    BY <1>1, <1>5, <2>1 DEF TickInv
  <2>5. pc' \in Storing => Due(systick') <= time' /\ Due(systick' + 1) <= local'.new
    BY <1>3, <1>5, <2>1 DEF TickInv
  <2> QED BY <2>2, <2>3, <2>4, <2>5 DEF TickInv, Due
<1> QED BY <1>4, <1>5

LEMMA NextTicks ==
    TypeInv /\ ReadInv /\ GridInv /\ LineInv /\ TickInv /\ [IsrNext]_isrVars => TickInv'
<1> SUFFICES ASSUME TypeInv, ReadInv, GridInv, LineInv, TickInv, [IsrNext]_isrVars PROVE TickInv'
  OBVIOUS
<1>1. CASE Polls \/ Clears \/ Counts \/ Mret
  <2>1. UNCHANGED <<time, compare, serial, systick>>
    BY <1>1 DEF Polls, PollVideo, PollCommand, Poll, Clears, ClearVideo, ClearCommand, Clear,
       StoreInterruptPending, Counts, CountVideo, CountCommand, Count, Mret, chipsetVars, handlerVars
  <2>2. pc \notin Storing /\ pc' \notin Before \cup Storing
    BY <1>1 DEF Polls, PollVideo, PollCommand, Poll, Clears, ClearVideo, ClearCommand, Clear,
       Counts, CountVideo, CountCommand, Count, Mret, At, Goto, Before, Reading, Storing
  <2> QED BY <2>1, <2>2, OtherTick
<1>2. CASE Beside
  BY <1>2, BesideKeeps, OtherTick
<1> QED BY <1>1, <1>2, NextKinds, TrapTick, ReadsTick, StoresTick, CountTick DEF Away

LEMMA InitTicks == IsrInit => TickInv
<1> SUFFICES ASSUME IsrInit PROVE TickInv
  OBVIOUS
<1>1. pc = "user" /\ compare = 1 /\ systick = 0 /\ Period \in Nat
  BY IsrAssumption DEF IsrInit
<1>2. Due(systick) = 1
  BY <1>1 DEF Due
<1> QED BY <1>1, <1>2 DEF TickInv, Before, Reading, Storing

(* The next tick is always on the grid of periods, for any period, word size  *)
(* and delay; and when one thread does everything the firmware's clock never  *)
(* runs ahead of the machine's, and the interrupt lines say what the          *)
(* registers say.                                                             *)
THEOREM ClockCorrect == IsrSpec => []ClockAndLinesRight
<1> DEFINE Inv == TypeInv /\ ReadInv /\ GridInv /\ LineInv /\ TickInv
<1>1. IsrInit => Inv
  <2>1. IsrInit => ReadInv
    BY DEF IsrInit, ReadInv, AfterRead
  <2> QED BY <2>1, InitType, InitGrid, InitLine, InitTicks
<1>2. Inv /\ [IsrNext]_isrVars => Inv'
  BY NextType, NextRead, NextGrid, NextLine, NextTicks
<1>3. Inv => ClockAndLinesRight
  <2> SUFFICES ASSUME Inv PROVE ClockAndLinesRight
    OBVIOUS
  <2>1. CompareOnGrid
    BY OnGrid
  <2>2. ASSUME serial PROVE LinesSettle
    BY <2>2, SettledLines DEF LinesSettle
  <2>3. ASSUME serial PROVE NoExtraTick
    <3>1. time \in Nat /\ systick \in Nat /\ Period \in Nat \ {0}
      BY GridTypes
    <3>2. CASE systick = 0
      <4>1. time # 0 => (time - 1) \div Period \in Nat
        BY <3>1
      <4> QED BY <3>1, <3>2, <4>1 DEF NoExtraTick, TicksDue
    <3>3. CASE systick # 0
      <4>1. Due(systick - 1) <= time
        BY <2>3, <3>3 DEF TickInv
      <4> QED BY <3>1, <3>3, <4>1, DueByNow DEF NoExtraTick, TicksDue
    <3> QED BY <3>2, <3>3
  <2> QED BY <2>1, <2>2, <2>3 DEF ClockAndLinesRight
<1> HIDE DEF Inv
<1> QED BY <1>1, <1>2, <1>3, PTL DEF IsrSpec

=============================================================================
