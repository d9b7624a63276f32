----------------------------- MODULE CodeCache -----------------------------
(* The simulator's instruction cache                                          *)
(* (riscv-sim/src/RISCVBlockInstructionCache.cpp). Sub-blocks of decoded      *)
(* instructions are hashed by their address; a block lists the sub-blocks     *)
(* from an address on, and a fetch first looks in the current sub-block, then *)
(* in the current block. A block starts wherever the first miss was, so       *)
(* blocks overlap; they share their sub-blocks. Addresses count words.        *)
EXTENDS Integers

CONSTANTS
    SubSize,     \* words in a sub-block (256)
    SubCount,    \* sub-blocks in a block (4)
    SubTotal,    \* sub-blocks in the address space (2^22), where addresses wrap
    None         \* no instruction: an empty pointer

WordCount == SubSize * SubTotal
Addresses32 == 0..WordCount-1
BlockSize == SubSize * SubCount

ASSUME CacheAssumption ==
    /\ {SubSize, SubCount, SubTotal} \subseteq Nat \ {0}
    /\ SubCount < SubTotal

EmptySub == [i \in 0..SubSize-1 |-> None]
BlockSubs(base) == {(base + k * SubSize) % WordCount : k \in 0..SubCount-1}

(* A cache c: the base addresses of DCurrentBlock and DCurrentSubBlock, and   *)
(* DHashedSubBlocks, the instructions of each sub-block there is. GetBlock    *)
(* finds a block or makes it, with those of its sub-blocks that are missing.  *)
WithBlock(subs, base) ==
    [b \in DOMAIN subs \cup BlockSubs(base) |-> IF b \in DOMAIN subs THEN subs[b] ELSE EmptySub]
NewCache == [block |-> 0, sub |-> 0, subs |-> WithBlock(<<>>, 0)]

SubBlockAddr(addr) == addr - (addr % SubSize)
Leaves(block, addr) ==
    block > SubBlockAddr(addr) \/ SubBlockAddr(addr) >= (block + BlockSize) % WordCount

(* What Fetch and Insert share: the current block and sub-block follow the    *)
(* address.                                                                   *)
BlockFor(c, addr) ==
    IF c.sub # SubBlockAddr(addr) /\ Leaves(c.block, addr) THEN SubBlockAddr(addr) ELSE c.block
SubFor(c, addr) ==
    IF c.sub = SubBlockAddr(addr) THEN c.sub
    ELSE LET index == (SubBlockAddr(addr) - BlockFor(c, addr)) \div SubSize
         IN (BlockFor(c, addr) + index * SubSize) % WordCount
Followed(c, addr) ==
    [block |-> BlockFor(c, addr), sub |-> SubFor(c, addr),
     subs |-> WithBlock(c.subs, BlockFor(c, addr))]

Fetch(c, addr) == LET f == Followed(c, addr) IN f.subs[f.sub][addr % SubSize]
Insert(c, addr, inst) ==
    LET f == Followed(c, addr) IN [f EXCEPT !.subs[f.sub][addr % SubSize] = inst]

(* FlushRange clears every sub-block that touches the range or borders on it. *)
FlushRange(c, addr, size) ==
    [c EXCEPT !.subs = [b \in DOMAIN @ |->
        IF b + SubSize < addr \/ addr + size < b THEN @[b] ELSE EmptySub]]

=============================================================================
