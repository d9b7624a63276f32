----------------------------- MODULE MemoryMap -----------------------------
(* The simulator's memory (riscv-sim/src/MemoryControllerDevice.cpp): the     *)
(* highest bits of an address choose a device, RAM, flash or the chipset's    *)
(* block of registers (RegisterBlockMemoryDevice.cpp), and every device has   *)
(* an access of each width, and one for blocks that DMA and the window use.   *)
(* Bytes are 0 or 1.                                                          *)
EXTENDS Integers, Sequences

CONSTANTS
    RegionSize,   \* bytes in a region (2^28), a multiple of 4
    DeviceSizes,        \* bytes of the device in each region, a function from 0 on
    RamRegion, FlashRegion, BlockRegion,
    Fixed,        \* registers that a store leaves alone,
    Acknowledge,  \* and those where it clears the bits that are 1
    Tried,    \* the addresses that are tried,
    Patterns,     \* the blocks that are stored there,
    MaxStores     \* and the bound on how many are

(* Every byte of the devices is tried, and behind the registers is nothing.   *)
ASSUME MapAssumption ==
    /\ DOMAIN DeviceSizes = {RamRegion, FlashRegion, BlockRegion}
    /\ RamRegion # FlashRegion /\ RamRegion # BlockRegion /\ FlashRegion # BlockRegion
    /\ RegionSize \in Nat \ {0} /\ RegionSize % 4 = 0 /\ DeviceSizes[BlockRegion] % 4 = 0
    /\ \A r \in DOMAIN DeviceSizes :
          /\ r \in Nat /\ DeviceSizes[r] \in 1..RegionSize
          /\ r * RegionSize..r * RegionSize + DeviceSizes[r] - 1 \subseteq Tried
    /\ DeviceSizes[BlockRegion] < RegionSize \/ BlockRegion + 1 \notin DOMAIN DeviceSizes
    /\ Tried \subseteq Nat /\ Patterns \subseteq Seq({0, 1}) \ {<<>>}

VARIABLES
    bytes,    \* the contents of the devices, by address,
    flat,     \* history: and of a memory of plain bytes under the same stores,
    scratch,  \* DScratchRead, by address
    overrun,  \* a block of bytes went past the vector of registers
    odd,      \* history: of the stores a register does not take byte by byte
    stores

mapVars == <<bytes, flat, scratch, overrun, odd, stores>>

Region(a) == a \div RegionSize
Offset(a) == a % RegionSize
IsIn(a, r) == r \in DOMAIN DeviceSizes /\ Region(a) = r
Places == {a \in Tried : Region(a) \in DOMAIN DeviceSizes /\ Offset(a) < DeviceSizes[Region(a)]}

(* AccessAddress, which looks at the first byte to choose the device, and the *)
(* range check of the device                                                  *)
Inside(a, n) ==
    /\ Region(a) \in DOMAIN DeviceSizes
    /\ Offset(a) < DeviceSizes[Region(a)] /\ Offset(a) + n <= DeviceSizes[Region(a)]

(* vals in the place of the bytes from a on, in memory m *)
Overlay(m, a, vals) ==
    [p \in Places |-> IF p \in a..a + Len(vals) - 1 THEN vals[p - a + 1] ELSE m[p]]

(* what storing the whole word w (a function of its bytes) does to register r *)
RegisterStore(m, r, w) ==
    [p \in Places |->
        IF p \notin r..r+3 \/ r \in Fixed THEN m[p]
        ELSE IF r \in Acknowledge THEN (IF w[p] = 1 THEN 0 ELSE m[p])
        ELSE w[p]]

WordOf(a) == a - (a % 4)
HalfOf(a) == a - (a % 2)
(* StoreUINT16 clears the half at a & 2 and shifts the value by a & 3 bytes. *)
HalfStoreByThree(m, a, vals) ==  \* mutant: clears all bytes from a on, as a mask ~0 would
    RegisterStore(m, WordOf(a), [p \in WordOf(a)..WordOf(a)+3 |->
        IF p \in a..a+1 THEN vals[p - a + 1] ELSE IF p > a + 1 THEN 0 ELSE m[p]])
HalfStore(m, a, vals) ==
    RegisterStore(m, WordOf(a), [p \in WordOf(a)..WordOf(a)+3 |->
        LET kept == IF p \in HalfOf(a)..HalfOf(a)+1 THEN 0 ELSE m[p]
        IN IF p \in a..a+1 /\ vals[p - a + 1] = 1 THEN 1 ELSE kept])

(* StoreUINT8, 16 and 32 of a register block *)
BlockStore(m, a, vals) ==
    CASE Len(vals) = 1 -> RegisterStore(m, WordOf(a), Overlay(m, a, vals))
      [] Len(vals) = 2 -> HalfStore(m, a, vals)
      [] Len(vals) = 4 -> RegisterStore(m, WordOf(a), Overlay(m, WordOf(a), vals))

(* StoreData of a register block: words overlaid with the block, in turn *)
BlockStoreData(m, a, vals) ==
    LET last == WordOf(a + Len(vals) - 1)
        upTo[k \in -1..(last - WordOf(a)) \div 4] ==
            IF k = -1 THEN m
            ELSE RegisterStore(upTo[k-1], WordOf(a) + 4 * k, Overlay(upTo[k-1], a, vals))
    IN upTo[(last - WordOf(a)) \div 4]

(* LoadData of a register block: the registers it reads into the scratch      *)
(* buffer, and whether they run past the last one; only the first byte is     *)
(* checked to be in the block.                                                *)
WordsRead(a, n) == (n + 3) \div 4 + (IF (a + n) % 4 # 0 THEN 1 ELSE 0)
ReadBytes(a, n) == WordOf(a)..WordOf(a) + 4 * WordsRead(a, n) - 1

-----------------------------------------------------------------------------
(* What a load of n bytes returns: from a register block its byte, the half   *)
(* at a & 2 or the whole register of the address; LoadData copies registers   *)
(* into the scratch buffer and returns a part of that.                        *)
Take(m, a, n) == [k \in 1..n |-> m[a + k - 1]]
LoadOf(a, n) == Take(bytes, IF IsIn(a, BlockRegion) THEN a - (a % n) ELSE a, n)
Refreshed(a, n) == [p \in DOMAIN scratch |-> IF p \in ReadBytes(a, n) THEN bytes[p] ELSE scratch[p]]
LoadedData(a, n) == IF IsIn(a, BlockRegion) THEN Take(Refreshed(a, n), a, n) ELSE Take(bytes, a, n)

(* Whether an access faults: flash ignores stores wherever in its region they *)
(* go, and of a block only the first byte is looked at.                       *)
LoadFaults(a, n) == ~Inside(a, n)
StoreFaults(a, n) == ~IsIn(a, FlashRegion) /\ ~Inside(a, n)
LoadDataFaults(a, n) == ~Inside(a, IF IsIn(a, BlockRegion) THEN 1 ELSE n)
StoreDataFaults(a, n) == ~IsIn(a, FlashRegion) /\ LoadDataFaults(a, n)
Overruns(a, n) == IsIn(a, BlockRegion) /\ ~ReadBytes(a, n) \subseteq Places

Counted == stores < MaxStores /\ stores' = stores + 1 /\ ~overrun

(* the same store to a memory of plain bytes, where a register keeps its kind *)
FlatStore(m, a, vals) ==
    [p \in Places |->
        IF p \notin a..a + Len(vals) - 1 \/ (IsIn(p, BlockRegion) /\ WordOf(p) \in Fixed) THEN m[p]
        ELSE IF IsIn(p, BlockRegion) /\ WordOf(p) \in Acknowledge
             THEN (IF vals[p - a + 1] = 1 THEN 0 ELSE m[p])
        ELSE vals[p - a + 1]]
PartOf(a, n) == \E r \in Acknowledge : r..r+3 \cap a..a+n-1 \notin {{}, r..r+3}

(* A guest's store of 1, 2 or 4 bytes *)
Store(a, vals) ==
    /\ Counted /\ Len(vals) \in {1, 2, 4} /\ ~StoreFaults(a, Len(vals)) /\ ~IsIn(a, FlashRegion)
    /\ bytes' = IF IsIn(a, RamRegion) THEN Overlay(bytes, a, vals) ELSE BlockStore(bytes, a, vals)
    /\ flat' = FlatStore(flat, a, vals)
    /\ odd' = (odd \/ (IsIn(a, BlockRegion) /\ (a % Len(vals) # 0 \/ PartOf(a, Len(vals)))))
    /\ UNCHANGED <<scratch, overrun>>

(* DMA's store of a block of bytes *)
StoreData(a, vals) ==
    /\ Counted /\ ~StoreDataFaults(a, Len(vals)) /\ ~IsIn(a, FlashRegion)
    /\ overrun' = ~Inside(a, Len(vals))
    /\ bytes' = IF IsIn(a, RamRegion) THEN Overlay(bytes, a, vals) ELSE BlockStoreData(bytes, a, vals)
    /\ flat' = FlatStore(flat, a, vals)
    /\ odd' = (odd \/ (IsIn(a, BlockRegion) /\ PartOf(a, Len(vals))))
    /\ UNCHANGED scratch

(* DMA's and the window's load of one *)
LoadData(a, n) ==
    /\ IsIn(a, BlockRegion) /\ ~LoadDataFaults(a, n) /\ ~overrun
    /\ scratch' = Refreshed(a, n)
    /\ overrun' = Overruns(a, n)
    /\ UNCHANGED <<bytes, flat, odd, stores>>

(* ProgramFirmware and InsertCartridge erase the flash and write to it. *)
ProgramFlash(a, vals) ==
    /\ Counted /\ IsIn(a, FlashRegion) /\ Inside(a, Len(vals))
    /\ bytes' = Overlay([p \in Places |-> IF IsIn(p, FlashRegion) THEN 0 ELSE bytes[p]], a, vals)
    /\ flat' = [p \in Places |-> IF IsIn(p, FlashRegion) THEN bytes'[p] ELSE flat[p]]
    /\ UNCHANGED <<scratch, overrun, odd>>

MapInit ==
    /\ bytes \in {[p \in Places |-> 0], [p \in Places |-> 1]} /\ flat = bytes
    /\ scratch = [p \in {p \in Places : IsIn(p, BlockRegion)} |-> 0]
    /\ overrun = FALSE /\ odd = FALSE /\ stores = 0
MapNext ==
    \E a \in Tried :
        \/ \E v \in Patterns : Store(a, v) \/ StoreData(a, v) \/ ProgramFlash(a, v)
        \/ \E n \in 1..6 : LoadData(a, n)
MapSpec == MapInit /\ [][MapNext]_mapVars

-----------------------------------------------------------------------------
(* Whatever the widths and the alignment of the stores and the blocks were,   *)
(* every byte is what plain byte stores would have made it, as long as nobody *)
(* stored across a register's boundary, where the code ignores the alignment, *)
(* or to a part of a register that is acknowledged as a whole.                *)
MemoryIsFlat == ~overrun /\ ~odd => bytes = flat

(* Loads of every width and blocks of every alignment return the bytes there  *)
(* are now, nothing that an earlier block left in the scratch buffer.         *)
LoadsAreExact ==
    ~overrun /\ ~odd =>
        \A a \in Tried, n \in 1..6 :
            Inside(a, n) => /\ ~Overruns(a, n) => LoadedData(a, n) = Take(flat, a, n)
                            /\ n \in {1, 2, 4} /\ (IsIn(a, BlockRegion) => a % n = 0)
                               => LoadOf(a, n) = Take(flat, a, n)

(* An access with a byte outside its device faults and no other does, but for *)
(* a store beyond the flash, which is ignored; of blocks of registers only    *)
(* those that end with whole words are safe, the others can run past the end. *)
FaultsExactlyOutside ==
  ~overrun =>
    \A a \in Tried, n \in 1..6 :
        LET outside == \E p \in a..a+n-1 : p \notin Places \/ Region(p) # Region(a) IN
        /\ n \in {1, 2, 4} => (LoadFaults(a, n) <=> outside)
        /\ n \in {1, 2, 4} => (StoreFaults(a, n) <=> outside /\ ~IsIn(a, FlashRegion))
        /\ LoadDataFaults(a, n) => outside
        /\ outside /\ ~LoadDataFaults(a, n) => Overruns(a, n)
        /\ ~outside /\ (a + n) % 4 = 0 => ~Overruns(a, n)

(* The devices together are one memory of bytes, up to those exceptions.      *)
MemoryInv == MemoryIsFlat /\ LoadsAreExact /\ FaultsExactlyOutside
=============================================================================
