---------------------------- MODULE Instructions ----------------------------
(* What the simulator's instructions do to the registers and the memory       *)
(* (riscv-sim/src/RISCV?TypeInstruction.cpp), on words of Width bits instead  *)
(* of 32, and the short sequences compilers build from them: an instruction   *)
(* is right when the sequences it is part of compute what they are for.       *)
(* Addresses of instructions count instructions.                              *)
EXTENDS Integers, Sequences

CONSTANTS
    Width,      \* bits in a word, a multiple of 4
    LowBits,    \* bits of the immediate of addi (12); lui has the others
    CsrMask     \* the bits of the control register that can be written

-----------------------------------------------------------------------------
(* Powers of two, words as numbers, and as the sets of their bits. *)
Two == LET two[k \in 0..2*Width] == IF k = 0 THEN 1 ELSE 2 * two[k-1] IN two
Values == 0..Two[Width]-1
Wrapped(n) == n % Two[Width]
Signed(v, bits) == IF v < Two[bits-1] THEN v ELSE v - Two[bits]

AllBits == 0..Width-1
BitsOf(v) == {k \in AllBits : (v \div Two[k]) % 2 = 1}
FromBits(bits) ==
    LET sum[k \in 0..Width] == IF k = 0 THEN 0
                               ELSE sum[k-1] + (IF k - 1 \in bits THEN Two[k-1] ELSE 0)
    IN sum[Width]
And(a, b) == FromBits(BitsOf(a) \cap BitsOf(b))
Or(a, b) == FromBits(BitsOf(a) \cup BitsOf(b))
Xor(a, b) == FromBits((BitsOf(a) \cup BitsOf(b)) \ (BitsOf(a) \cap BitsOf(b)))
Complement(a) == FromBits(AllBits \ BitsOf(a))

ASSUME InstructionAssumption ==
    /\ Width \in Nat \ {0} /\ Width % 4 = 0 /\ LowBits \in 2..Width-1
    /\ CsrMask \in Values

VARIABLES
    code,       \* the sequence that is executed,
    at,         \* and where
    x,          \* DRegisters
    ram,        \* the bytes of a word of memory
    csr,        \* a control and status register
    before,     \* history: what csr was at the start
    crashed     \* the simulator's own process has died

instructionVars == <<code, at, x, ram, csr, before, crashed>>

-----------------------------------------------------------------------------
(* RType and IType: the operand b is a register or an immediate *)
Shifted(op, a, b) ==
    LET n == b % Width IN
    CASE op = "sll" -> Wrapped(a * Two[n])
      [] op = "srl" -> a \div Two[n]
      [] op = "sra" -> Wrapped(Signed(a, Width) \div Two[n])

Less(op, a, b) ==
    IF op \in {"slt", "blt", "bge"} THEN Signed(a, Width) < Signed(b, Width) ELSE a < b

Combined(op, a, b) ==
    CASE op = "add" -> Wrapped(a + b)
      [] op = "sub" -> Wrapped(a - b)
      [] op = "and" -> And(a, b)
      [] op = "or"  -> Or(a, b)
      [] op = "xor" -> Xor(a, b)

Multiplied(op, a, b) ==
    LET s == Signed(a, Width)
        t == Signed(b, Width)
    IN CASE op = "mul"    -> Wrapped(a * b)
         [] op = "mulh"   -> Wrapped((s * t) \div Two[Width])
         [] op = "mulhsu" -> Wrapped((s * b) \div Two[Width])
         [] op = "mulhu"  -> (a * b) \div Two[Width]

(* C divides towards zero *)
Magnitude(n) == IF n < 0 THEN -n ELSE n
QuotientFloor(s, t) ==           \* mutant: towards minus infinity
    IF t > 0 THEN s \div t ELSE (-s) \div (-t)
Quotient(s, t) ==
    LET q == Magnitude(s) \div Magnitude(t) IN IF (s < 0) = (t < 0) THEN q ELSE -q
Divided(op, a, b) ==
    LET s == IF op \in {"div", "rem"} THEN Signed(a, Width) ELSE a
        t == IF op \in {"div", "rem"} THEN Signed(b, Width) ELSE b
    IN IF op \in {"div", "divu"}
       THEN IF b = 0 THEN Wrapped(-1) ELSE Wrapped(Quotient(s, t))
       ELSE IF b = 0 THEN a ELSE Wrapped(s - t * Quotient(s, t))

(* The host's division traps where the quotient is out of range.              *)
HostTraps(op, a, b) ==
    op \in {"div", "rem"} /\ a = Two[Width-1] /\ b = Wrapped(-1)

Result(op, a, b) ==
    CASE op \in {"sll", "srl", "sra"} -> Shifted(op, a, b)
      [] op \in {"slt", "sltu"} -> IF Less(op, a, b) THEN 1 ELSE 0
      [] op \in {"mul", "mulh", "mulhsu", "mulhu"} -> Multiplied(op, a, b)
      [] op \in {"div", "divu", "rem", "remu"} -> Divided(op, a, b)
      [] OTHER -> Combined(op, a, b)

Taken(op, a, b) ==
    CASE op = "beq" -> a = b
      [] op = "bne" -> a # b
      [] op \in {"blt", "bltu"} -> Less(op, a, b)
      [] op \in {"bge", "bgeu"} -> ~Less(op, a, b)

-----------------------------------------------------------------------------
(* Memory: a load puts bytes together, the lowest first, and extends the sign *)
(* of the last one if it is not an unsigned load.                             *)
Byte == Width \div 4
SizeOf(op) == CASE op \in {"lb", "lbu", "sb"} -> 1
                [] op \in {"lh", "lhu", "sh"} -> 2
                [] op \in {"lw", "sw"} -> 4
Assembled(a, n) ==
    LET up[k \in 0..n] == IF k = 0 THEN 0 ELSE up[k-1] + ram[a + k - 1] * Two[Byte * (k-1)]
    IN up[n]
Loaded(op, a) ==
    LET n == SizeOf(op)
        raw == Assembled(a, n)
    IN IF op \in {"lbu", "lhu"} THEN raw ELSE Wrapped(Signed(raw, n * Byte))
Stored8(op, a, v) ==
    [k \in 0..3 |-> IF k \in a..a+SizeOf(op)-1 THEN (v \div Two[Byte * (k - a)]) % Two[Byte] ELSE ram[k]]

-----------------------------------------------------------------------------
Put(rd, v) == IF rd = 0 THEN x ELSE [x EXCEPT ![rd] = v]      \* register 0 ignores it
Advance == at' = at + 1

(* An instruction is <<operation, rd, first, second>>: first names a register, *)
(* second a register or, in the sets of the operations below, an immediate.   *)
Operations == {"add", "sub", "and", "or", "xor", "sll", "srl", "sra", "slt", "sltu",
               "mul", "mulh", "mulhsu", "mulhu", "div", "divu", "rem", "remu"}
Branches == {"beq", "bne", "blt", "bge", "bltu", "bgeu"}

Instr == code[at + 1]
Running == ~crashed /\ at < Len(code)

Operate ==
    LET op == Instr[1]
        a == x[Instr[3]]
        b == x[Instr[4]]
    IN /\ op \in Operations
       /\ IF HostTraps(op, a, b)
          THEN crashed' = TRUE /\ UNCHANGED <<x, at>>
          ELSE x' = Put(Instr[2], Result(op, a, b)) /\ Advance /\ UNCHANGED crashed
       /\ UNCHANGED <<ram, csr>>

(* the immediates of addi and of jalr are signed, LowBits wide *)
AddImmediate ==
    /\ Instr[1] = "addi"
    /\ x' = Put(Instr[2], Wrapped(x[Instr[3]] + Signed(Instr[4], LowBits)))
    /\ Advance /\ UNCHANGED <<ram, csr, crashed>>

LoadUpper ==
    /\ Instr[1] \in {"lui", "auipc"}
    /\ x' = Put(Instr[2], Wrapped(Instr[4] * Two[LowBits] + IF Instr[1] = "auipc" THEN at ELSE 0))
    /\ Advance /\ UNCHANGED <<ram, csr, crashed>>

Branch ==
    /\ Instr[1] \in Branches
    /\ at' = IF Taken(Instr[1], x[Instr[2]], x[Instr[3]]) THEN at + Instr[4] ELSE at + 1
    /\ UNCHANGED <<x, ram, csr, crashed>>

Jump ==
    /\ Instr[1] \in {"jal", "jalr"}
    /\ at' = IF Instr[1] = "jal" THEN at + Instr[4] ELSE Wrapped(x[Instr[3]] + Signed(Instr[4], LowBits))
    /\ x' = Put(Instr[2], at + 1)
    /\ UNCHANGED <<ram, csr, crashed>>

Load ==
    /\ Instr[1] \in {"lb", "lbu", "lh", "lhu", "lw"}
    /\ x' = Put(Instr[2], Loaded(Instr[1], x[Instr[3]] + Instr[4]))
    /\ Advance /\ UNCHANGED <<ram, csr, crashed>>

StoreTo ==
    /\ Instr[1] \in {"sb", "sh", "sw"}
    /\ ram' = Stored8(Instr[1], x[Instr[3]] + Instr[4], x[Instr[2]])
    /\ Advance /\ UNCHANGED <<x, csr, crashed>>

(* The control registers: a register with a mask keeps the bits in it. With   *)
(* rd = 0, csrrwi has no source register and reads one all the same.          *)
CsrChanged(op, v) ==
    CASE op \in {"csrrw", "csrrwi"} -> And(v, CsrMask)
      [] op \in {"csrrs", "csrrsi"} -> Or(csr, And(v, CsrMask))
      [] op \in {"csrrc", "csrrci"} -> And(csr, Complement(v))
AccessCsr ==
    LET op == Instr[1]
        v == IF op \in {"csrrw", "csrrs", "csrrc"} THEN x[Instr[3]] ELSE Instr[4]
    IN /\ op \in {"csrrw", "csrrs", "csrrc", "csrrwi", "csrrsi", "csrrci"}
       /\ IF op = "csrrwi" /\ Instr[2] = 0
          THEN crashed' = TRUE /\ UNCHANGED <<x, csr, at>>
          ELSE x' = Put(Instr[2], csr) /\ csr' = CsrChanged(op, v) /\ Advance /\ UNCHANGED crashed
       /\ UNCHANGED ram

InstructionNext ==
    /\ Running
    /\ \/ Operate \/ AddImmediate \/ LoadUpper \/ Branch \/ Jump \/ Load \/ StoreTo \/ AccessCsr
    /\ UNCHANGED <<code, before>>

-----------------------------------------------------------------------------
(* The sequences. Registers 1 and 2 hold the operands, 3 and 4 the results.   *)
Pair(op1, op2) == <<<<op1, 3, 1, 2>>, <<op2, 4, 1, 2>>>>

(* li of a constant: the upper part makes up for the sign of the lower one *)
Lower(v) == v % Two[LowBits]
Upper(v) == (v + Two[LowBits-1]) \div Two[LowBits]
Li(v) == <<<<"lui", 3, 0, Upper(v)>>, <<"addi", 3, 3, Lower(v)>>>>

(* op sets 3; then 4 := 1 unless the branch is taken *)
Test(op, branch) == <<<<op, 3, 1, 2>>, <<branch, 1, 2, 2>>, <<"addi", 4, 0, 1>>>>

(* a function at 2, called from 0, that sets 3 and returns to 1 *)
Call1 == <<<<"jal", 4, 0, 2>>, <<"jal", 0, 0, 3>>, <<"addi", 3, 0, 1>>, <<"jalr", 0, 4, 0>>>>
(* the same called through its address in register 3 *)
CallFar == <<<<"auipc", 3, 0, Upper(3)>>, <<"addi", 3, 3, Lower(3)>>, <<"jalr", 4, 3, 1>>,
             <<"jal", 0, 0, 3>>, <<"addi", 3, 0, 1>>, <<"jalr", 0, 4, 0>>>>

Narrow(shift) == <<<<"sll", 3, 1, 2>>, <<shift, 4, 3, 2>>>>
ByteWise(load) == <<<<"sb", 1, 0, 0>>, <<"sb", 2, 0, 1>>, <<load, 3, 0, 0>>>>
WordWise(load) == <<<<"sw", 1, 0, 0>>, <<"sh", 2, 0, 2>>, <<"lw", 3, 0, 0>>, <<load, 4, 0, 2>>>>
Masked(op) == <<<<op, 3, 1, 0>>, <<"csrrw", 4, 3, 0>>>>
WithUimm(op, u) == <<<<op, 3, 0, u>>, <<"csrrw", 4, 3, 0>>>>
Carry == <<<<"add", 3, 1, 2>>, <<"sltu", 4, 3, 1>>>>
Borrow == <<<<"sub", 3, 1, 2>>, <<"sltu", 4, 1, 3>>>>
Uimms == {1, 2}
SetZero == <<<<"csrrwi", 0, 0, 1>>>>

Compiled ==
    {Pair("div", "rem"), Pair("divu", "remu"), Pair("mul", "mulh"), Pair("mul", "mulhsu"),
     Pair("mul", "mulhu"), Pair("xor", "and"), Narrow("sra"), Narrow("srl"), Call1, CallFar,
     Carry, Borrow,
     Masked("csrrs"), Masked("csrrc"), SetZero}
    \cup {Li(v) : v \in Values}
    \cup {Test("slt", b) : b \in {"blt", "bge"}} \cup {Test("sltu", b) : b \in {"bltu", "bgeu"}}
    \cup {Test("sub", b) : b \in {"beq", "bne"}}
    \cup {ByteWise(load) : load \in {"lh", "lhu"}}
    \cup {WordWise(load) : load \in {"lh", "lb", "lbu"}}
    \cup {WithUimm(op, u) : op \in {"csrrsi", "csrrci", "csrrwi"}, u \in Uimms}

InstructionInit ==
    /\ code \in Compiled
    /\ \E a, b \in Values : x = [r \in 0..4 |-> CASE r = 1 -> a [] r = 2 -> b [] OTHER -> 0]
    /\ csr \in {0, CsrMask} /\ before = csr
    /\ at = 0 /\ ram = [k \in 0..3 |-> 0] /\ crashed = FALSE

(* The processor's thread goes on. *)
InstructionSpec ==
    InstructionInit /\ [][InstructionNext]_instructionVars /\ WF_instructionVars(InstructionNext)

-----------------------------------------------------------------------------
Done == at = Len(code) /\ ~crashed
Runs(c) == Done /\ code = c

(* div with rem, divu with remu: the quotient is rounded towards zero, the    *)
(* remainder has the dividend's sign, and division by zero gives all ones and *)
(* the dividend.                                                              *)
DivisionExact ==
    \A signed \in BOOLEAN :
        Runs(IF signed THEN Pair("div", "rem") ELSE Pair("divu", "remu")) =>
            LET Of(r) == IF signed THEN Signed(x[r], Width) ELSE x[r] IN
            IF x[2] = 0 THEN x[3] = Two[Width] - 1 /\ x[4] = x[1]
            ELSE /\ Of(1) = Of(3) * Of(2) + Of(4)
                 /\ Magnitude(Of(4)) < Magnitude(Of(2))
                 /\ Of(4) # 0 => (Of(4) < 0) = (Of(1) < 0)

(* mul and one of the mulh give the two words of the exact product. *)
ProductExact ==
    \A high \in {"mulh", "mulhsu", "mulhu"} :
        Runs(Pair("mul", high)) =>
            LET a == IF high = "mulhu" THEN x[1] ELSE Signed(x[1], Width)
                b == IF high = "mulh" THEN Signed(x[2], Width) ELSE x[2]
            IN x[4] * Two[Width] + x[3] = (a * b) % Two[2 * Width]

(* A shift to the left and back by the same number of bits, as casts to       *)
(* narrower types compile to, leaves the narrow value, sign- or zero-extended.*)
ExtensionExact ==
    LET bits == Width - (x[2] % Width) IN
    /\ Runs(Narrow("srl")) => x[4] = x[1] % Two[bits]
    /\ Runs(Narrow("sra")) =>
           /\ x[4] % Two[bits] = x[1] % Two[bits]
           /\ Signed(x[4], Width) \in -Two[bits-1]..Two[bits-1]-1

(* Comparisons agree with one another: branches with slt and sltu, equality   *)
(* with a difference of zero, signed order with the unsigned order of the     *)
(* values moved by half the range; sltu gives the carry of an addition and    *)
(* the borrow of a subtraction; and, xor and add agree on every bit.          *)
ComparisonsAgree ==
    LET Moved(r) == Wrapped(x[r] + Two[Width-1])
        NotTaken == x[4] = 1
    IN /\ Runs(Test("slt", "blt")) => (NotTaken <=> x[3] = 0) /\ (x[3] = 1 <=> Moved(1) < Moved(2))
       /\ Runs(Test("slt", "bge")) => (NotTaken <=> x[3] = 1)
       /\ Runs(Test("sltu", "bltu")) => (NotTaken <=> x[3] = 0)
       /\ Runs(Test("sltu", "bgeu")) => (NotTaken <=> x[3] = 1)
       /\ Runs(Test("sub", "beq")) => (NotTaken <=> x[3] # 0)
       /\ Runs(Test("sub", "bne")) => (NotTaken <=> x[3] = 0)
       /\ Runs(Carry) => x[4] * Two[Width] + x[3] = x[1] + x[2]
       /\ Runs(Borrow) => x[3] - x[4] * Two[Width] = x[1] - x[2]
       /\ Runs(Pair("xor", "and")) => Wrapped(x[3] + 2 * x[4]) = Wrapped(x[1] + x[2])

(* lui and addi together load every constant. *)
ConstantLoads == \A v \in Values : Runs(Li(v)) => x[3] = v

(* Stores and loads of different sizes agree on where each byte is, and the   *)
(* signed loads extend the sign of what they read.                            *)
BytesCompose ==
    LET Low(r, bits) == x[r] % Two[bits]
        Extended(v, bits) == Wrapped(Signed(v, bits))
        pair == Low(1, Byte) + Low(2, Byte) * Two[Byte]
        half == Low(2, 2 * Byte)
    IN /\ Runs(ByteWise("lhu")) => x[3] = pair
       /\ Runs(ByteWise("lh")) => x[3] = Extended(pair, 2 * Byte)
       /\ \A load \in {"lh", "lb", "lbu"} :
              Runs(WordWise(load)) =>
                  /\ x[3] = Low(1, 2 * Byte) + half * Two[2 * Byte]
                  /\ x[4] = CASE load = "lh" -> Extended(half, 2 * Byte)
                              [] load = "lb" -> Extended(half % Two[Byte], Byte)
                              [] load = "lbu" -> half % Two[Byte]

(* Setting or clearing bits returns the old value, changes no bit that is not *)
(* given or not writable, and writing the old value back restores it.         *)
CsrHolds ==
    /\ \A op \in {"csrrs", "csrrc"} :
          Runs(Masked(op)) =>
              /\ x[3] = before /\ csr = before
              /\ x[4] = before + (IF op = "csrrs" THEN 1 ELSE -1) *
                               And(And(x[1], CsrMask), IF op = "csrrs" THEN Complement(before) ELSE before)
    /\ \A u \in Uimms :
          /\ Runs(WithUimm("csrrwi", u)) => x[3] = before /\ csr = before /\ x[4] = And(u, CsrMask)
          /\ Runs(WithUimm("csrrsi", u)) => csr = before /\ And(x[4], And(u, CsrMask)) = And(u, CsrMask)
          /\ Runs(WithUimm("csrrci", u)) => csr = before /\ And(x[4], u) = 0

(* A called function, near or far, returns behind the call: the program never *)
(* is anywhere else than in front of it, in it, or behind it with its result. *)
CallReturns ==
    /\ code = Call1 => at \in {0, 2, 3} \/ (at \in {1, Len(code)} /\ x[3] = 1 /\ x[4] = 1)
    /\ code = CallFar => at \in {0, 1, 2, 4, 5} \/ (at \in {3, Len(code)} /\ x[3] = 1 /\ x[4] = 3)

(* Whatever the program computes, the host's arithmetic gave the guest's.      *)
ResultsExact ==
    /\ DivisionExact /\ ProductExact /\ ExtensionExact /\ ComparisonsAgree
    /\ ConstantLoads /\ BytesCompose /\ CsrHolds /\ CallReturns
=============================================================================
