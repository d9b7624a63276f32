------------------------------ MODULE LineTable ------------------------------
(* What the simulator reads of a program's debug information                  *)
(* (riscv-sim/src/ElfLoad.cpp). Each compilation unit has a line-number       *)
(* program, which a state machine of few registers runs byte by byte into a   *)
(* table of lines and addresses; the units' tables become one. The assembler  *)
(* has written the program from such a table, and has had a choice for each   *)
(* line of it how to encode the way from the line before.                     *)
EXTENDS Integers, Sequences
LOCAL INSTANCE SequencesExt
LOCAL INSTANCE TLC

CONSTANTS
    Objects,      \* programs: [units, sections, symbols]; a unit is [type, version of its
                  \*  line-number program, root: the code of its root's abbreviation,
                  \*  compDir, folders: names, files:
                  \*  pairs <<folder, name>>, rows: [address, file, line, column, end]]
    Abbreviations,\* of the codes that are known: which attributes they have
    LineDown,     \* DLineBase, negated,
    LineRange,    \* DLineRange
    OpcodeBase    \* and DOpcodeBase, as the assembler chooses them

ASSUME LineTableAssumption ==
    /\ LineDown \in 0..127 /\ LineRange \in 1..255 /\ OpcodeBase \in 10..255
    /\ LineRange - 1 - LineDown <= 127    \* a line increment is an int8_t

VARIABLES
    object,      \* the program being read
    stage,       \* "units", "lines", "table", "files", "sections", "listing", "done"
    unitAt,      \* the unit, counted from 1
    lineBytes,   \* of its line-number program, still to be read,
    encoded,     \* how many of its rows have been assembled,
    regs,        \* DRegs, as far as a row depends on them
    unitRows,    \* its DLineNumberEntries
    unitsRead,   \* DCompilaitonUnits: of each unit read, [paths, rows]
    table        \* CElfLoad's DLineNumberData, [paths, rows]; files count from 1

unitVars == <<unitAt, lineBytes, encoded, regs, unitRows, unitsRead>>
tableVars == <<object, stage, unitVars, table>>

-----------------------------------------------------------------------------
(* Numbers in groups of seven bits, the lowest first.                         *)
Groups(s) ==
    LET n == CHOOSE i \in DOMAIN s : s[i] < 128 /\ \A j \in 1..(i - 1) : s[j] >= 128
    IN SubSeq(s, 1, n)
After(s, n) == SubSeq(s, n + 1, Len(s))
ReadULEB128(s) == FoldRight(LAMBDA byte, value : (byte % 128) + 128 * value, Groups(s), 0)
ReadSLEB128(s) ==
    LET g == Groups(s)
    IN ReadULEB128(s) - (IF g[Len(g)] >= 64 THEN 128 ^ Len(g) ELSE 0)
ReadUINT(s, n) == FoldRight(LAMBDA byte, value : byte + 256 * value, SubSeq(s, 1, n), 0)

-----------------------------------------------------------------------------
(* The state machine. A step gives the registers, how many bytes it has read, *)
(* and whether the registers are now a row. An instruction is one byte at     *)
(* least and one operation at most.                                           *)
ResetRegs == [address |-> 0, file |-> 1, line |-> 1, column |-> 0, end |-> FALSE]
Reached(r, read, row) == [regs |-> r, read |-> read, row |-> row]
OperationAdvance == (255 - OpcodeBase) \div LineRange

Extended(r, s) ==     \* after the zero; an unknown one's operands are read as opcodes
    LET n == Len(Groups(s))  sub == s[n + 1]  operand == After(s, n + 1) IN
    CASE sub = 1 -> Reached([r EXCEPT !.end = TRUE], n + 2, TRUE)
      [] sub = 2 -> Reached([r EXCEPT !.address = ReadUINT(operand, 4)], n + 6, FALSE)
      [] sub = 4 -> Reached(r, n + 2 + Len(Groups(operand)), FALSE)
      [] OTHER   -> Reached(r, n + 2, FALSE)

Standard(r, op, s) ==
    LET n == Len(Groups(s)) IN
    CASE op = 1 -> Reached(r, 1, TRUE)
      [] op = 2 -> Reached([r EXCEPT !.address = @ + ReadULEB128(s)], n + 1, FALSE)
      [] op = 3 -> Reached([r EXCEPT !.line = @ + ReadSLEB128(s)], n + 1, FALSE)
      [] op = 4 -> Reached([r EXCEPT !.file = ReadULEB128(s)], n + 1, FALSE)
      [] op = 5 -> Reached([r EXCEPT !.column = ReadULEB128(s)], n + 1, FALSE)
      [] op = 8 -> Reached([r EXCEPT !.address = @ + OperationAdvance], 1, FALSE)
      [] op = 9 -> Reached([r EXCEPT !.address = @ + ReadUINT(s, 2)], 3, FALSE)
      [] op = 12 -> Reached(r, n + 1, FALSE)
      [] OTHER  -> Reached(r, 1, FALSE)

Special(r, op) ==
    Reached([r EXCEPT !.line = @ - LineDown + ((op - OpcodeBase) % LineRange),
                      !.address = @ + (op - OpcodeBase) \div LineRange], 1, TRUE)

ComputeLineNumberStep(r, s) ==
    LET op == Head(s) IN
    CASE op = 0 -> Extended(r, Tail(s))
      [] op \in 1..(OpcodeBase - 1) -> Standard(r, op, Tail(s))
      [] OTHER -> Special(r, op)

-----------------------------------------------------------------------------
(* The assembler: the bytes that take the registers from one row to the next, *)
(* by a special opcode, by one after a constant advance, or by an advance of  *)
(* line and address. What a row does not depend on may be among them.         *)
ULEB(n) == IF n < 128 THEN <<n>> ELSE <<(n % 128) + 128, n \div 128>>
SLEB(n) == IF n \in -64..63 THEN <<n % 128>> ELSE <<(n % 128) + 128, (n \div 128) % 128>>
SpecialCodes(lines, distance) ==
    IF lines + LineDown \in 0..(LineRange - 1) /\ distance >= 0
    THEN {OpcodeBase + lines + LineDown + LineRange * distance} \cap OpcodeBase..255
    ELSE {}
Advances(lines, distance) ==
    {<<c>> : c \in SpecialCodes(lines, distance)}
    \cup {<<8, c>> : c \in SpecialCodes(lines, distance - OperationAdvance)}
    \cup {<<3>> \o SLEB(lines) \o <<2>> \o ULEB(distance) \o <<1>>,
          <<3>> \o SLEB(lines) \o <<9, distance % 256, distance \div 256, 1>>}
Unseen == {<<>>, <<6>>, <<0, 2, 4, 1>>}
Encodings(from, to) ==
    LET file == IF to.file = from.file THEN <<>> ELSE <<4>> \o ULEB(to.file)
        column == IF to.column = from.column THEN <<>> ELSE <<5>> \o ULEB(to.column)
        first == from = ResetRegs     \* of a sequence
        start == IF first THEN <<0, 5, 2, to.address % 256, to.address \div 256, 0, 0>> ELSE <<>>
        distance == IF first THEN 0 ELSE to.address - from.address
    IN IF to.end THEN {<<2>> \o ULEB(distance) \o <<0, 1, 1>>}
       ELSE {unseen \o start \o file \o column \o advance :
                unseen \in Unseen, advance \in Advances(to.line - from.line, distance)}

-----------------------------------------------------------------------------
(* DFilePaths of a unit, from the names in its line program's header. A name  *)
(* is [abs, parts], as in Path; nothing is resolved yet.                      *)
RelativeTo(base, text) == IF text.abs THEN text ELSE [abs |-> base.abs, parts |-> base.parts \o text.parts]
CompilationDirectory(u) ==
    IF "comp_dir" \in Abbreviations[u.root] THEN u.compDir ELSE [abs |-> FALSE, parts |-> <<".">>]
ResolvePaths(u) ==
    [i \in DOMAIN u.files |->
        LET folder == RelativeTo(CompilationDirectory(u), u.folders[u.files[i][1] + 1])
        IN [folder EXCEPT !.parts = Append(@, u.files[i][2])]]

-----------------------------------------------------------------------------
Unit == object.units[unitAt]
ReadNothing == [paths |-> <<>>, rows |-> <<>>]

(* Of the tree of entries only the root is looked at later. It has no         *)
(* attributes if its abbreviation is not known, and it keeps them if one      *)
(* below it is not.                                                           *)
RootAttributes(u) == IF u.root \in DOMAIN Abbreviations THEN Abbreviations[u.root] ELSE {}
IsRead(u) == u.type \in {"compile", "partial"}
HasLines(u) == "stmt_list" \in RootAttributes(u) /\ u.version = 5

(* The next unit is where this one's length says, however far it was read.    *)
NextUnit ==
    /\ IF unitAt < Len(object.units)
       THEN unitAt' = unitAt + 1 /\ stage' = "units"
       ELSE stage' = "table" /\ UNCHANGED unitAt
    /\ UNCHANGED <<object, table>>

(* ReadDebugCompilationUnit: what is no compilation unit is skipped; one      *)
(* without lines, or with lines in another version's format, has none.        *)
SkipUnit ==
    /\ stage = "units" /\ ~IsRead(Unit)
    /\ NextUnit /\ UNCHANGED <<lineBytes, encoded, regs, unitRows, unitsRead>>

UnitWithoutLines ==
    /\ stage = "units" /\ IsRead(Unit) /\ ~HasLines(Unit)
    /\ unitsRead' = Append(unitsRead, ReadNothing)
    /\ NextUnit /\ UNCHANGED <<lineBytes, encoded, regs, unitRows>>

ReadDebugLineNumbers ==
    /\ stage = "units" /\ IsRead(Unit) /\ HasLines(Unit)
    /\ regs' = ResetRegs /\ unitRows' = <<>> /\ encoded' = 0 /\ stage' = "lines"
    /\ UNCHANGED <<object, unitAt, lineBytes, unitsRead, table>>

(* Environment: the assembler's next row, between two of the reader's.        *)
Assemble ==
    /\ stage = "lines" /\ lineBytes = <<>> /\ encoded < Len(Unit.rows)
    /\ lineBytes' \in Encodings(regs, Unit.rows[encoded + 1])
    /\ encoded' = encoded + 1
    /\ UNCHANGED <<object, stage, unitAt, regs, unitRows, unitsRead, table>>

LineStep ==
    /\ stage = "lines" /\ lineBytes # <<>>
    /\ LET step == ComputeLineNumberStep(regs, lineBytes)
           r == step.regs
       IN /\ lineBytes' = After(lineBytes, step.read)
          /\ regs' = IF r.end THEN ResetRegs ELSE r
          /\ unitRows' = IF step.row
                         THEN Append(unitRows, [file |-> r.file, line |-> r.line,
                                                column |-> r.column, address |-> r.address])
                         ELSE unitRows
    /\ UNCHANGED <<object, stage, unitAt, encoded, unitsRead, table>>

LinesRead ==
    /\ stage = "lines" /\ lineBytes = <<>> /\ encoded = Len(Unit.rows)
    /\ unitsRead' = Append(unitsRead, [paths |-> ResolvePaths(Unit), rows |-> unitRows])
    /\ NextUnit /\ UNCHANGED <<lineBytes, encoded, regs, unitRows>>

(* ConsolidateLineNumbers: each path once, numbered as the rows come to it;   *)
(* the rows in the order of addresses, files, lines and columns.              *)
Precedes(a, b) ==
    \/ a.address < b.address
    \/ a.address = b.address /\ a.file < b.file
    \/ a.address = b.address /\ a.file = b.file /\ a.line < b.line
    \/ a.address = b.address /\ a.file = b.file /\ a.line = b.line /\ a.column < b.column
WithPath(paths, path) == IF path \in ToSet(paths) THEN paths ELSE Append(paths, path)
IndexOf(paths, path) == CHOOSE i \in DOMAIN paths : paths[i] = path
Consolidated ==
    LET Row(unit, t, row) ==
            LET path == unit.paths[row.file + 1]
                paths == WithPath(t.paths, path)
            IN [paths |-> paths, rows |-> Append(t.rows, [row EXCEPT !.file = IndexOf(paths, path)])]
        Of(t, unit) == FoldLeft(LAMBDA u, row : Row(unit, u, row), t, unit.rows)
        all == FoldLeft(Of, ReadNothing, unitsRead)
    IN [all EXCEPT !.rows = SortSeq(@, Precedes)]
ConsolidateLineNumbers ==
    /\ stage = "table"
    /\ table' = Consolidated /\ stage' = "files"
    /\ UNCHANGED <<object, unitVars>>

TableInit ==
    /\ object \in Objects
    /\ stage = "units" /\ unitAt = 1
    /\ lineBytes = <<>> /\ encoded = 0 /\ regs = ResetRegs /\ unitRows = <<>>
    /\ unitsRead = <<>> /\ table = ReadNothing

TableNext ==
    SkipUnit \/ UnitWithoutLines \/ ReadDebugLineNumbers \/ Assemble \/ LineStep \/ LinesRead
    \/ ConsolidateLineNumbers

-----------------------------------------------------------------------------
(* Whatever way the assembler has chosen, the rows read are the rows it had,  *)
(* the ends of its sequences among them.                                      *)
SamePlace(row, of) == row = [file |-> of.file, line |-> of.line, column |-> of.column, address |-> of.address]
RowsExact ==
    stage = "lines" /\ lineBytes = <<>> =>
        /\ Len(unitRows) = encoded
        /\ \A i \in 1..encoded : SamePlace(unitRows[i], Unit.rows[i])

(* The one table has the rows of all units that have lines and no others, in  *)
(* order, and every path of it once.                                          *)
Lined == {i \in DOMAIN object.units : IsRead(object.units[i]) /\ HasLines(object.units[i])}
SourceOf(u, row) ==
    <<ResolvePaths(u)[row.file + 1], row.line, row.column, row.address>>
AssembledRows == UNION {{SourceOf(object.units[i], object.units[i].rows[k]) :
                        k \in DOMAIN object.units[i].rows} : i \in Lined}
TableExact ==
    stage \in {"files", "sections", "listing", "done"} =>
        /\ {<<table.paths[r.file], r.line, r.column, r.address>> : r \in ToSet(table.rows)} = AssembledRows
        /\ IsInjective(table.paths)
        /\ ToSet(table.paths) = {place[1] : place \in AssembledRows}
        /\ \A i \in 2..Len(table.rows) : ~Precedes(table.rows[i], table.rows[i - 1])
=============================================================================
