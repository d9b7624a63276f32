---------------------------- MODULE SourceListing ----------------------------
(* The listing of a program with its sources (ConstructInstructionStrings in  *)
(* riscv-sim/src/RISCVConsole.cpp): the instructions of its sections one      *)
(* after another, and before each the lines of source that the line table has *)
(* come to there, file by file, every file from its first line on.            *)
EXTENDS LineTable, SourceFiles, FiniteSets
LOCAL INSTANCE SequencesExt
LOCAL INSTANCE TLC

(* Sections are [executable, loaded, first, words], symbols [address, name,   *)
(* info]; a line of the listing is [is, of].                                  *)
VARIABLES
    fileLines,     \* SourceFileLines, one for each path of the table, or none at all
    displayed,     \* SourceFileDisplayedLines
    fileAt,        \* SourceFileIndex
    rowAt,         \* NextSourceLine: the row of the table it points to
    sectionAt,     \* Index, counted from 1,
    currentAddress,
    lastWasEmpty,
    symbolsLeft,   \* the addresses from NextSymbol on
    sourceStrings, \* the listing's lines
    translations,  \* and at which the instructions are, counted from 0
    sourceLabels   \* its labels, [name, at, address]

shownVars == <<fileLines, displayed, fileAt, rowAt, lastWasEmpty>>
placeVars == <<sectionAt, currentAddress, symbolsLeft>>
outVars == <<sourceStrings, translations, sourceLabels>>
sourceVars == <<tableVars, shownVars, placeVars, outVars>>

Section == object.sections[sectionAt]
Row == table.rows[rowAt]
Line(text) == [is |-> "source", of |-> text]
Border == [is |-> "border", of |-> 0]
NameText(name) == [abs |-> FALSE, parts |-> <<name>>]

-----------------------------------------------------------------------------
(* MergeSymbols, as far as sections have symbols: of the first section with   *)
(* code that it lies in; a function takes the address from whatever has it,   *)
(* another symbol only if nothing has.                                        *)
HomeOf(symbol) ==
    LET Home(i) ==
            LET s == object.sections[i]
            IN s.loaded /\ s.executable /\ symbol.address \in s.first..(s.first + 4 * s.words - 1)
    IN IF \E i \in DOMAIN object.sections : Home(i)
       THEN CHOOSE i \in DOMAIN object.sections : Home(i) /\ \A j \in 1..(i - 1) : ~Home(j)
       ELSE 0
Names(section) ==
    LET Merge(names, s) ==
            IF /\ HomeOf(s) = section
               /\ s.info = "function" \/ (s.info = "symbol" /\ s.address \notin DOMAIN names)
            THEN (s.address :> s.name) @@ names ELSE names
    IN FoldLeft(Merge, <<>>, object.symbols)

-----------------------------------------------------------------------------
(* A stretch of a file: of blank lines in a row only the first.        *)
Shown(file, from, to, empty) ==
    LET Show(r, text) ==
            [lines |-> IF text # BlankLine \/ ~r.empty THEN Append(r.lines, Line(text)) ELSE r.lines,
             empty |-> text = BlankLine]
    IN FoldLeft(Show, [lines |-> <<>>, empty |-> empty], SubSeq(fileLines[file], from, to))
RestOf(file, empty) == Shown(file, displayed[file] + 1, Len(fileLines[file]), empty)
IsFile(file) == file <= Len(fileLines)
Unfinished(file) == displayed[file] < Len(fileLines[file])

FindFiles ==
    /\ stage = "files"
    /\ fileLines' = LoadElfSourceFiles(table.paths)
    /\ displayed' = [i \in DOMAIN fileLines' |-> 0]
    /\ fileAt' = Len(fileLines') + 1
    /\ stage' = "sections"
    /\ UNCHANGED <<object, unitVars, table, rowAt, lastWasEmpty, placeVars, outVars>>

SkipSection ==
    /\ stage = "sections" /\ sectionAt <= Len(object.sections) /\ ~Section.executable
    /\ sectionAt' = sectionAt + 1
    /\ UNCHANGED <<tableVars, shownVars, currentAddress, symbolsLeft, outVars>>

EnterSection ==
    /\ stage = "sections" /\ sectionAt <= Len(object.sections) /\ Section.executable
    /\ stage' = "listing" /\ lastWasEmpty' = FALSE
    /\ currentAddress' = Section.first
    /\ symbolsLeft' = SetToSortSeq(DOMAIN Names(sectionAt), <)
    /\ UNCHANGED <<object, unitVars, table, fileLines, displayed, fileAt, rowAt, sectionAt, outVars>>

EndAddress == Section.first + 4 * Section.words
SourceHere == rowAt <= Len(table.rows) /\ Row.address = currentAddress

(* Coming to another file ends the one before, if the other still has lines:  *)
(* its rest is shown, for files are thought to be in one piece.               *)
ComesToAnother == Row.file # fileAt /\ IsFile(fileAt) /\ Unfinished(Row.file)
Remainder == IF ComesToAnother THEN RestOf(fileAt, lastWasEmpty).lines ELSE <<>>
Heading(file) ==
    IF IsFile(file) /\ displayed[file] = 0
    THEN <<Border, [is |-> "file", of |-> table.paths[file]], Border>>
    ELSE <<>>

(* MUTANT of UpTo: lines counted from 1 taken for lines counted from 0.       *)
UpToBefore(file, line) ==
    IF line - 1 < Len(fileLines[file]) THEN line - 1 ELSE Len(fileLines[file])

(* The lines of a file up to one, and how many are displayed then. A file     *)
(* that was not loaded has its one line behind it.                            *)
UpTo(file, line) == IF line < Len(fileLines[file]) THEN line ELSE Len(fileLines[file])
LinesUpTo(file, line) ==
    IF IsFile(file) THEN Shown(file, displayed[file] + 1, UpTo(file, line), FALSE)
    ELSE [lines |-> <<>>, empty |-> FALSE]
DisplayedUpTo(file, line) ==
    IF fileLines[file] = <<>> THEN 1
    ELSE IF displayed[file] < UpTo(file, line) THEN UpTo(file, line) ELSE displayed[file]

SourceLine ==
    /\ stage = "listing" /\ currentAddress < EndAddress /\ SourceHere
    /\ LET before == sourceStrings \o Remainder
           file == Row.file
           upTo == LinesUpTo(file, Row.line)
       IN /\ sourceStrings' = before \o Heading(file) \o upTo.lines
          /\ sourceLabels' = IF Heading(file) = <<>> THEN sourceLabels
                             ELSE Append(sourceLabels, [name |-> table.paths[file], at |-> Len(before),
                                                        address |-> currentAddress])
          /\ lastWasEmpty' = upTo.empty
          /\ displayed' = [f \in DOMAIN displayed |->
                CASE f = file -> DisplayedUpTo(f, Row.line)
                  [] f = fileAt /\ f # file /\ ComesToAnother /\ Unfinished(f) -> Len(fileLines[f])
                  [] OTHER -> displayed[f]]
          /\ fileAt' = file
    /\ rowAt' = rowAt + 1
    /\ UNCHANGED <<tableVars, fileLines, placeVars, translations>>

Instruction ==
    /\ stage = "listing" /\ currentAddress < EndAddress /\ ~SourceHere
    /\ LET labelled == symbolsLeft # <<>> /\ Head(symbolsLeft) = currentAddress
           last == IF sourceStrings = <<>> THEN 0 ELSE Len(sourceStrings) - 1
           Label == [name |-> NameText(Names(sectionAt)[currentAddress]), at |-> last,
                     address |-> currentAddress]
       IN /\ sourceLabels' = IF labelled THEN Append(sourceLabels, Label) ELSE sourceLabels
          /\ symbolsLeft' = IF labelled THEN Tail(symbolsLeft) ELSE symbolsLeft
    /\ translations' = (currentAddress :> Len(sourceStrings)) @@ translations
    /\ sourceStrings' = Append(sourceStrings, [is |-> "code", of |-> currentAddress])
    /\ currentAddress' = currentAddress + 4
    /\ UNCHANGED <<tableVars, shownVars, sectionAt>>

LeaveSection ==
    /\ stage = "listing" /\ currentAddress >= EndAddress
    /\ IF IsFile(fileAt)
       THEN /\ sourceStrings' = sourceStrings \o RestOf(fileAt, TRUE).lines
            /\ displayed' = [displayed EXCEPT ![fileAt] =
                                    IF Unfinished(fileAt) THEN Len(fileLines[fileAt]) ELSE @]
       ELSE UNCHANGED <<sourceStrings, displayed>>
    /\ lastWasEmpty' = FALSE
    /\ sectionAt' = sectionAt + 1 /\ stage' = "sections"
    /\ UNCHANGED <<object, unitVars, table, fileLines, fileAt, rowAt, currentAddress, symbolsLeft,
                   translations, sourceLabels>>

Built ==
    /\ stage = "sections" /\ sectionAt > Len(object.sections)
    /\ stage' = "done"
    /\ UNCHANGED <<object, unitVars, table, shownVars, placeVars, outVars>>

SourceInit ==
    /\ TableInit
    /\ fileLines = <<>> /\ displayed = <<>> /\ fileAt = 1 /\ rowAt = 1 /\ lastWasEmpty = FALSE
    /\ sectionAt = 1 /\ currentAddress = 0 /\ symbolsLeft = <<>>
    /\ sourceStrings = <<>> /\ translations = <<>> /\ sourceLabels = <<>>

SourceNext ==
    \/ TableNext /\ UNCHANGED <<shownVars, placeVars, outVars>>
    \/ FindFiles \/ SkipSection \/ EnterSection \/ SourceLine \/ Instruction \/ LeaveSection \/ Built

SourceSpec == SourceInit /\ [][SourceNext]_sourceVars

-----------------------------------------------------------------------------
IsBegun == stage \in {"sections", "listing", "done"}
Shows(i, is, of) == sourceStrings[i].is = is /\ sourceStrings[i].of = of
LinesShown(file) ==      \* the lines of a file in the listing that are not blank
    SelectSeq(sourceStrings,
              LAMBDA s : s.is = "source" /\ s.of # BlankLine /\ s.of \in ToSet(fileLines[file]))

(* A file's lines are listed in their order, from the first one to as many as *)
(* are counted, each of them once if it is not blank, wherever the listing    *)
(* goes to other files and comes back; and the file's name is over them.      *)
LinesOnceInOrder ==
    IsBegun => \A f \in DOMAIN fileLines :
        LET begun == SubSeq(fileLines[f], 1, UpTo(f, displayed[f]))
            Heads == {i \in DOMAIN sourceStrings : Shows(i, "file", table.paths[f])}
        IN /\ LinesShown(f) = [i \in DOMAIN SelectSeq(begun, LAMBDA t : t # BlankLine) |->
                                  Line(SelectSeq(begun, LAMBDA t : t # BlankLine)[i])]
           /\ Cardinality(Heads) = (IF displayed[f] = 0 THEN 0 ELSE 1)
           /\ \A i \in DOMAIN sourceStrings :
                sourceStrings[i].is = "source" /\ sourceStrings[i].of \in ToSet(fileLines[f]) \ {BlankLine}
                    => \E h \in Heads : h < i

(* Every instruction of the program is where its index says, and after the    *)
(* source of all rows at its address.                                         *)
CodeWords ==
    UNION {{s.first + 4 * k : k \in 0..(s.words - 1)} :
              s \in {t \in ToSet(object.sections) : t.executable}}
CodeAfterItsLines ==
    IsBegun =>
        /\ stage = "done" => DOMAIN translations = CodeWords
        /\ \A a \in DOMAIN translations :
            /\ Shows(translations[a] + 1, "code", a)
            /\ \A r \in {table.rows[k] : k \in 1..(rowAt - 1)} :
                r.address = a /\ IsFile(r.file) /\ r.line \in DOMAIN fileLines[r.file]
                    /\ fileLines[r.file][r.line] # BlankLine
                => \E i \in 1..translations[a] : Shows(i, "source", fileLines[r.file][r.line])

(* A row that no instruction is at stops the sources: but for such a row the  *)
(* source of every instruction is listed. The ends of the last sequence, and  *)
(* of sections not in the order of their addresses, are such rows too.        *)
Ascending == \A i, j \in DOMAIN object.sections :
    i < j /\ object.sections[i].executable /\ object.sections[j].executable
        => object.sections[i].first < object.sections[j].first
Reachable(r) == r.address \in CodeWords \/ \A a \in CodeWords : a < r.address
SourcesComplete ==
    stage = "done" /\ Ascending /\ (\A r \in ToSet(table.rows) : Reachable(r))
        => \A k \in rowAt..Len(table.rows) : table.rows[k].address \notin CodeWords

(* What is listed under a file's name is a file of that name, and it is       *)
(* listed if it was found less than two folders above the program's, unless a *)
(* file before it in the table has not been found.                            *)
IsFound(i) == table.paths[i] \in DOMAIN FoundFiles(table.paths)
Climbs(i) == ~AllInPlace(table.paths) /\ Place(table.paths, FolderOf(table.paths[i]))[1] >= 2
FilesRight ==
    IsBegun => \A i \in DOMAIN fileLines : (\A j \in 1..i : IsFound(j)) =>
        IF fileLines[i] = <<>> THEN Climbs(i)
        ELSE \E g \in DOMAIN Disk : LastName(g) = LastName(table.paths[i]) /\ fileLines[i] = Disk[g]

(* A label of a file is where its name is, one of a symbol at the line before *)
(* its instruction, and it has the name of a function if one is there. All    *)
(* functions have one, up to the first symbol of the section that is at no    *)
(* instruction: the listing waits for it and gives no label after it.         *)
SectionBytes(section) == section.first..(section.first + 4 * section.words - 1)
ComesTo(a) ==
    \A i \in {j \in DOMAIN object.sections : a \in SectionBytes(object.sections[j])} :
        \A b \in DOMAIN Names(i) : b <= a => b \in CodeWords
FunctionsAt(a) == {s.name : s \in {t \in ToSet(object.symbols) : t.info = "function" /\ t.address = a}}
LabelsRight ==
    IsBegun =>
        /\ \A l \in ToSet(sourceLabels) :
            IF l.name \in ToSet(table.paths) THEN Shows(l.at + 2, "file", l.name)
            ELSE /\ translations[l.address] \in {l.at, l.at + 1}
                 /\ FunctionsAt(l.address) # {} => l.name \in {NameText(n) : n \in FunctionsAt(l.address)}
        /\ stage = "done" => \A a \in CodeWords : FunctionsAt(a) # {} =>
                (ComesTo(a) <=> \E l \in ToSet(sourceLabels) :
                    l.address = a /\ l.name \in {NameText(n) : n \in FunctionsAt(a)})

(* The listing shows the program's line table, its files and its symbols.     *)
SourcesInv ==
    /\ RowsExact /\ TableExact
    /\ LinesOnceInOrder /\ CodeAfterItsLines /\ SourcesComplete
    /\ FilesRight /\ LabelsRight
=============================================================================
