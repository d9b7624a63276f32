------------------------------ MODULE Listing ------------------------------
(* The listing of the loaded programs in the debug window: what the console   *)
(* builds (riscv-sim/src/RISCVConsole.cpp, ConstructFirmwareStrings on), what *)
(* the window has of it (GUIScrollableTextViewLineBox.cpp), the breakpoints   *)
(* marked in both, and the labels the tooltips name an address by.            *)
EXTENDS Integers, Sequences

CONSTANTS
    FirmwarePrograms,   \* the programs: [lines: their lines, each an address or Source,
    CartridgePrograms,  \*  labels: their labels, as sequences <<name, address>>]
    Source,             \* a line that is not an instruction
    Counters,           \* where the processor may be, listed or not
    EntryPoint          \* where a reset puts it

NoLines == [lines |-> <<>>, labels |-> <<>>]
Nowhere == 0      \* no line: lines are counted from 1

VARIABLES
    firmware, cartridge,   \* the programs listed
    strings,     \* DInstructionStrings, each [addr, mark]
    indices,     \* DInstructionAddressesToIndices
    names,       \* DInstructionLabels; those of the firmware, of the cartridge and
    fwLabelAddresses, crLabelAddresses, labelAddresses,   \* of both: where they are
    breakpointSet, \* DBreakpoints
    shown,       \* the window's own lines
    highlighted, \* DHightlightedBufferedLine,
    bold,        \* and the lines that have its tag
    counter,          \* the program counter,
    seen,        \* history: and as the window last saw it
    failed,      \* history: a cartridge has been refused since the listing was built
    reloaded     \* history: a program has replaced another one of its kind

console == <<firmware, cartridge, strings, indices, names, fwLabelAddresses,
             crLabelAddresses, labelAddresses, breakpointSet>>
window == <<shown, highlighted, bold, seen>>
listingVars == <<console, window, counter, failed, reloaded>>

-----------------------------------------------------------------------------
(* ConstructInstructionStrings and what follows it: both programs one after   *)
(* the other, the second one's indices moved, and the breakpoints marked.     *)
ListedAddresses(p) == {p.lines[i] : i \in DOMAIN p.lines} \ {Source}

(* A program lists an address once and its labels in the order of their       *)
(* addresses, and the firmware's memory is below the cartridge's.             *)
ASSUME ListingAssumption ==
    /\ \A p \in FirmwarePrograms \cup CartridgePrograms :
          /\ p.lines \in Seq({Source} \cup Int) /\ p.labels \in Seq(STRING \X Int)
          /\ \A i, j \in DOMAIN p.lines : i # j /\ p.lines[i] = p.lines[j] => p.lines[i] = Source
          /\ \A i, j \in DOMAIN p.labels : i <= j => p.labels[i][2] <= p.labels[j][2]
    /\ \A f \in FirmwarePrograms, c \in CartridgePrograms : \A a \in ListedAddresses(f) :
          a \notin ListedAddresses(c) /\ \A i \in DOMAIN c.labels : a < c.labels[i][2]

IndexIn(p, a) == CHOOSE i \in DOMAIN p.lines : p.lines[i] = a
Indices(f, c) ==
    [a \in ListedAddresses(f) \cup ListedAddresses(c) |->
        IF a \in ListedAddresses(c) THEN Len(f.lines) + IndexIn(c, a) ELSE IndexIn(f, a)]
Marked(lines, index, breaks) ==
    [i \in DOMAIN lines |->
        [addr |-> lines[i], mark |-> \E a \in breaks \cap DOMAIN index : index[a] = i]]
NamesOf(p) == [i \in DOMAIN p.labels |-> p.labels[i][1]]
AllNames(f, c) == NamesOf(f) \o NamesOf(c)
AddressesOf(p) == [i \in DOMAIN p.labels |-> p.labels[i][2]]

Listed(f, c) ==
    /\ firmware' = f /\ cartridge' = c
    /\ indices' = Indices(f, c)
    /\ strings' = Marked(f.lines \o c.lines, indices', breakpointSet)
    /\ names' = AllNames(f, c)

(* The window. A line that is not there, -1 in the code, is Nowhere.          *)
LineOf(a) == IF a \in DOMAIN indices THEN indices[a] ELSE Nowhere
Highlight(lines, tags, old, line) ==
    IF line \in DOMAIN lines
    THEN highlighted' = line /\ bold' = (tags \ {old}) \cup {line}
    ELSE highlighted' = old /\ bold' = tags \ {old}

(* RefreshDebugRegisters, when the lines are the window's own,                *)
Refresh(at, line) ==
    /\ Highlight(shown, bold, highlighted, line)
    /\ seen' = at /\ UNCHANGED shown
(* and after SetBufferedLines, which forgets the line that was highlighted.   *)
SetLines(at, lines, line) ==
    /\ shown' = lines
    /\ Highlight(lines, {}, Nowhere, line)
    /\ seen' = at

-----------------------------------------------------------------------------
LineIn(index, a) == IF a \in DOMAIN index THEN index[a] ELSE Nowhere

ProgramFirmware(p) ==
    /\ Listed(p, cartridge)
    /\ fwLabelAddresses' = fwLabelAddresses \o AddressesOf(p)      \* never cleared
    /\ labelAddresses' = fwLabelAddresses' \o crLabelAddresses
    /\ counter' = EntryPoint
    /\ SetLines(EntryPoint, strings', LineIn(indices', EntryPoint))
    /\ failed' = FALSE /\ reloaded' = (reloaded \/ fwLabelAddresses # <<>>)
    /\ UNCHANGED <<breakpointSet, crLabelAddresses>>

InsertCartridge(p) ==
    /\ cartridge = NoLines
    /\ Listed(firmware, p)
    /\ crLabelAddresses' = crLabelAddresses \o AddressesOf(p)
    /\ labelAddresses' = fwLabelAddresses \o crLabelAddresses'
    /\ SetLines(counter, strings', LineIn(indices', counter))
    /\ failed' = FALSE /\ reloaded' = (reloaded \/ crLabelAddresses # <<>>)
    /\ UNCHANGED <<breakpointSet, fwLabelAddresses, counter>>

(* A cartridge outside its memory: InsertCartridge returns false, which is    *)
(* the cycle 0 to the window: it shows the listing the console has.           *)
RefusedCartridge ==
    /\ cartridge = NoLines
    /\ SetLines(counter, strings, LineOf(counter))
    /\ failed' = TRUE
    /\ UNCHANGED <<console, counter, reloaded>>

RemoveCartridge ==
    /\ Listed(firmware, NoLines)
    /\ SetLines(counter, strings', LineIn(indices', counter))
    /\ failed' = FALSE
    /\ UNCHANGED <<breakpointSet, fwLabelAddresses, crLabelAddresses, labelAddresses, counter, reloaded>>

(* A double click on a line: the window's mark decides which way it goes.     *)
(* UpdateBufferedLine puts the tag back on the line it is on.                 *)
Rebolded(i) == IF i = highlighted THEN bold \cup {i} ELSE bold \ {i}
ToggleNever(i) == shown' = shown     \* mutant: the line is not rewritten
Rewritten(i) == shown' = [shown EXCEPT ![i].mark = ~@]
InstructionBoxButtonEvent(i) ==
    /\ i \in DOMAIN shown /\ shown[i].addr # Source
    /\ Rewritten(i)
    /\ bold' = Rebolded(i)
    /\ breakpointSet' = IF shown[i].mark THEN breakpointSet \ {shown[i].addr}
                      ELSE breakpointSet \cup {shown[i].addr}
    /\ UNCHANGED <<firmware, cartridge, strings, indices, names, fwLabelAddresses, crLabelAddresses,
                   labelAddresses, highlighted, seen, counter, failed, reloaded>>

(* The Clear button takes the marks away in the window and in the console. *)
Unmarked(all, lines) ==
    [i \in DOMAIN all |-> IF i \in lines THEN [all[i] EXCEPT !.mark = FALSE] ELSE all[i]]
ClearButtonClickEvent ==
    LET lines == {indices[a] : a \in breakpointSet \cap DOMAIN indices} IN
    /\ shown' = Unmarked(shown, lines)
    /\ strings' = Unmarked(strings, lines)
    /\ bold' = (bold \ lines) \cup (lines \cap {highlighted})
    /\ breakpointSet' = {}
    /\ UNCHANGED <<firmware, cartridge, indices, names, fwLabelAddresses, crLabelAddresses, labelAddresses,
                   highlighted, seen, counter, failed, reloaded>>

(* The machine runs and stops, or steps: the window follows when it has. *)
RunAndStop(a) ==
    /\ counter' = a /\ Refresh(a, LineOf(a))
    /\ UNCHANGED <<console, failed, reloaded>>

ListingInit ==
    /\ firmware = NoLines /\ cartridge = NoLines
    /\ strings = <<>> /\ indices = <<>> /\ names = <<>>
    /\ fwLabelAddresses = <<>> /\ crLabelAddresses = <<>> /\ labelAddresses = <<>>
    /\ breakpointSet = {} /\ shown = <<>> /\ highlighted = Nowhere /\ bold = {}
    /\ counter = EntryPoint /\ seen = EntryPoint /\ failed = FALSE /\ reloaded = FALSE
ListingNext ==
    \/ ~reloaded /\ \E p \in FirmwarePrograms : ProgramFirmware(p)
    \/ ~reloaded /\ \E p \in CartridgePrograms : InsertCartridge(p)
    \/ RefusedCartridge \/ RemoveCartridge \/ ClearButtonClickEvent
    \/ \E i \in DOMAIN shown : InstructionBoxButtonEvent(i)
    \/ \E a \in Counters : RunAndStop(a)
ListingSpec == ListingInit /\ [][ListingNext]_listingVars

-----------------------------------------------------------------------------
(* FindLabelFromAddress: the last label that is not behind the address *)
LabelOf(a) ==
    LET before == {i \in DOMAIN labelAddresses : labelAddresses[i] <= a}
        best == CHOOSE i \in before : \A j \in before : j <= i
    IN IF before = {} \/ best > Len(names) THEN "" ELSE names[best]

(* The window marks exactly the lines of the breakpoints, whatever was        *)
(* programmed, inserted and removed since they were set; not so once a        *)
(* cartridge has been refused.                                                *)
Marks == \A i \in DOMAIN shown :
            shown[i].addr # Source => (shown[i].mark <=> shown[i].addr \in breakpointSet)
MarksAreBreakpoints == ~failed => Marks

(* Every address finds its own line in the window. *)
IndicesFindTheirLines ==
    \A a \in ListedAddresses(firmware) \cup ListedAddresses(cartridge) :
        a \in DOMAIN indices /\ indices[a] \in DOMAIN shown /\ shown[indices[a]].addr = a

(* The bold line is that of the instruction the window was last told of.      *)
CurrentIsBold == seen \in DOMAIN indices /\ shown # <<>> => bold = {indices[seen]}

(* An address of a listed program is named by the label of that program it    *)
(* comes after, as long as no program was loaded in the place of another.     *)
NamesAreTheirs ==
    ~reloaded =>
        \A p \in {firmware, cartridge} : \A a \in ListedAddresses(p) :
            LET before == {i \in DOMAIN p.labels : p.labels[i][2] <= a} IN
            before # {} => \E i \in before : /\ \A j \in before : p.labels[j][2] <= p.labels[i][2]
                                             /\ LabelOf(a) = p.labels[i][1]

(* The listing tells of the machine what is so, up to those two exceptions.   *)
ListingInv == MarksAreBreakpoints /\ IndicesFindTheirLines /\ CurrentIsBold /\ NamesAreTheirs
=============================================================================
