----------------------------- MODULE MemoryBox -----------------------------
(* The memory view of the debug window                                       *)
(* (riscv-sim/src/GUIScrollableMemoryLabelBox.cpp on top of                   *)
(* GUIScrollableLabelBox.cpp): the lines of all regions one after another,    *)
(* as many labels as fit, a scroll bar, and two directions: the buttons of    *)
(* the regions show an address at the top, the SP button shows the memory     *)
(* upwards from the bottom. An address is the number of its line of 16 bytes. *)
EXTENDS Integers, Sequences, FiniteSets

CONSTANTS
    Regions,     \* DMemoryBases and DMemoryLines: <<base, lines>>, in their order
    Labels,      \* how many lines fit, fewer than there are
    AskedLines   \* the addresses the buttons and the registers ask for

ASSUME BoxAssumption ==
    /\ Labels \in Nat \ {0} /\ Regions \in Seq(Nat \X (Nat \ {0}))
    /\ \A i \in 1..Len(Regions)-1 : Regions[i][1] + Regions[i][2] <= Regions[i+1][1]

VARIABLES
    value,       \* of the scroll bar, which is DBaseLine as well
    ascending,   \* DAscending
    baseAddress, \* DBaseAddress
    rows,        \* the address each label shows
    wanted       \* history: the last address asked for, until the user scrolls

boxVars == <<value, ascending, baseAddress, rows, wanted>>

-----------------------------------------------------------------------------
MemoryLines == UNION {r[1]..r[1]+r[2]-1 : r \in {Regions[i] : i \in DOMAIN Regions}}
LineTotal == Cardinality(MemoryLines)
ASSUME LabelsAssumption == Labels <= LineTotal
LinesBefore(a) == Cardinality({m \in MemoryLines : m < a})
LineAddress(k) == CHOOSE m \in MemoryLines : LinesBefore(m) = k
Above(a) == LET later == {m \in MemoryLines : m > a}
            IN IF later = {} THEN a + 1 ELSE CHOOSE m \in later : \A n \in later : m <= n

(* The value a scroll bar takes when it is set (GTK clamps it to its range),  *)
(* which SetBaseLine does not when there is no such line.                     *)
Clamp(v) == IF v + Labels <= LineTotal THEN v ELSE LineTotal - Labels
AfterSetBaseLine(line) == IF line \in 0..LineTotal-1 THEN Clamp(line) ELSE value

(* UpdateBaseLine: where the scroll bar goes for an address. Past the last    *)
(* region the unsigned subtraction wraps and there is no such line.           *)
LineFor(a, asc) ==
    IF asc THEN LinesBefore(a)
    ELSE LET line == LineTotal - LinesBefore(a) - 1
         IN IF line \in 0..Labels-1 THEN 0 ELSE line - Labels

(* RefreshLabels: the first line shown, the lowest address of the view, and   *)
(* the labels from there on; when the regions end the rest is left as it was. *)
FirstLine(v, asc) ==
    IF asc THEN v
    ELSE LET line == LineTotal - v - 1 IN IF line < Labels THEN 0 ELSE line - Labels + 1
RowsFrom(old, first, asc) ==
    [i \in 1..Labels |->
        LET line == first + (IF asc THEN i - 1 ELSE Labels - i)
        IN IF line < LineTotal THEN LineAddress(line) ELSE old[i]]
RefreshLabels(v, asc, base) ==
    LET first == LineAddress(FirstLine(v, asc))
        last == LineAddress(Clamp(FirstLine(v, asc)) + Labels - 1)
    IN /\ rows' = RowsFrom(rows, FirstLine(v, asc), asc)
       /\ baseAddress' = IF asc \/ base < first \/ base >= Above(last) THEN first ELSE base

(* SetBaseAddress: the labels follow when the scroll bar moves, whose         *)
(* callback does it, or the direction changes.                                *)
FollowsScrollBar(asc, v) == v # value    \* mutant: a new direction alone is not enough
Follows(asc, v) == v # value \/ asc # ascending
SetBaseAddress(a, asc) ==
    LET v == AfterSetBaseLine(LineFor(a, asc)) IN
    /\ ascending' = asc /\ value' = v
    /\ wanted' = <<a, asc>>
    /\ IF Follows(asc, v) THEN RefreshLabels(v, asc, a) ELSE baseAddress' = a /\ UNCHANGED rows

(* The user's wheel and the scroll bar itself *)
Scroll(v) ==
    /\ v # value
    /\ value' = v /\ wanted' = <<>>
    /\ RefreshLabels(v, ascending, baseAddress)
    /\ UNCHANGED ascending

(* The constructor, with the labels the window then asks for *)
BoxInit ==
    /\ value = 0 /\ ascending = TRUE /\ baseAddress = Regions[1][1] /\ wanted = <<>>
    /\ rows = [i \in 1..Labels |-> LineAddress(i - 1)]

BoxNext ==
    \/ \E a \in AskedLines, asc \in BOOLEAN : SetBaseAddress(a, asc)
    \/ \E v \in 0..Clamp(LineTotal) : Scroll(v)
BoxSpec == BoxInit /\ [][BoxNext]_boxVars

-----------------------------------------------------------------------------
(* The labels show neighbouring lines of the memory, upwards or downwards as  *)
(* the direction says, and those the scroll bar is at: no label is left over  *)
(* from before a jump or a change of direction.                               *)
RowsFollow ==
    /\ \A i \in 1..Labels-1 :
          IF ascending THEN rows[i+1] = Above(rows[i]) ELSE rows[i] = Above(rows[i+1])
    /\ LinesBefore(rows[1]) = IF ascending THEN value ELSE LineTotal - value - 1

(* What the buttons bring into the view. A region's address is at the top,    *)
(* unless the end of the memory is closer. SP, which shows the memory         *)
(* upwards from the bottom, does not go to the line of sp, although           *)
(* docs/simulator.md:31 has it that it "will jump to the location of the `sp` *)
(* (stack pointer) register": as long as more lines follow than there are     *)
(* labels, the view begins one line after it, so that its own line is out of  *)
(* the view.                                                                  *)
AskedIsShown ==
    wanted # <<>> /\ wanted[1] \in MemoryLines =>
        IF wanted[2] THEN /\ \E i \in 1..Labels : rows[i] = wanted[1]
                          /\ value < Clamp(LineTotal) => rows[1] = wanted[1]
        ELSE IF LinesBefore(wanted[1]) + Labels < LineTotal THEN rows[Labels] = Above(wanted[1])
             ELSE \E i \in 1..Labels : rows[i] = wanted[1]

(* The view is one stretch of the memory, which begins where a button put it. *)
BoxInv == RowsFollow /\ AskedIsShown
=============================================================================
