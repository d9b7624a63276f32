-------------------------------- MODULE Path --------------------------------
(* File names and what the simulator makes of them (riscv-sim/src/Path.cpp,   *)
(* FileDataContainer.cpp). The text of a name is [abs, parts]: whether it     *)
(* begins with a slash, and what is between the slashes, none of it empty; a  *)
(* CPath is the same with what DecomposePath has resolved.                    *)
EXTENDS Integers, Sequences
LOCAL INSTANCE SequencesExt

NoText == [abs |-> FALSE, parts |-> <<>>]
Up == ".."
Here == "."

(* DecomposePath: ".." takes away whatever is before it, another ".." as      *)
(* well. Before the root it is an error, and the rest stays as it is.         *)
Decompose(text) ==
    LET Part(d, c) ==
            CASE ~d.valid         -> [d EXCEPT !.parts = Append(@, c)]
              [] d.valid /\ c = Here -> d
              [] d.valid /\ c = Up /\ d.parts # <<>> -> [d EXCEPT !.parts = Front(@)]
              [] d.valid /\ c = Up /\ d.parts = <<>> ->
                    [valid |-> ~text.abs, parts |-> <<Up>>]
              [] OTHER -> [d EXCEPT !.parts = Append(@, c)]
    IN FoldLeft(Part, [valid |-> text # NoText, parts |-> <<>>], text.parts)
Path(text) ==
    LET d == Decompose(text) IN [abs |-> text.abs, valid |-> d.valid, parts |-> d.parts]

(* ToString and Containing. What is no path has an empty text, and so have the *)
(* root and the relative path without parts.                                  *)
ToText(p) ==
    CASE ~p.valid \/ p.parts = <<>> -> NoText
      [] p.valid /\ p.parts # <<>> /\ (p.abs \/ Head(p.parts) = Up) -> [abs |-> p.abs, parts |-> p.parts]
      [] OTHER -> [abs |-> FALSE, parts |-> <<Here>> \o p.parts]

Containing(p) ==
    CASE p.parts # <<>> -> [p EXCEPT !.parts = Front(@)]
      [] p.parts = <<>> /\ ~p.abs -> [p EXCEPT !.parts = <<Up>>]
      [] OTHER -> [p EXCEPT !.valid = FALSE]

(* SimplifyPath: src, with dest followed from there; dest has been resolved,  *)
(* so that what it goes up it goes up first. Whether src or dest are paths at *)
(* all does not matter here.                                                  *)
Simplify(src, dest) ==
    LET from == IF dest.abs THEN <<>> ELSE src.parts
        Part(r, c) ==
            CASE c = Up /\ r.parts # <<>> -> [r EXCEPT !.parts = Front(@)]
              [] c = Up /\ r.parts = <<>> -> [r EXCEPT !.valid = FALSE]
              [] OTHER -> [r EXCEPT !.parts = Append(@, c)]
        to == FoldLeft(Part, [valid |-> TRUE, parts |-> from], dest.parts)
    IN [abs |-> dest.abs \/ src.abs, valid |-> to.valid, parts |-> to.parts]
=============================================================================
