----------------------------- MODULE MCSources -----------------------------
(* Programs with their sources, for MCSimulator.                              *)
EXTENDS SourceListing
LOCAL INSTANCE TLC

(* Programs of two or three files, compiled here or elsewhere, the header in  *)
(* another tree; with a library whose files are missing, a unit in an older   *)
(* format or without abbreviation, code discarded at zero, a file that is not *)
(* to be found, a symbol between two instructions.                            *)
Absolute(parts) == [abs |-> TRUE, parts |-> parts]
Relative(parts) == [abs |-> FALSE, parts |-> parts]
McDisk ==
    Absolute(<<"code", "fw", "src", "main.c">>) :> <<11, 0, 0, 12, 13, 0, 0, 14>>
    @@ Absolute(<<"code", "fw", "src", "util.c">>) :> <<21, 0, 22, 23>>
    @@ Absolute(<<"code", "os", "src", "queue.h">>) :> <<31, 32, 0, 0, 33>>
McWorkingFolder == Absolute(<<"code">>)
McElfFolder == Absolute(<<"code", "fw", "bin">>)
McLibrary == <<"riscv-gcc", "libgcc">>
McAbbreviations == 1 :> {"stmt_list", "comp_dir"} @@ 2 :> {"comp_dir"}
McSections ==
    <<[executable |-> TRUE, loaded |-> TRUE, first |-> 256, words |-> 2],
      [executable |-> FALSE, loaded |-> TRUE, first |-> 512, words |-> 1],
      [executable |-> TRUE, loaded |-> TRUE, first |-> 264, words |-> 3]>>
Symbol(at, text, kind) == [address |-> at, name |-> text, info |-> kind]
McSymbols ==
    <<Symbol(256, "begin", "symbol"), Symbol(256, "start", "function"), Symbol(256, "entry", "symbol"),
      Symbol(260, "local", "other"), Symbol(268, "main", "function"), Symbol(512, "data", "symbol")>>
InTheMiddle == Symbol(266, "pool", "symbol")     \* at no instruction, before main
RowAt(at, f, l, c) == [address |-> at, file |-> f, line |-> l, column |-> c, end |-> FALSE]
Ended(rows, at) == Append(rows, [rows[Len(rows)] EXCEPT !.address = at, !.end = TRUE])
MainRows == Ended(<<RowAt(256, 1, 1, 0), RowAt(256, 2, 2, 7), RowAt(260, 1, 4, 130)>>, 264)
UtilRows == Ended(<<RowAt(268, 1, 4, 2), RowAt(272, 1, 3, 0)>>, 276)
LibraryRows == Ended(<<RowAt(264, 1, 100, 0), RowAt(264, 1, 20, 0)>>, 268)
CompiledUnit(top, names, rows) ==
    [type |-> "compile", version |-> 5, root |-> 1, compDir |-> Absolute(top),
     folders |-> <<Absolute(top)>> \o names[1], files |-> names[2], rows |-> rows]
MainUnit(top, src) ==
    CompiledUnit(top, <<<<src, Absolute(<<top[1], "os", "src">>)>>,
                    <<<<1, "main.c">>, <<1, "main.c">>, <<2, "queue.h">>>>>>, MainRows)
UtilUnit(top, src) ==
    CompiledUnit(top, <<<<src>>, <<<<0, "util.c">>, <<1, "util.c">>>>>>, UtilRows)
LibraryUnit ==
    CompiledUnit(<<"tools">>, <<<<Absolute(<<"tools">> \o McLibrary)>>, <<<<1, "div.c">>, <<1, "div.c">>>>>>,
                 LibraryRows)
BuiltHere == <<"code", "fw">>
BuiltAway == <<"build", "fw">>
Src == Relative(<<"src">>)
ObjectFile(units, symbols) == [units |-> units, sections |-> McSections, symbols |-> symbols]
McObjects == {ObjectFile(<<MainUnit(BuiltHere, Src)>>, Append(McSymbols, InTheMiddle))} \cup
  {ObjectFile(units, McSymbols) : units \in {
    <<MainUnit(BuiltHere, Src), LibraryUnit, UtilUnit(BuiltHere, Absolute(BuiltHere \o <<"src">>))>>,
    <<MainUnit(BuiltAway, Relative(<<".", "src">>)), [UtilUnit(BuiltAway, Src) EXCEPT !.version = 4],
      UtilUnit(BuiltAway, Src), LibraryUnit>>,
    <<[LibraryUnit EXCEPT !.type = "type"],
      [UtilUnit(BuiltHere, Src) EXCEPT !.rows = Ended(<<RowAt(0, 1, 3, 0)>>, 8)],
      [UtilUnit(BuiltHere, Src) EXCEPT !.root = 3], MainUnit(BuiltHere, Src)>>,
    <<[UtilUnit(BuiltHere, Src) EXCEPT !.files = <<<<1, "lost.c">>, <<1, "lost.c">>>>],
      [LibraryUnit EXCEPT !.root = 2]>>}}
=============================================================================
