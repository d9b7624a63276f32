----------------------------- MODULE SourceFiles -----------------------------
(* Which files the simulator takes for the sources of a program               *)
(* (LoadElfSourceFiles in riscv-sim/src/RISCVConsole.cpp, and the directories *)
(* of FileDataContainer.cpp it looks in). The program was perhaps compiled    *)
(* elsewhere: if one source is not where it says, all are looked for from the *)
(* program's own directory upwards.                                           *)
EXTENDS Path

CONSTANTS
    Disk,           \* the files there are, by full name: their lines, each one a number,
    BlankLine,          \*  this one if it is blank
    WorkingFolder,  \* the simulator's
    ElfFolder,      \* and the program's, both absolute
    Library         \* the two folders, one in the other, of which files may be missing

ASSUME SourceFilesAssumption ==
    /\ \A f \in DOMAIN Disk : f.abs /\ Disk[f] \in Seq(Int)
    /\ WorkingFolder.abs /\ ElfFolder.abs /\ Len(Library) = 2

LastName(text) == text.parts[Len(text.parts)]
Within(folder, name) == [abs |-> folder.abs, parts |-> Append(folder.parts, name)]

(* CDirectoryDataContainer: a directory's full name, its files, what holds it *)
FullName(text) == ToText(Simplify(Path(WorkingFolder), Path(text)))
FilesIn(folder) == {LastName(f) : f \in {g \in DOMAIN Disk : g = Within(folder, LastName(g))}}
FolderAt(folder, text) == FullName(ToText(Simplify(Path(folder), Path(text))))
Holder(folder) == ToText(Containing(Path(folder)))
FileNamed(folder, text) == ToText(Simplify(Path(folder), Path(text)))

(* CLineDataSource: a file that is not there has no lines.                    *)
LinesAt(file) == IF file \in DOMAIN Disk THEN Disk[file] ELSE <<>>

-----------------------------------------------------------------------------
FolderOf(path) == ToText(Containing(Path(path)))
IsLibrary(path) ==
    \E i \in 1..(Len(path.parts) - 2) :
        (i > 1 \/ path.abs) /\ <<path.parts[i], path.parts[i + 1]>> = Library

(* Where it says: the name as it is written must be the one the directory     *)
(* gives it.                                                                  *)
Beside(folder, name) == ToText(Simplify(folder, Path([abs |-> FALSE, parts |-> <<name>>])))
Neighbours(path) == {Beside(Containing(Path(path)), n) : n \in FilesIn(FullName(FolderOf(path)))}
FoundInPlace(paths) == UNION {Neighbours(paths[i]) : i \in DOMAIN paths}
AllInPlace(paths) ==
    \A i \in DOMAIN paths : paths[i] \in Neighbours(paths[i]) \/ IsLibrary(paths[i])

(* Elsewhere: all the files of one directory, in a directory that has files   *)
(* of all these names, some levels above the program and some below there     *)
(* along the end of the directory's own name; as few above as can be.         *)
Sought(paths) == {paths[i] : i \in {j \in DOMAIN paths : ~(paths[j].abs /\ IsLibrary(paths[j]))}}
Folders(paths) == {FolderOf(p) : p \in Sought(paths)}
NamesIn(paths, folder) == {LastName(p) : p \in {q \in Sought(paths) : FolderOf(q) = folder}}

Ups(u) == [i \in 1..u |-> Up]
Levels[u \in 0..Len(ElfFolder.parts)] == IF u = 0 THEN ElfFolder ELSE Holder(Levels[u - 1])
Below(folder, d) ==
    LET parts == Path(folder).parts
    IN [abs |-> FALSE, parts |-> <<Here>> \o SubSeq(parts, Len(parts) - d + 1, Len(parts))]
FoundPlaces(paths, folder) ==
    {<<u, d>> \in (0..(Len(ElfFolder.parts) - 1)) \X (0..Len(Path(folder).parts)) :
        NamesIn(paths, folder) \subseteq FilesIn(FolderAt(Levels[u], Below(folder, d)))}
Place(paths, folder) ==
    CHOOSE x \in FoundPlaces(paths, folder) :
        \A y \in FoundPlaces(paths, folder) : x[1] < y[1] \/ (x[1] = y[1] /\ x[2] <= y[2])
MappedFolder(paths, folder) ==
    LET x == Place(paths, folder)
    IN [abs |-> FALSE, parts |-> Ups(x[1]) \o Below(folder, x[2]).parts]
Relocated(paths, p) == Beside(Path(MappedFolder(paths, FolderOf(p))), LastName(p))

(* FoundFiles: the name under which each path is opened.                      *)
Findable(paths) == AllInPlace(paths) \/ \A f \in Folders(paths) : FoundPlaces(paths, f) # {}
FoundFiles(paths) ==
    IF AllInPlace(paths)
    THEN [p \in {q \in {paths[i] : i \in DOMAIN paths} : q \in FoundInPlace(paths)} |-> p]
    ELSE [p \in Sought(paths) |-> Relocated(paths, p)]

(* The lines of the files found, one after another: a file that is not found  *)
(* leaves its place to the next.                                              *)
FoundIn(paths) == SelectSeq(paths, LAMBDA p : p \in DOMAIN FoundFiles(paths))
FileLines(paths) ==
    LET found == FoundIn(paths)
    IN [i \in DOMAIN paths |->
            IF i \in DOMAIN found THEN LinesAt(FileNamed(ElfFolder, FoundFiles(paths)[found[i]])) ELSE <<>>]
LoadElfSourceFiles(paths) == IF Findable(paths) THEN FileLines(paths) ELSE <<>>
=============================================================================
