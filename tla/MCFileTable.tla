----------------------------- MODULE MCFileTable -----------------------------
(***************************************************************************)
(* Instances of FileTable: two folders that may hold each other's entries, *)
(* two files that may have one name, one with an escape among them.        *)
(***************************************************************************)
EXTENDS FileTable, Naturals, FiniteSets, TLC

CONSTANTS outer, inner, report, copy, folderName, plain, escaped

\* An escape such as \a, which is read as a.  A name that breaks the statement only adds
\* renames that do nothing.
ReadEscape == [n \in Names |-> IF n = escaped THEN {plain} ELSE {n}]

ReadPlain == [n \in Names |-> {n}]

\* Nothing depends on the names of folders: one name for them is enough.
FolderNames == \A e \in Folders : name[e] \in {Null, folderName}

\* A restore reads two rows, the entry and its folder; the index does not read DeletedOn.
FewTrashed == Cardinality(trashed) <= 2

Symmetry == Permutations({outer, inner}) \cup Permutations({report, copy})
=============================================================================
