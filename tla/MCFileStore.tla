----------------------------- MODULE MCFileStore -----------------------------
(***************************************************************************)
(* An instance of FileStore: a folder, a file, two calls at once.          *)
(***************************************************************************)
EXTENDS FileStore, TLC

CONSTANTS album, photo, a, b, c1, c2

\* The lists show FileName; what a rename hashes is a matter of MCFileTable.
ReadPlain == [n \in Names |-> {n}]

\* The page opens on what former sessions of the account left in the table: nothing,
\* or the photo in the folder, in the trash or not.
FormerInit ==
  \E inserted \in {{}, Entries}, n \in Names :
    /\ status = [e \in Entries |-> IF e \in inserted THEN "completed" ELSE "none"]
    /\ name = [e \in Entries |-> IF e \in inserted THEN n ELSE Null]
    /\ parent = [e \in Entries |-> IF e \in inserted \ Folders THEN album ELSE Root]
    /\ trashed \in SUBSET (inserted \ Folders)
    /\ hash = [e \in Entries |-> Hash(name[e], parent[e])]
    /\ StoreInit

MCSpec == FormerInit /\ [][DriveNext]_driveVars

FewRaces == Cardinality(raced) + Cardinality(doubtful) <= 1

Symmetry == Permutations(Slots) \cup Permutations(Names)
=============================================================================
