--------------------------- MODULE FileTableProofs ---------------------------
(***************************************************************************)
(* Theorems about FileTable, for any number of entries, names and missing  *)
(* parents.                                                                *)
(***************************************************************************)
EXTENDS FileTable, TLAPS

LEMMA TypesKept == TypeOK /\ [Next]_vars => TypeOK'
<1> SUFFICES ASSUME TypeOK, [Next]_vars PROVE TypeOK'
  OBVIOUS
<1> USE DEF TypeOK, Statuses, ParentIds, Inserted
<1>1. ASSUME NEW e \in Entries, NEW n \in Names, NEW p \in ParentIds,
             NEW s \in {"pending", "completed"}, AddFile(e, n, p, s)
      PROVE  TypeOK'
  BY <1>1 DEF AddFile, Hash
<1>2. ASSUME NEW e \in Entries, NEW n \in Names, RenameFile(e, n) PROVE TypeOK'
  BY <1>2, ReadAssumption DEF RenameFile, Hash
<1>3. ASSUME NEW e \in Entries, DeleteFile(e) PROVE TypeOK'
  BY <1>3 DEF DeleteFile
<1>4. ASSUME NEW e \in Entries, RestoreDeletedFiles(e) PROVE TypeOK'
  BY <1>4 DEF RestoreDeletedFiles, LiveParent
<1>5. ASSUME NEW e \in Entries, UploadCompleted(e) PROVE TypeOK'
  BY <1>5 DEF UploadCompleted
<1>6. ASSUME NEW e \in Entries, UploadFailed(e) PROVE TypeOK'
  BY <1>6 DEF UploadFailed
<1>7. CASE UNCHANGED vars
  BY <1>7 DEF vars
<1>8. QED
  BY <1>1, <1>2, <1>3, <1>4, <1>5, <1>6, <1>7 DEF Next, PostAddFolder, UploadGenerateId

\* Every reachable table is well typed.
THEOREM TableTypes == Spec => []TypeOK
<1>1. Init => TypeOK
  BY DEF Init, TypeOK, Statuses, ParentIds, Inserted, Hash
<1>2. QED
  BY <1>1, TypesKept, PTL DEF Spec

\* What a step does to the parents: a new row takes a known, a missing or the root
\* parent; a restored one goes to the root; the others stay.
ParentStep ==
  \/ UNCHANGED parent
  \/ \E e \in Entries, p \in ParentIds :
       status[e] = "none" /\ parent' = [parent EXCEPT ![e] = p]
  \/ \E e \in Entries : parent' = [parent EXCEPT ![e] = Root]

LEMMA ParentSteps ==
  ASSUME TypeOK, [Next]_vars PROVE ParentStep
<1> USE DEF ParentStep
<1>1. ASSUME NEW e \in Entries, NEW n \in Names, NEW p \in ParentIds,
             NEW s \in {"pending", "completed"}, AddFile(e, n, p, s)
      PROVE  ParentStep
  BY <1>1 DEF AddFile
<1>2. ASSUME NEW e \in Entries, RestoreDeletedFiles(e) PROVE ParentStep
  <2>1. CASE LiveParent(e) = parent[e]
    BY <1>2, <2>1 DEF RestoreDeletedFiles, TypeOK
  <2>2. CASE LiveParent(e) = Root
    BY <1>2, <2>2 DEF RestoreDeletedFiles
  <2>3. QED
    BY <2>1, <2>2 DEF LiveParent
<1>3. ASSUME UNCHANGED parent PROVE ParentStep
  BY <1>3
<1>4. QED
  BY <1>1, <1>2, <1>3
  DEF Next, PostAddFolder, UploadGenerateId, RenameFile, DeleteFile, UploadCompleted,
      UploadFailed, vars

\* No folder ever holds itself, at any depth: the query of GetBreadcrumbs ends.
THEOREM NoFolderInItself == Spec => []FoldersAcyclic
<1>1. Init => FoldersAcyclic
  BY PlaceAssumption DEF Init, FoldersAcyclic
<1>2. TypeOK /\ FoldersAcyclic /\ [Next]_vars => FoldersAcyclic'
  <2> SUFFICES ASSUME TypeOK, FoldersAcyclic, [Next]_vars,
                      NEW group \in SUBSET Entries, group # {}
               PROVE  \E g \in group : parent'[g] \notin group
    BY DEF FoldersAcyclic
  <2> DEFINE SomeOutside == \E g \in group : parent'[g] \notin group
  <2>1. ASSUME UNCHANGED parent PROVE SomeOutside
    BY <2>1 DEF FoldersAcyclic
  <2>2. ASSUME NEW e \in Entries, NEW p \in ParentIds, status[e] = "none",
               parent' = [parent EXCEPT ![e] = p]
        PROVE  SomeOutside
    <3>1. \A g \in Entries : parent[g] # e /\ p # e
      BY <2>2, PlaceAssumption DEF TypeOK, ParentIds, Inserted
    <3>2. CASE group \subseteq {e}
      BY <2>2, <3>1, <3>2 DEF TypeOK
    <3>3. CASE ~ group \subseteq {e}
      <4>1. PICK g \in group \ {e} : parent[g] \notin group \ {e}
        BY <3>3 DEF FoldersAcyclic
      <4>2. QED
        BY <2>2, <3>1, <4>1 DEF TypeOK
    <3>4. QED
      BY <3>2, <3>3
  <2>3. ASSUME NEW e \in Entries, parent' = [parent EXCEPT ![e] = Root]
        PROVE  SomeOutside
    <3>1. CASE e \in group
      BY <2>3, <3>1, PlaceAssumption DEF TypeOK
    <3>2. CASE e \notin group
      BY <2>3, <3>2 DEF FoldersAcyclic, TypeOK
    <3>3. QED
      BY <3>1, <3>2
  <2>4. ParentStep
    BY ParentSteps
  <2> HIDE DEF SomeOutside
  <2>5. SomeOutside
    BY <2>1, <2>2, <2>3, <2>4 DEF ParentStep
  <2>6. QED
    BY <2>5 DEF SomeOutside
<1>3. QED
  BY <1>1, <1>2, TableTypes, PTL DEF Spec

\* Hashes and names move together: a rename to a name with an escape hashes what the
\* statement makes of it, and only a restore to the root leaves a hash behind.
THEOREM HashesTrackRows == Spec => []HashTracksRow
<1>1. Init => HashTracksRow
  <2> SUFFICES ASSUME Init, NEW e \in Entries
               PROVE  name[e] = Null /\ parent[e] = Root
    BY DEF HashTracksRow
  <2>1. QED
    BY DEF Init
<1>2. TypeOK /\ HashTracksRow /\ [Next]_vars => HashTracksRow'
  <2> SUFFICES ASSUME TypeOK, HashTracksRow, [Next]_vars PROVE HashTracksRow'
    OBVIOUS
  <2> USE DEF TypeOK, HashTracksRow, Hash
  <2>1. ASSUME NEW e \in Entries, NEW n \in Names, NEW p \in ParentIds,
               NEW s \in {"pending", "completed"}, AddFile(e, n, p, s)
        PROVE  HashTracksRow'
    BY <2>1 DEF AddFile
  <2>2. ASSUME NEW e \in Entries, NEW n \in Names, RenameFile(e, n)
        PROVE  HashTracksRow'
    <3>1. PICK text \in Read[n] : hash' = [hash EXCEPT ![e] = <<text, parent[e]>>]
      BY <2>2 DEF RenameFile
    <3>2. /\ name' = [name EXCEPT ![e] = n]
          /\ UNCHANGED parent
      BY <2>2 DEF RenameFile
    <3>3. QED
      BY <3>1, <3>2
  <2>3. ASSUME NEW e \in Entries, RestoreDeletedFiles(e) PROVE HashTracksRow'
    BY <2>3 DEF RestoreDeletedFiles, LiveParent
  <2>4. ASSUME UNCHANGED <<name, parent, hash>> PROVE HashTracksRow'
    BY <2>4
  <2>5. QED
    BY <2>1, <2>2, <2>3, <2>4
    DEF Next, PostAddFolder, UploadGenerateId, DeleteFile, UploadCompleted,
        UploadFailed, vars
<1>3. QED
  BY <1>1, <1>2, TableTypes, PTL DEF Spec

\* What FileUniqueIndex enforces.
HashesUnique == \A e \in Entries : Indexed(e) => HashFree(e, hash[e])

LEMMA HashesStayUnique == Spec => []HashesUnique
<1>1. Init => HashesUnique
  BY DEF Init, HashesUnique, Indexed
<1>2. TypeOK /\ HashesUnique /\ [Next]_vars => HashesUnique'
  <2> SUFFICES ASSUME TypeOK, HashesUnique, [Next]_vars PROVE HashesUnique'
    OBVIOUS
  <2> USE DEF TypeOK, HashesUnique, HashFree, Indexed
  <2>1. ASSUME NEW e \in Entries, NEW n \in Names, NEW p \in ParentIds,
               PostAddFolder(e, n, p)
        PROVE  HashesUnique'
    BY <2>1 DEF PostAddFolder, AddFile
  <2>2. ASSUME NEW e \in Entries, NEW n \in Names, NEW p \in ParentIds,
               UploadGenerateId(e, n, p)
        PROVE  HashesUnique'
    <3>1. /\ hash' = [hash EXCEPT ![e] = Hash(n, p)]
          /\ status' = [status EXCEPT ![e] = "pending"]
          /\ HashFree(e, Hash(n, p))
      BY <2>2 DEF UploadGenerateId, AddFile
    <3>2. QED
      BY <3>1
  <2>3. ASSUME NEW e \in Entries, NEW n \in Names, RenameFile(e, n)
        PROVE  HashesUnique'
    <3>1. PICK h : hash' = [hash EXCEPT ![e] = h] /\ (Indexed(e) => HashFree(e, h))
      BY <2>3 DEF RenameFile
    <3>2. UNCHANGED status
      BY <2>3 DEF RenameFile
    <3>3. QED
      BY <3>1, <3>2
  <2>4. ASSUME NEW e \in Entries, UploadCompleted(e) PROVE HashesUnique'
    BY <2>4 DEF UploadCompleted, Inserted
  <2>5. ASSUME NEW e \in Entries, UploadFailed(e) PROVE HashesUnique'
    BY <2>5 DEF UploadFailed, Inserted
  <2>6. ASSUME UNCHANGED <<status, hash>> PROVE HashesUnique'
    BY <2>6
  <2>7. QED
    BY <2>1, <2>2, <2>3, <2>4, <2>5, <2>6
    DEF Next, DeleteFile, RestoreDeletedFiles, vars
<1>3. QED
  BY <1>1, <1>2, TableTypes, PTL DEF Spec

\* Every row has a name.
RowsNamed == \A e \in Inserted : name[e] # Null

LEMMA RowsAreNamed == Spec => []RowsNamed
<1>1. Init => RowsNamed
  BY DEF Init, RowsNamed, Inserted
<1>2. TypeOK /\ RowsNamed /\ [Next]_vars => RowsNamed'
  <2> SUFFICES ASSUME TypeOK, RowsNamed, [Next]_vars PROVE RowsNamed'
    OBVIOUS
  <2> USE NameAssumption DEF TypeOK, RowsNamed, Inserted
  <2>1. ASSUME NEW e \in Entries, NEW n \in Names, NEW p \in ParentIds,
               NEW s \in {"pending", "completed"}, AddFile(e, n, p, s)
        PROVE  RowsNamed'
    BY <2>1 DEF AddFile
  <2>2. ASSUME NEW e \in Entries, NEW n \in Names, RenameFile(e, n) PROVE RowsNamed'
    BY <2>2 DEF RenameFile
  <2>3. ASSUME NEW e \in Entries, UploadCompleted(e) \/ UploadFailed(e)
        PROVE  RowsNamed'
    BY <2>3 DEF UploadCompleted, UploadFailed
  <2>4. ASSUME UNCHANGED <<status, name>> PROVE RowsNamed'
    BY <2>4
  <2>5. QED
    BY <2>1, <2>2, <2>3, <2>4
    DEF Next, PostAddFolder, UploadGenerateId, DeleteFile, RestoreDeletedFiles, vars
<1>3. QED
  BY <1>1, <1>2, TableTypes, PTL DEF Spec

\* In a folder that is not the root, pending and completed files that have a name no
\* rename hashes as another one have it for themselves: unique hashes, and hashes that
\* are those of name and folder.
THEOREM FolderNamesDistinct == Spec => []NamesDistinctInFolders
<1>1. TypeOK /\ RowsNamed /\ HashTracksRow /\ HashesUnique => NamesDistinctInFolders
  <2> SUFFICES ASSUME TypeOK, RowsNamed, HashTracksRow, HashesUnique,
                      NEW e \in Entries, NEW f \in Entries, SameFile(e, f),
                      Read[name[e]] \subseteq {name[e]}, parent[e] # Root
               PROVE  FALSE
    BY DEF NamesDistinctInFolders
  <2>1. hash[e] # hash[f]
    BY DEF HashesUnique, HashFree, SameFile
  <2>2. name[e] # Null /\ name[f] = name[e] /\ parent[f] = parent[e]
    BY DEF SameFile, RowsNamed, Indexed, Inserted
  <2>3. hash[e] = <<name[e], parent[e]>> /\ hash[f] = <<name[f], parent[f]>>
    BY <2>2 DEF HashTracksRow, TypeOK
  <2>4. QED
    BY <2>1, <2>2, <2>3
<1>2. QED
  BY <1>1, TableTypes, RowsAreNamed, HashesTrackRows, HashesStayUnique, PTL
=============================================================================
