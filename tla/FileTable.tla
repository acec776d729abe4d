------------------------------ MODULE FileTable ------------------------------
(***************************************************************************)
(* The File table of one account (src/src/db_gateway/file_gateway.go) as   *)
(* the handlers of src/src/api/file_handler.go change it.  Every handler   *)
(* changes the table in one statement, a transaction of its own; the       *)
(* queries that follow it change nothing.  A request that fails, for a     *)
(* taken hash or a database error, changes nothing either.                 *)
(***************************************************************************)
CONSTANTS
  Entries,   \* file ids: rows of the table and those still to be inserted
  Folders,   \* the entries of type dir
  Names,     \* texts of file name and extension, joined as the hash joins them
  Read,      \* name -> the texts MySQL may read where a statement spells it out
  Missing,   \* parent ids a client may send that no row has
  Root,      \* the empty parent id
  Null       \* no value

ASSUME FolderAssumption == Folders \subseteq Entries
ASSUME PlaceAssumption == Root \notin Entries \cup Missing /\ Missing \cap Entries = {}
ASSUME NameAssumption == Null \notin Names

\* A plain name is read as itself.  One with an escape stands for another text (which
\* one depends on where its extension begins), one that ends the literal early for none:
\* the statement is refused.  A name after which the statement would be another one
\* that MySQL accepts is not in Names.
ASSUME ReadAssumption == Read \in [Names -> SUBSET Names]

VARIABLES
  status,    \* entry -> UploadStatus, "none" before the insert
  name,      \* entry -> FileName and Extension
  parent,    \* entry -> ParentID
  trashed,   \* the entries whose DeletedOn is set
  hash       \* entry -> UniqueHash: the text and the parent id it was made of

vars == <<status, name, parent, trashed, hash>>

Statuses == {"none", "pending", "failed", "completed"}

\* Mutant: a client makes up the ids.
AnyEntry == Entries

Inserted == {e \in Entries : status[e] # "none"}

\* The ids a request may name as a parent: nothing checks that there is such a
\* row, that it is a folder, or that it is not in the trash.
ParentIds == Inserted \cup Missing \cup {Root}

\* HashString(account, name, extension, parent)
Hash(n, p) == <<n, p>>

\* The entries FileUniqueIndex covers; the trash makes no difference.
Indexed(e) == e \notin Folders /\ status[e] \in {"pending", "completed"}

\* Mutant: the index covers completed files only.
HashFreeOfCompleted(e, h) ==
  \A f \in Entries \ {e} : (Indexed(f) /\ status[f] = "completed") => hash[f] # h

HashFree(e, h) == \A f \in Entries \ {e} : Indexed(f) => hash[f] # h

Init ==
  /\ status = [e \in Entries |-> "none"]
  /\ name = [e \in Entries |-> Null]
  /\ parent = [e \in Entries |-> Root]
  /\ trashed = {}
  /\ hash = [e \in Entries |-> Hash(Null, Root)]

\* AddFile with the row NewFile makes.
AddFile(e, n, p, s) ==
  /\ status[e] = "none"
  /\ status' = [status EXCEPT ![e] = s]
  /\ name' = [name EXCEPT ![e] = n]
  /\ parent' = [parent EXCEPT ![e] = p]
  /\ hash' = [hash EXCEPT ![e] = Hash(n, p)]
  /\ UNCHANGED trashed

PostAddFolder(e, n, p) ==
  /\ e \in Folders
  /\ AddFile(e, n, p, "completed")

UploadGenerateId(e, n, p) ==
  /\ e \notin Folders
  /\ HashFree(e, Hash(n, p))
  /\ AddFile(e, n, p, "pending")

\* Mutant: the hash is not computed again.
RenameOnly(e, n) ==
  /\ e \in Inserted
  /\ name' = [name EXCEPT ![e] = n]
  /\ UNCHANGED <<status, parent, trashed, hash>>

\* FileName is a bound parameter.  The name the new hash is made of stands between
\* quotes in the text of the statement; the row's present parent comes from the row.
RenameFile(e, n) ==
  /\ e \in Inserted
  /\ \E text \in Read[n] :
       /\ Indexed(e) => HashFree(e, Hash(text, parent[e]))
       /\ hash' = [hash EXCEPT ![e] = Hash(text, parent[e])]
  /\ name' = [name EXCEPT ![e] = n]
  /\ UNCHANGED <<status, parent, trashed>>

\* Only the entry itself: what a folder holds is not touched.
DeleteFile(e) ==
  /\ e \in Inserted
  /\ trashed' = trashed \cup {e}
  /\ UNCHANGED <<status, name, parent, hash>>

\* Mutant: without the COALESCE.
ParentOrNull(e) == IF parent[e] \in Inserted \ trashed THEN parent[e] ELSE Null

\* COALESCE(p.FileID, ''): the parent, unless it is missing or in the trash.
LiveParent(e) == IF parent[e] \in Inserted \ trashed THEN parent[e] ELSE Root

\* The statement also takes an entry that is not in the trash.  It leaves the
\* hash as it is.
RestoreDeletedFiles(e) ==
  /\ e \in Inserted
  /\ trashed' = trashed \ {e}
  /\ parent' = [parent EXCEPT ![e] = LiveParent(e)]
  /\ UNCHANGED <<status, name, hash>>

\* The end of an upload: UpdateFile writes completed.
UploadCompleted(e) ==
  /\ e \in Inserted \ Folders
  /\ HashFree(e, hash[e])
  /\ status' = [status EXCEPT ![e] = "completed"]
  /\ UNCHANGED <<name, parent, trashed, hash>>

\* UpdateUploadStatus writes failed.
UploadFailed(e) ==
  /\ e \in Inserted \ Folders
  /\ status' = [status EXCEPT ![e] = "failed"]
  /\ UNCHANGED <<name, parent, trashed, hash>>

Next ==
  \E e \in Entries :
    \/ \E n \in Names, p \in ParentIds : PostAddFolder(e, n, p) \/ UploadGenerateId(e, n, p)
    \/ \E n \in Names : RenameFile(e, n)
    \/ DeleteFile(e) \/ RestoreDeletedFiles(e)
    \/ UploadCompleted(e) \/ UploadFailed(e)

Spec == Init /\ [][Next]_vars
-----------------------------------------------------------------------------
(* Properties *)

\* Every column holds a value of its kind; only rows are in the trash or parents.
TypeOK ==
  /\ status \in [Entries -> Statuses]
  /\ name \in [Entries -> Names \cup {Null}]
  /\ parent \in [Entries -> ParentIds]
  /\ trashed \subseteq Inserted
  /\ hash \in [Entries -> (Names \cup {Null}) \X (Entries \cup Missing \cup {Root})]

\* However folders are added, trashed and restored, none is its own ancestor: of any
\* set of entries one has its parent outside.  The recursive query of
\* GetBreadcrumbs, whose only bound is MySQL's limit on recursion, therefore ends.
FoldersAcyclic ==
  \A group \in SUBSET Entries :
    group # {} => \E e \in group : parent[e] \notin group

\* The stored hash is that of the row's name, or of what a rename's statement made of
\* it, and of the row's folder; a restore may leave the hash of the former folder only
\* on entries it moves to the root.
HashTracksRow ==
  \A e \in Entries :
    /\ name[e] # Null => hash[e][1] \in {name[e]} \cup Read[name[e]]
    /\ parent[e] # Root => hash[e][2] = parent[e]

\* The index that keeps the names apart is on UniqueHash: two files it covers that have
\* one name and one parent.
SameFile(e, f) ==
  /\ e # f /\ Indexed(e) /\ Indexed(f)
  /\ name[e] = name[f] /\ parent[e] = parent[f]

\* Outside the root no two pending or completed files of a folder have one name, through
\* renames, the trash and uploads that fail and succeed late, if a rename to that name
\* hashes the name itself or is refused.
NamesDistinctInFolders ==
  \A e, f \in Entries :
    (SameFile(e, f) /\ Read[name[e]] \subseteq {name[e]}) => parent[e] = Root

\* The index "prevents duplicate entries for normal files who share the same parent
\* ID on the same account" (sql/scripts/00.testdb_setup.sql:33-34), the root included.
NoDuplicateFiles == \A e, f \in Entries : ~SameFile(e, f)
=============================================================================
