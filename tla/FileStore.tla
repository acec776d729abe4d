------------------------------ MODULE FileStore ------------------------------
(***************************************************************************)
(* The pages of one browser tab and the lists of files they keep           *)
(* (frontend/src/context/FileStore.ts) over the File table.                *)
(*                                                                         *)
(* A list is fetched once per document and then changed by hand: the       *)
(* answer of every add, upload, rename, trash and restore edits it.  A     *)
(* call is sent, served, and its answer received, and any other step may   *)
(* come between these.  The connection may break before an answer arrives, *)
(* and the request may be served all the same.  The tab is the only one.   *)
(***************************************************************************)
EXTENDS FileTable, Integers, FiniteSets, Bags

CONSTANTS
  Slots,      \* calls that may be under way at once
  Trash,      \* the page and the key of the deleted files
  Free,       \* no call
  MaxLost,    \* bound on the answers lost, or reporting an error after the effect
  MaxClicks   \* bound on the changes asked for and the documents loaded

ASSUME TrashAssumption == Trash \notin Entries \cup {Root}
ASSUME BoundAssumption == MaxLost \in Nat /\ MaxClicks \in Nat
ASSUME StoreAssumption == Missing = {}

Pages == Folders \cup {Root, Trash}

\* FileResponse
Snapshots == [id : Entries, name : Names, parent : Folders \cup {Root},
              gone : BOOLEAN, status : Statuses]

Ops == {"list", "add", "upload", "rename", "delete", "restore"}

Calls == [op : Ops, at : Pages, id : Entries \cup {Null}, name : Names \cup {Null},
          stage : {"sent", "written", "answered", "refused"}, deaf : BOOLEAN,
          out : SUBSET Snapshots]

ASSUME FreeAssumption == Free \notin Calls

VARIABLES
  keys,      \* the pages files has a key for
  arrays,    \* those whose key holds an array: the others hold undefined
  cache,     \* page -> the objects of its array, none without one
  here,      \* the page that is open
  visited,   \* the pages of this document's history
  form,      \* StorageHome's fileId while its rename form is open, else Null
  calls,     \* slot -> the call under way
  \* history, read by properties only
  loaded,    \* the keys whose last list answer was a success
  raced,     \* keys listed, and entries changed, by two calls at the same time
  doubtful,  \* entries changed without the store being told
  lost,      \* number of answers lost
  clicks     \* number of changes asked for and documents loaded

storeVars == <<keys, arrays, cache, here, visited, form, calls,
               loaded, raced, doubtful, lost, clicks>>
driveVars == <<vars, storeVars>>

-----------------------------------------------------------------------------
(* The operations of the store *)

\* getFiles
GetFiles(k) == cache[k]

\* addFileResponse does not look for the id.
Added(store, s, k) == [store EXCEPT ![k] = @ (+) SetToBag({s})]

\* The key now holds an array.
Holds(k) == keys' = keys \cup {k} /\ arrays' = arrays \cup {k}

\* Mutant: the entry stays in the list.
NothingRemoved(e, k) == cache

\* removeFile
Removed(e, k) == [cache EXCEPT ![k] = [s \in {t \in DOMAIN @ : t.id # e} |-> @[s]]]

\* Mutant: the new object is appended, the old one stays.
Appended(s, k) ==
  /\ k \in arrays
  /\ cache' = [cache EXCEPT ![k] = @ (+) SetToBag({s})]

\* Mutant: the changed copy of the list never gets into the store.
CopyOnly(s, k) == UNCHANGED cache

\* replaceFile: the first entry of the id (any one: the order is not modelled),
\* else the new one is appended; without an array the spread throws.
ReplaceFile(s, k) ==
  LET old == {t \in DOMAIN GetFiles(k) : t.id = s.id} IN
  \/ k \notin arrays /\ UNCHANGED cache
  \/ \E t \in old : cache' = [cache EXCEPT ![k] = (@ (-) SetToBag({t})) (+) SetToBag({s})]
  \/ /\ k \in arrays /\ old = {}
     /\ cache' = [cache EXCEPT ![k] = @ (+) SetToBag({s})]

\* What FileListDisplay shows of a key.
Shown(k) == {s \in DOMAIN GetFiles(k) : s.status = "completed"}

\* Mutant: the key of the page is the parent.
PageIsFolder(p) == p

\* params.folderId of a page: undefined on the trash page too, which makes the
\* operations of that page change the list of the root.
FolderOf(p) == IF p = Trash THEN Root ELSE p

-----------------------------------------------------------------------------
(* Calls *)

Call(o, k, e, n) == [op |-> o, at |-> k, id |-> e, name |-> n,
                     stage |-> "sent", deaf |-> FALSE, out |-> {}]

Busy(c) == calls[c] # Free

\* The keys whose lists a call reads or changes.
Touches(call) ==
  CASE call.op = "delete"  -> {call.at, Trash}
    [] call.op = "restore" -> {call.at, Trash, Root}
    [] OTHER               -> {call.at}

\* The trash page can be relied on while it is open and its list has arrived.
Reliable(k) == k \notin raced /\ (k = Trash => Trash \in loaded)

Count == clicks < MaxClicks /\ clicks' = clicks + 1

\* What the new call and one that is awaited disturb for each other; an entry that
\* is changed from a list that may be wrong.
Clashes(call) ==
  LET awaited == {calls[d] : d \in {d \in Slots : Busy(d) /\ ~calls[d].deaf}} IN
  (IF call.op = "list" \/ Reliable(here) THEN {} ELSE {call.id}) \cup
  UNION {IF "list" \in {call.op, other.op} THEN Touches(call) \cap Touches(other)
                                           ELSE {call.id} \cap {other.id}
           : other \in awaited}

Start(c, call) ==
  /\ Count
  /\ ~Busy(c)
  /\ calls' = [calls EXCEPT ![c] = call]
  /\ raced' = raced \cup Clashes(call)

\* What is left of a call nobody awaits: a request that may still be served.
Left(c) ==
  IF Busy(c) /\ calls[c].op # "list"
       /\ (calls[c].stage = "sent" \/ (calls[c].op = "upload" /\ calls[c].stage = "written"))
    THEN [calls[c] EXCEPT !.deaf = TRUE]
    ELSE Free
-----------------------------------------------------------------------------
(* Pages *)

StoreInit ==
  /\ keys = {} /\ arrays = {}
  /\ cache = [k \in Pages |-> EmptyBag]
  /\ here = Root
  /\ visited = {}
  /\ form = Null
  /\ calls = [c \in Slots |-> Free]
  /\ loaded = {}
  /\ raced = {}
  /\ doubtful = {}
  /\ lost = 0
  /\ clicks = 0

DriveInit == Init /\ StoreInit

\* A new document, by an address or by a link of the menu or the breadcrumbs: the
\* store is empty, and the page fetches its list.
Load(p) ==
  /\ IF visited = {} THEN UNCHANGED clicks ELSE Count
  /\ p \in {Root, Trash} \cup (Folders \cap Inserted)
  /\ keys' = {} /\ arrays' = {}
  /\ cache' = [k \in Pages |-> EmptyBag]
  /\ here' = p
  /\ visited' = {p}
  /\ form' = Null
  /\ \E c \in Slots :
       /\ Left(c) = Free
       /\ calls' = [d \in Slots |-> IF d = c THEN Call("list", p, Null, Null) ELSE Left(d)]
  /\ loaded' = {}
  /\ raced' = {}
  /\ doubtful' = {}
  /\ UNCHANGED <<vars, lost>>

\* setFiles does nothing for a key the store has; setFilesTrash always fetches.
Fetches(p) == p = Trash \/ p \notin keys

\* A page of the same document: a folder by a double click, a page of the history,
\* the root after a new login.  A StorageHome that was left for a page of another kind,
\* as at a login, starts anew; else the one that is there goes on with what it has open,
\* and its effect depends on params.folderId only.
Open(p) ==
  LET reached == visited \cup {s.id : s \in {t \in Shown(here) : t.id \in Folders}} IN
  /\ visited # {}
  /\ p \in reached \cup {Root}
  /\ here' = p
  /\ visited' = visited \cup {p}
  /\ loaded' = loaded \ {Trash}
  /\ \E anew \in {TRUE} \cup {p \notin reached} :
       /\ form' = IF anew THEN Null ELSE form
       /\ IF Fetches(p) /\ (anew \/ FolderOf(p) # FolderOf(here))
            THEN \E c \in Slots :
                   LET call == Call("list", p, Null, Null) IN
                   /\ ~Busy(c)
                   /\ calls' = [calls EXCEPT ![c] = call]
                   /\ raced' = (raced \ (IF p = Trash THEN {Trash} ELSE {})) \cup Clashes(call)
            ELSE UNCHANGED <<calls, raced>>
  /\ UNCHANGED <<vars, keys, arrays, cache, doubtful, lost, clicks>>
-----------------------------------------------------------------------------
(* What the user does.  Rows are those of the open page. *)

\* An id the server has not handed out yet.
Fresh(e) == e \notin Inserted /\ \A c \in Slots : Busy(c) => calls[c].id # e

\* The form of a new folder was open, in the place of the other.
ClickAdd(c, e, n) ==
  /\ visited # {} /\ Fresh(e) /\ e \in Folders
  /\ Start(c, Call("add", FolderOf(here), e, n))
  /\ form' = Null
  /\ UNCHANGED <<vars, keys, arrays, cache, here, visited, loaded, doubtful, lost>>

ClickUpload(c, e, n) ==
  /\ visited # {} /\ Fresh(e) /\ e \notin Folders
  /\ Start(c, Call("upload", FolderOf(here), e, n))
  /\ UNCHANGED <<vars, keys, arrays, cache, here, visited, form, loaded, doubtful, lost>>

\* RenameButton opens the form for the row.
OpenRename(s) ==
  /\ s \in Shown(here)
  /\ form' = s.id
  /\ UNCHANGED <<vars, keys, arrays, cache, here, visited, calls>>
  /\ UNCHANGED <<loaded, raced, doubtful, lost, clicks>>

\* Cancel, Escape, a click beside the form, the form of a new folder in its place.
CloseRename ==
  /\ form # Null
  /\ form' = Null
  /\ UNCHANGED <<vars, keys, arrays, cache, here, visited, calls>>
  /\ UNCHANGED <<loaded, raced, doubtful, lost, clicks>>

\* The form has kept the row's id, and takes the folder of the page that is open now.
\* When that page does not show the row, or is the trash page, the answer edits a list
\* the row is not in.
SubmitRename(c, n) ==
  /\ form # Null
  /\ Start(c, Call("rename", FolderOf(here), form, n))
  /\ doubtful' = IF here # Trash /\ \E s \in Shown(here) : s.id = form
                   THEN doubtful ELSE doubtful \cup {form}
  /\ UNCHANGED <<vars, keys, arrays, cache, here, visited, form, loaded, lost>>

ClickDelete(c, s) ==
  /\ s \in Shown(here) /\ ~s.gone
  /\ Start(c, Call("delete", s.parent, s.id, Null))
  /\ UNCHANGED <<vars, keys, arrays, cache, here, visited, form, loaded, doubtful, lost>>

ClickRestore(c, s) ==
  /\ s \in Shown(here) /\ s.gone
  /\ Start(c, Call("restore", s.parent, s.id, Null))
  /\ UNCHANGED <<vars, keys, arrays, cache, here, visited, form, loaded, doubtful, lost>>
-----------------------------------------------------------------------------
(* What the server does *)

Row(e) == [id |-> e, name |-> name[e], parent |-> parent[e],
           gone |-> e \in trashed, status |-> status[e]]

\* The answer to an add or a completed upload is made of the row as inserted.
NewRow(c) == [id |-> calls[c].id, name |-> calls[c].name, parent |-> calls[c].at,
              gone |-> FALSE, status |-> "completed"]

Asks(c, o) == Busy(c) /\ calls[c].stage = "sent" /\ calls[c].op = o

\* The handler goes on after its statement; nothing is left to do for nobody.
Written(c) ==
  calls' = [calls EXCEPT ![c] = IF @.deaf THEN Free ELSE [@ EXCEPT !.stage = "written"]]

Answer(c, out) ==
  calls' = [calls EXCEPT ![c] =
              IF @.deaf THEN Free ELSE [@ EXCEPT !.stage = "answered", !.out = out]]

Refuse(c) ==
  calls' = [calls EXCEPT ![c] = IF @.deaf THEN Free ELSE [@ EXCEPT !.stage = "refused"]]

\* The row changed: a client that has gone away never learns it.
Changed(c) == doubtful' = IF calls[c].deaf THEN doubtful \cup {calls[c].id} ELSE doubtful

\* The answer does not say what became of the row.
Misreport(c) ==
  /\ lost < MaxLost
  /\ lost' = lost + 1
  /\ doubtful' = doubtful \cup {calls[c].id}

pageVars == <<keys, arrays, cache, here, visited, form, loaded, raced, clicks>>

\* GetDeletedFiles, or the rows of a folder: also of one that is in the trash.
Listed(k) ==
  IF k = Trash THEN trashed ELSE {e \in Inserted \ trashed : parent[e] = k}

ServeList(c) ==
  /\ Asks(c, "list")
  /\ Answer(c, {Row(e) : e \in Listed(calls[c].at)})
  /\ UNCHANGED <<vars, pageVars, doubtful, lost>>

\* No session, a taken name, a database error before the statement: no effect.
ServeError(c) ==
  /\ Busy(c) /\ calls[c].stage = "sent"
  /\ Refuse(c)
  /\ UNCHANGED <<vars, pageVars, doubtful, lost>>

ServeAdd(c) ==
  /\ Asks(c, "add")
  /\ PostAddFolder(calls[c].id, calls[c].name, calls[c].at)
  /\ Answer(c, {NewRow(c)})
  /\ Changed(c)
  /\ UNCHANGED <<pageVars, lost>>

ServeGenerate(c) ==
  /\ Asks(c, "upload")
  /\ UploadGenerateId(calls[c].id, calls[c].name, calls[c].at)
  /\ Written(c)
  /\ UNCHANGED <<pageVars, doubtful, lost>>

\* The upload ends; a failed update of the row is answered like a success.
ServeUpload(c) ==
  /\ Busy(c) /\ calls[c].op = "upload" /\ calls[c].stage = "written"
  /\ \/ UploadCompleted(calls[c].id) /\ Answer(c, {NewRow(c)}) /\ Changed(c) /\ UNCHANGED lost
     \/ Misreport(c) /\ Answer(c, {NewRow(c)}) /\ UNCHANGED vars
     \/ /\ UploadFailed(calls[c].id) \/ UNCHANGED vars
        /\ Refuse(c)
        /\ UNCHANGED <<doubtful, lost>>
  /\ UNCHANGED pageVars

ServeRename(c) ==
  /\ Asks(c, "rename")
  /\ RenameFile(calls[c].id, calls[c].name)
  /\ Written(c)
  /\ Changed(c)
  /\ UNCHANGED <<pageVars, lost>>

\* No row changed: NoAffectedRowsErr.
ServeRestore(c) ==
  /\ Asks(c, "restore")
  /\ RestoreDeletedFiles(calls[c].id)
  /\ \/ vars' # vars /\ Written(c) /\ Changed(c)
     \/ vars' = vars /\ Refuse(c) /\ UNCHANGED doubtful
  /\ UNCHANGED <<pageVars, lost>>

\* RenameFile and RestoreDeletedFiles read the row after they have written it.
ServeReadBack(c) ==
  /\ Busy(c) /\ calls[c].op \in {"rename", "restore"} /\ calls[c].stage = "written"
  /\ \/ Answer(c, {Row(calls[c].id)}) /\ UNCHANGED <<doubtful, lost>>
     \/ Misreport(c) /\ Refuse(c)
  /\ UNCHANGED <<vars, pageVars>>

\* A row deleted twice within a second is not affected: the answer is FALSE.
ServeDelete(c) ==
  /\ Asks(c, "delete")
  /\ DeleteFile(calls[c].id)
  /\ Answer(c, {}) \/ (vars' = vars /\ Refuse(c))
  /\ Changed(c)
  /\ UNCHANGED <<pageVars, lost>>
-----------------------------------------------------------------------------
(* What the client does with an answer *)

\* The form that made the call closes the one that is open, if both are of one
\* StorageHome: one that has started anew since does not notice.
FormEnds(c) ==
  \/ UNCHANGED form
  \/ calls[c].op \in {"add", "rename"} /\ form' = Null

Arrived(c, stages, ops) ==
  /\ Busy(c) /\ calls[c].stage \in stages /\ calls[c].op \in ops
  /\ calls' = [calls EXCEPT ![c] = Free]
  /\ FormEnds(c)
  /\ UNCHANGED <<vars, here, visited, raced, doubtful, lost, clicks>>

\* output is missing from an error and from an empty list (omitempty); only
\* setFilesTrash puts an empty array in its place.
HasArray(k, out) == out # {} \/ k = Trash

\* setFiles and setFilesTrash overwrite the key, whatever it holds now.
ReceiveList(c) ==
  LET k == calls[c].at
      out == calls[c].out
  IN /\ Arrived(c, {"answered", "refused"}, {"list"})
     /\ cache' = [cache EXCEPT ![k] = SetToBag(out)]
     /\ keys' = keys \cup {k}
     /\ arrays' = IF HasArray(k, out) THEN arrays \cup {k} ELSE arrays \ {k}
     /\ loaded' = IF calls[c].stage = "answered" /\ (k = Trash => here = Trash)
                    THEN loaded \cup {k} ELSE loaded \ {k}

ReceiveError(c) ==
  /\ Arrived(c, {"refused"}, Ops \ {"list"})
  /\ UNCHANGED <<keys, arrays, cache, loaded>>

ReceiveAdded(c) ==
  /\ Arrived(c, {"answered"}, {"add", "upload"})
  /\ \E s \in calls[c].out : cache' = Added(cache, s, calls[c].at)
  /\ Holds(calls[c].at)
  /\ UNCHANGED loaded

ReceiveRenamed(c) ==
  /\ Arrived(c, {"answered"}, {"rename"})
  /\ \E s \in calls[c].out : ReplaceFile(s, calls[c].at)
  /\ UNCHANGED <<keys, arrays, loaded>>

ReceiveDeleted(c) ==
  /\ Arrived(c, {"answered"}, {"delete"})
  /\ cache' = Removed(calls[c].id, calls[c].at)
  /\ UNCHANGED <<keys, arrays, loaded>>

\* The entry leaves the trash list and joins the one of the parent it now has.
RestoredToParent(c) ==
  \E s \in calls[c].out :
    cache' = Added(Removed(calls[c].id, Trash), s, s.parent) /\ Holds(s.parent)

ReceiveRestored(c) ==
  /\ Arrived(c, {"answered"}, {"restore"})
  /\ RestoredToParent(c)
  /\ UNCHANGED loaded

\* The connection breaks: fetch throws, and the list stays as it is.
GiveUp(c) ==
  /\ Busy(c) /\ ~calls[c].deaf
  /\ lost < MaxLost
  /\ lost' = lost + 1
  /\ calls' = [calls EXCEPT ![c] = Left(c)]
  /\ doubtful' = IF Left(c) = Free /\ calls[c].op # "list" /\ calls[c].stage # "refused"
                   THEN doubtful \cup {calls[c].id} ELSE doubtful
  /\ FormEnds(c)
  /\ UNCHANGED <<vars, keys, arrays, cache, here, visited, loaded, raced, clicks>>

\* A request nobody awaits never reaches its handler.
LoseRequest(c) ==
  /\ Busy(c) /\ calls[c].deaf
  /\ calls' = [calls EXCEPT ![c] = Free]
  /\ UNCHANGED <<vars, pageVars, doubtful, lost>>
-----------------------------------------------------------------------------
Click(c) ==
  \/ \E e \in Entries, n \in Names : ClickAdd(c, e, n) \/ ClickUpload(c, e, n)
  \/ \E n \in Names : SubmitRename(c, n)
  \/ \E s \in Shown(here) : ClickDelete(c, s) \/ ClickRestore(c, s)

Serve(c) ==
  \/ ServeList(c) \/ ServeError(c) \/ ServeAdd(c) \/ ServeGenerate(c) \/ ServeUpload(c)
  \/ ServeRename(c) \/ ServeRestore(c) \/ ServeReadBack(c) \/ ServeDelete(c)

Receive(c) ==
  \/ ReceiveList(c) \/ ReceiveError(c) \/ ReceiveAdded(c) \/ ReceiveRenamed(c)
  \/ ReceiveDeleted(c) \/ ReceiveRestored(c) \/ GiveUp(c) \/ LoseRequest(c)

DriveNext ==
  \/ \E p \in Pages : Load(p) \/ Open(p)
  \/ \E s \in Shown(here) : OpenRename(s)
  \/ CloseRename
  \/ \E c \in Slots : Click(c) \/ Serve(c) \/ Receive(c)

DriveSpec == DriveInit /\ [][DriveNext]_driveVars
-----------------------------------------------------------------------------
(* Properties *)

\* The store maps pages to bags of file objects; the rename form is for a row; a call
\* names an entry, but for the list calls, and a page's key.
StoreTypeOK ==
  /\ keys \subseteq Pages /\ arrays \subseteq keys
  /\ DOMAIN cache = Pages
  /\ \A k \in Pages : IsABag(cache[k]) /\ DOMAIN cache[k] \subseteq Snapshots
  /\ \A k \in Pages \ arrays : cache[k] = EmptyBag
  /\ here \in Pages /\ visited \subseteq Pages /\ loaded \subseteq keys
  /\ form \in Inserted \cup {Null}
  /\ raced \subseteq Pages \cup Entries
  /\ doubtful \subseteq Entries
  /\ lost \in 0 .. MaxLost
  /\ calls \in [Slots -> Calls \cup {Free}]
  /\ \A c \in Slots : Busy(c) =>
       /\ calls[c].at \in Inserted \cup {Root, Trash}
       /\ IF calls[c].op = "list" THEN calls[c].id = Null
                                  ELSE calls[c].id \in Entries /\ calls[c].at # Trash

\* No call on the entry is awaited, it never was changed by two at once, and every
\* change of it was reported.
Settled(e) ==
  /\ e \notin raced \cup doubtful
  /\ \A c \in Slots : Busy(c) /\ ~calls[c].deaf => calls[c].id # e

\* The lists edited by hand lose nothing: every completed entry of a folder whose
\* list was fetched is shown there under its present name, unless the fetch and a
\* change overlapped, the change was not reported, or it is a rename sent from a page
\* that did not show the entry.  Violated when an answer edits another list than the
\* one the row has moved to.
LoadedShowsAll ==
  \A k \in loaded \ raced : \A e \in Listed(k) :
    (status[e] = "completed" /\ Settled(e)) =>
      \E s \in Shown(k) : s.id = e /\ s.name = name[e]

\* And they keep nothing that has gone: what a page shows, also of a folder whose
\* list was never fetched, is a row of that folder under that name.
ShownIsThere ==
  \A k \in Pages : Reliable(k) => \A s \in Shown(k) :
    Settled(s.id) =>
      s.id \in Listed(k) /\ status[s.id] = "completed" /\ name[s.id] = s.name

\* addFileResponse pushes without looking: still no page shows an entry twice.
NothingShownTwice ==
  \A k \in Pages : Reliable(k) => \A s, t \in Shown(k) :
    (s.id = t.id /\ Settled(s.id)) => s = t /\ GetFiles(k)[s] = 1
=============================================================================
