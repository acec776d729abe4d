--------------------------- MODULE FileStoreProofs ---------------------------
(***************************************************************************)
(* Theorems about FileStore, for any number of entries, folders, names and *)
(* calls under way.  The table is the one former sessions of the account   *)
(* have left.                                                              *)
(***************************************************************************)
EXTENDS FileStore, FileTableProofs

\* The table when the tab opens: whatever earlier calls of such pages have made of
\* it.  A row has a name, and its parent is a folder.
FormerTable ==
  /\ TypeOK
  /\ \A e \in Inserted : name[e] \in Names /\ parent[e] \in Folders \cup {Root}

FormerSpec == FormerTable /\ StoreInit /\ [][DriveNext]_driveVars

-----------------------------------------------------------------------------
(* The inductive invariant: calls *)

Awaited(c) == Busy(c) /\ ~calls[c].deaf

\* The page knows rows only.
Known ==
  /\ here \in Inserted \cup {Root, Trash} /\ visited \subseteq Inserted \cup {Root, Trash}
  /\ \A k \in Pages : \A t \in DOMAIN cache[k] : t.id \in Inserted /\ t.parent \in Inserted \cup {Root}
  /\ \A c \in Slots : Busy(c) =>
       \A t \in calls[c].out : t.id \in Inserted /\ t.parent \in Inserted \cup {Root}

\* It may have changed the row.
Effective(c) == calls[c].stage \in {"written", "answered"}

Makes(c) == Busy(c) /\ calls[c].op \in {"add", "upload"}

\* What a call under way carries, and what it is about.
CallsOK ==
  /\ \A c \in Slots : Busy(c) =>
       /\ calls[c].stage # "answered" => calls[c].out = {}
       /\ calls[c].deaf => calls[c].stage \in {"sent", "written"}
       /\ calls[c].stage = "written" => calls[c].op \in {"upload", "rename", "restore"}
       /\ calls[c].op \in {"add", "upload", "rename"} => calls[c].name \in Names
       /\ calls[c].op = "list" =>
            /\ ~calls[c].deaf
            /\ \A s, t \in calls[c].out : s.id = t.id => s = t
       /\ calls[c].op # "list" =>
            /\ Makes(c) /\ calls[c].stage = "sent" => calls[c].id \notin Inserted
            /\ ~Makes(c) \/ Effective(c) => calls[c].id \in Inserted
       /\ calls[c].op # "list" /\ calls[c].stage = "answered" => \A t \in calls[c].out : t.id = calls[c].id
       /\ calls[c].op = "upload" /\ calls[c].stage = "written" => status[calls[c].id] = "pending"
  /\ \A c, d \in Slots : (c # d /\ Makes(c) /\ Makes(d)) => calls[c].id # calls[d].id

\* Two calls that are awaited and in each other's way have been noted.
ClashesNoted ==
  \A c, d \in Slots : (c # d /\ Awaited(c) /\ Awaited(d)) =>
    IF "list" \in {calls[c].op, calls[d].op}
      THEN Touches(calls[c]) \cap Touches(calls[d]) \subseteq raced
      ELSE calls[c].id = calls[d].id => calls[c].id \in raced

BaseInv ==
  /\ FormerTable /\ StoreTypeOK /\ Known /\ CallsOK /\ ClashesNoted
  /\ Trash \in loaded => here = Trash

-----------------------------------------------------------------------------
(* Bags and calls *)

LEMMA BagOfSet ==
  ASSUME NEW S
  PROVE  /\ IsABag(SetToBag(S)) /\ DOMAIN SetToBag(S) = S
         /\ \A s \in S : SetToBag(S)[s] = 1
  BY DEF SetToBag, IsABag

LEMMA BagWith ==
  ASSUME NEW B, IsABag(B), NEW s
  PROVE  /\ IsABag(B (+) SetToBag({s})) /\ DOMAIN (B (+) SetToBag({s})) = DOMAIN B \cup {s}
         /\ \A t \in DOMAIN B \ {s} : (B (+) SetToBag({s}))[t] = B[t]
         /\ s \notin DOMAIN B => (B (+) SetToBag({s}))[s] = 1
<1> DEFINE A == B (+) SetToBag({s})
<1>1. A = [t \in DOMAIN B \cup {s} |-> (IF t \in DOMAIN B THEN B[t] ELSE 0)
                                       + (IF t \in {s} THEN 1 ELSE 0)]
  BY DEF (+), SetToBag
<1>2. \A t \in DOMAIN B : B[t] \in Nat /\ B[t] > 0
  BY DEF IsABag
<1>3. \A t \in DOMAIN B \cup {s} : A[t] \in Nat /\ A[t] > 0
  BY <1>1, <1>2
<1>4. DOMAIN A = DOMAIN B \cup {s} /\ A \in [DOMAIN A -> {n \in Nat : n > 0}]
  BY <1>1, <1>3
<1>5. \A t \in DOMAIN B \ {s} : A[t] = B[t]
  BY <1>1, <1>2
<1>6. s \notin DOMAIN B => A[s] = 1
  BY <1>1
<1>7. QED
  BY <1>4, <1>5, <1>6 DEF IsABag

LEMMA BagWithout ==
  ASSUME NEW B, IsABag(B), NEW s \in DOMAIN B
  PROVE  /\ IsABag(B (-) SetToBag({s})) /\ DOMAIN (B (-) SetToBag({s})) \subseteq DOMAIN B
         /\ \A t \in DOMAIN B \ {s} : t \in DOMAIN (B (-) SetToBag({s}))
                                      /\ (B (-) SetToBag({s}))[t] = B[t]
         /\ B[s] = 1 => s \notin DOMAIN (B (-) SetToBag({s}))
<1> DEFINE C == [t \in DOMAIN B |-> IF t \in {s} THEN B[t] - 1 ELSE B[t]]
           A == B (-) SetToBag({s})
<1>1. A = [t \in {d \in DOMAIN C : C[d] > 0} |-> C[t]]
  BY DEF (-), SetToBag
<1>2. \A t \in DOMAIN B : B[t] \in Nat /\ B[t] > 0
  BY DEF IsABag
<1>3. \A t \in DOMAIN B : C[t] \in Nat /\ (t # s => C[t] = B[t])
  BY <1>2
<1>4. DOMAIN A = {d \in DOMAIN B : C[d] > 0} /\ \A t \in DOMAIN A : A[t] = C[t]
  BY <1>1
<1>5. A \in [DOMAIN A -> {n \in Nat : n > 0}]
  BY <1>1, <1>3, <1>4
<1>6. B[s] = 1 => C[s] = 0
  OBVIOUS
<1> HIDE DEF C
<1>7. \A t \in DOMAIN B \ {s} : t \in DOMAIN A /\ A[t] = B[t]
  BY <1>2, <1>3, <1>4
<1>8. B[s] = 1 => s \notin DOMAIN A
  BY <1>4, <1>6
<1>9. QED
  BY <1>4, <1>5, <1>7, <1>8 DEF IsABag

LEMMA BagPart ==
  ASSUME NEW B, IsABag(B), NEW S \in SUBSET DOMAIN B
  PROVE  LET A == [s \in S |-> B[s]] IN
         IsABag(A) /\ DOMAIN A = S /\ \A s \in S : A[s] = B[s]
  BY DEF IsABag

\* The steps of a call leave what it asks for.
LEMMA CallFields ==
  ASSUME NEW x \in Calls
  PROVE  /\ x # Free
         /\ x.op \in Ops /\ x.at \in Pages /\ x.id \in Entries \cup {Null} /\ x.deaf \in BOOLEAN
         /\ x.stage \in {"sent", "written", "answered", "refused"} /\ x.out \in SUBSET Snapshots
  BY FreeAssumption DEF Calls

LEMMA CallAsks ==
  ASSUME NEW o \in Ops, NEW k \in Pages, NEW e \in Entries \cup {Null}, NEW n \in Names \cup {Null}
  PROVE  /\ Call(o, k, e, n) \in Calls
         /\ Call(o, k, e, n).op = o /\ Call(o, k, e, n).at = k /\ Call(o, k, e, n).id = e
         /\ Call(o, k, e, n).name = n /\ Call(o, k, e, n).stage = "sent"
         /\ Call(o, k, e, n).deaf = FALSE /\ Call(o, k, e, n).out = {}
  BY DEF Call, Calls

LEMMA CallMoves ==
  ASSUME NEW x \in Calls, NEW s \in {"written", "refused"}
  PROVE  LET y == [x EXCEPT !.stage = s] IN
           /\ y \in Calls /\ y.op = x.op /\ y.at = x.at /\ y.id = x.id /\ y.name = x.name
           /\ y.deaf = x.deaf /\ y.stage = s /\ y.out = x.out
  BY DEF Calls

LEMMA CallAnswered ==
  ASSUME NEW x \in Calls, NEW out \in SUBSET Snapshots
  PROVE  LET y == [x EXCEPT !.stage = "answered", !.out = out] IN
           /\ y \in Calls /\ y.op = x.op /\ y.at = x.at /\ y.id = x.id /\ y.name = x.name
           /\ y.deaf = x.deaf /\ y.stage = "answered" /\ y.out = out
  BY DEF Calls

LEMMA CallLeft ==
  ASSUME NEW x \in Calls
  PROVE  LET y == [x EXCEPT !.deaf = TRUE] IN
           /\ y \in Calls /\ y.op = x.op /\ y.at = x.at /\ y.id = x.id /\ y.name = x.name
           /\ y.deaf = TRUE /\ y.stage = x.stage /\ y.out = x.out
  BY DEF Calls

-----------------------------------------------------------------------------
(* What a step of the server does *)

LEMMA Types ==
  ASSUME BaseInv
  PROVE  /\ calls \in [Slots -> Calls \cup {Free}]
         /\ \A c \in Slots : Busy(c) => calls[c] \in Calls
         /\ \A c \in Slots : Busy(c) /\ calls[c].op # "list" =>
              /\ calls[c].id \in Entries /\ calls[c].at # Trash
              /\ calls[c].at \in Inserted \cup {Root} /\ calls[c].at \in Folders \cup {Root}
  BY CallFields DEF BaseInv, StoreTypeOK, Busy, Pages

LEMMA Rows ==
  ASSUME TypeOK, NEW e \in Inserted, name[e] \in Names, parent[e] \in Folders \cup {Root}
  PROVE  /\ Row(e) \in Snapshots /\ Row(e).id = e /\ Row(e).name = name[e]
         /\ Row(e).parent = parent[e] /\ Row(e).gone = (e \in trashed) /\ Row(e).status = status[e]
         /\ parent[e] \in Inserted \cup {Root}
  BY StoreAssumption DEF Row, Snapshots, TypeOK, Inserted, ParentIds

LEMMA NewRows ==
  ASSUME BaseInv, NEW c \in Slots, Makes(c)
  PROVE  /\ NewRow(c) \in Snapshots /\ NewRow(c).id = calls[c].id
         /\ NewRow(c).parent = calls[c].at /\ NewRow(c).status = "completed"
  <1>1. calls[c].name \in Names
    BY DEF Makes, BaseInv, CallsOK
  <1>2. calls[c].id \in Entries /\ calls[c].at \in Folders \cup {Root}
    BY Types DEF Makes
  <1>3. QED
    BY <1>1, <1>2 DEF NewRow, Snapshots, Statuses

\* The call of slot c goes on, the others stay.
Steps(c) ==
  /\ calls' \in [Slots -> Calls \cup {Free}]
  /\ \A d \in Slots \ {c} : calls'[d] = calls[d]
  /\ calls[c].deaf => calls'[c] = Free
  /\ ~calls[c].deaf =>
       /\ calls'[c] \in Calls /\ calls'[c].deaf = FALSE
       /\ calls'[c].op = calls[c].op /\ calls'[c].at = calls[c].at
       /\ calls'[c].id = calls[c].id /\ calls'[c].name = calls[c].name

LEMMA CallSteps ==
  ASSUME BaseInv, NEW c \in Slots, Busy(c)
  PROVE  /\ Written(c) =>
              Steps(c) /\ (~calls[c].deaf => calls'[c].stage = "written" /\ calls'[c].out = calls[c].out)
         /\ Refuse(c) =>
              Steps(c) /\ (~calls[c].deaf => calls'[c].stage = "refused" /\ calls'[c].out = calls[c].out)
         /\ \A out \in SUBSET Snapshots : Answer(c, out) =>
              Steps(c) /\ (~calls[c].deaf => calls'[c].stage = "answered" /\ calls'[c].out = out)
<1>1. calls \in [Slots -> Calls \cup {Free}] /\ calls[c] \in Calls
  BY Types
<1>2. calls[c].deaf \in BOOLEAN
  BY <1>1, CallFields
<1>3. ASSUME NEW y \in Calls,
             calls' = [calls EXCEPT ![c] = IF calls[c].deaf THEN Free ELSE y],
             y.op = calls[c].op /\ y.at = calls[c].at /\ y.id = calls[c].id /\ y.name = calls[c].name,
             y.deaf = calls[c].deaf
      PROVE  Steps(c) /\ (~calls[c].deaf => calls'[c] = y)
  BY <1>1, <1>2, <1>3 DEF Steps
<1>4. Written(c) =>
        Steps(c) /\ (~calls[c].deaf => calls'[c].stage = "written" /\ calls'[c].out = calls[c].out)
  <2> SUFFICES ASSUME Written(c)
               PROVE  Steps(c) /\ (~calls[c].deaf => calls'[c].stage = "written" /\ calls'[c].out = calls[c].out)
    OBVIOUS
  <2> DEFINE y == [calls[c] EXCEPT !.stage = "written"]
  <2>1. /\ y \in Calls /\ y.op = calls[c].op /\ y.at = calls[c].at /\ y.id = calls[c].id
        /\ y.name = calls[c].name /\ y.deaf = calls[c].deaf /\ y.stage = "written" /\ y.out = calls[c].out
    BY <1>1, CallMoves
  <2>2. calls' = [calls EXCEPT ![c] = IF calls[c].deaf THEN Free ELSE y]
    BY <1>1 DEF Written
  <2> HIDE DEF y
  <2>3. QED
    BY <1>3, <2>1, <2>2
<1>5. Refuse(c) =>
        Steps(c) /\ (~calls[c].deaf => calls'[c].stage = "refused" /\ calls'[c].out = calls[c].out)
  <2> SUFFICES ASSUME Refuse(c)
               PROVE  Steps(c) /\ (~calls[c].deaf => calls'[c].stage = "refused" /\ calls'[c].out = calls[c].out)
    OBVIOUS
  <2> DEFINE y == [calls[c] EXCEPT !.stage = "refused"]
  <2>1. /\ y \in Calls /\ y.op = calls[c].op /\ y.at = calls[c].at /\ y.id = calls[c].id
        /\ y.name = calls[c].name /\ y.deaf = calls[c].deaf /\ y.stage = "refused" /\ y.out = calls[c].out
    BY <1>1, CallMoves
  <2>2. calls' = [calls EXCEPT ![c] = IF calls[c].deaf THEN Free ELSE y]
    BY <1>1 DEF Refuse
  <2> HIDE DEF y
  <2>3. QED
    BY <1>3, <2>1, <2>2
<1>6. ASSUME NEW out \in SUBSET Snapshots, Answer(c, out)
      PROVE  Steps(c) /\ (~calls[c].deaf => calls'[c].stage = "answered" /\ calls'[c].out = out)
  <2> DEFINE y == [calls[c] EXCEPT !.stage = "answered", !.out = out]
  <2>1. /\ y \in Calls /\ y.op = calls[c].op /\ y.at = calls[c].at /\ y.id = calls[c].id
        /\ y.name = calls[c].name /\ y.deaf = calls[c].deaf /\ y.stage = "answered" /\ y.out = out
    BY <1>1, CallAnswered
  <2>2. calls' = [calls EXCEPT ![c] = IF calls[c].deaf THEN Free ELSE y]
    BY <1>1, <1>6 DEF Answer
  <2> HIDE DEF y
  <2>3. QED
    BY <1>3, <2>1, <2>2
<1>7. QED
  BY <1>4, <1>5, <1>6

\* The row of e is left alone.
RowStays(e) ==
  /\ status'[e] = status[e] /\ name'[e] = name[e] /\ parent'[e] = parent[e]
  /\ e \in trashed' <=> e \in trashed

LEMMA RowStaysSame ==
  ASSUME NEW e \in Entries, RowStays(e)
  PROVE  /\ Row(e)' = Row(e)
         /\ e \in Inserted' <=> e \in Inserted
         /\ \A k : e \in Listed(k)' <=> e \in Listed(k)
  BY DEF RowStays, Row, Inserted, Listed

\* The table changes by a step of FileTable, and only in the row the call is about.
LEMMA ServeTable ==
  ASSUME BaseInv, NEW c \in Slots, Serve(c)
  PROVE  /\ [Next]_vars
         /\ \A e \in Entries : calls[c].op = "list" \/ e # calls[c].id => RowStays(e)
<1> DEFINE e == calls[c].id
           Goal == /\ [Next]_vars
                   /\ \A f \in Entries : calls[c].op = "list" \/ f # e => RowStays(f)
<1>1. Busy(c) /\ calls[c].op # "list" => e \in Entries /\ calls[c].at \in ParentIds
  BY Types DEF ParentIds
<1>2. Busy(c) /\ calls[c].op \in {"add", "upload", "rename"} => calls[c].name \in Names
  BY DEF BaseInv, CallsOK
<1>3. TypeOK
  BY DEF BaseInv, FormerTable
<1>4. ASSUME UNCHANGED vars PROVE Goal
  BY <1>4 DEF vars, RowStays
<1>5. ASSUME PostAddFolder(e, calls[c].name, calls[c].at), Busy(c), calls[c].op = "add" PROVE Goal
  <2>1. Next
    BY <1>1, <1>2, <1>5 DEF Next
  <2>2. QED
    BY <1>1, <1>3, <1>5, <2>1 DEF PostAddFolder, AddFile, RowStays, TypeOK
<1>6. ASSUME UploadGenerateId(e, calls[c].name, calls[c].at), Busy(c), calls[c].op = "upload" PROVE Goal
  <2>1. Next
    BY <1>1, <1>2, <1>6 DEF Next
  <2>2. QED
    BY <1>1, <1>3, <1>6, <2>1 DEF UploadGenerateId, AddFile, RowStays, TypeOK
<1>7. ASSUME UploadCompleted(e) \/ UploadFailed(e), Busy(c), calls[c].op = "upload" PROVE Goal
  <2>1. Next
    BY <1>1, <1>7 DEF Next
  <2>2. QED
    BY <1>1, <1>3, <1>7, <2>1 DEF UploadCompleted, UploadFailed, RowStays, TypeOK
<1>8. ASSUME RenameFile(e, calls[c].name), Busy(c), calls[c].op = "rename" PROVE Goal
  <2>1. Next
    BY <1>1, <1>2, <1>8 DEF Next
  <2>2. QED
    BY <1>1, <1>3, <1>8, <2>1 DEF RenameFile, RowStays, TypeOK
<1>9. ASSUME DeleteFile(e), Busy(c), calls[c].op = "delete" PROVE Goal
  <2>1. Next
    BY <1>1, <1>9 DEF Next
  <2>2. QED
    BY <1>1, <1>3, <1>9, <2>1 DEF DeleteFile, RowStays, TypeOK
<1>10. ASSUME RestoreDeletedFiles(e), Busy(c), calls[c].op = "restore" PROVE Goal
  <2>1. Next
    BY <1>1, <1>10 DEF Next
  <2>2. QED
    BY <1>1, <1>3, <1>10, <2>1 DEF RestoreDeletedFiles, RowStays, TypeOK
<1> HIDE DEF Goal
<1>11. Goal
  BY <1>4, <1>5, <1>6, <1>7, <1>8, <1>9, <1>10
  DEF Serve, ServeList, ServeError, ServeAdd, ServeGenerate, ServeUpload, ServeRename, ServeRestore,
      ServeReadBack, ServeDelete, Asks
<1>12. QED
  BY <1>11 DEF Goal

\* What a list call answers.
ListOf(k) == {Row(e) : e \in Listed(k)}

\* The store is not touched; the call goes on and never back to where it was sent.
LEMMA ServeShape ==
  ASSUME BaseInv, NEW c \in Slots, Serve(c)
  PROVE  /\ Busy(c) /\ UNCHANGED pageVars /\ Steps(c)
         /\ calls[c].stage \in {"sent", "written"}
         /\ doubtful \subseteq doubtful' /\ doubtful' \subseteq doubtful \cup {calls[c].id}
         /\ doubtful' # doubtful => calls[c].op # "list"
         /\ lost' \in {lost, lost + 1} /\ lost' <= MaxLost
         /\ ~calls[c].deaf =>
              /\ calls'[c].stage \in {"written", "answered", "refused"}
              /\ calls'[c].stage = "written" =>
                   calls[c].op \in {"upload", "rename", "restore"} /\ calls'[c].out = {}
              /\ calls'[c].stage = "refused" => calls'[c].out = {}
              /\ calls'[c].stage = "answered" =>
                   /\ calls[c].op = "list"   => calls'[c].out = ListOf(calls[c].at)
                   /\ Makes(c)               => calls'[c].out = {NewRow(c)}
                   /\ calls[c].op = "delete" => calls'[c].out = {}
                   /\ calls[c].op \in {"rename", "restore"} => calls'[c].out = {Row(calls[c].id)}
<1> USE DEF pageVars
<1>1. Busy(c) /\ calls[c].stage \in {"sent", "written"}
  BY DEF Serve, ServeList, ServeError, ServeAdd, ServeGenerate, ServeUpload, ServeRename, ServeRestore,
     ServeReadBack, ServeDelete, Asks
<1>2. /\ calls[c].out = {} /\ calls[c].deaf \in BOOLEAN
      /\ lost \in Nat /\ lost <= MaxLost /\ MaxLost \in Nat
  BY <1>1, Types, CallFields, BoundAssumption DEF BaseInv, CallsOK, StoreTypeOK
<1>3. TypeOK /\ \A e \in Inserted : Row(e) \in Snapshots
  BY Rows DEF BaseInv, FormerTable
<1>4. CASE ServeList(c)
  <2>1. ListOf(calls[c].at) \in SUBSET Snapshots
    BY <1>3 DEF Listed, TypeOK, ListOf
  <2>2. calls[c].op = "list" /\ ~Makes(c) /\ Answer(c, ListOf(calls[c].at))
    BY <1>4 DEF ServeList, Asks, Makes, ListOf
  <2>3. Steps(c) /\ (~calls[c].deaf => /\ calls'[c].stage = "answered"
                                       /\ calls'[c].out = ListOf(calls[c].at))
    BY <1>1, <2>1, <2>2, CallSteps
  <2>4. QED
    BY <1>1, <1>2, <1>4, <2>2, <2>3 DEF ServeList
<1>5. CASE ServeError(c)
  <2>1. Steps(c) /\ (~calls[c].deaf => calls'[c].stage = "refused" /\ calls'[c].out = {})
    BY <1>1, <1>2, <1>5, CallSteps DEF ServeError
  <2>2. QED
    BY <1>1, <1>2, <1>5, <2>1 DEF ServeError
<1>6. CASE ServeAdd(c)
  <2>1. calls[c].op = "add" /\ Makes(c) /\ Answer(c, {NewRow(c)})
    BY <1>6 DEF ServeAdd, Asks, Makes
  <2>2. Steps(c) /\ (~calls[c].deaf => calls'[c].stage = "answered" /\ calls'[c].out = {NewRow(c)})
    BY <1>1, <2>1, CallSteps, NewRows
  <2>3. QED
    BY <1>1, <1>2, <1>6, <2>1, <2>2 DEF ServeAdd, Changed
<1>7. CASE ServeGenerate(c)
  <2>1. calls[c].op = "upload" /\ Written(c)
    BY <1>7 DEF ServeGenerate, Asks
  <2>2. Steps(c) /\ (~calls[c].deaf => calls'[c].stage = "written" /\ calls'[c].out = {})
    BY <1>1, <1>2, <2>1, CallSteps
  <2>3. QED
    BY <1>1, <1>2, <1>7, <2>1, <2>2 DEF ServeGenerate
<1>8. CASE ServeUpload(c)
  <2>1. calls[c].op = "upload" /\ Makes(c)
    BY <1>8 DEF ServeUpload, Makes
  <2>2. CASE Answer(c, {NewRow(c)})
    <3>1. Steps(c) /\ (~calls[c].deaf => calls'[c].stage = "answered" /\ calls'[c].out = {NewRow(c)})
      BY <1>1, <2>1, <2>2, CallSteps, NewRows
    <3>2. /\ UNCHANGED pageVars /\ doubtful' \in {doubtful, doubtful \cup {calls[c].id}}
          /\ lost' = lost \/ (lost < MaxLost /\ lost' = lost + 1)
      BY <1>8 DEF ServeUpload, Changed, Misreport
    <3>3. QED
      BY <1>1, <1>2, <2>1, <3>1, <3>2
  <2>3. CASE Refuse(c)
    <3>1. Steps(c) /\ (~calls[c].deaf => calls'[c].stage = "refused" /\ calls'[c].out = {})
      BY <1>1, <1>2, <2>3, CallSteps
    <3>2. /\ UNCHANGED pageVars /\ doubtful' \in {doubtful, doubtful \cup {calls[c].id}}
          /\ lost' = lost \/ (lost < MaxLost /\ lost' = lost + 1)
      BY <1>8 DEF ServeUpload, Changed, Misreport
    <3>3. QED
      BY <1>1, <1>2, <2>1, <3>1, <3>2
  <2>4. QED
    BY <1>8, <2>2, <2>3 DEF ServeUpload
<1>9. CASE ServeRename(c)
  <2>1. calls[c].op = "rename" /\ Written(c)
    BY <1>9 DEF ServeRename, Asks
  <2>2. Steps(c) /\ (~calls[c].deaf => calls'[c].stage = "written" /\ calls'[c].out = {})
    BY <1>1, <1>2, <2>1, CallSteps
  <2>3. QED
    BY <1>1, <1>2, <1>9, <2>1, <2>2 DEF ServeRename, Changed
<1>10. CASE ServeRestore(c)
  <2>1. calls[c].op = "restore" /\ (Written(c) \/ Refuse(c))
    BY <1>10 DEF ServeRestore, Asks
  <2>2. Steps(c) /\ (~calls[c].deaf => calls'[c].stage \in {"written", "refused"} /\ calls'[c].out = {})
    BY <1>1, <1>2, <2>1, CallSteps
  <2>3. QED
    BY <1>1, <1>2, <1>10, <2>1, <2>2 DEF ServeRestore, Changed
<1>11. CASE ServeReadBack(c)
  <2>1. calls[c].op \in {"rename", "restore"} /\ ~Makes(c)
    BY <1>11 DEF ServeReadBack, Makes
  <2>2. calls[c].id \in Inserted
    BY <1>1, <2>1 DEF BaseInv, CallsOK
  <2>3. CASE Answer(c, {Row(calls[c].id)})
    <3>1. Steps(c) /\ (~calls[c].deaf => calls'[c].stage = "answered" /\ calls'[c].out = {Row(calls[c].id)})
      BY <1>1, <1>3, <2>2, <2>3, CallSteps
    <3>2. /\ UNCHANGED pageVars /\ doubtful' \in {doubtful, doubtful \cup {calls[c].id}}
          /\ lost' = lost \/ (lost < MaxLost /\ lost' = lost + 1)
      BY <1>11 DEF ServeReadBack, Misreport
    <3>3. QED
      BY <1>1, <1>2, <2>1, <3>1, <3>2
  <2>4. CASE Refuse(c)
    <3>1. Steps(c) /\ (~calls[c].deaf => calls'[c].stage = "refused" /\ calls'[c].out = {})
      BY <1>1, <1>2, <2>4, CallSteps
    <3>2. /\ UNCHANGED pageVars /\ doubtful' \in {doubtful, doubtful \cup {calls[c].id}}
          /\ lost' = lost \/ (lost < MaxLost /\ lost' = lost + 1)
      BY <1>11 DEF ServeReadBack, Misreport
    <3>3. QED
      BY <1>1, <1>2, <2>1, <3>1, <3>2
  <2>5. QED
    BY <1>11, <2>3, <2>4 DEF ServeReadBack
<1>12. CASE ServeDelete(c)
  <2>1. calls[c].op = "delete" /\ ~Makes(c) /\ (Answer(c, {}) \/ Refuse(c))
    BY <1>12 DEF ServeDelete, Asks, Makes
  <2>2. /\ Steps(c)
        /\ ~calls[c].deaf => calls'[c].stage \in {"answered", "refused"} /\ calls'[c].out = {}
    BY <1>1, <1>2, <2>1, CallSteps
  <2>3. QED
    BY <1>1, <1>2, <1>12, <2>1, <2>2 DEF ServeDelete, Changed
<1>13. QED
  BY <1>4, <1>5, <1>6, <1>7, <1>8, <1>9, <1>10, <1>11, <1>12 DEF Serve

LEMMA ServeRows ==
  ASSUME BaseInv, NEW c \in Slots, Serve(c)
  PROVE  /\ Inserted \subseteq Inserted'
         /\ Makes(c) \/ UNCHANGED status
         /\ Makes(c) /\ ~calls[c].deaf /\ calls'[c].stage \in {"written", "answered"}
              => calls[c].id \in Inserted'
         /\ calls[c].op = "upload" /\ ~calls[c].deaf /\ calls'[c].stage = "written"
              => status'[calls[c].id] = "pending"
         /\ FormerTable'
<1> DEFINE e == calls[c].id
           op == calls[c].op
           Named(f) == name'[f] \in Names /\ parent'[f] \in Folders \cup {Root}
           \* What the cases below find of the row of e, and of status.
           Goal == /\ e \in Inserted => e \in Inserted'
                   /\ e \in Inserted' => Named(e)
                   /\ Makes(c) \/ UNCHANGED status
                   /\ Makes(c) /\ ~calls[c].deaf /\ calls'[c].stage \in {"written", "answered"}
                        => e \in Inserted'
                   /\ op = "upload" /\ ~calls[c].deaf /\ calls'[c].stage = "written"
                        => status'[e] = "pending"
<1>1. TypeOK /\ TypeOK'
  BY ServeTable, TypesKept DEF BaseInv, FormerTable
<1>2. \A f \in Inserted : name[f] \in Names /\ parent[f] \in Folders \cup {Root}
  BY DEF BaseInv, FormerTable
<1>3. Busy(c) /\ calls[c].stage \in {"sent", "written"} /\ calls[c].deaf \in BOOLEAN
  BY ServeShape, Types, CallFields
<1>4. op # "list" => e \in Entries /\ calls[c].at \in Folders \cup {Root}
  BY <1>3, Types
<1>5. op \in {"add", "upload", "rename"} => calls[c].name \in Names
  BY <1>3 DEF BaseInv, CallsOK
<1>6. (Makes(c) => op \in {"add", "upload"}) /\ (op \in {"add", "upload"} => Makes(c))
  BY <1>3 DEF Makes
<1>7. op = "upload" /\ calls[c].stage = "written" => status[e] = "pending" /\ e \in Inserted
  BY <1>3, <1>4, <1>6 DEF BaseInv, CallsOK, Inserted, TypeOK
<1>8. e \in Inserted => Named(e) \/ name'[e] # name[e] \/ parent'[e] # parent[e]
  BY <1>2
<1>9. ASSUME UNCHANGED vars,
             Makes(c) => (op = "upload" /\ calls[c].stage = "written") \/ calls[c].deaf \/ calls'[c].stage = "refused"
      PROVE  Goal
  <2>1. Inserted' = Inserted /\ status' = status /\ name' = name /\ parent' = parent
    BY <1>9 DEF vars, Inserted
  <2>2. QED
    BY <1>6, <1>7, <1>8, <1>9, <2>1
<1>10. ASSUME ServeAdd(c) PROVE Goal
  <2>1. PostAddFolder(e, calls[c].name, calls[c].at) /\ op = "add"
    BY <1>10 DEF ServeAdd, Asks
  <2>2. status'[e] = "completed" /\ name'[e] = calls[c].name /\ parent'[e] = calls[c].at
    BY <1>1, <1>4, <2>1 DEF PostAddFolder, AddFile, TypeOK
  <2>3. e \in Inserted'
    BY <1>4, <2>1, <2>2 DEF Inserted
  <2>4. QED
    BY <1>4, <1>5, <1>6, <2>1, <2>2, <2>3
<1>11. ASSUME ServeGenerate(c) PROVE Goal
  <2>1. UploadGenerateId(e, calls[c].name, calls[c].at) /\ op = "upload"
    BY <1>11 DEF ServeGenerate, Asks
  <2>2. status'[e] = "pending" /\ name'[e] = calls[c].name /\ parent'[e] = calls[c].at
    BY <1>1, <1>4, <2>1 DEF UploadGenerateId, AddFile, TypeOK
  <2>3. e \in Inserted'
    BY <1>4, <2>1, <2>2 DEF Inserted
  <2>4. QED
    BY <1>4, <1>5, <1>6, <2>1, <2>2, <2>3
<1>12. ASSUME ServeUpload(c) PROVE Goal
  <2>1. UploadCompleted(e) \/ UploadFailed(e) \/ UNCHANGED vars
    BY <1>12 DEF ServeUpload
  <2>2. op = "upload" /\ calls[c].stage = "written"
    BY <1>12 DEF ServeUpload
  <2>3. CASE UNCHANGED vars
    BY <1>9, <2>2, <2>3
  <2>4. CASE UploadCompleted(e) \/ UploadFailed(e)
    <3>1. status'[e] # "none" /\ UNCHANGED <<name, parent>>
      BY <1>1, <1>4, <2>2, <2>4 DEF UploadCompleted, UploadFailed, TypeOK
    <3>2. calls[c].deaf \/ calls'[c].stage # "written"
      <4>1. Answer(c, {NewRow(c)}) \/ Refuse(c)
        BY <1>12 DEF ServeUpload
      <4>2. {NewRow(c)} \in SUBSET Snapshots
        BY <1>6, <2>2, NewRows
      <4>3. QED
        BY <1>3, <4>1, <4>2, CallSteps
    <3>3. e \in Inserted'
      BY <1>4, <2>2, <3>1 DEF Inserted
    <3>4. QED
      BY <1>6, <1>7, <1>8, <2>2, <3>1, <3>2, <3>3
  <2>5. QED
    BY <2>1, <2>3, <2>4
<1>13. ASSUME ServeRename(c) PROVE Goal
  <2>1. RenameFile(e, calls[c].name) /\ op = "rename"
    BY <1>13 DEF ServeRename, Asks
  <2>2. e \in Inserted /\ name'[e] = calls[c].name /\ UNCHANGED <<parent, status>>
    BY <1>1, <1>4, <2>1 DEF RenameFile, TypeOK
  <2>3. e \in Inserted'
    BY <2>2 DEF Inserted
  <2>4. QED
    BY <1>2, <1>5, <1>6, <2>1, <2>2, <2>3
<1>14. ASSUME ServeRestore(c) PROVE Goal
  <2>1. RestoreDeletedFiles(e) /\ op = "restore"
    BY <1>14 DEF ServeRestore, Asks
  <2>2. e \in Inserted /\ parent'[e] \in {parent[e], Root} /\ UNCHANGED <<name, status>>
    BY <1>1, <1>4, <2>1 DEF RestoreDeletedFiles, LiveParent, TypeOK
  <2>3. e \in Inserted'
    BY <2>2 DEF Inserted
  <2>4. QED
    BY <1>2, <1>6, <2>1, <2>2, <2>3
<1>15. ASSUME ServeDelete(c) PROVE Goal
  <2>1. DeleteFile(e) /\ op = "delete"
    BY <1>15 DEF ServeDelete, Asks
  <2>2. e \in Inserted /\ UNCHANGED <<name, status, parent>>
    BY <2>1 DEF DeleteFile
  <2>3. e \in Inserted'
    BY <2>2 DEF Inserted
  <2>4. QED
    BY <1>2, <1>6, <2>1, <2>2, <2>3
<1>16. ASSUME ServeList(c) \/ ServeReadBack(c) PROVE Goal
  <2>1. UNCHANGED vars /\ op \notin {"add", "upload"}
    BY <1>16 DEF ServeList, ServeReadBack, Asks
  <2>2. QED
    BY <1>6, <1>9, <2>1
<1>17. ASSUME ServeError(c) PROVE Goal
  <2>1. UNCHANGED vars /\ Refuse(c)
    BY <1>17 DEF ServeError
  <2>2. calls[c].deaf \/ calls'[c].stage = "refused"
    BY <1>3, <2>1, CallSteps
  <2>3. QED
    BY <1>9, <2>1, <2>2
<1> HIDE DEF Goal, Named
<1>18. Goal
  BY <1>10, <1>11, <1>12, <1>13, <1>14, <1>15, <1>16, <1>17 DEF Serve
<1>19. ASSUME NEW f \in Entries, f # e \/ op = "list"
       PROVE  (f \in Inserted <=> f \in Inserted') /\ (f \in Inserted' => Named(f))
  <2>1. RowStays(f)
    BY <1>19, ServeTable
  <2>2. f \in Inserted <=> f \in Inserted'
    BY <2>1, RowStaysSame
  <2>3. QED
    BY <1>2, <2>1, <2>2 DEF RowStays, Named
<1>20. Inserted \subseteq Entries /\ Inserted' \subseteq Entries
  BY DEF Inserted
<1>21. Inserted \subseteq Inserted' /\ \A f \in Inserted' : Named(f)
  BY <1>18, <1>19, <1>20 DEF Goal
<1>22. FormerTable'
  BY <1>1, <1>21 DEF FormerTable, Named
<1>23. QED
  BY <1>18, <1>21, <1>22 DEF Goal

-----------------------------------------------------------------------------
(* Calls: every step keeps BaseInv *)

LEMMA ServeBase ==
  ASSUME BaseInv, NEW c \in Slots, Serve(c)
  PROVE  BaseInv'
<1>1. /\ Busy(c) /\ Steps(c) /\ calls[c] \in Calls
      /\ calls[c].stage \in {"sent", "written"} /\ calls[c].deaf \in BOOLEAN /\ calls[c].op \in Ops
      /\ UNCHANGED <<keys, arrays, cache, here, visited, form, loaded, raced, clicks>>
  BY ServeShape, Types, CallFields DEF pageVars
<1>2. Inserted \subseteq Inserted' /\ FormerTable'
  BY ServeRows
<1>3. \A d \in Slots : Busy(d)' => Busy(d) /\ (d # c => calls'[d] = calls[d])
  BY <1>1 DEF Busy, Steps
<1>4. \A d \in Slots : Busy(d)' =>
        /\ calls'[d].op = calls[d].op /\ calls'[d].at = calls[d].at
        /\ calls'[d].id = calls[d].id /\ calls'[d].name = calls[d].name
        /\ calls'[d].deaf = calls[d].deaf
  BY <1>1, <1>3 DEF Busy, Steps
<1>5. StoreTypeOK'
  <2>1. doubtful' \subseteq Entries
    <3>1. calls[c].op # "list" => calls[c].id \in Entries
      BY <1>1, Types
    <3>2. doubtful \subseteq Entries
      BY DEF BaseInv, StoreTypeOK
    <3>3. QED
      BY <3>1, <3>2, ServeShape
  <2>2. lost' \in 0 .. MaxLost
    BY ServeShape, BoundAssumption DEF BaseInv, StoreTypeOK
  <2>3. calls' \in [Slots -> Calls \cup {Free}]
    BY <1>1 DEF Steps
  <2>4. \A d \in Slots : Busy(d)' =>
          /\ calls'[d].at \in Inserted' \cup {Root, Trash}
          /\ IF calls'[d].op = "list" THEN calls'[d].id = Null
                                      ELSE calls'[d].id \in Entries /\ calls'[d].at # Trash
    BY <1>2, <1>3, <1>4 DEF BaseInv, StoreTypeOK
  <2>5. form' \in Inserted' \cup {Null}
    <3>1. form \in Inserted \cup {Null} /\ form' = form
      BY <1>1 DEF BaseInv, StoreTypeOK
    <3>2. QED
      BY <1>2, <3>1
  <2>6. QED
    BY <1>1, <2>1, <2>2, <2>3, <2>4, <2>5 DEF BaseInv, StoreTypeOK
<1>6. Known'
  <2>1. TypeOK /\ \A e \in Inserted : /\ Row(e).id \in Inserted /\ Row(e).parent \in Inserted \cup {Root}
    BY Rows DEF BaseInv, FormerTable
  <2>2. ASSUME NEW t \in calls'[c].out, Busy(c)' PROVE t.id \in Inserted' /\ t.parent \in Inserted' \cup {Root}
    <3>1. ~calls[c].deaf
      BY <1>1, <2>2 DEF Busy, Steps
    <3>2. calls'[c].stage = "answered"
      BY <2>2, <3>1, ServeShape
    <3>3. CASE calls[c].op = "list"
      <4>1. t \in ListOf(calls[c].at)
        BY <2>2, <3>1, <3>2, <3>3, ServeShape
      <4>2. t.id \in Inserted /\ t.parent \in Inserted \cup {Root}
        BY <2>1, <4>1 DEF ListOf, Listed, TypeOK
      <4>3. QED
        BY <1>2, <4>2
    <3>4. CASE Makes(c)
      <4>1. t = NewRow(c)
        BY <2>2, <3>1, <3>2, <3>4, ServeShape
      <4>2. calls[c].id \in Inserted' /\ calls[c].at \in Inserted \cup {Root}
        BY <3>1, <3>2, <3>4, ServeRows, Types DEF Makes
      <4>3. QED
        BY <1>2, <3>4, <4>1, <4>2, NewRows
    <3>5. CASE calls[c].op \in {"rename", "restore"}
      <4>1. t = Row(calls[c].id)
        BY <2>2, <3>1, <3>2, <3>5, ServeShape
      <4>2. calls[c].id \in Inserted
        BY <1>1, <3>5 DEF BaseInv, CallsOK, Makes
      <4>3. QED
        BY <1>2, <2>1, <4>1, <4>2
    <3>6. CASE calls[c].op = "delete"
      BY <2>2, <3>1, <3>2, <3>6, ServeShape
    <3>7. QED
      BY <1>1, <3>3, <3>4, <3>5, <3>6 DEF Ops, Makes
  <2>3. \A d \in Slots : Busy(d)' =>
          \A t \in calls'[d].out : t.id \in Inserted' /\ t.parent \in Inserted' \cup {Root}
    BY <1>2, <1>3, <2>2 DEF BaseInv, Known
  <2>4. QED
    BY <1>1, <1>2, <2>3 DEF BaseInv, Known
<1>7. CallsOK'
  <2>1. \A d \in Slots : Makes(d)' => Makes(d)
    BY <1>3, <1>4 DEF Makes
  <2>2. ASSUME NEW d \in Slots, Busy(d)', d # c
        PROVE  /\ calls'[d].stage # "answered" => calls'[d].out = {}
               /\ calls'[d].deaf => calls'[d].stage \in {"sent", "written"}
               /\ calls'[d].stage = "written" => calls'[d].op \in {"upload", "rename", "restore"}
               /\ calls'[d].op \in {"add", "upload", "rename"} => calls'[d].name \in Names
               /\ calls'[d].op = "list" =>
                    /\ ~calls'[d].deaf
                    /\ \A s, t \in calls'[d].out : s.id = t.id => s = t
               /\ calls'[d].op # "list" =>
                    /\ Makes(d)' /\ calls'[d].stage = "sent" => calls'[d].id \notin Inserted'
                    /\ ~Makes(d)' \/ Effective(d)' => calls'[d].id \in Inserted'
               /\ calls'[d].op # "list" /\ calls'[d].stage = "answered" => \A t \in calls'[d].out : t.id = calls'[d].id
               /\ calls'[d].op = "upload" /\ calls'[d].stage = "written" => status'[calls'[d].id] = "pending"
    <3>1. Busy(d) /\ calls'[d] = calls[d]
      BY <1>3, <2>2
    <3>2. Makes(d) => /\ Makes(c) => calls[d].id # calls[c].id
                      /\ calls[d].id \in Entries
      BY <1>1, <2>2, Types DEF BaseInv, CallsOK, Makes
    <3>3. Makes(d) /\ calls[d].stage = "sent" => calls[d].id \notin Inserted'
      <4> SUFFICES ASSUME Makes(d), calls[d].stage = "sent" PROVE calls[d].id \notin Inserted'
        OBVIOUS
      <4>1. calls[d].id \notin Inserted
        BY <3>1 DEF BaseInv, CallsOK, Makes
      <4>2. calls[c].op = "list" \/ calls[d].id # calls[c].id
        BY <1>1, <3>2, <4>1 DEF BaseInv, CallsOK
      <4>3. QED
        BY <3>2, <4>1, <4>2, ServeTable, RowStaysSame
    <3>4. calls[d].op = "upload" /\ calls[d].stage = "written" => status'[calls[d].id] = "pending"
      <4> SUFFICES ASSUME calls[d].op = "upload", calls[d].stage = "written" PROVE status'[calls[d].id] = "pending"
        OBVIOUS
      <4>1. status[calls[d].id] = "pending" /\ Makes(d)
        BY <3>1 DEF BaseInv, CallsOK, Makes
      <4>2. CASE Makes(c)
        BY <3>2, <4>1, <4>2, ServeTable DEF RowStays
      <4>3. CASE UNCHANGED status
        BY <4>1, <4>3
      <4>4. QED
        BY <4>2, <4>3, ServeRows
    <3>5. QED
      BY <1>2, <3>1, <3>3, <3>4 DEF BaseInv, CallsOK, Makes, Busy, Effective
  <2>3. ASSUME Busy(c)'
        PROVE  /\ calls'[c].stage # "answered" => calls'[c].out = {}
               /\ calls'[c].deaf => calls'[c].stage \in {"sent", "written"}
               /\ calls'[c].stage = "written" => calls'[c].op \in {"upload", "rename", "restore"}
               /\ calls'[c].op \in {"add", "upload", "rename"} => calls'[c].name \in Names
               /\ calls'[c].op = "list" =>
                    /\ ~calls'[c].deaf
                    /\ \A s, t \in calls'[c].out : s.id = t.id => s = t
               /\ calls'[c].op # "list" =>
                    /\ Makes(c)' /\ calls'[c].stage = "sent" => calls'[c].id \notin Inserted'
                    /\ ~Makes(c)' \/ Effective(c)' => calls'[c].id \in Inserted'
               /\ calls'[c].op # "list" /\ calls'[c].stage = "answered" => \A t \in calls'[c].out : t.id = calls'[c].id
               /\ calls'[c].op = "upload" /\ calls'[c].stage = "written" => status'[calls'[c].id] = "pending"
    <3>1. /\ ~calls[c].deaf /\ calls'[c].deaf = FALSE /\ calls'[c].op = calls[c].op
          /\ calls'[c].id = calls[c].id /\ calls'[c].name = calls[c].name
      BY <1>1, <2>3 DEF Busy, Steps
    <3>2. /\ calls'[c].stage \in {"written", "answered", "refused"}
          /\ calls'[c].stage # "answered" => calls'[c].out = {}
          /\ calls'[c].stage = "written" => calls[c].op \in {"upload", "rename", "restore"}
      BY <3>1, ServeShape
    <3>3. calls[c].op \in {"add", "upload", "rename"} => calls[c].name \in Names
      BY <1>1 DEF BaseInv, CallsOK
    <3>4. calls[c].op = "list" => \A s, t \in calls'[c].out : s.id = t.id => s = t
      <4>1. calls[c].op = "list" => calls'[c].out = {} \/ calls'[c].out = ListOf(calls[c].at)
        BY <3>1, <3>2, ServeShape
      <4>2. \A s, t \in ListOf(calls[c].at) : s.id = t.id => s = t
        BY DEF ListOf, Row
      <4>3. QED
        BY <4>1, <4>2
    <3>5. ~Makes(c)' \/ Effective(c)' => calls[c].op = "list" \/ calls[c].id \in Inserted'
      <4>1. CASE ~Makes(c)
        BY <1>1, <1>2, <4>1 DEF BaseInv, CallsOK
      <4>2. CASE Makes(c) /\ Effective(c)'
        BY <3>1, <4>2, ServeRows DEF Effective
      <4>3. Makes(c) => Makes(c)'
        BY <2>3, <3>1 DEF Makes
      <4>4. QED
        BY <4>1, <4>2, <4>3
    <3>6. calls'[c].op # "list" /\ calls'[c].stage = "answered" => \A t \in calls'[c].out : t.id = calls'[c].id
      <4> SUFFICES ASSUME calls'[c].op # "list", calls'[c].stage = "answered"
                   PROVE  \A t \in calls'[c].out : t.id = calls'[c].id
        OBVIOUS
      <4>1. CASE Makes(c)
        BY <3>1, <4>1, ServeShape, NewRows
      <4>2. CASE calls[c].op \in {"delete", "rename", "restore"}
        BY <3>1, <4>2, ServeShape DEF Row
      <4>3. QED
        BY <1>1, <3>1, <4>1, <4>2 DEF Ops, Makes
    <3>7. calls'[c].op = "upload" /\ calls'[c].stage = "written" => status'[calls'[c].id] = "pending"
      BY <3>1, ServeRows
    <3>8. QED
      BY <3>1, <3>2, <3>3, <3>4, <3>5, <3>6, <3>7
  <2>4. \A d, e \in Slots : (d # e /\ Makes(d)' /\ Makes(e)') => calls'[d].id # calls'[e].id
    BY <1>4, <2>1 DEF BaseInv, CallsOK, Makes
  <2>5. QED
    BY <2>2, <2>3, <2>4 DEF CallsOK
<1>8. ClashesNoted'
  BY <1>1, <1>3, <1>4 DEF BaseInv, ClashesNoted, Awaited, Touches
<1>9. QED
  BY <1>1, <1>2, <1>5, <1>6, <1>7, <1>8 DEF BaseInv

-----------------------------------------------------------------------------
(* What the operations of the store do to the lists *)

Lists(store) == DOMAIN store = Pages /\ \A k \in Pages : IsABag(store[k])

LEMMA AddedLists ==
  ASSUME NEW store, Lists(store), NEW s, NEW k \in Pages
  PROVE  LET A == Added(store, s, k) IN
         /\ Lists(A) /\ \A j \in Pages \ {k} : A[j] = store[j]
         /\ DOMAIN A[k] = DOMAIN store[k] \cup {s}
         /\ \A t \in DOMAIN store[k] \ {s} : A[k][t] = store[k][t]
         /\ s \notin DOMAIN store[k] => A[k][s] = 1
<1> DEFINE A == Added(store, s, k)
           B == store[k] (+) SetToBag({s})
<1>1. DOMAIN A = Pages /\ A[k] = B /\ \A j \in Pages \ {k} : A[j] = store[j]
  BY DEF Added, Lists
<1>2. IsABag(store[k])
  BY DEF Lists
<1>3. /\ IsABag(B) /\ DOMAIN B = DOMAIN store[k] \cup {s}
      /\ \A t \in DOMAIN store[k] \ {s} : B[t] = store[k][t]
      /\ s \notin DOMAIN store[k] => B[s] = 1
  BY <1>2, BagWith
<1> HIDE DEF A, B
<1>4. QED
  BY <1>1, <1>3 DEF Lists, A

LEMMA RemovedLists ==
  ASSUME Lists(cache), NEW e, NEW k \in Pages
  PROVE  LET R == Removed(e, k) IN
         /\ Lists(R) /\ \A j \in Pages \ {k} : R[j] = cache[j]
         /\ DOMAIN R[k] = {t \in DOMAIN cache[k] : t.id # e}
         /\ \A t \in DOMAIN R[k] : R[k][t] = cache[k][t]
         /\ cache[k] = EmptyBag => R[k] = EmptyBag
<1> DEFINE R == Removed(e, k)
           S == {t \in DOMAIN cache[k] : t.id # e}
           B == [s \in S |-> cache[k][s]]
<1>1. DOMAIN R = Pages /\ R[k] = B /\ \A j \in Pages \ {k} : R[j] = cache[j]
  BY DEF Removed, Lists
<1>2. IsABag(cache[k]) /\ S \in SUBSET DOMAIN cache[k]
  BY DEF Lists
<1>3. IsABag(B) /\ DOMAIN B = S /\ \A t \in S : B[t] = cache[k][t]
  BY <1>2, BagPart
<1>4. cache[k] = EmptyBag => B = EmptyBag
  BY DEF EmptyBag, SetToBag
<1> HIDE DEF R, B
<1>5. QED
  BY <1>1, <1>3, <1>4 DEF Lists, R

LEMMA ReplacedLists ==
  ASSUME Lists(cache), NEW s, NEW k \in Pages, ReplaceFile(s, k),
         k \notin arrays => cache[k] = EmptyBag
  PROVE  /\ Lists(cache') /\ \A j \in Pages \ {k} : cache'[j] = cache[j]
         /\ k \notin arrays => cache' = cache
         /\ k \in arrays => s \in DOMAIN cache'[k]
         /\ DOMAIN cache'[k] \subseteq DOMAIN cache[k] \cup {s}
         /\ \A t \in DOMAIN cache[k] : t.id # s.id =>
              t \in DOMAIN cache'[k] /\ cache'[k][t] = cache[k][t]
         /\ (\A t, x \in DOMAIN cache[k] : t.id = s.id /\ x.id = s.id => t = x /\ cache[k][t] = 1)
              => \A t \in DOMAIN cache'[k] : t.id = s.id /\ k \in arrays => t = s /\ cache'[k][t] = 1
<1> DEFINE old == {t \in DOMAIN cache[k] : t.id = s.id}
<1>1. IsABag(cache[k])
  BY DEF Lists
<1>2. CASE k \notin arrays
  <2>1. old = {}
    BY <1>2 DEF EmptyBag, SetToBag
  <2>2. UNCHANGED cache
    BY <1>2, <2>1 DEF ReplaceFile, GetFiles
  <2>3. QED
    BY <1>2, <2>2
<1>3. ASSUME k \in arrays, NEW B, IsABag(B), DOMAIN B \subseteq DOMAIN cache[k],
             \A t \in DOMAIN cache[k] : t.id # s.id => t \in DOMAIN B /\ B[t] = cache[k][t],
             (\A t, x \in DOMAIN cache[k] : t.id = s.id /\ x.id = s.id => t = x /\ cache[k][t] = 1)
               => \A t \in DOMAIN B : t.id # s.id,
             cache' = [cache EXCEPT ![k] = B (+) SetToBag({s})]
      PROVE  /\ Lists(cache') /\ \A j \in Pages \ {k} : cache'[j] = cache[j]
             /\ s \in DOMAIN cache'[k]
             /\ DOMAIN cache'[k] \subseteq DOMAIN cache[k] \cup {s}
             /\ \A t \in DOMAIN cache[k] : t.id # s.id =>
                  t \in DOMAIN cache'[k] /\ cache'[k][t] = cache[k][t]
             /\ (\A t, x \in DOMAIN cache[k] : t.id = s.id /\ x.id = s.id => t = x /\ cache[k][t] = 1)
                  => \A t \in DOMAIN cache'[k] : t.id = s.id => t = s /\ cache'[k][t] = 1
  <2> DEFINE A == B (+) SetToBag({s})
  <2>1. /\ IsABag(A) /\ DOMAIN A = DOMAIN B \cup {s}
        /\ \A t \in DOMAIN B \ {s} : A[t] = B[t]
        /\ s \notin DOMAIN B => A[s] = 1
    BY <1>3, BagWith
  <2>2. DOMAIN cache' = Pages /\ cache'[k] = A /\ \A j \in Pages \ {k} : cache'[j] = cache[j]
    BY <1>3 DEF Lists
  <2> HIDE DEF A
  <2>3. Lists(cache')
    BY <2>1, <2>2 DEF Lists
  <2>4. QED
    BY <1>3, <2>1, <2>2, <2>3
<1>4. CASE \E t \in old : cache' = [cache EXCEPT ![k] = (@ (-) SetToBag({t})) (+) SetToBag({s})]
  <2>1. PICK t \in old : cache' = [cache EXCEPT ![k] = (cache[k] (-) SetToBag({t})) (+) SetToBag({s})]
    BY <1>4
  <2> DEFINE B == cache[k] (-) SetToBag({t})
  <2>2. /\ IsABag(B) /\ DOMAIN B \subseteq DOMAIN cache[k]
        /\ \A x \in DOMAIN cache[k] \ {t} : x \in DOMAIN B /\ B[x] = cache[k][x]
        /\ cache[k][t] = 1 => t \notin DOMAIN B
    BY <1>1, BagWithout
  <2>3. cache' = [cache EXCEPT ![k] = B (+) SetToBag({s})]
    BY <2>1
  <2>4. k \in arrays
    BY <2>1 DEF EmptyBag, SetToBag
  <2> HIDE DEF B
  <2>5. (\A x, y \in DOMAIN cache[k] : x.id = s.id /\ y.id = s.id => x = y /\ cache[k][x] = 1)
          => \A x \in DOMAIN B : x.id # s.id
    BY <2>2
  <2>6. QED
    BY <1>3, <2>2, <2>3, <2>4, <2>5
<1>5. CASE k \in arrays /\ old = {} /\ cache' = [cache EXCEPT ![k] = @ (+) SetToBag({s})]
  BY <1>1, <1>3, <1>5
<1>6. QED
  BY <1>2, <1>4, <1>5 DEF ReplaceFile, GetFiles

LEMMA ReceiveShape ==
  ASSUME BaseInv, NEW c \in Slots, Receive(c)
  PROVE  /\ Busy(c) /\ UNCHANGED <<vars, here, visited, raced, clicks>> /\ form' \in {form, Null}
         /\ calls' \in [Slots -> Calls \cup {Free}]
         /\ \A d \in Slots \ {c} : calls'[d] = calls[d]
         /\ \/ calls'[c] = Free
            \/ /\ calls[c].op # "list"
               /\ calls[c].stage = "sent" \/ (calls[c].op = "upload" /\ calls[c].stage = "written")
               /\ calls'[c].op = calls[c].op /\ calls'[c].at = calls[c].at
               /\ calls'[c].id = calls[c].id /\ calls'[c].name = calls[c].name
               /\ calls'[c].deaf = TRUE
               /\ calls'[c].stage = calls[c].stage /\ calls'[c].out = calls[c].out
         /\ doubtful \subseteq doubtful' /\ doubtful' \subseteq doubtful \cup {calls[c].id}
         /\ doubtful' # doubtful => calls[c].op # "list"
         /\ lost' \in {lost, lost + 1} /\ lost' <= MaxLost
<1>1. Busy(c)
  BY DEF Receive, ReceiveList, ReceiveError, ReceiveAdded, ReceiveRenamed, ReceiveDeleted, ReceiveRestored,
     GiveUp, LoseRequest, Arrived
<1>2. calls \in [Slots -> Calls \cup {Free}] /\ calls[c] \in Calls
  BY <1>1, Types
<1>3. lost \in Nat /\ lost <= MaxLost /\ MaxLost \in Nat
  BY BoundAssumption DEF BaseInv, StoreTypeOK
<1>4. CASE GiveUp(c)
  <2>1. calls' = [calls EXCEPT ![c] = Left(c)]
    BY <1>4 DEF GiveUp
  <2>2. \/ Left(c) = Free
        \/ /\ calls[c].op # "list"
           /\ calls[c].stage = "sent" \/ (calls[c].op = "upload" /\ calls[c].stage = "written")
           /\ Left(c) = [calls[c] EXCEPT !.deaf = TRUE]
    BY <1>2 DEF Left
  <2>3. Left(c) \in Calls \cup {Free}
    BY <1>2, <2>2, CallLeft
  <2>4. calls' \in [Slots -> Calls \cup {Free}] /\ calls'[c] = Left(c) /\ \A d \in Slots \ {c} : calls'[d] = calls[d]
    BY <1>2, <2>1, <2>3
  <2>5. /\ UNCHANGED <<vars, here, visited, raced, clicks>> /\ form' \in {form, Null}
        /\ lost < MaxLost /\ lost' = lost + 1
        /\ doubtful' = doubtful \/ (calls[c].op # "list" /\ doubtful' = doubtful \cup {calls[c].id})
    BY <1>4 DEF GiveUp, FormEnds
  <2>6. \/ calls'[c] = Free
        \/ /\ calls[c].op # "list"
           /\ calls[c].stage = "sent" \/ (calls[c].op = "upload" /\ calls[c].stage = "written")
           /\ calls'[c].op = calls[c].op /\ calls'[c].at = calls[c].at
           /\ calls'[c].id = calls[c].id /\ calls'[c].name = calls[c].name
           /\ calls'[c].deaf = TRUE
           /\ calls'[c].stage = calls[c].stage /\ calls'[c].out = calls[c].out
    <3>1. CASE Left(c) = Free
      BY <2>4, <3>1
    <3>2. CASE Left(c) # Free
      <4> DEFINE y == [calls[c] EXCEPT !.deaf = TRUE]
      <4>1. /\ y.op = calls[c].op /\ y.at = calls[c].at /\ y.id = calls[c].id /\ y.name = calls[c].name
            /\ y.deaf = TRUE /\ y.stage = calls[c].stage /\ y.out = calls[c].out
        BY <1>2, CallLeft
      <4>2. calls'[c] = y
        BY <2>2, <2>4, <3>2
      <4> HIDE DEF y
      <4>3. QED
        BY <2>2, <3>2, <4>1, <4>2
    <3>3. QED
      BY <3>1, <3>2
  <2>7. QED
    BY <1>1, <1>3, <2>4, <2>5, <2>6
<1>5. CASE ~GiveUp(c)
  <2>1. /\ calls' = [calls EXCEPT ![c] = Free]
        /\ UNCHANGED <<vars, here, visited, raced, clicks, doubtful, lost>> /\ form' \in {form, Null}
    BY <1>5 DEF Receive, ReceiveList, ReceiveError, ReceiveAdded, ReceiveRenamed, ReceiveDeleted, ReceiveRestored,
       LoseRequest, Arrived, FormEnds, pageVars
  <2>2. QED
    BY <1>1, <1>2, <1>3, <2>1
<1>6. QED
  BY <1>4, <1>5

\* The lists hold what they held and what the answer brings; a call that is not a
\* list call touches the objects of its entry only.
LEMMA ReceiveLists ==
  ASSUME BaseInv, NEW c \in Slots, Receive(c)
  PROVE  /\ Lists(cache')
         /\ \A k \in Pages : \A t \in DOMAIN cache'[k] : t \in DOMAIN cache[k] \/ t \in calls[c].out
         /\ keys \subseteq keys' /\ keys' \subseteq Pages /\ arrays' \subseteq keys'
         /\ \A k \in Pages \ arrays' : cache'[k] = EmptyBag
         /\ loaded' \subseteq loaded \cup {calls[c].at} /\ loaded' \subseteq keys'
         /\ Trash \in loaded' => here = Trash
         /\ calls[c].op # "list" =>
              /\ loaded' = loaded
              /\ \A k \in Pages : \A t : t.id # calls[c].id =>
                   /\ t \in DOMAIN cache'[k] <=> t \in DOMAIN cache[k]
                   /\ t \in DOMAIN cache[k] => cache'[k][t] = cache[k][t]
<1> DEFINE e == calls[c].id
           k == calls[c].at
           out == calls[c].out
           Goal == /\ Lists(cache')
                   /\ \A j \in Pages : \A t \in DOMAIN cache'[j] : t \in DOMAIN cache[j] \/ t \in out
                   /\ keys \subseteq keys' /\ keys' \subseteq Pages /\ arrays' \subseteq keys'
                   /\ \A j \in Pages \ arrays' : cache'[j] = EmptyBag
                   /\ loaded' \subseteq loaded \cup {k} /\ loaded' \subseteq keys'
                   /\ Trash \in loaded' => here = Trash
                   /\ calls[c].op # "list" =>
                        /\ loaded' = loaded
                        /\ \A j \in Pages : \A t : t.id # e =>
                             /\ t \in DOMAIN cache'[j] <=> t \in DOMAIN cache[j]
                             /\ t \in DOMAIN cache[j] => cache'[j][t] = cache[j][t]
<1>1. /\ Lists(cache) /\ keys \subseteq Pages /\ arrays \subseteq keys /\ loaded \subseteq keys
      /\ \A j \in Pages \ arrays : cache[j] = EmptyBag
      /\ Trash \in loaded => here = Trash
  BY DEF BaseInv, StoreTypeOK, Lists
<1>2. calls[c] \in Calls /\ k \in Pages /\ out \in SUBSET Snapshots
  BY ReceiveShape, Types, CallFields
<1>3. ASSUME UNCHANGED <<keys, arrays, cache, loaded>> PROVE Goal
  BY <1>1, <1>3
<1>4. ASSUME ReceiveList(c) PROVE Goal
  <2>1. /\ calls[c].op = "list" /\ cache' = [cache EXCEPT ![k] = SetToBag(out)]
        /\ keys' = keys \cup {k}
        /\ arrays' = IF HasArray(k, out) THEN arrays \cup {k} ELSE arrays \ {k}
        /\ loaded' = IF calls[c].stage = "answered" /\ (k = Trash => here = Trash)
                       THEN loaded \cup {k} ELSE loaded \ {k}
    BY <1>4 DEF ReceiveList, Arrived
  <2>2. /\ DOMAIN cache' = Pages /\ cache'[k] = SetToBag(out) /\ \A j \in Pages \ {k} : cache'[j] = cache[j]
    <3>1. cache' = [cache EXCEPT ![k] = SetToBag(out)]
      BY <2>1
    <3> HIDE DEF k, out
    <3>2. QED
      BY <1>1, <1>2, <3>1 DEF Lists
  <2>3. IsABag(SetToBag(out)) /\ DOMAIN SetToBag(out) = out
    BY BagOfSet
  <2>4. k \notin arrays' => SetToBag(out) = EmptyBag
    BY <2>1 DEF HasArray, EmptyBag
  <2>5. Lists(cache')
    BY <1>1, <2>2, <2>3 DEF Lists
  <2>6. \A j \in Pages \ arrays' : cache'[j] = EmptyBag
    BY <1>1, <2>1, <2>2, <2>4
  <2>7. \A j \in Pages : \A t \in DOMAIN cache'[j] : t \in DOMAIN cache[j] \/ t \in out
    BY <2>2, <2>3
  <2>8. QED
    BY <1>1, <1>2, <2>1, <2>5, <2>6, <2>7
<1>5. ASSUME ReceiveAdded(c) PROVE Goal
  <2>1. /\ calls[c].op \in {"add", "upload"} /\ calls[c].stage = "answered"
        /\ Holds(k) /\ UNCHANGED loaded
    BY <1>5 DEF ReceiveAdded, Arrived
  <2>2. PICK s \in out : cache' = Added(cache, s, k)
    BY <1>5 DEF ReceiveAdded
  <2>3. s.id = e
    BY <2>1, ReceiveShape DEF BaseInv, CallsOK
  <2>4. /\ Lists(cache') /\ \A j \in Pages \ {k} : cache'[j] = cache[j]
        /\ DOMAIN cache'[k] = DOMAIN cache[k] \cup {s}
        /\ \A t \in DOMAIN cache[k] \ {s} : cache'[k][t] = cache[k][t]
    BY <1>1, <1>2, <2>2, AddedLists
  <2>5. QED
    BY <1>1, <1>2, <2>1, <2>3, <2>4 DEF Holds
<1>6. ASSUME ReceiveRenamed(c) PROVE Goal
  <2>1. /\ calls[c].op = "rename" /\ calls[c].stage = "answered"
        /\ UNCHANGED <<keys, arrays, loaded>>
    BY <1>6 DEF ReceiveRenamed, Arrived
  <2>2. PICK s \in out : ReplaceFile(s, k)
    BY <1>6 DEF ReceiveRenamed
  <2>3. s.id = e
    BY <2>1, ReceiveShape DEF BaseInv, CallsOK
  <2>4. /\ Lists(cache') /\ \A j \in Pages \ {k} : cache'[j] = cache[j]
        /\ k \notin arrays => cache' = cache
        /\ DOMAIN cache'[k] \subseteq DOMAIN cache[k] \cup {s}
        /\ \A t \in DOMAIN cache[k] : t.id # s.id =>
              t \in DOMAIN cache'[k] /\ cache'[k][t] = cache[k][t]
    BY <1>1, <1>2, <2>2, ReplacedLists
  <2>5. QED
    BY <1>1, <1>2, <2>1, <2>3, <2>4
<1>7. ASSUME ReceiveDeleted(c) PROVE Goal
  <2>1. calls[c].op = "delete" /\ UNCHANGED <<keys, arrays, loaded>> /\ cache' = Removed(e, k)
    BY <1>7 DEF ReceiveDeleted, Arrived
  <2>2. /\ Lists(cache') /\ \A j \in Pages \ {k} : cache'[j] = cache[j]
        /\ DOMAIN cache'[k] = {t \in DOMAIN cache[k] : t.id # e}
        /\ \A t \in DOMAIN cache'[k] : cache'[k][t] = cache[k][t]
        /\ cache[k] = EmptyBag => cache'[k] = EmptyBag
    BY <1>1, <1>2, <2>1, RemovedLists
  <2>3. QED
    BY <1>1, <1>2, <2>1, <2>2
<1>8. ASSUME ReceiveRestored(c) PROVE Goal
  <2>1. calls[c].op = "restore" /\ calls[c].stage = "answered" /\ UNCHANGED loaded
    BY <1>8 DEF ReceiveRestored, Arrived
  <2>2. PICK s \in out : cache' = Added(Removed(e, Trash), s, s.parent) /\ Holds(s.parent)
    BY <1>8 DEF ReceiveRestored, RestoredToParent
  <2>3. s.id = e /\ s.parent \in Pages /\ Trash \in Pages
    BY <1>2, <2>1, ReceiveShape DEF BaseInv, CallsOK, Snapshots, Pages
  <2> DEFINE R == Removed(e, Trash)
             p == s.parent
  <2>4. /\ Lists(R) /\ \A j \in Pages \ {Trash} : R[j] = cache[j]
        /\ DOMAIN R[Trash] = {t \in DOMAIN cache[Trash] : t.id # e}
        /\ \A t \in DOMAIN R[Trash] : R[Trash][t] = cache[Trash][t]
        /\ cache[Trash] = EmptyBag => R[Trash] = EmptyBag
    BY <1>1, <2>3, RemovedLists
  <2>5. /\ Lists(cache') /\ \A j \in Pages \ {p} : cache'[j] = R[j]
        /\ DOMAIN cache'[p] = DOMAIN R[p] \cup {s}
        /\ \A t \in DOMAIN R[p] \ {s} : cache'[p][t] = R[p][t]
    BY <2>2, <2>3, <2>4, AddedLists
  <2> HIDE DEF R, p
  <2>6. \A j \in Pages : \A t : t.id # e =>
          /\ t \in DOMAIN R[j] <=> t \in DOMAIN cache[j]
          /\ t \in DOMAIN cache[j] => R[j][t] = cache[j][t]
    BY <2>4
  <2>7. \A j \in Pages : \A t : t.id # e =>
          /\ t \in DOMAIN cache'[j] <=> t \in DOMAIN cache[j]
          /\ t \in DOMAIN cache[j] => cache'[j][t] = cache[j][t]
    BY <2>3, <2>5, <2>6
  <2>8. \A j \in Pages : \A t \in DOMAIN cache'[j] : t \in DOMAIN cache[j] \/ t \in out
    BY <2>4, <2>5
  <2>9. keys' = keys \cup {p} /\ arrays' = arrays \cup {p} /\ p \in Pages
    BY <2>2, <2>3 DEF Holds, p
  <2>10. \A j \in Pages \ arrays' : cache'[j] = EmptyBag
    BY <1>1, <2>4, <2>5, <2>9
  <2>11. QED
    BY <1>1, <2>1, <2>5, <2>7, <2>8, <2>9, <2>10
<1>9. ASSUME ReceiveError(c) \/ GiveUp(c) \/ LoseRequest(c) PROVE Goal
  BY <1>3, <1>9 DEF ReceiveError, GiveUp, LoseRequest, pageVars
<1> HIDE DEF Goal
<1>10. Goal
  BY <1>4, <1>5, <1>6, <1>7, <1>8, <1>9 DEF Receive
<1>11. QED
  BY <1>10 DEF Goal

LEMMA ReceiveBase ==
  ASSUME BaseInv, NEW c \in Slots, Receive(c)
  PROVE  BaseInv'
<1>1. /\ Busy(c) /\ UNCHANGED <<vars, here, visited, raced, clicks>> /\ form' \in {form, Null}
      /\ calls' \in [Slots -> Calls \cup {Free}] /\ calls[c] \in Calls
  BY ReceiveShape, Types
<1>2. Inserted' = Inserted /\ status' = status /\ FormerTable'
  BY <1>1 DEF BaseInv, FormerTable, TypeOK, ParentIds, Inserted, vars
<1>3. \A d \in Slots : Busy(d)' =>
        /\ Busy(d)
        /\ calls'[d].op = calls[d].op /\ calls'[d].at = calls[d].at
        /\ calls'[d].id = calls[d].id /\ calls'[d].name = calls[d].name
        /\ calls'[d].stage = calls[d].stage /\ calls'[d].out = calls[d].out
        /\ calls'[d].op = "list" => calls'[d].deaf = calls[d].deaf
        /\ calls'[d].deaf = calls[d].deaf \/ (calls'[d].deaf = TRUE /\ calls[d].stage \in {"sent", "written"})
  BY <1>1, ReceiveShape DEF Busy
<1>4. StoreTypeOK'
  <2>1. doubtful' \subseteq Entries
    <3>1. calls[c].op # "list" => calls[c].id \in Entries
      BY <1>1, Types
    <3>2. QED
      BY <3>1, ReceiveShape DEF BaseInv, StoreTypeOK
  <2>2. lost' \in 0 .. MaxLost
    <3>1. lost \in 0 .. MaxLost
      BY DEF BaseInv, StoreTypeOK
    <3>2. lost' \in {lost, lost + 1} /\ lost' <= MaxLost
      BY ReceiveShape
    <3>3. QED
      BY <3>1, <3>2, BoundAssumption
  <2>3. \A d \in Slots : Busy(d)' =>
          /\ calls'[d].at \in Inserted' \cup {Root, Trash}
          /\ IF calls'[d].op = "list" THEN calls'[d].id = Null
                                      ELSE calls'[d].id \in Entries /\ calls'[d].at # Trash
    BY <1>2, <1>3 DEF BaseInv, StoreTypeOK
  <2>4. \A k \in Pages : DOMAIN cache'[k] \subseteq Snapshots
    <3>1. calls[c].out \subseteq Snapshots
      BY <1>1, CallFields
    <3>2. QED
      BY <3>1, ReceiveLists DEF BaseInv, StoreTypeOK
  <2>5. form' \in Inserted' \cup {Null}
    <3>1. form \in Inserted \cup {Null}
      BY DEF BaseInv, StoreTypeOK
    <3>2. QED
      BY <1>1, <1>2, <3>1
  <2>6. QED
    BY <1>1, <2>1, <2>2, <2>3, <2>4, <2>5, ReceiveLists DEF BaseInv, StoreTypeOK, Lists
<1>5. Known'
  <2>1. \A k \in Pages : \A t \in DOMAIN cache'[k] : t.id \in Inserted /\ t.parent \in Inserted \cup {Root}
    BY <1>1, ReceiveLists DEF BaseInv, Known
  <2>2. QED
    BY <1>1, <1>2, <1>3, <2>1 DEF BaseInv, Known
<1>6. CallsOK'
  BY <1>2, <1>3 DEF BaseInv, CallsOK, Makes, Effective
<1>7. ClashesNoted'
  BY <1>1, <1>3 DEF BaseInv, ClashesNoted, Awaited, Touches
<1>8. QED
  BY <1>1, <1>2, <1>4, <1>5, <1>6, <1>7, ReceiveLists DEF BaseInv

LEMMA ClashesCover ==
  ASSUME NEW call
  PROVE  /\ \A d \in Slots : Awaited(d) =>
              IF "list" \in {call.op, calls[d].op}
                THEN Touches(call) \cap Touches(calls[d]) \subseteq Clashes(call)
                ELSE {call.id} \cap {calls[d].id} \subseteq Clashes(call)
         /\ call.op # "list" /\ ~Reliable(here) => call.id \in Clashes(call)
         /\ Clashes(call) \subseteq Touches(call) \cup {call.id}
         /\ call.op = "list" => Clashes(call) \subseteq Touches(call)
<1> DEFINE awaited == {calls[d] : d \in {d \in Slots : Busy(d) /\ ~calls[d].deaf}}
           With(other) == IF "list" \in {call.op, other.op} THEN Touches(call) \cap Touches(other)
                                                            ELSE {call.id} \cap {other.id}
           own == IF call.op = "list" \/ Reliable(here) THEN {} ELSE {call.id}
<1>1. Clashes(call) = own \cup UNION {With(other) : other \in awaited}
  BY DEF Clashes
<1>2. \A d \in Slots : Awaited(d) => calls[d] \in awaited
  BY DEF Awaited
<1> HIDE DEF awaited
<1>3. \A d \in Slots : Awaited(d) => With(calls[d]) \subseteq Clashes(call)
  BY <1>1, <1>2
<1>4. own \subseteq Clashes(call)
  BY <1>1
<1>5. \A other : With(other) \subseteq Touches(call) \cup {call.id}
  OBVIOUS
<1>6. \A other : call.op = "list" => With(other) \subseteq Touches(call)
  OBVIOUS
<1> HIDE DEF With
<1>7. Clashes(call) \subseteq Touches(call) \cup {call.id}
  BY <1>1, <1>5
<1>8. call.op = "list" => Clashes(call) \subseteq Touches(call)
  BY <1>1, <1>6
<1>9. QED
  BY <1>3, <1>4, <1>7, <1>8 DEF With

\* A click asks for one change, of a new entry, of one the open page shows, or of the one
\* the rename form is for.
Asked(c, o, k, e, n) ==
  /\ ~Busy(c) /\ calls' = [calls EXCEPT ![c] = Call(o, k, e, n)]
  /\ raced' = raced \cup Clashes(Call(o, k, e, n))
  /\ k \in Inserted \cup {Root}
  /\ UNCHANGED <<vars, keys, arrays, cache, here, visited, loaded, lost>> /\ form' \in {form, Null}
  /\ o \in {"add", "upload"} => Fresh(e) /\ n \in Names /\ UNCHANGED doubtful
  /\ o = "rename" =>
       /\ e \in Inserted /\ n \in Names /\ k = FolderOf(here)
       /\ doubtful' = IF here # Trash /\ \E s \in Shown(here) : s.id = e
                        THEN doubtful ELSE doubtful \cup {e}
  /\ o = "delete" =>
       /\ \E s \in Shown(here) : s.id = e /\ s.parent = k /\ ~s.gone
       /\ UNCHANGED doubtful
  /\ o = "restore" =>
       /\ \E s \in Shown(here) : s.id = e /\ s.parent = k /\ s.gone
       /\ UNCHANGED doubtful

LEMMA ShownKnown ==
  ASSUME BaseInv, NEW s \in Shown(here)
  PROVE  /\ s \in Snapshots /\ s.id \in Entries /\ s.id \in Inserted
         /\ s.parent \in Folders \cup {Root} /\ s.parent \in Inserted \cup {Root}
<1>1. here \in Pages /\ s \in DOMAIN cache[here]
  BY DEF BaseInv, StoreTypeOK, Shown, GetFiles
<1>2. QED
  BY <1>1 DEF BaseInv, StoreTypeOK, Known, Snapshots

LEMMA ClickShape ==
  ASSUME BaseInv, NEW c \in Slots, Click(c)
  PROVE  \E o \in Ops \ {"list"}, k \in Folders \cup {Root}, e \in Entries, n \in Names \cup {Null} :
           Asked(c, o, k, e, n)
<1>1. FolderOf(here) \in Inserted \cup {Root} /\ FolderOf(here) \in Folders \cup {Root}
  BY DEF FolderOf, BaseInv, Known, StoreTypeOK, Pages
<1>2. ASSUME NEW e \in Entries, NEW n \in Names, ClickAdd(c, e, n)
      PROVE  Asked(c, "add", FolderOf(here), e, n)
  BY <1>1, <1>2 DEF ClickAdd, Start, Asked
<1>3. ASSUME NEW e \in Entries, NEW n \in Names, ClickUpload(c, e, n)
      PROVE  Asked(c, "upload", FolderOf(here), e, n)
  BY <1>1, <1>3 DEF ClickUpload, Start, Asked
<1>4. ASSUME NEW n \in Names, SubmitRename(c, n)
      PROVE  Asked(c, "rename", FolderOf(here), form, n) /\ form \in Entries
  <2>1. form \in Inserted
    BY <1>4 DEF SubmitRename, BaseInv, StoreTypeOK
  <2>2. QED
    BY <1>1, <1>4, <2>1 DEF SubmitRename, Start, Asked, Inserted
<1>5. ASSUME NEW s \in Shown(here), ClickDelete(c, s)
      PROVE  Asked(c, "delete", s.parent, s.id, Null) /\ s.id \in Entries /\ s.parent \in Folders \cup {Root}
  BY <1>5, ShownKnown DEF ClickDelete, Start, Asked
<1>6. ASSUME NEW s \in Shown(here), ClickRestore(c, s)
      PROVE  Asked(c, "restore", s.parent, s.id, Null) /\ s.id \in Entries /\ s.parent \in Folders \cup {Root}
  BY <1>6, ShownKnown DEF ClickRestore, Start, Asked
<1>7. {"add", "upload", "rename", "delete", "restore"} \subseteq Ops \ {"list"}
  BY DEF Ops
<1>8. QED
  BY <1>1, <1>2, <1>3, <1>4, <1>5, <1>6, <1>7 DEF Click

LEMMA ClickBase ==
  ASSUME BaseInv, NEW c \in Slots, NEW o \in Ops \ {"list"}, NEW k \in Folders \cup {Root},
         NEW e \in Entries, NEW n \in Names \cup {Null}, Asked(c, o, k, e, n), clicks' \in {clicks, clicks + 1}
  PROVE  BaseInv'
<1> DEFINE call == Call(o, k, e, n)
<1>1. k \in Pages /\ o \in Ops /\ e \in Entries \cup {Null}
  BY DEF Pages
<1>2. /\ call \in Calls /\ call.op = o /\ call.at = k /\ call.id = e /\ call.name = n
      /\ call.stage = "sent" /\ call.deaf = FALSE /\ call.out = {}
  BY <1>1 DEF Call, Calls
<1> HIDE DEF call
<1>3. /\ call \in Calls /\ call.op = o /\ call.at = k /\ call.id = e /\ call.name = n
      /\ call.stage = "sent" /\ call.deaf = FALSE /\ call.out = {} /\ call # Free
  BY <1>2, FreeAssumption
<1>4. /\ ~Busy(c) /\ calls' = [calls EXCEPT ![c] = call] /\ raced' = raced \cup Clashes(call)
      /\ k \in Inserted \cup {Root} /\ k # Trash
      /\ UNCHANGED <<vars, keys, arrays, cache, here, visited, loaded, lost>> /\ form' \in {form, Null}
      /\ doubtful' \subseteq doubtful \cup {e}
      /\ o \in {"add", "upload", "rename"} => n \in Names
  <2>1. k # Trash
    BY TrashAssumption, FolderAssumption
  <2>2. /\ ~Busy(c) /\ calls' = [calls EXCEPT ![c] = call] /\ raced' = raced \cup Clashes(call)
        /\ k \in Inserted \cup {Root}
        /\ UNCHANGED <<vars, keys, arrays, cache, here, visited, loaded, lost>> /\ form' \in {form, Null}
        /\ o \in {"add", "upload", "rename"} => n \in Names
    BY DEF Asked, call
  <2>3. doubtful' \subseteq doubtful \cup {e}
    BY DEF Asked, Ops
  <2>4. QED
    BY <2>1, <2>2, <2>3
<1>5. Inserted' = Inserted /\ status' = status /\ FormerTable'
  BY <1>4 DEF BaseInv, FormerTable, TypeOK, ParentIds, Inserted, vars
<1>6. /\ calls' \in [Slots -> Calls \cup {Free}] /\ calls'[c] = call
      /\ \A d \in Slots \ {c} : calls'[d] = calls[d]
  BY <1>3, <1>4, Types
<1>7. IF o \in {"add", "upload"} THEN Fresh(e) ELSE e \in Inserted
  BY <1>3, ShownKnown DEF Asked, Ops
<1>8. Clashes(call) \subseteq Pages \cup Entries
  BY <1>3, ClashesCover DEF Touches, Pages
<1>9. StoreTypeOK'
  BY <1>3, <1>4, <1>5, <1>6, <1>8 DEF BaseInv, StoreTypeOK, Busy
<1>10. Known'
  BY <1>3, <1>4, <1>5, <1>6 DEF BaseInv, Known, Busy
<1>11. CallsOK'
  <2>1. ASSUME NEW d \in Slots \ {c}, Makes(d), o \in {"add", "upload"} PROVE calls[d].id # e
    BY <1>7, <2>1 DEF Fresh, Makes
  <2>2. o \in {"add", "upload"} => e \notin Inserted
    BY <1>7 DEF Fresh
  <2>3. /\ \A d \in Slots \ {c} : (Busy(d)' <=> Busy(d)) /\ (Makes(d)' <=> Makes(d)) /\ (Effective(d)' <=> Effective(d))
        /\ Busy(c)' /\ (Makes(c)' <=> o \in {"add", "upload"}) /\ ~Effective(c)'
    BY <1>3, <1>6 DEF Busy, Makes, Effective
  <2>4. QED
    BY <1>3, <1>4, <1>5, <1>6, <1>7, <2>1, <2>2, <2>3 DEF BaseInv, CallsOK
<1>12. ClashesNoted'
  <2>1. \A d \in Slots \ {c} : Awaited(d)' => Awaited(d)
    BY <1>6 DEF Awaited, Busy
  <2>2. \A d \in Slots \ {c} : Touches(calls'[d]) = Touches(calls[d])
    BY <1>6
  <2>3. ASSUME NEW d \in Slots \ {c}, Awaited(d)
        PROVE  IF "list" \in {calls'[c].op, calls'[d].op}
                 THEN Touches(calls'[c]) \cap Touches(calls'[d]) \subseteq raced'
                 ELSE calls'[c].id = calls'[d].id => calls'[c].id \in raced'
    BY <1>4, <1>6, <2>3, ClashesCover
  <2>4. ASSUME NEW d \in Slots \ {c}, NEW f \in Slots \ {c}, d # f, Awaited(d), Awaited(f)
        PROVE  IF "list" \in {calls'[f].op, calls'[d].op}
                 THEN Touches(calls'[f]) \cap Touches(calls'[d]) \subseteq raced'
                 ELSE calls'[f].id = calls'[d].id => calls'[f].id \in raced'
    BY <1>4, <1>6, <2>4 DEF BaseInv, ClashesNoted
  <2>5. QED
    BY <2>1, <2>3, <2>4 DEF ClashesNoted
<1>13. QED
  BY <1>4, <1>5, <1>9, <1>10, <1>11, <1>12 DEF BaseInv

\* The list call of a page.
LEMMA ListAsks ==
  ASSUME NEW p \in Pages
  PROVE  LET call == Call("list", p, Null, Null) IN
         /\ call \in Calls /\ call # Free /\ call.op = "list" /\ call.at = p /\ call.id = Null
         /\ call.stage = "sent" /\ call.deaf = FALSE /\ call.out = {} /\ Touches(call) = {p}
<1> DEFINE call == Call("list", p, Null, Null)
<1>1. "list" \in Ops /\ Null \in Entries \cup {Null} /\ Null \in Names \cup {Null}
  BY DEF Ops
<1>2. /\ call \in Calls /\ call.op = "list" /\ call.at = p /\ call.id = Null
      /\ call.stage = "sent" /\ call.deaf = FALSE /\ call.out = {}
  BY <1>1 DEF Call, Calls
<1> HIDE DEF call
<1>3. /\ call \in Calls /\ call # Free /\ call.op = "list" /\ call.at = p /\ call.id = Null
      /\ call.stage = "sent" /\ call.deaf = FALSE /\ call.out = {}
  BY <1>2, FreeAssumption
<1>4. QED
  BY <1>3 DEF Touches, call

LEMMA LeftShape ==
  ASSUME BaseInv, NEW d \in Slots
  PROVE  \/ Left(d) = Free
         \/ /\ Busy(d) /\ calls[d].op # "list" /\ Left(d) \in Calls /\ Left(d).deaf = TRUE
            /\ Left(d).op = calls[d].op /\ Left(d).at = calls[d].at
            /\ Left(d).id = calls[d].id /\ Left(d).name = calls[d].name
            /\ Left(d).stage = calls[d].stage /\ Left(d).out = calls[d].out
            /\ Left(d).stage \in {"sent", "written"}
  <1>1. CASE Left(d) = Free
    BY <1>1
  <1>2. CASE Left(d) # Free
    <2> DEFINE y == [calls[d] EXCEPT !.deaf = TRUE]
    <2>1. Left(d) = y /\ Busy(d) /\ calls[d].op # "list" /\ calls[d].stage \in {"sent", "written"}
      BY <1>2 DEF Left
    <2>2. calls[d] \in Calls
      BY <2>1, Types
    <2>3. /\ y \in Calls /\ y.op = calls[d].op /\ y.at = calls[d].at /\ y.id = calls[d].id
          /\ y.name = calls[d].name /\ y.deaf = TRUE /\ y.stage = calls[d].stage /\ y.out = calls[d].out
      BY <2>2, CallLeft
    <2> HIDE DEF y
    <2>4. QED
      BY <2>1, <2>3
  <1>3. QED
    BY <1>1, <1>2

\* A new document awaits its list only.
LEMMA LoadShape ==
  ASSUME BaseInv, NEW p \in Pages, Load(p)
  PROVE  \E c \in Slots :
           LET call == Call("list", p, Null, Null) IN
           /\ calls' \in [Slots -> Calls \cup {Free}] /\ calls'[c] = call
           /\ \A d \in Slots \ {c} : Busy(d)' =>
                /\ Busy(d) /\ calls[d].op # "list" /\ calls'[d].deaf = TRUE
                /\ calls'[d].op = calls[d].op /\ calls'[d].at = calls[d].at
                /\ calls'[d].id = calls[d].id /\ calls'[d].name = calls[d].name
                /\ calls'[d].stage = calls[d].stage /\ calls'[d].out = calls[d].out
                /\ calls'[d].stage \in {"sent", "written"}
<1>1. PICK c \in Slots :
        calls' = [d \in Slots |-> IF d = c THEN Call("list", p, Null, Null) ELSE Left(d)]
  BY DEF Load
<1> DEFINE call == Call("list", p, Null, Null)
<1>2. call \in Calls /\ call # Free
  BY ListAsks
<1> HIDE DEF call
<1>3. calls' = [d \in Slots |-> IF d = c THEN call ELSE Left(d)]
  BY <1>1 DEF call
<1>4. \A d \in Slots : Left(d) \in Calls \cup {Free}
  BY LeftShape
<1>5. calls' \in [Slots -> Calls \cup {Free}] /\ calls'[c] = call /\ \A d \in Slots \ {c} : calls'[d] = Left(d)
  BY <1>2, <1>3, <1>4
<1>6. ASSUME NEW d \in Slots \ {c}, Busy(d)'
      PROVE  /\ Busy(d) /\ calls[d].op # "list" /\ calls'[d].deaf = TRUE
             /\ calls'[d].op = calls[d].op /\ calls'[d].at = calls[d].at
             /\ calls'[d].id = calls[d].id /\ calls'[d].name = calls[d].name
             /\ calls'[d].stage = calls[d].stage /\ calls'[d].out = calls[d].out
             /\ calls'[d].stage \in {"sent", "written"}
  <2>1. calls'[d] = Left(d) /\ Left(d) # Free
    BY <1>5, <1>6 DEF Busy
  <2>2. QED
    BY <2>1, LeftShape
<1>7. QED
  BY <1>5, <1>6 DEF call

LEMMA LoadBase ==
  ASSUME BaseInv, NEW p \in Pages, Load(p)
  PROVE  BaseInv'
<1> DEFINE call == Call("list", p, Null, Null)
<1>1. /\ UNCHANGED <<vars, lost>> /\ p \in Inserted \cup {Root, Trash}
      /\ keys' = {} /\ arrays' = {} /\ cache' = [k \in Pages |-> EmptyBag] /\ here' = p /\ visited' = {p}
      /\ form' = Null /\ loaded' = {} /\ raced' = {} /\ doubtful' = {}
  BY DEF Load
<1>2. /\ call \in Calls /\ call # Free /\ call.op = "list" /\ call.at = p /\ call.id = Null
      /\ call.stage = "sent" /\ call.deaf = FALSE /\ call.out = {}
  BY ListAsks
<1> HIDE DEF call
<1>3. PICK c \in Slots :
        /\ calls' \in [Slots -> Calls \cup {Free}] /\ calls'[c] = call
        /\ \A d \in Slots \ {c} : Busy(d)' =>
                /\ Busy(d) /\ calls[d].op # "list" /\ calls'[d].deaf = TRUE
                /\ calls'[d].op = calls[d].op /\ calls'[d].at = calls[d].at
                /\ calls'[d].id = calls[d].id /\ calls'[d].name = calls[d].name
                /\ calls'[d].stage = calls[d].stage /\ calls'[d].out = calls[d].out
                /\ calls'[d].stage \in {"sent", "written"}
  BY LoadShape DEF call
<1>4. Inserted' = Inserted /\ status' = status /\ FormerTable'
  BY <1>1 DEF BaseInv, FormerTable, TypeOK, ParentIds, Inserted, vars
<1>5. IsABag(EmptyBag) /\ DOMAIN EmptyBag = {}
  BY BagOfSet DEF EmptyBag
<1>6. StoreTypeOK'
  <2>1. \A d \in Slots : Busy(d)' =>
          /\ calls'[d].at \in Inserted' \cup {Root, Trash}
          /\ IF calls'[d].op = "list" THEN calls'[d].id = Null
                                      ELSE calls'[d].id \in Entries /\ calls'[d].at # Trash
    BY <1>1, <1>2, <1>3, <1>4 DEF BaseInv, StoreTypeOK
  <2>2. DOMAIN cache' = Pages /\ \A k \in Pages : cache'[k] = EmptyBag
    BY <1>1
  <2>3. QED
    BY <1>1, <1>3, <1>5, <2>1, <2>2 DEF BaseInv, StoreTypeOK
<1>7. Known'
  <2>1. \A k \in Pages : cache'[k] = EmptyBag
    BY <1>1
  <2>2. QED
    BY <1>1, <1>2, <1>3, <1>4, <1>5, <2>1 DEF BaseInv, Known
<1>8. CallsOK'
  <2>1. \A d \in Slots \ {c} : Makes(d)' => Makes(d)
    BY <1>3 DEF Makes
  <2>2. ~Makes(c)'
    BY <1>2, <1>3 DEF Makes
  <2>3. QED
    BY <1>2, <1>3, <1>4, <2>1, <2>2 DEF BaseInv, CallsOK, Makes, Effective
<1>9. ClashesNoted'
  BY <1>3 DEF ClashesNoted, Awaited
<1>10. QED
  BY <1>1, <1>4, <1>6, <1>7, <1>8, <1>9 DEF BaseInv

\* Another page is opened; the lists are not touched.  On the trash page the list is not
\* loaded until its answer arrives.
LEMMA OpenShape ==
  ASSUME BaseInv, NEW p \in Pages, Open(p)
  PROVE  /\ UNCHANGED <<vars, keys, arrays, cache, doubtful, lost, clicks>>
         /\ p \in Inserted \cup {Root, Trash} /\ here' = p /\ visited' = visited \cup {p}
         /\ loaded' = loaded \ {Trash} /\ form' \in {form, Null}
         /\ \/ UNCHANGED <<calls, raced>>
            \/ \E c \in Slots :
                 LET call == Call("list", p, Null, Null) IN
                 /\ ~Busy(c) /\ calls' \in [Slots -> Calls \cup {Free}] /\ calls'[c] = call
                 /\ \A d \in Slots \ {c} : calls'[d] = calls[d]
                 /\ raced' = (raced \ (IF p = Trash THEN {Trash} ELSE {})) \cup Clashes(call)
<1>1. p \in Inserted \cup {Root, Trash}
  BY ShownKnown DEF Open, BaseInv, Known
<1>2. /\ UNCHANGED <<vars, keys, arrays, cache, doubtful, lost, clicks>>
      /\ here' = p /\ visited' = visited \cup {p} /\ loaded' = loaded \ {Trash}
      /\ form' \in {form, Null}
  BY DEF Open
<1>3. ASSUME NEW c \in Slots, ~Busy(c), calls' = [calls EXCEPT ![c] = Call("list", p, Null, Null)]
      PROVE  /\ calls' \in [Slots -> Calls \cup {Free}] /\ calls'[c] = Call("list", p, Null, Null)
             /\ \A d \in Slots \ {c} : calls'[d] = calls[d]
  <2> DEFINE call == Call("list", p, Null, Null)
  <2>1. call \in Calls
    BY ListAsks
  <2> HIDE DEF call
  <2>2. /\ calls' \in [Slots -> Calls \cup {Free}] /\ calls'[c] = call
        /\ \A d \in Slots \ {c} : calls'[d] = calls[d]
    BY <1>3, <2>1, Types DEF call
  <2>3. QED
    BY <2>2 DEF call
<1>4. CASE UNCHANGED <<calls, raced>>
  BY <1>1, <1>2, <1>4
<1>5. CASE ~UNCHANGED <<calls, raced>>
  <2>1. PICK c \in Slots :
          /\ ~Busy(c) /\ calls' = [calls EXCEPT ![c] = Call("list", p, Null, Null)]
          /\ raced' = (raced \ (IF p = Trash THEN {Trash} ELSE {}))
                        \cup Clashes(Call("list", p, Null, Null))
    BY <1>5 DEF Open
  <2>2. QED
    BY <1>1, <1>2, <1>3, <2>1
<1>6. QED
  BY <1>4, <1>5

LEMMA OpenBase ==
  ASSUME BaseInv, NEW p \in Pages, Open(p)
  PROVE  BaseInv'
<1> DEFINE call == Call("list", p, Null, Null)
           gone == IF p = Trash THEN {Trash} ELSE {}
<1>1. /\ UNCHANGED <<vars, keys, arrays, cache, doubtful, lost, clicks>>
      /\ p \in Inserted \cup {Root, Trash} /\ here' = p /\ visited' = visited \cup {p}
      /\ loaded' = loaded \ {Trash} /\ form' \in {form, Null}
  BY OpenShape
<1>2. Inserted' = Inserted /\ status' = status /\ FormerTable'
  BY <1>1 DEF BaseInv, FormerTable, TypeOK, ParentIds, Inserted, vars
<1>3. CASE UNCHANGED <<calls, raced>>
  BY <1>1, <1>2, <1>3
  DEF BaseInv, StoreTypeOK, Known, CallsOK, ClashesNoted, Busy, Makes, Effective, Awaited
<1>4. ASSUME NEW c \in Slots, ~Busy(c), calls' \in [Slots -> Calls \cup {Free}], calls'[c] = call,
             \A d \in Slots \ {c} : calls'[d] = calls[d],
             raced' = (raced \ gone) \cup Clashes(call)
      PROVE  BaseInv'
  <2>1. /\ call \in Calls /\ call # Free /\ call.op = "list" /\ call.at = p /\ call.id = Null
        /\ call.stage = "sent" /\ call.deaf = FALSE /\ call.out = {} /\ Touches(call) = {p}
    BY ListAsks
  <2> HIDE DEF call
  <2>2. Clashes(call) \subseteq {p}
    BY <2>1, ClashesCover
  <2>3. StoreTypeOK'
    BY <1>1, <1>2, <1>4, <2>1, <2>2 DEF BaseInv, StoreTypeOK, Busy
  <2>4. Known'
    BY <1>1, <1>2, <1>4, <2>1 DEF BaseInv, Known, Busy
  <2>5. /\ \A d \in Slots \ {c} : /\ Busy(d)' => Busy(d)
                                  /\ Makes(d)' => Makes(d)
                                  /\ Effective(d)' => Effective(d)
        /\ ~Makes(c)' /\ ~Effective(c)'
    BY <1>4, <2>1 DEF Busy, Makes, Effective
  <2>6. CallsOK'
    <3>1. \A d \in Slots \ {c} : Busy(d) /\ calls[d].op # "list" /\ Effective(d) => Effective(d)'
      BY <1>4 DEF Effective
    <3>2. \A d \in Slots \ {c} : Busy(d)' =>
             /\ Makes(d)' /\ calls'[d].stage = "sent" => calls'[d].id \notin Inserted'
             /\ calls'[d].op # "list" => (~Makes(d)' \/ Effective(d)' => calls'[d].id \in Inserted')
      BY <1>2, <1>4, <2>5 DEF BaseInv, CallsOK, Makes, Busy
    <3>3. QED
      BY <1>2, <1>4, <2>1, <2>5, <3>2 DEF BaseInv, CallsOK
  <2>7. ClashesNoted'
    <3>1. \A d \in Slots \ {c} : Awaited(d)' => Awaited(d)
      BY <1>4 DEF Awaited, Busy
    <3>2. ASSUME NEW d \in Slots \ {c}, Awaited(d)
          PROVE  /\ "list" \in {calls'[c].op, calls'[d].op} /\ "list" \in {calls'[d].op, calls'[c].op}
                 /\ Touches(calls'[c]) \cap Touches(calls'[d]) \subseteq raced'
                 /\ Touches(calls'[d]) \cap Touches(calls'[c]) \subseteq raced'
      BY <1>4, <2>1, <3>2, ClashesCover
    <3>3. ASSUME NEW d \in Slots \ {c}, NEW f \in Slots \ {c}, d # f, Awaited(d), Awaited(f)
          PROVE  IF "list" \in {calls'[f].op, calls'[d].op}
                   THEN Touches(calls'[f]) \cap Touches(calls'[d]) \subseteq raced'
                   ELSE calls'[f].id = calls'[d].id => calls'[f].id \in raced'
      <4>1. calls'[d] = calls[d] /\ calls'[f] = calls[f]
        BY <1>4
      <4>2. IF "list" \in {calls[f].op, calls[d].op}
              THEN Touches(calls[f]) \cap Touches(calls[d]) \subseteq raced
              ELSE calls[f].id = calls[d].id => calls[f].id \in raced
        BY <3>3 DEF BaseInv, ClashesNoted
      \* A pair of calls that both touch the trash touches it with the new one too.
      <4>3. p = Trash /\ Trash \in Touches(calls[d]) => Trash \in raced'
        BY <1>4, <2>1, <3>3, ClashesCover
      <4>4. "list" \notin {calls[f].op, calls[d].op} => calls[f].id \in Entries
        BY <3>3, Types DEF Awaited
      <4>5. raced \ gone \subseteq raced' /\ \A x \in gone : x = Trash /\ p = Trash
        BY <1>4
      <4> HIDE DEF gone
      <4>6. "list" \in {calls[f].op, calls[d].op} =>
              Touches(calls[f]) \cap Touches(calls[d]) \subseteq raced'
        BY <4>2, <4>3, <4>5
      <4>7. "list" \notin {calls[f].op, calls[d].op} =>
              (calls[f].id = calls[d].id => calls[f].id \in raced')
        BY <4>2, <4>4, <4>5, TrashAssumption
      <4>8. QED
        BY <4>1, <4>6, <4>7
    <3> HIDE DEF gone
    <3>4. QED
      BY <3>1, <3>2, <3>3, Zenon DEF ClashesNoted
  <2>8. QED
    BY <1>1, <1>2, <2>3, <2>4, <2>6, <2>7 DEF BaseInv
<1>5. QED
  BY <1>3, <1>4, OpenShape

\* The rename form is opened for a row, or closed.
LEMMA FormShape ==
  ASSUME BaseInv, (\E s \in Shown(here) : OpenRename(s)) \/ CloseRename
  PROVE  /\ form' \in Inserted \cup {Null}
         /\ UNCHANGED <<vars, keys, arrays, cache, here, visited, calls>>
         /\ UNCHANGED <<loaded, raced, doubtful, lost, clicks>>
<1>1. CASE CloseRename
  BY <1>1 DEF CloseRename
<1>2. ASSUME NEW s \in Shown(here), OpenRename(s)
      PROVE  /\ form' = s.id
             /\ UNCHANGED <<vars, keys, arrays, cache, here, visited, calls>>
             /\ UNCHANGED <<loaded, raced, doubtful, lost, clicks>>
  BY <1>2 DEF OpenRename
<1>3. QED
  BY <1>1, <1>2, ShownKnown

LEMMA FormBase ==
  ASSUME BaseInv, (\E s \in Shown(here) : OpenRename(s)) \/ CloseRename
  PROVE  BaseInv'
  BY FormShape
  DEF vars, BaseInv, FormerTable, TypeOK, ParentIds, Inserted, StoreTypeOK, Known,
      CallsOK, ClashesNoted, Busy, Makes, Effective, Awaited

LEMMA StutterBase ==
  ASSUME BaseInv, UNCHANGED driveVars
  PROVE  BaseInv'
  BY DEF driveVars, storeVars, vars, BaseInv, FormerTable, TypeOK, ParentIds, Inserted, StoreTypeOK, Known,
         CallsOK, ClashesNoted, Busy, Makes, Effective, Awaited

\* The page moves the table by the steps of FileTable only, and keeps the books.
LEMMA BaseStep ==
  ASSUME BaseInv, [DriveNext]_driveVars
  PROVE  BaseInv' /\ [Next]_vars
<1>1. ASSUME NEW p \in Pages, Load(p) PROVE BaseInv' /\ [Next]_vars
  BY <1>1, LoadBase DEF Load
<1>2. ASSUME NEW p \in Pages, Open(p) PROVE BaseInv' /\ [Next]_vars
  BY <1>2, OpenBase DEF Open
<1>3. ASSUME NEW c \in Slots, Click(c) PROVE BaseInv' /\ [Next]_vars
  <2>1. PICK o \in Ops \ {"list"}, k \in Folders \cup {Root}, e \in Entries, n \in Names \cup {Null} :
          Asked(c, o, k, e, n) /\ clicks' \in {clicks, clicks + 1}
    BY <1>3, ClickShape DEF Click, ClickAdd, ClickUpload, SubmitRename, ClickDelete, ClickRestore, Start, Count
  <2>2. UNCHANGED vars
    BY <2>1 DEF Asked
  <2>3. QED
    BY <2>1, <2>2, ClickBase
<1>4. ASSUME NEW c \in Slots, Serve(c) PROVE BaseInv' /\ [Next]_vars
  BY <1>4, ServeBase, ServeTable
<1>5. ASSUME NEW c \in Slots, Receive(c) PROVE BaseInv' /\ [Next]_vars
  BY <1>5, ReceiveBase, ReceiveShape
<1>6. ASSUME UNCHANGED driveVars PROVE BaseInv' /\ [Next]_vars
  BY <1>6, StutterBase DEF driveVars
<1>7. ASSUME (\E s \in Shown(here) : OpenRename(s)) \/ CloseRename PROVE BaseInv' /\ [Next]_vars
  BY <1>7, FormBase, FormShape
<1>8. QED
  BY <1>1, <1>2, <1>3, <1>4, <1>5, <1>6, <1>7 DEF DriveNext

LEMMA BaseStarts ==
  ASSUME FormerTable, StoreInit
  PROVE  BaseInv
<1>1. IsABag(EmptyBag) /\ DOMAIN EmptyBag = {}
  BY BagOfSet DEF EmptyBag
<1>2. /\ keys = {} /\ arrays = {} /\ here = Root /\ visited = {} /\ form = Null /\ loaded = {} /\ raced = {}
      /\ doubtful = {} /\ lost = 0 /\ DOMAIN cache = Pages /\ \A k \in Pages : cache[k] = EmptyBag
      /\ calls \in [Slots -> Calls \cup {Free}] /\ \A c \in Slots : ~Busy(c)
  BY DEF StoreInit, Busy
<1>3. StoreTypeOK
  BY <1>1, <1>2, BoundAssumption DEF StoreTypeOK, Pages
<1>4. Known /\ CallsOK /\ ClashesNoted
  BY <1>1, <1>2 DEF Known, CallsOK, ClashesNoted, Makes, Awaited
<1>5. QED
  BY <1>2, <1>3, <1>4 DEF BaseInv

\* An empty table is one that former calls may have left.
LEMMA EmptyTable ==
  ASSUME Init
  PROVE  FormerTable
  BY DEF Init, FormerTable, TypeOK, Statuses, ParentIds, Inserted, Hash

\* The page changes the table by the table's own steps only.
LEMMA BaseAlways == FormerSpec => []BaseInv /\ [][Next]_vars
<1>1. FormerTable /\ StoreInit => BaseInv
  BY BaseStarts
<1>2. BaseInv /\ [DriveNext]_driveVars => BaseInv' /\ [Next]_vars
  BY BaseStep
<1>3. QED
  BY <1>1, <1>2, PTL DEF FormerSpec

-----------------------------------------------------------------------------
(* The theorems *)

\* The store of FileStore.ts maps pages to bags of file objects, and a call names an
\* entry and a page's key, whatever is clicked, answered or lost.
THEOREM StoreTypes == FormerSpec => []StoreTypeOK
<1>1. BaseInv => StoreTypeOK
  BY DEF BaseInv
<1>2. QED
  BY <1>1, BaseAlways, PTL

\* The page changes the File table by the steps of FileTable only: what is proved of
\* that table holds of the one behind the page.
THEOREM DriveIsTable == DriveSpec => Spec
<1>1. DriveInit => Init /\ FormerTable /\ StoreInit
  BY EmptyTable DEF DriveInit
<1>2. DriveSpec => FormerSpec
  BY <1>1, PTL DEF DriveSpec, FormerSpec
<1>3. QED
  BY <1>1, <1>2, BaseAlways, PTL DEF DriveSpec, Spec
=============================================================================
