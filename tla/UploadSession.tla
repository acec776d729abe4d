---------------------------- MODULE UploadSession ----------------------------
(***************************************************************************)
(* The chunked upload of LocalDrive (src/src/api/file_handler.go).         *)
(*                                                                         *)
(* An upload id stands for the id handed out by UploadGenerateId and for   *)
(* the File row inserted with it.  Every HTTP request runs in a goroutine  *)
(* of its own: an element of Requests is such a goroutine, and between two *)
(* of its steps the steps of any other request may happen.  The handlers   *)
(* share the maps of FileHandler (uploadSessions, the chunk indexes a      *)
(* session points to, uploadMutex), the File table and the disk.           *)
(*                                                                         *)
(* A crash of the server empties the memory and ends the requests; the     *)
(* rows and the files stay.  Every disk and database operation may fail.   *)
(***************************************************************************)
EXTENDS Integers, FiniteSets

CONSTANTS
  Uploads,        \* upload ids, one File row each
  Requests,       \* goroutines serving HTTP requests
  Mutexes,        \* identities of sync.Mutex objects
  Indexes,        \* chunk indexes a client may send, negative ones included
  Tags,           \* the random part of an os.CreateTemp name
  TotalChunks,    \* [Uploads -> Int]: the total the client announces
  UniqueHash,     \* upload |-> hash of its account, name, extension, parent
  Awaits,         \* TRUE: chunk and complete requests of an upload are sent
                  \* one after the other, as file-uploader.ts does
  FailRouteAuth,  \* TRUE: the fail route has the auth middleware
  MaxCrashes,     \* bound on the number of server crashes
  NoFile, Torn, NoMutex, NoUpload

ChunkFiles == Uploads \X Indexes \X Tags

\* What a stored file may hold at each position: nothing complete (NoFile), the
\* bytes of a chunk file, or those of one that was still being written (Torn).
Contents == [Indexes -> ChunkFiles \cup {NoFile, Torn}]

ASSUME IndexAssumption == Indexes \subseteq Int
ASSUME TotalAssumption == TotalChunks \in [Uploads -> Int]
ASSUME IndexesCoverTotals ==
  \A u \in Uploads : 0 .. (TotalChunks[u] - 1) \subseteq Indexes
ASSUME ModeAssumption == Awaits \in BOOLEAN /\ FailRouteAuth \in BOOLEAN
ASSUME CrashAssumption == MaxCrashes \in Nat
ASSUME MarkerAssumption ==
  /\ NoFile \notin ChunkFiles
  /\ Torn \notin ChunkFiles
  /\ NoFile # Torn
  /\ NoFile \notin Contents
  /\ NoMutex \notin Mutexes
  /\ NoUpload \notin Uploads

VARIABLES
  \* the database and the disk
  status,    \* upload -> UploadStatus of its row, "none" before the insert
  disk,      \* chunk file -> "none", "partial" or "whole"
  stored,    \* upload -> NoFile, or the chunk file copied to each position
  \* the memory of FileHandler
  sessions,  \* uploadSessions: "none", "new" (Dir is empty) or "dir"
  chunks,    \* ChunkIndexes: the map object that belongs to the upload id
  mutexOf,   \* uploadMutex.values: upload -> mutex object
  locked,    \* the mutex objects that are held
  \* the requests
  pc, up, ix, \* next step, upload id, chunk index (or index of the merge loop)
  dirSeen,   \* the chunk requests whose copy of cinfo has a Dir
  mutex,     \* the mutex a chunk request got
  files,     \* the temporary file of a chunk request, or chunkPathsToRemove
  attached,  \* complete requests whose open file is still the stored file
  \* history, read by properties only
  crashes,   \* number of crashes
  lost       \* uploads the server forgot while their row was pending

dbVars == <<status, disk, stored>>
memVars == <<sessions, chunks, mutexOf, locked>>
locals == <<ix, dirSeen, mutex, files, attached>>
histVars == <<crashes, lost>>
vars == <<status, disk, stored, sessions, chunks, mutexOf, locked,
          pc, up, ix, dirSeen, mutex, files, attached, crashes, lost>>

Statuses == {"none", "pending", "failed", "completed"}
ChunkSteps == {"get", "lock", "dir", "temp", "copy"}
CompleteSteps == {"create", "merge", "abort", "forget", "clean"}
Steps == {"idle", "register", "fail", "drop"} \cup ChunkSteps \cup CompleteSteps

\* The part of a chunk request that runs under the upload's mutex.
LockedSteps == {"dir", "temp", "copy"}

NoChunks == [i \in Indexes |-> NoFile]

\* len(cinfo.ChunkIndexes)
Len(u) == Cardinality({i \in Indexes : chunks[u][i] # NoFile})

\* Mutant: the unique index covers completed rows only.
IndexFreeCompletedOnly(u) ==
  \A v \in Uploads \ {u} :
    UniqueHash[v] = UniqueHash[u] => status[v] # "completed"

\* FileUniqueIndex: no other pending or completed row has the hash of u.
IndexFree(u) ==
  \A v \in Uploads \ {u} :
    UniqueHash[v] = UniqueHash[u] => status[v] \notin {"pending", "completed"}

\* No chunk or complete request of u is being served.  The short answers of
\* the handlers leave net/http's buffer when the handler returns.
Quiet(u) ==
  \A r \in Requests : up[r] = u => pc[r] \notin ChunkSteps \cup CompleteSteps

\* What a client that awaits its answers never does: overlap two of them.
MaySend(u) == Awaits => Quiet(u)

Init ==
  /\ status = [u \in Uploads |-> "none"]
  /\ disk = [f \in ChunkFiles |-> "none"]
  /\ stored = [u \in Uploads |-> NoFile]
  /\ sessions = [u \in Uploads |-> "none"]
  /\ chunks = [u \in Uploads |-> NoChunks]
  /\ mutexOf = [u \in Uploads |-> NoMutex]
  /\ locked = {}
  /\ pc = [r \in Requests |-> "idle"]
  /\ up = [r \in Requests |-> NoUpload]
  /\ ix = [r \in Requests |-> 0]
  /\ dirSeen = {}
  /\ mutex = [r \in Requests |-> NoMutex]
  /\ files = [r \in Requests |-> {}]
  /\ attached = {}
  /\ crashes = 0
  /\ lost = {}

-----------------------------------------------------------------------------
\* The handler returns: the goroutine drops its locals.
Return(r) ==
  /\ pc' = [pc EXCEPT ![r] = "idle"]
  /\ up' = [up EXCEPT ![r] = NoUpload]
  /\ ix' = [ix EXCEPT ![r] = 0]
  /\ dirSeen' = dirSeen \ {r}
  /\ mutex' = [mutex EXCEPT ![r] = NoMutex]
  /\ files' = [files EXCEPT ![r] = {}]
  /\ attached' = attached \ {r}

\* The goroutine goes on to its next step and keeps its locals.
GoTo(r, step) == pc' = [pc EXCEPT ![r] = step]

\* A request for u arrives; the goroutine has looked its session up.
Serve(r, u, step) ==
  /\ pc[r] = "idle"
  /\ sessions[u] # "none"
  /\ GoTo(r, step)
  /\ up' = [up EXCEPT ![r] = u]

\* updateUploadStatusFailed: a database error is logged and ignored.
MarkFailed(u) ==
  \/ status' = [status EXCEPT ![u] = "failed"]
  \/ UNCHANGED status

\* Mutant: the session outlives its upload.
DropMutexOnly(u) ==
  /\ mutexOf' = [mutexOf EXCEPT ![u] = NoMutex]
  /\ UNCHANGED sessions

\* uploadMutex.Remove(u); delete(uploadSessions, u)
DropSession(u) ==
  /\ mutexOf' = [mutexOf EXCEPT ![u] = NoMutex]
  /\ sessions' = [sessions EXCEPT ![u] = "none"]

\* Mutant: the handler returns without the unlock.
KeepLocked(r) == UNCHANGED locked

\* The deferred mutex.Unlock().
Unlock(r) == locked' = locked \ {mutex[r]}

-----------------------------------------------------------------------------
(* UploadGenerateId.  The requests it rejects change nothing. *)

\* AddFile inserts the row; a taken hash or a database error ends the request.
GenerateInsert(r, u) ==
  /\ pc[r] = "idle"
  /\ status[u] = "none"
  /\ TotalChunks[u] # 0
  /\ IndexFree(u)
  /\ status' = [status EXCEPT ![u] = "pending"]
  /\ GoTo(r, "register")
  /\ up' = [up EXCEPT ![r] = u]
  /\ UNCHANGED <<disk, stored, memVars, locals, histVars>>

GenerateRegister(r) ==
  /\ pc[r] = "register"
  /\ sessions' = [sessions EXCEPT ![up[r]] = "new"]
  /\ chunks' = [chunks EXCEPT ![up[r]] = NoChunks]
  /\ Return(r)
  /\ UNCHANGED <<dbVars, mutexOf, locked, histVars>>

-----------------------------------------------------------------------------
(* UploadFileChunk *)

\* The checks made before the mutex, on a copy of the session's chunkInfo: the
\* copy shares ChunkIndexes with the session, its Dir is the one of this moment.
ChunkAdmit(r, u, i) ==
  /\ MaySend(u)
  /\ i + 1 <= TotalChunks[u]
  /\ TotalChunks[u] # Len(u)
  /\ Serve(r, u, "get")
  /\ ix' = [ix EXCEPT ![r] = i]
  /\ dirSeen' = IF sessions[u] = "dir" THEN dirSeen \cup {r} ELSE dirSeen
  /\ UNCHANGED <<dbVars, memVars, mutex, files, attached, histVars>>

\* Mutant: Get puts a nil mutex into the map.
NilMutexes == {NoMutex}

\* Objects that neither the map nor a request refers to: a new mutex.
NewMutexes ==
  {m \in Mutexes : /\ \A u \in Uploads : mutexOf[u] # m
                   /\ \A r \in Requests : mutex[r] # m}

\* MutexMap.Get
ChunkGetMutex(r) ==
  /\ pc[r] = "get"
  /\ IF mutexOf[up[r]] # NoMutex
       THEN /\ mutex' = [mutex EXCEPT ![r] = mutexOf[up[r]]]
            /\ UNCHANGED mutexOf
       ELSE \E m \in NewMutexes :
              /\ mutexOf' = [mutexOf EXCEPT ![up[r]] = m]
              /\ mutex' = [mutex EXCEPT ![r] = m]
  /\ GoTo(r, "lock")
  /\ UNCHANGED <<dbVars, sessions, chunks, locked, up, ix, dirSeen, files>>
  /\ UNCHANGED <<attached, histVars>>

\* mutex.Lock()
ChunkLock(r) ==
  /\ pc[r] = "lock"
  /\ mutex[r] \notin locked
  /\ locked' = locked \cup {mutex[r]}
  /\ GoTo(r, "dir")
  /\ UNCHANGED <<dbVars, sessions, chunks, mutexOf, up, locals, histVars>>

\* Stat and MkdirAll.  A copy without a Dir is written back to the map,
\* whether or not the session is still there.
ChunkDir(r) ==
  /\ pc[r] = "dir"
  /\ sessions' = IF r \in dirSeen THEN sessions
                 ELSE [sessions EXCEPT ![up[r]] = "dir"]
  /\ GoTo(r, "temp")
  /\ UNCHANGED <<dbVars, chunks, mutexOf, locked, up, locals, histVars>>

\* Mutant: the name of a chunk file has no random part.
AnyName(f) == TRUE

\* No file has the name f, and no path still in use is f: the random part of a
\* name is taken never to repeat while the server remembers it.
NewName(f) ==
  /\ disk[f] = "none"
  /\ \A u \in Uploads, i \in Indexes : chunks[u][i] # f
  /\ \A q \in Requests : f \notin files[q]

\* os.CreateTemp.  Out of Tags it can only fail, as it may at any time.
ChunkTemp(r) ==
  /\ pc[r] = "temp"
  /\ \E t \in Tags :
       LET f == <<up[r], ix[r], t>> IN
       /\ NewName(f)
       /\ disk' = [disk EXCEPT ![f] = "partial"]
       /\ files' = [files EXCEPT ![r] = {f}]
  /\ GoTo(r, "copy")
  /\ UNCHANGED <<status, stored, memVars, up, ix, dirSeen, mutex, attached, histVars>>

\* io.Copy has read the whole body: the index points to the new file, the
\* answer is sent, the deferred Unlock runs.
ChunkRecord(r) ==
  /\ pc[r] = "copy"
  /\ \E f \in files[r] :
       /\ disk' = [disk EXCEPT ![f] = "whole"]
       /\ chunks' = [chunks EXCEPT ![up[r]][ix[r]] = f]
  /\ Unlock(r)
  /\ Return(r)
  /\ UNCHANGED <<status, stored, sessions, mutexOf, histVars>>

\* Stat, MkdirAll, CreateTemp or Copy failed.  After a failed Copy the
\* temporary file is removed, unless that fails too.
ChunkFail(r) ==
  /\ pc[r] \in LockedSteps
  /\ \/ disk' = [f \in ChunkFiles |-> IF f \in files[r] THEN "none" ELSE disk[f]]
     \/ UNCHANGED disk
  /\ MarkFailed(up[r])
  /\ Unlock(r)
  /\ Return(r)
  /\ UNCHANGED <<stored, sessions, chunks, mutexOf, histVars>>

-----------------------------------------------------------------------------
(* UploadFileComplete.  It takes no mutex. *)

CompleteAdmit(r, u) ==
  /\ MaySend(u)
  /\ TotalChunks[u] = Len(u)
  /\ Serve(r, u, "create")
  /\ UNCHANGED <<dbVars, memVars, locals, histVars>>

\* osCreate: the stored file is created, or truncated when it exists.
CompleteCreate(r) ==
  /\ pc[r] = "create"
  /\ stored' = [stored EXCEPT ![up[r]] = NoChunks]
  /\ attached' = attached \cup {r}
  /\ GoTo(r, "merge")
  /\ UNCHANGED <<status, disk, memVars, up, ix, dirSeen, mutex, files, histVars>>

\* mkAccountDir or osCreate failed.
CompleteCreateFail(r) ==
  /\ pc[r] = "create"
  /\ MarkFailed(up[r])
  /\ Return(r)
  /\ UNCHANGED <<disk, stored, memVars, histVars>>

\* One turn of the merge loop: the chunk is opened and copied to the stored
\* file; a stored file that was removed meanwhile no longer has a name.
CompleteMerge(r) ==
  LET u == up[r]
      f == chunks[u][ix[r]]
  IN /\ pc[r] = "merge"
     /\ ix[r] < TotalChunks[u]
     /\ f # NoFile
     /\ disk[f] # "none"
     /\ stored' = IF r \in attached
                    THEN [stored EXCEPT ![u][ix[r]] =
                            IF disk[f] = "whole" THEN f ELSE Torn]
                    ELSE stored
     /\ files' = [files EXCEPT ![r] = files[r] \cup {f}]
     /\ ix' = [ix EXCEPT ![r] = ix[r] + 1]
     /\ UNCHANGED <<status, disk, memVars, pc, up, dirSeen, mutex, attached, histVars>>

\* A missing index, or an error while a chunk is opened or copied: the stored
\* file is removed, unless that fails too.
CompleteAbort(r) ==
  /\ pc[r] = "merge"
  /\ ix[r] < TotalChunks[up[r]]
  /\ \/ /\ stored' = [stored EXCEPT ![up[r]] = NoFile]
        /\ attached' = {q \in attached : up[q] # up[r]}
     \/ UNCHANGED <<stored, attached>>
  /\ GoTo(r, "abort")
  /\ UNCHANGED <<status, disk, memVars, up, ix, dirSeen, mutex, files, histVars>>

\* The failed merge marks the row; session and chunks stay.
CompleteMarkFailed(r) ==
  /\ pc[r] = "abort"
  /\ MarkFailed(up[r])
  /\ Return(r)
  /\ UNCHANGED <<disk, stored, memVars, histVars>>

\* UpdateFile sets the status to completed; the success is answered whether or
\* not that failed (upErr is logged only), a duplicate hash included.
CompleteUpdate(r) ==
  /\ pc[r] = "merge"
  /\ ix[r] = TotalChunks[up[r]]
  /\ \/ /\ IndexFree(up[r])
        /\ status' = [status EXCEPT ![up[r]] = "completed"]
        /\ UNCHANGED lost
     \/ /\ lost' = lost \cup {up[r]}
        /\ UNCHANGED status
  /\ GoTo(r, "forget")
  /\ UNCHANGED <<disk, stored, memVars, up, locals, crashes>>

CompleteForget(r) ==
  /\ pc[r] = "forget"
  /\ DropSession(up[r])
  /\ GoTo(r, "clean")
  /\ UNCHANGED <<dbVars, chunks, locked, up, locals, histVars>>

\* removeFiles(chunkPathsToRemove): each removal may fail on its own.
CompleteClean(r) ==
  /\ pc[r] = "clean"
  /\ \E removed \in SUBSET files[r] :
       disk' = [f \in ChunkFiles |-> IF f \in removed THEN "none" ELSE disk[f]]
  /\ Return(r)
  /\ UNCHANGED <<status, stored, memVars, histVars>>

-----------------------------------------------------------------------------
(* UploadFileStatusFailed.  Without the auth middleware it answers 401. *)

\* Mutant: the session is deleted and the row is left as it is.
FailAdmitDrops(r, u) ==
  /\ FailRouteAuth
  /\ Serve(r, u, "drop")
  /\ UNCHANGED <<dbVars, memVars, locals, histVars>>

FailAdmit(r, u) ==
  /\ FailRouteAuth
  /\ Serve(r, u, "fail")
  /\ UNCHANGED <<dbVars, memVars, locals, histVars>>

\* UpdateUploadStatus; after a database error the session stays.
FailMark(r) ==
  /\ pc[r] = "fail"
  /\ \/ /\ status' = [status EXCEPT ![up[r]] = "failed"]
        /\ GoTo(r, "drop")
        /\ UNCHANGED <<up, locals>>
     \/ /\ Return(r)
        /\ UNCHANGED status
  /\ UNCHANGED <<disk, stored, memVars, histVars>>

\* Without an answer that could be written the session stays.
FailDrop(r) ==
  /\ pc[r] = "drop"
  /\ DropSession(up[r]) \/ UNCHANGED <<mutexOf, sessions>>
  /\ Return(r)
  /\ UNCHANGED <<dbVars, chunks, locked, histVars>>

-----------------------------------------------------------------------------
(* The server stops and starts again: NewFileHandler makes empty maps. *)

Crash ==
  /\ crashes < MaxCrashes
  /\ crashes' = crashes + 1
  /\ lost' = lost \cup {u \in Uploads : status[u] = "pending"}
  /\ sessions' = [u \in Uploads |-> "none"]
  /\ chunks' = [u \in Uploads |-> NoChunks]
  /\ mutexOf' = [u \in Uploads |-> NoMutex]
  /\ locked' = {}
  /\ pc' = [r \in Requests |-> "idle"]
  /\ up' = [r \in Requests |-> NoUpload]
  /\ ix' = [r \in Requests |-> 0]
  /\ dirSeen' = {}
  /\ mutex' = [r \in Requests |-> NoMutex]
  /\ files' = [r \in Requests |-> {}]
  /\ attached' = {}
  /\ UNCHANGED dbVars

-----------------------------------------------------------------------------
\* A client sends a request that passes the first checks.
Arrive(r) ==
  \E u \in Uploads :
    \/ GenerateInsert(r, u)
    \/ \E i \in Indexes : ChunkAdmit(r, u, i)
    \/ CompleteAdmit(r, u)
    \/ FailAdmit(r, u)

\* A goroutine that does not wait for a mutex takes its next step.
Work(r) ==
  \/ GenerateRegister(r)
  \/ ChunkGetMutex(r) \/ ChunkDir(r) \/ ChunkTemp(r) \/ ChunkRecord(r) \/ ChunkFail(r)
  \/ CompleteCreate(r) \/ CompleteCreateFail(r) \/ CompleteMerge(r) \/ CompleteAbort(r)
  \/ CompleteMarkFailed(r) \/ CompleteUpdate(r) \/ CompleteForget(r) \/ CompleteClean(r)
  \/ FailMark(r) \/ FailDrop(r)

Next ==
  \/ \E r \in Requests : Arrive(r) \/ Work(r) \/ ChunkLock(r)
  \/ Crash

Spec == Init /\ [][Next]_vars

\* The Go scheduler runs every goroutine that can run, and a sync.Mutex hands itself to
\* a waiter that has waited long (its starvation mode).  Nothing ends io.Copy: it reads
\* what the client sends, and the server is started without a read timeout.
Fairness ==
  \A r \in Requests : WF_vars(pc[r] # "copy" /\ Work(r)) /\ SF_vars(ChunkLock(r))

FairSpec == Spec /\ Fairness
-----------------------------------------------------------------------------
(* Properties *)

\* Every variable holds a value of its kind; a request that runs has an upload,
\* one past MutexMap.Get a mutex, one that copies its temporary file, one that
\* is attached a stored file.
TypeOK ==
  /\ status \in [Uploads -> Statuses]
  /\ disk \in [ChunkFiles -> {"none", "partial", "whole"}]
  /\ stored \in [Uploads -> {NoFile} \cup Contents]
  /\ sessions \in [Uploads -> {"none", "new", "dir"}]
  /\ chunks \in [Uploads -> [Indexes -> ChunkFiles \cup {NoFile}]]
  /\ mutexOf \in [Uploads -> Mutexes \cup {NoMutex}]
  /\ locked \subseteq Mutexes
  /\ pc \in [Requests -> Steps]
  /\ up \in [Requests -> Uploads \cup {NoUpload}]
  /\ ix \in [Requests -> Int]
  /\ dirSeen \subseteq Requests
  /\ mutex \in [Requests -> Mutexes \cup {NoMutex}]
  /\ files \in [Requests -> SUBSET ChunkFiles]
  /\ attached \subseteq {r \in Requests : pc[r] # "idle" /\ stored[up[r]] # NoFile}
  /\ crashes \in 0 .. MaxCrashes
  /\ lost \subseteq Uploads
  /\ \A r \in Requests :
       /\ pc[r] # "idle" => up[r] \in Uploads
       /\ IF pc[r] \in ChunkSteps THEN ix[r] \in Indexes ELSE ix[r] \in Nat
       /\ pc[r] \in {"lock"} \cup LockedSteps => mutex[r] \in Mutexes
       /\ pc[r] = "copy" => files[r] # {}

\* While the server is up, a row stays pending only as long as its upload can go
\* on: its session is there, or is about to be (UploadGenerateId is between the
\* insert and the map), or the row's update failed and was only logged.  Every
\* handler must write the final status before it deletes the session.
PendingIsServed ==
  \A u \in Uploads :
    status[u] = "pending" =>
      \/ sessions[u] # "none"
      \/ \E r \in Requests : up[r] = u /\ pc[r] = "register"
      \/ u \in lost

\* A held mutex belongs to exactly one chunk request, and every request in the
\* section after mutex.Lock holds its own: no path returns without the unlock.
LockedExactly ==
  /\ locked = {mutex[r] : r \in {q \in Requests : pc[q] \in LockedSteps}}
  /\ \A r, q \in Requests :
       (r # q /\ pc[r] \in LockedSteps /\ pc[q] \in LockedSteps) => mutex[r] # mutex[q]

\* Whatever requests overlap, a position of a stored file never holds bytes of
\* another index or upload, nor of a chunk whose body was not completely read:
\* ChunkIndexes gets a path only after io.Copy has returned.
MergedPiecesWhole ==
  \A u \in Uploads, i \in Indexes :
    stored[u] # NoFile =>
      stored[u][i] \in {NoFile} \cup ({u} \X {i} \X Tags)

\* The stored file has every chunk the client announced, each in its place.
Whole(u) ==
  /\ stored[u] # NoFile
  /\ \A i \in 0 .. (TotalChunks[u] - 1) : stored[u][i] \in {u} \X {i} \X Tags

\* For a client that awaits its answers: a row marked completed has its whole
\* file in the storage, through I/O errors, crashes and a late fail request.
CompletedIsWhole ==
  \A u \in Uploads : status[u] = "completed" => Whole(u)

\* For such a client the chunks a session counts are on the disk, complete: the
\* merge can succeed.  UploadFileComplete removes chunks only after the session.
SessionChunksOnDisk ==
  \A u \in Uploads, i \in Indexes :
    (sessions[u] # "none" /\ chunks[u][i] # NoFile) => disk[chunks[u][i]] = "whole"

\* For such a client a completed row stays completed, unless a request to the
\* fail route was being served when the upload completed.
CompletedStays ==
  [][\A u \in Uploads :
       status[u] = "completed" =>
         \/ status'[u] = "completed"
         \/ \E r \in Requests : up[r] = u /\ pc[r] = "fail" /\ pc'[r] = "drop"]_vars

\* The body of q has not ended, and r is q or waits for the mutex q holds.
HeldUpBy(q, r) == pc[q] = "copy" /\ mutex[q] = mutex[r]

\* Every request is answered, or it is for ever held up by one body that never ends, its
\* own or that of the chunk whose mutex it waits for.  So the handlers neither wait for
\* each other in a circle nor leave a mutex locked on an error path, and a client that
\* stops sending holds up nothing but the chunks that wait for the same mutex.
RequestsReturn ==
  \A r \in Requests :
    []<>(pc[r] = "idle") \/ \E q \in Requests : <>[]HeldUpBy(q, r)
=============================================================================
