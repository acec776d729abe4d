----------------------------- MODULE UploadClient -----------------------------
(***************************************************************************)
(* The browser's side of the chunked upload (file-uploader.ts and          *)
(* onInputFileChangeUploadFile of StorageHome.tsx) over the handlers of    *)
(* UploadSession, and a download of a stored file (DownloadFile).          *)
(*                                                                         *)
(* The client of an upload runs once: it asks for an id, sends the chunks  *)
(* one after the other whatever their answers say, asks for the merge, and *)
(* calls the fail route when the connection broke.  A handler goes on when *)
(* its client has gone; an answer is heard when the handler returns.       *)
(***************************************************************************)
EXTENDS UploadSession

CONSTANTS
  FileSize,    \* [Uploads -> Nat]: bytes of the files
  ChunkBytes,  \* FileUploader.bytes
  NoRequest    \* the client awaits no answer

\* Math.ceil(size / bytes), and one chunk for an empty file.
GetTotalChunks(size) ==
  IF size > 0 THEN (size + ChunkBytes - 1) \div ChunkBytes ELSE 1

ASSUME SizeAssumption ==
  /\ FileSize \in [Uploads -> Nat] /\ ChunkBytes \in Nat \ {0}
  /\ TotalChunks = [u \in Uploads |-> GetTotalChunks(FileSize[u])]
ASSUME ClientAssumption == ~Awaits /\ ~FailRouteAuth /\ NoRequest \notin Requests

VARIABLES
  step,      \* upload -> where its client is
  next,      \* upload -> chunkIndex of the loop
  via,       \* upload -> the goroutine whose answer the client awaits
  result,    \* upload -> how it ended for the user
  trouble,   \* history: uploads whose network, server or database failed them
  download   \* the download under way

clientVars == <<step, next, via, result, trouble>>
systemVars == <<vars, clientVars, download>>

ClientSteps == {"ready", "generating", "sending", "completing", "failing", "done"}
Results == {"none", "rejected", "shown", "told"}

\* Mutant: only full chunks are sent.
MoreFullToSend(u, i) == (i + 1) * ChunkBytes <= FileSize[u]

\* The chunks of u the loop sends: those that start before the end of the file.
MoreToSend(u, i) == i * ChunkBytes < FileSize[u]

Waits(u, s) == step[u] = s /\ via[u] = NoRequest

Set(u, s) == step' = [step EXCEPT ![u] = s]
Await(u, r) == via' = [via EXCEPT ![u] = r]
Ends(u, outcome) == Set(u, "done") /\ result' = [result EXCEPT ![u] = outcome]

NoDownload == [of |-> NoUpload, seen |-> "none", open |-> FALSE, got |-> <<>>]

ClientInit ==
  /\ Init
  /\ step = [u \in Uploads |-> "ready"]
  /\ next = [u \in Uploads |-> 0]
  /\ via = [u \in Uploads |-> NoRequest]
  /\ result = [u \in Uploads |-> "none"]
  /\ trouble = {}
  /\ download = NoDownload
-----------------------------------------------------------------------------
(* Calls *)

\* generateUploadId
StartUpload(u, r) ==
  /\ Waits(u, "ready")
  /\ GenerateInsert(r, u)
  /\ Set(u, "generating") /\ Await(u, r)
  /\ UNCHANGED <<next, result, trouble, download>>

\* An error answer or a broken connection: the exception ends the whole loop, and
\* there is no id to fail.
RejectUpload(u) ==
  /\ Waits(u, "ready")
  /\ Ends(u, "rejected")
  /\ UNCHANGED <<vars, next, via, trouble, download>>

SendChunk(u, r) ==
  /\ Waits(u, "sending") /\ MoreToSend(u, next[u])
  /\ ChunkAdmit(r, u, next[u])
  /\ Await(u, r)
  /\ UNCHANGED <<step, next, result, trouble, download>>

\* uploadChunks does not look at the status of an answer.
NextChunk(u) == next' = [next EXCEPT ![u] = @ + 1]

\* Refused by the handler's own checks, or for the session of the account.
ChunkRefused(u) ==
  /\ Waits(u, "sending") /\ MoreToSend(u, next[u])
  /\ \/ /\ sessions[u] = "none" \/ next[u] + 1 > TotalChunks[u] \/ TotalChunks[u] = Len(u)
        /\ UNCHANGED trouble
     \/ trouble' = trouble \cup {u}
  /\ NextChunk(u)
  /\ UNCHANGED <<vars, step, via, result, download>>

SendComplete(u, r) ==
  /\ Waits(u, "sending") /\ ~MoreToSend(u, next[u])
  /\ CompleteAdmit(r, u)
  /\ Set(u, "completing") /\ Await(u, r)
  /\ UNCHANGED <<next, result, trouble, download>>

\* completeUpload returns undefined: nothing is shown, and the fail route not called.
CompleteRefused(u) ==
  /\ Waits(u, "sending") /\ ~MoreToSend(u, next[u])
  /\ \/ /\ sessions[u] = "none" \/ TotalChunks[u] # Len(u)
        /\ UNCHANGED trouble
     \/ trouble' = trouble \cup {u}
  /\ Ends(u, "none")
  /\ UNCHANGED <<vars, next, via, download>>

\* Mutant: a call whose connection broke is sent again.
SendAgain(u) ==
  /\ via[u] # NoRequest /\ step[u] # "generating"
  /\ Await(u, NoRequest)
  /\ Set(u, "sending")
  /\ trouble' = trouble \cup {u}
  /\ UNCHANGED <<vars, next, result, download>>

\* Mutant: the exception is swallowed.
Swallow(u) ==
  /\ via[u] # NoRequest
  /\ Await(u, NoRequest)
  /\ trouble' = trouble \cup {u}
  /\ UNCHANGED <<vars, step, next, result, download>>

\* Where an exception leads: before there is an id, out of the loop.
AfterThrow(u) == IF step[u] = "generating" THEN "done" ELSE "failing"

\* fetch throws while the handler runs, or before the request has reached it.
LoseConnection(u) ==
  /\ via[u] # NoRequest \/ Waits(u, "sending")
  /\ Await(u, NoRequest)
  /\ Set(u, AfterThrow(u))
  /\ trouble' = trouble \cup {u}
  /\ UNCHANGED <<vars, next, result, download>>

\* failUpload: the route has no auth middleware and answers 401, unless this call's
\* connection breaks too.
FailUpload(u) ==
  /\ Waits(u, "failing")
  /\ \E outcome \in {"told", "none"} : Ends(u, outcome)
  /\ UNCHANGED <<vars, next, via, trouble, download>>
-----------------------------------------------------------------------------
(* Answers *)

\* Mutant: the status of the answer to complete is not looked at.
HearAny(r, ok) ==
  /\ via' = [u \in Uploads |-> IF via[u] = r THEN NoRequest ELSE via[u]]
  /\ next' = [u \in Uploads |->
                IF via[u] = r /\ step[u] = "sending" THEN next[u] + 1 ELSE next[u]]
  /\ step' = [u \in Uploads |->
                CASE via[u] = r /\ step[u] = "generating" -> "sending"
                  [] via[u] = r /\ step[u] = "completing" -> "done"
                  [] OTHER -> step[u]]
  /\ result' = [u \in Uploads |->
                  IF via[u] = r /\ step[u] = "completing" THEN "shown" ELSE result[u]]
  /\ trouble' = IF ok THEN trouble ELSE trouble \cup {up[r]}

\* The handler r returns; the client that awaits it, if one still does, goes on.
Hear(r, ok) ==
  /\ via' = [u \in Uploads |-> IF via[u] = r THEN NoRequest ELSE via[u]]
  /\ next' = [u \in Uploads |->
                IF via[u] = r /\ step[u] = "sending" THEN next[u] + 1 ELSE next[u]]
  /\ step' = [u \in Uploads |->
                CASE via[u] = r /\ step[u] = "generating" -> "sending"
                  [] via[u] = r /\ step[u] = "completing" -> "done"
                  [] OTHER -> step[u]]
  /\ result' = [u \in Uploads |->
                  IF via[u] = r /\ step[u] = "completing" /\ ok THEN "shown" ELSE result[u]]
  /\ trouble' = IF ok THEN trouble ELSE trouble \cup {up[r]}

HandlerGoesOn(r) ==
  /\ ChunkGetMutex(r) \/ ChunkDir(r) \/ ChunkTemp(r)
       \/ CompleteCreate(r) \/ CompleteMerge(r) \/ CompleteForget(r)
  /\ UNCHANGED <<clientVars, download>>

HandlerLocks(r) == ChunkLock(r) /\ UNCHANGED <<clientVars, download>>

\* An error on the way to the answer; a failed update of the row is only logged.
HandlerStumbles(r) ==
  /\ CompleteAbort(r) \/ (CompleteUpdate(r) /\ lost' # lost)
  /\ trouble' = trouble \cup {up[r]}
  /\ UNCHANGED <<step, next, via, result, download>>

HandlerCompletes(r) ==
  /\ CompleteUpdate(r)
  /\ lost' = lost
  /\ UNCHANGED <<clientVars, download>>

HandlerSucceeds(r) ==
  /\ GenerateRegister(r) \/ ChunkRecord(r) \/ CompleteClean(r)
  /\ Hear(r, TRUE)
  /\ UNCHANGED download

HandlerFails(r) ==
  /\ ChunkFail(r) \/ CompleteCreateFail(r) \/ CompleteMarkFailed(r)
  /\ Hear(r, FALSE)
  /\ UNCHANGED download

\* Mutant: the clients do not notice that the server is gone.
SilentCrash ==
  /\ Crash
  /\ UNCHANGED <<clientVars, download>>

\* The connections break with the server.
ServerCrash ==
  /\ Crash
  /\ via' = [u \in Uploads |-> NoRequest]
  /\ step' = [u \in Uploads |-> IF via[u] # NoRequest THEN AfterThrow(u) ELSE step[u]]
  /\ trouble' = trouble \cup {u \in Uploads : step[u] \notin {"ready", "done"}}
  /\ download' = NoDownload
  /\ UNCHANGED <<next, result>>
-----------------------------------------------------------------------------
(* DownloadFile *)

\* GetFile: the row, whatever its status.
AskDownload(u) ==
  /\ download = NoDownload
  /\ status[u] # "none"
  /\ download' = [NoDownload EXCEPT !.of = u, !.seen = status[u]]
  /\ UNCHANGED <<vars, clientVars>>

OpenDownload ==
  /\ download.of # NoUpload /\ ~download.open
  /\ stored[download.of] # NoFile
  /\ download' = [download EXCEPT !.open = TRUE]
  /\ UNCHANGED <<vars, clientVars>>

\* io.Copy reads on in the file as it is now.
CopyDownload ==
  LET u == download.of
      i == Cardinality(DOMAIN download.got)
  IN /\ u # NoUpload /\ download.open /\ stored[u] # NoFile
     /\ i < TotalChunks[u]
     /\ download' = [download EXCEPT !.got = [j \in 0 .. i |->
                       IF j < i THEN @[j] ELSE stored[u][i]]]
     /\ UNCHANGED <<vars, clientVars>>

\* All is copied, or the open or the copy failed, or the client went away.
EndDownload ==
  /\ download # NoDownload
  /\ download' = NoDownload
  /\ UNCHANGED <<vars, clientVars>>
-----------------------------------------------------------------------------
ClientStep(u) ==
  \/ \E r \in Requests : SendChunk(u, r) \/ SendComplete(u, r)
  \/ ChunkRefused(u) \/ CompleteRefused(u) \/ FailUpload(u)

HandlerStep(r) ==
  \/ HandlerGoesOn(r) \/ HandlerStumbles(r) \/ HandlerCompletes(r)
  \/ HandlerSucceeds(r) \/ HandlerFails(r)

ClientNext ==
  \/ \E u \in Uploads : \/ \E r \in Requests : StartUpload(u, r)
                        \/ RejectUpload(u) \/ LoseConnection(u) \/ ClientStep(u)
                        \/ AskDownload(u)
  \/ \E r \in Requests : HandlerStep(r) \/ HandlerLocks(r)
  \/ OpenDownload \/ CopyDownload \/ EndDownload
  \/ ServerCrash

ClientSpec == ClientInit /\ [][ClientNext]_systemVars

\* The event loop of the page runs a continuation that is ready.  The handlers are as
\* fair as in UploadSession, and io.Copy ends as well: the page sends a body it has in
\* memory, or its connection breaks (keep-alive probes end one whose peer is gone).
ClientFairness ==
  /\ \A u \in Uploads : WF_systemVars(ClientStep(u))
  /\ \A r \in Requests : WF_systemVars(HandlerStep(r)) /\ SF_systemVars(HandlerLocks(r))

FairClientSpec == ClientSpec /\ ClientFairness
-----------------------------------------------------------------------------
(* Properties *)

\* A client awaits the handler that serves its own call, and only in a step that has
\* one: an answer is never heard by the client of another upload, nor twice.
ClientTypeOK ==
  /\ step \in [Uploads -> ClientSteps]
  /\ next \in [Uploads -> Nat]
  /\ via \in [Uploads -> Requests \cup {NoRequest}]
  /\ result \in [Uploads -> Results]
  /\ trouble \subseteq Uploads
  /\ \A u \in Uploads : via[u] # NoRequest =>
       /\ up[via[u]] = u
       /\ CASE step[u] = "generating" -> pc[via[u]] = "register"
            [] step[u] = "sending"    -> pc[via[u]] \in ChunkSteps /\ ix[via[u]] = next[u]
            [] step[u] = "completing" -> pc[via[u]] \in CompleteSteps
            [] OTHER                  -> FALSE

\* The handlers with a client that awaits its answers, as the other runs assume it.
Awaiting == INSTANCE UploadSession WITH Awaits <- TRUE

\* What UploadSession assumes of a client that awaits holds of this one, through
\* connections that break while a handler runs, handlers that outlive their client
\* and crashes: no chunk or complete request meets another of its upload.
AwaitsKept == Awaiting!Spec

\* A file the page shows after its upload has all its bytes in the storage: the count
\* of chunks announced, those the loop sends and those the server counts agree, though
\* the loop ignores the answers to its chunks.
ShownIsWhole ==
  \A u \in Uploads : result[u] = "shown" =>
    /\ stored[u] # NoFile
    /\ \A i \in Indexes : (i >= 0 /\ MoreToSend(u, i)) => stored[u][i] \in {u} \X {i} \X Tags

\* An upload that meets no failure ends completed and shown: the server's own checks
\* turn none of its calls away.  An empty file is the exception (see README).
UntroubledCompletes ==
  \A u \in Uploads :
    (step[u] = "done" /\ result[u] # "rejected" /\ u \notin trouble /\ FileSize[u] > 0) =>
      status[u] = "completed" /\ result[u] = "shown"

\* A download that found its row completed reads only chunks in their place, even if
\* other uploads, aborted merges and crashes go on meanwhile.
DownloadsWhole ==
  download.seen = "completed" =>
    \A i \in DOMAIN download.got : download.got[i] \in {download.of} \X {i} \X Tags

\* Every upload that was started ends for its user, whatever breaks.
UploadsEnd ==
  \A u \in Uploads : step[u] # "ready" ~> step[u] = "done"

\* "Calls the API to fail the file entry in the back end" (file-uploader.ts:79): once
\* that call was answered the row no longer holds its name as a pending one.
FailCallReleases ==
  \A u \in Uploads : result[u] = "told" => status[u] # "pending"
=============================================================================
