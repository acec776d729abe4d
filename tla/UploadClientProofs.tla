-------------------------- MODULE UploadClientProofs --------------------------
(***************************************************************************)
(* The browser's client is one of those that await their answers: what     *)
(* UploadSession shows under that assumption holds of the system with it:  *)
(* files are completed whole, shown whole and downloaded whole, and an     *)
(* upload that meets no failure completes.                                 *)
(***************************************************************************)
EXTENDS UploadClient, UploadSessionProofs, FiniteSetTheorems

\* The loop counts its chunks from 0 up.
Counts == next \in [Uploads -> Nat]

LEMMA CountsUp == ClientSpec => []Counts
<1>1. ClientInit => Counts
  BY DEF ClientInit, Counts
<1>2. Counts /\ [ClientNext]_systemVars => Counts'
  <2> SUFFICES ASSUME Counts, [ClientNext]_systemVars PROVE Counts'
    OBVIOUS
  <2>1. ASSUME UNCHANGED next PROVE Counts'
    BY <2>1 DEF Counts
  <2>2. ASSUME NEW r \in Requests, NEW ok, Hear(r, ok) PROVE Counts'
    BY <2>2 DEF Hear, Counts
  <2>3. ASSUME NEW u \in Uploads, ChunkRefused(u) PROVE Counts'
    BY <2>3 DEF ChunkRefused, NextChunk, Counts
  <2>4. ASSUME NEW r \in Requests, HandlerStep(r) \/ HandlerLocks(r) PROVE Counts'
    BY <2>1, <2>2, <2>4 DEF HandlerStep, HandlerLocks, HandlerGoesOn, HandlerStumbles,
       HandlerCompletes, HandlerSucceeds, HandlerFails, clientVars
  <2>5. ASSUME NEW u \in Uploads, NEW r \in Requests, StartUpload(u, r) PROVE Counts'
    BY <2>1, <2>5 DEF StartUpload
  <2>6. ASSUME NEW u \in Uploads,
               RejectUpload(u) \/ LoseConnection(u) \/ ClientStep(u) \/ AskDownload(u)
        PROVE  Counts'
    BY <2>1, <2>3, <2>6 DEF RejectUpload, LoseConnection, ClientStep, AskDownload, SendChunk,
       SendComplete, CompleteRefused, FailUpload, clientVars
  <2>7. ASSUME OpenDownload \/ CopyDownload \/ EndDownload \/ ServerCrash PROVE Counts'
    BY <2>1, <2>7 DEF OpenDownload, CopyDownload, EndDownload, ServerCrash, clientVars
  <2>8. ASSUME UNCHANGED systemVars PROVE Counts'
    BY <2>1, <2>8 DEF systemVars, clientVars
  <2>9. QED
    BY <2>4, <2>5, <2>6, <2>7, <2>8 DEF ClientNext
<1>3. QED
  BY <1>1, <1>2, PTL DEF ClientSpec

\* The chunk that is sent is one of the file's.
LEMMA SentIndex ==
  ASSUME Counts, NEW u \in Uploads, NEW r \in Requests, SendChunk(u, r)
  PROVE  next[u] \in Indexes /\ ChunkAdmit(r, u, next[u])
<1>1. ChunkAdmit(r, u, next[u]) /\ next[u] + 1 <= TotalChunks[u]
  BY DEF SendChunk, ChunkAdmit
<1>2. next[u] \in Nat /\ TotalChunks[u] \in Int
  BY TotalAssumption DEF Counts
<1>3. next[u] \in 0 .. (TotalChunks[u] - 1)
  BY <1>1, <1>2
<1>4. QED
  BY <1>1, <1>3, IndexesCoverTotals

\* A step of the system with its clients is a step of the handlers, or none of theirs.
LEMMA ClientStepsServe == Counts /\ [ClientNext]_systemVars => [Next]_vars
<1> SUFFICES ASSUME Counts, [ClientNext]_systemVars PROVE Next \/ UNCHANGED vars
  OBVIOUS
<1>1. ASSUME NEW u \in Uploads, NEW r \in Requests, StartUpload(u, r) PROVE Next
  BY <1>1 DEF StartUpload, Next, Arrive
<1>2. ASSUME NEW u \in Uploads, NEW r \in Requests, SendChunk(u, r) PROVE Next
  BY <1>2, SentIndex DEF Next, Arrive
<1>3. ASSUME NEW u \in Uploads, NEW r \in Requests, SendComplete(u, r) PROVE Next
  BY <1>3 DEF SendComplete, Next, Arrive
<1>4. ASSUME NEW r \in Requests, HandlerStep(r) \/ HandlerLocks(r) PROVE Next
  BY <1>4 DEF HandlerStep, HandlerLocks, HandlerGoesOn, HandlerStumbles, HandlerCompletes,
     HandlerSucceeds, HandlerFails, Next, Work
<1>5. ASSUME NEW u \in Uploads,
             \/ RejectUpload(u) \/ LoseConnection(u) \/ AskDownload(u)
             \/ ChunkRefused(u) \/ CompleteRefused(u) \/ FailUpload(u)
      PROVE  UNCHANGED vars
  BY <1>5 DEF RejectUpload, LoseConnection, AskDownload, ChunkRefused, CompleteRefused, FailUpload
<1>6. ASSUME OpenDownload \/ CopyDownload \/ EndDownload PROVE UNCHANGED vars
  BY <1>6 DEF OpenDownload, CopyDownload, EndDownload
<1>7. ASSUME ServerCrash PROVE Next
  BY <1>7 DEF ServerCrash, Next
<1>8. ASSUME UNCHANGED systemVars PROVE UNCHANGED vars
  BY <1>8 DEF systemVars
<1>9. QED
  BY <1>1, <1>2, <1>3, <1>4, <1>5, <1>6, <1>7, <1>8 DEF ClientNext, ClientStep

LEMMA ClientsServed == ClientSpec => Spec
<1>1. ClientInit => Init
  BY DEF ClientInit
<1>2. QED
  BY <1>1, ClientStepsServe, CountsUp, PTL DEF ClientSpec, Spec
-----------------------------------------------------------------------------
\* A chunk or complete request of an upload is the one its client awaits, or was left
\* behind by a client that sends no other.
Alone ==
  \A u \in Uploads, r \in Requests :
    (up[r] = u /\ pc[r] \in ChunkSteps \cup CompleteSteps) =>
      via[u] = r \/ (via[u] = NoRequest /\ step[u] \in {"failing", "done"})

\* The handler an upload's client awaits.
Heard(u) ==
  via[u] # NoRequest =>
    /\ up[via[u]] = u
    /\ CASE step[u] = "generating" -> pc[via[u]] = "register"
         [] step[u] = "sending"    -> pc[via[u]] \in ChunkSteps /\ ix[via[u]] = next[u]
         [] step[u] = "completing" -> pc[via[u]] \in CompleteSteps
         [] OTHER                  -> FALSE

ClientInv ==
  /\ TypeOK /\ Counts
  /\ step \in [Uploads -> ClientSteps]
  /\ via \in [Uploads -> Requests \cup {NoRequest}]
  /\ result \in [Uploads -> Results]
  /\ trouble \subseteq Uploads
  /\ \A u \in Uploads : Heard(u)
  /\ Alone

\* A request that goes on stays a request of its kind, and the clients where they are.
GoesOn(r) ==
  /\ UNCHANGED <<up, step, next, via>>
  /\ \A q \in Requests \ {r} : pc'[q] = pc[q] /\ ix'[q] = ix[q]
  /\ \/ pc[r] \in ChunkSteps /\ pc'[r] \in ChunkSteps /\ ix'[r] = ix[r]
     \/ pc[r] \in CompleteSteps /\ pc'[r] \in CompleteSteps

LEMMA GoingOn ==
  ASSUME ClientInv, NEW r \in Requests,
         HandlerGoesOn(r) \/ HandlerLocks(r) \/ HandlerStumbles(r) \/ HandlerCompletes(r)
  PROVE  GoesOn(r)
<1> USE DEF GoesOn, GoTo, ChunkSteps, CompleteSteps, ClientInv, TypeOK, locals, clientVars
<1>1. CASE ChunkGetMutex(r) /\ UNCHANGED <<step, next, via>>
  BY <1>1 DEF ChunkGetMutex
<1>2. CASE ChunkDir(r) /\ UNCHANGED <<step, next, via>>
  BY <1>2 DEF ChunkDir
<1>3. CASE ChunkTemp(r) /\ UNCHANGED <<step, next, via>>
  BY <1>3 DEF ChunkTemp
<1>4. CASE ChunkLock(r) /\ UNCHANGED <<step, next, via>>
  BY <1>4 DEF ChunkLock
<1>5. CASE CompleteCreate(r) /\ UNCHANGED <<step, next, via>>
  BY <1>5 DEF CompleteCreate
<1>6. CASE CompleteMerge(r) /\ UNCHANGED <<step, next, via>>
  BY <1>6 DEF CompleteMerge
<1>7. CASE CompleteForget(r) /\ UNCHANGED <<step, next, via>>
  BY <1>7 DEF CompleteForget
<1>8. CASE CompleteAbort(r) /\ UNCHANGED <<step, next, via>>
  BY <1>8 DEF CompleteAbort
<1>9. CASE CompleteUpdate(r) /\ UNCHANGED <<step, next, via>>
  BY <1>9 DEF CompleteUpdate
<1>10. QED
  BY <1>1, <1>2, <1>3, <1>4, <1>5, <1>6, <1>7, <1>8, <1>9
  DEF HandlerGoesOn, HandlerLocks, HandlerStumbles, HandlerCompletes

LEMMA GoingOnKeeps ==
  ASSUME ClientInv, NEW r \in Requests, GoesOn(r)
  PROVE  (\A u \in Uploads : Heard(u)') /\ Alone'
<1>1. \A u \in Uploads : Heard(u)'
  <2> SUFFICES ASSUME NEW u \in Uploads, via'[u] # NoRequest PROVE Heard(u)'
    BY DEF Heard
  <2>1. via[u] \in Requests /\ Heard(u) /\ via[u] # NoRequest
    BY DEF ClientInv, GoesOn
  <2>2. CASE via[u] = r
    BY <2>1, <2>2 DEF Heard, GoesOn, ChunkSteps, CompleteSteps
  <2>3. CASE via[u] # r
    BY <2>1, <2>3 DEF Heard, GoesOn
  <2>4. QED
    BY <2>2, <2>3
<1>2. Alone'
  BY DEF Alone, GoesOn, ClientInv
<1>3. QED
  BY <1>1, <1>2

\* A handler that returns is heard by the client that awaits it, and by nobody else.
LEMMA ReturningKeeps ==
  ASSUME ClientInv, NEW r \in Requests, NEW ok \in BOOLEAN, Return(r), Hear(r, ok),
         up[r] \in Uploads
  PROVE  /\ step' \in [Uploads -> ClientSteps]
         /\ via' \in [Uploads -> Requests \cup {NoRequest}]
         /\ result' \in [Uploads -> Results]
         /\ trouble' \subseteq Uploads
         /\ \A u \in Uploads : Heard(u)'
         /\ Alone'
<1>1. /\ step' \in [Uploads -> ClientSteps]
      /\ via' \in [Uploads -> Requests \cup {NoRequest}]
      /\ result' \in [Uploads -> Results]
      /\ trouble' \subseteq Uploads
  BY DEF ClientInv, Hear, ClientSteps, Results
<1>2. /\ pc'[r] = "idle"
      /\ \A q \in Requests \ {r} : pc'[q] = pc[q] /\ up'[q] = up[q] /\ ix'[q] = ix[q]
  BY DEF ClientInv, TypeOK, Return
<1>3. ASSUME NEW u \in Uploads PROVE Heard(u)'
  <2>1. CASE via[u] = r
    BY <2>1 DEF Hear, Heard
  <2>2. CASE via[u] # r
    <3>1. step'[u] = step[u] /\ via'[u] = via[u] /\ next'[u] = next[u]
      BY <2>2 DEF Hear, ClientInv, Counts
    <3>2. QED
      BY <1>2, <2>2, <3>1 DEF Heard, ClientInv
  <2>3. QED
    BY <2>1, <2>2
<1>4. Alone'
  <2> SUFFICES ASSUME NEW u \in Uploads, NEW q \in Requests,
                      up'[q] = u, pc'[q] \in ChunkSteps \cup CompleteSteps
               PROVE  via'[u] = q \/ (via'[u] = NoRequest /\ step'[u] \in {"failing", "done"})
    BY DEF Alone
  <2>1. q # r /\ up[q] = u /\ pc[q] \in ChunkSteps \cup CompleteSteps
    BY <1>2 DEF ChunkSteps, CompleteSteps
  <2>2. via[u] # r
    BY <2>1, ClientAssumption DEF ClientInv, Alone
  <2>3. step'[u] = step[u] /\ via'[u] = via[u]
    BY <2>2 DEF Hear, ClientInv
  <2>4. QED
    BY <2>1, <2>3 DEF ClientInv, Alone
<1>5. QED
  BY <1>1, <1>3, <1>4

\* A client that awaits nothing may send: Alone leaves no other request of its upload.
LEMMA SendingKeeps ==
  ASSUME ClientInv, NEW u \in Uploads, NEW r \in Requests,
         pc[r] = "idle", via[u] = NoRequest, step[u] \in {"ready", "sending"},
         UNCHANGED next, up' = [up EXCEPT ![r] = u], via' = [via EXCEPT ![u] = r],
         \A q \in Requests \ {r} : pc'[q] = pc[q] /\ ix'[q] = ix[q],
         \/ step' = [step EXCEPT ![u] = "generating"] /\ pc'[r] = "register"
         \/ UNCHANGED step /\ step[u] = "sending" /\ pc'[r] = "get" /\ ix'[r] = next[u]
         \/ step' = [step EXCEPT ![u] = "completing"] /\ pc'[r] = "create"
  PROVE  /\ step' \in [Uploads -> ClientSteps]
         /\ via' \in [Uploads -> Requests \cup {NoRequest}]
         /\ \A v \in Uploads : Heard(v)'
         /\ Alone'
<1>1. /\ step' \in [Uploads -> ClientSteps]
      /\ via' \in [Uploads -> Requests \cup {NoRequest}]
  BY DEF ClientInv, ClientSteps
<1>2. /\ up'[r] = u /\ via'[u] = r
      /\ \A q \in Requests \ {r} : up'[q] = up[q]
      /\ \A v \in Uploads \ {u} : via'[v] = via[v] /\ step'[v] = step[v]
  BY DEF ClientInv, TypeOK
<1>3. ASSUME NEW v \in Uploads PROVE Heard(v)'
  <2>1. CASE v = u
    BY <1>2, <2>1 DEF Heard, ClientInv, ChunkSteps, CompleteSteps
  <2>2. CASE v # u
    <3>1. via[v] # r
      <4> SUFFICES ASSUME via[v] = r PROVE FALSE
        OBVIOUS
      <4>1. Heard(v) /\ via[v] # NoRequest
        BY ClientAssumption DEF ClientInv
      <4>2. pc[via[v]] = "register" \/ pc[via[v]] \in ChunkSteps \cup CompleteSteps
        BY <4>1 DEF Heard
      <4>3. QED
        BY <4>2 DEF ChunkSteps, CompleteSteps
    <3>2. QED
      BY <1>2, <2>2, <3>1 DEF Heard, ClientInv
  <2>3. QED
    BY <2>1, <2>2
<1>4. Alone'
  <2> SUFFICES ASSUME NEW v \in Uploads, NEW q \in Requests,
                      up'[q] = v, pc'[q] \in ChunkSteps \cup CompleteSteps
               PROVE  via'[v] = q \/ (via'[v] = NoRequest /\ step'[v] \in {"failing", "done"})
    BY DEF Alone
  <2>1. CASE q = r
    BY <1>2, <2>1
  <2>2. CASE q # r
    <3>1. up[q] = v /\ pc[q] \in ChunkSteps \cup CompleteSteps
      BY <1>2, <2>2
    <3>2. v # u
      BY <3>1, ClientAssumption DEF ClientInv, Alone
    <3>3. QED
      BY <1>2, <3>1, <3>2 DEF ClientInv, Alone
  <2>3. QED
    BY <2>1, <2>2
<1>5. QED
  BY <1>1, <1>3, <1>4

LEMMA ClientInvHolds == ClientSpec => []ClientInv
<1> DEFINE Rest == /\ step \in [Uploads -> ClientSteps]
                   /\ via \in [Uploads -> Requests \cup {NoRequest}]
                   /\ result \in [Uploads -> Results]
                   /\ trouble \subseteq Uploads
                   /\ \A u \in Uploads : Heard(u)
                   /\ Alone
<1>1. ClientInit => Rest
  BY DEF ClientInit, Init, ClientSteps, Results, Heard, Alone, ChunkSteps, CompleteSteps
<1>2. ClientInv /\ [ClientNext]_systemVars => Rest'
  <2> SUFFICES ASSUME ClientInv, [ClientNext]_systemVars PROVE Rest'
    OBVIOUS
  <2>1. ASSUME UNCHANGED <<pc, up, ix, clientVars>> PROVE Rest'
    BY <2>1 DEF ClientInv, Heard, Alone, clientVars
  \* Steps of one client that start no request.
  <2>2. ASSUME NEW u \in Uploads,
               \/ RejectUpload(u) \/ ChunkRefused(u) \/ CompleteRefused(u)
               \/ FailUpload(u) \/ LoseConnection(u)
        PROVE  Rest'
    <3> UNCHANGED <<pc, up, ix>>
      BY <2>2 DEF RejectUpload, ChunkRefused, CompleteRefused, FailUpload, LoseConnection, vars
    <3>1. /\ \A v \in Uploads \ {u} :
               via'[v] = via[v] /\ step'[v] = step[v] /\ next'[v] = next[v]
          /\ via'[u] = NoRequest
          /\ step'[u] = step[u] \/ step'[u] \in {"failing", "done"}
          /\ step'[u] = step[u] => via[u] = NoRequest
          /\ step' \in [Uploads -> ClientSteps]
          /\ via' \in [Uploads -> Requests \cup {NoRequest}]
      BY <2>2 DEF RejectUpload, ChunkRefused, CompleteRefused, FailUpload, LoseConnection, Set,
         Await, Ends, Waits, NextChunk, AfterThrow, ClientInv, Counts, ClientSteps, Heard
    <3>2. result' \in [Uploads -> Results] /\ trouble' \subseteq Uploads
      BY <2>2 DEF RejectUpload, ChunkRefused, CompleteRefused, FailUpload, LoseConnection, Ends,
         ClientInv, Results
    <3>3. \A v \in Uploads : Heard(v)'
      BY <2>2, <3>1 DEF Heard, ClientInv
    <3>4. Alone'
      BY <2>2, <3>1, ClientAssumption DEF Alone, ClientInv
    <3>5. QED
      BY <3>1, <3>2, <3>3, <3>4
  <2>3. ASSUME NEW u \in Uploads, NEW r \in Requests, StartUpload(u, r) PROVE Rest'
    BY <2>3, SendingKeeps DEF StartUpload, Waits, GenerateInsert, GoTo, Set, Await, ClientInv,
       TypeOK, locals
  <2>4. ASSUME NEW u \in Uploads, NEW r \in Requests, SendChunk(u, r) PROVE Rest'
    BY <2>4, SendingKeeps DEF SendChunk, Waits, ChunkAdmit, Serve, GoTo, Await, ClientInv,
       TypeOK
  <2>5. ASSUME NEW u \in Uploads, NEW r \in Requests, SendComplete(u, r) PROVE Rest'
    BY <2>5, SendingKeeps DEF SendComplete, Waits, CompleteAdmit, Serve, GoTo, Set, Await,
       ClientInv, TypeOK, locals
  <2>6. ASSUME NEW r \in Requests,
               \/ HandlerGoesOn(r) \/ HandlerLocks(r) \/ HandlerStumbles(r) \/ HandlerCompletes(r)
        PROVE  Rest'
    <3>1. (\A u \in Uploads : Heard(u)') /\ Alone' /\ UNCHANGED <<step, via>>
      BY <2>6, GoingOn, GoingOnKeeps DEF GoesOn
    <3>2. UNCHANGED result /\ trouble' \subseteq trouble \cup {up[r]}
      BY <2>6 DEF HandlerGoesOn, HandlerLocks, HandlerStumbles, HandlerCompletes, clientVars
    <3>3. up[r] \in Uploads
      <4>1. pc[r] # "idle"
        BY <2>6 DEF HandlerGoesOn, HandlerLocks, HandlerStumbles, HandlerCompletes,
           ChunkGetMutex, ChunkLock, ChunkDir, ChunkTemp, CompleteCreate, CompleteMerge,
           CompleteForget, CompleteAbort, CompleteUpdate
      <4>2. QED
        BY <4>1 DEF ClientInv, TypeOK
    <3>4. QED
      BY <3>1, <3>2, <3>3 DEF ClientInv
  <2>7. ASSUME NEW r \in Requests, HandlerSucceeds(r) \/ HandlerFails(r) PROVE Rest'
    <3>1. Return(r) /\ up[r] \in Uploads
      BY <2>7 DEF HandlerSucceeds, HandlerFails, GenerateRegister, ChunkRecord, CompleteClean,
         ChunkFail, CompleteCreateFail, CompleteMarkFailed, ClientInv, TypeOK, LockedSteps
    <3>2. PICK ok \in BOOLEAN : Hear(r, ok)
      BY <2>7 DEF HandlerSucceeds, HandlerFails
    <3>3. QED
      BY <3>1, <3>2, ReturningKeeps
  <2>8. ASSUME ServerCrash PROVE Rest'
    BY <2>8 DEF ServerCrash, Crash, ClientInv, AfterThrow, ClientSteps, Heard, Alone,
       ChunkSteps, CompleteSteps
  <2>9. ASSUME NEW u \in Uploads, AskDownload(u) PROVE Rest'
    BY <2>1, <2>9 DEF AskDownload, vars
  <2>10. ASSUME OpenDownload \/ CopyDownload \/ EndDownload PROVE Rest'
    BY <2>1, <2>10 DEF OpenDownload, CopyDownload, EndDownload, vars
  <2>11. ASSUME UNCHANGED systemVars PROVE Rest'
    BY <2>1, <2>11 DEF systemVars, vars
  <2>12. QED
    BY <2>2, <2>3, <2>4, <2>5, <2>6, <2>7, <2>8, <2>9, <2>10, <2>11
    DEF ClientNext, ClientStep, HandlerStep
<1>3. TypeOK /\ Counts /\ Rest => ClientInv
  BY DEF ClientInv
<1>4. QED
  BY <1>1, <1>2, <1>3, ClientsServed, CountsUp, TypeCorrect, PTL DEF ClientSpec

\* Each client awaits the handler of its own call, whatever breaks.
THEOREM ClientTypes == ClientSpec => []ClientTypeOK
<1>1. ClientInv => ClientTypeOK
  BY DEF ClientInv, ClientTypeOK, Heard, Counts
<1>2. QED
  BY <1>1, ClientInvHolds, PTL
-----------------------------------------------------------------------------
\* A goroutine's own steps are the same, whatever is assumed of the clients.
LEMMA SameSteps ==
  ASSUME NEW r \in Requests, Work(r) \/ ChunkLock(r)
  PROVE  Awaiting!Work(r) \/ Awaiting!ChunkLock(r)
<1>1. ASSUME GenerateRegister(r) PROVE Awaiting!GenerateRegister(r)
  BY <1>1 DEF GenerateRegister, Awaiting!GenerateRegister, NoChunks, Awaiting!NoChunks,
     Return, Awaiting!Return, dbVars, Awaiting!dbVars, histVars, Awaiting!histVars
<1>2. ASSUME ChunkGetMutex(r) PROVE Awaiting!ChunkGetMutex(r)
  BY <1>2 DEF ChunkGetMutex, Awaiting!ChunkGetMutex, NewMutexes, Awaiting!NewMutexes, GoTo,
     Awaiting!GoTo, dbVars, Awaiting!dbVars, histVars, Awaiting!histVars
<1>3. ASSUME ChunkLock(r) PROVE Awaiting!ChunkLock(r)
  BY <1>3 DEF ChunkLock, Awaiting!ChunkLock, GoTo, Awaiting!GoTo, dbVars, Awaiting!dbVars,
     locals, Awaiting!locals, histVars, Awaiting!histVars
<1>4. ASSUME ChunkDir(r) PROVE Awaiting!ChunkDir(r)
  BY <1>4 DEF ChunkDir, Awaiting!ChunkDir, GoTo, Awaiting!GoTo, dbVars, Awaiting!dbVars,
     locals, Awaiting!locals, histVars, Awaiting!histVars
<1>5. ASSUME ChunkTemp(r) PROVE Awaiting!ChunkTemp(r)
  BY <1>5 DEF ChunkTemp, Awaiting!ChunkTemp, NewName, Awaiting!NewName, GoTo, Awaiting!GoTo,
     memVars, Awaiting!memVars, histVars, Awaiting!histVars
<1>6. ASSUME ChunkRecord(r) PROVE Awaiting!ChunkRecord(r)
  BY <1>6 DEF ChunkRecord, Awaiting!ChunkRecord, Unlock, Awaiting!Unlock, Return,
     Awaiting!Return, histVars, Awaiting!histVars
<1>7. ASSUME ChunkFail(r) PROVE Awaiting!ChunkFail(r)
  BY <1>7 DEF ChunkFail, Awaiting!ChunkFail, LockedSteps, Awaiting!LockedSteps, ChunkFiles,
     Awaiting!ChunkFiles, MarkFailed, Awaiting!MarkFailed, Unlock, Awaiting!Unlock, Return,
     Awaiting!Return, histVars, Awaiting!histVars
<1>8. ASSUME CompleteCreate(r) PROVE Awaiting!CompleteCreate(r)
  BY <1>8 DEF CompleteCreate, Awaiting!CompleteCreate, NoChunks, Awaiting!NoChunks, GoTo,
     Awaiting!GoTo, memVars, Awaiting!memVars, histVars, Awaiting!histVars
<1>9. ASSUME CompleteCreateFail(r) PROVE Awaiting!CompleteCreateFail(r)
  BY <1>9 DEF CompleteCreateFail, Awaiting!CompleteCreateFail, MarkFailed,
     Awaiting!MarkFailed, Return, Awaiting!Return, memVars, Awaiting!memVars, histVars,
     Awaiting!histVars
<1>10. ASSUME CompleteMerge(r) PROVE Awaiting!CompleteMerge(r)
  BY <1>10 DEF CompleteMerge, Awaiting!CompleteMerge, memVars, Awaiting!memVars, histVars,
     Awaiting!histVars
<1>11. ASSUME CompleteAbort(r) PROVE Awaiting!CompleteAbort(r)
  BY <1>11 DEF CompleteAbort, Awaiting!CompleteAbort, GoTo, Awaiting!GoTo, memVars,
     Awaiting!memVars, histVars, Awaiting!histVars
<1>12. ASSUME CompleteMarkFailed(r) PROVE Awaiting!CompleteMarkFailed(r)
  BY <1>12 DEF CompleteMarkFailed, Awaiting!CompleteMarkFailed, MarkFailed,
     Awaiting!MarkFailed, Return, Awaiting!Return, memVars, Awaiting!memVars, histVars,
     Awaiting!histVars
<1>13. ASSUME CompleteUpdate(r) PROVE Awaiting!CompleteUpdate(r)
  BY <1>13 DEF CompleteUpdate, Awaiting!CompleteUpdate, IndexFree, Awaiting!IndexFree, GoTo,
     Awaiting!GoTo, memVars, Awaiting!memVars, locals, Awaiting!locals
<1>14. ASSUME CompleteForget(r) PROVE Awaiting!CompleteForget(r)
  BY <1>14 DEF CompleteForget, Awaiting!CompleteForget, DropSession, Awaiting!DropSession,
     GoTo, Awaiting!GoTo, dbVars, Awaiting!dbVars, locals, Awaiting!locals, histVars,
     Awaiting!histVars
<1>15. ASSUME CompleteClean(r) PROVE Awaiting!CompleteClean(r)
  BY <1>15 DEF CompleteClean, Awaiting!CompleteClean, ChunkFiles, Awaiting!ChunkFiles,
     Return, Awaiting!Return, memVars, Awaiting!memVars, histVars, Awaiting!histVars
<1>16. ASSUME FailMark(r) PROVE Awaiting!FailMark(r)
  BY <1>16 DEF FailMark, Awaiting!FailMark, GoTo, Awaiting!GoTo, Return, Awaiting!Return,
     locals, Awaiting!locals, memVars, Awaiting!memVars, histVars, Awaiting!histVars
<1>17. ASSUME FailDrop(r) PROVE Awaiting!FailDrop(r)
  BY <1>17 DEF FailDrop, Awaiting!FailDrop, DropSession, Awaiting!DropSession, Return,
     Awaiting!Return, dbVars, Awaiting!dbVars, histVars, Awaiting!histVars
<1>18. QED
  BY <1>1, <1>2, <1>3, <1>4, <1>5, <1>6, <1>7, <1>8, <1>9, <1>10, <1>11, <1>12, <1>13,
     <1>14, <1>15, <1>16, <1>17 DEF Work, Awaiting!Work

\* So is the count of chunks.
LEMMA SameLen ==
  ASSUME NEW u \in Uploads PROVE Awaiting!Len(u) = Len(u)
  BY Zenon DEF Len, Awaiting!Len, Cardinality, Awaiting!Cardinality

\* A client sends only when no chunk or complete request of its upload is served.
LEMMA ClientStepsAwait ==
  ClientInv /\ [ClientNext]_systemVars => [Awaiting!Next]_(Awaiting!vars)
<1> SUFFICES ASSUME ClientInv, [ClientNext]_systemVars
             PROVE  Awaiting!Next \/ UNCHANGED Awaiting!vars
  OBVIOUS
<1>1. ASSUME NEW u \in Uploads, via[u] = NoRequest, step[u] = "sending"
      PROVE  Awaiting!MaySend(u)
  BY <1>1, ClientAssumption DEF ClientInv, Alone, Awaiting!MaySend, Awaiting!Quiet,
     Awaiting!ChunkSteps, Awaiting!CompleteSteps, ChunkSteps, CompleteSteps
<1>2. ASSUME NEW u \in Uploads, NEW r \in Requests, StartUpload(u, r) PROVE Awaiting!Next
  <2>1. Awaiting!GenerateInsert(r, u)
    BY <1>2 DEF StartUpload, GenerateInsert, Awaiting!GenerateInsert, IndexFree,
       Awaiting!IndexFree, GoTo, Awaiting!GoTo, memVars, Awaiting!memVars, locals,
       Awaiting!locals, histVars, Awaiting!histVars
  <2>2. QED
    BY <2>1 DEF Awaiting!Next, Awaiting!Arrive
<1>3. ASSUME NEW u \in Uploads, NEW r \in Requests, SendChunk(u, r) PROVE Awaiting!Next
  <2>1. next[u] \in Indexes /\ ChunkAdmit(r, u, next[u])
    BY <1>3, SentIndex DEF ClientInv
  <2>2. Awaiting!MaySend(u)
    BY <1>1, <1>3 DEF SendChunk, Waits
  <2>3. Awaiting!ChunkAdmit(r, u, next[u])
    BY <2>1, <2>2, SameLen DEF ChunkAdmit, Awaiting!ChunkAdmit, Serve, Awaiting!Serve, GoTo, Awaiting!GoTo, dbVars, Awaiting!dbVars, memVars, Awaiting!memVars,
       histVars, Awaiting!histVars
  <2>4. QED
    BY <2>1, <2>3 DEF Awaiting!Next, Awaiting!Arrive
<1>4. ASSUME NEW u \in Uploads, NEW r \in Requests, SendComplete(u, r) PROVE Awaiting!Next
  <2>1. CompleteAdmit(r, u) /\ Awaiting!MaySend(u)
    BY <1>1, <1>4 DEF SendComplete, Waits
  <2>2. Awaiting!CompleteAdmit(r, u)
    BY <2>1, SameLen DEF CompleteAdmit, Awaiting!CompleteAdmit, Serve, Awaiting!Serve, GoTo, Awaiting!GoTo, dbVars, Awaiting!dbVars, memVars, Awaiting!memVars,
       locals, Awaiting!locals, histVars, Awaiting!histVars
  <2>3. QED
    BY <2>2 DEF Awaiting!Next, Awaiting!Arrive
<1>5. ASSUME NEW r \in Requests, HandlerStep(r) \/ HandlerLocks(r) PROVE Awaiting!Next
  <2>1. Work(r) \/ ChunkLock(r)
    BY <1>5 DEF HandlerStep, HandlerLocks, HandlerGoesOn, HandlerStumbles, HandlerCompletes,
       HandlerSucceeds, HandlerFails, Work
  <2>2. QED
    BY <2>1, SameSteps DEF Awaiting!Next
<1>6. ASSUME ServerCrash PROVE Awaiting!Next
  <2>1. Awaiting!Crash
    BY <1>6 DEF ServerCrash, Crash, Awaiting!Crash, NoChunks, Awaiting!NoChunks, dbVars,
       Awaiting!dbVars
  <2>2. QED
    BY <2>1 DEF Awaiting!Next
<1>7. ASSUME UNCHANGED vars PROVE UNCHANGED Awaiting!vars
  BY <1>7 DEF vars, Awaiting!vars
<1>8. ASSUME NEW u \in Uploads,
             \/ RejectUpload(u) \/ LoseConnection(u) \/ AskDownload(u)
             \/ ChunkRefused(u) \/ CompleteRefused(u) \/ FailUpload(u)
      PROVE  UNCHANGED vars
  BY <1>8 DEF RejectUpload, LoseConnection, AskDownload, ChunkRefused, CompleteRefused, FailUpload
<1>9. ASSUME OpenDownload \/ CopyDownload \/ EndDownload \/ UNCHANGED systemVars
      PROVE  UNCHANGED vars
  BY <1>9 DEF OpenDownload, CopyDownload, EndDownload, systemVars
<1>10. QED
  BY <1>2, <1>3, <1>4, <1>5, <1>6, <1>7, <1>8, <1>9 DEF ClientNext, ClientStep

\* For every number of uploads, goroutines, chunks and crashes the browser is a client
\* that awaits its answers: no two chunk or complete requests of an upload overlap.
THEOREM ClientAwaits == ClientSpec => AwaitsKept
<1>1. ClientInit => Awaiting!Init
  BY DEF ClientInit, Init, Awaiting!Init, NoChunks, Awaiting!NoChunks, ChunkFiles,
     Awaiting!ChunkFiles
<1>2. QED
  BY <1>1, ClientStepsAwait, ClientInvHolds, PTL DEF ClientSpec, AwaitsKept, Awaiting!Spec
-----------------------------------------------------------------------------
(* What the handlers guarantee a client that awaits its answers holds for the
   browser: its requests are admitted only for a quiet upload. *)

LEMMA ClientAdmits == ClientInv /\ [ClientNext]_systemVars => AdmitsQuiet
<1> SUFFICES ASSUME ClientInv, [ClientNext]_systemVars,
                    NEW u \in Uploads, NEW r \in Requests,
                    CompleteAdmit(r, u) \/ \E i \in Indexes : ChunkAdmit(r, u, i)
             PROVE  Quiet(u)
  BY DEF AdmitsQuiet
<1> USE DEF ClientInv, TypeOK
<1>1. pc[r] = "idle" /\ pc'[r] \in {"get", "create"} /\ up'[r] = u
  BY DEF CompleteAdmit, ChunkAdmit, Serve, GoTo
<1>2. ASSUME NEW v \in Uploads, NEW q \in Requests, SendChunk(v, q) \/ SendComplete(v, q)
      PROVE  Quiet(u)
  <2>1. /\ pc' = [pc EXCEPT ![q] = IF SendChunk(v, q) THEN "get" ELSE "create"]
        /\ up' = [up EXCEPT ![q] = v]
        /\ via[v] = NoRequest /\ step[v] = "sending"
    BY <1>2 DEF SendChunk, SendComplete, ChunkAdmit, CompleteAdmit, Serve, GoTo, Waits
  <2>2. q = r /\ v = u
    BY <1>1, <2>1
  <2>3. QED
    BY <2>1, <2>2, ClientAssumption DEF Alone, Quiet
<1>3. ASSUME NEW v \in Uploads, NEW q \in Requests, StartUpload(v, q) PROVE FALSE
  BY <1>1, <1>3 DEF StartUpload, GenerateInsert, GoTo
<1>4. ASSUME NEW q \in Requests, Work(q) \/ ChunkLock(q) PROVE FALSE
  BY <1>1, <1>4 DEF Work, GenerateRegister, ChunkGetMutex, ChunkLock, ChunkDir, ChunkTemp, ChunkRecord,
     ChunkFail, CompleteCreate, CompleteCreateFail, CompleteMerge, CompleteAbort,
     CompleteMarkFailed, CompleteUpdate, CompleteForget, CompleteClean, FailMark, FailDrop,
     Return, GoTo, LockedSteps
<1>5. ASSUME NEW q \in Requests, HandlerStep(q) \/ HandlerLocks(q) PROVE FALSE
  BY <1>4, <1>5 DEF HandlerStep, HandlerLocks, HandlerGoesOn, HandlerStumbles, HandlerCompletes,
     HandlerSucceeds, HandlerFails, Work
<1>6. ASSUME ServerCrash \/ UNCHANGED vars PROVE FALSE
  BY <1>1, <1>6 DEF ServerCrash, Crash, vars
<1>7. ASSUME NEW v \in Uploads,
             \/ RejectUpload(v) \/ LoseConnection(v) \/ AskDownload(v)
             \/ ChunkRefused(v) \/ CompleteRefused(v) \/ FailUpload(v)
      PROVE  UNCHANGED vars
  BY <1>7 DEF RejectUpload, LoseConnection, AskDownload, ChunkRefused, CompleteRefused, FailUpload
<1>8. ASSUME OpenDownload \/ CopyDownload \/ EndDownload \/ UNCHANGED systemVars
      PROVE  UNCHANGED vars
  BY <1>8 DEF OpenDownload, CopyDownload, EndDownload, systemVars
<1>9. QED
  BY <1>2, <1>3, <1>5, <1>6, <1>7, <1>8 DEF ClientNext, ClientStep

LEMMA ClientsAlone == ClientSpec => []OneAtATime
<1>1. ClientInit => NoOverlap
  BY DEF ClientInit, Init, NoOverlap, Busy, ChunkSteps, CompleteSteps
<1>2. ClientInv /\ NoOverlap /\ [ClientNext]_systemVars => NoOverlap'
  BY ClientAdmits, ClientStepsServe, NoOverlapKept DEF ClientInv
<1>3. QED
  BY <1>1, <1>2, ClientInvHolds, ClientsServed, RegisterFirstHolds, PTL DEF ClientSpec, OneAtATime

\* Whatever breaks on the way, a file the browser's client uploads is completed in the
\* table only with all its bytes in the storage, and then stays so.
THEOREM ClientFilesWhole == ClientSpec => []CompletedIsWhole /\ CompletedStays
  BY ClientsAlone, ClientsServed, AloneFilesWhole, AloneRowsStay, PTL

-----------------------------------------------------------------------------
(* Downloads *)

\* The fail route never gets past its first check: no request marks a row failed there.
NoFails == \A r \in Requests : pc[r] \notin {"fail", "drop"}

LEMMA NoFailsHolds == Spec => []NoFails
<1>1. Init => NoFails
  BY DEF Init, NoFails
<1>2. TypeOK /\ NoFails /\ [Next]_vars => NoFails'
  <2> SUFFICES ASSUME TypeOK, NoFails, [Next]_vars PROVE NoFails'
    OBVIOUS
  <2> USE DEF NoFails, TypeOK
  <2>1. ASSUME NEW r \in Requests, NEW s \in Steps \ {"fail", "drop"}, GoTo(r, s) PROVE NoFails'
    BY <2>1 DEF GoTo
  <2>2. ASSUME NEW r \in Requests, Return(r) PROVE NoFails'
    BY <2>2 DEF Return
  <2>3. ASSUME NEW r \in Requests, Arrive(r) PROVE NoFails'
    BY <2>1, <2>3, ClientAssumption
       DEF Arrive, GenerateInsert, ChunkAdmit, CompleteAdmit, FailAdmit, Serve, Steps, ChunkSteps, CompleteSteps
  <2>4. ASSUME NEW r \in Requests, Work(r) \/ ChunkLock(r) PROVE NoFails'
    BY <2>1, <2>2, <2>4
       DEF Work, GenerateRegister, ChunkGetMutex, ChunkLock, ChunkDir, ChunkTemp, ChunkRecord, ChunkFail,
           CompleteCreate, CompleteCreateFail, CompleteMerge, CompleteAbort, CompleteMarkFailed, CompleteUpdate,
           CompleteForget, CompleteClean, FailMark, FailDrop, Steps, ChunkSteps, CompleteSteps
  <2>5. ASSUME Crash PROVE NoFails'
    BY <2>5 DEF Crash
  <2>6. ASSUME UNCHANGED vars PROVE NoFails'
    BY <2>6 DEF vars
  <2>7. QED
    BY <2>3, <2>4, <2>5, <2>6 DEF Next
<1>3. QED
  BY <1>1, <1>2, TypeCorrect, PTL DEF Spec

\* The bytes read so far form a beginning of the file, and those of a row that was
\* read as completed are in their place.
ReadInPlace ==
  /\ download = [of |-> download.of, seen |-> download.seen,
                  open |-> download.open, got |-> download.got]
  /\ \E n \in Nat : DOMAIN download.got = 0 .. n - 1
  /\ download.seen = "completed" =>
       /\ download.of \in Uploads /\ status[download.of] = "completed"
       /\ \A i \in DOMAIN download.got : download.got[i] \in {download.of} \X {i} \X Tags

RowsStay == \A u \in Uploads : status[u] = "completed" => status'[u] = "completed"

LEMMA RowsStayHolds == ClientSpec => [][RowsStay]_vars
<1> DEFINE Stays == \A u \in Uploads :
       status[u] = "completed" =>
         \/ status'[u] = "completed"
         \/ \E r \in Requests : up[r] = u /\ pc[r] = "fail" /\ pc'[r] = "drop"
<1>1. NoFails /\ [Stays]_vars => [RowsStay]_vars
  BY DEF NoFails, RowsStay
<1>2. CompletedStays <=> [][Stays]_vars
  BY DEF CompletedStays
<1>3. QED
  BY <1>1, <1>2, ClientFilesWhole, ClientsServed, NoFailsHolds, PTL

LEMMA ReadInPlaceHolds == ClientSpec => []ReadInPlace
<1>1. ClientInit => ReadInPlace
  <2> SUFFICES ASSUME ClientInit PROVE ReadInPlace
    OBVIOUS
  <2>1. download = [of |-> NoUpload, seen |-> "none", open |-> FALSE, got |-> <<>>]
    BY DEF ClientInit, NoDownload
  <2>2. DOMAIN download.got = 0 .. 0 - 1
    BY <2>1
  <2>3. QED
    BY <2>1, <2>2 DEF ReadInPlace
<1>2. ReadInPlace /\ TypeOK /\ CompletedIsWhole /\ [RowsStay]_vars /\ [ClientNext]_systemVars => ReadInPlace'
  <2> SUFFICES ASSUME ReadInPlace, TypeOK, CompletedIsWhole, [RowsStay]_vars, [ClientNext]_systemVars
               PROVE  ReadInPlace'
    OBVIOUS
  <2> DEFINE d == download
  <2>1. ASSUME NEW u \in Uploads, status[u] = "completed" PROVE status'[u] = "completed"
    BY <2>1 DEF RowsStay, vars
  <2>2. ASSUME UNCHANGED download PROVE ReadInPlace'
    BY <2>1, <2>2 DEF ReadInPlace
  <2>3. ASSUME download' = NoDownload PROVE ReadInPlace'
    <3>1. download' = [of |-> NoUpload, seen |-> "none", open |-> FALSE, got |-> <<>>]
      BY <2>3 DEF NoDownload
    <3>2. DOMAIN download'.got = 0 .. 0 - 1
      BY <3>1
    <3>3. QED
      BY <3>1, <3>2 DEF ReadInPlace
  <2>4. ASSUME NEW u \in Uploads, AskDownload(u) PROVE ReadInPlace'
    <3>1. download' = [of |-> u, seen |-> status[u], open |-> FALSE, got |-> <<>>] /\ UNCHANGED status
      BY <2>4 DEF AskDownload, NoDownload, vars
    <3>2. DOMAIN download'.got = 0 .. 0 - 1 /\ DOMAIN download'.got = {}
      BY <3>1
    <3>3. download'.of = u /\ download'.seen = status'[u]
      BY <3>1
    <3>4. download' = [of |-> download'.of, seen |-> download'.seen,
                       open |-> download'.open, got |-> download'.got]
      BY <3>1
    <3>5. QED
      BY <3>2, <3>3, <3>4 DEF ReadInPlace
  <2>5. ASSUME OpenDownload PROVE ReadInPlace'
    <3>1. download' = [of |-> d.of, seen |-> d.seen, open |-> TRUE, got |-> d.got] /\ UNCHANGED status
      BY <2>5 DEF OpenDownload, ReadInPlace, vars
    <3>2. QED
      BY <3>1 DEF ReadInPlace
  <2>6. ASSUME CopyDownload PROVE ReadInPlace'
    <3>1. PICK n \in Nat : DOMAIN d.got = 0 .. n - 1
      BY DEF ReadInPlace
    <3>2. Cardinality(DOMAIN d.got) = n
      BY <3>1, FS_Interval
    <3> DEFINE more == [j \in 0 .. n |-> IF j < n THEN d.got[j] ELSE stored[d.of][n]]
    <3>3. /\ download' = [of |-> d.of, seen |-> d.seen, open |-> d.open, got |-> more]
          /\ UNCHANGED status
          /\ n < TotalChunks[d.of]
      BY <2>6, <3>2 DEF CopyDownload, ReadInPlace, vars
    <3>4. DOMAIN download'.got = 0 .. (n + 1) - 1
      BY <3>3
    <3>5. ASSUME d.seen = "completed", NEW i \in 0 .. n PROVE more[i] \in {d.of} \X {i} \X Tags
      <4>1. CASE i < n
        BY <3>1, <3>5, <4>1 DEF ReadInPlace
      <4>2. CASE i = n
        <5>1. d.of \in Uploads /\ Whole(d.of)
          BY <3>5 DEF ReadInPlace, CompletedIsWhole
        <5>2. n \in 0 .. (TotalChunks[d.of] - 1)
          BY <3>3, <5>1, TotalAssumption
        <5>3. QED
          BY <4>2, <5>1, <5>2 DEF Whole
      <4>3. QED
        BY <4>1, <4>2
    <3>6. QED
      BY <3>3, <3>4, <3>5 DEF ReadInPlace
  <2>7. ASSUME NEW r \in Requests, HandlerStep(r) \/ HandlerLocks(r) PROVE ReadInPlace'
    BY <2>2, <2>7 DEF HandlerStep, HandlerLocks, HandlerGoesOn, HandlerStumbles,
       HandlerCompletes, HandlerSucceeds, HandlerFails
  <2>8. ASSUME NEW u \in Uploads,
               \/ \E r \in Requests : StartUpload(u, r)
               \/ RejectUpload(u) \/ LoseConnection(u) \/ ClientStep(u)
        PROVE  ReadInPlace'
    BY <2>2, <2>8 DEF StartUpload, RejectUpload, LoseConnection, ClientStep, SendChunk, SendComplete,
       ChunkRefused, CompleteRefused, FailUpload
  <2>9. ASSUME EndDownload \/ ServerCrash PROVE ReadInPlace'
    BY <2>3, <2>9 DEF EndDownload, ServerCrash
  <2>10. CASE UNCHANGED systemVars
    BY <2>2, <2>10 DEF systemVars
  <2>11. QED
    BY <2>4, <2>5, <2>6, <2>7, <2>8, <2>9, <2>10 DEF ClientNext
<1>3. QED
  BY <1>1, <1>2, ClientFilesWhole, RowsStayHolds, ClientsServed, TypeCorrect, PTL DEF ClientSpec

\* A download of a row that was read as completed gets nothing but chunks in their
\* place, for files of any size and whatever else is going on.
THEOREM ClientDownloads == ClientSpec => []DownloadsWhole
<1>1. ReadInPlace => DownloadsWhole
  BY DEF ReadInPlace, DownloadsWhole
<1>2. QED
  BY <1>1, ReadInPlaceHolds, PTL

-----------------------------------------------------------------------------
(* What is shown *)

\* A merge that is over has left a whole file, and nobody has touched it yet.
Merged == \A r \in Requests : pc[r] \in {"forget", "clean"} => Whole(up[r])

\* Only the merge of an upload writes its stored file.
LEMMA MergeWrites ==
  ASSUME TypeOK, [Next]_vars, NEW u \in Uploads,
         \A r \in Requests : up[r] = u => pc[r] \notin {"create", "merge"}
  PROVE  stored'[u] = stored[u]
<1> USE DEF TypeOK, dbVars
<1>1. ASSUME NEW r \in Requests, Arrive(r) PROVE stored'[u] = stored[u]
  BY <1>1 DEF Arrive, GenerateInsert, ChunkAdmit, CompleteAdmit, FailAdmit
<1>2. ASSUME NEW r \in Requests, CompleteCreate(r) \/ CompleteMerge(r) \/ CompleteAbort(r)
      PROVE  stored'[u] = stored[u]
  <2>1. up[r] \in Uploads \ {u}
    BY <1>2 DEF CompleteCreate, CompleteMerge, CompleteAbort
  <2>2. CASE CompleteMerge(r)
    BY <2>1, <2>2 DEF CompleteMerge
  <2>3. CASE CompleteCreate(r) \/ CompleteAbort(r)
    BY <2>1, <2>3 DEF CompleteCreate, CompleteAbort
  <2>4. QED
    BY <1>2, <2>2, <2>3
<1>3. ASSUME NEW r \in Requests, Work(r) \/ ChunkLock(r) PROVE stored'[u] = stored[u]
  BY <1>2, <1>3 DEF Work, GenerateRegister, ChunkGetMutex, ChunkLock, ChunkDir, ChunkTemp, ChunkRecord,
     ChunkFail, CompleteCreateFail, CompleteMarkFailed, CompleteUpdate, CompleteForget, CompleteClean,
     FailMark, FailDrop
<1>4. ASSUME Crash \/ UNCHANGED vars PROVE stored'[u] = stored[u]
  BY <1>4 DEF Crash, vars
<1>5. QED
  BY <1>1, <1>3, <1>4 DEF Next

\* The loop of a merge that ends has copied every chunk.
LEMMA MergedAtEnd ==
  ASSUME TypeOK, MergeProgress, NEW r \in Requests, pc[r] = "merge", ix[r] = TotalChunks[up[r]]
  PROVE  Whole(up[r])
<1> USE DEF TypeOK, MergeProgress
<1>1. up[r] \in Uploads /\ TotalChunks[up[r]] \in Int
  BY TotalAssumption
<1>2. stored[up[r]] # NoFile
  OBVIOUS
<1>3. ASSUME NEW i \in 0 .. (TotalChunks[up[r]] - 1)
      PROVE  stored[up[r]][i] \in {up[r]} \X {i} \X Tags
  <2>1. i \in Indexes
    BY <1>1, IndexesCoverTotals
  <2>2. 0 <= i /\ i < ix[r]
    BY <1>1
  <2>3. QED
    BY <2>1, <2>2
<1>4. QED
  BY <1>2, <1>3 DEF Whole

LEMMA MergedHolds == Spec /\ []OneAtATime => []Merged
<1>1. Init => Merged
  BY DEF Init, Merged
<1>2. TypeOK /\ OneAtATime /\ MergeProgress /\ Merged /\ [Next]_vars => Merged'
  <2> SUFFICES ASSUME TypeOK, OneAtATime, MergeProgress, Merged, [Next]_vars,
                      NEW r \in Requests, pc'[r] \in {"forget", "clean"}
               PROVE  Whole(up[r])'
    BY DEF Merged
  <2>1. \/ pc[r] \in {"forget", "clean"} /\ up'[r] = up[r]
        \/ CompleteUpdate(r)
    <3> USE DEF TypeOK
    <3>1. ASSUME NEW q \in Requests, NEW s \in Steps \ {"forget", "clean"}, GoTo(q, s),
                 up' = up \/ (pc[q] = "idle" /\ \E u \in Uploads : up' = [up EXCEPT ![q] = u])
          PROVE  pc[r] \in {"forget", "clean"} /\ up'[r] = up[r]
      BY <3>1 DEF GoTo
    <3>2. ASSUME NEW q \in Requests, Return(q)
          PROVE  pc[r] \in {"forget", "clean"} /\ up'[r] = up[r]
      BY <3>2 DEF Return
    <3>3. CASE \E q \in Requests : Arrive(q)
      BY <3>1, <3>3 DEF Arrive, GenerateInsert, ChunkAdmit, CompleteAdmit, FailAdmit, Serve,
         Steps, ChunkSteps, CompleteSteps
    <3>4. ASSUME NEW q \in Requests, CompleteUpdate(q) \/ CompleteForget(q) \/ CompleteMerge(q)
          PROVE  \/ pc[r] \in {"forget", "clean"} /\ up'[r] = up[r]
                 \/ CompleteUpdate(r)
      BY <3>4 DEF CompleteUpdate, CompleteForget, CompleteMerge, GoTo
    <3>5. ASSUME NEW q \in Requests, Work(q) \/ ChunkLock(q)
          PROVE  \/ pc[r] \in {"forget", "clean"} /\ up'[r] = up[r]
                 \/ CompleteUpdate(r)
      <4>1. CASE \/ GenerateRegister(q) \/ ChunkRecord(q) \/ ChunkFail(q) \/ CompleteCreateFail(q)
                 \/ CompleteMarkFailed(q) \/ CompleteClean(q) \/ FailDrop(q)
        BY <3>2, <4>1 DEF GenerateRegister, ChunkRecord, ChunkFail, CompleteCreateFail,
           CompleteMarkFailed, CompleteClean, FailDrop
      <4>2. CASE ChunkGetMutex(q) \/ ChunkLock(q) \/ ChunkDir(q) \/ ChunkTemp(q)
        BY <3>1, <4>2 DEF ChunkGetMutex, ChunkLock, ChunkDir, ChunkTemp, Steps, ChunkSteps
      <4>3. CASE CompleteCreate(q) \/ CompleteAbort(q)
        BY <3>1, <4>3 DEF CompleteCreate, CompleteAbort, Steps, CompleteSteps
      <4>4. CASE FailMark(q)
        BY <3>1, <3>2, <4>4 DEF FailMark, Steps
      <4>5. QED
        BY <3>4, <3>5, <4>1, <4>2, <4>3, <4>4 DEF Work
    <3>6. CASE Crash \/ UNCHANGED vars
      BY <3>6 DEF Crash, vars
    <3>7. QED
      BY <3>3, <3>5, <3>6 DEF Next
  <2>2. CASE pc[r] \in {"forget", "clean"} /\ up'[r] = up[r]
    <3>1. up[r] \in Uploads
      BY <2>2 DEF TypeOK
    <3>2. \A q \in Requests : up[q] = up[r] => pc[q] \notin {"create", "merge"}
      BY <2>2 DEF OneAtATime, NoOverlap, Busy, CompleteSteps
    <3>3. stored'[up[r]] = stored[up[r]]
      BY <3>1, <3>2, MergeWrites
    <3>4. QED
      BY <2>2, <3>3 DEF Merged, Whole
  <2>3. CASE CompleteUpdate(r)
    <3>1. Whole(up[r])
      BY <2>3, MergedAtEnd DEF CompleteUpdate
    <3>2. UNCHANGED <<stored, up>>
      BY <2>3 DEF CompleteUpdate
    <3>3. QED
      BY <3>1, <3>2 DEF Whole
  <2>4. QED
    BY <2>1, <2>2, <2>3
<1>3. QED
  BY <1>1, <1>2, TypeCorrect, MergeProgressHolds, PTL DEF Spec

\* A file that is shown is whole, its client is done, and none of its requests is left.
ShownAtRest ==
  \A u \in Uploads : result[u] = "shown" =>
    /\ Whole(u)
    /\ step[u] = "done"
    /\ \A r \in Requests : up[r] = u => pc[r] \notin Busy

\* Nobody starts a request for a client that is done.
Rests(u) ==
  /\ step'[u] = "done"
  /\ \A r \in Requests : up'[r] = u => pc'[r] \notin Busy

LEMMA DoneRests ==
  ASSUME ClientInv, [ClientNext]_systemVars, NEW u \in Uploads, step[u] = "done",
         \A r \in Requests : up[r] = u => pc[r] \notin Busy
  PROVE  Rests(u)
<1> USE DEF Rests
<1>1. via[u] = NoRequest
  BY DEF ClientInv, Heard
<1>2. ASSUME step'[u] = step[u], UNCHANGED <<pc, up>> PROVE Rests(u)
  BY <1>2
<1>3. ASSUME NEW v \in Uploads,
             \/ RejectUpload(v) \/ ChunkRefused(v) \/ CompleteRefused(v)
             \/ FailUpload(v) \/ LoseConnection(v) \/ AskDownload(v)
      PROVE  Rests(u)
  <2>1. step'[u] = step[u]
    BY <1>1, <1>3 DEF RejectUpload, ChunkRefused, CompleteRefused, FailUpload, LoseConnection,
       AskDownload, Waits, Ends, Set, ClientInv, clientVars
  <2>2. UNCHANGED <<pc, up>>
    BY <1>3 DEF RejectUpload, ChunkRefused, CompleteRefused, FailUpload, LoseConnection,
       AskDownload, vars
  <2>3. QED
    BY <1>2, <2>1, <2>2
<1>4. ASSUME NEW v \in Uploads, NEW r \in Requests,
             StartUpload(v, r) \/ SendChunk(v, r) \/ SendComplete(v, r)
      PROVE  Rests(u)
  <2>1. v # u /\ step'[u] = step[u]
    BY <1>4 DEF StartUpload, SendChunk, SendComplete, Waits, Set, ClientInv
  <2>2. up' = [up EXCEPT ![r] = v] /\ \A q \in Requests \ {r} : pc'[q] = pc[q]
    BY <1>4 DEF StartUpload, SendChunk, SendComplete, GenerateInsert, ChunkAdmit, CompleteAdmit,
       Serve, GoTo, ClientInv, TypeOK
  <2>3. QED
    BY <2>1, <2>2 DEF ClientInv, TypeOK
<1>5. ASSUME NEW r \in Requests,
             \/ HandlerGoesOn(r) \/ HandlerLocks(r) \/ HandlerStumbles(r) \/ HandlerCompletes(r)
      PROVE  Rests(u)
  BY <1>5, GoingOn DEF GoesOn, Busy
<1>6. ASSUME NEW r \in Requests, HandlerSucceeds(r) \/ HandlerFails(r) PROVE Rests(u)
  <2>1. Return(r)
    BY <1>6 DEF HandlerSucceeds, HandlerFails, GenerateRegister, ChunkRecord, CompleteClean,
       ChunkFail, CompleteCreateFail, CompleteMarkFailed
  <2>2. step'[u] = step[u]
    BY <1>1, <1>6, ClientAssumption DEF HandlerSucceeds, HandlerFails, Hear
  <2>3. QED
    BY <2>1, <2>2 DEF Return, Busy, ChunkSteps, CompleteSteps, ClientInv, TypeOK
<1>7. CASE ServerCrash
  BY <1>1, <1>7 DEF ServerCrash, Crash, Busy, ChunkSteps, CompleteSteps
<1>8. CASE OpenDownload \/ CopyDownload \/ EndDownload \/ UNCHANGED systemVars
  BY <1>2, <1>8 DEF OpenDownload, CopyDownload, EndDownload, systemVars, clientVars, vars
<1>9. QED
  BY <1>3, <1>4, <1>5, <1>6, <1>7, <1>8 DEF ClientNext, ClientStep, HandlerStep

\* A file is shown for the answer of a merge that is over.
LEMMA ShownByMerge ==
  ASSUME ClientInv, [ClientNext]_systemVars, NEW u \in Uploads,
         result[u] # "shown", result'[u] = "shown"
  PROVE  \E r \in Requests : /\ pc[r] = "clean" /\ up[r] = u /\ CompleteClean(r)
                             /\ Rests(u)
<1>1. PICK r \in Requests, ok \in BOOLEAN :
        /\ Hear(r, ok) /\ ok /\ via[u] = r /\ step[u] = "completing"
        /\ HandlerSucceeds(r)
  <2>1. ASSUME NEW v \in Uploads,
               \/ \E r \in Requests : StartUpload(v, r)
               \/ RejectUpload(v) \/ LoseConnection(v) \/ ClientStep(v) \/ AskDownload(v)
        PROVE  FALSE
    BY <2>1 DEF StartUpload, RejectUpload, LoseConnection, ClientStep, SendChunk, SendComplete,
       ChunkRefused, CompleteRefused, FailUpload, AskDownload, Ends, clientVars, ClientInv
  <2>2. ASSUME NEW r \in Requests,
               \/ HandlerGoesOn(r) \/ HandlerLocks(r) \/ HandlerStumbles(r) \/ HandlerCompletes(r)
        PROVE  FALSE
    BY <2>2 DEF HandlerGoesOn, HandlerLocks, HandlerStumbles, HandlerCompletes, clientVars
  <2>3. ASSUME NEW r \in Requests, HandlerFails(r) PROVE FALSE
    BY <2>3 DEF HandlerFails, Hear
  <2>4. ASSUME OpenDownload \/ CopyDownload \/ EndDownload \/ ServerCrash \/ UNCHANGED systemVars
        PROVE  FALSE
    BY <2>4 DEF OpenDownload, CopyDownload, EndDownload, ServerCrash, systemVars, clientVars
  <2>5. PICK r \in Requests : HandlerSucceeds(r)
    BY <2>1, <2>2, <2>3, <2>4 DEF ClientNext, HandlerStep
  <2>6. Hear(r, TRUE)
    BY <2>5 DEF HandlerSucceeds
  <2>7. QED
    BY <2>5, <2>6 DEF Hear
<1>2. up[r] = u /\ pc[r] \in CompleteSteps
  BY <1>1, ClientAssumption DEF ClientInv, Heard
<1>3. CompleteClean(r)
  BY <1>1, <1>2 DEF HandlerSucceeds, GenerateRegister, ChunkRecord, CompleteSteps
<1>4. Return(r) /\ pc[r] = "clean"
  BY <1>3 DEF CompleteClean
<1>5. step'[u] = "done"
  BY <1>1 DEF Hear
<1>6. \A q \in Requests \ {r} : up[q] = u => pc[q] \notin Busy
  BY <1>1, ClientAssumption DEF ClientInv, Alone, Busy
<1>7. QED
  BY <1>2, <1>3, <1>4, <1>5, <1>6
     DEF Rests, Return, Busy, ChunkSteps, CompleteSteps, ClientInv, TypeOK

LEMMA ShownAtRestHolds == ClientSpec => []ShownAtRest
<1>1. ClientInit => ShownAtRest
  BY DEF ClientInit, ShownAtRest
<1>2. ClientInv /\ Merged /\ ShownAtRest /\ [Next]_vars /\ [ClientNext]_systemVars => ShownAtRest'
  <2> SUFFICES ASSUME ClientInv, Merged, ShownAtRest, [Next]_vars, [ClientNext]_systemVars,
                      NEW u \in Uploads, result'[u] = "shown"
               PROVE  Whole(u)' /\ Rests(u)
    BY DEF ShownAtRest, Rests
  <2>1. CASE result[u] = "shown"
    <3>1. \A r \in Requests : up[r] = u => pc[r] \notin Busy
      BY <2>1 DEF ShownAtRest
    <3>2. stored'[u] = stored[u]
      BY <3>1, MergeWrites DEF Busy, CompleteSteps, ClientInv
    <3>3. QED
      BY <2>1, <3>1, <3>2, DoneRests DEF ShownAtRest, Whole
  <2>2. CASE result[u] # "shown"
    <3>1. PICK r \in Requests : pc[r] = "clean" /\ up[r] = u /\ CompleteClean(r) /\ Rests(u)
      BY <2>2, ShownByMerge
    <3>2. Whole(u) /\ UNCHANGED stored
      BY <3>1 DEF Merged, CompleteClean
    <3>3. QED
      BY <3>1, <3>2 DEF Whole
  <2>3. QED
    BY <2>1, <2>2
<1>3. QED
  BY <1>1, <1>2, ClientInvHolds, ClientsServed, ClientsAlone, MergedHolds, PTL DEF ClientSpec, Spec

\* Math.ceil counts the chunks that start before the end of the file.
LEMMA Division ==
  ASSUME NEW n \in Nat, NEW c \in Nat \ {0}
  PROVE  n \div c \in Int /\ (n \div c) * c <= n /\ n < (n \div c) * c + c
  BY SMT

LEMMA Times ==
  ASSUME NEW i \in Int, NEW t \in Int, NEW c \in Nat \ {0}, t <= i
  PROVE  t * c <= i * c
  BY SMT

LEMMA ChunksCounted ==
  ASSUME NEW s \in Nat, NEW i \in Nat, i * ChunkBytes < s
  PROVE  i < GetTotalChunks(s)
<1> DEFINE c == ChunkBytes
           t == (s + c - 1) \div c
<1>1. c \in Nat \ {0} /\ i * c \in Nat
  BY SizeAssumption
<1>2. s > 0 /\ s + c - 1 \in Nat
  BY <1>1
<1>3. t \in Int /\ s + c - 1 < t * c + c /\ t * c \in Int
  BY <1>1, <1>2, Division
<1>4. GetTotalChunks(s) = t
  BY <1>2 DEF GetTotalChunks
<1> HIDE DEF c, t
<1>5. s <= t * c
  BY <1>1, <1>3
<1>6. CASE t <= i
  BY <1>1, <1>3, <1>5, <1>6, Times DEF c
<1>7. QED
  BY <1>3, <1>4, <1>6

\* A file that the page shows after its upload has all its bytes in the storage, of
\* whatever size it and the chunks are: the client and the server count the same chunks.
THEOREM ClientShows == ClientSpec => []ShownIsWhole
<1>1. ShownAtRest => ShownIsWhole
  <2> SUFFICES ASSUME ShownAtRest, NEW u \in Uploads, result[u] = "shown",
                      NEW i \in Indexes, i >= 0, MoreToSend(u, i)
               PROVE  stored[u][i] \in {u} \X {i} \X Tags
    BY DEF ShownIsWhole, ShownAtRest, Whole
  <2>1. i \in Nat /\ FileSize[u] \in Nat /\ TotalChunks[u] = GetTotalChunks(FileSize[u])
    BY IndexAssumption, SizeAssumption
  <2>2. i < TotalChunks[u] /\ TotalChunks[u] \in Int
    BY <2>1, ChunksCounted, TotalAssumption DEF MoreToSend
  <2>3. QED
    BY <2>1, <2>2 DEF ShownAtRest, Whole
<1>2. QED
  BY <1>1, ShownAtRestHolds, PTL

-----------------------------------------------------------------------------
(* Uploads that meet no failure *)

\* What the server holds of an upload agrees with where its client is, as long as
\* nothing failed it: at a loop that counts to next the session has the chunks before
\* next and no others.
Smooth(u) ==
  /\ step[u] # "failing"
  /\ step[u] # "done" => u \notin lost
  /\ \A r \in Requests : (pc[r] = "register" /\ up[r] = u) => via[u] = r
  /\ step[u] \in {"ready", "generating"} => next[u] = 0
  /\ step[u] = "ready" => status[u] = "none"
  /\ step[u] \in {"generating", "completing"} => via[u] # NoRequest
  /\ step[u] \in {"generating", "sending"} => status[u] = "pending"
  /\ step[u] = "sending" =>
       /\ sessions[u] # "none"
       /\ \A i \in Indexes : chunks[u][i] # NoFile <=> 0 <= i /\ i < next[u]
       /\ next[u] <= TotalChunks[u]
       /\ via[u] # NoRequest => next[u] < TotalChunks[u]
  /\ step[u] = "completing" =>
       /\ pc[via[u]] \in {"create", "merge"} => status[u] = "pending"
       /\ pc[via[u]] \in {"forget", "clean"} => status[u] = "completed"
       /\ pc[via[u]] # "abort"
  /\ (step[u] = "done" /\ result[u] # "rejected") =>
       status[u] = "completed" /\ result[u] = "shown"

SmoothInv == \A u \in Uploads : (u \notin trouble /\ FileSize[u] > 0) => Smooth(u)

\* A step that is none of u's.
Apart(u) ==
  /\ step'[u] = step[u] /\ next'[u] = next[u] /\ via'[u] = via[u] /\ result'[u] = result[u]
  /\ status'[u] = status[u] /\ sessions'[u] = sessions[u] /\ chunks'[u] = chunks[u]
  /\ u \in lost' => u \in lost
  /\ \A r \in Requests :
       /\ (up[r] = u /\ pc[r] # "idle") => pc'[r] = pc[r]
       /\ (pc'[r] = "register" /\ up'[r] = u) => pc[r] = "register" /\ up[r] = u

LEMMA ApartKeeps ==
  ASSUME ClientInv, NEW u \in Uploads, Smooth(u), Apart(u)
  PROVE  Smooth(u)'
<1>1. via[u] # NoRequest => via[u] \in Requests /\ up[via[u]] = u /\ pc[via[u]] # "idle"
  BY DEF ClientInv, Heard, ChunkSteps, CompleteSteps
<1>2. via[u] # NoRequest => pc'[via[u]] = pc[via[u]]
  BY <1>1 DEF Apart
<1>3. QED
  BY <1>2 DEF Smooth, Apart

\* The client sends no chunk that the server would turn away, and asks for the merge
\* when the server has counted as many chunks as were announced.
LEMMA SentAreCounted ==
  ASSUME ClientInv, NEW u \in Uploads, Smooth(u), step[u] = "sending"
  PROVE  Len(u) = next[u]
<1>1. {i \in Indexes : chunks[u][i] # NoFile} = 0 .. (next[u] - 1)
  <2>1. next[u] \in Nat /\ TotalChunks[u] \in Int /\ next[u] <= TotalChunks[u]
    BY TotalAssumption DEF ClientInv, Counts, Smooth
  <2>2. 0 .. (next[u] - 1) \subseteq 0 .. (TotalChunks[u] - 1)
    BY <2>1
  <2>3. 0 .. (next[u] - 1) \subseteq Indexes
    BY <2>2, IndexesCoverTotals
  <2>4. \A i \in Indexes : i \in 0 .. (next[u] - 1) <=> 0 <= i /\ i < next[u]
    BY <2>1, IndexAssumption
  <2>5. QED
    BY <2>3, <2>4 DEF Smooth
<1>2. next[u] \in Nat
  BY DEF ClientInv, Counts
<1>3. Cardinality(0 .. (next[u] - 1)) = next[u]
  BY <1>2, FS_Interval
<1>4. QED
  BY <1>1, <1>3 DEF Len

\* Chunks are announced for the bytes of a file and for no others.
LEMMA ChunksNeeded ==
  ASSUME NEW s \in Nat \ {0}, NEW i \in Nat, ~(i * ChunkBytes < s)
  PROVE  GetTotalChunks(s) <= i
<1> DEFINE c == ChunkBytes
           t == (s + c - 1) \div c
<1>1. c \in Nat \ {0} /\ i * c \in Nat
  BY SizeAssumption
<1>2. s + c - 1 \in Nat
  BY <1>1
<1>3. t \in Int /\ t * c <= s + c - 1 /\ t * c \in Int
  BY <1>1, <1>2, Division
<1>4. GetTotalChunks(s) = t
  BY DEF GetTotalChunks
<1> HIDE DEF c, t
<1>5. s <= i * c
  BY <1>1 DEF c
<1>6. CASE i + 1 <= t
  <2>1. (i + 1) * c <= t * c /\ (i + 1) * c = i * c + c
    BY <1>1, <1>3, <1>6, Times
  <2>2. QED
    BY <1>1, <1>3, <1>5, <2>1
<1>7. QED
  BY <1>3, <1>4, <1>6

LEMMA ClientStepsKeep ==
  ASSUME ClientInv, NEW u \in Uploads, Smooth(u), FileSize[u] > 0, u \notin trouble',
         NEW v \in Uploads,
         \/ \E r \in Requests : StartUpload(v, r)
         \/ RejectUpload(v) \/ LoseConnection(v) \/ ClientStep(v) \/ AskDownload(v)
  PROVE  Smooth(u)'
<1>1. ASSUME Apart(u) PROVE Smooth(u)'
  BY <1>1, ApartKeeps
<1>2. ASSUME NEW r \in Requests, StartUpload(v, r) PROVE Smooth(u)'
  <2>1. CASE v # u
    <3>1. Apart(u)
      BY <1>2, <2>1 DEF StartUpload, Waits, GenerateInsert, GoTo, Set, Await, Apart, ClientInv,
         TypeOK, memVars, locals, histVars
    <3>2. QED
      BY <1>1, <3>1
  <2>2. CASE v = u
    BY <1>2, <2>2, ClientAssumption DEF StartUpload, Waits, GenerateInsert, GoTo, Set, Await, Smooth,
       ClientInv, TypeOK, memVars, locals, histVars
  <2>3. QED
    BY <2>1, <2>2
<1>3. ASSUME NEW r \in Requests, SendChunk(v, r) \/ SendComplete(v, r) PROVE Smooth(u)'
  <2>1. /\ v # u => Apart(u)
        /\ UNCHANGED <<next, result, status, sessions, chunks, lost>>
        /\ step[v] = "sending" /\ via[v] = NoRequest
        /\ via' = [via EXCEPT ![v] = r]
        /\ \A q \in Requests \ {r} : pc'[q] = pc[q] /\ up'[q] = up[q]
    BY <1>3 DEF SendChunk, SendComplete, Waits, ChunkAdmit, CompleteAdmit, Serve, GoTo, Set, Await,
       Apart, ClientInv, TypeOK, dbVars, memVars, locals, histVars
  <2>2. CASE v # u
    BY <1>1, <2>1, <2>2
  <2>3. CASE v = u /\ SendChunk(v, r)
    <3>1. UNCHANGED step /\ pc'[r] = "get" /\ next[u] < TotalChunks[u]
      <4>1. UNCHANGED step /\ pc'[r] = "get" /\ next[u] + 1 <= TotalChunks[u]
        BY <2>3 DEF SendChunk, ChunkAdmit, Serve, GoTo, ClientInv, TypeOK
      <4>2. QED
        BY <4>1, TotalAssumption DEF ClientInv, Counts
    <3>2. QED
      BY <2>1, <2>3, <3>1, ClientAssumption DEF Smooth, ClientInv
  <2>4. CASE v = u /\ SendComplete(v, r)
    <3>1. step' = [step EXCEPT ![u] = "completing"] /\ pc'[r] = "create"
      BY <2>4 DEF SendComplete, Set, CompleteAdmit, Serve, GoTo, ClientInv, TypeOK
    <3>2. QED
      BY <2>1, <2>4, <3>1, ClientAssumption DEF Smooth, ClientInv
  <2>5. QED
    BY <1>3, <2>2, <2>3, <2>4
<1>4. ASSUME \/ RejectUpload(v) \/ LoseConnection(v) \/ ChunkRefused(v)
             \/ CompleteRefused(v) \/ FailUpload(v) \/ AskDownload(v),
             v # u
      PROVE  Smooth(u)'
  <2>1. Apart(u)
    BY <1>4 DEF RejectUpload, LoseConnection, ChunkRefused, CompleteRefused, FailUpload, AskDownload,
       NextChunk, Ends, Set, Await, Apart, ClientInv, Counts, vars, clientVars
  <2>2. QED
    BY <1>1, <2>1
<1>5. ASSUME RejectUpload(u) PROVE Smooth(u)'
  BY <1>5, ClientAssumption DEF RejectUpload, Waits, Ends, Set, Smooth, ClientInv, vars
<1>6. ASSUME LoseConnection(u) \/ FailUpload(u) PROVE FALSE
  BY <1>6 DEF LoseConnection, FailUpload, Waits, Smooth
<1>7. ASSUME ChunkRefused(u) PROVE FALSE
  <2>1. /\ step[u] = "sending" /\ MoreToSend(u, next[u])
        /\ sessions[u] = "none" \/ next[u] + 1 > TotalChunks[u] \/ TotalChunks[u] = Len(u)
    BY <1>7 DEF ChunkRefused, Waits
  <2>2. next[u] \in Nat /\ FileSize[u] \in Nat /\ TotalChunks[u] \in Int
    BY SizeAssumption, TotalAssumption DEF ClientInv, Counts
  <2>3. next[u] < TotalChunks[u]
    BY <2>1, <2>2, ChunksCounted, SizeAssumption DEF MoreToSend
  <2>4. Len(u) = next[u] /\ sessions[u] # "none"
    BY <2>1, SentAreCounted DEF Smooth
  <2>5. QED
    BY <2>1, <2>2, <2>3, <2>4
<1>8. ASSUME CompleteRefused(u) PROVE FALSE
  <2>1. /\ step[u] = "sending" /\ ~MoreToSend(u, next[u])
        /\ sessions[u] = "none" \/ TotalChunks[u] # Len(u)
    BY <1>8 DEF CompleteRefused, Waits
  <2>2. next[u] \in Nat /\ FileSize[u] \in Nat \ {0} /\ TotalChunks[u] \in Int
    BY SizeAssumption, TotalAssumption DEF ClientInv, Counts
  <2>3. TotalChunks[u] <= next[u]
    BY <2>1, <2>2, ChunksNeeded, SizeAssumption DEF MoreToSend
  <2>4. Len(u) = next[u] /\ sessions[u] # "none" /\ next[u] <= TotalChunks[u]
    BY <2>1, SentAreCounted DEF Smooth
  <2>5. QED
    BY <2>1, <2>2, <2>3, <2>4
<1>9. ASSUME AskDownload(u) PROVE Smooth(u)'
  <2>1. Apart(u)
    BY <1>9 DEF AskDownload, Apart, vars, clientVars
  <2>2. QED
    BY <1>1, <2>1
<1>10. QED
  BY <1>2, <1>3, <1>4, <1>5, <1>6, <1>7, <1>8, <1>9 DEF ClientStep

\* What a handler does to its own upload, and that it does nothing to another.
LEMMA HandlerStaysApart ==
  ASSUME ClientInv, NEW u \in Uploads, NEW r \in Requests, up[r] # u,
         HandlerStep(r) \/ HandlerLocks(r)
  PROVE  Apart(u)
<1>1. via[u] # r
  BY ClientAssumption DEF ClientInv, Heard
<1>2. ASSUME NEW ok \in BOOLEAN, Hear(r, ok)
      PROVE  step'[u] = step[u] /\ next'[u] = next[u] /\ via'[u] = via[u] /\ result'[u] = result[u]
  BY <1>1, <1>2 DEF Hear
<1>3. step'[u] = step[u] /\ next'[u] = next[u] /\ via'[u] = via[u] /\ result'[u] = result[u]
  BY <1>2 DEF HandlerStep, HandlerLocks, HandlerGoesOn, HandlerStumbles, HandlerCompletes,
     HandlerSucceeds, HandlerFails, clientVars
<1>4. /\ status'[u] = status[u] /\ sessions'[u] = sessions[u] /\ chunks'[u] = chunks[u]
      /\ u \in lost' => u \in lost
      /\ \A q \in Requests \ {r} : up'[q] = up[q] /\ pc'[q] = pc[q]
      /\ up'[r] = up[r] \/ up'[r] = NoUpload
  <2> USE DEF ClientInv, TypeOK, GoTo, Return, MarkFailed, DropSession, dbVars, memVars, locals, histVars
  <2>1. ASSUME ChunkGetMutex(r) \/ ChunkLock(r) \/ ChunkDir(r) \/ ChunkTemp(r) PROVE <1>4!:
    BY <2>1 DEF ChunkGetMutex, ChunkLock, ChunkDir, ChunkTemp
  <2>2. ASSUME CompleteCreate(r) \/ CompleteMerge(r) \/ CompleteForget(r) PROVE <1>4!:
    BY <2>2 DEF CompleteCreate, CompleteMerge, CompleteForget
  <2>3. ASSUME CompleteAbort(r) \/ CompleteUpdate(r) PROVE <1>4!:
    BY <2>3 DEF CompleteAbort, CompleteUpdate
  <2>4. ASSUME GenerateRegister(r) \/ ChunkRecord(r) \/ CompleteClean(r) PROVE <1>4!:
    BY <2>4 DEF GenerateRegister, ChunkRecord, CompleteClean
  <2>5. ASSUME ChunkFail(r) \/ CompleteCreateFail(r) \/ CompleteMarkFailed(r) PROVE <1>4!:
    BY <2>5 DEF ChunkFail, CompleteCreateFail, CompleteMarkFailed
  <2>6. QED
    BY <2>1, <2>2, <2>3, <2>4, <2>5 DEF HandlerStep, HandlerLocks, HandlerGoesOn, HandlerStumbles,
       HandlerCompletes, HandlerSucceeds, HandlerFails
<1>5. QED
  BY <1>3, <1>4, MarkerAssumption DEF Apart

\* The handler's own upload: the client awaits it, or is done with the upload.
LEMMA OwnHandlerKeeps ==
  ASSUME ClientInv, NEW u \in Uploads, Smooth(u), FileSize[u] > 0, u \notin trouble',
         NEW r \in Requests, up[r] = u, HandlerStep(r) \/ HandlerLocks(r)
  PROVE  Smooth(u)'
<1> USE DEF GoTo, dbVars, memVars, locals, histVars, clientVars
<1>1. /\ pc[r] \in ChunkSteps => (via[u] = r /\ step[u] = "sending") \/ step[u] = "done"
      /\ pc[r] \in CompleteSteps => (via[u] = r /\ step[u] = "completing") \/ step[u] = "done"
      /\ pc[r] = "register" => via[u] = r /\ step[u] = "generating"
  <2>1. CASE via[u] = r
    <3>1. via[u] # NoRequest
      BY <2>1, ClientAssumption
    <3>2. Heard(u)
      BY DEF ClientInv
    <3>3. CASE step[u] = "generating"
      BY <2>1, <3>1, <3>2, <3>3 DEF Heard, ChunkSteps, CompleteSteps
    <3>4. CASE step[u] = "sending"
      BY <2>1, <3>1, <3>2, <3>4 DEF Heard, ChunkSteps, CompleteSteps
    <3>5. CASE step[u] = "completing"
      BY <2>1, <3>1, <3>2, <3>5 DEF Heard, ChunkSteps, CompleteSteps
    <3>6. step[u] \in {"generating", "sending", "completing"}
      BY <3>1, <3>2 DEF Heard
    <3>7. QED
      BY <3>3, <3>4, <3>5, <3>6
  <2>2. CASE via[u] # r
    <3>1. pc[r] # "register" /\ step[u] # "failing"
      BY <2>2 DEF Smooth
    <3>2. pc[r] \in ChunkSteps \cup CompleteSteps => step[u] \in {"failing", "done"}
      BY <2>2 DEF ClientInv, Alone
    <3>3. QED
      BY <3>1, <3>2
  <2>3. QED
    BY <2>1, <2>2
<1>2. ASSUME HandlerLocks(r) \/ HandlerGoesOn(r), pc[r] \in ChunkSteps PROVE Smooth(u)'
  <2>1. /\ UNCHANGED <<step, next, via, result, status, chunks, lost, up>>
        /\ \A q \in Requests \ {r} : pc'[q] = pc[q]
        /\ pc'[r] \in ChunkSteps
        /\ sessions'[u] # "none" \/ sessions'[u] = sessions[u]
    BY <1>2 DEF HandlerLocks, HandlerGoesOn, ChunkGetMutex, ChunkLock, ChunkDir, ChunkTemp,
       CompleteCreate, CompleteMerge, CompleteForget, ChunkSteps, ClientInv, TypeOK
  <2>2. QED
    BY <1>1, <1>2, <2>1 DEF Smooth, ChunkSteps
<1>3. ASSUME HandlerGoesOn(r), pc[r] \in CompleteSteps PROVE Smooth(u)'
  <2>1. /\ UNCHANGED <<step, next, via, result, status, chunks, lost, up>>
        /\ \A q \in Requests \ {r} : pc'[q] = pc[q]
        /\ \/ pc[r] \in {"create", "merge"} /\ pc'[r] = "merge"
           \/ pc[r] = "forget" /\ pc'[r] = "clean"
    BY <1>3 DEF HandlerGoesOn, ChunkGetMutex, ChunkDir, ChunkTemp, CompleteCreate, CompleteMerge,
       CompleteForget, CompleteSteps, ClientInv, TypeOK
  <2>2. QED
    BY <1>1, <1>3, <2>1 DEF Smooth
<1>4. ASSUME HandlerCompletes(r) PROVE Smooth(u)'
  <2>1. /\ pc[r] = "merge" /\ pc' = [pc EXCEPT ![r] = "forget"]
        /\ UNCHANGED <<step, next, via, result, sessions, chunks, lost, up>>
        /\ \/ status' = [status EXCEPT ![u] = "completed"]
           \/ u \in lost /\ UNCHANGED status
    BY <1>4 DEF HandlerCompletes, CompleteUpdate
  <2>2. (via[u] = r /\ step[u] = "completing") \/ step[u] = "done"
    BY <1>1, <2>1 DEF CompleteSteps
  <2>3. QED
    BY <2>1, <2>2 DEF Smooth, ClientInv, TypeOK
<1>5. ASSUME HandlerStumbles(r) \/ HandlerFails(r) PROVE FALSE
  BY <1>5 DEF HandlerStumbles, HandlerFails, Hear
\* The handler returns with success.
<1>6. ASSUME HandlerSucceeds(r) PROVE Smooth(u)'
  <2>1. /\ pc'[r] = "idle" /\ UNCHANGED <<status, lost>>
        /\ \A q \in Requests \ {r} : pc'[q] = pc[q] /\ up'[q] = up[q]
    BY <1>6 DEF HandlerSucceeds, GenerateRegister, ChunkRecord, CompleteClean, Return, ClientInv, TypeOK
  <2>2. Hear(r, TRUE)
    BY <1>6 DEF HandlerSucceeds
  <2>3. /\ next[u] \in Nat /\ TotalChunks[u] \in Int
        /\ \A q \in Requests : (pc'[q] = "register" /\ up'[q] = u) => q # r /\ via[u] = q
    BY <2>1, TotalAssumption DEF ClientInv, Counts, Smooth
  <2>4. CASE via[u] # r
    <3>1. step'[u] = step[u] /\ next'[u] = next[u] /\ via'[u] = via[u] /\ result'[u] = result[u]
      BY <2>2, <2>4 DEF Hear
    <3>2. step[u] = "done"
      BY <1>1, <1>6, <2>4 DEF HandlerSucceeds, GenerateRegister, ChunkRecord, CompleteClean,
         ChunkSteps, CompleteSteps
    <3>3. QED
      BY <2>1, <2>3, <3>1, <3>2 DEF Smooth
  <2>5. CASE via[u] = r /\ GenerateRegister(r)
    <3>1. step[u] = "generating"
      BY <1>1, <2>5 DEF GenerateRegister
    <3>2. /\ step'[u] = "sending" /\ via'[u] = NoRequest
          /\ next'[u] = 0 /\ status[u] = "pending"
      BY <2>2, <2>5, <3>1 DEF Hear, Smooth
    <3>3. sessions'[u] = "new" /\ chunks'[u] = NoChunks
      BY <2>5 DEF GenerateRegister, ClientInv, TypeOK
    <3>4. 0 < TotalChunks[u]
      <4>1. FileSize[u] \in Nat /\ 0 * ChunkBytes < FileSize[u] /\ TotalChunks[u] = GetTotalChunks(FileSize[u])
        BY SizeAssumption
      <4>2. QED
        BY <4>1, ChunksCounted
    <3>5. \A i \in Indexes : chunks'[u][i] = NoFile /\ ~(0 <= i /\ i < 0)
      BY <3>3, IndexAssumption DEF NoChunks
    <3>6. u \notin lost
      BY <3>1 DEF Smooth
    <3>7. QED
      BY <2>1, <2>3, <2>5, <3>2, <3>3, <3>4, <3>5, <3>6 DEF Smooth
  <2>6. CASE via[u] = r /\ ChunkRecord(r)
    <3>1. pc[r] = "copy" /\ step[u] = "sending" /\ ix[r] = next[u] /\ next[u] < TotalChunks[u]
      <4>1. pc[r] = "copy"
        BY <2>6 DEF ChunkRecord
      <4>2. via[u] # NoRequest
        BY <2>6, ClientAssumption
      <4>3. QED
        BY <2>6, <4>1, <4>2 DEF ClientInv, Heard, Smooth, ChunkSteps, CompleteSteps
    <3>2. /\ step'[u] = "sending" /\ via'[u] = NoRequest /\ next'[u] = next[u] + 1
      BY <2>2, <2>6, <3>1 DEF Hear, ClientInv
    <3>3. PICK f \in ChunkFiles : chunks' = [chunks EXCEPT ![u][next[u]] = f]
      BY <2>6, <3>1 DEF ChunkRecord, ClientInv, TypeOK
    <3>4. next[u] \in Indexes
      <4>1. next[u] \in 0 .. (TotalChunks[u] - 1)
        BY <2>3, <3>1
      <4>2. QED
        BY <4>1, IndexesCoverTotals
    <3>5. \A i \in Indexes : chunks'[u][i] = IF i = next[u] THEN f ELSE chunks[u][i]
      BY <3>3, <3>4 DEF ClientInv, TypeOK
    <3>6. \A i \in Indexes : chunks'[u][i] # NoFile <=> 0 <= i /\ i < next[u] + 1
      <4>1. \A i \in Indexes : chunks[u][i] # NoFile <=> 0 <= i /\ i < next[u]
        BY <3>1 DEF Smooth
      <4>2. f # NoFile
        BY MarkerAssumption
      <4>3. \A i \in Indexes : i \in Int
        BY IndexAssumption
      <4>4. ASSUME NEW i \in Indexes PROVE chunks'[u][i] # NoFile <=> 0 <= i /\ i < next[u] + 1
        <5>1. i \in Int
          BY <4>3
        <5>2. (0 <= i /\ i < next[u] + 1) <=> (i = next[u] \/ (0 <= i /\ i < next[u]))
          BY <2>3, <5>1
        <5>3. CASE i = next[u]
          BY <3>5, <4>2, <5>2, <5>3
        <5>4. CASE i # next[u]
          BY <3>5, <4>1, <5>2, <5>4
        <5>5. QED
          BY <5>3, <5>4
      <4>5. QED
        BY <4>4
    <3>7. /\ sessions'[u] # "none" /\ status[u] = "pending" /\ u \notin lost
          /\ next[u] + 1 <= TotalChunks[u]
      <4>1. UNCHANGED sessions
        BY <2>6 DEF ChunkRecord
      <4>2. QED
        BY <2>3, <3>1, <4>1 DEF Smooth
    <3>8. QED
      BY <2>1, <2>3, <2>6, <3>2, <3>6, <3>7 DEF Smooth
  <2>7. CASE via[u] = r /\ CompleteClean(r)
    <3>1. pc[r] = "clean" /\ step[u] = "completing"
      BY <1>1, <2>7, ClientAssumption DEF CompleteClean, ClientInv, Heard, CompleteSteps
    <3>2. /\ step'[u] = "done" /\ via'[u] = NoRequest /\ result'[u] = "shown"
          /\ status[u] = "completed"
      BY <2>2, <2>7, <3>1 DEF Hear, Smooth
    <3>3. QED
      BY <2>1, <2>3, <2>7, <3>2 DEF Smooth
  <2>8. QED
    BY <1>6, <2>4, <2>5, <2>6, <2>7 DEF HandlerSucceeds
<1>7. pc[r] \in ChunkSteps \cup CompleteSteps \/ ~HandlerGoesOn(r)
  BY DEF HandlerGoesOn, ChunkGetMutex, ChunkDir, ChunkTemp, CompleteCreate, CompleteMerge,
     CompleteForget, ChunkSteps, CompleteSteps
<1>8. HandlerLocks(r) => pc[r] \in ChunkSteps
  BY DEF HandlerLocks, ChunkLock, ChunkSteps
<1>9. QED
  BY <1>2, <1>3, <1>4, <1>5, <1>6, <1>7, <1>8 DEF HandlerStep

LEMMA SmoothHolds == ClientSpec => []SmoothInv
<1>1. ClientInit => SmoothInv
  BY DEF ClientInit, Init, SmoothInv, Smooth
<1>2. ClientInv /\ SmoothInv /\ [ClientNext]_systemVars => SmoothInv'
  <2> SUFFICES ASSUME ClientInv, SmoothInv, [ClientNext]_systemVars,
                      NEW u \in Uploads, u \notin trouble', FileSize[u] > 0
               PROVE  Smooth(u)'
    BY DEF SmoothInv
  <2>1. u \notin trouble
    BY DEF ClientNext, StartUpload, RejectUpload, LoseConnection, ClientStep, SendChunk, SendComplete,
       ChunkRefused, CompleteRefused, FailUpload, AskDownload, HandlerStep, HandlerLocks, HandlerGoesOn,
       HandlerStumbles, HandlerCompletes, HandlerSucceeds, HandlerFails, Hear, OpenDownload,
       CopyDownload, EndDownload, ServerCrash, clientVars, systemVars
  <2>2. Smooth(u)
    BY <2>1 DEF SmoothInv
  <2>3. ASSUME NEW v \in Uploads,
               \/ \E r \in Requests : StartUpload(v, r)
               \/ RejectUpload(v) \/ LoseConnection(v) \/ ClientStep(v) \/ AskDownload(v)
        PROVE  Smooth(u)'
    BY <2>2, <2>3, ClientStepsKeep
  <2>4. ASSUME NEW r \in Requests, HandlerStep(r) \/ HandlerLocks(r) PROVE Smooth(u)'
    BY <2>2, <2>4, OwnHandlerKeeps, HandlerStaysApart, ApartKeeps
  <2>5. CASE ServerCrash
    <3>1. step[u] \in {"ready", "done"} /\ via[u] = NoRequest
      BY <2>5 DEF ServerCrash, ClientInv, Heard
    <3>2. step'[u] = step[u] /\ via'[u] = NoRequest /\ UNCHANGED <<next, result, status>>
      BY <2>5, <3>1 DEF ServerCrash, Crash, dbVars
    <3>3. step[u] = "ready" => u \notin lost'
      BY <2>2, <2>5 DEF Smooth, ServerCrash, Crash
    <3>4. \A r \in Requests : pc'[r] = "idle"
      BY <2>5 DEF ServerCrash, Crash
    <3>5. QED
      BY <2>2, <3>1, <3>2, <3>3, <3>4 DEF Smooth
  <2>6. CASE OpenDownload \/ CopyDownload \/ EndDownload \/ UNCHANGED systemVars
    <3>1. Apart(u)
      BY <2>6 DEF OpenDownload, CopyDownload, EndDownload, systemVars, clientVars, vars, Apart
    <3>2. QED
      BY <2>2, <3>1, ApartKeeps
  <2>7. QED
    BY <2>3, <2>4, <2>5, <2>6 DEF ClientNext
<1>3. QED
  BY <1>1, <1>2, ClientInvHolds, PTL DEF ClientSpec

\* An upload that meets no failure ends completed and shown, for files of any size but
\* the empty ones: none of the server's checks turns one of its calls away.
THEOREM ClientCompletes == ClientSpec => []UntroubledCompletes
<1>1. SmoothInv => UntroubledCompletes
  BY DEF SmoothInv, Smooth, UntroubledCompletes
<1>2. QED
  BY <1>1, SmoothHolds, PTL
=============================================================================
