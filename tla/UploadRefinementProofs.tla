----------------------- MODULE UploadRefinementProofs ------------------------
(***************************************************************************)
(* The upload handlers implement UploadPromise, for every number of        *)
(* uploads, requests and chunks, when clients await their answers.         *)
(***************************************************************************)
EXTENDS UploadRefinement, UploadSessionProofs

\* What one step may do to the rows: insert one, mark one failed, complete one.
RowStep ==
  \/ UNCHANGED status
  \/ \E u \in Uploads :
       \/ /\ status[u] = "none"
          /\ IndexFree(u)
          /\ status' = [status EXCEPT ![u] = "pending"]
       \/ /\ status[u] # "none"
          /\ status' = [status EXCEPT ![u] = "failed"]
       \/ /\ status[u] \in {"pending", "failed"}
          /\ IndexFree(u)
          /\ status' = [status EXCEPT ![u] = "completed"]

\* A request only writes the row of its own upload, which exists by then, and
\* only the index decides whether it may become pending or completed.
LEMMA RowSteps ==
  ASSUME TypeOK, RowFirst, Finished, [Next]_vars PROVE RowStep
<1> USE DEF RowStep, RowFirst, Finished, TypeOK, Busy, Steps, ChunkSteps, CompleteSteps, LockedSteps,
           dbVars
<1>1. ASSUME NEW r \in Requests, NEW u \in Uploads, GenerateInsert(r, u) PROVE RowStep
  BY <1>1 DEF GenerateInsert, GoTo
<1>2. ASSUME NEW r \in Requests, NEW u \in Uploads, NEW i \in Indexes, ChunkAdmit(r, u, i) PROVE RowStep
  BY <1>2 DEF ChunkAdmit, Serve, GoTo
<1>3. ASSUME NEW r \in Requests, NEW u \in Uploads, CompleteAdmit(r, u) PROVE RowStep
  BY <1>3 DEF CompleteAdmit, Serve, GoTo
<1>4. ASSUME NEW r \in Requests, NEW u \in Uploads, FailAdmit(r, u) PROVE RowStep
  BY <1>4 DEF FailAdmit, Serve, GoTo
<1>5. ASSUME NEW r \in Requests, GenerateRegister(r) PROVE RowStep
  BY <1>5 DEF GenerateRegister, Return
<1>6. ASSUME NEW r \in Requests, ChunkGetMutex(r) PROVE RowStep
  BY <1>6 DEF ChunkGetMutex, GoTo
<1>7. ASSUME NEW r \in Requests, ChunkLock(r) PROVE RowStep
  BY <1>7 DEF ChunkLock, GoTo
<1>8. ASSUME NEW r \in Requests, ChunkDir(r) PROVE RowStep
  BY <1>8 DEF ChunkDir, GoTo
<1>9. ASSUME NEW r \in Requests, ChunkTemp(r) PROVE RowStep
  BY <1>9 DEF ChunkTemp, GoTo
<1>10. ASSUME NEW r \in Requests, ChunkRecord(r) PROVE RowStep
  BY <1>10 DEF ChunkRecord, Return
<1>11. ASSUME NEW r \in Requests, ChunkFail(r) PROVE RowStep
  BY <1>11 DEF ChunkFail, Return, MarkFailed
<1>12. ASSUME NEW r \in Requests, CompleteCreate(r) PROVE RowStep
  BY <1>12 DEF CompleteCreate, GoTo
<1>13. ASSUME NEW r \in Requests, CompleteCreateFail(r) PROVE RowStep
  BY <1>13 DEF CompleteCreateFail, Return, MarkFailed
<1>14. ASSUME NEW r \in Requests, CompleteMerge(r) PROVE RowStep
  BY <1>14 DEF CompleteMerge
<1>15. ASSUME NEW r \in Requests, CompleteAbort(r) PROVE RowStep
  BY <1>15 DEF CompleteAbort, GoTo
<1>16. ASSUME NEW r \in Requests, CompleteMarkFailed(r) PROVE RowStep
  BY <1>16 DEF CompleteMarkFailed, Return, MarkFailed
<1>17. ASSUME NEW r \in Requests, CompleteUpdate(r) PROVE RowStep
  <2>1. /\ pc[r] = "merge"
        /\ \/ UNCHANGED status
           \/ /\ IndexFree(up[r])
              /\ status' = [status EXCEPT ![up[r]] = "completed"]
    BY <1>17 DEF CompleteUpdate
  <2>2. up[r] \in Uploads /\ status[up[r]] \in {"pending", "failed"}
    BY <2>1 DEF Statuses
  <2>3. QED
    BY <2>1, <2>2
<1>18. ASSUME NEW r \in Requests, CompleteForget(r) PROVE RowStep
  BY <1>18 DEF CompleteForget, GoTo
<1>19. ASSUME NEW r \in Requests, CompleteClean(r) PROVE RowStep
  BY <1>19 DEF CompleteClean, Return
<1>20. ASSUME NEW r \in Requests, FailMark(r) PROVE RowStep
  BY <1>20 DEF FailMark, Return, GoTo
<1>21. ASSUME NEW r \in Requests, FailDrop(r) PROVE RowStep
  BY <1>21 DEF FailDrop, Return
<1>22. ASSUME Crash PROVE RowStep
  BY <1>22 DEF Crash
<1>23. ASSUME UNCHANGED vars PROVE RowStep
  BY <1>23 DEF vars
<1>24. QED
  BY <1>1, <1>2, <1>3, <1>4, <1>5, <1>6, <1>7, <1>8, <1>9, <1>10, <1>11, <1>12,
     <1>13, <1>14, <1>15, <1>16, <1>17, <1>18, <1>19, <1>20, <1>21, <1>22, <1>23
  DEF Next, Arrive, Work

\* As long as completed files are whole, what the owner sees is the status.
StatusOffer(s) ==
  CASE s = "none" -> "absent"
    [] s = "pending" -> "uploading"
    [] s = "failed" -> "failed"
    [] s = "completed" -> "available"

LEMMA OfferByStatus ==
  ASSUME TypeOK, CompletedIsWhole
  PROVE  [u \in Uploads |-> Offer(u)] = [u \in Uploads |-> StatusOffer(status[u])]
  BY DEF TypeOK, Statuses, CompletedIsWhole, Offer, StatusOffer

\* One row moves: the owner sees one file move.
LEMMA OfferMoves ==
  ASSUME NEW old \in [Uploads -> Statuses], NEW u \in Uploads, NEW s \in Statuses
  PROVE  [v \in Uploads |-> StatusOffer([old EXCEPT ![u] = s][v])]
           = [[v \in Uploads |-> StatusOffer(old[v])] EXCEPT ![u] = StatusOffer(s)]
  OBVIOUS

\* Every handler step and every crash is a step of UploadPromise or changes
\* nothing of what the owner sees.
THEOREM KeepsPromise ==
  ASSUME Awaits PROVE Spec => PromiseKept
<1> DEFINE offer == [u \in Uploads |-> Offer(u)]
<1>1. Init => Promise!Init
  BY DEF Init, Promise!Init, Offer
<1>2. /\ TypeOK /\ RowFirst /\ Finished /\ CompletedIsWhole /\ [Next]_vars
      /\ TypeOK' /\ CompletedIsWhole'
      => [Promise!Next]_offer
  <2> SUFFICES ASSUME TypeOK, RowFirst, Finished, CompletedIsWhole, [Next]_vars,
                      TypeOK', CompletedIsWhole'
               PROVE  Promise!Next \/ UNCHANGED offer
    OBVIOUS
  <2>1. offer = [u \in Uploads |-> StatusOffer(status[u])]
    BY OfferByStatus
  <2>2. offer' = [u \in Uploads |-> StatusOffer(status'[u])]
    BY DEF TypeOK, Statuses, CompletedIsWhole, Offer, StatusOffer
  <2>3. \A u \in Uploads : IndexFree(u) => Promise!NameFree(u)
    BY <2>1 DEF IndexFree, Promise!NameFree, TypeOK, Statuses, StatusOffer
  <2>4. CASE UNCHANGED status
    BY <2>1, <2>2, <2>4
  <2>5. ASSUME NEW u \in Uploads, status[u] = "none", IndexFree(u),
               status' = [status EXCEPT ![u] = "pending"]
        PROVE  Promise!Begin(u)
    <3>1. offer' = [offer EXCEPT ![u] = "uploading"]
      <4>1. StatusOffer("pending") = "uploading"
        BY DEF StatusOffer
      <4>2. status \in [Uploads -> Statuses] /\ "pending" \in Statuses
        BY DEF TypeOK, Statuses
      <4>3. [v \in Uploads |-> StatusOffer([status EXCEPT ![u] = "pending"][v])]
              = [[v \in Uploads |-> StatusOffer(status[v])] EXCEPT ![u] = "uploading"]
        BY <4>1, <4>2, OfferMoves
      <4>4. QED
        BY <2>1, <2>2, <2>5, <4>3
    <3>2. offer[u] = "absent" /\ Promise!NameFree(u)
      BY <2>1, <2>3, <2>5 DEF StatusOffer
    <3>3. QED
      BY <3>1, <3>2 DEF Promise!Begin
  <2>6. ASSUME NEW u \in Uploads, status[u] # "none",
               status' = [status EXCEPT ![u] = "failed"]
        PROVE  Promise!GiveUp(u) \/ UNCHANGED offer
    <3>1. CASE status[u] = "failed"
      <4>1. status' = status
        BY <2>6, <3>1 DEF TypeOK
      <4>2. QED
        BY <2>1, <2>2, <4>1
    <3>2. CASE status[u] \in {"pending", "completed"}
      <4>1. offer' = [offer EXCEPT ![u] = "failed"]
        <5>1. StatusOffer("failed") = "failed"
          BY DEF StatusOffer
        <5>2. status \in [Uploads -> Statuses] /\ "failed" \in Statuses
          BY DEF TypeOK, Statuses
        <5>3. [v \in Uploads |-> StatusOffer([status EXCEPT ![u] = "failed"][v])]
                = [[v \in Uploads |-> StatusOffer(status[v])] EXCEPT ![u] = "failed"]
          BY <5>1, <5>2, OfferMoves
        <5>4. QED
          BY <2>1, <2>2, <2>6, <5>3
      <4>2. offer[u] \in {"uploading", "available"}
        BY <2>1, <3>2 DEF StatusOffer
      <4>3. QED
        BY <4>1, <4>2 DEF Promise!GiveUp
    <3>3. QED
      BY <2>6, <3>1, <3>2 DEF TypeOK, Statuses
  <2>7. ASSUME NEW u \in Uploads, status[u] \in {"pending", "failed"}, IndexFree(u),
               status' = [status EXCEPT ![u] = "completed"]
        PROVE  Promise!Publish(u)
    <3>1. offer' = [offer EXCEPT ![u] = "available"]
      <4>1. StatusOffer("completed") = "available"
        BY DEF StatusOffer
      <4>2. status \in [Uploads -> Statuses] /\ "completed" \in Statuses
        BY DEF TypeOK, Statuses
      <4>3. [v \in Uploads |-> StatusOffer([status EXCEPT ![u] = "completed"][v])]
              = [[v \in Uploads |-> StatusOffer(status[v])] EXCEPT ![u] = "available"]
        BY <4>1, <4>2, OfferMoves
      <4>4. QED
        BY <2>1, <2>2, <2>7, <4>3
    <3>2. offer[u] \in {"uploading", "failed"} /\ Promise!NameFree(u)
      BY <2>1, <2>3, <2>7 DEF StatusOffer
    <3>3. QED
      BY <3>1, <3>2 DEF Promise!Publish
  <2>8. RowStep
    BY RowSteps
  <2>9. QED
    BY <2>4, <2>5, <2>6, <2>7, <2>8 DEF RowStep, Promise!Next
<1>3. Spec => []CompletedIsWhole
  BY CompletedFilesWhole
<1>4. Spec => []Finished
  BY FinishedHolds, OneAtATimeHolds
<1>5. QED
  BY <1>1, <1>2, <1>3, <1>4, TypeCorrect, RowFirstHolds, PTL DEF Spec, PromiseKept, Promise!Spec
=============================================================================
