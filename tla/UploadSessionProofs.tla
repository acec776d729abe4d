------------------------- MODULE UploadSessionProofs --------------------------
(***************************************************************************)
(* Theorems about UploadSession, for every set of uploads, requests,       *)
(* mutexes, chunk indexes and names, and every number of chunks.           *)
(***************************************************************************)
EXTENDS UploadSession, TLAPS

\* Every variable keeps its type through every handler step and crash.
THEOREM TypeCorrect == Spec => []TypeOK
<1>1. Init => TypeOK
  BY CrashAssumption DEF Init, TypeOK, NoChunks, Steps, Statuses, ChunkSteps, CompleteSteps, LockedSteps
<1>2. TypeOK /\ [Next]_vars => TypeOK'
  <2> SUFFICES ASSUME TypeOK, [Next]_vars PROVE TypeOK'
    OBVIOUS
  <2> USE DEF TypeOK, Steps, ChunkSteps, CompleteSteps, LockedSteps, Statuses,
              dbVars, memVars, locals, histVars
  <2>1. ASSUME NEW r \in Requests, NEW u \in Uploads, GenerateInsert(r, u) PROVE TypeOK'
    BY <2>1 DEF GenerateInsert, GoTo
  <2>2. ASSUME NEW r \in Requests, NEW u \in Uploads, NEW i \in Indexes, ChunkAdmit(r, u, i)
        PROVE TypeOK'
    BY <2>2, IndexAssumption DEF ChunkAdmit, Serve, GoTo
  <2>3. ASSUME NEW r \in Requests, NEW u \in Uploads, CompleteAdmit(r, u) PROVE TypeOK'
    BY <2>3 DEF CompleteAdmit, Serve, GoTo
  <2>4. ASSUME NEW r \in Requests, NEW u \in Uploads, FailAdmit(r, u) PROVE TypeOK'
    BY <2>4 DEF FailAdmit, Serve, GoTo
  <2>5. ASSUME NEW r \in Requests, GenerateRegister(r) PROVE TypeOK'
    BY <2>5 DEF GenerateRegister, Return, NoChunks
  <2>6. ASSUME NEW r \in Requests, ChunkGetMutex(r) PROVE TypeOK'
    <3>1. CASE mutexOf[up[r]] # NoMutex
      BY <2>6, <3>1 DEF ChunkGetMutex, GoTo
    <3>2. CASE mutexOf[up[r]] = NoMutex
      <4>1. PICK m \in Mutexes : /\ mutexOf' = [mutexOf EXCEPT ![up[r]] = m]
                                 /\ mutex' = [mutex EXCEPT ![r] = m]
        BY <2>6, <3>2 DEF ChunkGetMutex, NewMutexes
      <4>2. QED
        BY <2>6, <4>1 DEF ChunkGetMutex, GoTo
    <3>3. QED
      BY <3>1, <3>2
  <2>7. ASSUME NEW r \in Requests, ChunkLock(r) PROVE TypeOK'
    BY <2>7 DEF ChunkLock, GoTo
  <2>8. ASSUME NEW r \in Requests, ChunkDir(r) PROVE TypeOK'
    BY <2>8 DEF ChunkDir, GoTo
  <2>9. ASSUME NEW r \in Requests, ChunkTemp(r) PROVE TypeOK'
    BY <2>9 DEF ChunkTemp, GoTo, ChunkFiles
  <2>10. ASSUME NEW r \in Requests, ChunkRecord(r) PROVE TypeOK'
    BY <2>10 DEF ChunkRecord, Return, Unlock
  <2>11. ASSUME NEW r \in Requests, ChunkFail(r) PROVE TypeOK'
    <3>1. disk' \in [ChunkFiles -> {"none", "partial", "whole"}]
      BY <2>11 DEF ChunkFail
    <3>2. status' \in [Uploads -> Statuses]
      BY <2>11 DEF ChunkFail, MarkFailed
    <3>3. QED
      BY <2>11, <3>1, <3>2 DEF ChunkFail, Return, Unlock
  <2>12. ASSUME NEW r \in Requests, CompleteCreate(r) PROVE TypeOK'
    <3>1. NoChunks \in Contents
      BY DEF NoChunks, Contents
    <3>2. QED
      BY <2>12, <3>1, MarkerAssumption DEF CompleteCreate, GoTo
  <2>13. ASSUME NEW r \in Requests, CompleteCreateFail(r) PROVE TypeOK'
    BY <2>13 DEF CompleteCreateFail, Return, MarkFailed
  <2>14. ASSUME NEW r \in Requests, CompleteMerge(r) PROVE TypeOK'
    <3>1. /\ up[r] \in Uploads
          /\ chunks[up[r]][ix[r]] # NoFile
          /\ ix[r] \in Indexes
          /\ chunks[up[r]][ix[r]] \in ChunkFiles
      <4>1. ix[r] \in 0 .. (TotalChunks[up[r]] - 1)
        <5>1. pc[r] = "merge" /\ ix[r] < TotalChunks[up[r]]
          BY <2>14 DEF CompleteMerge
        <5>2. up[r] \in Uploads /\ ix[r] \in Nat
          BY <5>1
        <5>3. TotalChunks[up[r]] \in Int
          BY <5>2, TotalAssumption
        <5>4. QED
          BY <5>1, <5>2, <5>3
      <4>2. up[r] \in Uploads /\ ix[r] \in Indexes
        BY <2>14, <4>1, IndexesCoverTotals DEF CompleteMerge
      <4>3. chunks[up[r]][ix[r]] \in ChunkFiles \cup {NoFile}
        BY <4>2
      <4>4. QED
        BY <2>14, <4>2, <4>3 DEF CompleteMerge
    <3>2. PICK x \in ChunkFiles \cup {NoFile, Torn} :
            \/ UNCHANGED stored
            \/ /\ r \in attached
               /\ stored' = [stored EXCEPT ![up[r]] = [stored[up[r]] EXCEPT ![ix[r]] = x]]
      BY <2>14, <3>1 DEF CompleteMerge
    <3>3. /\ stored' \in [Uploads -> {NoFile} \cup Contents]
          /\ \A q \in attached : stored'[up[q]] # NoFile
      <4>1. CASE UNCHANGED stored
        BY <4>1
      <4>2. CASE ~ UNCHANGED stored
        <5>1. stored[up[r]] \in Contents
          BY <3>1, <3>2, <4>2
        <5>2. [stored[up[r]] EXCEPT ![ix[r]] = x] \in Contents
          BY <3>1, <5>1 DEF Contents
        <5>3. [stored[up[r]] EXCEPT ![ix[r]] = x] # NoFile
          BY <5>2, MarkerAssumption
        <5>4. stored' = [stored EXCEPT ![up[r]] = [stored[up[r]] EXCEPT ![ix[r]] = x]]
          BY <3>2, <4>2
        <5> HIDE DEF TypeOK
        <5>5. \A u \in Uploads : stored[u] # NoFile => stored'[u] # NoFile
          BY <5>3, <5>4 DEF TypeOK
        <5>6. QED
          BY <3>1, <5>2, <5>4, <5>5 DEF TypeOK
      <4>3. QED
        BY <4>1, <4>2
    <3>4. files' \in [Requests -> SUBSET ChunkFiles]
      BY <2>14, <3>1 DEF CompleteMerge
    <3>5. ix' \in [Requests -> Int] /\ ix'[r] \in Nat
      <4>1. pc[r] = "merge" /\ ix' = [ix EXCEPT ![r] = ix[r] + 1]
        BY <2>14 DEF CompleteMerge
      <4>2. ix[r] \in Nat
        BY <4>1
      <4>3. QED
        BY <4>1, <4>2
    <3>6. \A q \in Requests \ {r} : ix'[q] = ix[q] /\ files'[q] = files[q]
      BY <2>14 DEF CompleteMerge
    <3>7. pc[r] = "merge"
      BY <2>14 DEF CompleteMerge
    <3>8. UNCHANGED <<status, disk, sessions, chunks, mutexOf, locked, pc, up,
                      dirSeen, mutex, attached, crashes, lost>>
      BY <2>14 DEF CompleteMerge
    <3>9. QED
      BY <3>3, <3>4, <3>5, <3>6, <3>7, <3>8
  <2>15. ASSUME NEW r \in Requests, CompleteAbort(r) PROVE TypeOK'
    BY <2>15 DEF CompleteAbort, GoTo
  <2>16. ASSUME NEW r \in Requests, CompleteMarkFailed(r) PROVE TypeOK'
    BY <2>16 DEF CompleteMarkFailed, MarkFailed, Return
  <2>17. ASSUME NEW r \in Requests, CompleteUpdate(r) PROVE TypeOK'
    BY <2>17 DEF CompleteUpdate, GoTo
  <2>18. ASSUME NEW r \in Requests, CompleteForget(r) PROVE TypeOK'
    BY <2>18 DEF CompleteForget, DropSession, GoTo
  <2>19. ASSUME NEW r \in Requests, CompleteClean(r) PROVE TypeOK'
    BY <2>19 DEF CompleteClean, Return
  <2>20. ASSUME NEW r \in Requests, FailMark(r) PROVE TypeOK'
    <3>1. CASE Return(r) /\ UNCHANGED status
      BY <2>20, <3>1 DEF FailMark, Return
    <3>2. CASE /\ status' = [status EXCEPT ![up[r]] = "failed"]
               /\ GoTo(r, "drop")
               /\ UNCHANGED <<up, ix, dirSeen, mutex, files, attached>>
      BY <2>20, <3>2 DEF FailMark, GoTo
    <3>3. QED
      BY <2>20, <3>1, <3>2 DEF FailMark
  <2>21. ASSUME NEW r \in Requests, FailDrop(r) PROVE TypeOK'
    <3>1. CASE DropSession(up[r])
      BY <2>21, <3>1 DEF FailDrop, DropSession, Return
    <3>2. CASE UNCHANGED <<mutexOf, sessions>>
      BY <2>21, <3>2 DEF FailDrop, Return
    <3>3. QED
      BY <2>21, <3>1, <3>2 DEF FailDrop
  <2>22. ASSUME Crash PROVE TypeOK'
    BY <2>22, CrashAssumption DEF Crash, NoChunks
  <2>23. ASSUME UNCHANGED vars PROVE TypeOK'
    BY <2>23 DEF vars
  <2>24. QED
    BY <2>1, <2>2, <2>3, <2>4, <2>5, <2>6, <2>7, <2>8, <2>9, <2>10, <2>11, <2>12, <2>13,
       <2>14, <2>15, <2>16, <2>17, <2>18, <2>19, <2>20, <2>21, <2>22, <2>23
    DEF Next, Arrive, Work
<1>3. QED
  BY <1>1, <1>2, PTL DEF Spec

-----------------------------------------------------------------------------
(* A row comes before everything else an upload has. *)

RowFirst ==
  /\ \A u \in Uploads : sessions[u] # "none" => status[u] # "none"
  /\ \A r \in Requests : pc[r] # "idle" => status[up[r]] # "none"

LEMMA RowFirstHolds == Spec => []RowFirst
<1>1. Init => RowFirst
  BY DEF Init, RowFirst
<1>2. TypeOK /\ RowFirst /\ [Next]_vars => RowFirst'
  <2> SUFFICES ASSUME TypeOK, RowFirst, [Next]_vars PROVE RowFirst'
    OBVIOUS
  <2> USE DEF RowFirst, TypeOK, dbVars, memVars, locals, histVars
  <2>1. ASSUME NEW r \in Requests, NEW u \in Uploads, GenerateInsert(r, u) PROVE RowFirst'
    BY <2>1 DEF GenerateInsert, GoTo
  <2>2. ASSUME NEW r \in Requests, NEW u \in Uploads, NEW i \in Indexes, ChunkAdmit(r, u, i) PROVE RowFirst'
    BY <2>2 DEF ChunkAdmit, Serve, GoTo
  <2>3. ASSUME NEW r \in Requests, NEW u \in Uploads, CompleteAdmit(r, u) PROVE RowFirst'
    BY <2>3 DEF CompleteAdmit, Serve, GoTo
  <2>4. ASSUME NEW r \in Requests, NEW u \in Uploads, FailAdmit(r, u) PROVE RowFirst'
    BY <2>4 DEF FailAdmit, Serve, GoTo
  <2>5. ASSUME NEW r \in Requests, GenerateRegister(r) PROVE RowFirst'
    BY <2>5 DEF GenerateRegister, Return
  <2>6. ASSUME NEW r \in Requests, ChunkGetMutex(r) PROVE RowFirst'
    BY <2>6 DEF ChunkGetMutex, GoTo
  <2>7. ASSUME NEW r \in Requests, ChunkLock(r) PROVE RowFirst'
    BY <2>7 DEF ChunkLock, GoTo
  <2>8. ASSUME NEW r \in Requests, ChunkDir(r) PROVE RowFirst'
    BY <2>8 DEF ChunkDir, GoTo
  <2>9. ASSUME NEW r \in Requests, ChunkTemp(r) PROVE RowFirst'
    BY <2>9 DEF ChunkTemp, GoTo
  <2>10. ASSUME NEW r \in Requests, ChunkRecord(r) PROVE RowFirst'
    BY <2>10 DEF ChunkRecord, Return
  <2>11. ASSUME NEW r \in Requests, ChunkFail(r) PROVE RowFirst'
    BY <2>11 DEF ChunkFail, Return, MarkFailed
  <2>12. ASSUME NEW r \in Requests, CompleteCreate(r) PROVE RowFirst'
    BY <2>12 DEF CompleteCreate, GoTo
  <2>13. ASSUME NEW r \in Requests, CompleteCreateFail(r) PROVE RowFirst'
    BY <2>13 DEF CompleteCreateFail, Return, MarkFailed
  <2>14. ASSUME NEW r \in Requests, CompleteMerge(r) PROVE RowFirst'
    BY <2>14 DEF CompleteMerge
  <2>15. ASSUME NEW r \in Requests, CompleteAbort(r) PROVE RowFirst'
    BY <2>15 DEF CompleteAbort, GoTo
  <2>16. ASSUME NEW r \in Requests, CompleteMarkFailed(r) PROVE RowFirst'
    BY <2>16 DEF CompleteMarkFailed, Return, MarkFailed
  <2>17. ASSUME NEW r \in Requests, CompleteUpdate(r) PROVE RowFirst'
    BY <2>17 DEF CompleteUpdate, GoTo
  <2>18. ASSUME NEW r \in Requests, CompleteForget(r) PROVE RowFirst'
    BY <2>18 DEF CompleteForget, GoTo, DropSession
  <2>19. ASSUME NEW r \in Requests, CompleteClean(r) PROVE RowFirst'
    BY <2>19 DEF CompleteClean, Return
  <2>20. ASSUME NEW r \in Requests, FailMark(r) PROVE RowFirst'
    <3>1. CASE Return(r) /\ UNCHANGED status
      BY <2>20, <3>1 DEF FailMark, Return
    <3>2. CASE /\ status' = [status EXCEPT ![up[r]] = "failed"]
               /\ GoTo(r, "drop")
               /\ UNCHANGED <<up, locals>>
      BY <2>20, <3>2 DEF FailMark, GoTo
    <3>3. QED
      BY <2>20, <3>1, <3>2 DEF FailMark
  <2>21. ASSUME NEW r \in Requests, FailDrop(r) PROVE RowFirst'
    BY <2>21 DEF FailDrop, Return, DropSession
  <2>22. ASSUME Crash PROVE RowFirst'
    BY <2>22 DEF Crash
  <2>23. ASSUME UNCHANGED vars PROVE RowFirst'
    BY <2>23 DEF vars
  <2>24. QED
    BY <2>1, <2>2, <2>3, <2>4, <2>5, <2>6, <2>7, <2>8, <2>9, <2>10, <2>11, <2>12,
       <2>13, <2>14, <2>15, <2>16, <2>17, <2>18, <2>19, <2>20, <2>21, <2>22, <2>23
    DEF Next, Arrive, Work
<1>3. QED
  BY <1>1, <1>2, TypeCorrect, PTL DEF Spec
-----------------------------------------------------------------------------
(* A pending row is served.  The invariant adds what the steps that delete a
   session know: the row they leave behind is not pending, or it is lost. *)

PendingInv ==
  /\ PendingIsServed
  /\ \A r \in Requests : pc[r] = "drop" => status[up[r]] # "pending"
  /\ \A r \in Requests :
       pc[r] = "forget" => (status[up[r]] # "pending" \/ up[r] \in lost)

LEMMA PendingInvHolds == Spec => []PendingInv
<1>1. Init => PendingInv
  BY DEF Init, PendingInv, PendingIsServed
<1>2. TypeOK /\ RowFirst /\ PendingInv /\ [Next]_vars => PendingInv'
  <2> SUFFICES ASSUME TypeOK, RowFirst, PendingInv, [Next]_vars PROVE PendingInv'
    OBVIOUS
  <2> USE DEF PendingInv, PendingIsServed, RowFirst, TypeOK, dbVars, memVars, locals, histVars
  <2>1. ASSUME NEW r \in Requests, NEW u \in Uploads, GenerateInsert(r, u) PROVE PendingInv'
    BY <2>1 DEF GenerateInsert, GoTo
  <2>2. ASSUME NEW r \in Requests, NEW u \in Uploads, NEW i \in Indexes, ChunkAdmit(r, u, i) PROVE PendingInv'
    BY <2>2 DEF ChunkAdmit, Serve, GoTo
  <2>3. ASSUME NEW r \in Requests, NEW u \in Uploads, CompleteAdmit(r, u) PROVE PendingInv'
    BY <2>3 DEF CompleteAdmit, Serve, GoTo
  <2>4. ASSUME NEW r \in Requests, NEW u \in Uploads, FailAdmit(r, u) PROVE PendingInv'
    BY <2>4 DEF FailAdmit, Serve, GoTo
  <2>5. ASSUME NEW r \in Requests, GenerateRegister(r) PROVE PendingInv'
    BY <2>5 DEF GenerateRegister, Return
  <2>6. ASSUME NEW r \in Requests, ChunkGetMutex(r) PROVE PendingInv'
    BY <2>6 DEF ChunkGetMutex, GoTo
  <2>7. ASSUME NEW r \in Requests, ChunkLock(r) PROVE PendingInv'
    BY <2>7 DEF ChunkLock, GoTo
  <2>8. ASSUME NEW r \in Requests, ChunkDir(r) PROVE PendingInv'
    BY <2>8 DEF ChunkDir, GoTo
  <2>9. ASSUME NEW r \in Requests, ChunkTemp(r) PROVE PendingInv'
    BY <2>9 DEF ChunkTemp, GoTo
  <2>10. ASSUME NEW r \in Requests, ChunkRecord(r) PROVE PendingInv'
    BY <2>10 DEF ChunkRecord, Return
  <2>11. ASSUME NEW r \in Requests, ChunkFail(r) PROVE PendingInv'
    <3>1. /\ pc[r] \in LockedSteps
          /\ pc' = [pc EXCEPT ![r] = "idle"]
          /\ up' = [up EXCEPT ![r] = NoUpload]
          /\ UNCHANGED <<sessions, stored, lost>>
      BY <2>11 DEF ChunkFail, Return
    <3>2. UNCHANGED status \/ status' = [status EXCEPT ![up[r]] = "failed"]
      BY <2>11 DEF ChunkFail, MarkFailed
    <3>3. QED
      BY <3>1, <3>2 DEF LockedSteps
  <2>12. ASSUME NEW r \in Requests, CompleteCreate(r) PROVE PendingInv'
    BY <2>12 DEF CompleteCreate, GoTo
  <2>13. ASSUME NEW r \in Requests, CompleteCreateFail(r) PROVE PendingInv'
    BY <2>13 DEF CompleteCreateFail, Return, MarkFailed
  <2>14. ASSUME NEW r \in Requests, CompleteMerge(r) PROVE PendingInv'
    BY <2>14 DEF CompleteMerge
  <2>15. ASSUME NEW r \in Requests, CompleteAbort(r) PROVE PendingInv'
    BY <2>15 DEF CompleteAbort, GoTo
  <2>16. ASSUME NEW r \in Requests, CompleteMarkFailed(r) PROVE PendingInv'
    BY <2>16 DEF CompleteMarkFailed, Return, MarkFailed
  <2>17. ASSUME NEW r \in Requests, CompleteUpdate(r) PROVE PendingInv'
    BY <2>17 DEF CompleteUpdate, GoTo
  <2>18. ASSUME NEW r \in Requests, CompleteForget(r) PROVE PendingInv'
    BY <2>18 DEF CompleteForget, GoTo, DropSession
  <2>19. ASSUME NEW r \in Requests, CompleteClean(r) PROVE PendingInv'
    BY <2>19 DEF CompleteClean, Return
  <2>20. ASSUME NEW r \in Requests, FailMark(r) PROVE PendingInv'
    <3>1. CASE Return(r) /\ UNCHANGED status
      BY <2>20, <3>1 DEF FailMark, Return
    <3>2. CASE /\ status' = [status EXCEPT ![up[r]] = "failed"]
               /\ GoTo(r, "drop")
               /\ UNCHANGED <<up, locals>>
      BY <2>20, <3>2 DEF FailMark, GoTo
    <3>3. QED
      BY <2>20, <3>1, <3>2 DEF FailMark
  <2>21. ASSUME NEW r \in Requests, FailDrop(r) PROVE PendingInv'
    BY <2>21 DEF FailDrop, Return, DropSession
  <2>22. ASSUME Crash PROVE PendingInv'
    BY <2>22 DEF Crash
  <2>23. ASSUME UNCHANGED vars PROVE PendingInv'
    BY <2>23 DEF vars
  <2>24. QED
    BY <2>1, <2>2, <2>3, <2>4, <2>5, <2>6, <2>7, <2>8, <2>9, <2>10, <2>11, <2>12,
       <2>13, <2>14, <2>15, <2>16, <2>17, <2>18, <2>19, <2>20, <2>21, <2>22, <2>23
    DEF Next, Arrive, Work
<1>3. QED
  BY <1>1, <1>2, TypeCorrect, RowFirstHolds, PTL DEF Spec

\* For any client, any number of uploads and any crash: the server never leaves a
\* pending row without the session that can finish it, but for rows it lost.
THEOREM PendingServed == Spec => []PendingIsServed
<1>1. PendingInv => PendingIsServed
  BY DEF PendingInv
<1>2. QED
  BY <1>1, PendingInvHolds, PTL
-----------------------------------------------------------------------------
(* The mutexes. *)

\* For any number of requests and mutex objects: exactly the requests in the
\* section hold a mutex, each its own, so no error path leaves one locked.
THEOREM LocksExact == Spec => []LockedExactly
<1>1. Init => LockedExactly
  BY DEF Init, LockedExactly, LockedSteps
<1>2. TypeOK /\ LockedExactly /\ [Next]_vars => LockedExactly'
  <2> SUFFICES ASSUME TypeOK, LockedExactly, [Next]_vars PROVE LockedExactly'
    OBVIOUS
  <2> USE DEF LockedExactly, TypeOK, Steps, ChunkSteps, CompleteSteps, LockedSteps, dbVars, memVars, locals, histVars
  <2>1. ASSUME NEW r \in Requests, NEW u \in Uploads, GenerateInsert(r, u) PROVE LockedExactly'
    BY <2>1 DEF GenerateInsert, GoTo
  <2>2. ASSUME NEW r \in Requests, NEW u \in Uploads, NEW i \in Indexes, ChunkAdmit(r, u, i) PROVE LockedExactly'
    BY <2>2 DEF ChunkAdmit, Serve, GoTo
  <2>3. ASSUME NEW r \in Requests, NEW u \in Uploads, CompleteAdmit(r, u) PROVE LockedExactly'
    BY <2>3 DEF CompleteAdmit, Serve, GoTo
  <2>4. ASSUME NEW r \in Requests, NEW u \in Uploads, FailAdmit(r, u) PROVE LockedExactly'
    BY <2>4 DEF FailAdmit, Serve, GoTo
  <2>5. ASSUME NEW r \in Requests, GenerateRegister(r) PROVE LockedExactly'
    <3>1. /\ pc[r] = "register"
          /\ pc' = [pc EXCEPT ![r] = "idle"]
          /\ mutex' = [mutex EXCEPT ![r] = NoMutex]
          /\ UNCHANGED locked
      BY <2>5 DEF GenerateRegister, Return
    <3>2. QED
      BY <3>1
  <2>6. ASSUME NEW r \in Requests, ChunkGetMutex(r) PROVE LockedExactly'
    <3>1. /\ pc[r] = "get"
          /\ pc' = [pc EXCEPT ![r] = "lock"]
          /\ UNCHANGED locked
      BY <2>6 DEF ChunkGetMutex, GoTo
    <3>2. \A q \in Requests \ {r} : mutex'[q] = mutex[q]
      BY <2>6 DEF ChunkGetMutex
    <3>3. \A q \in Requests : pc'[q] \in LockedSteps <=> pc[q] \in LockedSteps
      BY <3>1
    <3>4. \A q \in Requests : pc[q] \in LockedSteps => mutex'[q] = mutex[q]
      BY <3>1, <3>2
    <3>5. {mutex'[q] : q \in {p \in Requests : pc'[p] \in LockedSteps}}
             = {mutex[q] : q \in {p \in Requests : pc[p] \in LockedSteps}}
      BY <3>3, <3>4
    <3>6. QED
      BY <3>1, <3>3, <3>4, <3>5
  <2>7. ASSUME NEW r \in Requests, ChunkLock(r) PROVE LockedExactly'
    BY <2>7 DEF ChunkLock, GoTo
  <2>8. ASSUME NEW r \in Requests, ChunkDir(r) PROVE LockedExactly'
    BY <2>8 DEF ChunkDir, GoTo
  <2>9. ASSUME NEW r \in Requests, ChunkTemp(r) PROVE LockedExactly'
    BY <2>9 DEF ChunkTemp, GoTo
  <2>10. ASSUME NEW r \in Requests, ChunkRecord(r) PROVE LockedExactly'
    BY <2>10 DEF ChunkRecord, Return, Unlock
  <2>11. ASSUME NEW r \in Requests, ChunkFail(r) PROVE LockedExactly'
    BY <2>11 DEF ChunkFail, Return, Unlock
  <2>12. ASSUME NEW r \in Requests, CompleteCreate(r) PROVE LockedExactly'
    BY <2>12 DEF CompleteCreate, GoTo
  <2>13. ASSUME NEW r \in Requests, CompleteCreateFail(r) PROVE LockedExactly'
    BY <2>13 DEF CompleteCreateFail, Return
  <2>14. ASSUME NEW r \in Requests, CompleteMerge(r) PROVE LockedExactly'
    BY <2>14 DEF CompleteMerge
  <2>15. ASSUME NEW r \in Requests, CompleteAbort(r) PROVE LockedExactly'
    BY <2>15 DEF CompleteAbort, GoTo
  <2>16. ASSUME NEW r \in Requests, CompleteMarkFailed(r) PROVE LockedExactly'
    BY <2>16 DEF CompleteMarkFailed, Return
  <2>17. ASSUME NEW r \in Requests, CompleteUpdate(r) PROVE LockedExactly'
    BY <2>17 DEF CompleteUpdate, GoTo
  <2>18. ASSUME NEW r \in Requests, CompleteForget(r) PROVE LockedExactly'
    BY <2>18 DEF CompleteForget, GoTo, DropSession
  <2>19. ASSUME NEW r \in Requests, CompleteClean(r) PROVE LockedExactly'
    BY <2>19 DEF CompleteClean, Return
  <2>20. ASSUME NEW r \in Requests, FailMark(r) PROVE LockedExactly'
    <3>1. CASE Return(r) /\ UNCHANGED status
      BY <2>20, <3>1 DEF FailMark, Return
    <3>2. CASE /\ status' = [status EXCEPT ![up[r]] = "failed"]
               /\ GoTo(r, "drop")
               /\ UNCHANGED <<up, locals>>
      BY <2>20, <3>2 DEF FailMark, GoTo
    <3>3. QED
      BY <2>20, <3>1, <3>2 DEF FailMark
  <2>21. ASSUME NEW r \in Requests, FailDrop(r) PROVE LockedExactly'
    BY <2>21 DEF FailDrop, Return
  <2>22. ASSUME Crash PROVE LockedExactly'
    BY <2>22 DEF Crash
  <2>23. ASSUME UNCHANGED vars PROVE LockedExactly'
    BY <2>23 DEF vars
  <2>24. QED
    BY <2>1, <2>2, <2>3, <2>4, <2>5, <2>6, <2>7, <2>8, <2>9, <2>10, <2>11, <2>12,
       <2>13, <2>14, <2>15, <2>16, <2>17, <2>18, <2>19, <2>20, <2>21, <2>22, <2>23
    DEF Next, Arrive, Work
<1>3. QED
  BY <1>1, <1>2, TypeCorrect, PTL DEF Spec
-----------------------------------------------------------------------------
(* What is merged.  The invariant follows a chunk from its temporary file over
   ChunkIndexes into the stored file. *)

ChunkFlow ==
  /\ \A u \in Uploads, i \in Indexes : chunks[u][i] \in {NoFile} \cup ({u} \X {i} \X Tags)
  /\ \A u \in Uploads, i \in Indexes :
       chunks[u][i] # NoFile => disk[chunks[u][i]] # "partial"
  /\ \A r \in Requests : pc[r] = "copy" => files[r] \subseteq {up[r]} \X {ix[r]} \X Tags
  /\ MergedPiecesWhole

LEMMA ChunkFlowHolds == Spec => []ChunkFlow
<1>1. Init => ChunkFlow
  BY DEF Init, ChunkFlow, MergedPiecesWhole, NoChunks
<1>2. TypeOK /\ ChunkFlow /\ [Next]_vars => ChunkFlow'
  <2> SUFFICES ASSUME TypeOK, ChunkFlow, [Next]_vars PROVE ChunkFlow'
    OBVIOUS
  <2> USE DEF ChunkFlow, MergedPiecesWhole, TypeOK, Steps, ChunkSteps, CompleteSteps, LockedSteps, dbVars, memVars, locals, histVars
  <2>1. ASSUME NEW r \in Requests, NEW u \in Uploads, GenerateInsert(r, u) PROVE ChunkFlow'
    BY <2>1 DEF GenerateInsert, GoTo
  <2>2. ASSUME NEW r \in Requests, NEW u \in Uploads, NEW i \in Indexes, ChunkAdmit(r, u, i) PROVE ChunkFlow'
    BY <2>2 DEF ChunkAdmit, Serve, GoTo
  <2>3. ASSUME NEW r \in Requests, NEW u \in Uploads, CompleteAdmit(r, u) PROVE ChunkFlow'
    BY <2>3 DEF CompleteAdmit, Serve, GoTo
  <2>4. ASSUME NEW r \in Requests, NEW u \in Uploads, FailAdmit(r, u) PROVE ChunkFlow'
    BY <2>4 DEF FailAdmit, Serve, GoTo
  <2>5. ASSUME NEW r \in Requests, GenerateRegister(r) PROVE ChunkFlow'
    BY <2>5 DEF GenerateRegister, Return, NoChunks
  <2>6. ASSUME NEW r \in Requests, ChunkGetMutex(r) PROVE ChunkFlow'
    BY <2>6 DEF ChunkGetMutex, GoTo
  <2>7. ASSUME NEW r \in Requests, ChunkLock(r) PROVE ChunkFlow'
    BY <2>7 DEF ChunkLock, GoTo
  <2>8. ASSUME NEW r \in Requests, ChunkDir(r) PROVE ChunkFlow'
    BY <2>8 DEF ChunkDir, GoTo
  <2>9. ASSUME NEW r \in Requests, ChunkTemp(r) PROVE ChunkFlow'
    <3>1. PICK t \in Tags :
            /\ NewName(<<up[r], ix[r], t>>)
            /\ disk' = [disk EXCEPT ![<<up[r], ix[r], t>>] = "partial"]
            /\ files' = [files EXCEPT ![r] = {<<up[r], ix[r], t>>}]
      BY <2>9 DEF ChunkTemp
    <3>2. \A u \in Uploads, i \in Indexes : chunks[u][i] # <<up[r], ix[r], t>>
      BY <3>1 DEF NewName
    <3>3. \A u \in Uploads, i \in Indexes :
            chunks[u][i] # NoFile => disk'[chunks[u][i]] = disk[chunks[u][i]]
      BY <3>1, <3>2
    <3>4. pc' = [pc EXCEPT ![r] = "copy"] /\ UNCHANGED <<stored, chunks, up, ix>>
      BY <2>9 DEF ChunkTemp, GoTo
    <3>5. \A q \in Requests : pc'[q] = "copy" => files'[q] \subseteq {up[q]} \X {ix[q]} \X Tags
      BY <3>1, <3>4
    <3>6. QED
      BY <3>3, <3>4, <3>5
  <2>10. ASSUME NEW r \in Requests, ChunkRecord(r) PROVE ChunkFlow'
    BY <2>10 DEF ChunkRecord, Return
  <2>11. ASSUME NEW r \in Requests, ChunkFail(r) PROVE ChunkFlow'
    BY <2>11 DEF ChunkFail, Return
  <2>12. ASSUME NEW r \in Requests, CompleteCreate(r) PROVE ChunkFlow'
    BY <2>12 DEF CompleteCreate, GoTo, NoChunks
  <2>13. ASSUME NEW r \in Requests, CompleteCreateFail(r) PROVE ChunkFlow'
    BY <2>13 DEF CompleteCreateFail, Return
  <2>14. ASSUME NEW r \in Requests, CompleteMerge(r) PROVE ChunkFlow'
    BY <2>14 DEF CompleteMerge
  <2>15. ASSUME NEW r \in Requests, CompleteAbort(r) PROVE ChunkFlow'
    BY <2>15 DEF CompleteAbort, GoTo
  <2>16. ASSUME NEW r \in Requests, CompleteMarkFailed(r) PROVE ChunkFlow'
    BY <2>16 DEF CompleteMarkFailed, Return
  <2>17. ASSUME NEW r \in Requests, CompleteUpdate(r) PROVE ChunkFlow'
    BY <2>17 DEF CompleteUpdate, GoTo
  <2>18. ASSUME NEW r \in Requests, CompleteForget(r) PROVE ChunkFlow'
    BY <2>18 DEF CompleteForget, GoTo, DropSession
  <2>19. ASSUME NEW r \in Requests, CompleteClean(r) PROVE ChunkFlow'
    BY <2>19 DEF CompleteClean, Return
  <2>20. ASSUME NEW r \in Requests, FailMark(r) PROVE ChunkFlow'
    <3>1. CASE Return(r) /\ UNCHANGED status
      BY <2>20, <3>1 DEF FailMark, Return
    <3>2. CASE /\ status' = [status EXCEPT ![up[r]] = "failed"]
               /\ GoTo(r, "drop")
               /\ UNCHANGED <<up, locals>>
      BY <2>20, <3>2 DEF FailMark, GoTo
    <3>3. QED
      BY <2>20, <3>1, <3>2 DEF FailMark
  <2>21. ASSUME NEW r \in Requests, FailDrop(r) PROVE ChunkFlow'
    BY <2>21 DEF FailDrop, Return
  <2>22. ASSUME Crash PROVE ChunkFlow'
    BY <2>22 DEF Crash, NoChunks
  <2>23. ASSUME UNCHANGED vars PROVE ChunkFlow'
    BY <2>23 DEF vars
  <2>24. QED
    BY <2>1, <2>2, <2>3, <2>4, <2>5, <2>6, <2>7, <2>8, <2>9, <2>10, <2>11, <2>12,
       <2>13, <2>14, <2>15, <2>16, <2>17, <2>18, <2>19, <2>20, <2>21, <2>22, <2>23
    DEF Next, Arrive, Work
<1>3. QED
  BY <1>1, <1>2, TypeCorrect, PTL DEF Spec

\* For any clients and any interleaving: a stored file holds at each position a
\* whole chunk that was sent for that upload and index, or nothing complete.
THEOREM MergesWholePieces == Spec => []MergedPiecesWhole
<1>1. ChunkFlow => MergedPiecesWhole
  BY DEF ChunkFlow
<1>2. QED
  BY <1>1, ChunkFlowHolds, PTL
-----------------------------------------------------------------------------
(* Completed files, for a client that awaits its answers.  CompletedIsWhole is
   kept because nobody truncates or removes the stored file of a completed row:
   requests of one upload do not overlap, and the session that would admit
   another one is gone when the last of them returns. *)

Busy == ChunkSteps \cup CompleteSteps

\* Requests of one upload do not overlap.
NoOverlap ==
  \A r, q \in Requests :
    (r # q /\ pc[r] \in Busy /\ pc[q] \in Busy) => up[r] # up[q]

\* Nothing overlaps UploadGenerateId, whatever the clients do: there is no session yet.
RegisterFirst ==
  /\ \A r, q \in Requests : (r # q /\ pc[r] = "register" /\ pc[q] # "idle") => up[q] # up[r]
  /\ \A r \in Requests : pc[r] = "register" => sessions[up[r]] = "none"
  /\ \A r \in Requests : pc[r] = "register" => status[up[r]] # "completed"

OneAtATime == NoOverlap /\ RegisterFirst

\* A completed upload is only being finished, and its session is about to go.
Finished ==
  /\ \A r \in Requests :
       (pc[r] \in Busy /\ status[up[r]] = "completed") => pc[r] \in {"forget", "clean"}
  /\ \A u \in Uploads :
       (status[u] = "completed" /\ sessions[u] # "none")
         => \E r \in Requests : pc[r] = "forget" /\ up[r] = u

\* The merge loop has copied every position before ix.
MergeProgress ==
  \A r \in Requests : pc[r] = "merge" =>
    /\ r \in attached
    /\ \A i \in Indexes : (0 <= i /\ i < ix[r]) =>
         stored[up[r]][i] \in {up[r]} \X {i} \X Tags

\* A request that waits for nothing has no index, so "create" starts at 0.
FreshIndex ==
  \A r \in Requests : pc[r] \in {"idle", "create"} => ix[r] = 0

LEMMA RegisterFirstHolds == Spec => []RegisterFirst
<1>1. Init => RegisterFirst
  BY DEF Init, RegisterFirst, Busy, ChunkSteps, CompleteSteps
<1>2. TypeOK /\ RowFirst /\ RegisterFirst /\ [Next]_vars => RegisterFirst'
  <2> SUFFICES ASSUME TypeOK, RowFirst, RegisterFirst, [Next]_vars PROVE RegisterFirst'
    OBVIOUS
  <2> USE DEF RegisterFirst, RowFirst, TypeOK, Busy, Steps, ChunkSteps, CompleteSteps, LockedSteps, dbVars, memVars, locals, histVars
  <2>1. ASSUME NEW r \in Requests, NEW u \in Uploads, GenerateInsert(r, u) PROVE RegisterFirst'
    BY <2>1 DEF GenerateInsert, GoTo
  <2>2. ASSUME NEW r \in Requests, NEW u \in Uploads, NEW i \in Indexes, ChunkAdmit(r, u, i) PROVE RegisterFirst'
    BY <2>2 DEF ChunkAdmit, Serve, GoTo
  <2>3. ASSUME NEW r \in Requests, NEW u \in Uploads, CompleteAdmit(r, u) PROVE RegisterFirst'
    BY <2>3 DEF CompleteAdmit, Serve, GoTo
  <2>4. ASSUME NEW r \in Requests, NEW u \in Uploads, FailAdmit(r, u) PROVE RegisterFirst'
    BY <2>4 DEF FailAdmit, Serve, GoTo
  <2>5. ASSUME NEW r \in Requests, GenerateRegister(r) PROVE RegisterFirst'
    BY <2>5 DEF GenerateRegister, Return
  <2>6. ASSUME NEW r \in Requests, ChunkGetMutex(r) PROVE RegisterFirst'
    BY <2>6 DEF ChunkGetMutex, GoTo
  <2>7. ASSUME NEW r \in Requests, ChunkLock(r) PROVE RegisterFirst'
    BY <2>7 DEF ChunkLock, GoTo
  <2>8. ASSUME NEW r \in Requests, ChunkDir(r) PROVE RegisterFirst'
    BY <2>8 DEF ChunkDir, GoTo
  <2>9. ASSUME NEW r \in Requests, ChunkTemp(r) PROVE RegisterFirst'
    BY <2>9 DEF ChunkTemp, GoTo
  <2>10. ASSUME NEW r \in Requests, ChunkRecord(r) PROVE RegisterFirst'
    BY <2>10 DEF ChunkRecord, Return
  <2>11. ASSUME NEW r \in Requests, ChunkFail(r) PROVE RegisterFirst'
    <3>1. /\ pc[r] \in LockedSteps
          /\ pc' = [pc EXCEPT ![r] = "idle"]
          /\ up' = [up EXCEPT ![r] = NoUpload]
          /\ UNCHANGED <<sessions, stored, lost>>
      BY <2>11 DEF ChunkFail, Return
    <3>2. UNCHANGED status \/ status' = [status EXCEPT ![up[r]] = "failed"]
      BY <2>11 DEF ChunkFail, MarkFailed
    <3>3. QED
      BY <3>1, <3>2 DEF LockedSteps
  <2>12. ASSUME NEW r \in Requests, CompleteCreate(r) PROVE RegisterFirst'
    BY <2>12 DEF CompleteCreate, GoTo
  <2>13. ASSUME NEW r \in Requests, CompleteCreateFail(r) PROVE RegisterFirst'
    BY <2>13 DEF CompleteCreateFail, Return, MarkFailed
  <2>14. ASSUME NEW r \in Requests, CompleteMerge(r) PROVE RegisterFirst'
    BY <2>14 DEF CompleteMerge
  <2>15. ASSUME NEW r \in Requests, CompleteAbort(r) PROVE RegisterFirst'
    BY <2>15 DEF CompleteAbort, GoTo
  <2>16. ASSUME NEW r \in Requests, CompleteMarkFailed(r) PROVE RegisterFirst'
    BY <2>16 DEF CompleteMarkFailed, Return, MarkFailed
  <2>17. ASSUME NEW r \in Requests, CompleteUpdate(r) PROVE RegisterFirst'
    BY <2>17 DEF CompleteUpdate, GoTo
  <2>18. ASSUME NEW r \in Requests, CompleteForget(r) PROVE RegisterFirst'
    BY <2>18 DEF CompleteForget, GoTo, DropSession
  <2>19. ASSUME NEW r \in Requests, CompleteClean(r) PROVE RegisterFirst'
    BY <2>19 DEF CompleteClean, Return
  <2>20. ASSUME NEW r \in Requests, FailMark(r) PROVE RegisterFirst'
    <3>1. CASE Return(r) /\ UNCHANGED status
      BY <2>20, <3>1 DEF FailMark, Return
    <3>2. CASE /\ status' = [status EXCEPT ![up[r]] = "failed"]
               /\ GoTo(r, "drop")
               /\ UNCHANGED <<up, locals>>
      BY <2>20, <3>2 DEF FailMark, GoTo
    <3>3. QED
      BY <2>20, <3>1, <3>2 DEF FailMark
  <2>21. ASSUME NEW r \in Requests, FailDrop(r) PROVE RegisterFirst'
    BY <2>21 DEF FailDrop, Return, DropSession
  <2>22. ASSUME Crash PROVE RegisterFirst'
    BY <2>22 DEF Crash
  <2>23. ASSUME UNCHANGED vars PROVE RegisterFirst'
    BY <2>23 DEF vars
  <2>24. QED
    BY <2>1, <2>2, <2>3, <2>4, <2>5, <2>6, <2>7, <2>8, <2>9, <2>10, <2>11, <2>12,
       <2>13, <2>14, <2>15, <2>16, <2>17, <2>18, <2>19, <2>20, <2>21, <2>22, <2>23
    DEF Next, Arrive, Work
<1>3. QED
  BY <1>1, <1>2, TypeCorrect, RowFirstHolds, PTL DEF Spec

\* Chunk and complete requests are admitted only for an upload that is quiet.
AdmitsQuiet ==
  \A u \in Uploads, r \in Requests :
    (CompleteAdmit(r, u) \/ \E i \in Indexes : ChunkAdmit(r, u, i)) => Quiet(u)

\* No other step adds to the requests that are busy with an upload.
LEMMA NoOverlapKept ==
  TypeOK /\ NoOverlap /\ AdmitsQuiet /\ [Next]_vars => NoOverlap'
<1> SUFFICES ASSUME TypeOK, NoOverlap, AdmitsQuiet, [Next]_vars PROVE NoOverlap'
  OBVIOUS
<1> USE DEF TypeOK, Busy, ChunkSteps, CompleteSteps
<1> DEFINE Adds == \E q \in Requests :
      pc'[q] \in Busy /\ ~(pc[q] \in Busy /\ up'[q] = up[q])
<1>1. CASE ~Adds
  BY <1>1 DEF NoOverlap
<1>2. ASSUME NEW r \in Requests, NEW u \in Uploads, NEW i \in Indexes, ChunkAdmit(r, u, i)
      PROVE  NoOverlap'
  BY <1>2 DEF AdmitsQuiet, Quiet, NoOverlap, ChunkAdmit, Serve, GoTo
<1>3. ASSUME NEW r \in Requests, NEW u \in Uploads, CompleteAdmit(r, u) PROVE NoOverlap'
  BY <1>3 DEF AdmitsQuiet, Quiet, NoOverlap, CompleteAdmit, Serve, GoTo
<1>4. ASSUME NEW r \in Requests, NEW u \in Uploads, GenerateInsert(r, u) \/ FailAdmit(r, u)
      PROVE  ~Adds
  BY <1>4 DEF GenerateInsert, FailAdmit, Serve, GoTo
<1>5. ASSUME NEW r \in Requests,
             \/ ChunkGetMutex(r) \/ ChunkLock(r) \/ ChunkDir(r) \/ ChunkTemp(r)
             \/ CompleteCreate(r) \/ CompleteMerge(r) \/ CompleteAbort(r)
             \/ CompleteUpdate(r) \/ CompleteForget(r)
      PROVE  ~Adds
  BY <1>5 DEF GoTo, ChunkGetMutex, ChunkLock, ChunkDir, ChunkTemp, CompleteCreate,
     CompleteMerge, CompleteAbort, CompleteUpdate, CompleteForget
<1>6. ASSUME NEW r \in Requests,
             \/ GenerateRegister(r) \/ ChunkRecord(r) \/ ChunkFail(r) \/ CompleteCreateFail(r)
             \/ CompleteMarkFailed(r) \/ CompleteClean(r) \/ FailMark(r) \/ FailDrop(r)
      PROVE  ~Adds
  BY <1>6 DEF Return, GoTo, GenerateRegister, ChunkRecord, ChunkFail, CompleteCreateFail,
     CompleteMarkFailed, CompleteClean, FailMark, FailDrop
<1>7. ASSUME Crash \/ UNCHANGED vars PROVE ~Adds
  BY <1>7 DEF Crash, vars
<1>8. QED
  BY <1>1, <1>2, <1>3, <1>4, <1>5, <1>6, <1>7 DEF Next, Arrive, Work

LEMMA NoOverlapHolds ==
  ASSUME Awaits PROVE Spec => []NoOverlap
<1>1. Init => NoOverlap
  BY DEF Init, NoOverlap, Busy, ChunkSteps, CompleteSteps
<1>2. AdmitsQuiet
  BY DEF AdmitsQuiet, ChunkAdmit, CompleteAdmit, MaySend
<1>3. QED
  BY <1>1, <1>2, NoOverlapKept, TypeCorrect, PTL DEF Spec

LEMMA OneAtATimeHolds ==
  ASSUME Awaits PROVE Spec => []OneAtATime
  BY NoOverlapHolds, RegisterFirstHolds, PTL DEF OneAtATime

LEMMA FreshIndexHolds == Spec => []FreshIndex
<1>1. Init => FreshIndex
  BY DEF Init, FreshIndex
<1>2. TypeOK /\ FreshIndex /\ [Next]_vars => FreshIndex'
  <2> SUFFICES ASSUME TypeOK, FreshIndex, [Next]_vars PROVE FreshIndex'
    OBVIOUS
  <2> USE DEF FreshIndex, TypeOK, Steps, ChunkSteps, CompleteSteps, LockedSteps, dbVars, memVars, locals, histVars
  <2>1. ASSUME NEW r \in Requests, NEW u \in Uploads, GenerateInsert(r, u) PROVE FreshIndex'
    BY <2>1 DEF GenerateInsert, GoTo
  <2>2. ASSUME NEW r \in Requests, NEW u \in Uploads, NEW i \in Indexes, ChunkAdmit(r, u, i) PROVE FreshIndex'
    BY <2>2 DEF ChunkAdmit, Serve, GoTo
  <2>3. ASSUME NEW r \in Requests, NEW u \in Uploads, CompleteAdmit(r, u) PROVE FreshIndex'
    BY <2>3 DEF CompleteAdmit, Serve, GoTo
  <2>4. ASSUME NEW r \in Requests, NEW u \in Uploads, FailAdmit(r, u) PROVE FreshIndex'
    BY <2>4 DEF FailAdmit, Serve, GoTo
  <2>5. ASSUME NEW r \in Requests, GenerateRegister(r) PROVE FreshIndex'
    BY <2>5 DEF GenerateRegister, Return
  <2>6. ASSUME NEW r \in Requests, ChunkGetMutex(r) PROVE FreshIndex'
    BY <2>6 DEF ChunkGetMutex, GoTo
  <2>7. ASSUME NEW r \in Requests, ChunkLock(r) PROVE FreshIndex'
    BY <2>7 DEF ChunkLock, GoTo
  <2>8. ASSUME NEW r \in Requests, ChunkDir(r) PROVE FreshIndex'
    BY <2>8 DEF ChunkDir, GoTo
  <2>9. ASSUME NEW r \in Requests, ChunkTemp(r) PROVE FreshIndex'
    BY <2>9 DEF ChunkTemp, GoTo
  <2>10. ASSUME NEW r \in Requests, ChunkRecord(r) PROVE FreshIndex'
    BY <2>10 DEF ChunkRecord, Return
  <2>11. ASSUME NEW r \in Requests, ChunkFail(r) PROVE FreshIndex'
    BY <2>11 DEF ChunkFail, Return
  <2>12. ASSUME NEW r \in Requests, CompleteCreate(r) PROVE FreshIndex'
    BY <2>12 DEF CompleteCreate, GoTo
  <2>13. ASSUME NEW r \in Requests, CompleteCreateFail(r) PROVE FreshIndex'
    BY <2>13 DEF CompleteCreateFail, Return
  <2>14. ASSUME NEW r \in Requests, CompleteMerge(r) PROVE FreshIndex'
    BY <2>14 DEF CompleteMerge
  <2>15. ASSUME NEW r \in Requests, CompleteAbort(r) PROVE FreshIndex'
    BY <2>15 DEF CompleteAbort, GoTo
  <2>16. ASSUME NEW r \in Requests, CompleteMarkFailed(r) PROVE FreshIndex'
    BY <2>16 DEF CompleteMarkFailed, Return
  <2>17. ASSUME NEW r \in Requests, CompleteUpdate(r) PROVE FreshIndex'
    BY <2>17 DEF CompleteUpdate, GoTo
  <2>18. ASSUME NEW r \in Requests, CompleteForget(r) PROVE FreshIndex'
    BY <2>18 DEF CompleteForget, GoTo
  <2>19. ASSUME NEW r \in Requests, CompleteClean(r) PROVE FreshIndex'
    BY <2>19 DEF CompleteClean, Return
  <2>20. ASSUME NEW r \in Requests, FailMark(r) PROVE FreshIndex'
    <3>1. CASE Return(r) /\ UNCHANGED status
      BY <2>20, <3>1 DEF FailMark, Return
    <3>2. CASE /\ status' = [status EXCEPT ![up[r]] = "failed"]
               /\ GoTo(r, "drop")
               /\ UNCHANGED <<up, locals>>
      BY <2>20, <3>2 DEF FailMark, GoTo
    <3>3. QED
      BY <2>20, <3>1, <3>2 DEF FailMark
  <2>21. ASSUME NEW r \in Requests, FailDrop(r) PROVE FreshIndex'
    BY <2>21 DEF FailDrop, Return
  <2>22. ASSUME Crash PROVE FreshIndex'
    BY <2>22 DEF Crash
  <2>23. ASSUME UNCHANGED vars PROVE FreshIndex'
    BY <2>23 DEF vars
  <2>24. QED
    BY <2>1, <2>2, <2>3, <2>4, <2>5, <2>6, <2>7, <2>8, <2>9, <2>10, <2>11, <2>12,
       <2>13, <2>14, <2>15, <2>16, <2>17, <2>18, <2>19, <2>20, <2>21, <2>22, <2>23
    DEF Next, Arrive, Work
<1>3. QED
  BY <1>1, <1>2, TypeCorrect, PTL DEF Spec

LEMMA MergeProgressHolds == Spec /\ []OneAtATime => []MergeProgress
<1>1. Init => MergeProgress
  BY DEF Init, MergeProgress
<1>2. TypeOK /\ OneAtATime /\ FreshIndex /\ ChunkFlow /\ MergeProgress /\ [Next]_vars => MergeProgress'
  <2> SUFFICES ASSUME TypeOK, OneAtATime, FreshIndex, ChunkFlow, MergeProgress, [Next]_vars PROVE MergeProgress'
    OBVIOUS
  <2> USE DEF MergeProgress, OneAtATime, NoOverlap, RegisterFirst, FreshIndex, TypeOK, Busy, Steps, ChunkSteps, CompleteSteps, LockedSteps, dbVars, memVars, locals, histVars
  <2>1. ASSUME NEW r \in Requests, NEW u \in Uploads, GenerateInsert(r, u) PROVE MergeProgress'
    BY <2>1 DEF GenerateInsert, GoTo
  <2>2. ASSUME NEW r \in Requests, NEW u \in Uploads, NEW i \in Indexes, ChunkAdmit(r, u, i) PROVE MergeProgress'
    BY <2>2 DEF ChunkAdmit, Serve, GoTo
  <2>3. ASSUME NEW r \in Requests, NEW u \in Uploads, CompleteAdmit(r, u) PROVE MergeProgress'
    BY <2>3 DEF CompleteAdmit, Serve, GoTo
  <2>4. ASSUME NEW r \in Requests, NEW u \in Uploads, FailAdmit(r, u) PROVE MergeProgress'
    BY <2>4 DEF FailAdmit, Serve, GoTo
  <2>5. ASSUME NEW r \in Requests, GenerateRegister(r) PROVE MergeProgress'
    BY <2>5 DEF GenerateRegister, Return
  <2>6. ASSUME NEW r \in Requests, ChunkGetMutex(r) PROVE MergeProgress'
    BY <2>6 DEF ChunkGetMutex, GoTo
  <2>7. ASSUME NEW r \in Requests, ChunkLock(r) PROVE MergeProgress'
    BY <2>7 DEF ChunkLock, GoTo
  <2>8. ASSUME NEW r \in Requests, ChunkDir(r) PROVE MergeProgress'
    BY <2>8 DEF ChunkDir, GoTo
  <2>9. ASSUME NEW r \in Requests, ChunkTemp(r) PROVE MergeProgress'
    BY <2>9 DEF ChunkTemp, GoTo
  <2>10. ASSUME NEW r \in Requests, ChunkRecord(r) PROVE MergeProgress'
    BY <2>10 DEF ChunkRecord, Return
  <2>11. ASSUME NEW r \in Requests, ChunkFail(r) PROVE MergeProgress'
    BY <2>11 DEF ChunkFail, Return
  <2>12. ASSUME NEW r \in Requests, CompleteCreate(r) PROVE MergeProgress'
    <3>1. \A q \in Requests \ {r} : pc[q] = "merge" => stored'[up[q]] = stored[up[q]]
      BY <2>12 DEF CompleteCreate
    <3>2. ix[r] = 0 /\ ix' = ix /\ up' = up
      BY <2>12 DEF CompleteCreate
    <3>3. pc' = [pc EXCEPT ![r] = "merge"] /\ attached' = attached \cup {r}
      BY <2>12 DEF CompleteCreate, GoTo
    <3>4. QED
      BY <3>1, <3>2, <3>3, IndexAssumption
  <2>13. ASSUME NEW r \in Requests, CompleteCreateFail(r) PROVE MergeProgress'
    BY <2>13 DEF CompleteCreateFail, Return
  <2>14. ASSUME NEW r \in Requests, CompleteMerge(r) PROVE MergeProgress'
    <3>1. /\ pc[r] = "merge"
          /\ UNCHANGED <<pc, up, attached>>
          /\ ix' = [ix EXCEPT ![r] = ix[r] + 1]
          /\ chunks[up[r]][ix[r]] # NoFile
          /\ ix[r] < TotalChunks[up[r]]
      BY <2>14 DEF CompleteMerge
    <3>2. up[r] \in Uploads /\ ix[r] \in Nat /\ TotalChunks[up[r]] \in Int
      BY <3>1, TotalAssumption
    <3>3. ix[r] \in 0 .. (TotalChunks[up[r]] - 1)
      BY <3>1, <3>2
    <3>4. ix[r] \in Indexes
      BY <3>2, <3>3, IndexesCoverTotals
    <3>5. r \in attached /\ stored[up[r]] \in Contents
      BY <3>1, <3>2
    <3>6. /\ chunks[up[r]][ix[r]] \in {up[r]} \X {ix[r]} \X Tags
          /\ disk[chunks[up[r]][ix[r]]] # "partial"
      BY <3>1, <3>2, <3>4 DEF ChunkFlow
    <3>7. disk[chunks[up[r]][ix[r]]] \in {"partial", "whole"}
      <4>1. chunks[up[r]][ix[r]] \in ChunkFiles
        BY <3>1, <3>2, <3>4
      <4>2. disk[chunks[up[r]][ix[r]]] # "none"
        BY <2>14 DEF CompleteMerge
      <4>3. QED
        BY <4>1, <4>2
    <3>8. stored' = [stored EXCEPT ![up[r]] =
                       [stored[up[r]] EXCEPT ![ix[r]] = chunks[up[r]][ix[r]]]]
      BY <2>14, <3>5, <3>6, <3>7 DEF CompleteMerge
    <3>9. \A q \in Requests \ {r} :
            pc[q] = "merge" => stored'[up[q]] = stored[up[q]] /\ ix'[q] = ix[q]
      BY <3>1, <3>8
    <3>10. \A i \in Indexes : (0 <= i /\ i < ix'[r]) =>
             stored'[up[r]][i] \in {up[r]} \X {i} \X Tags
      <4>1. SUFFICES ASSUME NEW i \in Indexes, 0 <= i, i < ix[r] + 1
                     PROVE stored'[up[r]][i] \in {up[r]} \X {i} \X Tags
        BY <3>1
      <4>2. stored'[up[r]] = [stored[up[r]] EXCEPT ![ix[r]] = chunks[up[r]][ix[r]]]
        BY <3>2, <3>8
      <4>3. CASE i = ix[r]
        BY <4>2, <4>3, <3>4, <3>5, <3>6 DEF Contents
      <4>4. CASE i < ix[r]
        BY <4>1, <4>2, <4>4, <3>1, <3>5 DEF Contents
      <4>5. i \in Int /\ ix[r] \in Int
        BY <3>2, IndexAssumption
      <4>6. i = ix[r] \/ i < ix[r]
        <5>1. \A x, y \in Int : x < y + 1 => (x = y \/ x < y)
          OBVIOUS
        <5>2. QED
          BY <4>1, <4>5, <5>1
      <4>7. QED
        BY <4>3, <4>4, <4>6
    <3>11. QED
      BY <3>1, <3>9, <3>10
  <2>15. ASSUME NEW r \in Requests, CompleteAbort(r) PROVE MergeProgress'
    BY <2>15 DEF CompleteAbort, GoTo
  <2>16. ASSUME NEW r \in Requests, CompleteMarkFailed(r) PROVE MergeProgress'
    BY <2>16 DEF CompleteMarkFailed, Return
  <2>17. ASSUME NEW r \in Requests, CompleteUpdate(r) PROVE MergeProgress'
    BY <2>17 DEF CompleteUpdate, GoTo
  <2>18. ASSUME NEW r \in Requests, CompleteForget(r) PROVE MergeProgress'
    BY <2>18 DEF CompleteForget, GoTo
  <2>19. ASSUME NEW r \in Requests, CompleteClean(r) PROVE MergeProgress'
    BY <2>19 DEF CompleteClean, Return
  <2>20. ASSUME NEW r \in Requests, FailMark(r) PROVE MergeProgress'
    <3>1. CASE Return(r) /\ UNCHANGED status
      BY <2>20, <3>1 DEF FailMark, Return
    <3>2. CASE /\ status' = [status EXCEPT ![up[r]] = "failed"]
               /\ GoTo(r, "drop")
               /\ UNCHANGED <<up, locals>>
      BY <2>20, <3>2 DEF FailMark, GoTo
    <3>3. QED
      BY <2>20, <3>1, <3>2 DEF FailMark
  <2>21. ASSUME NEW r \in Requests, FailDrop(r) PROVE MergeProgress'
    BY <2>21 DEF FailDrop, Return
  <2>22. ASSUME Crash PROVE MergeProgress'
    BY <2>22 DEF Crash
  <2>23. ASSUME UNCHANGED vars PROVE MergeProgress'
    BY <2>23 DEF vars
  <2>24. QED
    BY <2>1, <2>2, <2>3, <2>4, <2>5, <2>6, <2>7, <2>8, <2>9, <2>10, <2>11, <2>12,
       <2>13, <2>14, <2>15, <2>16, <2>17, <2>18, <2>19, <2>20, <2>21, <2>22, <2>23
    DEF Next, Arrive, Work
<1>3. QED
  BY <1>1, <1>2, TypeCorrect, FreshIndexHolds, ChunkFlowHolds, PTL DEF Spec

LEMMA FinishedHolds == Spec /\ []OneAtATime => []Finished
<1>1. Init => Finished
  BY DEF Init, Finished, Busy, ChunkSteps, CompleteSteps
<1>2. TypeOK /\ RowFirst /\ OneAtATime /\ OneAtATime' /\ Finished /\ [Next]_vars => Finished'
  <2> SUFFICES ASSUME TypeOK, RowFirst, OneAtATime, OneAtATime', Finished, [Next]_vars
               PROVE  Finished'
    OBVIOUS
  <2> USE DEF Finished, OneAtATime, NoOverlap, RegisterFirst, RowFirst, TypeOK, Busy, Steps, ChunkSteps, CompleteSteps, LockedSteps, dbVars, memVars, locals, histVars
  <2>1. ASSUME NEW r \in Requests, NEW u \in Uploads, GenerateInsert(r, u) PROVE Finished'
    BY <2>1 DEF GenerateInsert, GoTo
  <2>2. ASSUME NEW r \in Requests, NEW u \in Uploads, NEW i \in Indexes, ChunkAdmit(r, u, i) PROVE Finished'
    BY <2>2 DEF ChunkAdmit, Serve, GoTo
  <2>3. ASSUME NEW r \in Requests, NEW u \in Uploads, CompleteAdmit(r, u) PROVE Finished'
    BY <2>3 DEF CompleteAdmit, Serve, GoTo
  <2>4. ASSUME NEW r \in Requests, NEW u \in Uploads, FailAdmit(r, u) PROVE Finished'
    BY <2>4 DEF FailAdmit, Serve, GoTo
  <2>5. ASSUME NEW r \in Requests, GenerateRegister(r) PROVE Finished'
    BY <2>5 DEF GenerateRegister, Return
  <2>6. ASSUME NEW r \in Requests, ChunkGetMutex(r) PROVE Finished'
    BY <2>6 DEF ChunkGetMutex, GoTo
  <2>7. ASSUME NEW r \in Requests, ChunkLock(r) PROVE Finished'
    BY <2>7 DEF ChunkLock, GoTo
  <2>8. ASSUME NEW r \in Requests, ChunkDir(r) PROVE Finished'
    BY <2>8 DEF ChunkDir, GoTo
  <2>9. ASSUME NEW r \in Requests, ChunkTemp(r) PROVE Finished'
    BY <2>9 DEF ChunkTemp, GoTo
  <2>10. ASSUME NEW r \in Requests, ChunkRecord(r) PROVE Finished'
    BY <2>10 DEF ChunkRecord, Return
  <2>11. ASSUME NEW r \in Requests, ChunkFail(r) PROVE Finished'
    <3>1. /\ pc[r] \in LockedSteps
          /\ pc' = [pc EXCEPT ![r] = "idle"]
          /\ up' = [up EXCEPT ![r] = NoUpload]
          /\ UNCHANGED <<sessions, stored, lost>>
      BY <2>11 DEF ChunkFail, Return
    <3>2. UNCHANGED status \/ status' = [status EXCEPT ![up[r]] = "failed"]
      BY <2>11 DEF ChunkFail, MarkFailed
    <3>3. QED
      BY <3>1, <3>2 DEF LockedSteps
  <2>12. ASSUME NEW r \in Requests, CompleteCreate(r) PROVE Finished'
    BY <2>12 DEF CompleteCreate, GoTo
  <2>13. ASSUME NEW r \in Requests, CompleteCreateFail(r) PROVE Finished'
    BY <2>13 DEF CompleteCreateFail, Return, MarkFailed
  <2>14. ASSUME NEW r \in Requests, CompleteMerge(r) PROVE Finished'
    BY <2>14 DEF CompleteMerge
  <2>15. ASSUME NEW r \in Requests, CompleteAbort(r) PROVE Finished'
    BY <2>15 DEF CompleteAbort, GoTo
  <2>16. ASSUME NEW r \in Requests, CompleteMarkFailed(r) PROVE Finished'
    BY <2>16 DEF CompleteMarkFailed, Return, MarkFailed
  <2>17. ASSUME NEW r \in Requests, CompleteUpdate(r) PROVE Finished'
    BY <2>17 DEF CompleteUpdate, GoTo
  <2>18. ASSUME NEW r \in Requests, CompleteForget(r) PROVE Finished'
    BY <2>18 DEF CompleteForget, GoTo, DropSession
  <2>19. ASSUME NEW r \in Requests, CompleteClean(r) PROVE Finished'
    BY <2>19 DEF CompleteClean, Return
  <2>20. ASSUME NEW r \in Requests, FailMark(r) PROVE Finished'
    <3>1. CASE Return(r) /\ UNCHANGED status
      BY <2>20, <3>1 DEF FailMark, Return
    <3>2. CASE /\ status' = [status EXCEPT ![up[r]] = "failed"]
               /\ GoTo(r, "drop")
               /\ UNCHANGED <<up, locals>>
      BY <2>20, <3>2 DEF FailMark, GoTo
    <3>3. QED
      BY <2>20, <3>1, <3>2 DEF FailMark
  <2>21. ASSUME NEW r \in Requests, FailDrop(r) PROVE Finished'
    BY <2>21 DEF FailDrop, Return, DropSession
  <2>22. ASSUME Crash PROVE Finished'
    BY <2>22 DEF Crash
  <2>23. ASSUME UNCHANGED vars PROVE Finished'
    BY <2>23 DEF vars
  <2>24. QED
    BY <2>1, <2>2, <2>3, <2>4, <2>5, <2>6, <2>7, <2>8, <2>9, <2>10, <2>11, <2>12,
       <2>13, <2>14, <2>15, <2>16, <2>17, <2>18, <2>19, <2>20, <2>21, <2>22, <2>23
    DEF Next, Arrive, Work
<1>3. QED
  BY <1>1, <1>2, TypeCorrect, RowFirstHolds, PTL DEF Spec

\* No two requests at once: that is all it takes for completed files to be whole.
LEMMA AloneFilesWhole == Spec /\ []OneAtATime => []CompletedIsWhole
<1>1. Init => CompletedIsWhole
  BY DEF Init, CompletedIsWhole
<1>2. TypeOK /\ Finished /\ MergeProgress /\ CompletedIsWhole /\ [Next]_vars => CompletedIsWhole'
  <2> SUFFICES ASSUME TypeOK, Finished, MergeProgress, CompletedIsWhole, [Next]_vars PROVE CompletedIsWhole'
    OBVIOUS
  <2> USE DEF CompletedIsWhole, Whole, MergeProgress, Finished, TypeOK, Busy, Steps, ChunkSteps, CompleteSteps, LockedSteps, dbVars, memVars, locals, histVars
  <2>1. ASSUME NEW r \in Requests, NEW u \in Uploads, GenerateInsert(r, u) PROVE CompletedIsWhole'
    BY <2>1 DEF GenerateInsert, GoTo
  <2>2. ASSUME NEW r \in Requests, NEW u \in Uploads, NEW i \in Indexes, ChunkAdmit(r, u, i) PROVE CompletedIsWhole'
    BY <2>2 DEF ChunkAdmit, Serve, GoTo
  <2>3. ASSUME NEW r \in Requests, NEW u \in Uploads, CompleteAdmit(r, u) PROVE CompletedIsWhole'
    BY <2>3 DEF CompleteAdmit, Serve, GoTo
  <2>4. ASSUME NEW r \in Requests, NEW u \in Uploads, FailAdmit(r, u) PROVE CompletedIsWhole'
    BY <2>4 DEF FailAdmit, Serve, GoTo
  <2>5. ASSUME NEW r \in Requests, GenerateRegister(r) PROVE CompletedIsWhole'
    BY <2>5 DEF GenerateRegister, Return
  <2>6. ASSUME NEW r \in Requests, ChunkGetMutex(r) PROVE CompletedIsWhole'
    BY <2>6 DEF ChunkGetMutex, GoTo
  <2>7. ASSUME NEW r \in Requests, ChunkLock(r) PROVE CompletedIsWhole'
    BY <2>7 DEF ChunkLock, GoTo
  <2>8. ASSUME NEW r \in Requests, ChunkDir(r) PROVE CompletedIsWhole'
    BY <2>8 DEF ChunkDir, GoTo
  <2>9. ASSUME NEW r \in Requests, ChunkTemp(r) PROVE CompletedIsWhole'
    BY <2>9 DEF ChunkTemp, GoTo
  <2>10. ASSUME NEW r \in Requests, ChunkRecord(r) PROVE CompletedIsWhole'
    BY <2>10 DEF ChunkRecord, Return
  <2>11. ASSUME NEW r \in Requests, ChunkFail(r) PROVE CompletedIsWhole'
    <3>1. /\ pc[r] \in LockedSteps
          /\ pc' = [pc EXCEPT ![r] = "idle"]
          /\ up' = [up EXCEPT ![r] = NoUpload]
          /\ UNCHANGED <<sessions, stored, lost>>
      BY <2>11 DEF ChunkFail, Return
    <3>2. UNCHANGED status \/ status' = [status EXCEPT ![up[r]] = "failed"]
      BY <2>11 DEF ChunkFail, MarkFailed
    <3>3. QED
      BY <3>1, <3>2 DEF LockedSteps
  <2>12. ASSUME NEW r \in Requests, CompleteCreate(r) PROVE CompletedIsWhole'
    BY <2>12 DEF CompleteCreate, GoTo
  <2>13. ASSUME NEW r \in Requests, CompleteCreateFail(r) PROVE CompletedIsWhole'
    BY <2>13 DEF CompleteCreateFail, Return, MarkFailed
  <2>14. ASSUME NEW r \in Requests, CompleteMerge(r) PROVE CompletedIsWhole'
    BY <2>14 DEF CompleteMerge
  <2>15. ASSUME NEW r \in Requests, CompleteAbort(r) PROVE CompletedIsWhole'
    BY <2>15 DEF CompleteAbort, GoTo
  <2>16. ASSUME NEW r \in Requests, CompleteMarkFailed(r) PROVE CompletedIsWhole'
    BY <2>16 DEF CompleteMarkFailed, Return, MarkFailed
  <2>17. ASSUME NEW r \in Requests, CompleteUpdate(r) PROVE CompletedIsWhole'
    <3>1. /\ pc[r] = "merge"
          /\ ix[r] = TotalChunks[up[r]]
          /\ UNCHANGED stored
          /\ \/ UNCHANGED status
             \/ status' = [status EXCEPT ![up[r]] = "completed"]
      BY <2>17 DEF CompleteUpdate
    <3>2. up[r] \in Uploads /\ TotalChunks[up[r]] \in Int
      BY <3>1, TotalAssumption
    <3>3. stored[up[r]] # NoFile
      BY <3>1
    <3>4. \A i \in 0 .. (TotalChunks[up[r]] - 1) : stored[up[r]][i] \in {up[r]} \X {i} \X Tags
      <4>1. SUFFICES ASSUME NEW i \in 0 .. (TotalChunks[up[r]] - 1)
                     PROVE stored[up[r]][i] \in {up[r]} \X {i} \X Tags
        OBVIOUS
      <4>2. i \in Indexes
        BY <3>2, IndexesCoverTotals
      <4>3. 0 <= i /\ i < ix[r]
        BY <3>1, <3>2
      <4>4. QED
        BY <3>1, <4>2, <4>3
    <3>5. QED
      BY <3>1, <3>2, <3>3, <3>4
  <2>18. ASSUME NEW r \in Requests, CompleteForget(r) PROVE CompletedIsWhole'
    BY <2>18 DEF CompleteForget, GoTo, DropSession
  <2>19. ASSUME NEW r \in Requests, CompleteClean(r) PROVE CompletedIsWhole'
    BY <2>19 DEF CompleteClean, Return
  <2>20. ASSUME NEW r \in Requests, FailMark(r) PROVE CompletedIsWhole'
    <3>1. CASE Return(r) /\ UNCHANGED status
      BY <2>20, <3>1 DEF FailMark, Return
    <3>2. CASE /\ status' = [status EXCEPT ![up[r]] = "failed"]
               /\ GoTo(r, "drop")
               /\ UNCHANGED <<up, locals>>
      BY <2>20, <3>2 DEF FailMark, GoTo
    <3>3. QED
      BY <2>20, <3>1, <3>2 DEF FailMark
  <2>21. ASSUME NEW r \in Requests, FailDrop(r) PROVE CompletedIsWhole'
    BY <2>21 DEF FailDrop, Return, DropSession
  <2>22. ASSUME Crash PROVE CompletedIsWhole'
    BY <2>22 DEF Crash
  <2>23. ASSUME UNCHANGED vars PROVE CompletedIsWhole'
    BY <2>23 DEF vars
  <2>24. QED
    BY <2>1, <2>2, <2>3, <2>4, <2>5, <2>6, <2>7, <2>8, <2>9, <2>10, <2>11, <2>12,
       <2>13, <2>14, <2>15, <2>16, <2>17, <2>18, <2>19, <2>20, <2>21, <2>22, <2>23
    DEF Next, Arrive, Work
<1>3. QED
  BY <1>1, <1>2, TypeCorrect, FinishedHolds, MergeProgressHolds, PTL DEF Spec

\* For a client that awaits its answers, and whatever fails or crashes: a row is
\* completed only while the stored file holds every chunk in its place.
THEOREM CompletedFilesWhole ==
  ASSUME Awaits PROVE Spec => []CompletedIsWhole
  BY AloneFilesWhole, OneAtATimeHolds, PTL
-----------------------------------------------------------------------------
(* The chunks of a session.  CompleteClean removes chunk files only when nothing
   is left that could count them: no session, and no chunk request that would
   write the session back. *)

InUse(u) == sessions[u] # "none" \/ \E r \in Requests : pc[r] \in ChunkSteps /\ up[r] = u

ChunksKept ==
  /\ \A u \in Uploads, i \in Indexes :
       (InUse(u) /\ chunks[u][i] # NoFile) => disk[chunks[u][i]] = "whole"
  /\ \A r \in Requests : pc[r] = "clean" => sessions[up[r]] = "none"
  /\ \A r \in Requests : pc[r] = "copy" =>
       \A f \in files[r] : \A u \in Uploads, i \in Indexes : chunks[u][i] # f
  /\ \A r \in Requests :
       pc[r] \in {"idle", "register", "fail", "drop", "get", "lock", "dir", "temp", "create"}
         => files[r] = {}
  /\ \A r \in Requests : pc[r] \in {"merge", "abort", "forget", "clean"} =>
       files[r] \subseteq {up[r]} \X Indexes \X Tags

LEMMA ChunksKeptHolds ==
  Spec /\ []OneAtATime => []ChunksKept
<1>1. Init => ChunksKept
  BY DEF Init, ChunksKept, InUse, NoChunks, ChunkSteps
<1>2. TypeOK /\ OneAtATime /\ ChunkFlow /\ ChunksKept /\ [Next]_vars => ChunksKept'
  <2> SUFFICES ASSUME TypeOK, OneAtATime, ChunkFlow, ChunksKept, [Next]_vars PROVE ChunksKept'
    OBVIOUS
  <2> USE DEF ChunksKept, InUse, OneAtATime, NoOverlap, RegisterFirst, ChunkFlow, TypeOK, Busy, Steps, ChunkSteps,
              CompleteSteps, LockedSteps, dbVars, memVars, locals, histVars
  <2>1. ASSUME NEW r \in Requests, NEW u \in Uploads, GenerateInsert(r, u) PROVE ChunksKept'
    BY <2>1 DEF GenerateInsert, GoTo
  <2>2. ASSUME NEW r \in Requests, NEW u \in Uploads, NEW i \in Indexes, ChunkAdmit(r, u, i) PROVE ChunksKept'
    BY <2>2 DEF ChunkAdmit, Serve, GoTo
  <2>3. ASSUME NEW r \in Requests, NEW u \in Uploads, CompleteAdmit(r, u) PROVE ChunksKept'
    BY <2>3 DEF CompleteAdmit, Serve, GoTo
  <2>4. ASSUME NEW r \in Requests, NEW u \in Uploads, FailAdmit(r, u) PROVE ChunksKept'
    BY <2>4 DEF FailAdmit, Serve, GoTo
  <2>5. ASSUME NEW r \in Requests, GenerateRegister(r) PROVE ChunksKept'
    <3>1. /\ up[r] \in Uploads
          /\ sessions' = [sessions EXCEPT ![up[r]] = "new"]
          /\ chunks' = [chunks EXCEPT ![up[r]] = NoChunks]
          /\ pc[r] = "register" /\ pc' = [pc EXCEPT ![r] = "idle"]
          /\ up' = [up EXCEPT ![r] = NoUpload]
          /\ files' = [files EXCEPT ![r] = {}]
          /\ UNCHANGED disk
      BY <2>5 DEF GenerateRegister, Return
    <3>2. \A u \in Uploads, i \in Indexes : chunks'[u][i] # NoFile => chunks'[u][i] = chunks[u][i] /\ u # up[r]
      BY <3>1 DEF NoChunks
    <3>3. \A u \in Uploads : u # up[r] => (InUse(u)' => InUse(u))
      BY <3>1
    <3>4. \A u \in Uploads, i \in Indexes :
            (InUse(u)' /\ chunks'[u][i] # NoFile) => disk'[chunks'[u][i]] = "whole"
      BY <3>1, <3>2, <3>3
    <3>5. \A q \in Requests : pc'[q] = "clean" => sessions'[up'[q]] = "none"
      BY <3>1
    <3>6. \A q \in Requests : pc'[q] = "copy" =>
            \A f \in files'[q] : \A u \in Uploads, i \in Indexes : chunks'[u][i] # f
      <4> SUFFICES ASSUME NEW q \in Requests, pc'[q] = "copy", NEW f \in files'[q],
                          NEW u \in Uploads, NEW i \in Indexes
                   PROVE chunks'[u][i] # f
        OBVIOUS
      <4>1. pc[q] = "copy" /\ f \in files[q] /\ f # NoFile
        BY <3>1, MarkerAssumption
      <4>2. QED
        BY <4>1, <3>2
    <3>7. QED
      BY <3>1, <3>4, <3>5, <3>6
  <2>6. ASSUME NEW r \in Requests, ChunkGetMutex(r) PROVE ChunksKept'
    BY <2>6 DEF ChunkGetMutex, GoTo
  <2>7. ASSUME NEW r \in Requests, ChunkLock(r) PROVE ChunksKept'
    BY <2>7 DEF ChunkLock, GoTo
  <2>8. ASSUME NEW r \in Requests, ChunkDir(r) PROVE ChunksKept'
    BY <2>8 DEF ChunkDir, GoTo
  <2>9. ASSUME NEW r \in Requests, ChunkTemp(r) PROVE ChunksKept'
    <3>1. PICK t \in Tags :
            /\ NewName(<<up[r], ix[r], t>>)
            /\ disk' = [disk EXCEPT ![<<up[r], ix[r], t>>] = "partial"]
            /\ files' = [files EXCEPT ![r] = {<<up[r], ix[r], t>>}]
      BY <2>9 DEF ChunkTemp
    <3>2. \A u \in Uploads, i \in Indexes : chunks[u][i] # <<up[r], ix[r], t>>
      BY <3>1 DEF NewName
    <3>3. \A u \in Uploads, i \in Indexes :
            chunks[u][i] # NoFile => disk'[chunks[u][i]] = disk[chunks[u][i]]
      BY <3>1, <3>2
    <3>4. pc[r] = "temp" /\ pc' = [pc EXCEPT ![r] = "copy"] /\ UNCHANGED <<sessions, chunks, up>>
      BY <2>9 DEF ChunkTemp, GoTo
    <3>5. \A q \in Requests : pc'[q] = "copy" =>
            \A f \in files'[q] : \A u \in Uploads, i \in Indexes : chunks'[u][i] # f
      <4> SUFFICES ASSUME NEW q \in Requests, pc'[q] = "copy" PROVE
            \A f \in files'[q] : \A u \in Uploads, i \in Indexes : chunks'[u][i] # f
        OBVIOUS
      <4>1. CASE q = r
        <5>1. files \in [Requests -> SUBSET ChunkFiles] /\ r \in Requests
          OBVIOUS
        <5>2. files'[q] = {<<up[r], ix[r], t>>}
          BY ONLY <3>1, <4>1, <5>1
        <5>3. chunks' = chunks
          BY <3>4
        <5>4. QED
          BY ONLY <5>2, <3>2, <5>3
      <4>2. CASE q # r
        <5>1. pc[q] = "copy" /\ files'[q] = files[q]
          BY <3>1, <3>4, <4>2
        <5>2. QED
          BY <5>1, <3>4
      <4>3. QED
        BY <4>1, <4>2
    <3>6. \A u \in Uploads : InUse(u)' => InUse(u)
      BY <3>4
    <3>7. \A q \in Requests : q # r => pc'[q] = pc[q] /\ files'[q] = files[q] /\ up'[q] = up[q]
      BY <3>1, <3>4
    <3>8. pc'[r] = "copy"
      BY <3>4
    <3>9. QED
      BY <3>3, <3>4, <3>5, <3>6, <3>7, <3>8
  <2>10. ASSUME NEW r \in Requests, ChunkRecord(r) PROVE ChunksKept'
    BY <2>10 DEF ChunkRecord, Return
  <2>11. ASSUME NEW r \in Requests, ChunkFail(r) PROVE ChunksKept'
    BY <2>11 DEF ChunkFail, Return, MarkFailed
  <2>12. ASSUME NEW r \in Requests, CompleteCreate(r) PROVE ChunksKept'
    BY <2>12 DEF CompleteCreate, GoTo, NoChunks
  <2>13. ASSUME NEW r \in Requests, CompleteCreateFail(r) PROVE ChunksKept'
    BY <2>13 DEF CompleteCreateFail, Return, MarkFailed
  <2>14. ASSUME NEW r \in Requests, CompleteMerge(r) PROVE ChunksKept'
    <3>1. /\ pc[r] = "merge" /\ ix[r] \in Indexes /\ up[r] \in Uploads
          /\ files' = [files EXCEPT ![r] = files[r] \cup {chunks[up[r]][ix[r]]}]
          /\ chunks[up[r]][ix[r]] # NoFile
          /\ UNCHANGED <<pc, up, sessions, chunks, disk>>
      BY <2>14, TotalAssumption, IndexesCoverTotals DEF CompleteMerge
    <3>2. chunks[up[r]][ix[r]] \in {up[r]} \X Indexes \X Tags
      BY <3>1
    <3>3. \A q \in Requests : q # r => files'[q] = files[q]
      BY <3>1
    <3>4. files'[r] \subseteq {up[r]} \X Indexes \X Tags
      BY <3>1, <3>2
    <3>5. \A q \in Requests : pc'[q] = "copy" =>
            \A f \in files'[q] : \A u \in Uploads, i \in Indexes : chunks'[u][i] # f
      <4> SUFFICES ASSUME NEW q \in Requests, pc'[q] = "copy" PROVE
            \A f \in files'[q] : \A u \in Uploads, i \in Indexes : chunks'[u][i] # f
        OBVIOUS
      <4>1. pc[q] = "copy" /\ files'[q] = files[q]
        BY <3>1, <3>3
      <4>2. QED
        BY <3>1, <4>1
    <3>6. \A q \in Requests : pc'[q] \in {"merge", "abort", "forget", "clean"} =>
            files'[q] \subseteq {up'[q]} \X Indexes \X Tags
      BY <3>1, <3>3, <3>4
    <3>7. \A u \in Uploads : InUse(u)' <=> InUse(u)
      BY <3>1
    <3>8. \A u \in Uploads, i \in Indexes :
            (InUse(u)' /\ chunks'[u][i] # NoFile) => disk'[chunks'[u][i]] = "whole"
      BY <3>1, <3>7
    <3>9. \A q \in Requests : pc'[q] \in {"idle", "register", "fail", "drop", "get", "lock",
            "dir", "temp", "create"} => files'[q] = {}
      BY <3>1, <3>3
    <3>10. QED
      BY <3>1, <3>5, <3>6, <3>8, <3>9
  <2>15. ASSUME NEW r \in Requests, CompleteAbort(r) PROVE ChunksKept'
    BY <2>15 DEF CompleteAbort, GoTo
  <2>16. ASSUME NEW r \in Requests, CompleteMarkFailed(r) PROVE ChunksKept'
    BY <2>16 DEF CompleteMarkFailed, Return, MarkFailed
  <2>17. ASSUME NEW r \in Requests, CompleteUpdate(r) PROVE ChunksKept'
    BY <2>17 DEF CompleteUpdate, GoTo
  <2>18. ASSUME NEW r \in Requests, CompleteForget(r) PROVE ChunksKept'
    BY <2>18 DEF CompleteForget, GoTo, DropSession
  <2>19. ASSUME NEW r \in Requests, CompleteClean(r) PROVE ChunksKept'
    BY <2>19 DEF CompleteClean, Return
  <2>20. ASSUME NEW r \in Requests, FailMark(r) PROVE ChunksKept'
    <3>1. CASE Return(r) /\ UNCHANGED status
      BY <2>20, <3>1 DEF FailMark, Return
    <3>2. CASE /\ status' = [status EXCEPT ![up[r]] = "failed"]
               /\ GoTo(r, "drop")
               /\ UNCHANGED <<up, locals>>
      BY <2>20, <3>2 DEF FailMark, GoTo
    <3>3. QED
      BY <2>20, <3>1, <3>2 DEF FailMark
  <2>21. ASSUME NEW r \in Requests, FailDrop(r) PROVE ChunksKept'
    BY <2>21 DEF FailDrop, Return, DropSession
  <2>22. ASSUME Crash PROVE ChunksKept'
    BY <2>22 DEF Crash, NoChunks
  <2>23. ASSUME UNCHANGED vars PROVE ChunksKept'
    BY <2>23 DEF vars
  <2>24. QED
    BY <2>1, <2>2, <2>3, <2>4, <2>5, <2>6, <2>7, <2>8, <2>9, <2>10, <2>11, <2>12,
       <2>13, <2>14, <2>15, <2>16, <2>17, <2>18, <2>19, <2>20, <2>21, <2>22, <2>23
    DEF Next, Arrive, Work
<1>3. QED
  BY <1>1, <1>2, TypeCorrect, ChunkFlowHolds, PTL DEF Spec

\* For a client that awaits its answers the chunk files a session counts are there,
\* complete, whatever the requests of other uploads remove.
THEOREM SessionsHaveTheirChunks ==
  ASSUME Awaits PROVE Spec => []SessionChunksOnDisk
<1>1. ChunksKept => SessionChunksOnDisk
  BY DEF ChunksKept, SessionChunksOnDisk, InUse
<1>2. QED
  BY <1>1, ChunksKeptHolds, OneAtATimeHolds, PTL

\* A completed row leaves its state only by a request to the fail route.
LEMMA AloneRowsStay == Spec /\ []OneAtATime => CompletedStays
<1> DEFINE Stays == \A u \in Uploads :
       status[u] = "completed" =>
         \/ status'[u] = "completed"
         \/ \E r \in Requests : up[r] = u /\ pc[r] = "fail" /\ pc'[r] = "drop"
<1>1. TypeOK /\ RowFirst /\ OneAtATime /\ Finished /\ [Next]_vars => Stays
  <2> SUFFICES ASSUME TypeOK, RowFirst, OneAtATime, Finished, [Next]_vars PROVE Stays
    OBVIOUS
  <2> USE DEF Finished, OneAtATime, NoOverlap, RegisterFirst, RowFirst, TypeOK, Busy, Steps, ChunkSteps,
              CompleteSteps, LockedSteps, dbVars, memVars, locals, histVars
  <2>1. ASSUME NEW r \in Requests, NEW u \in Uploads, GenerateInsert(r, u) PROVE Stays
    BY <2>1 DEF GenerateInsert, GoTo
  <2>2. ASSUME NEW r \in Requests, NEW u \in Uploads, NEW i \in Indexes, ChunkAdmit(r, u, i) PROVE Stays
    BY <2>2 DEF ChunkAdmit, Serve, GoTo
  <2>3. ASSUME NEW r \in Requests, NEW u \in Uploads, CompleteAdmit(r, u) PROVE Stays
    BY <2>3 DEF CompleteAdmit, Serve, GoTo
  <2>4. ASSUME NEW r \in Requests, NEW u \in Uploads, FailAdmit(r, u) PROVE Stays
    BY <2>4 DEF FailAdmit, Serve, GoTo
  <2>5. ASSUME NEW r \in Requests, GenerateRegister(r) PROVE Stays
    BY <2>5 DEF GenerateRegister, Return, NoChunks
  <2>6. ASSUME NEW r \in Requests, ChunkGetMutex(r) PROVE Stays
    BY <2>6 DEF ChunkGetMutex, GoTo
  <2>7. ASSUME NEW r \in Requests, ChunkLock(r) PROVE Stays
    BY <2>7 DEF ChunkLock, GoTo
  <2>8. ASSUME NEW r \in Requests, ChunkDir(r) PROVE Stays
    BY <2>8 DEF ChunkDir, GoTo
  <2>9. ASSUME NEW r \in Requests, ChunkTemp(r) PROVE Stays
    BY <2>9 DEF ChunkTemp, GoTo
  <2>10. ASSUME NEW r \in Requests, ChunkRecord(r) PROVE Stays
    BY <2>10 DEF ChunkRecord, Return
  <2>11. ASSUME NEW r \in Requests, ChunkFail(r) PROVE Stays
    <3>1. up[r] \in Uploads /\ status[up[r]] # "completed"
      BY <2>11 DEF ChunkFail
    <3>2. UNCHANGED status \/ status' = [status EXCEPT ![up[r]] = "failed"]
      BY <2>11 DEF ChunkFail, MarkFailed
    <3>3. QED
      BY <3>1, <3>2
  <2>12. ASSUME NEW r \in Requests, CompleteCreate(r) PROVE Stays
    BY <2>12 DEF CompleteCreate, GoTo, NoChunks
  <2>13. ASSUME NEW r \in Requests, CompleteCreateFail(r) PROVE Stays
    <3>1. up[r] \in Uploads /\ status[up[r]] # "completed"
      BY <2>13 DEF CompleteCreateFail
    <3>2. UNCHANGED status \/ status' = [status EXCEPT ![up[r]] = "failed"]
      BY <2>13 DEF CompleteCreateFail, MarkFailed
    <3>3. QED
      BY <3>1, <3>2
  <2>14. ASSUME NEW r \in Requests, CompleteMerge(r) PROVE Stays
    BY <2>14 DEF CompleteMerge
  <2>15. ASSUME NEW r \in Requests, CompleteAbort(r) PROVE Stays
    BY <2>15 DEF CompleteAbort, GoTo
  <2>16. ASSUME NEW r \in Requests, CompleteMarkFailed(r) PROVE Stays
    <3>1. up[r] \in Uploads /\ status[up[r]] # "completed"
      BY <2>16 DEF CompleteMarkFailed
    <3>2. UNCHANGED status \/ status' = [status EXCEPT ![up[r]] = "failed"]
      BY <2>16 DEF CompleteMarkFailed, MarkFailed
    <3>3. QED
      BY <3>1, <3>2
  <2>17. ASSUME NEW r \in Requests, CompleteUpdate(r) PROVE Stays
    BY <2>17 DEF CompleteUpdate, GoTo
  <2>18. ASSUME NEW r \in Requests, CompleteForget(r) PROVE Stays
    BY <2>18 DEF CompleteForget, GoTo, DropSession
  <2>19. ASSUME NEW r \in Requests, CompleteClean(r) PROVE Stays
    BY <2>19 DEF CompleteClean, Return
  <2>20. ASSUME NEW r \in Requests, FailMark(r) PROVE Stays
    <3>1. CASE Return(r) /\ UNCHANGED status
      BY <2>20, <3>1 DEF FailMark, Return
    <3>2. CASE /\ status' = [status EXCEPT ![up[r]] = "failed"]
               /\ GoTo(r, "drop")
               /\ UNCHANGED <<up, locals>>
      BY <2>20, <3>2 DEF FailMark, GoTo
    <3>3. QED
      BY <2>20, <3>1, <3>2 DEF FailMark
  <2>21. ASSUME NEW r \in Requests, FailDrop(r) PROVE Stays
    BY <2>21 DEF FailDrop, Return, DropSession
  <2>22. ASSUME Crash PROVE Stays
    BY <2>22 DEF Crash, NoChunks
  <2>23. ASSUME UNCHANGED vars PROVE Stays
    BY <2>23 DEF vars
  <2>24. QED
    BY <2>1, <2>2, <2>3, <2>4, <2>5, <2>6, <2>7, <2>8, <2>9, <2>10, <2>11, <2>12,
       <2>13, <2>14, <2>15, <2>16, <2>17, <2>18, <2>19, <2>20, <2>21, <2>22, <2>23
    DEF Next, Arrive, Work
<1>2. QED
  BY <1>1, TypeCorrect, RowFirstHolds, FinishedHolds, PTL DEF Spec, CompletedStays

\* For such a client nothing but a request to the fail route that was already being
\* served takes a completed row out of its state.
THEOREM CompletedRowsStay ==
  ASSUME Awaits PROVE Spec => CompletedStays
  BY AloneRowsStay, OneAtATimeHolds, PTL
=============================================================================
