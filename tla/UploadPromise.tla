---------------------------- MODULE UploadPromise ----------------------------
(***************************************************************************)
(* What uploading promises the owner of the files, without requests,       *)
(* chunks, mutexes or crashes: a file is uploading, available or failed;   *)
(* no two uploading or available files have the same account, name,        *)
(* extension and folder; a file is available only with all its bytes; an   *)
(* upload never goes back to uploading and its entry never disappears.     *)
(***************************************************************************)
CONSTANTS Uploads, UniqueHash

VARIABLE offer

Offers == {"absent", "uploading", "failed", "available"}

NameFree(u) ==
  \A v \in Uploads \ {u} :
    UniqueHash[v] = UniqueHash[u] => offer[v] \notin {"uploading", "available"}

Init == offer = [u \in Uploads |-> "absent"]

Begin(u) ==
  /\ offer[u] = "absent"
  /\ NameFree(u)
  /\ offer' = [offer EXCEPT ![u] = "uploading"]

\* A failed upload may still succeed: its session outlives the error.
Publish(u) ==
  /\ offer[u] \in {"uploading", "failed"}
  /\ NameFree(u)
  /\ offer' = [offer EXCEPT ![u] = "available"]

\* An upload fails; the owner may even call an available file failed.
GiveUp(u) ==
  /\ offer[u] \in {"uploading", "available"}
  /\ offer' = [offer EXCEPT ![u] = "failed"]

Next == \E u \in Uploads : Begin(u) \/ Publish(u) \/ GiveUp(u)

Spec == Init /\ [][Next]_offer
=============================================================================
