-------------------------- MODULE UploadRefinement ---------------------------
(***************************************************************************)
(* The upload handlers implement UploadPromise.  A completed row whose     *)
(* stored file is not whole maps to "broken", which UploadPromise has not. *)
(***************************************************************************)
EXTENDS UploadSession

Offer(u) ==
  CASE status[u] = "none" -> "absent"
    [] status[u] = "pending" -> "uploading"
    [] status[u] = "failed" -> "failed"
    [] status[u] = "completed" -> IF Whole(u) THEN "available" ELSE "broken"

Promise == INSTANCE UploadPromise WITH offer <- [u \in Uploads |-> Offer(u)]

\* For a client that awaits its answers, every step of a handler and every crash
\* is a step of UploadPromise or leaves the owner's view as it is: names stay
\* unique through failures and late updates, available files stay whole.
PromiseKept == Promise!Spec
=============================================================================
