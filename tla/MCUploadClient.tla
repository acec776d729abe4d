---------------------------- MODULE MCUploadClient ----------------------------
(***************************************************************************)
(* An instance of UploadClient: a file of two chunks, the last one short,  *)
(* and an empty one, uploaded at the same time.                            *)
(***************************************************************************)
EXTENDS UploadClient, TLC

CONSTANTS first, second

ZeroToOne == {0, 1}
Sizes == [u \in Uploads |-> IF u = first THEN 3 ELSE 0]
Announced == [u \in Uploads |-> GetTotalChunks(Sizes[u])]
OwnNames == [u \in Uploads |-> u]
=============================================================================
