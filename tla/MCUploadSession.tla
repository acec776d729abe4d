--------------------------- MODULE MCUploadSession ---------------------------
(***************************************************************************)
(* Instances of UploadSession: one upload in one or two chunks.            *)
(***************************************************************************)
EXTENDS UploadSession, TLC

CONSTANTS first, someName

OneChunk == first :> 1
TwoChunks == first :> 2
OneName == first :> someName

OnlyZero == {0}
ZeroToOne == 0 .. 1
MinusOneToOne == -1 .. 1

Symmetry == Permutations(Requests) \cup Permutations(Mutexes) \cup Permutations(Tags)
=============================================================================
