-------------------------- MODULE MCUploadRefinement -------------------------
(***************************************************************************)
(* Two uploads of one name, in two chunks and in one: a failed upload is   *)
(* tried again under another id while requests of the first are served.    *)
(***************************************************************************)
EXTENDS UploadRefinement, TLC

CONSTANTS first, second, sameName

TwoAndOne == first :> 2 @@ second :> 1
OneName == first :> sameName @@ second :> sameName
ZeroToOne == 0 .. 1

Symmetry == Permutations(Requests) \cup Permutations(Mutexes)
=============================================================================
