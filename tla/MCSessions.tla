------------------------------ MODULE MCSessions ------------------------------
(***************************************************************************)
(* Instances of Sessions: two accounts, two browsers, two requests.        *)
(***************************************************************************)
EXTENDS Sessions, TLC

Symmetry ==
  Permutations(Accounts) \cup Permutations(Browsers) \cup Permutations(Requests)
    \cup Permutations(SessionIds)
=============================================================================
