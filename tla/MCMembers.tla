------------------------------ MODULE MCMembers ------------------------------
(***************************************************************************)
(* Instances of Members for TLC.                                           *)
(***************************************************************************)
EXTENDS Members, TLC

Symmetry == Permutations(Requests) \cup Permutations(Emails \ {Owner})
=============================================================================
