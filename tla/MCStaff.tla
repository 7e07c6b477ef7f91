------------------------------- MODULE MCStaff -------------------------------
(* Staff on a small instance.                                                *)
EXTENDS Staff, TLC

\* Requests are alike, and the emails but the first.
AllAlike == Permutations(Requests) \cup Permutations(Emails \ {Bootstrap})
=============================================================================
