---------------------------- MODULE MCOnboarding ----------------------------
(* Onboarding on a small instance.                                           *)
EXTENDS Onboarding, TLC

\* The users are of the country that the seed knows.
MCHomeOf == [u \in Users |-> CHOOSE k \in Countries \cap Seeded : TRUE]

AllAlike == Permutations(Requests) \cup Permutations(Users) \cup Permutations(BaseSlugs)
=============================================================================
