----------------------------- MODULE MCAccounts -----------------------------
(* Accounts on a small instance.                                             *)
EXTENDS Accounts, TLC

\* Customers, numbers and requests are alike.
AllAlike == Permutations(Users) \cup Permutations(Numbers) \cup Permutations(Requests)

\* A behaviour is about customers or about partners: they share no row, no index
\* and no endpoint.
OneKind == \E kind \in {Users, Partners} :
             \A s \in Subjects : Exists(s) \/ Busy(s) => s \in kind
=============================================================================
