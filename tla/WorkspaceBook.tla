---------------------------- MODULE WorkspaceBook ----------------------------
(***************************************************************************)
(* What the creation of workspaces promises (WorkspacesService,            *)
(* src/src/workspaces): a workspace appears in one step, with its owner,   *)
(* its service, its currency and a wallet in this currency, under a slug   *)
(* nobody has; and it stays as it is.                                      *)
(***************************************************************************)
EXTENDS Integers

CONSTANTS Users, Services, Currencies, Slugs

VARIABLE book

Workspace == [slug : Slugs, currency : Currencies, owner : Users, service : Services,
              wallet : Currencies]

Init == book = {}

\* Founding a workspace.
Found(w) ==
    /\ w.wallet = w.currency
    /\ \A v \in book : v.slug # w.slug
    /\ book' = book \cup {w}

Next == \E w \in Workspace : Found(w)

Spec == Init /\ [][Next]_book
=============================================================================
