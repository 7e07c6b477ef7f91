------------------------------- MODULE Ladder -------------------------------
(***************************************************************************)
(* The price of one (service, country, category) cell: the country base    *)
(* and the ladder of volume rungs that overrides it for a workspace.  Pure *)
(* functions of resolved-rate.ts, rate-resolver.service.ts and the ladder  *)
(* validator; no state.                                                    *)
(***************************************************************************)
EXTENDS Integers, Sequences, FiniteSets, SequencesExt

CONSTANT NoBase      \* there is no active, priced country row

Rungs == [minQty : Nat, sell : Nat]

\* rungsError(value) === null: the thresholds differ and the lowest is 0.
\* A list of no rungs is refused by ArrayMinSize.
Accepted(list) ==
    /\ list # <<>>
    /\ \A i, j \in 1 .. Len(list) : list[i].minQty = list[j].minQty => i = j
    /\ \E i \in 1 .. Len(list) : list[i].minQty = 0

\* The rows of a cell in the order of its query, minQty ascending.
Ascending(list) ==
    \A i, j \in DOMAIN list : i < j => list[i].minQty <= list[j].minQty
InOrder(rows) ==
    CHOOSE list \in Bijection(1 .. Cardinality(rows), rows) : Ascending(list)

\* Where the loop of pickRung ends: every rung so far is at most qty, the next
\* one, if there is one, breaks off.
Stops(rungs, qty, i) ==
    /\ \A j \in 1 .. i : rungs[j].minQty <= qty
    /\ i < Len(rungs) => rungs[i + 1].minQty > qty

PickRung(rungs, qty) == CHOOSE i \in 0 .. Len(rungs) : Stops(rungs, qty, i)

\* Mutant of ResolveCell: the rung whose minQty is just above qty.
ResolveCellAbove(base, rows, qty) ==
    LET rungs == InOrder(rows)
        i == PickRung(rungs, qty)
    IN  IF base = NoBase THEN [tier |-> 0, sell |-> 0]
        ELSE IF i < Len(rungs) THEN [tier |-> 1, sell |-> rungs[i + 1].sell]
        ELSE [tier |-> 2, sell |-> base]

\* resolveCell: the base is required; a rung overrides its price.  Tier 0 is
\* the answer RATE_NOT_CONFIGURED.
ResolveCell(base, rows, qty) ==
    LET rungs == InOrder(rows)
        i == PickRung(rungs, qty)
    IN  IF base = NoBase THEN [tier |-> 0, sell |-> 0]
        ELSE IF i > 0 THEN [tier |-> 1, sell |-> rungs[i].sell]
        ELSE [tier |-> 2, sell |-> base]

\* What the two-tier rule asks for: the rung with the largest minQty that does
\* not exceed qty, and the base where there is none.
IsPrice(price, base, rows, qty) ==
    LET reached == {r \in rows : r.minQty <= qty}
    IN  CASE base = NoBase -> price.tier = 0
          [] base # NoBase /\ reached # {} ->
               /\ price.tier = 1
               /\ \E r \in reached : /\ price.sell = r.sell
                                     /\ \A s \in reached : s.minQty <= r.minQty
          [] base # NoBase /\ reached = {} -> price = [tier |-> 2, sell |-> base]
=============================================================================
