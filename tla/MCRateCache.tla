----------------------------- MODULE MCRateCache -----------------------------
(***************************************************************************)
(* Instances of RateCache for TLC.                                         *)
(***************************************************************************)
EXTENDS RateCache

Rung(minQty, sell) == [minQty |-> minQty, sell |-> sell]

\* A flat override, a ladder that arrives unsorted, and two the validator
\* refuses: one that does not start at 0 and one with a threshold twice.
MCPuts == { <<Rung(0, 7)>>,
            <<Rung(2, 4), Rung(0, 5)>>,
            <<Rung(1, 6)>>,
            <<Rung(0, 7), Rung(0, 5)>> }
=============================================================================
