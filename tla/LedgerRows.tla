----------------------------- MODULE LedgerRows -----------------------------
(***************************************************************************)
(* The rows of `wallets` and `wallet_transactions` and the arithmetic that *)
(* wallet.service.ts does on them: what each kind of movement adds to the  *)
(* two balances of a wallet, what the row it appends says, and what it     *)
(* means for a list of rows to be a running total.  No state of its own.   *)
(***************************************************************************)
EXTENDS Integers, Sequences

CONSTANTS
    Workspaces,       \* workspaces that exist; a wallet belongs to one of them
    Currencies,       \* currency codes
    Keys,             \* values of the idempotency key
    MaxMicros,        \* the largest value a bigint column holds
    DefaultCurrency,  \* workspace.defaultCurrency, which never changes
    NoWallet          \* the workspace has no row in `wallets`

ASSUME MaxMicrosAssumption == MaxMicros \in Nat
ASSUME DefaultCurrencyAssumption == DefaultCurrency \in [Workspaces -> Currencies]

\* What a bigint column can store.  A floor check, not the column, keeps it
\* from going negative.
Column == (-MaxMicros - 1) .. MaxMicros

\* wallet_transactions.type
Moves == {"credit", "debit", "hold", "release", "refund"}

\* The MOVEMENTS table: the signed effect of a movement of `amount` micros.
BalanceDelta(move, amount) ==
    IF move \in {"credit", "release", "refund"} THEN amount ELSE -amount
HeldDelta(move, amount) ==
    CASE move = "hold"    -> amount
      [] move = "release" -> -amount
      [] OTHER            -> 0

\* A ledger call: LedgerInput with the method it was given to, and `via`, which
\* tells whether the application called the method itself or staff reached it
\* through AdminWalletsService, which resolves the wallet first; "read" only
\* resolves it.
Calls == [via : {"caller", "staff", "read"}, move : Moves, ws : Workspaces,
          key : Keys, amount : Int, currency : Currencies]

WalletRow == [currency : Currencies, balance : Column, held : Column]
LedgerRow == [type : Moves, amount : Int, key : Keys, currency : Currencies,
              balanceAfter : Column, heldAfter : Column]

ZeroWallet(currency) == [currency |-> currency, balance |-> 0, held |-> 0]

\* The two balances a movement leaves behind in wallet row w.
NewBalance(w, c) == w.balance + BalanceDelta(c.move, c.amount)
NewHeld(w, c)    == w.held + HeldDelta(c.move, c.amount)

\* The floors of step 4 hold, and the INSERT and UPDATE fit their columns.
Covered(w, c) == NewBalance(w, c) >= 0 /\ NewHeld(w, c) >= 0
Fits(w, c)    == /\ NewBalance(w, c) \in Column
                 /\ NewHeld(w, c) \in Column
                 /\ c.amount \in Column

\* The row step 5 inserts for call c under wallet row w, and the wallet row
\* step 6 saves.
RowFor(w, c) == [type |-> c.move, amount |-> c.amount, key |-> c.key,
                 currency |-> w.currency,
                 balanceAfter |-> NewBalance(w, c), heldAfter |-> NewHeld(w, c)]
SavedWallet(w, c) == [w EXCEPT !.balance = NewBalance(w, c),
                               !.held = NewHeld(w, c)]

\* The running totals in front of row n of a list of ledger rows.
BalanceBefore(rows, n) == IF n = 1 THEN 0 ELSE rows[n - 1].balanceAfter
HeldBefore(rows, n)    == IF n = 1 THEN 0 ELSE rows[n - 1].heldAfter

\* Row n carries on from the rows in front of it and stays above the floors.
RowChained(rows, n) ==
    /\ rows[n].balanceAfter
         = BalanceBefore(rows, n) + BalanceDelta(rows[n].type, rows[n].amount)
    /\ rows[n].heldAfter
         = HeldBefore(rows, n) + HeldDelta(rows[n].type, rows[n].amount)
    /\ rows[n].balanceAfter >= 0
    /\ rows[n].heldAfter >= 0
    /\ rows[n].amount > 0

Chained(rows) == \A n \in 1 .. Len(rows) : RowChained(rows, n)
=============================================================================
