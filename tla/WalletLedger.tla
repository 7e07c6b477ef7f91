---------------------------- MODULE WalletLedger ----------------------------
(***************************************************************************)
(* What the wallet promises its callers, without transactions, row locks   *)
(* or unique indexes: a call either moves the money of one wallet, appends *)
(* its row and takes the key in a single step; or is a replay of a key     *)
(* that is taken; or is refused for a reason that is true at that moment;  *)
(* or fails and leaves nothing behind.  An answer may get lost on its way  *)
(* to the caller, whether or not the money moved: that is what the         *)
(* idempotency key is for.                                                 *)
(***************************************************************************)
EXTENDS LedgerRows

CONSTANTS
    Requests,    \* concurrent requests
    Offered      \* the calls the environment makes, a subset of Calls

VARIABLES
    wallet,      \* the `wallets` table: a row or NoWallet for each workspace
    ledger,      \* `wallet_transactions`: the rows of each workspace's wallet
    call,        \* the call each request is about
    answer       \* what its caller has heard

ledgerVars == <<wallet, ledger, call, answer>>

KeyTaken(k) == \E w \in Workspaces : \E n \in 1 .. Len(ledger[w]) : ledger[w][n].key = k

Ask(r, c) ==
    /\ answer[r] # "pending"
    /\ call' = [call EXCEPT ![r] = c]
    /\ answer' = [answer EXCEPT ![r] = "pending"]
    /\ UNCHANGED <<wallet, ledger>>

Answer(r, what) ==
    /\ answer[r] = "pending"
    /\ answer' = [answer EXCEPT ![r] = what]

\* The wallets of some workspaces that have none come into being, empty.
Open(ws) ==
    /\ \A w \in ws : wallet[w] = NoWallet
    /\ wallet' = [w \in Workspaces |->
                    IF w \in ws THEN ZeroWallet(DefaultCurrency[w]) ELSE wallet[w]]
    /\ UNCHANGED <<ledger, call, answer>>

\* A staff call takes the currency of the wallet it resolved.
Resolve(r) ==
    /\ call[r].via # "caller"
    /\ wallet[call[r].ws] # NoWallet
    /\ call' = [call EXCEPT ![r].currency = wallet[call[r].ws].currency]
    /\ answer' \in {answer, [answer EXCEPT ![r] = "found"]}
    /\ answer[r] = "pending"
    /\ UNCHANGED <<wallet, ledger>>

\* The money moves, at once in the ledger and in the cached balance.
Move(r) ==
    LET c == call[r]
        w == wallet[c.ws]
    IN  /\ w # NoWallet
        /\ ~ KeyTaken(c.key)
        /\ c.amount > 0
        /\ c.currency = w.currency
        /\ Covered(w, c)
        /\ Fits(w, c)
        /\ ledger' = [ledger EXCEPT ![c.ws] = Append(@, RowFor(w, c))]
        /\ wallet' = [wallet EXCEPT ![c.ws] = SavedWallet(w, c)]
        /\ \E what \in {"moved", "lost"} : Answer(r, what)
        /\ UNCHANGED call

Replay(r) ==
    /\ KeyTaken(call[r].key)
    /\ Answer(r, "replayed")
    /\ UNCHANGED <<wallet, ledger, call>>

\* The reasons for which a call may be turned away, each true when it is given.
Reason(r, why) ==
    LET c == call[r]
        w == wallet[c.ws]
    IN  CASE why = "WALLET_AMOUNT_INVALID" -> c.amount <= 0
          [] why = "WALLET_NOT_FOUND" -> c.via = "caller" /\ w = NoWallet
          [] why = "WALLET_CURRENCY_MISMATCH" ->
                 c.via = "caller" /\ w # NoWallet /\ c.currency # w.currency
          [] why = "INSUFFICIENT_FUNDS" -> w # NoWallet /\ NewBalance(w, c) < 0
          [] why = "INSUFFICIENT_HELD" -> w # NoWallet /\ NewHeld(w, c) < 0

Refusals == {"WALLET_AMOUNT_INVALID", "WALLET_NOT_FOUND", "WALLET_CURRENCY_MISMATCH",
             "INSUFFICIENT_FUNDS", "INSUFFICIENT_HELD"}

Refuse(r) ==
    /\ \E why \in Refusals : Reason(r, why) /\ Answer(r, why)
    /\ UNCHANGED <<wallet, ledger, call>>

Fail(r) ==
    /\ \E what \in {"failed", "lost"} : Answer(r, what)
    /\ UNCHANGED <<wallet, ledger, call>>

Init ==
    /\ \E old \in SUBSET Workspaces :
         wallet = [w \in Workspaces |->
                     IF w \in old THEN NoWallet ELSE ZeroWallet(DefaultCurrency[w])]
    /\ ledger = [w \in Workspaces |-> <<>>]
    /\ call = [r \in Requests |-> CHOOSE c \in Offered : TRUE]
    /\ answer = [r \in Requests |-> "idle"]

Next ==
    \/ \E ws \in SUBSET Workspaces : Open(ws)
    \/ \E r \in Requests :
         \/ \E c \in Offered : Ask(r, c)
         \/ Resolve(r) \/ Move(r) \/ Replay(r) \/ Refuse(r) \/ Fail(r)

Spec == Init /\ [][Next]_ledgerVars
=============================================================================
