------------------------------- MODULE Wallet -------------------------------
(***************************************************************************)
(* WalletService of src/src/wallets/wallet.service.ts on PostgreSQL.  Each *)
(* request runs applyTxn in a transaction of its own: it looks its key up, *)
(* locks the wallet row, checks the floors, inserts the ledger row, saves  *)
(* the cached balance and commits.  Between any two of these statements    *)
(* other requests run, and the connection may break, which rolls the       *)
(* transaction back.  Requests that come from staff first resolve the      *)
(* wallet with ensureWallet; the seed script may backfill missing wallets  *)
(* at any time.                                                            *)
(*                                                                         *)
(* The database is READ COMMITTED: a statement sees committed rows only.   *)
(* `wallet` and `ledger` are those; a row that is inserted and not yet     *)
(* committed is the one RowFor(seen[r], call[r]) of a request r at "save"  *)
(* or "commit".                                                            *)
(***************************************************************************)
EXTENDS LedgerRows

CONSTANTS
    Requests,    \* concurrent requests
    Offered,     \* the calls the environment makes, a subset of Calls
    NoRequest    \* nobody holds the lock

ASSUME OfferedAssumption == Offered \subseteq Calls /\ Offered # {}
ASSUME NoRequestAssumption == NoRequest \notin Requests
ASSUME NoWalletAssumption == NoWallet \notin WalletRow

VARIABLES
    wallet,      \* the committed rows of `wallets`
    ledger,      \* the committed rows of `wallet_transactions`, by wallet
    call,        \* the arguments of the call each request serves
    answer,      \* what the caller has heard
    pc,          \* the next statement of the request
    rowLock,     \* who holds the FOR UPDATE lock on each wallet row
    seen,        \* the wallet entity a request read under the lock
    orphaned     \* the workspaces the running backfill found without a wallet

tables == <<wallet, ledger>>
vars == <<wallet, ledger, call, answer, pc, rowLock, seen, orphaned>>

Answers == {"idle", "pending", "found", "moved", "replayed", "failed", "lost",
            "WALLET_AMOUNT_INVALID", "WALLET_NOT_FOUND",
            "WALLET_CURRENCY_MISMATCH", "INSUFFICIENT_FUNDS", "INSUFFICIENT_HELD"}
Locations == {"done", "find", "create", "reread", "lookup", "lock", "check",
              "winner", "save", "commit"}
InTransaction == {"lookup", "lock", "check", "winner", "save", "commit"}
Locked == {"check", "winner", "save", "commit"}

WalletOf(r) == wallet[call[r].ws]

KeyTaken(k) == \E w \in Workspaces : \E n \in 1 .. Len(ledger[w]) : ledger[w][n].key = k

\* Mutant of KeyPending: a key that is taken is not given back by a rollback.
KeyStaysPending(r, k) ==
    \E q \in Requests \ {r} :
        /\ call[q].key = k
        /\ pc[q] \in {"save", "commit"} \/ answer[q] = "lost"

\* Another transaction has inserted a row with this key and not yet committed:
\* the unique index makes an INSERT of the same key wait for it to end.
KeyPending(r, k) ==
    \E q \in Requests \ {r} : pc[q] \in {"save", "commit"} /\ call[q].key = k

\* randomUUID: no other request has used or is using the key of a staff call.
Fresh(r, c) ==
    /\ c.via = "staff" => ~ KeyTaken(c.key)
    /\ \A q \in Requests \ {r} :
         c.via = "staff" \/ call[q].via = "staff" => call[q].key # c.key

-----------------------------------------------------------------------------
Init ==
    /\ \E old \in SUBSET Workspaces :
         wallet = [w \in Workspaces |->
                     IF w \in old THEN NoWallet ELSE ZeroWallet(DefaultCurrency[w])]
    /\ ledger = [w \in Workspaces |-> <<>>]
    /\ call = [r \in Requests |-> CHOOSE c \in Offered : TRUE]
    /\ answer = [r \in Requests |-> "idle"]
    /\ pc = [r \in Requests |-> "done"]
    /\ rowLock = [w \in Workspaces |-> NoRequest]
    /\ seen = [r \in Requests |-> NoWallet]
    /\ orphaned = {}

Goto(r, l) == pc' = [pc EXCEPT ![r] = l]

\* Mutant of End: the connection goes back to the pool inside its transaction,
\* so that the row lock stays behind.
EndHoldingLock(r, what) ==
    /\ Goto(r, "done")
    /\ answer' = [answer EXCEPT ![r] = what]
    /\ seen' = [seen EXCEPT ![r] = NoWallet]
    /\ UNCHANGED rowLock

\* The request ends with an answer; what it read and locked goes with it.
End(r, what) ==
    /\ Goto(r, "done")
    /\ answer' = [answer EXCEPT ![r] = what]
    /\ seen' = [seen EXCEPT ![r] = NoWallet]
    /\ rowLock' = [w \in Workspaces |-> IF rowLock[w] = r THEN NoRequest ELSE rowLock[w]]

\* An exception inside the transaction: everything it wrote is undone.
Abort(r, what) == End(r, what) /\ UNCHANGED <<wallet, ledger, call, orphaned>>

\* A call arrives; the caller of one that was lost may well repeat it.
Ask(r, c) ==
    /\ pc[r] = "done"
    /\ Fresh(r, c)
    /\ call' = [call EXCEPT ![r] = c]
    /\ answer' = [answer EXCEPT ![r] = "pending"]
    /\ Goto(r, IF c.via = "caller" THEN "lookup" ELSE "find")
    /\ UNCHANGED <<wallet, ledger, rowLock, seen, orphaned>>

-----------------------------------------------------------------------------
(* ensureWallet, for the staff calls and the reads of the wallet page.     *)

\* The wallet is there: a read ends with it, a movement takes its currency.
Resolved(r) ==
    /\ call' = [call EXCEPT ![r].currency = WalletOf(r).currency]
    /\ IF call[r].via = "read"
         THEN End(r, "found")
         ELSE Goto(r, "lookup") /\ UNCHANGED <<answer, rowLock, seen>>
    /\ UNCHANGED <<wallet, ledger, orphaned>>

FindWallet(r) ==
    /\ pc[r] = "find"
    /\ \/ WalletOf(r) # NoWallet /\ Resolved(r)
       \/ /\ WalletOf(r) = NoWallet
          /\ Goto(r, "create")
          /\ UNCHANGED <<wallet, ledger, call, answer, rowLock, seen, orphaned>>

\* Mutants of CreateMissing: the entity is created but never saved; the wallet
\* takes the currency of the caller.
CreateUnsaved(r) ==
    /\ pc[r] = "create"
    /\ Goto(r, "reread")
    /\ UNCHANGED <<wallet, ledger, call, answer, rowLock, seen, orphaned>>

CreateInCallersCurrency(r) ==
    /\ pc[r] = "create"
    /\ wallet' = IF WalletOf(r) = NoWallet
                   THEN [wallet EXCEPT ![call[r].ws] = ZeroWallet(call[r].currency)]
                   ELSE wallet
    /\ Goto(r, "reread")
    /\ UNCHANGED <<ledger, call, answer, rowLock, seen, orphaned>>

\* save(): an INSERT in a transaction of its own; the unique index on
\* workspace_id refuses it if a wallet has appeared since the find.
CreateMissing(r) ==
    /\ pc[r] = "create"
    /\ wallet' = IF WalletOf(r) = NoWallet
                   THEN [wallet EXCEPT ![call[r].ws] = ZeroWallet(DefaultCurrency[call[r].ws])]
                   ELSE wallet
    /\ Goto(r, "reread")
    /\ UNCHANGED <<ledger, call, answer, rowLock, seen, orphaned>>

\* The entity just saved, or the winner's row read by getByWorkspaceOrFail.
Reread(r) ==
    /\ pc[r] = "reread"
    /\ \/ WalletOf(r) # NoWallet /\ Resolved(r)
       \/ WalletOf(r) = NoWallet /\ Abort(r, "WALLET_NOT_FOUND")

\* backfillWallets of the seed script: one SELECT, then one save of all the
\* missing wallets, which inserts none of them if one has appeared since.
BackfillFind ==
    /\ orphaned = {}
    /\ orphaned' = {w \in Workspaces : wallet[w] = NoWallet}
    /\ UNCHANGED <<wallet, ledger, call, answer, pc, rowLock, seen>>

\* Mutant of BackfillSave: an upsert on workspace_id.
BackfillUpsert ==
    /\ orphaned # {}
    /\ wallet' = [w \in Workspaces |->
                    IF w \in orphaned THEN ZeroWallet(DefaultCurrency[w]) ELSE wallet[w]]
    /\ orphaned' = {}
    /\ UNCHANGED <<ledger, call, answer, pc, rowLock, seen>>

BackfillSave ==
    /\ orphaned # {}
    /\ wallet' = IF \A w \in orphaned : wallet[w] = NoWallet
                   THEN [w \in Workspaces |-> IF w \in orphaned
                           THEN ZeroWallet(DefaultCurrency[w]) ELSE wallet[w]]
                   ELSE wallet
    /\ orphaned' = {}
    /\ UNCHANGED <<ledger, call, answer, pc, rowLock, seen>>

-----------------------------------------------------------------------------
(* applyTxn.                                                               *)

RejectAmount(r) ==
    /\ pc[r] = "lookup"
    /\ call[r].amount <= 0
    /\ Abort(r, "WALLET_AMOUNT_INVALID")

\* 1. Idempotency.
Lookup(r) ==
    /\ pc[r] = "lookup"
    /\ call[r].amount > 0
    /\ \/ KeyTaken(call[r].key) /\ Abort(r, "replayed")
       \/ /\ ~ KeyTaken(call[r].key)
          /\ Goto(r, "lock")
          /\ UNCHANGED <<wallet, ledger, call, answer, rowLock, seen, orphaned>>

\* Mutant of LockWallet: the SELECT without setLock('pessimistic_write').
ReadWithoutLock(r) ==
    /\ pc[r] = "lock"
    /\ WalletOf(r) # NoWallet
    /\ seen' = [seen EXCEPT ![r] = WalletOf(r)]
    /\ Goto(r, "check")
    /\ UNCHANGED <<wallet, ledger, call, answer, rowLock, orphaned>>

\* 2. SELECT ... FOR UPDATE waits for the lock and reads the row as it is then.
LockWallet(r) ==
    /\ pc[r] = "lock"
    /\ WalletOf(r) # NoWallet
    /\ rowLock[call[r].ws] = NoRequest
    /\ rowLock' = [rowLock EXCEPT ![call[r].ws] = r]
    /\ seen' = [seen EXCEPT ![r] = WalletOf(r)]
    /\ Goto(r, "check")
    /\ UNCHANGED <<wallet, ledger, call, answer, orphaned>>

NoSuchWallet(r) ==
    /\ pc[r] = "lock"
    /\ WalletOf(r) = NoWallet
    /\ Abort(r, "WALLET_NOT_FOUND")

\* 3. and 4. One currency per wallet, and the floors.
RefuseCurrency(r) ==
    /\ pc[r] = "check"
    /\ call[r].currency # seen[r].currency
    /\ Abort(r, "WALLET_CURRENCY_MISMATCH")

RefuseFunds(r) ==
    /\ pc[r] = "check"
    /\ call[r].currency = seen[r].currency
    /\ NewBalance(seen[r], call[r]) < 0
    /\ Abort(r, "INSUFFICIENT_FUNDS")

RefuseHeld(r) ==
    /\ pc[r] = "check"
    /\ call[r].currency = seen[r].currency
    /\ NewBalance(seen[r], call[r]) >= 0
    /\ NewHeld(seen[r], call[r]) < 0
    /\ Abort(r, "INSUFFICIENT_HELD")

\* Mutant of Passes: the floor of the held balance is forgotten.
PassesUnheld(r) ==
    /\ pc[r] = "check"
    /\ call[r].currency = seen[r].currency
    /\ NewBalance(seen[r], call[r]) >= 0

Passes(r) ==
    /\ pc[r] = "check"
    /\ call[r].currency = seen[r].currency
    /\ Covered(seen[r], call[r])

\* Mutants of InsertRow: the index on idempotency_key is not unique; the number
\* is not checked against its column.
InsertWithoutIndex(r) ==
    /\ Passes(r)
    /\ Fits(seen[r], call[r])
    /\ Goto(r, "save")
    /\ UNCHANGED <<wallet, ledger, call, answer, rowLock, seen, orphaned>>

InsertUnbounded(r) ==
    /\ Passes(r)
    /\ ~ KeyPending(r, call[r].key)
    /\ Goto(r, IF KeyTaken(call[r].key) THEN "winner" ELSE "save")
    /\ UNCHANGED <<wallet, ledger, call, answer, rowLock, seen, orphaned>>

\* 5. The INSERT.  A number too large for its column is error 22003, which the
\* catch rethrows; a committed row with the same key is error 23505.
InsertRow(r) ==
    /\ Passes(r)
    /\ Fits(seen[r], call[r])
    /\ ~ KeyPending(r, call[r].key)
    /\ Goto(r, IF KeyTaken(call[r].key) THEN "winner" ELSE "save")
    /\ UNCHANGED <<wallet, ledger, call, answer, rowLock, seen, orphaned>>

InsertOverflow(r) ==
    /\ Passes(r)
    /\ ~ Fits(seen[r], call[r])
    /\ Abort(r, "failed")

\* The catch looks for the winner's row in the same transaction, which the
\* failed INSERT has aborted: PostgreSQL answers any statement with 25P02.
FindWinner(r) ==
    /\ pc[r] = "winner"
    /\ Abort(r, "failed")

\* Mutant of SaveWallet: this.wallets.save(wallet), outside the transaction.
SaveOutsideTransaction(r) ==
    /\ pc[r] = "save"
    /\ wallet' = [wallet EXCEPT ![call[r].ws] = SavedWallet(seen[r], call[r])]
    /\ Goto(r, "commit")
    /\ UNCHANGED <<ledger, call, answer, rowLock, seen, orphaned>>

\* 6. The UPDATE of the cached balance.
SaveWallet(r) ==
    /\ pc[r] = "save"
    /\ Goto(r, "commit")
    /\ UNCHANGED <<wallet, ledger, call, answer, rowLock, seen, orphaned>>

\* COMMIT publishes both writes; the answer may still be lost.
Commit(r) ==
    /\ pc[r] = "commit"
    /\ ledger' = [ledger EXCEPT ![call[r].ws] = Append(@, RowFor(seen[r], call[r]))]
    /\ wallet' = [wallet EXCEPT ![call[r].ws] = SavedWallet(seen[r], call[r])]
    /\ \E what \in {"moved", "lost"} : End(r, what)
    /\ UNCHANGED <<call, orphaned>>

\* The connection breaks before COMMIT: the database rolls back.
Disconnect(r) ==
    /\ pc[r] \in InTransaction
    /\ Abort(r, "lost")

-----------------------------------------------------------------------------
Step(r) ==
    \/ FindWallet(r) \/ CreateMissing(r) \/ Reread(r)
    \/ RejectAmount(r) \/ Lookup(r) \/ LockWallet(r) \/ NoSuchWallet(r)
    \/ RefuseCurrency(r) \/ RefuseFunds(r) \/ RefuseHeld(r)
    \/ InsertRow(r) \/ InsertOverflow(r) \/ FindWinner(r)
    \/ SaveWallet(r) \/ Commit(r)

Next ==
    \/ \E r \in Requests :
         \/ \E c \in Offered : Ask(r, c)
         \/ Step(r)
         \/ Disconnect(r)
    \/ BackfillFind \/ BackfillSave

Spec == Init /\ [][Next]_vars

\* Node runs every request on, and PostgreSQL grants a row lock in the order of
\* its wait queue and wakes the INSERT that waits for another transaction: a
\* request that can go on again and again is not passed over for ever.
FairSpec == Spec /\ \A r \in Requests :
                      /\ WF_vars(Step(r))
                      /\ SF_vars(LockWallet(r))
                      /\ SF_vars(InsertRow(r))

-----------------------------------------------------------------------------
(* What is checked of it.                                                  *)

\* The types of the variables.
TypeOK ==
    /\ wallet \in [Workspaces -> WalletRow \cup {NoWallet}]
    /\ ledger \in [Workspaces -> Seq(LedgerRow)]
    /\ call \in [Requests -> Calls]
    /\ answer \in [Requests -> Answers]
    /\ pc \in [Requests -> Locations]
    /\ rowLock \in [Workspaces -> Requests \cup {NoRequest}]
    /\ seen \in [Requests -> WalletRow \cup {NoWallet}]
    /\ orphaned \subseteq Workspaces

\* The ledger of every wallet is one unbroken running total that never dips
\* below zero: each row's *After columns carry on from the row before it,
\* whatever requests interleaved (balance_after_micros, "the running ledger
\* total" of wallet-transaction.entity.ts).
LedgerChained == \A w \in Workspaces : Chained(ledger[w])

\* The balance in `wallets` is a cache of the ledger and never drifts from it:
\* it equals the totals of the last row, and a workspace without a wallet has
\* no rows ("kept in lock-step", wallet.entity.ts).
CacheInLockStep ==
    \A w \in Workspaces :
        LET n == Len(ledger[w])
        IN  IF wallet[w] = NoWallet
              THEN n = 0
              ELSE /\ wallet[w].balance = BalanceBefore(ledger[w], n + 1)
                   /\ wallet[w].held = HeldBefore(ledger[w], n + 1)

\* A key moves money at most once, over all wallets and all retries.
OneRowPerKey ==
    \A v, w \in Workspaces : \A m \in 1 .. Len(ledger[v]), n \in 1 .. Len(ledger[w]) :
        ledger[v][m].key = ledger[w][n].key => v = w /\ m = n

\* Rule R3: every row of a wallet is in the wallet's currency, that of its
\* workspace, also when several first touches and the backfill race.
OneCurrencyPerWallet ==
    \A w \in Workspaces :
        /\ wallet[w] # NoWallet => wallet[w].currency = DefaultCurrency[w]
        /\ \A n \in 1 .. Len(ledger[w]) : ledger[w][n].currency = DefaultCurrency[w]

\* ensureWallet "keeps reads from ever 404-ing on a real workspace": no staff
\* call or read is told that the workspace has no wallet, whoever creates it.
StaffAlwaysFindsWallet ==
    \A r \in Requests : answer[r] = "WALLET_NOT_FOUND" => call[r].via = "caller"

\* A row lock belongs to a request that is between the SELECT ... FOR UPDATE
\* and the end of its transaction on that very wallet, so that no error path
\* leaks it; and as long as a request is there nobody else moves the wallet:
\* what it read and decided on is still the truth when it writes.
LockDiscipline ==
    /\ \A w \in Workspaces : rowLock[w] # NoRequest =>
         pc[rowLock[w]] \in Locked /\ call[rowLock[w]].ws = w
    /\ \A r \in Requests : pc[r] \in Locked =>
         /\ rowLock[call[r].ws] = r
         /\ seen[r] = WalletOf(r)
         /\ seen[r] # NoWallet

\* What a request has found out about its call stays true until it writes,
\* whatever the others do meanwhile: the wallet of a staff call exists and has
\* the call's currency; and when the ledger row is inserted and not yet
\* committed, the floors and the columns hold and nobody else has its key.
FindingsStayTrue ==
    \A r \in Requests :
        /\ pc[r] = "done" <=> answer[r] # "pending"
        /\ pc[r] \in {"find", "create", "reread"} => call[r].via # "caller"
        /\ pc[r] = "reread" => WalletOf(r) # NoWallet
        /\ pc[r] \in InTransaction =>
             /\ call[r].via # "read"
             /\ call[r].via = "staff" =>
                  WalletOf(r) # NoWallet /\ call[r].currency = WalletOf(r).currency
        /\ pc[r] \in {"lock"} \cup Locked => call[r].amount > 0
        /\ pc[r] \in {"save", "commit"} =>
             /\ Covered(seen[r], call[r])
             /\ Fits(seen[r], call[r])
             /\ call[r].currency = seen[r].currency
             /\ ~ KeyTaken(call[r].key)
             /\ ~ KeyPending(r, call[r].key)

\* The inductive invariant: every invariant of this section at once.
IInv ==
    /\ TypeOK
    /\ LockDiscipline
    /\ FindingsStayTrue
    /\ LedgerChained
    /\ CacheInLockStep
    /\ OneRowPerKey
    /\ OneCurrencyPerWallet
    /\ StaffAlwaysFindsWallet

\* Ledger rows are never changed, reordered or removed, and a wallet never
\* disappears, is created a second time or changes currency.
OnlyAppends ==
    \A w \in Workspaces :
        /\ Len(ledger'[w]) >= Len(ledger[w])
        /\ SubSeq(ledger'[w], 1, Len(ledger[w])) = ledger[w]
        /\ wallet[w] # NoWallet =>
             /\ wallet'[w] # NoWallet
             /\ wallet'[w].currency = wallet[w].currency
             /\ wallet'[w] # wallet[w] => ledger'[w] # ledger[w]

AppendOnly == [][OnlyAppends]_tables

\* The promise: see WalletLedger.
Ledger == INSTANCE WalletLedger WITH
            wallet <- wallet, ledger <- ledger, call <- call, answer <- answer
ImplementsLedger == Ledger!Spec

\* Every call is answered (or its caller learns that it was cut off): neither the
\* row lock nor a key is held for ever, also when an INSERT waits for the key of a
\* movement on another wallet and has a row lock itself.
EveryCallAnswered == \A r \in Requests : (pc[r] # "done") ~> (pc[r] = "done")

\* LedgerInput.idempotencyKey (wallet.service.ts:26): "replaying the same key
\* is a no-op that returns the first row", also for the loser of a race: a call
\* whose key has its row in the ledger does not fail.
ReplayNeverFails ==
    [][\A r \in Requests :
          answer[r] = "pending" /\ answer'[r] = "failed" => ~ KeyTaken(call[r].key)]_vars
=============================================================================
