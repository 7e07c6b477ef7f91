---------------------------- MODULE WalletProofs ----------------------------
(***************************************************************************)
(* Proofs about Wallet for any number of requests, workspaces and keys and *)
(* any width of the bigint columns.  IInv is the inductive invariant; the  *)
(* steps are grouped by what they change: most of the statements of        *)
(* applyTxn only move pc, or end the request with an answer, and few touch *)
(* the tables.                                                             *)
(***************************************************************************)
EXTENDS Wallet, TLAPS

USE OfferedAssumption, NoRequestAssumption, NoWalletAssumption,
    MaxMicrosAssumption, DefaultCurrencyAssumption

\* The part of IInv that is about the tables alone.
TablesInv == LedgerChained /\ CacheInLockStep /\ OneRowPerKey /\ OneCurrencyPerWallet

\* It cannot be disturbed by a step that leaves the tables alone.
LEMMA TablesUntouched == TablesInv /\ UNCHANGED tables => TablesInv'
  BY DEF TablesInv, LedgerChained, CacheInLockStep, OneRowPerKey,
         OneCurrencyPerWallet, tables

\* An empty wallet fits its columns.
LEMMA ZeroWalletType ==
  \A w \in Workspaces : ZeroWallet(DefaultCurrency[w]) \in WalletRow \ {NoWallet}
  BY DEF ZeroWallet, WalletRow, Column

\* What a request saves and inserts after its checks fits the columns.
LEMMA WriteTypes ==
  ASSUME NEW w \in WalletRow, NEW c \in Calls, Fits(w, c)
  PROVE  /\ SavedWallet(w, c) \in WalletRow
         /\ RowFor(w, c) \in LedgerRow
         /\ SavedWallet(w, c).currency = w.currency
         /\ SavedWallet(w, c).balance = NewBalance(w, c)
         /\ SavedWallet(w, c).held = NewHeld(w, c)
  BY DEF SavedWallet, RowFor, WalletRow, LedgerRow, Fits, Calls

LEMMA InitInv == Init => IInv
<1> SUFFICES ASSUME Init PROVE IInv
  OBVIOUS
<1>1. \A r \in Requests : call[r] \in Calls
  BY DEF Init
<1>2. TypeOK
  BY <1>1, ZeroWalletType DEF Init, TypeOK, Answers, Locations
<1>3. \A w \in Workspaces : Len(ledger[w]) = 0
  BY DEF Init
<1>4. \A w \in Workspaces : wallet[w] \in {NoWallet, ZeroWallet(DefaultCurrency[w])}
  BY DEF Init
<1>5. LockDiscipline /\ StaffAlwaysFindsWallet
  BY DEF Init, LockDiscipline, Locked, StaffAlwaysFindsWallet
<1>6. FindingsStayTrue
  BY DEF Init, FindingsStayTrue, InTransaction, Locked
<1>7. LedgerChained /\ OneRowPerKey
  BY <1>3 DEF LedgerChained, Chained, OneRowPerKey
<1>8. CacheInLockStep /\ OneCurrencyPerWallet
  BY <1>3, <1>4 DEF CacheInLockStep, OneCurrencyPerWallet, BalanceBefore, HeldBefore, ZeroWallet
<1> QED
  BY <1>2, <1>5, <1>6, <1>7, <1>8 DEF IInv

-----------------------------------------------------------------------------
\* A request that only moves on to its next statement.
LEMMA GotoInv ==
  ASSUME IInv, NEW r \in Requests, NEW l \in Locations, pc[r] # "done", l # "done",
         Goto(r, l), UNCHANGED <<wallet, ledger, call, answer, rowLock, seen, orphaned>>,
         l \in Locked <=> pc[r] \in Locked,
         l \notin {"find", "reread"},
         l = "create" => pc[r] = "find",
         l \in InTransaction <=> pc[r] \in InTransaction,
         l = "lock" => call[r].amount > 0,
         l \in {"save", "commit"} /\ pc[r] \notin {"save", "commit"} =>
              /\ Covered(seen[r], call[r])
              /\ Fits(seen[r], call[r])
              /\ call[r].currency = seen[r].currency
              /\ ~ KeyTaken(call[r].key)
              /\ ~ KeyPending(r, call[r].key)
  PROVE  IInv'
<1>1. TablesInv'
  BY TablesUntouched DEF IInv, TablesInv, tables
<1>2. TypeOK'
  BY DEF IInv, TypeOK, Goto
<1>3. /\ pc' = [pc EXCEPT ![r] = l]
      /\ pc \in [Requests -> Locations]
  BY DEF IInv, TypeOK, Goto
<1>4. LockDiscipline'
  BY <1>3 DEF IInv, LockDiscipline, TypeOK, WalletOf
<1>5. StaffAlwaysFindsWallet'
  BY DEF IInv, StaffAlwaysFindsWallet
<1>6. \A k : KeyTaken(k)' = KeyTaken(k)
  BY DEF KeyTaken
<1>7. FindingsStayTrue'
  <2> SUFFICES ASSUME NEW q \in Requests
               PROVE  /\ pc'[q] = "done" <=> answer[q] # "pending"
                      /\ pc'[q] \in {"find", "create", "reread"} => call[q].via # "caller"
                      /\ pc'[q] = "reread" => WalletOf(q) # NoWallet
                      /\ pc'[q] \in InTransaction =>
                           /\ call[q].via # "read"
                           /\ call[q].via = "staff" =>
                               /\ WalletOf(q) # NoWallet
                               /\ call[q].currency = WalletOf(q).currency
                      /\ pc'[q] \in {"lock"} \cup Locked => call[q].amount > 0
                      /\ pc'[q] \in {"save", "commit"} =>
                           /\ Covered(seen[q], call[q])
                           /\ Fits(seen[q], call[q])
                           /\ call[q].currency = seen[q].currency
                           /\ ~ KeyTaken(call[q].key)
                           /\ ~ KeyPending(q, call[q].key)'
    BY <1>6 DEF FindingsStayTrue, WalletOf, Covered, Fits, NewBalance, NewHeld
  <2>1. CASE q = r
    BY <2>1, <1>3 DEF IInv, FindingsStayTrue, KeyPending, InTransaction, Locked
  <2>2. CASE q # r
    <3>1. pc'[q] = pc[q]
      BY <2>2, <1>3
    <3>2. pc[q] \in {"save", "commit"} => ~ KeyPending(q, call[q].key)'
      BY <2>2, <1>3 DEF IInv, FindingsStayTrue, KeyPending
    <3> QED
      BY <3>1, <3>2 DEF IInv, FindingsStayTrue
  <2> QED
    BY <2>1, <2>2
<1> QED
  BY <1>1, <1>2, <1>4, <1>5, <1>7 DEF IInv, TablesInv

\* A request that ends without having written anything.
LEMMA AbortInv ==
  ASSUME IInv, NEW r \in Requests, pc[r] # "done",
         NEW what \in Answers \ {"pending"}, Abort(r, what),
         what = "WALLET_NOT_FOUND" => call[r].via = "caller"
  PROVE  IInv'
<1>1. TablesInv'
  BY TablesUntouched DEF IInv, TablesInv, tables, Abort
<1>2. TypeOK'
  BY DEF IInv, TypeOK, Abort, End, Goto, Locations
<1>3. /\ pc' = [pc EXCEPT ![r] = "done"]
      /\ answer' = [answer EXCEPT ![r] = what]
      /\ seen' = [seen EXCEPT ![r] = NoWallet]
      /\ rowLock' = [w \in Workspaces |-> IF rowLock[w] = r THEN NoRequest ELSE rowLock[w]]
      /\ UNCHANGED <<wallet, ledger, call>>
  BY DEF Abort, End, Goto
<1>4. LockDiscipline'
  BY <1>3 DEF IInv, LockDiscipline, TypeOK, WalletOf, Locked, Calls
<1>5. StaffAlwaysFindsWallet'
  BY <1>3 DEF IInv, StaffAlwaysFindsWallet, TypeOK
<1>6. \A k : KeyTaken(k)' = KeyTaken(k)
  BY <1>3 DEF KeyTaken
<1>7. FindingsStayTrue'
  <2>1. ASSUME NEW q \in Requests, pc'[q] \in {"save", "commit"}
        PROVE  /\ q # r /\ pc'[q] = pc[q] /\ seen'[q] = seen[q]
               /\ KeyPending(q, call[q].key)' => KeyPending(q, call[q].key)
    BY <2>1, <1>3 DEF IInv, TypeOK, KeyPending
  <2> QED
    BY <2>1, <1>3, <1>6 DEF IInv, TypeOK, FindingsStayTrue, WalletOf, InTransaction, Locked,
       Covered, Fits, NewBalance, NewHeld
<1> QED
  BY <1>1, <1>2, <1>4, <1>5, <1>7 DEF IInv, TablesInv

\* New wallets for workspaces that had none, whoever creates them.
LEMMA OpenInv ==
  ASSUME IInv, NEW S \in SUBSET Workspaces, \A w \in S : wallet[w] = NoWallet,
         wallet' = [w \in Workspaces |->
                      IF w \in S THEN ZeroWallet(DefaultCurrency[w]) ELSE wallet[w]],
         UNCHANGED <<ledger, call, answer, rowLock, seen>>,
         pc' \in [Requests -> Locations], orphaned' \subseteq Workspaces,
         \A q \in Requests :
            \/ pc'[q] = pc[q]
            \/ pc[q] = "create" /\ pc'[q] = "reread" /\ wallet'[call[q].ws] # NoWallet
  PROVE  IInv'
<1>1. \A w \in Workspaces : wallet[w] # NoWallet => wallet'[w] = wallet[w]
  OBVIOUS
<1>2. TypeOK'
  BY ZeroWalletType DEF IInv, TypeOK
<1>3. \A w \in Workspaces : wallet'[w] # wallet[w] =>
        Len(ledger[w]) = 0 /\ wallet'[w] = ZeroWallet(DefaultCurrency[w])
  BY DEF IInv, CacheInLockStep
<1>4. TablesInv'
  BY <1>3, ZeroWalletType DEF IInv, TypeOK, TablesInv, LedgerChained, CacheInLockStep,
     OneRowPerKey, OneCurrencyPerWallet, ZeroWallet, BalanceBefore, HeldBefore
<1>5. LockDiscipline'
  <2>1. \A q \in Requests : pc'[q] \in Locked <=> pc[q] \in Locked
    BY DEF Locked
  <2>2. \A q \in Requests : pc[q] \in Locked => WalletOf(q)' = WalletOf(q)
    BY <1>1 DEF IInv, TypeOK, LockDiscipline, WalletOf, Calls
  <2> QED
    BY <2>1, <2>2 DEF IInv, TypeOK, LockDiscipline
<1>6. StaffAlwaysFindsWallet'
  BY DEF IInv, StaffAlwaysFindsWallet
<1>7. \A k : KeyTaken(k)' = KeyTaken(k)
  BY DEF KeyTaken
<1>8. \A q \in Requests : pc'[q] \in {"save", "commit"} <=> pc[q] \in {"save", "commit"}
  OBVIOUS
<1>9. \A q \in Requests, k \in Keys : KeyPending(q, k)' = KeyPending(q, k)
  BY <1>8 DEF KeyPending
<1>10. FindingsStayTrue'
  BY <1>1, <1>7, <1>8, <1>9 DEF IInv, TypeOK, FindingsStayTrue, WalletOf, InTransaction,
     Locked, Covered, Fits, NewBalance, NewHeld, Calls
<1> QED
  BY <1>2, <1>4, <1>5, <1>6, <1>10 DEF IInv, TablesInv

LEMMA CreateMissingInv ==
  ASSUME IInv, NEW r \in Requests, CreateMissing(r)
  PROVE  IInv'
<1> DEFINE S == IF WalletOf(r) = NoWallet THEN {call[r].ws} ELSE {}
<1>1. call[r].ws \in Workspaces /\ S \in SUBSET Workspaces
  BY DEF IInv, TypeOK, Calls
<1>2. \A w \in S : wallet[w] = NoWallet
  BY DEF WalletOf
<1>3. wallet' = [w \in Workspaces |->
                   IF w \in S THEN ZeroWallet(DefaultCurrency[w]) ELSE wallet[w]]
  BY <1>1 DEF CreateMissing, IInv, TypeOK
<1>4. wallet'[call[r].ws] # NoWallet
  BY <1>1, <1>3, ZeroWalletType DEF WalletOf
<1>5. /\ pc' \in [Requests -> Locations]
      /\ \A q \in Requests :
            \/ pc'[q] = pc[q]
            \/ pc[q] = "create" /\ pc'[q] = "reread" /\ wallet'[call[q].ws] # NoWallet
  BY <1>4 DEF CreateMissing, Goto, IInv, TypeOK, Locations
<1> HIDE DEF S
<1> QED
  BY <1>1, <1>2, <1>3, <1>5, OpenInv DEF CreateMissing, IInv, TypeOK

LEMMA BackfillInv ==
  ASSUME IInv, BackfillFind \/ BackfillSave
  PROVE  IInv'
<1> DEFINE S == IF BackfillSave /\ \A w \in orphaned : wallet[w] = NoWallet
                  THEN orphaned ELSE {}
<1>1. S \in SUBSET Workspaces /\ \A w \in S : wallet[w] = NoWallet
  BY DEF IInv, TypeOK
<1>2. wallet' = [w \in Workspaces |->
                   IF w \in S THEN ZeroWallet(DefaultCurrency[w]) ELSE wallet[w]]
  BY DEF BackfillFind, BackfillSave, IInv, TypeOK
<1>3. /\ UNCHANGED <<ledger, call, answer, pc, rowLock, seen>>
      /\ orphaned' \subseteq Workspaces
  BY DEF BackfillFind, BackfillSave, IInv, TypeOK
<1> HIDE DEF S
<1> QED
  BY <1>1, <1>2, <1>3, OpenInv DEF IInv, TypeOK

LEMMA AskInv ==
  ASSUME IInv, NEW r \in Requests, NEW c \in Offered, Ask(r, c)
  PROVE  IInv'
<1>1. /\ pc[r] = "done" /\ c \in Calls
      /\ call' = [call EXCEPT ![r] = c]
      /\ answer' = [answer EXCEPT ![r] = "pending"]
      /\ pc' = [pc EXCEPT ![r] = IF c.via = "caller" THEN "lookup" ELSE "find"]
      /\ UNCHANGED <<wallet, ledger, rowLock, seen, orphaned>>
  BY DEF Ask, Goto
<1>2. TablesInv'
  BY <1>1, TablesUntouched DEF IInv, TablesInv, tables
<1>3. TypeOK'
  BY <1>1 DEF IInv, TypeOK, Locations, Answers
<1>4. LockDiscipline'
  BY <1>1 DEF IInv, TypeOK, LockDiscipline, WalletOf, Locked
<1>5. StaffAlwaysFindsWallet'
  BY <1>1 DEF IInv, TypeOK, StaffAlwaysFindsWallet
<1>6. \A k : KeyTaken(k)' = KeyTaken(k)
  BY <1>1 DEF KeyTaken
<1>7. \A q \in Requests, k \in Keys : KeyPending(q, k)' => KeyPending(q, k)
  BY <1>1 DEF IInv, TypeOK, KeyPending
<1>8. FindingsStayTrue'
  BY <1>1, <1>6, <1>7 DEF IInv, TypeOK, FindingsStayTrue, WalletOf, InTransaction,
     Locked, Covered, Fits, NewBalance, NewHeld, Calls
<1> QED
  BY <1>2, <1>3, <1>4, <1>5, <1>8 DEF IInv, TablesInv

LEMMA ResolvedInv ==
  ASSUME IInv, NEW r \in Requests, pc[r] \in {"find", "reread"},
         WalletOf(r) # NoWallet, Resolved(r)
  PROVE  IInv'
<1>1. /\ call' = [call EXCEPT ![r].currency = WalletOf(r).currency]
      /\ UNCHANGED <<wallet, ledger, orphaned>>
      /\ \/ call[r].via = "read" /\ End(r, "found")
         \/ /\ call[r].via # "read"
            /\ Goto(r, "lookup")
            /\ UNCHANGED <<answer, rowLock, seen>>
  BY DEF Resolved
<1>2. /\ WalletOf(r) \in WalletRow
      /\ call' \in [Requests -> Calls]
      /\ call'[r].currency = WalletOf(r).currency
      /\ \A q \in Requests : call'[q].ws = call[q].ws /\ call'[q].key = call[q].key
                             /\ call'[q].via = call[q].via /\ call'[q].amount = call[q].amount
      /\ \A q \in Requests \ {r} : call'[q] = call[q]
  <2>1. /\ call \in [Requests -> Calls]
        /\ WalletOf(r) \in WalletRow
        /\ call[r] \in Calls
    BY DEF IInv, TypeOK, WalletOf, Calls
  <2>2. WalletOf(r).currency \in Currencies
    BY <2>1 DEF WalletRow
  <2>3. call' = [call EXCEPT ![r] = [call[r] EXCEPT !.currency = WalletOf(r).currency]]
    BY <1>1
  <2>4. [call[r] EXCEPT !.currency = WalletOf(r).currency] \in Calls
    BY <2>1, <2>2 DEF Calls
  <2> QED
    BY <2>1, <2>2, <2>3, <2>4 DEF Calls
<1>3. /\ pc' = [pc EXCEPT ![r] = IF call[r].via = "read" THEN "done" ELSE "lookup"]
      /\ answer' = IF call[r].via = "read" THEN [answer EXCEPT ![r] = "found"] ELSE answer
      /\ seen' \in {seen, [seen EXCEPT ![r] = NoWallet]}
  <2>1. CASE call[r].via = "read"
    BY <1>1, <2>1 DEF End, Goto
  <2>2. CASE call[r].via # "read"
    BY <1>1, <2>2 DEF Goto
  <2> QED
    BY <2>1, <2>2
<1>4. rowLock' = rowLock
  <2>1. ASSUME NEW w \in Workspaces, rowLock[w] = r PROVE FALSE
    <3>1. pc[r] \in Locked
      BY <2>1 DEF IInv, LockDiscipline
    <3> QED
      BY <3>1 DEF Locked
  <2>2. CASE End(r, "found")
    <3>1. rowLock' = [w \in Workspaces |-> rowLock[w]]
      BY <2>1, <2>2 DEF End
    <3> QED
      BY <3>1 DEF IInv, TypeOK
  <2> QED
    BY <1>1, <2>2
<1>5. TablesInv'
  BY <1>1, TablesUntouched DEF IInv, TablesInv, tables
<1>6. TypeOK'
  BY <1>1, <1>2, <1>3, <1>4 DEF IInv, TypeOK, Locations, Answers
<1>7. LockDiscipline'
  BY <1>1, <1>2, <1>3, <1>4 DEF IInv, TypeOK, LockDiscipline, WalletOf, Locked
<1>8. StaffAlwaysFindsWallet'
  BY <1>2, <1>3 DEF IInv, TypeOK, StaffAlwaysFindsWallet
<1>9. \A k : KeyTaken(k)' = KeyTaken(k)
  BY <1>1 DEF KeyTaken
<1>10. \A q \in Requests, k \in Keys : KeyPending(q, k)' => KeyPending(q, k)
  BY <1>2, <1>3 DEF IInv, TypeOK, KeyPending
<1>11. \A q \in Requests : pc'[q] \in {"save", "commit"} =>
         q # r /\ pc'[q] = pc[q] /\ call'[q] = call[q] /\ seen'[q] = seen[q]
  BY <1>2, <1>3 DEF IInv, TypeOK
<1>12. FindingsStayTrue'
  BY <1>1, <1>2, <1>3, <1>9, <1>10, <1>11 DEF IInv, TypeOK, FindingsStayTrue, WalletOf,
     InTransaction, Locked, Covered, Fits, NewBalance, NewHeld, Calls
<1> QED
  BY <1>5, <1>6, <1>7, <1>8, <1>12 DEF IInv, TablesInv

\* Under LockDiscipline nobody can be between lock and commit on a wallet whose
\* lock is free.
LEMMA LockWalletInv ==
  ASSUME IInv, NEW r \in Requests, LockWallet(r)
  PROVE  IInv'
<1> DEFINE v == call[r].ws
<1>1. /\ pc[r] = "lock" /\ wallet[v] # NoWallet /\ rowLock[v] = NoRequest /\ v \in Workspaces
      /\ rowLock' = [rowLock EXCEPT ![v] = r]
      /\ seen' = [seen EXCEPT ![r] = wallet[v]]
      /\ pc' = [pc EXCEPT ![r] = "check"]
      /\ UNCHANGED <<wallet, ledger, call, answer, orphaned>>
  BY DEF LockWallet, Goto, WalletOf, IInv, TypeOK, Calls
<1>2. TablesInv'
  BY <1>1, TablesUntouched DEF IInv, TablesInv, tables
<1>3. TypeOK'
  BY <1>1 DEF IInv, TypeOK, Locations
<1>4. \A q \in Requests \ {r} :
        pc'[q] = pc[q] /\ seen'[q] = seen[q] /\ (pc[q] \in Locked => call[q].ws # v)
  BY <1>1 DEF IInv, TypeOK, LockDiscipline
<1>5. LockDiscipline'
  <2>1. ASSUME NEW w \in Workspaces, rowLock'[w] # NoRequest
        PROVE  pc'[rowLock'[w]] \in Locked /\ call[rowLock'[w]].ws = w
    <3>1. CASE w = v
      BY <1>1, <3>1 DEF IInv, TypeOK, Locked
    <3>2. CASE w # v
      <4>1. rowLock'[w] = rowLock[w] /\ rowLock[w] \in Requests
        BY <1>1, <2>1, <3>2 DEF IInv, TypeOK
      <4>2. pc[rowLock[w]] \in Locked /\ call[rowLock[w]].ws = w
        BY <2>1, <4>1 DEF IInv, LockDiscipline
      <4>3. rowLock[w] # r
        BY <3>2, <4>2
      <4> QED
        BY <1>4, <4>1, <4>2, <4>3
    <3> QED
      BY <3>1, <3>2
  <2>2. ASSUME NEW q \in Requests, pc'[q] \in Locked
        PROVE  rowLock'[call[q].ws] = q /\ seen'[q] = wallet[call[q].ws] /\ seen'[q] # NoWallet
    <3>1. CASE q = r
      BY <1>1, <3>1 DEF IInv, TypeOK
    <3>2. CASE q # r
      <4>1. call[q].ws \in Workspaces
        BY DEF IInv, TypeOK, Calls
      <4> QED
        BY <1>1, <1>4, <2>2, <3>2, <4>1 DEF IInv, TypeOK, LockDiscipline, WalletOf
    <3> QED
      BY <3>1, <3>2
  <2> QED
    BY <1>1, <2>1, <2>2 DEF LockDiscipline, WalletOf
<1>6. StaffAlwaysFindsWallet'
  BY <1>1 DEF IInv, StaffAlwaysFindsWallet
<1>7. \A k : KeyTaken(k)' = KeyTaken(k)
  BY <1>1 DEF KeyTaken
<1>8. \A q \in Requests, k \in Keys : KeyPending(q, k)' = KeyPending(q, k)
  BY <1>1 DEF IInv, TypeOK, KeyPending
<1>9. FindingsStayTrue'
  BY <1>1, <1>4, <1>7, <1>8 DEF IInv, TypeOK, FindingsStayTrue, WalletOf, InTransaction,
     Locked, Covered, Fits, NewBalance, NewHeld, Calls
<1> QED
  BY <1>2, <1>3, <1>5, <1>6, <1>9 DEF IInv, TablesInv

\* The statements that only move pc.
LEMMA AdvanceInv ==
  ASSUME IInv, NEW r \in Requests,
         \/ FindWallet(r) /\ WalletOf(r) = NoWallet
         \/ Lookup(r) /\ ~ KeyTaken(call[r].key)
         \/ InsertRow(r)
         \/ SaveWallet(r)
  PROVE  IInv'
<1>1. CASE FindWallet(r) /\ WalletOf(r) = NoWallet
  BY <1>1, GotoInv DEF FindWallet, Locations, Locked, InTransaction
<1>2. CASE Lookup(r) /\ ~ KeyTaken(call[r].key)
  BY <1>2, GotoInv DEF Lookup, Locations, Locked, InTransaction
<1>3. CASE InsertRow(r) /\ KeyTaken(call[r].key)
  BY <1>3, GotoInv DEF InsertRow, Passes, Locations, Locked, InTransaction
<1>4. CASE InsertRow(r) /\ ~ KeyTaken(call[r].key)
  BY <1>4, GotoInv DEF InsertRow, Passes, Locations, Locked, InTransaction
<1>5. CASE SaveWallet(r)
  BY <1>5, GotoInv DEF SaveWallet, Locations, Locked, InTransaction
<1> QED
  BY <1>1, <1>2, <1>3, <1>4, <1>5

\* The statements that end a request without a trace: each gives its reason.
LEMMA RefusalInv ==
  ASSUME IInv, NEW r \in Requests,
         \/ Reread(r) /\ WalletOf(r) = NoWallet
         \/ RejectAmount(r)
         \/ Lookup(r) /\ KeyTaken(call[r].key)
         \/ NoSuchWallet(r)
         \/ RefuseCurrency(r) \/ RefuseFunds(r) \/ RefuseHeld(r)
         \/ InsertOverflow(r) \/ FindWinner(r) \/ Disconnect(r)
  PROVE  IInv'
<1>1. ~ (Reread(r) /\ WalletOf(r) = NoWallet)
  BY DEF Reread, IInv, FindingsStayTrue
<1>2. CASE NoSuchWallet(r)
  <2>1. call[r].via = "caller"
    BY <1>2 DEF NoSuchWallet, IInv, TypeOK, FindingsStayTrue, InTransaction, Calls
  <2> QED
    BY <1>2, <2>1, AbortInv DEF NoSuchWallet, Answers
<1>3. CASE RejectAmount(r)
  BY <1>3, AbortInv DEF RejectAmount, Answers
<1>4. CASE Lookup(r) /\ KeyTaken(call[r].key)
  BY <1>4, AbortInv DEF Lookup, Answers
<1>5. CASE RefuseCurrency(r) \/ RefuseFunds(r) \/ RefuseHeld(r)
  BY <1>5, AbortInv DEF RefuseCurrency, RefuseFunds, RefuseHeld, Answers
<1>6. CASE InsertOverflow(r) \/ FindWinner(r) \/ Disconnect(r)
  BY <1>6, AbortInv DEF InsertOverflow, Passes, FindWinner, Disconnect, InTransaction, Answers
<1> QED
  BY <1>1, <1>2, <1>3, <1>4, <1>5, <1>6

-----------------------------------------------------------------------------
\* Appending a row that carries on from the last one keeps the list chained.
LEMMA AppendChained ==
  ASSUME NEW rows \in Seq(LedgerRow), Chained(rows), NEW row \in LedgerRow,
         row.balanceAfter = BalanceBefore(rows, Len(rows) + 1) + BalanceDelta(row.type, row.amount),
         row.heldAfter = HeldBefore(rows, Len(rows) + 1) + HeldDelta(row.type, row.amount),
         row.balanceAfter >= 0, row.heldAfter >= 0, row.amount > 0
  PROVE  Chained(Append(rows, row))
<1> DEFINE more == Append(rows, row)
<1>1. /\ Len(more) = Len(rows) + 1 /\ Len(rows) \in Nat
      /\ more[Len(rows) + 1] = row
      /\ \A n \in 1 .. Len(rows) : more[n] = rows[n]
  OBVIOUS
<1> HIDE DEF more
<1> SUFFICES ASSUME NEW n \in 1 .. Len(more) PROVE RowChained(more, n)
  BY DEF Chained, more
<1>2. BalanceBefore(more, n) = BalanceBefore(rows, n) /\ HeldBefore(more, n) = HeldBefore(rows, n)
  BY <1>1 DEF BalanceBefore, HeldBefore
<1>3. CASE n = Len(rows) + 1
  BY <1>1, <1>2, <1>3 DEF RowChained
<1>4. CASE n \in 1 .. Len(rows)
  BY <1>1, <1>2, <1>4 DEF Chained, RowChained
<1> QED
  BY <1>1, <1>3, <1>4

\* What Commit does, told from the committed tables: by LockDiscipline the
\* entity the request read is still the row in the table.
LEMMA CommitEffect ==
  ASSUME IInv, NEW r \in Requests, Commit(r)
  PROVE  LET c == call[r]
             v == c.ws
             w == wallet[v]
         IN  /\ pc[r] = "commit" /\ c \in Calls /\ v \in Workspaces /\ w \in WalletRow
             /\ seen[r] = w /\ rowLock[v] = r
             /\ Covered(w, c) /\ Fits(w, c) /\ c.amount > 0 /\ c.currency = w.currency
             /\ ~ KeyTaken(c.key) /\ ~ KeyPending(r, c.key)
             /\ ledger' = [ledger EXCEPT ![v] = Append(@, RowFor(w, c))]
             /\ wallet' = [wallet EXCEPT ![v] = SavedWallet(w, c)]
             /\ RowFor(w, c) \in LedgerRow /\ SavedWallet(w, c) \in WalletRow
<1>1. call[r] \in Calls /\ call[r].ws \in Workspaces /\ pc[r] = "commit"
  BY DEF IInv, TypeOK, Calls, Commit
<1>2. /\ rowLock[call[r].ws] = r /\ seen[r] = WalletOf(r) /\ WalletOf(r) # NoWallet
      /\ Covered(seen[r], call[r]) /\ Fits(seen[r], call[r])
      /\ call[r].amount > 0 /\ call[r].currency = seen[r].currency
      /\ ~ KeyTaken(call[r].key) /\ ~ KeyPending(r, call[r].key)
  BY <1>1 DEF IInv, LockDiscipline, FindingsStayTrue, Locked
<1>3. wallet[call[r].ws] \in WalletRow
  BY <1>1, <1>2 DEF IInv, TypeOK, WalletOf
<1> QED
  BY <1>1, <1>2, <1>3, WriteTypes DEF Commit, WalletOf

LEMMA CommitInv ==
  ASSUME IInv, NEW r \in Requests, Commit(r)
  PROVE  IInv'
<1> DEFINE c == call[r]
           v == c.ws
           w == wallet[v]
           row == RowFor(w, c)
           rows == ledger[v]
           n == Len(rows)
<1>1. /\ pc[r] = "commit" /\ c \in Calls /\ v \in Workspaces /\ w \in WalletRow
      /\ seen[r] = w /\ rowLock[v] = r
      /\ Covered(w, c) /\ Fits(w, c) /\ c.amount > 0 /\ c.currency = w.currency
      /\ ~ KeyTaken(c.key) /\ ~ KeyPending(r, c.key)
      /\ ledger' = [ledger EXCEPT ![v] = Append(@, row)]
      /\ wallet' = [wallet EXCEPT ![v] = SavedWallet(w, c)]
      /\ row \in LedgerRow /\ SavedWallet(w, c) \in WalletRow
  BY CommitEffect
<1>2. PICK what \in {"moved", "lost"} : End(r, what)
  BY DEF Commit
<1>3. /\ pc' = [pc EXCEPT ![r] = "done"]
      /\ answer' = [answer EXCEPT ![r] = what]
      /\ seen' = [seen EXCEPT ![r] = NoWallet]
      /\ rowLock' = [u \in Workspaces |-> IF rowLock[u] = r THEN NoRequest ELSE rowLock[u]]
      /\ call' = call /\ orphaned' = orphaned
  BY <1>2 DEF End, Goto, Commit
<1>4. /\ row.type = c.move /\ row.amount = c.amount /\ row.key = c.key
      /\ row.currency = w.currency
      /\ row.balanceAfter = NewBalance(w, c) /\ row.heldAfter = NewHeld(w, c)
      /\ SavedWallet(w, c).currency = w.currency
      /\ SavedWallet(w, c).balance = NewBalance(w, c)
      /\ SavedWallet(w, c).held = NewHeld(w, c)
  BY <1>1, WriteTypes DEF RowFor
<1>5. /\ rows \in Seq(LedgerRow) /\ n \in Nat
      /\ ledger'[v] = Append(rows, row) /\ Len(ledger'[v]) = n + 1
      /\ ledger'[v][n + 1] = row
      /\ \A m \in 1 .. n : ledger'[v][m] = rows[m]
      /\ \A u \in Workspaces \ {v} : ledger'[u] = ledger[u] /\ wallet'[u] = wallet[u]
      /\ wallet'[v] = SavedWallet(w, c)
  BY <1>1 DEF IInv, TypeOK
<1>6. w # NoWallet /\ SavedWallet(w, c) # NoWallet
  BY <1>1
<1> HIDE DEF c, v, w, row, rows, n
<1>5a. ASSUME NEW u \in Workspaces, NEW m \in 1 .. Len(ledger'[u])
       PROVE  \/ u = v /\ m = n + 1 /\ ledger'[u][m].key = c.key
              \/ m \in 1 .. Len(ledger[u]) /\ ledger'[u][m] = ledger[u][m]
  <2>1. CASE u = v
    <3>1. m = n + 1 \/ m \in 1 .. n
      BY <1>5, <2>1
    <3> QED
      BY <1>4, <1>5, <2>1, <3>1 DEF rows, n
  <2>2. CASE u # v
    BY <1>5, <2>2
  <2> QED
    BY <2>1, <2>2
<1>7. TypeOK'
  BY <1>1, <1>3, <1>5 DEF IInv, TypeOK, Locations, Answers
<1>8. w.balance = BalanceBefore(rows, n + 1) /\ w.held = HeldBefore(rows, n + 1)
  BY <1>1, <1>6 DEF IInv, CacheInLockStep, w, rows, n
<1>9. LedgerChained'
  <2>1. Chained(rows)
    BY <1>1 DEF IInv, LedgerChained, rows
  <2>2. Chained(Append(rows, row))
    BY <1>1, <1>4, <1>5, <1>8, <2>1, AppendChained DEF NewBalance, NewHeld, Covered, n
  <2> QED
    BY <1>5, <2>2 DEF IInv, LedgerChained
<1>10. CacheInLockStep'
  <2>1. BalanceBefore(ledger'[v], n + 2) = NewBalance(w, c)
    BY <1>4, <1>5 DEF BalanceBefore
  <2>2. HeldBefore(ledger'[v], n + 2) = NewHeld(w, c)
    BY <1>4, <1>5 DEF HeldBefore
  <2> SUFFICES ASSUME NEW u \in Workspaces
               PROVE  IF wallet'[u] = NoWallet
                        THEN Len(ledger'[u]) = 0
                        ELSE /\ wallet'[u].balance = BalanceBefore(ledger'[u], Len(ledger'[u]) + 1)
                             /\ wallet'[u].held = HeldBefore(ledger'[u], Len(ledger'[u]) + 1)
    BY DEF CacheInLockStep, BalanceBefore, HeldBefore
  <2>3. CASE u = v
    <3>1. Len(ledger'[u]) + 1 = n + 2
      BY <1>5, <2>3
    <3> QED
      BY <1>4, <1>5, <1>6, <2>1, <2>2, <2>3, <3>1
  <2>4. CASE u # v
    BY <1>5, <2>4 DEF IInv, CacheInLockStep
  <2> QED
    BY <2>3, <2>4
<1>11. OneRowPerKey'
  <2>1. \A u \in Workspaces : \A m \in 1 .. Len(ledger[u]) : ledger[u][m].key # c.key
    BY <1>1 DEF KeyTaken
  <2> SUFFICES ASSUME NEW t \in Workspaces, NEW u \in Workspaces,
                      NEW l \in 1 .. Len(ledger'[t]), NEW m \in 1 .. Len(ledger'[u]),
                      ledger'[t][l].key = ledger'[u][m].key
               PROVE  t = u /\ l = m
    BY DEF OneRowPerKey
  <2>2. \/ t = v /\ l = n + 1 /\ ledger'[t][l].key = c.key
        \/ l \in 1 .. Len(ledger[t]) /\ ledger'[t][l] = ledger[t][l]
    BY <1>5a
  <2>3. \/ u = v /\ m = n + 1 /\ ledger'[u][m].key = c.key
        \/ m \in 1 .. Len(ledger[u]) /\ ledger'[u][m] = ledger[u][m]
    BY <1>5a
  <2> QED
    BY <2>1, <2>2, <2>3 DEF IInv, OneRowPerKey
<1>12. OneCurrencyPerWallet'
  BY <1>1, <1>4, <1>5, <1>6 DEF IInv, OneCurrencyPerWallet, w, rows, n
<1>13. \A q \in Requests \ {r} :
         pc'[q] = pc[q] /\ seen'[q] = seen[q] /\ (pc[q] \in Locked => call[q].ws # v)
  BY <1>1, <1>3 DEF IInv, TypeOK, LockDiscipline
<1>14. LockDiscipline'
  <2>1. ASSUME NEW u \in Workspaces, rowLock'[u] # NoRequest
        PROVE  pc'[rowLock'[u]] \in Locked /\ call'[rowLock'[u]].ws = u
    <3>1. rowLock'[u] = rowLock[u] /\ rowLock[u] # r /\ rowLock[u] \in Requests
      BY <1>3, <2>1 DEF IInv, TypeOK
    <3>2. pc[rowLock[u]] \in Locked /\ call[rowLock[u]].ws = u
      BY <2>1, <3>1 DEF IInv, LockDiscipline
    <3> QED
      BY <1>3, <1>13, <3>1, <3>2
  <2>2. ASSUME NEW q \in Requests, pc'[q] \in Locked
        PROVE  /\ rowLock'[call'[q].ws] = q /\ seen'[q] = WalletOf(q)' /\ seen'[q] # NoWallet
    <3>1. q # r /\ pc[q] \in Locked /\ call[q].ws \in Workspaces
      BY <1>3, <1>13, <2>2 DEF IInv, TypeOK, Locked, Calls
    <3>2. /\ rowLock[call[q].ws] = q /\ seen[q] = wallet[call[q].ws] /\ seen[q] # NoWallet
      BY <3>1 DEF IInv, LockDiscipline, WalletOf
    <3> QED
      BY <1>3, <1>5, <1>13, <3>1, <3>2 DEF WalletOf
  <2> QED
    BY <2>1, <2>2 DEF LockDiscipline
<1>15. StaffAlwaysFindsWallet'
  BY <1>3 DEF IInv, TypeOK, StaffAlwaysFindsWallet
<1>16. FindingsStayTrue'
  <2> SUFFICES ASSUME NEW q \in Requests
               PROVE  /\ pc'[q] = "done" <=> answer'[q] # "pending"
                      /\ pc'[q] \in {"find", "create", "reread"} => call'[q].via # "caller"
                      /\ pc'[q] = "reread" => WalletOf(q)' # NoWallet
                      /\ pc'[q] \in InTransaction =>
                           /\ call'[q].via # "read"
                           /\ call'[q].via = "staff" =>
                               /\ WalletOf(q)' # NoWallet
                               /\ call'[q].currency = WalletOf(q)'.currency
                      /\ pc'[q] \in {"lock"} \cup Locked => call'[q].amount > 0
                      /\ pc'[q] \in {"save", "commit"} =>
                           /\ Covered(seen[q], call[q])'
                           /\ Fits(seen[q], call[q])'
                           /\ call'[q].currency = seen'[q].currency
                           /\ ~ KeyTaken(call[q].key)'
                           /\ ~ KeyPending(q, call[q].key)'
    BY DEF FindingsStayTrue, WalletOf, Covered, Fits, NewBalance, NewHeld
  <2>1. CASE q = r
    BY <1>3, <2>1 DEF IInv, TypeOK, InTransaction, Locked
  <2>2. CASE q # r
    <3>1. WalletOf(q)' = WalletOf(q) \/ /\ WalletOf(q) = w /\ WalletOf(q)' = SavedWallet(w, c)
      BY <1>3, <1>5 DEF WalletOf, w, IInv, TypeOK, Calls
    <3>2. ASSUME pc[q] \in {"save", "commit"}
          PROVE  ~ KeyTaken(call[q].key)' /\ ~ KeyPending(q, call[q].key)'
      <4>1. call[q].key # c.key
        BY <1>1, <2>2, <3>2 DEF KeyPending, c
      <4>2. ~ KeyTaken(call[q].key) /\ ~ KeyPending(q, call[q].key)
        BY <3>2 DEF IInv, FindingsStayTrue
      <4>3. ~ KeyTaken(call[q].key)'
        <5>1. ASSUME NEW u \in Workspaces, NEW m \in 1 .. Len(ledger'[u])
              PROVE  ledger'[u][m].key # call[q].key
          BY <1>5a, <4>1, <4>2 DEF KeyTaken
        <5> QED
          BY <1>3, <5>1 DEF KeyTaken
      <4> QED
        BY <1>3, <1>13, <4>2, <4>3 DEF KeyPending, IInv, TypeOK
    <3> QED
      BY <1>3, <1>4, <1>6, <1>13, <2>2, <3>1, <3>2
         DEF IInv, TypeOK, FindingsStayTrue, Covered, Fits, NewBalance, NewHeld
  <2> QED
    BY <2>1, <2>2
<1> QED
  BY <1>7, <1>9, <1>10, <1>11, <1>12, <1>14, <1>15, <1>16 DEF IInv

-----------------------------------------------------------------------------
LEMMA StepInv ==
  ASSUME IInv, [Next]_vars
  PROVE  IInv'
<1>1. CASE UNCHANGED vars
  <2>1. TablesInv'
    BY <1>1, TablesUntouched DEF IInv, TablesInv, tables, vars
  <2> QED
    BY <1>1, <2>1 DEF IInv, TypeOK, LockDiscipline, FindingsStayTrue, StaffAlwaysFindsWallet,
       TablesInv, WalletOf, Covered, Fits, NewBalance, NewHeld, KeyTaken, KeyPending, vars
<1>2. ASSUME NEW r \in Requests, NEW c \in Offered, Ask(r, c) PROVE IInv'
  BY <1>2, AskInv
<1>3. ASSUME NEW r \in Requests, Step(r) PROVE IInv'
  <2>1. CASE FindWallet(r) \/ Reread(r)
    <3>1. CASE WalletOf(r) # NoWallet
      BY <2>1, <3>1, ResolvedInv DEF FindWallet, Reread
    <3>2. CASE WalletOf(r) = NoWallet
      BY <2>1, <3>2, AdvanceInv, RefusalInv
    <3> QED
      BY <3>1, <3>2
  <2>2. CASE CreateMissing(r)
    BY <2>2, CreateMissingInv
  <2>3. CASE LockWallet(r)
    BY <2>3, LockWalletInv
  <2>4. CASE Commit(r)
    BY <2>4, CommitInv
  <2>5. CASE Lookup(r) \/ InsertRow(r) \/ SaveWallet(r)
    BY <2>5, AdvanceInv, RefusalInv
  <2>6. CASE RejectAmount(r) \/ NoSuchWallet(r) \/ RefuseCurrency(r) \/ RefuseFunds(r)
             \/ RefuseHeld(r) \/ InsertOverflow(r) \/ FindWinner(r)
    BY <2>6, RefusalInv
  <2> QED
    BY <1>3, <2>1, <2>2, <2>3, <2>4, <2>5, <2>6 DEF Step
<1>4. ASSUME NEW r \in Requests, Disconnect(r) PROVE IInv'
  BY <1>4, RefusalInv
<1>5. CASE BackfillFind \/ BackfillSave
  BY <1>5, BackfillInv
<1> QED
  BY <1>1, <1>2, <1>3, <1>4, <1>5 DEF Next

\* The inductive invariant holds in every reachable state of every instance.
THEOREM Invariance == Spec => []IInv
<1>1. Init => IInv
  BY InitInv
<1>2. IInv /\ [Next]_vars => IInv'
  BY StepInv
<1> QED
  BY <1>1, <1>2, PTL DEF Spec

\* The variables keep their types.
THEOREM TypeCorrect == Spec => []TypeOK
<1>1. IInv => TypeOK
  BY DEF IInv
<1> QED
  BY <1>1, Invariance, PTL

\* The ledger of every wallet is one running total above its floors: any number of
\* concurrent movements leave no gap.
THEOREM LedgerIsRunningTotal == Spec => []LedgerChained
<1>1. IInv => LedgerChained
  BY DEF IInv
<1> QED
  BY <1>1, Invariance, PTL

\* The cached balance of wallet.service.ts step 6 is the last line of the ledger.
THEOREM BalanceIsLedgerTotal == Spec => []CacheInLockStep
<1>1. IInv => CacheInLockStep
  BY DEF IInv
<1> QED
  BY <1>1, Invariance, PTL

\* A key moves money at most once, however often and from wherever it is used.
THEOREM KeyMovesOnce == Spec => []OneRowPerKey
<1>1. IInv => OneRowPerKey
  BY DEF IInv
<1> QED
  BY <1>1, Invariance, PTL

\* The row lock of applyTxn excludes: what a request read under it stays true
\* until it commits, and nobody keeps it longer than a transaction.
THEOREM LockExcludes == Spec => []LockDiscipline
<1>1. IInv => LockDiscipline
  BY DEF IInv
<1> QED
  BY <1>1, Invariance, PTL

\* The checks of applyTxn before and after the lock still hold at its INSERT.
THEOREM ChecksOutlast == Spec => []FindingsStayTrue
<1>1. IInv => FindingsStayTrue
  BY DEF IInv
<1> QED
  BY <1>1, Invariance, PTL

\* Rule R3: nothing is booked in another currency than the workspace's.
THEOREM CurrencyIsLocked == Spec => []OneCurrencyPerWallet
<1>1. IInv => OneCurrencyPerWallet
  BY DEF IInv
<1> QED
  BY <1>1, Invariance, PTL

\* ensureWallet never ends in a 404, whoever creates the wallet first.
THEOREM StaffFindsWallet == Spec => []StaffAlwaysFindsWallet
<1>1. IInv => StaffAlwaysFindsWallet
  BY DEF IInv
<1> QED
  BY <1>1, Invariance, PTL

-----------------------------------------------------------------------------
(* The refinement: every step of Wallet is a step of WalletLedger, or none. *)

\* The two modules take the same arithmetic from LedgerRows.
LEMMA SameRows ==
  /\ \A w, c : Ledger!SavedWallet(w, c) = SavedWallet(w, c)
  /\ \A w, c : Ledger!RowFor(w, c) = RowFor(w, c)
  /\ \A w, c : Ledger!Covered(w, c) = Covered(w, c)
  /\ \A w, c : Ledger!Fits(w, c) = Fits(w, c)
  /\ \A w, c : Ledger!NewBalance(w, c) = NewBalance(w, c)
  /\ \A w, c : Ledger!NewHeld(w, c) = NewHeld(w, c)
  /\ \A x : Ledger!ZeroWallet(x) = ZeroWallet(x)
  /\ \A k : Ledger!KeyTaken(k) = KeyTaken(k)
  BY DEF Ledger!SavedWallet, SavedWallet, Ledger!RowFor, RowFor, Ledger!Covered, Covered,
         Ledger!Fits, Fits, Ledger!NewBalance, NewBalance, Ledger!NewHeld, NewHeld,
         Ledger!ZeroWallet, ZeroWallet, Ledger!KeyTaken, KeyTaken, Ledger!Column, Column,
         Ledger!BalanceDelta, BalanceDelta, Ledger!HeldDelta, HeldDelta

\* An Abort with a true reason is a refusal of the abstract ledger.
LEMMA RefusalStep ==
  ASSUME IInv, NEW r \in Requests, pc[r] # "done",
         NEW why \in Ledger!Refusals, Ledger!Reason(r, why), Abort(r, why)
  PROVE  Ledger!Refuse(r)
  BY DEF IInv, FindingsStayTrue, Abort, End, Ledger!Refuse, Ledger!Answer

\* So is one with a query error or a broken connection a failure of it.
LEMMA FailureStep ==
  ASSUME IInv, NEW r \in Requests, pc[r] # "done",
         NEW what \in {"failed", "lost"}, Abort(r, what)
  PROVE  Ledger!Fail(r)
  BY DEF IInv, FindingsStayTrue, Abort, End, Ledger!Fail, Ledger!Answer

LEMMA OpenStep ==
  ASSUME NEW S \in SUBSET Workspaces, \A w \in S : wallet[w] = NoWallet,
         wallet' = [w \in Workspaces |->
                      IF w \in S THEN ZeroWallet(DefaultCurrency[w]) ELSE wallet[w]],
         UNCHANGED <<ledger, call, answer>>
  PROVE  Ledger!Next
<1>1. Ledger!Open(S)
  BY SameRows DEF Ledger!Open
<1> QED
  BY <1>1 DEF Ledger!Next

LEMMA ResolvedStep ==
  ASSUME IInv, NEW r \in Requests, pc[r] \in {"find", "reread"},
         WalletOf(r) # NoWallet, Resolved(r)
  PROVE  Ledger!Next
<1>1. answer[r] = "pending" /\ call[r].via # "caller"
  BY DEF IInv, FindingsStayTrue
<1>2. answer' \in {answer, [answer EXCEPT ![r] = "found"]}
  BY DEF Resolved, End
<1>3. Ledger!Resolve(r)
  BY <1>1, <1>2 DEF Ledger!Resolve, Resolved, WalletOf
<1> QED
  BY <1>3 DEF Ledger!Next

LEMMA CommitStep ==
  ASSUME IInv, NEW r \in Requests, Commit(r)
  PROVE  Ledger!Move(r)
<1>1. PICK what \in {"moved", "lost"} : End(r, what)
  BY DEF Commit
<1>2. answer[r] = "pending"
  BY DEF Commit, IInv, FindingsStayTrue
<1>3. Ledger!Answer(r, what)
  BY <1>1, <1>2 DEF End, Ledger!Answer
<1>4. wallet[call[r].ws] # NoWallet
  BY CommitEffect
<1> QED
  BY <1>3, <1>4, CommitEffect, SameRows DEF Ledger!Move, Commit

LEMMA StepRefines ==
  ASSUME IInv, [Next]_vars
  PROVE  [Ledger!Next]_(Ledger!ledgerVars)
<1> USE DEF Ledger!Refusals
<1>1. CASE UNCHANGED vars
  BY <1>1 DEF vars, Ledger!ledgerVars
<1>2. ASSUME NEW r \in Requests, NEW c \in Offered, Ask(r, c) PROVE Ledger!Next
  <2>1. answer[r] # "pending"
    BY <1>2 DEF Ask, IInv, FindingsStayTrue
  <2> QED
    BY <1>2, <2>1 DEF Ask, Ledger!Ask, Ledger!Next
<1>3. ASSUME NEW r \in Requests, Step(r) \/ Disconnect(r)
      PROVE  Ledger!Next \/ UNCHANGED Ledger!ledgerVars
  <2>1. CASE FindWallet(r) \/ Reread(r)
    BY <2>1, ResolvedStep
       DEF FindWallet, Reread, IInv, FindingsStayTrue, Ledger!ledgerVars
  <2>2. CASE CreateMissing(r)
    <3> DEFINE S == IF WalletOf(r) = NoWallet THEN {call[r].ws} ELSE {}
    <3>1. S \in SUBSET Workspaces /\ \A w \in S : wallet[w] = NoWallet
      BY DEF IInv, TypeOK, Calls, WalletOf
    <3>2. wallet' = [w \in Workspaces |->
                       IF w \in S THEN ZeroWallet(DefaultCurrency[w]) ELSE wallet[w]]
      BY <2>2, <3>1 DEF CreateMissing, IInv, TypeOK, WalletOf
    <3> HIDE DEF S
    <3> QED
      BY <2>2, <3>1, <3>2, OpenStep DEF CreateMissing
  <2>3. CASE LockWallet(r) \/ InsertRow(r) \/ SaveWallet(r)
    BY <2>3 DEF LockWallet, InsertRow, SaveWallet, Ledger!ledgerVars
  <2>4. CASE Lookup(r)
    <3>1. CASE KeyTaken(call[r].key) /\ Abort(r, "replayed")
      BY <2>4, <3>1, SameRows DEF Lookup, Abort, End, IInv, FindingsStayTrue,
         Ledger!Replay, Ledger!Answer, Ledger!Next
    <3> QED
      BY <2>4, <3>1 DEF Lookup, Ledger!ledgerVars
  <2>5. CASE RejectAmount(r)
    <3>1. Ledger!Reason(r, "WALLET_AMOUNT_INVALID")
      BY <2>5 DEF RejectAmount, Ledger!Reason
    <3> QED
      BY <2>5, <3>1, RefusalStep DEF RejectAmount, Ledger!Next
  <2>6. CASE NoSuchWallet(r)
    <3>1. call[r].via = "caller"
      BY <2>6 DEF NoSuchWallet, IInv, TypeOK, FindingsStayTrue, InTransaction, Calls
    <3>2. Ledger!Reason(r, "WALLET_NOT_FOUND")
      BY <2>6, <3>1 DEF NoSuchWallet, WalletOf, Ledger!Reason
    <3> QED
      BY <2>6, <3>2, RefusalStep DEF NoSuchWallet, Ledger!Next
  <2>7. ASSUME pc[r] = "check" PROVE seen[r] = wallet[call[r].ws] /\ seen[r] # NoWallet
    BY <2>7 DEF IInv, LockDiscipline, WalletOf, Locked
  <2>8. CASE RefuseCurrency(r)
    <3>1. call[r].via = "caller"
      BY <2>7, <2>8 DEF RefuseCurrency, IInv, TypeOK, FindingsStayTrue, InTransaction, WalletOf,
         Calls
    <3>2. Ledger!Reason(r, "WALLET_CURRENCY_MISMATCH")
      BY <2>7, <2>8, <3>1 DEF RefuseCurrency, Ledger!Reason
    <3> QED
      BY <2>8, <3>2, RefusalStep DEF RefuseCurrency, Ledger!Next
  <2>9. CASE RefuseFunds(r)
    <3>1. Ledger!Reason(r, "INSUFFICIENT_FUNDS")
      BY <2>7, <2>9, SameRows DEF RefuseFunds, Ledger!Reason
    <3> QED
      BY <2>9, <3>1, RefusalStep DEF RefuseFunds, Ledger!Next
  <2>10. CASE RefuseHeld(r)
    <3>1. Ledger!Reason(r, "INSUFFICIENT_HELD")
      BY <2>7, <2>10, SameRows DEF RefuseHeld, Ledger!Reason
    <3> QED
      BY <2>10, <3>1, RefusalStep DEF RefuseHeld, Ledger!Next
  <2>11. CASE InsertOverflow(r) \/ FindWinner(r) \/ Disconnect(r)
    BY <2>11, FailureStep DEF InsertOverflow, Passes, FindWinner, Disconnect, InTransaction,
       Ledger!Next
  <2>12. CASE Commit(r)
    BY <2>12, CommitStep DEF Ledger!Next
  <2> QED
    BY <1>3, <2>1, <2>2, <2>3, <2>4, <2>5, <2>6, <2>8, <2>9, <2>10, <2>11, <2>12 DEF Step
<1>4. CASE BackfillFind \/ BackfillSave
  <2> DEFINE S == IF BackfillSave /\ \A w \in orphaned : wallet[w] = NoWallet
                    THEN orphaned ELSE {}
  <2>1. S \in SUBSET Workspaces /\ \A w \in S : wallet[w] = NoWallet
    BY DEF IInv, TypeOK
  <2>2. wallet' = [w \in Workspaces |->
                     IF w \in S THEN ZeroWallet(DefaultCurrency[w]) ELSE wallet[w]]
    BY <1>4 DEF BackfillFind, BackfillSave, IInv, TypeOK
  <2>3. UNCHANGED <<ledger, call, answer>>
    BY <1>4 DEF BackfillFind, BackfillSave
  <2> HIDE DEF S
  <2> QED
    BY <2>1, <2>2, <2>3, OpenStep
<1> QED
  BY <1>1, <1>2, <1>3, <1>4 DEF Next

LEMMA InitRefines == Init => Ledger!Init
<1> SUFFICES ASSUME Init PROVE Ledger!Init
  OBVIOUS
<1>1. PICK old \in SUBSET Workspaces :
        wallet = [w \in Workspaces |->
                    IF w \in old THEN NoWallet ELSE ZeroWallet(DefaultCurrency[w])]
  BY DEF Init
<1>2. wallet = [w \in Workspaces |->
                  IF w \in old THEN NoWallet ELSE Ledger!ZeroWallet(DefaultCurrency[w])]
  BY <1>1 DEF ZeroWallet, Ledger!ZeroWallet
<1> QED
  BY <1>2 DEF Init, Ledger!Init

\* Whatever runs concurrently and wherever connections break, callers cannot
\* tell the transactions of applyTxn from the one-step ledger.
THEOREM Refinement == Spec => ImplementsLedger
<1>1. Init => Ledger!Init
  BY InitRefines
<1>2. IInv /\ [Next]_vars => [Ledger!Next]_(Ledger!ledgerVars)
  BY StepRefines
<1> QED
  BY <1>1, <1>2, Invariance, PTL DEF Spec, ImplementsLedger, Ledger!Spec

-----------------------------------------------------------------------------
\* The lists a step leaves alone are trivially only appended to.
LEMMA UntouchedAppends ==
  ASSUME TypeOK, NEW w \in Workspaces, ledger'[w] = ledger[w],
         wallet[w] # NoWallet => wallet'[w] = wallet[w]
  PROVE  /\ Len(ledger'[w]) >= Len(ledger[w])
         /\ SubSeq(ledger'[w], 1, Len(ledger[w])) = ledger[w]
         /\ wallet[w] # NoWallet =>
              /\ wallet'[w] # NoWallet
              /\ wallet'[w].currency = wallet[w].currency
              /\ wallet'[w] # wallet[w] => ledger'[w] # ledger[w]
<1>1. ledger[w] \in Seq(LedgerRow) /\ Len(ledger[w]) \in Nat
  BY DEF TypeOK
<1>2. SubSeq(ledger[w], 1, Len(ledger[w])) = ledger[w]
  BY <1>1
<1> QED
  BY <1>1, <1>2

LEMMA CommitAppends ==
  ASSUME IInv, NEW r \in Requests, Commit(r)
  PROVE  OnlyAppends
<1> DEFINE v == call[r].ws
           row == RowFor(wallet[v], call[r])
<1>1. /\ v \in Workspaces /\ wallet[v] \in WalletRow /\ row \in LedgerRow
      /\ Fits(wallet[v], call[r]) /\ call[r] \in Calls
      /\ ledger' = [ledger EXCEPT ![v] = Append(@, row)]
      /\ wallet' = [wallet EXCEPT ![v] = SavedWallet(wallet[v], call[r])]
  BY CommitEffect
<1>2. SavedWallet(wallet[v], call[r]) \in WalletRow
      /\ SavedWallet(wallet[v], call[r]).currency = wallet[v].currency
  BY <1>1, WriteTypes
<1>3. ledger[v] \in Seq(LedgerRow) /\ ledger'[v] = Append(ledger[v], row)
  BY <1>1 DEF IInv, TypeOK
<1> HIDE DEF v, row
<1>4. /\ Len(ledger'[v]) = Len(ledger[v]) + 1
      /\ SubSeq(ledger'[v], 1, Len(ledger[v])) = ledger[v]
  BY <1>1, <1>3
<1>5. \A u \in Workspaces \ {v} : ledger'[u] = ledger[u] /\ wallet'[u] = wallet[u]
  BY <1>1 DEF IInv, TypeOK
<1>6. wallet'[v] = SavedWallet(wallet[v], call[r]) /\ wallet'[v] # NoWallet
  BY <1>1, <1>2 DEF IInv, TypeOK
<1>7. ledger'[v] # ledger[v]
  BY <1>3, <1>4
<1> QED
  BY <1>2, <1>3, <1>4, <1>5, <1>6, <1>7, UntouchedAppends DEF OnlyAppends, IInv

LEMMA StepAppends ==
  ASSUME IInv, [Next]_vars
  PROVE  [OnlyAppends]_tables
<1>1. CASE \E r \in Requests : Commit(r)
  BY <1>1, CommitAppends
<1>2. CASE ~ \E r \in Requests : Commit(r)
  <2>1. ledger' = ledger
    BY <1>2 DEF Next, Step, vars, Ask, Abort, Disconnect, FindWallet, CreateMissing, Reread,
       Resolved, RejectAmount, Lookup, LockWallet, NoSuchWallet, RefuseCurrency, RefuseFunds,
       RefuseHeld, InsertRow, InsertOverflow, FindWinner, SaveWallet, BackfillFind, BackfillSave
  <2>2. \A w \in Workspaces : wallet[w] # NoWallet => wallet'[w] = wallet[w]
    <3>1. ASSUME NEW r \in Requests, CreateMissing(r)
          PROVE  \A w \in Workspaces : wallet[w] # NoWallet => wallet'[w] = wallet[w]
      BY <3>1 DEF CreateMissing, WalletOf, IInv, TypeOK
    <3>2. CASE BackfillSave
      BY <3>2 DEF BackfillSave, IInv, TypeOK
    <3> QED
      BY <1>2, <3>1, <3>2 DEF Next, Step, vars, Ask, Abort, Disconnect, FindWallet, Reread,
         Resolved, RejectAmount, Lookup, LockWallet, NoSuchWallet, RefuseCurrency, RefuseFunds,
         RefuseHeld, InsertRow, InsertOverflow, FindWinner, SaveWallet, BackfillFind
  <2> QED
    BY <2>1, <2>2, UntouchedAppends DEF OnlyAppends, IInv
<1> QED
  BY <1>1, <1>2

\* Ledger rows are immutable and no step moves a balance without a new row.
THEOREM AppendOnlyHolds == Spec => AppendOnly
<1>1. IInv /\ [Next]_vars => [OnlyAppends]_tables
  BY StepAppends
<1> QED
  BY <1>1, Invariance, PTL DEF Spec, AppendOnly
=============================================================================
