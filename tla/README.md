# A verification project for sm-server

TLA+ models of the stateful core of this NestJS server (PostgreSQL through
TypeORM, Redis through ioredis), TLC runs that check them on small instances,
and TLAPS proofs of the properties that matter most for every instance.

`PROJECT.json` is the index: components, runs, mutants, the map from every
definition to the lines it models, findings, hazards, theorems.

## 1. Inventory

The server is one Node process, or several of them, in front of one PostgreSQL
database and one Redis. Requests interleave at every `await`. The database is
READ COMMITTED; there is no scheduler and no queue, all work is done in a
request.

| component | state | operations | hard part |
|---|---|---|---|
| **Wallets** `wallets/`, `customers-admin/admin-wallets.service.ts`, `database/seeds/seed.ts` | `wallets` (cached balance and held amount, in micros), `wallet_transactions` (append-only ledger, unique `idempotency_key`) | credit, debit, hold, release, refund, createWallet, ensureWallet, staff adjustment, backfill | row lock, unique key, retries, one failed statement aborts the transaction, bigint width |
| **Rates** `pricing/`, `services/service-pricing.service.ts`, `customers-admin/workspace-rates.service.ts` | `service_country_rates`, `workspace_service_rates` (ladders), Redis `ratever`, `rate:base`, `rate:ovr` | resolve, upsertRate, addCountry, removeRate, removeCountry, replaceLadder, clearLadder, removeCategory, invalidate | read-through against concurrent writes, entries that expire one by one, crash between commit and bump |
| **Sessions** `sessions/`, `auth-core/` | Redis `sess:{sid}` and `subject:{type}:{id}` | issue, rotate, revoke, revokeAllForSubject, exists | no transaction: GET ... SET, SET then SADD, a loop over a snapshot |
| **Staff** `admin/` | `platform_staff` | invite, acceptInvite, update, remove, login | entities read, changed and saved whole; the last super admin |
| **Members** `members/`, `workspaces/plan-limit.service.ts`, guard | `workspace_members`, `workspace_invitations` | invite, re-invite, resend, revoke, accept, claim, changeRole, remove | advisory lock that only some operations take; invitations read before it |
| **Customers' auth, OTP, users** `auth/`, `otp/`, `users/` | `users`, `otp_verifications` | signup, verify, resend, login, mobile verification | cooldown, attempts and consumption are read, checked and saved without a lock |
| **Workspaces** `workspaces/` | `workspaces`, `workspace_services` | create (cap, slug, owner, service, wallet in one transaction) | advisory lock, retry after a collision |
| **Catalogue** `services/`, `countries/`, `currencies/`, `plans/`, `database/seeds/reference.seed.ts` | lookup tables, base rates, plans | create, update, remove, seed again | exists-then-insert, check-then-link, removals between the two |
| **Referral partners** `referral/` | `referral_partners` | register, resend, verify, login | as customers, with rows that are read once and saved whole |
| `customers-admin/` listings | none | search and present customers | only reads |
| WhatsApp, mailer, SMS, security, redis wrapper, HTTP shell | none, or external | | not modelled |

How they interact: creating a workspace creates its wallet in the same
transaction; every rate write calls the resolver's `invalidate`; changing a staff
account revokes its sessions; claiming an invitation creates a user and issues
a session; the seat checks read the tables of the members. Everything else is
shared rows.

What makes each correct:

* **wallets**: balance = ledger, a key moves money once, floors at zero, one
  currency, append-only;
* **rates**: no price from what an announced write replaced, a ladder is one
  PUT, the two-tier rule, bounded drift after a lost bump;
* **sessions**: a revoked session stays revoked, revoking all misses none, a
  suspended account cannot keep refreshing;
* **members**: the plan's seats hold, nobody joins halfway, the advisory lock is
  not leaked;
* **accounts and codes**: a code proves only what it was sent for, a number has one
  verified holder, one code is open at a time, a refusal for the cooldown leaves
  the code its owner waits for;
* **staff**: there is always an active super admin, no email has two live accounts;
* **workspaces**: all rows or none, no more of them than the plan allows;
* **catalogue**: no category, rate or workspace refers to a service that is gone (a
  plan may: `plans.service_key` has no foreign key), a removed category leaves no rates.

## 2. Modules

| module | what it is |
|---|---|
| `LedgerRows` | rows, movements and the running total of a ledger, shared by the next two |
| `WalletLedger` | the promise of the wallet: a movement is one step |
| `Wallet` | the wallet as it is coded: statements, row locks, unique key, aborted transactions |
| `WalletProofs` | theorems about `Wallet`, including that it implements `WalletLedger` |
| `Ladder` | pickRung and the two-tier rule, with a declarative definition beside them |
| `LadderProofs` | theorems about the operators of `Ladder` |
| `RateCache` | writers, versioned cache and resolvers |
| `RateCacheProofs` | theorems about `RateCache`, with those of `LadderProofs` |
| `Sessions` | session store with its callers, command by command |
| `SessionsProofs` | theorems about `Sessions` |
| `Members` | members, invitations, seats |
| `MembersProofs` | theorems about `Members` |
| `Accounts` | customers, partners, one-time codes, mobile numbers |
| `AccountsProofs` | theorems about `Accounts` |
| `Staff` | the platform's own staff and its super admins |
| `StaffProofs` | theorems about `Staff` |
| `Catalogue` | currencies, countries, services, categories, base rates and the seed |
| `WorkspaceBook` | the promise of the creation of workspaces: one step each, whole |
| `Onboarding` | plans and the creation of workspaces, on top of `Catalogue` |
| `OnboardingProofs` | theorems about `Catalogue` and `Onboarding`, including that it implements `WorkspaceBook` |
| `MCWallet`, `MCRateCache`, `MCSessions`, `MCMembers`, `MCAccounts`, `MCStaff`, `MCOnboarding` | instances for TLC |

How they fit together: `Wallet` is what `Onboarding` calls when it inserts a wallet
(`InsertWallet`), with its movements left out; `RateCache` sees the writes of
`Catalogue` to one cell as states of that cell; `Sessions` has command by command what
`Staff` takes for one step (`RevokeAll`); the accounts that `Members` and `Onboarding`
take for granted come from `Accounts` (`CreateInvited` is the claim of an invitation,
and only an account with a verified number creates workspaces).

### Wallet

A request is at one of the steps of `applyTxn` (`pc`): the idempotency lookup,
`SELECT ... FOR UPDATE`, the checks and the INSERT, the UPDATE of the cached
balance, COMMIT. Staff calls and reads of the wallet page go through
`ensureWallet` first. What a transaction writes is invisible until `Commit`, so
`ledger` and `wallet` change there; an INSERT of a key that another open
transaction has inserted waits (`KeyPending`). An INSERT that finds its key
committed goes on to `FindWinner`, which runs in a transaction that PostgreSQL
has aborted. Amounts are micros, and `Column` bounds them: past it an INSERT
fails as the bigint column does. `Disconnect` breaks the connection before the
COMMIT, and the answer of a `Commit` may be lost, after which the caller may
repeat the call. `BackfillFind` and `BackfillSave` are the seed's.
`Fresh` gives staff calls a key of their own, as `randomUUID` does.

### Rates

`states` is the history of what the rate tables held for one (service, country,
category), one record per committed write; `announced[v + 1]` is the newest
state when the version became `v`. A cache entry remembers which state it holds
(`at`) and which version it is stamped with (`v`). So staleness is a comparison
of two numbers and needs no clock. A resolver reads version, base entry, override
entry, and on a miss loads the base and the rungs in two queries and puts both
entries. A replaced ladder is two statements under an advisory lock, and its INSERT may
meet the unique index on thresholds (`Collides`), which undoes the DELETE and is answered
LADDER_CONFLICT; other writers take no lock. `Crash` loses a bump. Base rows, ladders and
volumes come from small sets. A call that finds the base fresh and the override not is
`Missed`: `NoStalePrice` and `PriceFollowsTheRule` say what such a call does get, and
`MissMeansNoOverride` what a comment of the code says of it.

### Sessions

Every Redis command is a step. A token is the session's id and a number, so that
"the hash of the current token" is an equality. `Login` stands for the two reads
before the `save` of `onLogin` (`Touch`), and carries what it read of the account
(`standing`: status, role and deletion together). `revoke` is GET, DEL, SREM, for
a logout, a refused refresh or each turn of the loop of `revokeAllForSubject`
(`aim` says which). `ended`, `crashes`, `quiet` and `strays` only record what has
happened, for the properties.

### Members

People are their emails. A request under the advisory lock is at `look`,
`count`, `write` or `join`; `copy` and `was` are the rows it has read, and
`SaveCopy` writes the whole row from the copy, as TypeORM's `save` does with every
column that differs, `deleted_at` included. `stale` records that this has
happened with a copy that was out of date. An account that waits for its email's
verification counts as one that can accept: it can verify and accept at any
time. The plan has both limits set.

### Accounts

An account is named by its email and has what verification changes: `verified` (status
and `emailVerified`, which the code only changes together), the mobile number and
whether it is verified. `codes` is `otp_verifications` in the order of creation. The
clock is three ages of a code: it holds the cooldown, it is usable, it has expired; an
older code is never younger. A request goes from statement to statement: the checks
of `issue` and `reissue` (`Cool`, `Invalidate`, `Mint`), the delivery (`Send`), the
read and the save of the account (`Reread`/`Overwrite`, `StageRead`/`Stage`,
`MarkRead`/`Mark`, `MarkMobile`). `Save` writes the whole copy and meets
`uq_users_mobile`. A right guess is only made of a code that was delivered. Whether a
password is right is left out: a login is one that passes. `to`, `proof` and `calm`
only record, for the properties: where a code went, which code verified an account,
and whose requests have not overlapped so far. The properties that say `calm` do not
hold when two requests of one account overlap, because no statement here takes a lock.
Of `NumberProved` a comment of the code promises that it holds in general (section 6).

### Staff

`staff` is the table, `signed[i]` the roles in the access tokens of the live sessions of
row `i`: the guard asks the token, never the table. An update, a removal, an
accepted invitation and a login read a row, and save or soft-remove it later; an update
or removal that takes a super admin away counts the super admins in between. `stale`
records that a copy or a count was out of date when it was used. A save revives a row
that was removed meanwhile and then meets the index on live emails.

### Catalogue and Onboarding

Rows are their keys, with the columns others depend on: a country's currency and
`isActive`, a service's status, a rate's currency and `isActive`, a plan's status and
cap. Every operation checks (`Ask` with its guard), perhaps checks again, and writes in
a later step; keys and unique indexes are checked by the write. Removing a service
cascades to categories and rates and is refused while a workspace uses it, and waits
for a transaction that has inserted a row for it. `save` of an entity with a natural
key is an INSERT or an UPDATE by what its own SELECT sees, so the loser of two
creations may do either.

`Onboarding` adds plans and `createForService`: three reads without a transaction, then up
to `SlugAttempts` transactions, each with the advisory lock of user and service, the count
of what the user owns, and four INSERTs. What a transaction has inserted is in its
request (`row`) until `Commit` puts it into `workspaces`, and an INSERT of a slug waits
for another that is not committed yet. `WorkspaceBook` is the abstract specification.

## 3. Runs

| run | instance | states | checks |
|---|---|---|---|
| `wallet` | 2 requests, 2 wallets (each perhaps not yet created), 8 calls on 4 keys, column 0..3 | 205 thousand | 8 invariants, append-only, refinement, every call answered |
| `rate` | 1 resolver, 2 writers, 1 workspace, 4 ladders, 3 states | 190 thousand | 5 invariants, bounded drift |
| `sessions_safety` | 1 account, 2 sessions, 2 requests, 2 tokens each, 1 cut-off | 1.3 million | 3 invariants |
| `sessions_settle` | 1 account, 1 session, 2 requests, 3 tokens, 1 cut-off | 79 thousand | suspension sticks |
| `members_safety` | 3 people (a founder, others perhaps joined), 2 requests, 2 members and 1 agent allowed, 2 invitations, 2 tokens | 580 thousand | 5 invariants |
| `accounts` | 2 customers or 1 partner, 2 numbers, 2 requests, 2 codes, 1 attempt | 970 thousand | 6 invariants |
| `staff` | 2 emails, 3 rows, 2 roles, 2 requests, 4 changes | 770 thousand | 3 invariants |
| `onboarding` | 2 currencies, 2 countries, 2 services, 1 category, 2 customers, 2 slugs and 1 with a suffix, 2 attempts, 2 requests, 4 operations | 600 thousand | 3 invariants, the cap, refinement |
| `wallet_replay`, `rate_override`, `sessions_logout`, `staff_last` | small | | one claim each that the code does not keep (section 6) |

Why these bounds are enough to be interesting:

* **wallet**: two requests are enough for each race (lookup against commit, lock
  against lock, INSERT against INSERT, first touch against first touch). The column
  0..3 with amounts of 1 and 2 lets movements pass, breach each floor and
  overflow. One key is used on both wallets, where no row lock keeps the two INSERTs
  apart: one of them does wait for the other there, with a row lock of its own. Staff
  calls have a key of their own, and each wallet may be missing at the start.
* **rates**: three states are the original and two writes, which is what a
  stale read-through and a lost bump need. The ladders include one that arrives unsorted and two that
  the validator refuses. One workspace is enough for what the run checks, as an override
  entry has one workspace and a missed override can come from its own time to live;
  `rate_override` has two workspaces, which share the base entry.
* **sessions**: with two tokens a session is used, rotated and replayed; three
  tokens let refreshes overlap while the account is suspended. `sessions_safety`
  counts on symmetry of the requests; the liveness runs use none.
* **members**: with a limit of two and one agent's seat the limits bind at once,
  and members who have already joined make promotion, demotion and removal
  possible before the invitations are used up.

* **accounts**: two codes are an old one and its replacement; one attempt makes a single
  wrong guess lock a code, so that the lock is met at once. Two customers race for one
  number, one customer changes between two. Customers and partners share neither rows
  nor indexes nor endpoints, so that `OneKind` looks at each behaviour of one kind; the
  states with both at work are interleavings of those.
* **staff**: three rows are a super admin, a second one and a re-invited email. Four
  changes are two invitations or promotions and the two that overlap.
* **onboarding**: one country and one service are seeded, the others are made, switched
  off and removed by operators. Two attempts at a slug are the name itself and one
  suffix, which can collide as well. A cap of 1 or 2 is reached within four
  operations; a plan without a cap behaves as one with a cap nobody reaches. One
  category is enough, as no operation touches two of them but the sale of a country,
  which handles them as a set.

`CHECK_DEADLOCK FALSE` in the runs of `Members`, `Accounts`, `Staff` and `Onboarding`: the
bounds on tokens, codes, rows and operations run out, and nobody has to make another
request. Every property has a mutant in
`PROJECT.json`, a plausible bug in one mapped definition (kept beside it in the
module as "Mutant of ...") that makes TLC find the property violated.

## 4. Fairness

Only what the code's scheduling gives: Node resumes every pending request, so each
started request takes its next step (`WF` of `Step`). PostgreSQL serves row locks
in the order of their queue and wakes the INSERT that waits for a transaction
(`SF` of `LockWallet` and `InsertRow` in `Wallet`). Redis drops entries at their
time to live (`WF` of `ExpireBase` and `ExpireOvr`). Nobody is obliged to call,
to write, to repeat or to expire a session. `Members`, `Accounts`, `Staff` and `Onboarding`
have no fairness: their properties are all safety.

## 5. Proofs

Every invariant and every action property that a passing run checks is also a theorem of the
specification, for all values of the constants, and so are the two refinements. The
form is `Spec => []Inv`, from an inductive `IInv` that TLC was asked about first:
`InitInv` and `NextInv` or `StepInv` (one lemma per action under them), then `IInv => Inv`.
An action property or a refinement follows from the step that the invariant allows.

* **Wallet** (`WalletProofs`). `IInv` joins the ledger invariants, the lock
  discipline (whoever is past the lock has it, and what it has read is still the
  row) and `FindingsStayTrue` (each check a request has passed is still true when
  it writes). The balance could not be proved from itself: `Commit` writes what was
  computed from `seen`, which equals the row only because of the lock, and the
  key is free at `Commit` only because no other open transaction holds it. One
  lemma per kind of step: going on, aborting, opening a wallet, committing.
  `Refinement` maps every step to a step or a stutter of `WalletLedger`: `Commit` is
  `Move`, the lookup or the answer after it `Replay`, a refusal `Refuse`, and all
  steps before them stutter.
* **Rates** (`RateCacheProofs`). An entry's stamp is honest because a resolver
  carries nothing older than its version (`ReadersOnTime`) and a bump only makes
  the version older than what is stored. `LadderIsOnePut` needs
  `OneReplaceAtATime`: between DELETE and INSERT nobody else inserts into the cell, so
  that there is nothing for a new rung to collide with (`NoCollision`). The list that is
  on its way in has passed the validator, so every committed ladder is one accepted PUT
  or nothing.
* **Prices** (`LadderProofs`). `PriceIsTheRule` is about every finite ladder with
  distinct thresholds that begins at 0, and every volume. That the rows can be put in
  order at all needs no induction: a rung's place is the number of rungs up to it
  (`OrderExists`). The loop of pickRung stops (`PickRungStops`, by the least index that
  is too large), and where it stops is the largest threshold (`PickRungIsLargest`).
  `AcceptedLadder` says that what the validator accepts is such a ladder.
  `PricesFollowTheRule` in `RateCacheProofs` joins this with the cache: the stamps make
  the base and the rungs ones of the time of the call, a base without a price is never
  cached, and the whole ladders make the walk over them right. It does not promise the
  override to a call that missed it (`Missed`), only a base price of its time.
* **Sessions** (`SessionsProofs`). `QuietRevokeIsFinal` needs that nothing is
  left which could write the session (`NothingBringsBack`); `RevokeAllIsComplete`
  is inductive with the fact that whoever writes a session is not in a loop of its
  own (`WritersDoNotRevoke`).
* **Staff** (`StaffProofs`). `SuperAdminRemains` needs what a request carries from one
  statement to the next (`Carried`): a change that nobody was counted for takes no super
  admin away, and a count that let a request pass is a set with somebody left after
  the account it is about (`Spare`). If neither is out of date when the save comes,
  that somebody is still there. `OneAccountPerEmail` is the index, at the INSERT and
  at each save (`SaveInv`). Invitations under way take their row in advance
  (`Room`), which the bound on the rows needs.

* **Members** (`MembersProofs`). A step moves one request on (`MoveInv`), writes
  outside the advisory lock (`OutsideInv`), or writes under it (`InsideInv`). `Carries` is
  what a request holds of the rows it has read, whoever else writes; `Looked` and
  `Counted` are what it looked up and counted under the lock, which stays true because
  the others that write meanwhile only free seats (`FewerSeats`) or write from a copy
  out of date, which `stale` records. `SeatsReserved` then counts: an invitation adds
  one to what was counted, and an acceptance moves one from the pending rows to the
  members.
* **Accounts** (`AccountsProofs`). What a request knows is of two kinds: what nobody can
  take from it (`Carries`: the account is there, the code is one of this purpose) and what
  is true while nobody else is at work on the account (`Fresh`). As long as an
  account is calm one request touches it (`Alone`), and steps about other accounts
  leave it as it is (`SameFor`). So `WriteInv` asks of each action only what it does to
  its own account. `OneHolderPerNumber` and `OwnCode` need no calm; the other three
  are about calm accounts, and need the codes of one in order (`Ordered`: one open code
  at most, one within the cooldown at most, and that one not replaced).
* **Catalogue and Onboarding** (`OnboardingProofs`). Currencies and countries are never
  lost and a service is not while a transaction has a row for it (`Grows`), so what a
  request has looked up stays true (`Carries`). Who is past the lock is alone there with
  its user and service (`LockedInv`), and nobody else has its slug (`SlugsInv`).
  `NoOrphanRates` needs that a request which saves a rate either finds its category or
  makes `stale` true (`NoNewOrphan`). `CapHolds` is a step property: the count was taken
  under the lock, and until the commit nobody else can add to it. `Refinement`: a commit
  is `Found` of `WorkspaceBook`, every other step stutters.

Assumptions are those named in the modules: sets that are not empty, bounds and volumes
in `Nat`, finite sets of requests (and of people in `Members`), and that the model value
for "nothing" is neither a row nor a request. `SeededLimitAssumption` says that the cap
of the seeded plan is among the caps. TLC evaluates each of them.

Model-checked only: the liveness properties (`EveryCallAnswered`, `DriftIsBounded`,
`SuspensionSticks`), which are beyond this prover.

## 6. Where the code and its documents disagree

Each is a run that TLC ends with a trace:

* **wallet_replay**: the loser of a race for an idempotency key gets an error, not
  the first row: its lookup runs in the aborted transaction (25P02). No money moves
  twice.
* **sessions_logout**: a logout between the GET and the SET of a rotate is undone.
* **rate_override**: the comment at `rate-resolver.service.ts:52` takes a fresh base for
  a proof that the workspace has no override. The base entry is shared: a call for
  another workspace fills it, and the calls of this one miss an override that has been in
  place all along, until the base entry goes (600 seconds, or the next write). An override
  entry that expires alone, a call that is cut off between its two writes, and a slow call
  that overwrites the override with an older version end in the same.
* **staff_last**: a super admin starts to remove an account that is only invited as one,
  for which nobody is counted. The invitee accepts, logs in, counts two super admins and
  removes the first; then the first removal lands and there is none. (Two changes that
  counted each other's super admin end the same way, one step later.)

And what the models show of the code without a run of its own; a property that is
checked says what is left of it where the code or its comments promise more:

* `users.service.ts:156`: `verifyMobileOtp` accepts a code, then reads the account anew and
  verifies whatever number is staged by then; a `setMobile` in between has staged another
  one, which was never sent that code, though `otp.service.ts:160-162` says that a stale
  code "can never verify the new one" (`MarkRead`, and `calm` in `NumberProved`).
* `services.service.ts:150`: `removeCategory` deletes rates and bumps no version, though
  `rate-resolver.service.ts:95` says that every rate write does (`RemoveCategory` in
  `RateCache`).
* `admin-auth.service.ts:115` and `referral-auth.service.ts:251`: a login saves the copy it
  read before the password was checked, and takes back a change, a suspension or a removal
  that came between (`OnLogin`).
* `member-invite.service.ts:264`: an invitation is found before the advisory lock; if it is
  revoked in between it is accepted all the same and takes a seat that nobody
  reserved, though `plan-limit.service.ts:84` says that accepting takes none (`Join`).
* `users.service.ts:106` says that status and `emailVerified` stay untouched by
  `overwritePending`; if the account is verified between its read and its save they go
  back to what they were (`Overwrite`). The same of a partner who registers again.
* `admin-auth.service.ts:68`: an invitation that is accepted makes the account active also
  if it was suspended meanwhile, and an invited account that staff set active counts as
  a super admin before it has a password (`SaveAccepted`, `Supers`).
* `otp.service.ts:221`: two wrong guesses at once count as one, and a wrong one that read the
  code before a right one used it opens the code again (`CheckWrong`).
* `service-pricing.service.ts:88`: a rate is saved for a category that was removed since it
  was checked, and stays without one (`stale` in `Catalogue`).

What holds in spite of these is checked and proved with the race named: for
instance `QuietRevokeIsFinal` speaks of revokes with no rotate under way.

## 7. Plan

Every safety property of the passing runs is proved. What is left for the proofs:

1. the safety half of the liveness properties: what a step may not undo once the writers
   have stopped (`DriftIsBounded`) or the account is suspended (`SuspensionSticks`), as
   invariants and action properties of their own;
2. further action properties, checked by TLC first: which changes of a code, an
   invitation or a cache entry are one-way, and under which races they are not.

Not modelled:

* `customers-admin/` but for wallets and rates (`admin-users`, `admin-workspaces`,
  `workspace-rates-view`), the lists, previews and profiles everywhere: they only read.
* Controllers, DTOs, guards but those named, presentation, configuration, logging.
* Mail and SMS providers, hashing, tokens and their signatures, parsing of telephone
  numbers: values are taken for fresh, numbers for members of a small set.
* The `whatsapp` entities, which no operation uses yet, and the purposes of codes that no
  endpoint asks for (`login_2fa`, `password_reset`).
* Suspension of a customer, a partner or a workspace: there is a column and a check, but
  nothing in the code that sets it.
