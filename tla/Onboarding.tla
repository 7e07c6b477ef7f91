----------------------------- MODULE Onboarding -----------------------------
(***************************************************************************)
(* The creation of a workspace (WorkspacesService.createForService, with   *)
(* the plans it reads) while operators change the Catalogue.               *)
(*                                                                         *)
(* Country, service and plan are read without a transaction.  Then come up *)
(* to SlugAttempts transactions, each under the advisory lock of the user  *)
(* and the service: count what the user owns, insert the workspace, its    *)
(* owner, its service and its wallet, commit.  What is inserted is seen by *)
(* nobody before (READ COMMITTED), but an INSERT of a slug waits for       *)
(* another that is uncommitted, and the key of a service that a new row    *)
(* refers to cannot be deleted before the transaction ends.                *)
(***************************************************************************)
EXTENDS Catalogue

CONSTANTS
    Users,        \* customers whose mobile number is verified
    HomeOf,       \* their countries, of these numbers
    BaseSlugs,    \* slugify of the names they choose
    Suffixed,     \* slugs with a random suffix
    SlugAttempts, \* SLUG_ATTEMPTS
    Limits        \* values of max_workspaces_per_service; a plan without it has a large one

Global == "global"
Scopes == Services \cup {Global}
Slugs == BaseSlugs \cup Suffixed

ASSUME HomeAssumption == HomeOf \in [Users -> Countries]
ASSUME AttemptsAssumption == SlugAttempts \in Nat \ {0}
ASSUME LimitsAssumption == Limits \subseteq Nat
ASSUME SeededLimitAssumption == 1 \in Limits   \* the plan of reference.seed.ts

VARIABLES
    plan,         \* the FREE rows of plans, by scope: [active, max]
    workspaces,   \* committed workspaces with their owner, service and wallet
    lock          \* who holds workspace-create:{user}:{service}

vars == <<tables, request, stale, asked, plan, workspaces, lock>>

PlanRow == [active : BOOLEAN, max : Limits]

\* What a transaction has inserted so far.
Draft == [slug : Slugs, currency : Currencies, owner : Users \cup {Nothing},
          service : Services \cup {Nothing}, wallet : Currencies \cup {Nothing}]

Inserting == {"member", "enrolment", "wallet", "commit"}
Drafts == {r \in Requests : request[r].at \in Inserting}
Enrolled == {w.service : w \in workspaces}
Held == {request[r].row.service : r \in Drafts} \ {Nothing}
Owned(u, s) == {w \in workspaces : w.owner = u /\ w.service = s}

\* Mutant of Unlock: pg_advisory_lock, which ends with the session of the database.
KeepsLock(r) == UNCHANGED lock

\* COMMIT or ROLLBACK lets go of the lock.
Unlock(r) == lock' = [p \in Users \X Services |-> IF lock[p] = r THEN Nothing ELSE lock[p]]

Idle == UNCHANGED <<plan, workspaces, lock>>

-----------------------------------------------------------------------------
(* Plans.                                                                  *)

CreatePlan(r, scope, row) ==
    /\ plan[scope] = Nothing
    /\ scope \in Services => service[scope] # Nothing
    /\ Ask(r, [Blank EXCEPT !.at = "newPlan", !.s = scope, !.row = row])
    /\ Idle

\* Of two creations the loser meets the partial index.
InsertPlan(r) ==
    LET d == request[r] IN
    /\ At(r, "newPlan")
    /\ plan' = [plan EXCEPT ![d.s] = IF @ = Nothing THEN d.row ELSE @]
    /\ Finish(r)
    /\ Reads
    /\ UNCHANGED <<workspaces, lock>>

UpdatePlan(r, scope, row) ==
    /\ plan[scope] # Nothing
    /\ Ask(r, [Blank EXCEPT !.at = "savePlan", !.s = scope, !.row = row])
    /\ Idle

SavePlan(r) ==
    LET d == request[r] IN
    /\ At(r, "savePlan")
    /\ plan' = [plan EXCEPT ![d.s] = d.row]
    /\ Finish(r)
    /\ Reads
    /\ UNCHANGED <<workspaces, lock>>

-----------------------------------------------------------------------------
(* Before the transaction.                                                 *)

\* assertOnboarded, findActive
Create(r, u, s, slug) ==
    LET k == HomeOf[u] IN
    /\ country[k] # Nothing /\ country[k].active
    /\ Ask(r, [Blank EXCEPT !.at = "available", !.user = u, !.s = s, !.k = k,
                            !.m = country[k].currency, !.slug = slug])
    /\ Idle

\* listAvailableForCountry
Sellable(s, k) ==
    /\ service[s] = "active"
    /\ \E c \in PricedIn(s, k) : rate[<<s, k, c>>].active

Available(r) ==
    LET d == request[r] IN
    /\ At(r, "available")
    /\ IF Sellable(d.s, d.k) THEN Goto(r, "plan") ELSE Finish(r)
    /\ Reads /\ Idle

\* getFreePlan: the row of the service, or else the global one.
FreePlan(s) ==
    {scope \in Scopes : /\ plan[scope] # Nothing /\ plan[scope].active
                        /\ \/ scope = s
                           \/ scope = Global /\ (plan[s] = Nothing \/ ~ plan[s].active)}

ReadPlan(r) ==
    LET free == FreePlan(request[r].s) IN
    /\ At(r, "plan")
    /\ \/ \E scope \in free :
            request' = [request EXCEPT ![r].at = "lock", ![r].max = plan[scope].max]
       \/ free = {} /\ Finish(r)
    /\ Reads /\ Idle

-----------------------------------------------------------------------------
(* The transaction.                                                        *)

\* Mutant of LockCreate: the transaction is all there is.
NoLock(r) ==
    /\ At(r, "lock")
    /\ Goto(r, "count")
    /\ Reads /\ Idle

LockCreate(r) ==
    LET p == <<request[r].user, request[r].s>> IN
    /\ At(r, "lock")
    /\ lock[p] = Nothing
    /\ lock' = [lock EXCEPT ![p] = r]
    /\ Goto(r, "count")
    /\ Reads
    /\ UNCHANGED <<plan, workspaces>>

\* assertCanCreateWorkspace
CountOwned(r) ==
    LET d == request[r] IN
    /\ At(r, "count")
    /\ \/ /\ Cardinality(Owned(d.user, d.s)) < d.max
          /\ Goto(r, "workspace") /\ UNCHANGED lock
       \/ /\ Cardinality(Owned(d.user, d.s)) >= d.max
          /\ Finish(r) /\ Unlock(r)
    /\ Reads
    /\ UNCHANGED <<plan, workspaces>>

\* The base slug first, then random suffixes.
MaySlug(r) == IF request[r].attempt = 0 THEN {request[r].slug} ELSE Suffixed
SlugHeld(r, slug) == \E q \in Drafts \ {r} : request[q].row.slug = slug
SlugTaken(slug) == \E w \in workspaces : w.slug = slug

InsertWorkspace(r) ==
    \E slug \in MaySlug(r) :
      /\ At(r, "workspace")
      /\ ~ SlugHeld(r, slug) /\ ~ SlugTaken(slug)
      /\ request' = [request EXCEPT ![r].at = "member",
           ![r].row = [slug |-> slug, currency |-> request[r].m, owner |-> Nothing,
                       service |-> Nothing, wallet |-> Nothing]]
      /\ Reads /\ Idle

\* isSlugCollision: the transaction is rolled back and tried again.
Collide(r) ==
    /\ At(r, "workspace")
    /\ \E slug \in MaySlug(r) : ~ SlugHeld(r, slug) /\ SlugTaken(slug)
    /\ IF request[r].attempt < SlugAttempts - 1
       THEN request' = [request EXCEPT ![r].at = "lock", ![r].attempt = @ + 1]
       ELSE Finish(r)
    /\ Unlock(r)
    /\ Reads
    /\ UNCHANGED <<plan, workspaces>>

InsertMember(r) ==
    /\ At(r, "member")
    /\ request' = [request EXCEPT ![r].at = "enrolment", ![r].row.owner = request[r].user]
    /\ Reads /\ Idle

\* The key of a service that was removed meanwhile is refused.
InsertEnrolment(r) ==
    LET s == request[r].s IN
    /\ At(r, "enrolment")
    /\ \/ /\ service[s] # Nothing
          /\ request' = [request EXCEPT ![r].at = "wallet", ![r].row.service = s]
          /\ UNCHANGED lock
       \/ /\ service[s] = Nothing
          /\ Finish(r) /\ Unlock(r)
    /\ Reads
    /\ UNCHANGED <<plan, workspaces>>

\* WalletService.createWallet, in the currency of the country.
InsertWallet(r) ==
    /\ At(r, "wallet")
    /\ request' = [request EXCEPT ![r].at = "commit", ![r].row.wallet = request[r].m]
    /\ Reads /\ Idle

\* Mutant of Commit: the wallet is made after the transaction, in one of its own.
CommitEarly(r) ==
    /\ request[r].at \in {"wallet", "commit"}
    /\ workspaces' = workspaces \cup {request[r].row}
    /\ Finish(r) /\ Unlock(r)
    /\ Reads
    /\ UNCHANGED plan

Commit(r) ==
    /\ At(r, "commit")
    /\ workspaces' = workspaces \cup {request[r].row}
    /\ Finish(r) /\ Unlock(r)
    /\ Reads
    /\ UNCHANGED plan

\* Cut off at any point; a transaction is rolled back.
Disconnect(r) ==
    /\ CutOff(r)
    /\ Unlock(r)
    /\ UNCHANGED <<plan, workspaces>>

-----------------------------------------------------------------------------
Init ==
    /\ CatalogueInit
    /\ plan = [scope \in Scopes |-> IF scope = Global THEN [active |-> TRUE, max |-> 1] ELSE Nothing]
    /\ workspaces = {}
    /\ lock = [p \in Users \X Services |-> Nothing]

CreateStep(r) ==
    \/ Available(r) \/ ReadPlan(r) \/ LockCreate(r) \/ CountOwned(r)
    \/ InsertWorkspace(r) \/ Collide(r) \/ InsertMember(r)
    \/ InsertEnrolment(r) \/ InsertWallet(r) \/ Commit(r)

Next ==
    \/ \E r \in Requests :
         \/ Operate(r) /\ Idle
         \/ CatalogueStep(r, Held, Enrolled) /\ Idle
         \/ \E scope \in Scopes, row \in PlanRow :
              CreatePlan(r, scope, row) \/ UpdatePlan(r, scope, row)
         \/ InsertPlan(r) \/ SavePlan(r)
         \/ \E u \in Users, s \in Services, slug \in BaseSlugs : Create(r, u, s, slug)
         \/ CreateStep(r)
         \/ Disconnect(r)
    \/ \E s \in Services, k \in Countries, c \in Categories : RemoveRate(s, k, c) /\ Idle

Spec == Init /\ [][Next]_vars

-----------------------------------------------------------------------------
(* Properties.                                                             *)

\* Every row has its columns; a country refers to a currency that exists, as a rate
\* to a country and its currency, and only who inserts holds a creation lock.
TypeOK ==
    /\ currency \in [Currencies -> CurrencyRow \cup {Nothing}]
    /\ country \in [Countries -> CountryRow \cup {Nothing}]
    /\ \A k \in Countries : country[k] # Nothing => currency[country[k].currency] # Nothing
    /\ service \in [Services -> Status \cup {Nothing}]
    /\ category \subseteq Services \X Categories
    /\ rate \in [Cells -> RateRow \cup {Nothing}]
    /\ \A cell \in Cells : rate[cell] # Nothing =>
         country[cell[2]] # Nothing /\ currency[rate[cell].currency] # Nothing
    /\ \A r \in Requests : LET d == request[r] IN
         /\ d.s \in Scopes \cup {Nothing} /\ d.k \in Countries \cup {Nothing}
         /\ d.m \in Currencies \cup {Nothing} /\ d.slug \in BaseSlugs \cup {Nothing}
         /\ d.max \in Limits \cup {Nothing} /\ d.attempt \in 0 .. SlugAttempts - 1
         /\ d.at \in Inserting => d.row \in Draft
    /\ plan \in [Scopes -> PlanRow \cup {Nothing}]
    /\ workspaces \subseteq Draft
    /\ \A p \in Users \X Services, r \in Requests : lock[p] = r =>
         request[r].at \in {"count", "workspace"} \cup Inserting
    /\ stale \in BOOLEAN /\ asked \in 0 .. MaxAsked

\* No category, rate or workspace refers to a service that is gone, whether it was
\* added while the service was being removed or the other way round (ServicesService
\* remove and the keys ON DELETE CASCADE and RESTRICT).
NothingOutlivesItsService ==
    \A s \in Services : service[s] = Nothing =>
      /\ CategoriesOf(s) = {}
      /\ \A k \in Countries : PricedIn(s, k) = {}
      /\ s \notin Enrolled

\* removeCategory leaves no rate of its category behind, "so none are orphaned":
\* it does unless a rate was saved for a category that was gone, or it was cut off.
NoOrphanRates ==
    ~ stale /\ (\A r \in Requests : ~ At(r, "deleteRates")) =>
      \A cell \in Cells : rate[cell] # Nothing => <<cell[1], cell[3]>> \in category

\* A user comes to own no more workspaces of a service than the plan allowed that the
\* creation had read, however many creations race (PlanLimitService, advisory lock).
CapHolds ==
    [][\A u \in Users, s \in Services : Owned(u, s)' # Owned(u, s) =>
         \E r \in Requests : /\ At(r, "commit") /\ request[r].user = u /\ request[r].s = s
                             /\ Cardinality(Owned(u, s)') <= request[r].max]_vars

\* Creation implements WorkspaceBook: whole workspaces, one step each.
Book == INSTANCE WorkspaceBook WITH book <- workspaces
ImplementsBook == Book!Spec
=============================================================================
