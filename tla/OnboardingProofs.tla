--------------------------- MODULE OnboardingProofs ---------------------------
(***************************************************************************)
(* Proofs about Onboarding with its Catalogue, for any number of           *)
(* currencies, countries, services, categories, customers and requests.    *)
(* What a request carries of the rows it has read (Carries) stays true     *)
(* because countries and currencies are never lost, a service is not lost  *)
(* while a transaction has a row for it (Grows), and who is past the lock  *)
(* is alone there (LockedInv).                                             *)
(***************************************************************************)
EXTENDS Onboarding, FiniteSetTheorems, TLAPS

USE SeededAssumption, CurrencyAssumption, MaxAskedAssumption, NothingAssumption,
    HomeAssumption, AttemptsAssumption, LimitsAssumption, SeededLimitAssumption

-----------------------------------------------------------------------------
(* The inductive invariant.                                                *)

Rows == {Nothing} \cup CurrencyRow \cup CountryRow \cup Status \cup PlanRow \cup Draft
Steps == {"done", "newCurrency", "saveCurrency", "assertCurrency", "newCountry", "saveCountry",
          "newService", "saveService", "deleteService", "saveCategory", "deleteCategory",
          "deleteRates", "rateCountry", "findRate", "insertRate", "saveRate", "addCountry",
          "addUnpriced", "addRates", "deleteCountry", "seedServices", "seedCategories",
          "seedRates", "newPlan", "savePlan", "available", "plan", "lock", "count",
          "workspace", "member", "enrolment", "wallet", "commit"}
RequestRow == [at : Steps, s : Scopes \cup {Nothing}, k : Countries \cup {Nothing},
               c : Categories \cup {Nothing}, m : Currencies \cup {Nothing}, row : Rows,
               cats : SUBSET Categories, next : {"done", "newCountry", "saveCountry"},
               user : Users \cup {Nothing},
               slug : BaseSlugs \cup {Nothing}, max : Limits \cup {Nothing},
               attempt : 0 .. SlugAttempts - 1]

\* Where a creation is past its lock.
Inside == {"count", "workspace"} \cup Inserting
Creating == {"available", "plan", "lock"} \cup Inside

\* What the operation of an operator carries.
Operates(d) ==
    /\ d.at \in {"newCurrency", "saveCurrency"} => d.m \in Currencies
    /\ d.at = "saveCurrency" => d.row \in CurrencyRow
    /\ d.at \in {"assertCurrency", "newCountry", "saveCountry"} =>
         d.k \in Countries /\ d.m \in Currencies
    /\ d.at = "assertCurrency" => d.next \in {"newCountry", "saveCountry"}
    /\ d.at = "saveCountry" \/ (d.at = "assertCurrency" /\ d.next = "saveCountry") =>
         d.row \in CountryRow /\ d.row.currency = d.m
    /\ d.at \in {"newService", "saveService"} => d.s \in Services /\ d.row \in Status
    /\ d.at \in {"deleteService", "saveCategory", "deleteCategory", "deleteRates",
                 "rateCountry", "findRate", "insertRate", "saveRate",
                 "addCountry", "addUnpriced", "addRates", "deleteCountry"} => d.s \in Services
    /\ d.at \in {"saveCategory", "deleteCategory", "deleteRates",
                 "rateCountry", "findRate", "insertRate", "saveRate"} => d.c \in Categories
    /\ d.at \in {"rateCountry", "findRate", "insertRate", "saveRate",
                 "addCountry", "addUnpriced", "addRates", "deleteCountry"} => d.k \in Countries
    /\ d.at \in {"rateCountry", "findRate", "insertRate", "saveRate"} => d.row \in CurrencyRow
    /\ d.at \in {"newPlan", "savePlan"} => d.s \in Scopes /\ d.row \in PlanRow

\* The currency and the country it has looked up are there.
LookedUp(d) ==
    /\ d.at \in {"newCountry", "saveCountry", "findRate", "insertRate", "saveRate",
                 "addUnpriced", "addRates"} =>
         d.m \in Currencies /\ currency[d.m] # Nothing
    /\ d.at \in {"findRate", "insertRate", "saveRate", "addUnpriced", "addRates"} =>
         country[d.k] # Nothing

\* What a creation carries, and what it has inserted so far.
Creates(d) ==
    /\ d.at \in Creating => /\ d.user \in Users /\ d.s \in Services /\ d.k \in Countries
                            /\ d.m \in Currencies /\ d.slug \in BaseSlugs
    /\ d.at \in {"lock"} \cup Inside => d.max \in Limits
    /\ d.at \in Inserting => d.row \in Draft /\ d.row.currency = d.m
    /\ d.at \in {"enrolment", "wallet", "commit"} => d.row.owner = d.user
    /\ d.at \in {"wallet", "commit"} => d.row.service = d.s
    /\ d.at = "commit" => d.row.wallet = d.m

\* What it has counted, and the service it refers to, are still so.
Founded(d) ==
    /\ d.at \in {"workspace"} \cup Inserting => Cardinality(Owned(d.user, d.s)) < d.max
    /\ d.at \in {"wallet", "commit"} => service[d.s] # Nothing

Carries(d) ==
    /\ d \in RequestRow
    /\ Operates(d) /\ LookedUp(d)
    /\ Creates(d) /\ Founded(d)

Tables ==
    /\ currency \in [Currencies -> CurrencyRow \cup {Nothing}]
    /\ country \in [Countries -> CountryRow \cup {Nothing}]
    /\ service \in [Services -> Status \cup {Nothing}]
    /\ category \subseteq Services \X Categories
    /\ rate \in [Cells -> RateRow \cup {Nothing}]

Typed ==
    /\ Tables
    /\ request \in [Requests -> RequestRow]
    /\ stale \in BOOLEAN /\ asked \in 0 .. MaxAsked
    /\ plan \in [Scopes -> PlanRow \cup {Nothing}]
    /\ workspaces \subseteq Draft /\ IsFiniteSet(workspaces)
    /\ lock \in [Users \X Services -> Requests \cup {Nothing}]

\* What a row refers to is there, and the seeded countries are never lost.
KeysInv ==
    /\ currency[SeedCurrency] # Nothing
    /\ \A k \in Countries : /\ k \in Seeded => country[k] # Nothing
                            /\ country[k] # Nothing => currency[country[k].currency] # Nothing
    /\ \A p \in category : service[p[1]] # Nothing
    /\ \A cell \in Cells : rate[cell] # Nothing =>
         /\ service[cell[1]] # Nothing /\ country[cell[2]] # Nothing
         /\ currency[rate[cell].currency] # Nothing

EnrolledInv == \A w \in workspaces : w.service \in Services => service[w.service] # Nothing

\* A rate without its category will be deleted.
RatesInv ==
    ~ stale =>
      \A cell \in Cells : rate[cell] # Nothing =>
        \/ <<cell[1], cell[3]>> \in category
        \/ \E r \in Requests : /\ At(r, "deleteRates")
                               /\ request[r].s = cell[1] /\ request[r].c = cell[3]

Carried == \A r \in Requests : Carries(request[r])

LockedInv ==
    \A r \in Requests, p \in Users \X Services :
      lock[p] = r <=> request[r].at \in Inside /\ p = <<request[r].user, request[r].s>>

\* A slug that is inserted, committed or not, is nobody else's.
SlugsInv ==
    \A r \in Drafts :
      /\ \A w \in workspaces : w.slug # request[r].row.slug
      /\ \A q \in Drafts \ {r} : request[q].row.slug # request[r].row.slug

IInv ==
    /\ Typed /\ KeysInv /\ EnrolledInv /\ RatesInv
    /\ Carried /\ LockedInv /\ SlugsInv

-----------------------------------------------------------------------------
(* What a step leaves alone.                                               *)

\* No currency and no country is lost.
Grows ==
    /\ \A m \in Currencies : currency[m] # Nothing => currency'[m] # Nothing
    /\ \A k \in Countries : country[k] # Nothing => country'[k] # Nothing

LEMMA BlankRow ==
  /\ Blank \in RequestRow /\ Blank.at = "done"
  /\ Blank.s = Nothing /\ Blank.k = Nothing /\ Blank.c = Nothing /\ Blank.m = Nothing
  /\ Blank.row = Nothing /\ Blank.cats = {} /\ Blank.next = "done"
  /\ Carries(Blank) /\ Carries(Blank)'
<1>1. /\ Blank \in RequestRow /\ Blank.at = "done"
      /\ Blank.s = Nothing /\ Blank.k = Nothing /\ Blank.c = Nothing /\ Blank.m = Nothing
      /\ Blank.row = Nothing /\ Blank.cats = {} /\ Blank.next = "done"
  BY DEF Blank, RequestRow, Rows, Steps
<1>2. Operates(Blank) /\ Creates(Blank)
  BY <1>1 DEF Operates, Creates, Creating, Inside, Inserting
<1>3. Carries(Blank)
  BY <1>1, <1>2 DEF Carries, LookedUp, Founded, Inserting
<1>4. Carries(Blank)'
  BY <1>1, <1>2 DEF Carries, LookedUp, Founded, Inserting
<1> QED
  BY <1>1, <1>3, <1>4

LEMMA RequestRead ==
  ASSUME IInv, NEW r \in Requests
  PROVE  /\ Carries(request[r]) /\ request[r] \in RequestRow
         /\ Operates(request[r]) /\ LookedUp(request[r])
         /\ Creates(request[r]) /\ Founded(request[r])
  BY DEF IInv, Carried, Carries

LEMMA CarriedOn ==
  ASSUME NEW d, Carries(d), Grows,
         d.at \in {"workspace"} \cup Inserting =>
           Owned(d.user, d.s)' = Owned(d.user, d.s),
         d.at \in {"wallet", "commit"} => service'[d.s] # Nothing
  PROVE  Carries(d)'
<1>1. LookedUp(d)'
  <2>1. d.at \in {"findRate", "insertRate", "saveRate", "addUnpriced", "addRates"} =>
          d.k \in Countries
    BY DEF Carries, Operates
  <2> QED
    BY <2>1 DEF Carries, LookedUp, Grows
<1>2. Founded(d)'
  BY DEF Carries, Founded
<1> QED
  BY <1>1, <1>2 DEF Carries

\* A request becomes d, and no rate is left without its category but those that
\* were before, or that d will delete.
NoNewOrphan(r, d) ==
    ~ stale' =>
      /\ ~ stale
      /\ \A cell \in Cells : rate'[cell] # Nothing =>
           \/ <<cell[1], cell[3]>> \in category'
           \/ d.at = "deleteRates" /\ d.s = cell[1] /\ d.c = cell[3]
           \/ rate[cell] # Nothing /\ <<cell[1], cell[3]>> \notin category
      /\ request[r].at = "deleteRates" =>
           \A cell \in Cells : cell[1] = request[r].s /\ cell[3] = request[r].c =>
             rate'[cell] = Nothing

LEMMA RatesOn ==
  ASSUME IInv, NEW r \in Requests, NEW d, request' = [request EXCEPT ![r] = d],
         NoNewOrphan(r, d)
  PROVE  RatesInv'
<1>1. request'[r] = d /\ \A q \in Requests : q # r => request'[q] = request[q]
  BY DEF IInv, Typed
<1> SUFFICES ASSUME ~ stale', NEW cell \in Cells, rate'[cell] # Nothing
             PROVE  \/ <<cell[1], cell[3]>> \in category'
                    \/ \E q \in Requests :
                         /\ request'[q].at = "deleteRates"
                         /\ request'[q].s = cell[1] /\ request'[q].c = cell[3]
  BY DEF RatesInv, At
<1> USE DEF NoNewOrphan
<1>2. CASE d.at = "deleteRates" /\ d.s = cell[1] /\ d.c = cell[3]
  BY <1>1, <1>2
<1>3. CASE rate[cell] # Nothing /\ <<cell[1], cell[3]>> \notin category
  <2>1. PICK q \in Requests : /\ request[q].at = "deleteRates"
                              /\ request[q].s = cell[1] /\ request[q].c = cell[3]
    BY <1>3 DEF IInv, RatesInv, At
  <2>2. q # r
    BY <2>1
  <2> QED
    BY <1>1, <2>1, <2>2
<1> QED
  BY <1>2, <1>3

-----------------------------------------------------------------------------
(* The kinds of steps.                                                     *)

\* A request that is not past a lock goes on.
LEMMA OutsideInv ==
  ASSUME IInv, NEW r \in Requests, NEW d, request' = [request EXCEPT ![r] = d],
         request[r].at \notin Inside, d.at \notin Inside, Carries(d)',
         UNCHANGED <<workspaces, lock>>, Grows,
         Tables', stale' \in BOOLEAN, asked' \in 0 .. MaxAsked,
         plan' \in [Scopes -> PlanRow \cup {Nothing}],
         KeysInv', RatesInv',
         \A s \in Held \cup Enrolled :
           s \in Services /\ service[s] # Nothing => service'[s] # Nothing
  PROVE  IInv'
<1>1. request'[r] = d /\ \A q \in Requests : q # r => request'[q] = request[q]
  BY DEF IInv, Typed
<1>2. Typed'
  BY DEF IInv, Typed, Carries
<1>3. EnrolledInv'
  BY DEF IInv, EnrolledInv, Enrolled
<1>4. Carried'
  <2> SUFFICES ASSUME NEW q \in Requests PROVE Carries(request[q])'
    BY DEF Carried
  <2>1. CASE q = r
    BY <1>1, <2>1
  <2>2. CASE q # r
    <3>1. Carries(request[q]) /\ Creates(request[q]) /\ Founded(request[q])
      BY RequestRead
    <3>2. Owned(request[q].user, request[q].s)' = Owned(request[q].user, request[q].s)
      BY <1>1, <2>2 DEF Owned
    <3>3. ASSUME request[q].at \in {"wallet", "commit"}
          PROVE  service'[request[q].s] # Nothing
      <4>1. q \in Drafts /\ request[q].row.service = request[q].s /\ request[q].s \in Services
        BY <3>1, <3>3 DEF Drafts, Inserting, Creates, Creating, Inside
      <4>2. request[q].s \in Held
        BY <4>1 DEF Held
      <4> QED
        BY <3>1, <3>3, <4>1, <4>2 DEF Founded
    <3> QED
      BY <1>1, <2>2, <3>1, <3>2, <3>3, CarriedOn
  <2> QED
    BY <2>1, <2>2
<1>5. LockedInv'
  BY <1>1 DEF IInv, LockedInv
<1>6. Drafts' = Drafts /\ r \notin Drafts
  BY <1>1 DEF Drafts, Inside
<1>7. SlugsInv'
  BY <1>1, <1>6 DEF IInv, SlugsInv, Drafts
<1> QED
  BY <1>2, <1>3, <1>4, <1>5, <1>7 DEF IInv

\* ... and nothing is written.
LEMMA MoveInv ==
  ASSUME IInv, NEW r \in Requests, NEW d, request' = [request EXCEPT ![r] = d],
         request[r].at \notin Inside, d.at \notin Inside, Carries(d),
         UNCHANGED <<tables, stale, plan, workspaces, lock>>, asked' \in 0 .. MaxAsked,
         request[r].at # "deleteRates"
  PROVE  IInv'
<1>1. /\ currency' = currency /\ country' = country /\ service' = service
      /\ category' = category /\ rate' = rate /\ stale' = stale /\ plan' = plan
      /\ workspaces' = workspaces /\ lock' = lock
  BY DEF tables
<1>2. Grows
  BY <1>1 DEF Grows
<1>3. Tables' /\ stale' \in BOOLEAN /\ plan' \in [Scopes -> PlanRow \cup {Nothing}]
  BY <1>1 DEF IInv, Typed, Tables
<1>4. KeysInv'
  BY <1>1 DEF IInv, KeysInv
<1>5. RatesInv'
  <2>1. NoNewOrphan(r, d)
    BY <1>1 DEF NoNewOrphan
  <2> QED
    BY <1>1, <2>1, RatesOn
<1>6. Carries(d)'
  <2>1. Owned(d.user, d.s)' = Owned(d.user, d.s)
    BY <1>1 DEF Owned
  <2> QED
    BY <1>1, <1>2, <2>1, CarriedOn DEF Carries, Founded
<1> QED
  BY <1>1, <1>2, <1>3, <1>4, <1>5, <1>6, OutsideInv

LEMMA EndInv ==
  ASSUME IInv, NEW r \in Requests, Finish(r), request[r].at \notin Inside,
         UNCHANGED <<tables, stale, asked, plan, workspaces, lock>>,
         request[r].at # "deleteRates"
  PROVE  IInv'
<1>1. Blank.at \notin Inside /\ Carries(Blank)
  BY BlankRow DEF Inside, Inserting
<1>2. asked' \in 0 .. MaxAsked
  BY DEF IInv, Typed
<1> QED
  BY <1>1, <1>2, MoveInv DEF Finish

\* An operation is asked for that is not the creation of a workspace.
LEMMA OrderInv ==
  ASSUME IInv, NEW r \in Requests, NEW d, Ask(r, d), Idle,
         d \in RequestRow, d.at \notin Creating, Operates(d), LookedUp(d)
  PROVE  IInv'
<1>1. /\ request[r].at = "done" /\ request' = [request EXCEPT ![r] = d]
      /\ UNCHANGED <<tables, stale, plan, workspaces, lock>>
      /\ asked < MaxAsked /\ asked' = asked + 1 /\ asked \in 0 .. MaxAsked
  BY DEF Ask, Idle, At, IInv, Typed
<1>2. request[r].at \notin Inside /\ d.at \notin Inside
  BY <1>1 DEF Creating, Inside, Inserting
<1>3. Carries(d)
  BY DEF Carries, Creates, Founded, Creating, Inside, Inserting
<1>4. asked' \in 0 .. MaxAsked
  BY <1>1
<1> QED
  BY <1>1, <1>2, <1>3, <1>4, MoveInv

\* A request of an operator goes on: what changes beside where it is.
Same(d, c) ==
    /\ d \in RequestRow
    /\ d.s = c.s /\ d.k = c.k /\ d.c = c.c /\ d.row = c.row /\ d.cats = c.cats
    /\ d.next = c.next /\ d.user = c.user /\ d.slug = c.slug

LEMMA GoneTo ==
  ASSUME IInv, NEW r \in Requests, NEW where \in Steps, Goto(r, where)
  PROVE  \E d : /\ request' = [request EXCEPT ![r] = d]
                /\ Same(d, request[r]) /\ d.at = where /\ d.m = request[r].m
                /\ d.max = request[r].max /\ d.attempt = request[r].attempt
<1> DEFINE c == request[r]
           d == [c EXCEPT !.at = where]
<1>1. request' = [request EXCEPT ![r] = d]
  BY DEF Goto
<1>2. c \in RequestRow
  BY RequestRead
<1> HIDE DEF c
<1>3. /\ Same(d, c) /\ d.at = where /\ d.m = c.m
      /\ d.max = c.max /\ d.attempt = c.attempt
  BY <1>2 DEF RequestRow, Same
<1> QED
  BY <1>1, <1>3 DEF c

-----------------------------------------------------------------------------
(* Operations are asked for.                                               *)

LEMMA CurrencyOrders ==
  ASSUME IInv, NEW r \in Requests, NEW m \in Currencies, Idle,
         \/ CreateCurrency(r, m)
         \/ \E active \in BOOLEAN : UpdateCurrency(r, m, active)
  PROVE  IInv'
<1>1. CASE CreateCurrency(r, m)
  <2>1. PICK d : d = [Blank EXCEPT !.at = "newCurrency", !.m = m]
    OBVIOUS
  <2>2. d \in RequestRow /\ d.at = "newCurrency" /\ d.m = m
    BY <2>1, BlankRow DEF RequestRow, Steps
  <2>3. Operates(d) /\ LookedUp(d) /\ d.at \notin Creating
    BY <2>2 DEF Operates, LookedUp, Creating, Inside, Inserting
  <2> QED
    BY <1>1, <2>1, <2>2, <2>3, OrderInv DEF CreateCurrency
<1>2. ASSUME NEW active \in BOOLEAN, UpdateCurrency(r, m, active) PROVE IInv'
  <2>1. PICK row \in CurrencyRow : row = [active |-> active]
    BY DEF CurrencyRow
  <2>2. PICK d : d = [Blank EXCEPT !.at = "saveCurrency", !.m = m, !.row = row]
    OBVIOUS
  <2>3. d \in RequestRow /\ d.at = "saveCurrency" /\ d.m = m /\ d.row = row
    <3>1. row \in Rows
      BY DEF Rows
    <3> QED
      BY <2>2, <3>1, BlankRow DEF RequestRow, Steps
  <2>4. Operates(d) /\ LookedUp(d) /\ d.at \notin Creating
    BY <2>2, <2>3 DEF Operates, LookedUp, Creating, Inside, Inserting
  <2> QED
    BY <1>2, <2>1, <2>2, <2>3, <2>4, OrderInv DEF UpdateCurrency
<1> QED
  BY <1>1, <1>2

LEMMA CountryOrders ==
  ASSUME IInv, NEW r \in Requests, NEW k \in Countries, Idle,
         \/ \E m \in Currencies : CreateCountry(r, k, m)
         \/ \E row \in CountryRow : UpdateCountry(r, k, row)
  PROVE  IInv'
<1>1. ASSUME NEW m \in Currencies, CreateCountry(r, k, m) PROVE IInv'
  <2>1. PICK d : d = [Blank EXCEPT !.at = "assertCurrency", !.next = "newCountry",
                                   !.k = k, !.m = m]
    OBVIOUS
  <2>2. d \in RequestRow /\ d.at = "assertCurrency" /\ d.next = "newCountry" /\ d.k = k /\ d.m = m
    BY <2>1, BlankRow DEF RequestRow, Steps
  <2>3. Operates(d) /\ LookedUp(d) /\ d.at \notin Creating
    BY <2>2 DEF Operates, LookedUp, Creating, Inside, Inserting
  <2> QED
    BY <1>1, <2>1, <2>2, <2>3, OrderInv DEF CreateCountry
<1>2. ASSUME NEW row \in CountryRow, UpdateCountry(r, k, row) PROVE IInv'
  <2>1. PICK m, at :
          /\ m = row.currency
          /\ at = (IF m = country[k].currency THEN "saveCountry" ELSE "assertCurrency")
    OBVIOUS
  <2>2. /\ m \in Currencies /\ row \in Rows /\ at \in {"saveCountry", "assertCurrency"}
        /\ at = "saveCountry" => m = country[k].currency
    BY <2>1 DEF CountryRow, Rows
  <2> PICK d : d = [Blank EXCEPT !.k = k, !.m = m, !.row = row, !.next = "saveCountry",
                                 !.at = at]
    OBVIOUS
  <2>3. /\ d \in RequestRow /\ d.at = at /\ d.next = "saveCountry" /\ d.k = k /\ d.m = m
        /\ d.row = row
    BY <2>2, BlankRow DEF RequestRow, Steps
  <2>4. Ask(r, d) /\ country[k] # Nothing
    BY <1>2, <2>1 DEF UpdateCountry
  <2>5. currency[country[k].currency] # Nothing
    BY <2>4 DEF IInv, KeysInv
  <2>6. Operates(d) /\ LookedUp(d) /\ d.at \notin Creating
    BY <2>1, <2>2, <2>3, <2>5 DEF Operates, LookedUp, Creating, Inside, Inserting
  <2> QED
    BY <2>3, <2>4, <2>6, OrderInv
<1> QED
  BY <1>1, <1>2

LEMMA ServiceOrders ==
  ASSUME IInv, NEW r \in Requests, NEW s \in Services, Idle,
         \/ \E status \in Status : CreateService(r, s, status) \/ UpdateService(r, s, status)
         \/ RemoveService(r, s)
  PROVE  IInv'
<1>1. ASSUME NEW status \in Status, NEW at \in {"newService", "saveService"},
             Ask(r, [Blank EXCEPT !.at = at, !.s = s, !.row = status])
      PROVE  IInv'
  <2>1. PICK d : d = [Blank EXCEPT !.at = at, !.s = s, !.row = status]
    OBVIOUS
  <2>2. status \in Rows /\ s \in Scopes
    BY DEF Rows, Scopes
  <2>3. d \in RequestRow /\ d.at = at /\ d.s = s /\ d.row = status
    BY <2>1, <2>2, BlankRow DEF RequestRow, Steps
  <2>4. Operates(d) /\ LookedUp(d) /\ d.at \notin Creating
    BY <2>2, <2>3 DEF Operates, LookedUp, Creating, Inside, Inserting
  <2> QED
    BY <1>1, <2>1, <2>3, <2>4, OrderInv
<1>2. CASE RemoveService(r, s)
  <2>1. PICK d : d = [Blank EXCEPT !.at = "deleteService", !.s = s]
    OBVIOUS
  <2>2. d \in RequestRow /\ d.at = "deleteService" /\ d.s = s
    BY <2>1, BlankRow DEF RequestRow, Steps, Scopes
  <2>3. Operates(d) /\ LookedUp(d) /\ d.at \notin Creating
    BY <2>2 DEF Operates, LookedUp, Creating, Inside, Inserting
  <2> QED
    BY <1>2, <2>1, <2>2, <2>3, OrderInv DEF RemoveService
<1> QED
  BY <1>1, <1>2 DEF CreateService, UpdateService

LEMMA CategoryOrders ==
  ASSUME IInv, NEW r \in Requests, NEW s \in Services, NEW c \in Categories, Idle,
         AddCategory(r, s, c) \/ UpdateCategory(r, s, c) \/ RemoveCategory(r, s, c)
  PROVE  IInv'
<1>1. PICK at \in {"saveCategory", "deleteCategory"} :
        Ask(r, [Blank EXCEPT !.at = at, !.s = s, !.c = c])
  BY DEF AddCategory, UpdateCategory, RemoveCategory
<1>2. PICK d : d = [Blank EXCEPT !.at = at, !.s = s, !.c = c]
  OBVIOUS
<1>3. d \in RequestRow /\ d.at = at /\ d.s = s /\ d.c = c
  BY <1>2, BlankRow DEF RequestRow, Steps, Scopes
<1>4. Operates(d) /\ LookedUp(d) /\ d.at \notin Creating
  BY <1>3 DEF Operates, LookedUp, Creating, Inside, Inserting
<1> QED
  BY <1>1, <1>2, <1>3, <1>4, OrderInv

LEMMA RateOrders ==
  ASSUME IInv, NEW r \in Requests, NEW s \in Services, NEW k \in Countries, Idle,
         \/ AddCountry(r, s, k) \/ RemoveCountry(r, s, k)
         \/ \E c \in Categories, active \in BOOLEAN : UpsertRate(r, s, k, c, active)
  PROVE  IInv'
<1>1. CASE AddCountry(r, s, k)
  <2>1. PICK cats, d :
          /\ cats = CategoriesOf(s)
          /\ d = [Blank EXCEPT !.at = "addCountry", !.s = s, !.k = k, !.cats = cats]
    OBVIOUS
  <2>2. cats \in SUBSET Categories
    BY <2>1 DEF CategoriesOf
  <2>3. d \in RequestRow /\ d.at = "addCountry" /\ d.s = s /\ d.k = k
    BY <2>1, <2>2, BlankRow DEF RequestRow, Steps, Scopes
  <2>4. Operates(d) /\ LookedUp(d) /\ d.at \notin Creating
    BY <2>3 DEF Operates, LookedUp, Creating, Inside, Inserting
  <2> QED
    BY <1>1, <2>1, <2>3, <2>4, OrderInv DEF AddCountry
<1>2. CASE RemoveCountry(r, s, k)
  <2>1. PICK d : d = [Blank EXCEPT !.at = "deleteCountry", !.s = s, !.k = k]
    OBVIOUS
  <2>2. d \in RequestRow /\ d.at = "deleteCountry" /\ d.s = s /\ d.k = k
    BY <2>1, BlankRow DEF RequestRow, Steps, Scopes
  <2>3. Operates(d) /\ LookedUp(d) /\ d.at \notin Creating
    BY <2>2 DEF Operates, LookedUp, Creating, Inside, Inserting
  <2> QED
    BY <1>2, <2>1, <2>2, <2>3, OrderInv DEF RemoveCountry
<1>3. ASSUME NEW c \in Categories, NEW active \in BOOLEAN, UpsertRate(r, s, k, c, active)
      PROVE  IInv'
  <2>1. PICK row, d :
          /\ row = [active |-> active]
          /\ d = [Blank EXCEPT !.at = "rateCountry", !.s = s, !.k = k, !.c = c, !.row = row]
    OBVIOUS
  <2>2. row \in CurrencyRow /\ row \in Rows
    BY <2>1 DEF CurrencyRow, Rows
  <2>3. /\ d \in RequestRow /\ d.at = "rateCountry" /\ d.s = s /\ d.k = k /\ d.c = c
        /\ d.row = row
    BY <2>1, <2>2, BlankRow DEF RequestRow, Steps, Scopes
  <2>4. Operates(d) /\ LookedUp(d) /\ d.at \notin Creating
    BY <2>2, <2>3 DEF Operates, LookedUp, Creating, Inside, Inserting
  <2> QED
    BY <1>3, <2>1, <2>3, <2>4, OrderInv DEF UpsertRate
<1> QED
  BY <1>1, <1>2, <1>3

LEMMA SeedOrder ==
  ASSUME IInv, NEW r \in Requests, Seed(r), Idle
  PROVE  IInv'
<1>1. PICK d : d = [Blank EXCEPT !.at = "seedServices"]
  OBVIOUS
<1>2. d \in RequestRow /\ d.at = "seedServices"
  BY <1>1, BlankRow DEF RequestRow, Steps
<1>3. Operates(d) /\ LookedUp(d) /\ d.at \notin Creating
  BY <1>2 DEF Operates, LookedUp, Creating, Inside, Inserting
<1> QED
  BY <1>1, <1>2, <1>3, OrderInv DEF Seed

LEMMA PlanOrders ==
  ASSUME IInv, NEW r \in Requests, NEW scope \in Scopes, NEW row \in PlanRow,
         CreatePlan(r, scope, row) \/ UpdatePlan(r, scope, row)
  PROVE  IInv'
<1>1. PICK at \in {"newPlan", "savePlan"} :
        Ask(r, [Blank EXCEPT !.at = at, !.s = scope, !.row = row]) /\ Idle
  BY DEF CreatePlan, UpdatePlan
<1>2. PICK d : d = [Blank EXCEPT !.at = at, !.s = scope, !.row = row]
  OBVIOUS
<1>3. row \in Rows
  BY DEF Rows
<1>4. d \in RequestRow /\ d.at = at /\ d.s = scope /\ d.row = row
  BY <1>2, <1>3, BlankRow DEF RequestRow, Steps
<1>5. Operates(d) /\ LookedUp(d) /\ d.at \notin Creating
  BY <1>4 DEF Operates, LookedUp, Creating, Inside, Inserting
<1> QED
  BY <1>1, <1>2, <1>4, <1>5, OrderInv

-----------------------------------------------------------------------------
(* Operations read and go on.                                              *)

LEMMA OperatorMoves ==
  ASSUME IInv, NEW r \in Requests, NEW d, request' = [request EXCEPT ![r] = d],
         Reads, Idle, request[r].at \notin Inside, request[r].at # "deleteRates",
         d \in RequestRow, d.at \notin Creating, Operates(d), LookedUp(d)
  PROVE  IInv'
<1>1. UNCHANGED <<tables, stale, plan, workspaces, lock>> /\ asked' \in 0 .. MaxAsked
  BY DEF Reads, Idle, IInv, Typed
<1>2. Carries(d) /\ d.at \notin Inside
  BY DEF Carries, Creates, Founded, Creating, Inside, Inserting
<1> QED
  BY <1>1, <1>2, MoveInv

LEMMA OperatorEnds ==
  ASSUME IInv, NEW r \in Requests, Finish(r), Reads, Idle,
         request[r].at \notin Inside, request[r].at # "deleteRates"
  PROVE  IInv'
BY EndInv DEF Reads, Idle

LEMMA AssertCurrencyInv ==
  ASSUME IInv, NEW r \in Requests, AssertCurrency(r), Idle
  PROVE  IInv'
<1>1. PICK c : c = request[r]
  OBVIOUS
<1>2. /\ c.at = "assertCurrency" /\ Reads
      /\ \/ Finish(r)
         \/ currency[c.m] # Nothing /\ Goto(r, c.next)
  BY <1>1 DEF AssertCurrency, At
<1>3. Operates(c) /\ c.next \in Steps /\ c.next \in {"newCountry", "saveCountry"}
  BY <1>1, <1>2, RequestRead DEF Operates, Steps
<1>4. c.at \notin Inside
  BY <1>2 DEF Inside, Inserting
<1>5. CASE Finish(r)
  BY <1>1, <1>2, <1>4, <1>5, OperatorEnds
<1>6. CASE currency[c.m] # Nothing /\ Goto(r, c.next)
  <2>1. PICK d : /\ request' = [request EXCEPT ![r] = d]
                 /\ Same(d, c) /\ d.at = c.next /\ d.m = c.m
    BY <1>1, <1>3, <1>6, GoneTo
  <2>2. Operates(d) /\ LookedUp(d) /\ d.at \notin Creating
    BY <1>2, <1>3, <1>6, <2>1 DEF Operates, LookedUp, Same, Creating, Inside, Inserting
  <2> QED
    BY <1>1, <1>2, <1>4, <2>1, <2>2, OperatorMoves DEF Same
<1> QED
  BY <1>2, <1>5, <1>6

LEMMA RateCountryInv ==
  ASSUME IInv, NEW r \in Requests, RateCountry(r), Idle
  PROVE  IInv'
<1>1. PICK c, m, d : /\ c = request[r] /\ m = country[c.k].currency
                    /\ d = [c EXCEPT !.at = "findRate", !.m = m]
  OBVIOUS
<1>2. /\ c.at = "rateCountry" /\ Reads
      /\ \/ Finish(r)
         \/ country[c.k] # Nothing /\ request' = [request EXCEPT ![r] = d]
  BY <1>1 DEF RateCountry, At
<1>3. c \in RequestRow /\ Operates(c) /\ c.k \in Countries
  BY <1>1, <1>2, RequestRead DEF Operates
<1>4. c.at \notin Inside
  BY <1>2 DEF Inside, Inserting
<1>5. CASE Finish(r)
  BY <1>1, <1>2, <1>4, <1>5, OperatorEnds
<1>6. CASE country[c.k] # Nothing /\ request' = [request EXCEPT ![r] = d]
  <2>1. m \in Currencies /\ currency[m] # Nothing
    BY <1>1, <1>3, <1>6 DEF IInv, Typed, Tables, KeysInv, CountryRow
  <2>2. d = [c EXCEPT !.at = "findRate", !.m = m]
    BY <1>1
  <2>3. d.at = "findRate" /\ d.m = m /\ Same(d, c)
    BY <1>3, <2>1, <2>2 DEF RequestRow, Steps, Same
  <2>4. Operates(d) /\ LookedUp(d) /\ d.at \notin Creating
    BY <1>2, <1>3, <1>6, <2>1, <2>3
       DEF Operates, LookedUp, Same, Creating, Inside, Inserting
  <2> QED
    BY <1>1, <1>2, <1>4, <1>6, <2>3, <2>4, OperatorMoves DEF Same
<1> QED
  BY <1>2, <1>5, <1>6

LEMMA FindRateInv ==
  ASSUME IInv, NEW r \in Requests, FindRate(r), Idle
  PROVE  IInv'
<1>1. PICK c, where : /\ c = request[r]
                     /\ where = (IF rate[Cell(r)] = Nothing THEN "insertRate" ELSE "saveRate")
  OBVIOUS
<1>2. c.at = "findRate" /\ Reads /\ Goto(r, where)
  BY <1>1 DEF FindRate, At
<1>3. Operates(c) /\ LookedUp(c) /\ where \in Steps /\ where \in {"insertRate", "saveRate"}
  BY <1>1, RequestRead DEF Steps
<1>4. c.at \notin Inside
  BY <1>2 DEF Inside, Inserting
<1>5. PICK d : /\ request' = [request EXCEPT ![r] = d]
              /\ Same(d, c) /\ d.at = where /\ d.m = c.m
  BY <1>1, <1>2, <1>3, GoneTo
<1>6. Operates(d) /\ LookedUp(d) /\ d.at \notin Creating
  BY <1>2, <1>3, <1>5 DEF Operates, LookedUp, Same, Creating, Inside, Inserting
<1> QED
  BY <1>1, <1>2, <1>4, <1>5, <1>6, OperatorMoves DEF Same

LEMMA AddCountryActiveInv ==
  ASSUME IInv, NEW r \in Requests, AddCountryActive(r), Idle
  PROVE  IInv'
<1>1. PICK c, m, d : /\ c = request[r] /\ m = country[c.k].currency
                    /\ d = [c EXCEPT !.at = "addUnpriced", !.m = m]
  OBVIOUS
<1>2. /\ c.at = "addCountry" /\ Reads
      /\ \/ Finish(r)
         \/ country[c.k] # Nothing /\ request' = [request EXCEPT ![r] = d]
  BY <1>1 DEF AddCountryActive, At
<1>3. c \in RequestRow /\ Operates(c) /\ c.k \in Countries
  BY <1>1, <1>2, RequestRead DEF Operates
<1>4. c.at \notin Inside
  BY <1>2 DEF Inside, Inserting
<1>5. CASE Finish(r)
  BY <1>1, <1>2, <1>4, <1>5, OperatorEnds
<1>6. CASE country[c.k] # Nothing /\ request' = [request EXCEPT ![r] = d]
  <2>1. m \in Currencies /\ currency[m] # Nothing
    BY <1>1, <1>3, <1>6 DEF IInv, Typed, Tables, KeysInv, CountryRow
  <2>2. d = [c EXCEPT !.at = "addUnpriced", !.m = m]
    BY <1>1
  <2>3. d.at = "addUnpriced" /\ d.m = m /\ Same(d, c)
    BY <1>3, <2>1, <2>2 DEF RequestRow, Steps, Same
  <2>4. Operates(d) /\ LookedUp(d) /\ d.at \notin Creating
    BY <1>2, <1>3, <1>6, <2>1, <2>3
       DEF Operates, LookedUp, Same, Creating, Inside, Inserting
  <2> QED
    BY <1>1, <1>2, <1>4, <1>6, <2>3, <2>4, OperatorMoves DEF Same
<1> QED
  BY <1>2, <1>5, <1>6

LEMMA AddCountryUnpricedInv ==
  ASSUME IInv, NEW r \in Requests, AddCountryUnpriced(r), Idle
  PROVE  IInv'
<1>1. PICK c : c = request[r]
  OBVIOUS
<1>2. /\ c.at = "addUnpriced" /\ Reads
      /\ Goto(r, "addRates") \/ Finish(r)
  BY <1>1 DEF AddCountryUnpriced, At
<1>3. Operates(c) /\ LookedUp(c)
  BY <1>1, RequestRead
<1>4. c.at \notin Inside
  BY <1>2 DEF Inside, Inserting
<1>5. CASE Finish(r)
  BY <1>1, <1>2, <1>4, <1>5, OperatorEnds
<1>6. CASE Goto(r, "addRates")
  <2>1. PICK d : /\ request' = [request EXCEPT ![r] = d]
                 /\ Same(d, c) /\ d.at = "addRates" /\ d.m = c.m
    BY <1>1, <1>6, GoneTo DEF Steps
  <2>2. Operates(d) /\ LookedUp(d) /\ d.at \notin Creating
    BY <1>2, <1>3, <2>1 DEF Operates, LookedUp, Same, Creating, Inside, Inserting
  <2> QED
    BY <1>1, <1>2, <1>4, <2>1, <2>2, OperatorMoves DEF Same
<1> QED
  BY <1>2, <1>5, <1>6

-----------------------------------------------------------------------------
(* Operations write.                                                       *)

\* No service is lost that a workspace has, or will have when its transaction ends.
ServicesStay ==
    \A s \in Held \cup Enrolled :
      s \in Services /\ service[s] # Nothing => service'[s] # Nothing

LEMMA TableInv ==
  ASSUME IInv, NEW r \in Requests, NEW d, request' = [request EXCEPT ![r] = d],
         request[r].at \notin Inside,
         d \in RequestRow, Operates(d),
         d.at \in {"done", "deleteRates", "seedCategories", "seedRates"},
         Idle, asked' = asked, stale' \in BOOLEAN,
         Tables', Grows, KeysInv', NoNewOrphan(r, d), ServicesStay
  PROVE  IInv'
<1>1. /\ asked' \in 0 .. MaxAsked /\ UNCHANGED <<workspaces, lock>>
      /\ plan' \in [Scopes -> PlanRow \cup {Nothing}]
  BY DEF Idle, IInv, Typed
<1>2. d.at \notin Creating /\ d.at \notin Inside
  BY DEF Creating, Inside, Inserting
<1>3. LookedUp(d)'
  BY DEF LookedUp
<1>4. Founded(d)'
  BY DEF Founded, Inserting
<1>5. Creates(d)
  BY <1>2 DEF Creates, Creating, Inside, Inserting
<1>6. Carries(d)'
  BY <1>3, <1>4, <1>5 DEF Carries
<1>7. RatesInv'
  BY RatesOn
<1> QED
  BY <1>1, <1>2, <1>6, <1>7, OutsideInv DEF ServicesStay

LEMMA TableEnds ==
  ASSUME IInv, NEW r \in Requests, Finish(r), request[r].at \notin Inside,
         Idle, asked' = asked, stale' \in BOOLEAN,
         Tables', Grows, KeysInv', NoNewOrphan(r, Blank), ServicesStay
  PROVE  IInv'
<1>1. Blank \in RequestRow /\ Operates(Blank) /\ Blank.at = "done"
  BY BlankRow DEF Carries
<1> QED
  BY <1>1, TableInv DEF Finish

\* Currencies, countries and services change, and nothing of them is lost.
LEMMA RootsInv ==
  ASSUME IInv, NEW r \in Requests, Finish(r), request[r].at \notin Inside,
         request[r].at # "deleteRates", Idle, UNCHANGED <<category, rate, stale, asked>>,
         Tables', Grows,
         \A s \in Services : service[s] # Nothing => service'[s] # Nothing,
         \A k \in Countries :
           country'[k] # Nothing => currency'[country'[k].currency] # Nothing
  PROVE  IInv'
<1>1. KeysInv'
  <2>1. KeysInv /\ Tables
    BY DEF IInv, Typed
  <2>2. \A cell \in Cells : /\ cell[1] \in Services /\ cell[2] \in Countries
                            /\ rate[cell] # Nothing => rate[cell].currency \in Currencies
    BY <2>1 DEF Cells, Tables, RateRow
  <2>3. \A p \in category : p[1] \in Services
    BY <2>1 DEF Tables
  <2>4. currency'[SeedCurrency] # Nothing
    BY <2>1 DEF KeysInv, Grows
  <2> QED
    BY <2>1, <2>2, <2>3, <2>4 DEF KeysInv, Grows
<1>2. NoNewOrphan(r, Blank)
  BY DEF NoNewOrphan
<1>3. ServicesStay /\ stale' \in BOOLEAN
  BY DEF ServicesStay, IInv, Typed
<1> QED
  BY <1>1, <1>2, <1>3, TableEnds

LEMMA CurrencyInv ==
  ASSUME IInv, NEW r \in Requests, SaveNewCurrency(r) \/ SaveCurrency(r), Idle
  PROVE  IInv'
<1>1. PICK c, m, row :
        /\ c = request[r] /\ m = c.m
        /\ row = (IF c.at = "saveCurrency" THEN c.row
                  ELSE IF currency[m] = Nothing THEN [active |-> TRUE] ELSE currency[m])
  OBVIOUS
<1>2. /\ c.at \in {"newCurrency", "saveCurrency"}
      /\ currency' = [currency EXCEPT ![m] = row] /\ Finish(r)
      /\ UNCHANGED <<country, service, category, rate, stale, asked>>
  BY <1>1 DEF SaveNewCurrency, SaveCurrency, At
<1>3. m \in Currencies /\ Tables
  BY <1>1, <1>2, RequestRead DEF Operates, IInv, Typed
<1>4. row \in CurrencyRow /\ row # Nothing
  <2>1. c.at = "saveCurrency" => c.row \in CurrencyRow
    BY <1>1, RequestRead DEF Operates
  <2>2. [active |-> TRUE] \in CurrencyRow
    BY DEF CurrencyRow
  <2>3. currency[m] = Nothing \/ currency[m] \in CurrencyRow
    BY <1>3 DEF Tables
  <2> QED
    BY <1>1, <2>1, <2>2, <2>3
<1>5. Tables'
  BY <1>2, <1>3, <1>4 DEF Tables
<1>6. /\ Grows
      /\ \A n \in Currencies : currency[n] # Nothing => currency'[n] # Nothing
  BY <1>2, <1>3, <1>4 DEF Grows, Tables
<1>7. \A k \in Countries : country'[k] # Nothing => currency'[country'[k].currency] # Nothing
  BY <1>2, <1>3, <1>6 DEF IInv, KeysInv, Tables, CountryRow
<1>8. c.at \notin Inside
  BY <1>2 DEF Inside, Inserting
<1> QED
  BY <1>1, <1>2, <1>5, <1>6, <1>7, <1>8, RootsInv

LEMMA CountryInv ==
  ASSUME IInv, NEW r \in Requests, SaveNewCountry(r) \/ SaveCountry(r), Idle
  PROVE  IInv'
<1>1. PICK c, k, m : c = request[r] /\ k = c.k /\ m = c.m
  OBVIOUS
<1>2. /\ c.at \in {"newCountry", "saveCountry"} /\ Finish(r)
      /\ UNCHANGED <<currency, service, category, rate, stale, asked>>
  BY <1>1 DEF SaveNewCountry, SaveCountry, At
<1>3. /\ k \in Countries /\ m \in Currencies /\ currency[m] # Nothing /\ Tables
      /\ c.at = "saveCountry" => c.row \in CountryRow /\ c.row.currency = m
  BY <1>1, <1>2, RequestRead DEF Operates, LookedUp, IInv, Typed
<1>4. \/ country' = country
      \/ \E row \in CountryRow : row.currency = m /\ country' = [country EXCEPT ![k] = row]
  <2>1. CASE SaveCountry(r)
    BY <1>1, <1>3, <2>1 DEF SaveCountry, At
  <2>2. CASE SaveNewCountry(r) /\ country[k] = Nothing
    <3>1. PICK row : row = [currency |-> m, active |-> TRUE]
      OBVIOUS
    <3>2. row \in CountryRow /\ row.currency = m
      BY <1>3, <3>1 DEF CountryRow
    <3>3. country' = [country EXCEPT ![k] = row]
      BY <1>1, <2>2, <3>1 DEF SaveNewCountry
    <3> QED
      BY <3>2, <3>3
  <2>3. CASE SaveNewCountry(r) /\ country[k] # Nothing
    <3>1. PICK old, row : old = country[k] /\ row = [old EXCEPT !.currency = m]
      OBVIOUS
    <3>2. old \in CountryRow
      BY <1>3, <2>3, <3>1 DEF Tables
    <3>3. row \in CountryRow /\ row.currency = m
      BY <1>3, <3>1, <3>2 DEF CountryRow
    <3>4. country' = country \/ country' = [country EXCEPT ![k] = row]
      BY <1>1, <2>3, <3>1 DEF SaveNewCountry
    <3> QED
      BY <3>3, <3>4
  <2> QED
    BY <2>1, <2>2, <2>3
<1>5. Tables'
  BY <1>2, <1>3, <1>4 DEF Tables
<1>6. Grows
  BY <1>2, <1>3, <1>4 DEF Grows, Tables
<1>7. \A l \in Countries : country'[l] # Nothing => currency'[country'[l].currency] # Nothing
  BY <1>2, <1>3, <1>4 DEF IInv, KeysInv, Tables
<1>8. c.at \notin Inside
  BY <1>2 DEF Inside, Inserting
<1> QED
  BY <1>1, <1>2, <1>5, <1>6, <1>7, <1>8, RootsInv

LEMMA ServiceInv ==
  ASSUME IInv, NEW r \in Requests, SaveNewService(r) \/ SaveService(r), Idle
  PROVE  IInv'
<1>1. PICK c, s, status : c = request[r] /\ s = c.s /\ status = c.row
  OBVIOUS
<1>2. /\ c.at \in {"newService", "saveService"} /\ Finish(r)
      /\ UNCHANGED <<currency, country, category, rate, stale, asked>>
      /\ service' \in {service, [service EXCEPT ![s] = status]}
  BY <1>1 DEF SaveNewService, SaveService, At
<1>3. s \in Services /\ status \in Status /\ status # Nothing /\ Tables
  BY <1>1, <1>2, RequestRead DEF Operates, IInv, Typed
<1>4. Tables'
  BY <1>2, <1>3 DEF Tables
<1>5. Grows /\ \A t \in Services : service[t] # Nothing => service'[t] # Nothing
  BY <1>2, <1>3 DEF Grows, Tables
<1>6. \A k \in Countries : country'[k] # Nothing => currency'[country'[k].currency] # Nothing
  BY <1>2 DEF IInv, KeysInv
<1>7. c.at \notin Inside
  BY <1>2 DEF Inside, Inserting
<1> QED
  BY <1>1, <1>2, <1>4, <1>5, <1>6, <1>7, RootsInv

\* A rate that is there refers to what is there.
Backed(cell) ==
    /\ service[cell[1]] # Nothing /\ country[cell[2]] # Nothing
    /\ currency[rate'[cell].currency] # Nothing

\* Categories and rates change, and nothing else.
LEMMA RowsInv ==
  ASSUME IInv, NEW r \in Requests, NEW d, request' = [request EXCEPT ![r] = d],
         request[r].at \notin Inside,
         d \in RequestRow, Operates(d),
         d.at \in {"done", "deleteRates", "seedCategories", "seedRates"},
         Idle, UNCHANGED <<currency, country, service, asked>>, stale' \in BOOLEAN,
         category' \subseteq Services \X Categories,
         \A p \in category' : p \in category \/ service[p[1]] # Nothing,
         rate' \in [Cells -> RateRow \cup {Nothing}],
         \A cell \in Cells : rate'[cell] # Nothing => rate'[cell] = rate[cell] \/ Backed(cell),
         NoNewOrphan(r, d)
  PROVE  IInv'
<1>1. Tables' /\ Grows /\ ServicesStay
  BY DEF IInv, Typed, Tables, Grows, ServicesStay
<1>2. KeysInv'
  BY DEF IInv, KeysInv, Backed
<1> QED
  BY <1>1, <1>2, TableInv

LEMMA RowsEnd ==
  ASSUME IInv, NEW r \in Requests, Finish(r), request[r].at \notin Inside,
         Idle, UNCHANGED <<currency, country, service, asked>>, stale' \in BOOLEAN,
         category' \subseteq Services \X Categories,
         \A p \in category' : p \in category \/ service[p[1]] # Nothing,
         rate' \in [Cells -> RateRow \cup {Nothing}],
         \A cell \in Cells : rate'[cell] # Nothing => rate'[cell] = rate[cell] \/ Backed(cell),
         NoNewOrphan(r, Blank)
  PROVE  IInv'
<1>1. Blank \in RequestRow /\ Operates(Blank) /\ Blank.at = "done"
  BY BlankRow DEF Carries
<1> QED
  BY <1>1, RowsInv DEF Finish

LEMMA CellsAre ==
  ASSUME NEW cell \in Cells
  PROVE  /\ cell[1] \in Services /\ cell[2] \in Countries /\ cell[3] \in Categories
         /\ cell = <<cell[1], cell[2], cell[3]>>
  BY DEF Cells

\* The cascade takes all that refers to the service, and none of a workspace.
LEMMA DeleteServiceInv ==
  ASSUME IInv, NEW r \in Requests, DeleteService(r, Held, Enrolled), Idle
  PROVE  IInv'
<1>1. PICK c, s : c = request[r] /\ s = c.s
  OBVIOUS
<1>2. /\ c.at = "deleteService" /\ s \notin Held /\ Finish(r)
      /\ UNCHANGED <<currency, country, stale, asked>>
      /\ \/ /\ s \notin Enrolled
            /\ service' = [service EXCEPT ![s] = Nothing]
            /\ category' = {p \in category : p[1] # s}
            /\ rate' = [cell \in Cells |-> IF cell[1] = s THEN Nothing ELSE rate[cell]]
         \/ UNCHANGED <<service, category, rate>>
  BY <1>1 DEF DeleteService, At
<1>3. s \in Services /\ Tables /\ KeysInv /\ stale \in BOOLEAN
  BY <1>1, <1>2, RequestRead DEF Operates, IInv, Typed
<1>4. c.at \notin Inside
  BY <1>2 DEF Inside, Inserting
<1>5. CASE UNCHANGED <<service, category, rate>>
  <2>1. UNCHANGED <<currency, country, service, category, rate, stale, asked>>
    BY <1>2, <1>5
  <2>2. Tables' /\ Grows
    BY <1>3, <2>1 DEF Tables, Grows
  <2>3. /\ \A t \in Services : service[t] # Nothing => service'[t] # Nothing
        /\ \A k \in Countries :
             country'[k] # Nothing => currency'[country'[k].currency] # Nothing
    BY <1>3, <2>1 DEF KeysInv
  <2> QED
    BY <1>1, <1>2, <1>4, <2>1, <2>2, <2>3, RootsInv
<1>6. CASE /\ s \notin Enrolled
           /\ service' = [service EXCEPT ![s] = Nothing]
           /\ category' = {p \in category : p[1] # s}
           /\ rate' = [cell \in Cells |-> IF cell[1] = s THEN Nothing ELSE rate[cell]]
  <2>1. /\ \A t \in Services : t # s => service'[t] = service[t]
        /\ \A cell \in Cells : rate'[cell] # Nothing => cell[1] # s /\ rate'[cell] = rate[cell]
    BY <1>3, <1>6 DEF Tables
  <2>2. Tables'
    BY <1>2, <1>3, <1>6 DEF Tables
  <2>3. Grows
    BY <1>2 DEF Grows
  <2>4. ServicesStay
    BY <1>2, <1>6, <2>1 DEF ServicesStay
  <2>5. KeysInv'
    <3>1. \A p \in category' : service'[p[1]] # Nothing
      BY <1>3, <1>6, <2>1 DEF KeysInv, Tables
    <3>2. ASSUME NEW cell \in Cells, rate'[cell] # Nothing
          PROVE  /\ service'[cell[1]] # Nothing /\ country'[cell[2]] # Nothing
                 /\ currency'[rate'[cell].currency] # Nothing
      BY <1>2, <1>3, <2>1, <3>2, CellsAre DEF KeysInv
    <3> QED
      BY <1>2, <1>3, <3>1, <3>2 DEF KeysInv
  <2>6. NoNewOrphan(r, Blank)
    <3>1. \A cell \in Cells : rate'[cell] # Nothing =>
            \/ <<cell[1], cell[3]>> \in category'
            \/ rate[cell] # Nothing /\ <<cell[1], cell[3]>> \notin category
      BY <1>6, <2>1
    <3> QED
      BY <1>1, <1>2, <3>1 DEF NoNewOrphan
  <2> QED
    BY <1>1, <1>2, <1>3, <1>4, <2>2, <2>3, <2>4, <2>5, <2>6, TableEnds
<1> QED
  BY <1>2, <1>5, <1>6

LEMMA SaveCategoryInv ==
  ASSUME IInv, NEW r \in Requests, SaveCategory(r), Idle
  PROVE  IInv'
<1>1. PICK c, p : c = request[r] /\ p = <<c.s, c.c>>
  OBVIOUS
<1>2. /\ c.at = "saveCategory" /\ Finish(r)
      /\ UNCHANGED <<currency, country, service, rate, stale, asked>>
      /\ category' = category \cup (IF service[c.s] = Nothing THEN {} ELSE {p})
  BY <1>1 DEF SaveCategory, At
<1>3. /\ c.s \in Services /\ c.c \in Categories /\ Tables /\ stale \in BOOLEAN
  BY <1>1, <1>2, RequestRead DEF Operates, IInv, Typed
<1>4. p \in Services \X Categories /\ p[1] = c.s
  BY <1>1, <1>3
<1>5. category' \subseteq Services \X Categories /\ category \subseteq category'
  BY <1>2, <1>3, <1>4 DEF Tables
<1>6. \A q \in category' : q \in category \/ service[q[1]] # Nothing
  BY <1>2, <1>4
<1>7. NoNewOrphan(r, Blank)
  BY <1>1, <1>2, <1>5 DEF NoNewOrphan
<1>8. c.at \notin Inside
  BY <1>2 DEF Inside, Inserting
<1>9. rate' \in [Cells -> RateRow \cup {Nothing}] /\ rate' = rate
  BY <1>2, <1>3 DEF Tables
<1> QED
  BY <1>1, <1>2, <1>3, <1>5, <1>6, <1>7, <1>8, <1>9, RowsEnd

LEMMA DeleteCategoryInv ==
  ASSUME IInv, NEW r \in Requests, DeleteCategory(r), Idle
  PROVE  IInv'
<1>1. PICK c : c = request[r]
  OBVIOUS
<1>2. /\ c.at = "deleteCategory" /\ Goto(r, "deleteRates")
      /\ UNCHANGED <<currency, country, service, rate, stale, asked>>
      /\ category' \in {category, category \ {<<c.s, c.c>>}}
  BY <1>1 DEF DeleteCategory, At
<1>3. c.s \in Services /\ c.c \in Categories /\ Tables /\ stale \in BOOLEAN
  BY <1>1, <1>2, RequestRead DEF Operates, IInv, Typed
<1>4. PICK d : request' = [request EXCEPT ![r] = d] /\ Same(d, c) /\ d.at = "deleteRates"
  BY <1>1, <1>2, GoneTo DEF Steps
<1>5. Operates(d) /\ d \in RequestRow
  BY <1>3, <1>4 DEF Operates, Same
<1>6. c.at \notin Inside
  BY <1>2 DEF Inside, Inserting
<1>7. category' \subseteq Services \X Categories /\ category' \subseteq category
  BY <1>2, <1>3 DEF Tables
<1>8. NoNewOrphan(r, d)
  <2>1. ASSUME NEW cell \in Cells, rate'[cell] # Nothing
        PROVE  \/ <<cell[1], cell[3]>> \in category'
               \/ d.s = cell[1] /\ d.c = cell[3]
               \/ rate[cell] # Nothing /\ <<cell[1], cell[3]>> \notin category
    BY <1>2, <1>4, <2>1 DEF Same
  <2> QED
    BY <1>1, <1>2, <1>4, <2>1 DEF NoNewOrphan
<1>9. rate' \in [Cells -> RateRow \cup {Nothing}] /\ rate' = rate
  BY <1>2, <1>3 DEF Tables
<1> QED
  BY <1>1, <1>2, <1>3, <1>4, <1>5, <1>6, <1>7, <1>8, <1>9, RowsInv

\* Rates are deleted, of a category, of a country, or one.
LEMMA RatesGoneInv ==
  ASSUME IInv, NEW r \in Requests, DeleteRates(r) \/ DeleteCountryRates(r), Idle
  PROVE  IInv'
<1>1. PICK c : c = request[r]
  OBVIOUS
<1>2. /\ c.at \in {"deleteRates", "deleteCountry"} /\ Finish(r)
      /\ UNCHANGED <<currency, country, service, category, stale, asked>>
      /\ rate' \in [Cells -> RateRow \cup {Nothing}]
      /\ \A cell \in Cells : rate'[cell] # Nothing => rate'[cell] = rate[cell]
      /\ c.at = "deleteRates" =>
           \A cell \in Cells : cell[1] = c.s /\ cell[3] = c.c => rate'[cell] = Nothing
  BY <1>1 DEF DeleteRates, DeleteCountryRates, At, IInv, Typed, Tables
<1>3. NoNewOrphan(r, Blank)
  BY <1>1, <1>2 DEF NoNewOrphan
<1>4. c.at \notin Inside
  BY <1>2 DEF Inside, Inserting
<1>5. category' \subseteq Services \X Categories /\ category' = category /\ stale' \in BOOLEAN
  BY <1>2 DEF IInv, Typed, Tables
<1> QED
  BY <1>1, <1>2, <1>3, <1>4, <1>5, RowsEnd

LEMMA SaveRateInv ==
  ASSUME IInv, NEW r \in Requests, SaveRate(r), Idle
  PROVE  IInv'
<1>1. PICK c, cell, row :
        /\ c = request[r] /\ cell = <<c.s, c.k, c.c>>
        /\ row = [currency |-> c.m, active |-> c.row.active]
  OBVIOUS
<1>2. /\ c.at \in {"insertRate", "saveRate"} /\ Finish(r)
      /\ UNCHANGED <<currency, country, service, category, asked>>
      /\ \/ /\ service[c.s] # Nothing
            /\ rate' = [rate EXCEPT ![cell] = row]
            /\ stale' = (stale \/ <<c.s, c.c>> \notin category)
         \/ UNCHANGED <<rate, stale>>
  BY <1>1 DEF SaveRate, Cell
<1>3. /\ c.s \in Services /\ c.k \in Countries /\ c.c \in Categories /\ c.m \in Currencies
      /\ c.row \in CurrencyRow /\ currency[c.m] # Nothing /\ country[c.k] # Nothing
      /\ Tables /\ stale \in BOOLEAN
  BY <1>1, <1>2, RequestRead DEF Operates, LookedUp, IInv, Typed
<1>4. cell \in Cells /\ cell[1] = c.s /\ cell[2] = c.k /\ cell[3] = c.c
  BY <1>1, <1>3 DEF Cells
<1>5. row \in RateRow /\ row.currency = c.m
  BY <1>1, <1>3 DEF RateRow, CurrencyRow
<1>6. /\ rate' \in [Cells -> RateRow \cup {Nothing}]
      /\ \A other \in Cells : other # cell => rate'[other] = rate[other]
      /\ rate'[cell] = rate[cell] \/ (rate'[cell] = row /\ service[c.s] # Nothing)
  BY <1>2, <1>3, <1>4, <1>5 DEF Tables
<1>7. \A other \in Cells :
        rate'[other] # Nothing => rate'[other] = rate[other] \/ Backed(other)
  BY <1>3, <1>4, <1>5, <1>6 DEF Backed
<1>8. NoNewOrphan(r, Blank)
  <2> SUFFICES ASSUME ~ stale'
               PROVE  /\ ~ stale
                      /\ \A other \in Cells : rate'[other] # Nothing =>
                           \/ <<other[1], other[3]>> \in category'
                           \/ rate[other] # Nothing /\ <<other[1], other[3]>> \notin category
    BY <1>1, <1>2 DEF NoNewOrphan
  <2>1. ~ stale /\ (rate' = rate \/ <<c.s, c.c>> \in category)
    BY <1>2, <1>3
  <2> QED
    BY <1>2, <1>4, <1>6, <2>1
<1>9. c.at \notin Inside /\ stale' \in BOOLEAN
  BY <1>2, <1>3 DEF Inside, Inserting
<1>10. category' \subseteq Services \X Categories /\ category' = category
  BY <1>2, <1>3 DEF Tables
<1> QED
  BY <1>1, <1>2, <1>6, <1>7, <1>8, <1>9, <1>10, RowsEnd

LEMMA SaveRatesInv ==
  ASSUME IInv, NEW r \in Requests, SaveRates(r), Idle
  PROVE  IInv'
<1>1. PICK c, row : c = request[r] /\ row = [currency |-> c.m, active |-> TRUE]
  OBVIOUS
<1>2. /\ c.at = "addRates" /\ Finish(r)
      /\ UNCHANGED <<currency, country, service, category, asked>>
      /\ \/ /\ service[c.s] # Nothing
            /\ rate' = [cell \in Cells |->
                          IF cell[1] = c.s /\ cell[2] = c.k /\ cell[3] \in c.cats
                          THEN row ELSE rate[cell]]
            /\ stale' = (stale \/ ~ c.cats \subseteq CategoriesOf(c.s))
         \/ UNCHANGED <<rate, stale>>
  BY <1>1 DEF SaveRates, At
<1>3. /\ c.m \in Currencies /\ currency[c.m] # Nothing /\ country[c.k] # Nothing
      /\ Tables /\ stale \in BOOLEAN
  BY <1>1, <1>2, RequestRead DEF LookedUp, IInv, Typed
<1>4. row \in RateRow /\ row.currency = c.m
  BY <1>1, <1>3 DEF RateRow
<1>5. /\ rate' \in [Cells -> RateRow \cup {Nothing}]
      /\ \A cell \in Cells :
           \/ rate'[cell] = rate[cell]
           \/ /\ rate'[cell] = row /\ service[c.s] # Nothing
              /\ cell[1] = c.s /\ cell[2] = c.k /\ cell[3] \in c.cats
  BY <1>2, <1>3, <1>4 DEF Tables
<1>6. \A cell \in Cells : rate'[cell] # Nothing => rate'[cell] = rate[cell] \/ Backed(cell)
  BY <1>3, <1>4, <1>5 DEF Backed
<1>7. NoNewOrphan(r, Blank)
  <2> SUFFICES ASSUME ~ stale'
               PROVE  /\ ~ stale
                      /\ \A cell \in Cells : rate'[cell] # Nothing =>
                           \/ <<cell[1], cell[3]>> \in category'
                           \/ rate[cell] # Nothing /\ <<cell[1], cell[3]>> \notin category
    BY <1>1, <1>2 DEF NoNewOrphan
  <2>1. ~ stale /\ (rate' = rate \/ c.cats \subseteq CategoriesOf(c.s))
    BY <1>2, <1>3
  <2>2. \A x \in CategoriesOf(c.s) : <<c.s, x>> \in category
    BY DEF CategoriesOf
  <2> QED
    BY <1>2, <1>5, <2>1, <2>2
<1>8. c.at \notin Inside /\ stale' \in BOOLEAN
  BY <1>2, <1>3 DEF Inside, Inserting
<1>9. category' \subseteq Services \X Categories /\ category' = category
  BY <1>2, <1>3 DEF Tables
<1> QED
  BY <1>1, <1>2, <1>5, <1>6, <1>7, <1>8, <1>9, RowsEnd

\* The seed brings back what is missing.
LEMMA SeedServicesInv ==
  ASSUME IInv, NEW r \in Requests, SeedServices(r), Idle
  PROVE  IInv'
<1>1. PICK c : c = request[r]
  OBVIOUS
<1>2. /\ c.at = "seedServices" /\ Goto(r, "seedCategories")
      /\ UNCHANGED <<currency, country, category, rate, stale, asked>>
      /\ service' = [s \in Services |-> IF s \in Seeded /\ service[s] = Nothing
                                        THEN "active" ELSE service[s]]
  BY <1>1 DEF SeedServices, At
<1>3. Tables /\ KeysInv /\ stale \in BOOLEAN
  BY DEF IInv, Typed
<1>4. "active" \in Status /\ "active" # Nothing
  BY DEF Status
<1>5. /\ service' \in [Services -> Status \cup {Nothing}]
      /\ \A s \in Services : service[s] # Nothing => service'[s] # Nothing
  BY <1>2, <1>3, <1>4 DEF Tables
<1>6. Tables' /\ Grows /\ ServicesStay /\ stale' \in BOOLEAN
  BY <1>2, <1>3, <1>5 DEF Tables, Grows, ServicesStay
<1>7. KeysInv'
  <2>1. \A p \in category : p[1] \in Services
    BY <1>3 DEF Tables
  <2> QED
    BY <1>2, <1>3, <1>5, <2>1, CellsAre DEF KeysInv
<1>8. PICK d : request' = [request EXCEPT ![r] = d] /\ Same(d, c) /\ d.at = "seedCategories"
  BY <1>1, <1>2, GoneTo DEF Steps
<1>9. Operates(d) /\ d \in RequestRow
  BY <1>8 DEF Operates, Same
<1>10. NoNewOrphan(r, d)
  BY <1>1, <1>2 DEF NoNewOrphan
<1>11. c.at \notin Inside
  BY <1>2 DEF Inside, Inserting
<1> QED
  BY <1>1, <1>2, <1>6, <1>7, <1>8, <1>9, <1>10, <1>11, TableInv

LEMMA SeedCategoriesInv ==
  ASSUME IInv, NEW r \in Requests, SeedCategories(r), Idle
  PROVE  IInv'
<1>1. PICK c : c = request[r]
  OBVIOUS
<1>2. /\ c.at = "seedCategories"
      /\ UNCHANGED <<currency, country, service, rate, stale, asked>>
      /\ \/ /\ \A s \in Services \cap Seeded : service[s] # Nothing
            /\ category' = category \cup (Services \cap Seeded) \X Categories
            /\ Goto(r, "seedRates")
         \/ Finish(r) /\ UNCHANGED category
  BY <1>1 DEF SeedCategories, At
<1>3. Tables /\ stale \in BOOLEAN
  BY DEF IInv, Typed
<1>4. PICK d : /\ request' = [request EXCEPT ![r] = d] /\ d \in RequestRow
               /\ Operates(d) /\ d.at \in {"done", "seedRates"}
  <2>1. CASE Finish(r)
    BY <2>1, BlankRow DEF Finish, Carries
  <2>2. CASE Goto(r, "seedRates")
    <3>1. PICK d : request' = [request EXCEPT ![r] = d] /\ Same(d, c) /\ d.at = "seedRates"
      BY <1>1, <2>2, GoneTo DEF Steps
    <3> QED
      BY <3>1 DEF Operates, Same
  <2> QED
    BY <1>2, <2>1, <2>2
<1>5. /\ category' \subseteq Services \X Categories /\ category \subseteq category'
      /\ \A p \in category' : p \in category \/ service[p[1]] # Nothing
  BY <1>2, <1>3 DEF Tables
<1>6. NoNewOrphan(r, d)
  BY <1>1, <1>2, <1>5 DEF NoNewOrphan
<1>7. c.at \notin Inside
  BY <1>2 DEF Inside, Inserting
<1>8. rate' \in [Cells -> RateRow \cup {Nothing}] /\ rate' = rate
  BY <1>2, <1>3 DEF Tables
<1> QED
  BY <1>1, <1>2, <1>3, <1>4, <1>5, <1>6, <1>7, <1>8, RowsInv

LEMMA SeedRatesInv ==
  ASSUME IInv, NEW r \in Requests, SeedRates(r), Idle
  PROVE  IInv'
<1>1. PICK c, row, missing :
        /\ c = request[r] /\ row = [currency |-> SeedCurrency, active |-> TRUE]
        /\ missing = {cell \in Cells : rate[cell] = Nothing /\ SeedRow(cell) # Nothing}
  OBVIOUS
<1>2. /\ c.at = "seedRates" /\ Finish(r)
      /\ UNCHANGED <<currency, country, service, category, asked>>
      /\ \/ /\ \A s \in Services \cap Seeded : service[s] # Nothing
            /\ rate' = [cell \in Cells |-> IF cell \in missing THEN SeedRow(cell) ELSE rate[cell]]
            /\ stale' = (stale \/ \E cell \in missing : <<cell[1], cell[3]>> \notin category)
         \/ UNCHANGED <<rate, stale>>
  BY <1>1 DEF SeedRates, At
<1>3. Tables /\ KeysInv /\ stale \in BOOLEAN
  BY DEF IInv, Typed
<1>4. row \in RateRow /\ row.currency = SeedCurrency
  BY <1>1 DEF RateRow
<1>5. \A cell \in missing : /\ cell \in Cells /\ SeedRow(cell) = row
                            /\ cell[1] \in Seeded /\ cell[2] \in Seeded
  BY <1>1 DEF SeedRow
<1>6. /\ rate' \in [Cells -> RateRow \cup {Nothing}]
      /\ \A cell \in Cells :
           \/ rate'[cell] = rate[cell]
           \/ /\ rate'[cell] = row /\ cell \in missing
              /\ \A s \in Services \cap Seeded : service[s] # Nothing
  <2>1. CASE rate' = rate
    BY <1>3, <2>1 DEF Tables
  <2>2. CASE rate' = [cell \in Cells |-> IF cell \in missing THEN SeedRow(cell) ELSE rate[cell]]
    <3>1. ASSUME NEW cell \in Cells
          PROVE  /\ rate'[cell] = IF cell \in missing THEN row ELSE rate[cell]
                 /\ rate'[cell] \in RateRow \cup {Nothing}
      BY <1>3, <1>4, <1>5, <2>2 DEF Tables
    <3>2. rate' \in [Cells -> RateRow \cup {Nothing}]
      BY <2>2, <3>1
    <3>3. rate' # rate => \A s \in Services \cap Seeded : service[s] # Nothing
      BY <1>2
    <3> QED
      BY <3>1, <3>2, <3>3
  <2> QED
    BY <1>2, <2>1, <2>2
<1>7. \A cell \in Cells : rate'[cell] # Nothing => rate'[cell] = rate[cell] \/ Backed(cell)
  <2> SUFFICES ASSUME NEW cell \in Cells, rate'[cell] # rate[cell] PROVE Backed(cell)
    OBVIOUS
  <2>1. cell[1] \in Services \cap Seeded /\ cell[2] \in Countries /\ cell[2] \in Seeded
    BY <1>5, <1>6, CellsAre
  <2>2. currency[SeedCurrency] # Nothing /\ country[cell[2]] # Nothing
    BY <1>3, <2>1 DEF KeysInv
  <2> QED
    BY <1>2, <1>4, <1>6, <2>1, <2>2 DEF Backed
<1>8. NoNewOrphan(r, Blank)
  <2> SUFFICES ASSUME ~ stale'
               PROVE  /\ ~ stale
                      /\ \A cell \in Cells : rate'[cell] # Nothing =>
                           \/ <<cell[1], cell[3]>> \in category'
                           \/ rate[cell] # Nothing /\ <<cell[1], cell[3]>> \notin category
    BY <1>1, <1>2 DEF NoNewOrphan
  <2>1. ~ stale /\ (rate' = rate \/ \A cell \in missing : <<cell[1], cell[3]>> \in category)
    BY <1>2, <1>3
  <2> QED
    BY <1>2, <1>6, <2>1
<1>9. c.at \notin Inside /\ stale' \in BOOLEAN
  BY <1>2, <1>3 DEF Inside, Inserting
<1>10. category' \subseteq Services \X Categories /\ category' = category
  BY <1>2, <1>3 DEF Tables
<1> QED
  BY <1>1, <1>2, <1>6, <1>7, <1>8, <1>9, <1>10, RowsEnd

LEMMA RemoveRateInv ==
  ASSUME IInv, NEW s \in Services, NEW k \in Countries, NEW c \in Categories,
         RemoveRate(s, k, c), Idle
  PROVE  IInv'
<1>1. /\ UNCHANGED <<currency, country, service, category, request, stale,
                     plan, workspaces, lock>>
      /\ asked < MaxAsked /\ asked' = asked + 1
  BY DEF RemoveRate, Idle
<1>2. /\ rate' \in [Cells -> RateRow \cup {Nothing}]
      /\ \A cell \in Cells : rate'[cell] # Nothing => rate'[cell] = rate[cell]
  BY DEF RemoveRate, IInv, Typed, Tables, Cells
<1>3. Typed'
  BY <1>1, <1>2 DEF IInv, Typed, Tables
<1>4. KeysInv' /\ EnrolledInv'
  BY <1>1, <1>2 DEF IInv, KeysInv, EnrolledInv
<1>5. RatesInv'
  BY <1>1, <1>2 DEF IInv, RatesInv, At
<1>6. Carried'
  <2> SUFFICES ASSUME NEW q \in Requests PROVE Carries(request[q])'
    BY DEF Carried
  <2>1. Grows /\ Owned(request[q].user, request[q].s)' = Owned(request[q].user, request[q].s)
    BY <1>1 DEF Grows, Owned
  <2> QED
    BY <1>1, <2>1, CarriedOn, RequestRead DEF Founded
<1>7. LockedInv' /\ SlugsInv'
  BY <1>1 DEF IInv, LockedInv, SlugsInv, Drafts
<1> QED
  BY <1>3, <1>4, <1>5, <1>6, <1>7 DEF IInv

-----------------------------------------------------------------------------
(* Plans, and what a creation does before its transaction.                 *)

LEMMA WritePlanInv ==
  ASSUME IInv, NEW r \in Requests, InsertPlan(r) \/ SavePlan(r)
  PROVE  IInv'
<1>1. PICK c, row :
        /\ c = request[r]
        /\ row = (IF c.at = "newPlan" /\ plan[c.s] # Nothing THEN plan[c.s] ELSE c.row)
  OBVIOUS
<1>2. /\ c.at \in {"newPlan", "savePlan"} /\ Finish(r)
      /\ UNCHANGED <<tables, stale, asked, workspaces, lock>>
      /\ plan' = [plan EXCEPT ![c.s] = row]
  BY <1>1 DEF InsertPlan, SavePlan, At, Reads
<1>3. c.s \in Scopes /\ c.row \in PlanRow
  BY <1>1, <1>2, RequestRead DEF Operates
<1>4. /\ currency' = currency /\ country' = country /\ service' = service
      /\ category' = category /\ rate' = rate /\ stale' = stale
  BY <1>2 DEF tables
<1>5. Grows /\ Tables' /\ KeysInv' /\ stale' \in BOOLEAN /\ asked' \in 0 .. MaxAsked
  BY <1>2, <1>4 DEF Grows, Tables, KeysInv, IInv, Typed
<1>6. plan' \in [Scopes -> PlanRow \cup {Nothing}]
  BY <1>1, <1>2, <1>3 DEF IInv, Typed
<1>7. RatesInv'
  <2>1. NoNewOrphan(r, Blank)
    BY <1>1, <1>2, <1>4 DEF NoNewOrphan
  <2> QED
    BY <1>2, <2>1, RatesOn DEF Finish
<1>8. c.at \notin Inside /\ Blank.at \notin Inside /\ Carries(Blank)'
  BY <1>2, BlankRow DEF Inside, Inserting
<1> QED
  BY <1>1, <1>2, <1>4, <1>5, <1>6, <1>7, <1>8, OutsideInv DEF Finish

LEMMA CreateInv ==
  ASSUME IInv, NEW r \in Requests, NEW u \in Users, NEW s \in Services, NEW slug \in BaseSlugs,
         Create(r, u, s, slug)
  PROVE  IInv'
<1>1. PICK k, m : k = HomeOf[u] /\ m = country[k].currency
  OBVIOUS
<1>2. PICK d : d = [Blank EXCEPT !.at = "available", !.user = u, !.s = s, !.k = k,
                                 !.m = m, !.slug = slug]
  OBVIOUS
<1>3. country[k] # Nothing /\ Ask(r, d) /\ Idle
  BY <1>1, <1>2 DEF Create
<1>4. k \in Countries /\ m \in Currencies
  BY <1>1, <1>3 DEF IInv, Typed, Tables, CountryRow
<1>5. /\ d \in RequestRow /\ d.at = "available" /\ d.user = u /\ d.s = s /\ d.k = k
      /\ d.m = m /\ d.slug = slug
  BY <1>2, <1>4, BlankRow DEF RequestRow, Steps, Scopes
<1>6. /\ request[r].at = "done" /\ request' = [request EXCEPT ![r] = d]
      /\ UNCHANGED <<tables, stale, plan, workspaces, lock>>
      /\ asked' \in 0 .. MaxAsked
  BY <1>3 DEF Ask, Idle, At, IInv, Typed
<1>7. Carries(d)
  <2>1. Operates(d) /\ LookedUp(d) /\ Founded(d)
    BY <1>5 DEF Operates, LookedUp, Founded, Inserting
  <2>2. Creates(d)
    BY <1>4, <1>5 DEF Creates, Creating, Inside, Inserting
  <2> QED
    BY <1>5, <2>1, <2>2 DEF Carries
<1>8. request[r].at \notin Inside /\ d.at \notin Inside
  BY <1>5, <1>6 DEF Inside, Inserting
<1> QED
  BY <1>6, <1>7, <1>8, MoveInv

\* A creation that is not past its lock only reads, and goes on.
LEMMA CreationMoves ==
  ASSUME IInv, NEW r \in Requests, NEW d, request' = [request EXCEPT ![r] = d],
         request[r].at \in {"available", "plan"}, d.at \in {"plan", "lock"},
         Same(d, request[r]), d.m = request[r].m, d.at = "lock" => d.max \in Limits,
         Reads, Idle
  PROVE  IInv'
<1> DEFINE c == request[r]
<1>1. Creates(c)
  BY RequestRead
<1>2. Operates(d) /\ LookedUp(d) /\ Founded(d)
  BY DEF Operates, LookedUp, Founded, Inserting
<1>3. c.at \notin Inside /\ d.at \notin Inside
  BY DEF Inside, Inserting
<1>4. Creates(d)
  BY <1>1, <1>3 DEF Creates, Same, Creating, Inside
<1>5. Carries(d)
  BY <1>2, <1>4 DEF Carries, Same
<1>6. UNCHANGED <<tables, stale, plan, workspaces, lock>> /\ asked' \in 0 .. MaxAsked
  BY DEF Reads, Idle, IInv, Typed
<1> QED
  BY <1>3, <1>5, <1>6, MoveInv

LEMMA CreationEnds ==
  ASSUME IInv, NEW r \in Requests, Finish(r), request[r].at \in {"available", "plan"},
         Reads, Idle
  PROVE  IInv'
<1>1. request[r].at \notin Inside
  BY DEF Inside, Inserting
<1> QED
  BY <1>1, EndInv DEF Reads, Idle

LEMMA AvailableInv ==
  ASSUME IInv, NEW r \in Requests, Available(r)
  PROVE  IInv'
<1>1. /\ request[r].at = "available" /\ Reads /\ Idle
      /\ Goto(r, "plan") \/ Finish(r)
  BY DEF Available, At
<1>2. CASE Goto(r, "plan")
  <2>1. PICK d : /\ request' = [request EXCEPT ![r] = d] /\ Same(d, request[r])
                 /\ d.at = "plan" /\ d.m = request[r].m
    BY <1>2, GoneTo DEF Steps
  <2> QED
    BY <1>1, <2>1, CreationMoves
<1> QED
  BY <1>1, <1>2, CreationEnds

LEMMA ReadPlanInv ==
  ASSUME IInv, NEW r \in Requests, ReadPlan(r)
  PROVE  IInv'
<1>1. request[r].at = "plan" /\ Reads /\ Idle
  BY DEF ReadPlan, At
<1>2. CASE Finish(r)
  BY <1>1, <1>2, CreationEnds
<1>3. ASSUME NEW scope \in FreePlan(request[r].s),
             request' = [request EXCEPT ![r].at = "lock", ![r].max = plan[scope].max]
      PROVE  IInv'
  <2>1. PICK c, max, d : /\ c = request[r] /\ max = plan[scope].max
                         /\ d = [c EXCEPT !.at = "lock", !.max = max]
    OBVIOUS
  <2>2. request' = [request EXCEPT ![r] = d] /\ d = [c EXCEPT !.at = "lock", !.max = max]
    BY <1>3, <2>1
  <2>3. max \in Limits
    BY <2>1 DEF FreePlan, IInv, Typed, PlanRow
  <2>4. c \in RequestRow
    BY <2>1, RequestRead
  <2>5. d.at = "lock" /\ d.m = c.m /\ d.max = max /\ Same(d, c)
    BY <2>2, <2>3, <2>4 DEF RequestRow, Steps, Same
  <2> QED
    BY <1>1, <2>1, <2>2, <2>3, <2>5, CreationMoves
<1> QED
  BY <1>2, <1>3 DEF ReadPlan

-----------------------------------------------------------------------------
(* The transaction of a creation.                                          *)

\* A step that leaves what others count alone.
LEMMA TransactionInv ==
  ASSUME IInv, NEW r \in Requests, NEW d, request' = [request EXCEPT ![r] = d],
         Carries(d)', UNCHANGED <<tables, asked, plan>>,
         stale' \in BOOLEAN, NoNewOrphan(r, d),
         workspaces' \subseteq Draft, IsFiniteSet(workspaces'), EnrolledInv',
         \A q \in Requests \ {r} : request[q].at \in {"workspace"} \cup Inserting =>
           Owned(request[q].user, request[q].s)' = Owned(request[q].user, request[q].s),
         lock' \in [Users \X Services -> Requests \cup {Nothing}], LockedInv', SlugsInv'
  PROVE  IInv'
<1>1. request'[r] = d /\ \A q \in Requests : q # r => request'[q] = request[q]
  BY DEF IInv, Typed
<1>2. /\ currency' = currency /\ country' = country /\ service' = service
      /\ category' = category /\ rate' = rate
  BY DEF tables
<1>3. Typed' /\ KeysInv' /\ Grows
  BY <1>2 DEF IInv, Typed, Tables, KeysInv, Grows, Carries
<1>4. RatesInv'
  BY RatesOn
<1>5. Carried'
  <2> SUFFICES ASSUME NEW q \in Requests, q # r PROVE Carries(request[q])'
    BY <1>1 DEF Carried
  <2>1. Carries(request[q]) /\ Founded(request[q])
    BY RequestRead
  <2> QED
    BY <1>1, <1>2, <1>3, <2>1, CarriedOn DEF Founded
<1> QED
  BY <1>3, <1>4, <1>5 DEF IInv

LEMMA UnlockInv ==
  ASSUME IInv, NEW r \in Requests, NEW d, request' = [request EXCEPT ![r] = d],
         d.at \notin Inside, Unlock(r)
  PROVE  lock' \in [Users \X Services -> Requests \cup {Nothing}] /\ LockedInv'
<1>1. request'[r] = d /\ \A q \in Requests : q # r => request'[q] = request[q]
  BY DEF IInv, Typed
<1>2. /\ lock' \in [Users \X Services -> Requests \cup {Nothing}]
      /\ \A p \in Users \X Services : lock'[p] = (IF lock[p] = r THEN Nothing ELSE lock[p])
  BY DEF Unlock, IInv, Typed
<1>3. LockedInv'
  BY <1>1, <1>2 DEF IInv, LockedInv
<1> QED
  BY <1>2, <1>3

\* The transaction ends without a commit.
LEMMA LetsGoInv ==
  ASSUME IInv, NEW r \in Requests, NEW d, request' = [request EXCEPT ![r] = d],
         Carries(d)', d.at \notin Inside, Unlock(r),
         UNCHANGED <<tables, asked, plan, workspaces>>, stale' \in BOOLEAN, NoNewOrphan(r, d)
  PROVE  IInv'
<1>1. request'[r] = d /\ \A q \in Requests : q # r => request'[q] = request[q]
  BY DEF IInv, Typed
<1>2. /\ workspaces' \subseteq Draft /\ IsFiniteSet(workspaces')
      /\ service' = service
  BY DEF IInv, Typed, tables
<1>3. \A q \in Requests \ {r} :
        Owned(request[q].user, request[q].s)' = Owned(request[q].user, request[q].s)
  BY <1>1 DEF Owned
<1>4. EnrolledInv'
  BY <1>2 DEF IInv, EnrolledInv
<1>5. lock' \in [Users \X Services -> Requests \cup {Nothing}] /\ LockedInv'
  BY UnlockInv
<1>6. Drafts' = Drafts \ {r}
  BY <1>1 DEF Drafts, Inside
<1>7. SlugsInv'
  BY <1>1, <1>6 DEF IInv, SlugsInv, Drafts
<1> QED
  BY <1>2, <1>3, <1>4, <1>5, <1>7, TransactionInv

\* It goes on, with nothing written but what it has inserted itself.
LEMMA GoesOnInv ==
  ASSUME IInv, NEW r \in Requests, NEW d, request' = [request EXCEPT ![r] = d],
         Carries(d), d.at \in Inside, request[r].at \in {"lock"} \cup Inside,
         UNCHANGED <<tables, stale, asked, plan, workspaces>>,
         lock' \in [Users \X Services -> Requests \cup {Nothing}], LockedInv', SlugsInv'
  PROVE  IInv'
<1>1. /\ workspaces' \subseteq Draft /\ IsFiniteSet(workspaces')
      /\ category' = category /\ rate' = rate /\ service' = service /\ stale' = stale
      /\ currency' = currency /\ country' = country
  BY DEF IInv, Typed, tables
<1>2. EnrolledInv' /\ stale' \in BOOLEAN
  BY <1>1 DEF IInv, EnrolledInv, Typed
<1>3. NoNewOrphan(r, d)
  BY <1>1 DEF NoNewOrphan, Inside, Inserting
<1>4. \A q \in Requests \ {r} :
        Owned(request[q].user, request[q].s)' = Owned(request[q].user, request[q].s)
  <2>1. \A q \in Requests \ {r} : request'[q] = request[q]
    BY DEF IInv, Typed
  <2> QED
    BY <2>1 DEF Owned
<1>5. Carries(d)'
  <2>1. Grows /\ Owned(d.user, d.s)' = Owned(d.user, d.s)
    BY <1>1 DEF Grows, Owned
  <2> QED
    BY <1>1, <2>1, CarriedOn DEF Carries, Founded
<1> QED
  BY <1>1, <1>2, <1>3, <1>4, <1>5, TransactionInv

\* ... under the lock it has, and with the slug it has.
LEMMA HeldOnInv ==
  ASSUME IInv, NEW r \in Requests, NEW d, request' = [request EXCEPT ![r] = d],
         Carries(d), d.at \in Inside, request[r].at \in Inside,
         d.user = request[r].user, d.s = request[r].s,
         UNCHANGED <<tables, stale, asked, plan, workspaces, lock>>, SlugsInv'
  PROVE  IInv'
<1>1. request'[r] = d /\ \A q \in Requests : q # r => request'[q] = request[q]
  BY DEF IInv, Typed
<1>2. lock' \in [Users \X Services -> Requests \cup {Nothing}]
  BY DEF IInv, Typed
<1>3. LockedInv'
  BY <1>1 DEF IInv, LockedInv
<1> QED
  BY <1>2, <1>3, GoesOnInv

LEMMA SlugKept ==
  ASSUME IInv, NEW r \in Requests, NEW d, request' = [request EXCEPT ![r] = d],
         d.at \in Inserting => /\ request[r].at \in Inserting
                               /\ d.row.slug = request[r].row.slug,
         UNCHANGED workspaces
  PROVE  SlugsInv'
<1>1. request'[r] = d /\ \A q \in Requests : q # r => request'[q] = request[q]
  BY DEF IInv, Typed
<1>2. Drafts' \subseteq Drafts
  BY <1>1 DEF Drafts
<1>3. \A q \in Drafts' : request'[q].row.slug = request[q].row.slug
  BY <1>1 DEF Drafts
<1> QED
  BY <1>2, <1>3 DEF IInv, SlugsInv

LEMMA LockCreateInv ==
  ASSUME IInv, NEW r \in Requests, LockCreate(r)
  PROVE  IInv'
<1>1. PICK c, p : c = request[r] /\ p = <<c.user, c.s>>
  OBVIOUS
<1>2. /\ c.at = "lock" /\ Goto(r, "count") /\ lock[p] = Nothing
      /\ lock' = [lock EXCEPT ![p] = r]
      /\ UNCHANGED <<tables, stale, asked, plan, workspaces>>
  BY <1>1 DEF LockCreate, At, Reads
<1>3. PICK d : /\ request' = [request EXCEPT ![r] = d] /\ Same(d, c) /\ d.at = "count"
               /\ d.m = c.m /\ d.max = c.max
  BY <1>1, <1>2, GoneTo DEF Steps
<1>4. Creates(c) /\ c.user \in Users /\ c.s \in Services /\ p \in Users \X Services
  BY <1>1, <1>2, RequestRead DEF Creates, Creating
<1>5. Carries(d)
  <2>1. Operates(d) /\ LookedUp(d) /\ Founded(d)
    BY <1>3 DEF Operates, LookedUp, Founded, Inserting
  <2>2. Creates(d)
    BY <1>2, <1>3, <1>4 DEF Creates, Same, Creating, Inside, Inserting
  <2> QED
    BY <1>3, <2>1, <2>2 DEF Carries, Same
<1>6. request'[r] = d /\ \A q \in Requests : q # r => request'[q] = request[q]
  BY <1>3 DEF IInv, Typed
<1>7. /\ lock' \in [Users \X Services -> Requests \cup {Nothing}]
      /\ \A t \in Users \X Services : lock'[t] = (IF t = p THEN r ELSE lock[t])
  BY <1>2, <1>4 DEF IInv, Typed
<1>8. LockedInv'
  <2>1. c.at \notin Inside /\ d.at \in Inside /\ d.user = c.user /\ d.s = c.s
    BY <1>2, <1>3 DEF Inside, Inserting, Same
  <2> QED
    BY <1>1, <1>2, <1>6, <1>7, <2>1 DEF IInv, LockedInv
<1>9. SlugsInv'
  BY <1>2, <1>3, SlugKept DEF Inserting
<1> QED
  BY <1>1, <1>2, <1>3, <1>5, <1>7, <1>8, <1>9, GoesOnInv DEF Inside

\* A transaction fails, and the request with it.
LEMMA FailsInv ==
  ASSUME IInv, NEW r \in Requests, Finish(r), Unlock(r), request[r].at \in Inside,
         UNCHANGED <<tables, stale, asked, plan, workspaces>>
  PROVE  IInv'
<1>1. Blank.at \notin Inside /\ Carries(Blank)' /\ stale' \in BOOLEAN
  BY BlankRow DEF Inside, Inserting, IInv, Typed
<1>2. NoNewOrphan(r, Blank)
  BY DEF NoNewOrphan, Inside, Inserting, tables
<1> QED
  BY <1>1, <1>2, LetsGoInv DEF Finish

LEMMA CountOwnedInv ==
  ASSUME IInv, NEW r \in Requests, CountOwned(r)
  PROVE  IInv'
<1>1. PICK c : c = request[r]
  OBVIOUS
<1>2. /\ c.at = "count" /\ UNCHANGED <<tables, stale, asked, plan, workspaces>>
      /\ \/ /\ Cardinality(Owned(c.user, c.s)) < c.max
            /\ Goto(r, "workspace") /\ UNCHANGED lock
         \/ Finish(r) /\ Unlock(r)
  BY <1>1 DEF CountOwned, At, Reads
<1>3. c.at \in Inside
  BY <1>2 DEF Inside
<1>4. CASE Finish(r) /\ Unlock(r)
  BY <1>1, <1>2, <1>3, <1>4, FailsInv
<1>5. CASE /\ Cardinality(Owned(c.user, c.s)) < c.max
           /\ Goto(r, "workspace") /\ UNCHANGED lock
  <2>1. PICK d : /\ request' = [request EXCEPT ![r] = d] /\ Same(d, c) /\ d.at = "workspace"
                 /\ d.m = c.m /\ d.max = c.max
    BY <1>1, <1>5, GoneTo DEF Steps
  <2>2. Operates(d) /\ LookedUp(d)
    BY <2>1 DEF Operates, LookedUp
  <2>3. Founded(d)
    BY <1>5, <2>1 DEF Founded, Same
  <2>4. Creates(d)
    <3>1. Creates(c)
      BY <1>1, RequestRead
    <3> QED
      BY <1>2, <2>1, <3>1 DEF Creates, Same, Creating, Inside, Inserting
  <2>5. Carries(d)
    BY <2>1, <2>2, <2>3, <2>4 DEF Carries, Same
  <2>6. SlugsInv' /\ d.at \in Inside
    BY <1>2, <2>1, SlugKept DEF Inserting, Inside
  <2> QED
    BY <1>1, <1>2, <1>3, <1>5, <2>1, <2>5, <2>6, HeldOnInv DEF Same
<1> QED
  BY <1>2, <1>4, <1>5

LEMMA InsertWorkspaceInv ==
  ASSUME IInv, NEW r \in Requests, InsertWorkspace(r)
  PROVE  IInv'
<1>1. PICK slug \in MaySlug(r) :
        /\ request[r].at = "workspace" /\ ~ SlugHeld(r, slug) /\ ~ SlugTaken(slug)
        /\ request' = [request EXCEPT ![r].at = "member",
             ![r].row = [slug |-> slug, currency |-> request[r].m, owner |-> Nothing,
                         service |-> Nothing, wallet |-> Nothing]]
        /\ UNCHANGED <<tables, stale, asked, plan, workspaces, lock>>
  BY DEF InsertWorkspace, At, Reads, Idle
<1>2. PICK c, row :
        /\ c = request[r]
        /\ row = [slug |-> slug, currency |-> c.m, owner |-> Nothing,
                  service |-> Nothing, wallet |-> Nothing]
  OBVIOUS
<1>3. PICK d : d = [c EXCEPT !.at = "member", !.row = row]
  OBVIOUS
<1>4. request' = [request EXCEPT ![r] = d]
  BY <1>1, <1>2, <1>3
<1>5. c \in RequestRow /\ Creates(c) /\ Founded(c) /\ c.at = "workspace"
  BY <1>1, <1>2, RequestRead
<1>6. /\ c.user \in Users /\ c.s \in Services /\ c.k \in Countries /\ c.m \in Currencies
      /\ c.slug \in BaseSlugs /\ c.max \in Limits
  BY <1>5 DEF Creates, Creating, Inside
<1>7. slug \in Slugs
  BY <1>2, <1>6 DEF MaySlug, Slugs
<1>8. row \in Draft /\ row.slug = slug /\ row.currency = c.m
  BY <1>2, <1>6, <1>7 DEF Draft
<1>9. /\ d \in RequestRow /\ d.at = "member" /\ d.row = row /\ d.user = c.user /\ d.s = c.s
      /\ d.k = c.k /\ d.m = c.m /\ d.slug = c.slug /\ d.max = c.max
  <2>1. row \in Rows
    BY <1>8 DEF Rows
  <2> QED
    BY <1>3, <1>5, <2>1 DEF RequestRow, Steps
<1>10. Carries(d)
  <2>1. Operates(d) /\ LookedUp(d)
    BY <1>9 DEF Operates, LookedUp
  <2>2. Creates(d) /\ Founded(d)
    BY <1>5, <1>6, <1>8, <1>9 DEF Creates, Founded, Creating, Inside, Inserting
  <2> QED
    BY <1>9, <2>1, <2>2 DEF Carries
<1>11. SlugsInv'
  <2>1. request'[r] = d /\ \A q \in Requests : q # r => request'[q] = request[q]
    BY <1>4 DEF IInv, Typed
  <2>2. Drafts' \subseteq Drafts \cup {r}
    BY <2>1 DEF Drafts
  <2>3. \A w \in workspaces : w.slug # slug
    BY <1>1 DEF SlugTaken
  <2>4. \A q \in Drafts \ {r} : request[q].row.slug # slug
    BY <1>1 DEF SlugHeld
  <2>5. workspaces' = workspaces /\ request'[r].row.slug = slug
    BY <1>1, <1>8, <1>9, <2>1
  <2>6. Drafts \subseteq Requests
    BY DEF Drafts
  <2> SUFFICES ASSUME NEW q \in Drafts'
               PROVE  /\ \A w \in workspaces' : w.slug # request'[q].row.slug
                      /\ \A t \in Drafts' \ {q} : request'[t].row.slug # request'[q].row.slug
    BY DEF SlugsInv
  <2>7. CASE q = r
    BY <2>1, <2>2, <2>3, <2>4, <2>5, <2>6, <2>7
  <2>8. CASE q # r
    BY <2>1, <2>2, <2>4, <2>5, <2>6, <2>8 DEF IInv, SlugsInv
  <2> QED
    BY <2>7, <2>8
<1>12. c.at \in Inside /\ d.at \in Inside
  BY <1>5, <1>9 DEF Inside, Inserting
<1> QED
  BY <1>1, <1>2, <1>4, <1>9, <1>10, <1>11, <1>12, HeldOnInv

LEMMA CollideInv ==
  ASSUME IInv, NEW r \in Requests, Collide(r)
  PROVE  IInv'
<1>1. PICK c, n, d : c = request[r] /\ n = c.attempt + 1 /\ d = [c EXCEPT !.at = "lock", !.attempt = n]
  OBVIOUS
<1>2. /\ c.at = "workspace" /\ Unlock(r) /\ UNCHANGED <<tables, stale, asked, plan, workspaces>>
      /\ \/ c.attempt < SlugAttempts - 1 /\ request' = [request EXCEPT ![r] = d]
         \/ Finish(r)
  BY <1>1 DEF Collide, At, Reads
<1>3. c \in RequestRow /\ Creates(c)
  BY <1>1, RequestRead
<1>4. CASE Finish(r)
  BY <1>1, <1>2, <1>4, FailsInv DEF Inside
<1>5. CASE c.attempt < SlugAttempts - 1 /\ request' = [request EXCEPT ![r] = d]
  <2>1. n \in 0 .. SlugAttempts - 1
    BY <1>1, <1>3, <1>5 DEF RequestRow
  <2>2. d = [c EXCEPT !.at = "lock", !.attempt = n]
    BY <1>1
  <2>3. /\ d \in RequestRow /\ d.at = "lock" /\ d.user = c.user /\ d.s = c.s
        /\ d.k = c.k /\ d.m = c.m /\ d.slug = c.slug /\ d.max = c.max
    BY <1>3, <2>1, <2>2 DEF RequestRow, Steps
  <2>4. Operates(d) /\ LookedUp(d)' /\ Founded(d)'
    BY <2>3 DEF Operates, LookedUp, Founded, Inserting
  <2>5. Creates(d)
    BY <1>2, <1>3, <2>3 DEF Creates, Creating, Inside, Inserting
  <2>6. Carries(d)'
    BY <2>3, <2>4, <2>5 DEF Carries
  <2>7. NoNewOrphan(r, d) /\ stale' \in BOOLEAN
    BY <1>1, <1>2 DEF NoNewOrphan, tables, IInv, Typed
  <2>8. d.at \notin Inside
    BY <2>3 DEF Inside, Inserting
  <2> QED
    BY <1>2, <1>5, <2>6, <2>7, <2>8, LetsGoInv
<1> QED
  BY <1>2, <1>4, <1>5

\* One more column of what it will commit.
Columned(d, c, where, row) ==
    /\ d \in RequestRow /\ d.at = where /\ d.row = row /\ d.user = c.user /\ d.s = c.s
    /\ d.k = c.k /\ d.m = c.m /\ d.slug = c.slug /\ d.max = c.max

Written(c, where, row) ==
    /\ row.slug = c.row.slug /\ row.currency = c.row.currency
    /\ where \in {"enrolment", "wallet", "commit"} => row.owner = c.user
    /\ where \in {"wallet", "commit"} => row.service = c.s /\ service[c.s] # Nothing
    /\ where = "commit" => row.wallet = c.m

LEMMA ColumnSet ==
  ASSUME IInv, NEW r \in Requests, NEW where \in Inserting, NEW row \in Draft,
         NEW c, c = request[r], NEW d, d = [c EXCEPT !.at = where, !.row = row]
  PROVE  Columned(d, c, where, row)
<1>1. row \in Rows /\ where \in Steps
  BY DEF Rows, Steps, Inserting
<1>2. c \in RequestRow
  BY RequestRead
<1>3. d = [c EXCEPT !.at = where, !.row = row]
  OBVIOUS
<1> QED
  BY <1>1, <1>2, <1>3 DEF RequestRow, Columned

LEMMA RowGrows ==
  ASSUME IInv, NEW r \in Requests, NEW where \in Inserting, NEW row \in Draft,
         NEW c, c = request[r], NEW d, Columned(d, c, where, row),
         request' = [request EXCEPT ![r] = d],
         c.at \in Inserting, Written(c, where, row),
         UNCHANGED <<tables, stale, asked, plan, workspaces, lock>>
  PROVE  IInv'
<1>1. Creates(c) /\ Founded(c)
  BY RequestRead
<1>2. Operates(d) /\ LookedUp(d)
  BY DEF Operates, LookedUp, Inserting, Columned
<1>3. Creates(d)
  BY <1>1 DEF Creates, Creating, Inside, Inserting, Columned, Written
<1>4. Founded(d)
  BY <1>1 DEF Founded, Columned, Written
<1>5. Carries(d)
  BY <1>2, <1>3, <1>4 DEF Carries, Columned
<1>6. SlugsInv'
  BY SlugKept DEF Columned, Written
<1>7. d.at \in Inside /\ c.at \in Inside /\ d.user = c.user /\ d.s = c.s
  BY DEF Inside, Columned
<1> QED
  BY <1>5, <1>6, <1>7, HeldOnInv

LEMMA InsertMemberInv ==
  ASSUME IInv, NEW r \in Requests, InsertMember(r)
  PROVE  IInv'
<1>1. PICK c, old, row, d :
        /\ c = request[r] /\ old = c.row /\ row = [old EXCEPT !.owner = c.user]
        /\ d = [c EXCEPT !.at = "enrolment", !.row = row]
  OBVIOUS
<1>2. /\ c.at = "member" /\ request' = [request EXCEPT ![r] = d]
      /\ UNCHANGED <<tables, stale, asked, plan, workspaces, lock>>
  BY <1>1 DEF InsertMember, At, Reads, Idle
<1>3. old \in Draft /\ c.user \in Users
  BY <1>1, <1>2, RequestRead DEF Creates, Creating, Inside, Inserting
<1>4. row = [old EXCEPT !.owner = c.user] /\ c = request[r] /\ old = c.row
  BY <1>1
<1>5. row \in Draft /\ row.slug = old.slug /\ row.currency = old.currency /\ row.owner = c.user
  BY <1>3, <1>4 DEF Draft
<1>6. "member" \in Inserting /\ "enrolment" \in Inserting
  BY DEF Inserting
<1>7. Columned(d, c, "enrolment", row)
  BY <1>1, <1>5, <1>6, ColumnSet
<1>8. Written(c, "enrolment", row)
  BY <1>4, <1>5 DEF Written
<1> QED
  BY <1>2, <1>4, <1>5, <1>6, <1>7, <1>8, RowGrows

LEMMA InsertEnrolmentInv ==
  ASSUME IInv, NEW r \in Requests, InsertEnrolment(r)
  PROVE  IInv'
<1>1. PICK c, old, row, d :
        /\ c = request[r] /\ old = c.row /\ row = [old EXCEPT !.service = c.s]
        /\ d = [c EXCEPT !.at = "wallet", !.row = row]
  OBVIOUS
<1>2. c.at = "enrolment" /\ UNCHANGED <<tables, stale, asked, plan, workspaces>>
  BY <1>1 DEF InsertEnrolment, At, Reads
<1>3. CASE Finish(r) /\ Unlock(r)
  BY <1>1, <1>2, <1>3, FailsInv DEF Inside, Inserting
<1>4. CASE ~ (Finish(r) /\ Unlock(r))
  <2>1. /\ service[c.s] # Nothing /\ lock' = lock
        /\ request' = [request EXCEPT ![r].at = "wallet", ![r].row.service = request[r].s]
    BY <1>1, <1>4 DEF InsertEnrolment
  <2>2. request' = [request EXCEPT ![r] = d]
    BY <1>1, <2>1
  <2>3. old \in Draft /\ c.s \in Services /\ old.owner = c.user
    BY <1>1, <1>2, RequestRead DEF Creates, Creating, Inside, Inserting
  <2>4. row = [old EXCEPT !.service = c.s] /\ c = request[r] /\ old = c.row
    BY <1>1
  <2>5. /\ row \in Draft /\ row.slug = old.slug /\ row.currency = old.currency
        /\ row.owner = c.user /\ row.service = c.s
    BY <2>3, <2>4 DEF Draft
  <2>6. "enrolment" \in Inserting /\ "wallet" \in Inserting
    BY DEF Inserting
  <2>7. Columned(d, c, "wallet", row)
    BY <1>1, <2>5, <2>6, ColumnSet
  <2>8. Written(c, "wallet", row)
    BY <2>1, <2>4, <2>5 DEF Written
  <2>9. c.at \in Inserting /\ UNCHANGED <<tables, stale, asked, plan, workspaces, lock>>
    BY <1>2, <2>1, <2>6
  <2> QED
    BY <2>2, <2>4, <2>5, <2>6, <2>7, <2>8, <2>9, RowGrows
<1> QED
  BY <1>3, <1>4

LEMMA InsertWalletInv ==
  ASSUME IInv, NEW r \in Requests, InsertWallet(r)
  PROVE  IInv'
<1>1. PICK c, old, row, d :
        /\ c = request[r] /\ old = c.row /\ row = [old EXCEPT !.wallet = c.m]
        /\ d = [c EXCEPT !.at = "commit", !.row = row]
  OBVIOUS
<1>2. /\ c.at = "wallet" /\ request' = [request EXCEPT ![r] = d]
      /\ UNCHANGED <<tables, stale, asked, plan, workspaces, lock>>
  BY <1>1 DEF InsertWallet, At, Reads, Idle
<1>3. Creates(c) /\ Founded(c)
  BY <1>1, RequestRead
<1>4. /\ old \in Draft /\ c.m \in Currencies /\ old.owner = c.user /\ old.service = c.s
      /\ service[c.s] # Nothing
  BY <1>1, <1>2, <1>3 DEF Creates, Founded, Creating, Inside, Inserting
<1>5. row = [old EXCEPT !.wallet = c.m] /\ c = request[r] /\ old = c.row
  BY <1>1
<1>6. /\ row \in Draft /\ row.slug = old.slug /\ row.currency = old.currency
      /\ row.owner = c.user /\ row.service = c.s /\ row.wallet = c.m
  BY <1>4, <1>5 DEF Draft
<1>7. "wallet" \in Inserting /\ "commit" \in Inserting
  BY DEF Inserting
<1>8. Columned(d, c, "commit", row)
  BY <1>1, <1>6, <1>7, ColumnSet
<1>9. Written(c, "commit", row)
  BY <1>4, <1>5, <1>6 DEF Written
<1> QED
  BY <1>2, <1>4, <1>5, <1>6, <1>7, <1>8, <1>9, RowGrows

\* What a commit adds, and to whom.
LEMMA CommitEffect ==
  ASSUME IInv, NEW r \in Requests, Commit(r)
  PROVE  /\ request[r].at = "commit" /\ Creates(request[r]) /\ Founded(request[r])
         /\ request[r].row \in Draft
         /\ request[r].row.owner = request[r].user /\ request[r].row.service = request[r].s
         /\ request[r].row.wallet = request[r].row.currency
         /\ request[r].user \in Users /\ request[r].s \in Services
         /\ request[r].max \in Limits
         /\ workspaces' = workspaces \cup {request[r].row}
         /\ Finish(r) /\ Unlock(r)
         /\ UNCHANGED <<tables, stale, asked, plan>>
         /\ \A w \in workspaces : w.slug # request[r].row.slug
         /\ \A u \in Users, s \in Services :
              Owned(u, s)' = IF u = request[r].user /\ s = request[r].s
                             THEN Owned(u, s) \cup {request[r].row} ELSE Owned(u, s)
<1>1. PICK c, row : c = request[r] /\ row = c.row
  OBVIOUS
<1>2. /\ c.at = "commit" /\ workspaces' = workspaces \cup {row}
      /\ Finish(r) /\ Unlock(r) /\ UNCHANGED <<tables, stale, asked, plan>>
  BY <1>1 DEF Commit, At, Reads
<1>3. Creates(c) /\ Founded(c)
  BY <1>1, RequestRead
<1>4. /\ row \in Draft /\ row.owner = c.user /\ row.service = c.s /\ row.wallet = row.currency
      /\ c.user \in Users /\ c.s \in Services /\ c.max \in Limits
  BY <1>1, <1>2, <1>3 DEF Creates, Creating, Inside, Inserting
<1>5. \A w \in workspaces : w.slug # row.slug
  BY <1>1, <1>2 DEF IInv, SlugsInv, Drafts, Inserting
<1>6. ASSUME NEW u \in Users, NEW s \in Services
      PROVE  Owned(u, s)' = IF u = c.user /\ s = c.s
                            THEN Owned(u, s) \cup {row} ELSE Owned(u, s)
  <2>1. CASE u = c.user /\ s = c.s
    <3>1. Owned(u, s)' = Owned(u, s) \cup {row}
      BY <1>2, <1>4, <2>1 DEF Owned
    <3> QED
      BY <2>1, <3>1
  <2>2. CASE ~ (u = c.user /\ s = c.s)
    <3>1. Owned(u, s)' = Owned(u, s)
      BY <1>2, <1>4, <2>2 DEF Owned
    <3> QED
      BY <2>2, <3>1
  <2> QED
    BY <2>1, <2>2
<1> QED
  BY <1>1, <1>2, <1>3, <1>4, <1>5, <1>6

\* Nobody else counts the workspaces of the same user and service meanwhile.
LEMMA CommitInv ==
  ASSUME IInv, NEW r \in Requests, Commit(r)
  PROVE  IInv'
<1>1. PICK c, row : c = request[r] /\ row = c.row
  OBVIOUS
<1>2. /\ c.at = "commit" /\ Founded(c) /\ row \in Draft
      /\ row.owner = c.user /\ row.service = c.s /\ c.user \in Users /\ c.s \in Services
      /\ workspaces' = workspaces \cup {row} /\ Finish(r) /\ Unlock(r)
      /\ UNCHANGED <<tables, stale, asked, plan>>
  BY <1>1, CommitEffect
<1>3. /\ request' = [request EXCEPT ![r] = Blank] /\ request'[r] = Blank
      /\ \A q \in Requests : q # r => request'[q] = request[q]
  BY <1>2 DEF Finish, IInv, Typed
<1>4. Blank.at = "done" /\ Blank.at \notin Inside /\ Carries(Blank)'
  BY BlankRow DEF Inside, Inserting
<1>5. lock' \in [Users \X Services -> Requests \cup {Nothing}] /\ LockedInv'
  BY <1>2, <1>3, <1>4, UnlockInv
<1>6. NoNewOrphan(r, Blank) /\ stale' \in BOOLEAN
  BY <1>1, <1>2 DEF NoNewOrphan, tables, IInv, Typed
<1>7. workspaces' \subseteq Draft /\ IsFiniteSet(workspaces')
  BY <1>2, FS_AddElement DEF IInv, Typed
<1>8. EnrolledInv'
  <2>1. service' = service /\ service[c.s] # Nothing
    BY <1>2 DEF tables, Founded
  <2> QED
    BY <1>2, <2>1 DEF IInv, EnrolledInv
<1>9. ASSUME NEW q \in Requests \ {r}, request[q].at \in {"workspace"} \cup Inserting
      PROVE  Owned(request[q].user, request[q].s)' = Owned(request[q].user, request[q].s)
  <2>1. PICK u, s : u = request[q].user /\ s = request[q].s
    OBVIOUS
  <2>2. request[q].at \in Inside /\ c.at \in Inside
    BY <1>2, <1>9 DEF Inside, Inserting
  <2>3. u \in Users /\ s \in Services
    BY <2>1, <2>2, RequestRead DEF Creates, Creating
  <2>4. lock[<<u, s>>] = q /\ lock[<<c.user, c.s>>] = r
    BY <1>1, <1>2, <2>1, <2>2, <2>3 DEF IInv, LockedInv
  <2>5. ~ (u = c.user /\ s = c.s)
    BY <2>4
  <2>6. Owned(u, s)' = Owned(u, s)
    BY <1>2, <2>5 DEF Owned
  <2>7. request'[q].user = u /\ request'[q].s = s
    BY <1>3, <2>1
  <2> QED
    BY <2>1, <2>6, <2>7 DEF Owned
<1>10. SlugsInv'
  <2>1. Drafts' \subseteq Drafts \ {r} /\ r \in Drafts
    BY <1>1, <1>2, <1>3, <1>4 DEF Drafts, Inserting
  <2>2. \A q \in Drafts' : request'[q] = request[q] /\ q # r
    BY <1>3, <2>1 DEF Drafts
  <2> QED
    BY <1>1, <1>2, <2>1, <2>2 DEF IInv, SlugsInv
<1> QED
  BY <1>2, <1>3, <1>4, <1>5, <1>6, <1>7, <1>8, <1>9, <1>10, TransactionInv

LEMMA DisconnectInv ==
  ASSUME IInv, NEW r \in Requests, Disconnect(r)
  PROVE  IInv'
<1>1. /\ Finish(r) /\ Unlock(r) /\ stale' = (stale \/ At(r, "deleteRates"))
      /\ UNCHANGED <<tables, asked, plan, workspaces>>
  BY DEF Disconnect, CutOff
<1>2. Blank.at \notin Inside /\ Carries(Blank)'
  BY BlankRow DEF Inside, Inserting
<1>3. stale \in BOOLEAN
  BY DEF IInv, Typed
<1>4. stale' \in BOOLEAN /\ (~ stale' => ~ stale /\ request[r].at # "deleteRates")
  BY <1>1, <1>3 DEF At
<1>5. NoNewOrphan(r, Blank)
  BY <1>1, <1>4 DEF NoNewOrphan, tables
<1> QED
  BY <1>1, <1>2, <1>4, <1>5, LetsGoInv DEF Finish

-----------------------------------------------------------------------------
(* Every step.                                                             *)

LEMMA OperateInv ==
  ASSUME IInv, NEW r \in Requests, Operate(r), Idle
  PROVE  IInv'
<1>1. CASE Seed(r)
  BY <1>1, SeedOrder
<1>2. ASSUME NEW m \in Currencies,
             CreateCurrency(r, m) \/ \E active \in BOOLEAN : UpdateCurrency(r, m, active)
      PROVE  IInv'
  BY <1>2, CurrencyOrders
<1>3. ASSUME NEW k \in Countries,
             \/ \E m \in Currencies : CreateCountry(r, k, m)
             \/ \E row \in CountryRow : UpdateCountry(r, k, row)
      PROVE  IInv'
  BY <1>3, CountryOrders
<1>4. ASSUME NEW s \in Services,
             \/ \E status \in Status : CreateService(r, s, status) \/ UpdateService(r, s, status)
             \/ RemoveService(r, s)
      PROVE  IInv'
  BY <1>4, ServiceOrders
<1>5. ASSUME NEW s \in Services, NEW c \in Categories,
             AddCategory(r, s, c) \/ UpdateCategory(r, s, c) \/ RemoveCategory(r, s, c)
      PROVE  IInv'
  BY <1>5, CategoryOrders
<1>6. ASSUME NEW s \in Services, NEW k \in Countries,
             \/ AddCountry(r, s, k) \/ RemoveCountry(r, s, k)
             \/ \E c \in Categories, active \in BOOLEAN : UpsertRate(r, s, k, c, active)
      PROVE  IInv'
  BY <1>6, RateOrders
<1> QED
  BY <1>1, <1>2, <1>3, <1>4, <1>5, <1>6 DEF Operate

LEMMA CatalogueInv ==
  ASSUME IInv, NEW r \in Requests, CatalogueStep(r, Held, Enrolled), Idle
  PROVE  IInv'
  BY CurrencyInv, AssertCurrencyInv, CountryInv, ServiceInv, DeleteServiceInv, SaveCategoryInv,
     DeleteCategoryInv, RatesGoneInv, RateCountryInv, FindRateInv, SaveRateInv,
     AddCountryActiveInv, AddCountryUnpricedInv, SaveRatesInv, SeedServicesInv,
     SeedCategoriesInv, SeedRatesInv DEF CatalogueStep

LEMMA CreateStepInv ==
  ASSUME IInv, NEW r \in Requests, CreateStep(r)
  PROVE  IInv'
  BY AvailableInv, ReadPlanInv, LockCreateInv, CountOwnedInv, InsertWorkspaceInv, CollideInv,
     InsertMemberInv, InsertEnrolmentInv, InsertWalletInv, CommitInv DEF CreateStep

LEMMA StutterInv ==
  ASSUME IInv, UNCHANGED vars
  PROVE  IInv'
<1>1. /\ currency' = currency /\ country' = country /\ service' = service
      /\ category' = category /\ rate' = rate /\ request' = request /\ stale' = stale
      /\ asked' = asked /\ plan' = plan /\ workspaces' = workspaces /\ lock' = lock
  BY DEF vars, tables
<1>2. Typed' /\ KeysInv' /\ EnrolledInv' /\ RatesInv'
  BY <1>1 DEF IInv, Typed, Tables, KeysInv, EnrolledInv, RatesInv, At
<1>3. Carried'
  <2> SUFFICES ASSUME NEW q \in Requests PROVE Carries(request[q])'
    BY DEF Carried
  <2>1. Grows /\ Owned(request[q].user, request[q].s)' = Owned(request[q].user, request[q].s)
    BY <1>1 DEF Grows, Owned
  <2> QED
    BY <1>1, <2>1, CarriedOn, RequestRead DEF Founded
<1>4. LockedInv' /\ SlugsInv'
  BY <1>1 DEF IInv, LockedInv, SlugsInv, Drafts
<1> QED
  BY <1>2, <1>3, <1>4 DEF IInv

LEMMA StepInv ==
  ASSUME IInv, [Next]_vars
  PROVE  IInv'
<1>1. ASSUME NEW r \in Requests, Operate(r) /\ Idle PROVE IInv'
  BY <1>1, OperateInv
<1>2. ASSUME NEW r \in Requests, CatalogueStep(r, Held, Enrolled) /\ Idle PROVE IInv'
  BY <1>2, CatalogueInv
<1>3. ASSUME NEW r \in Requests, NEW scope \in Scopes, NEW row \in PlanRow,
             CreatePlan(r, scope, row) \/ UpdatePlan(r, scope, row)
      PROVE  IInv'
  BY <1>3, PlanOrders
<1>4. ASSUME NEW r \in Requests, InsertPlan(r) \/ SavePlan(r) PROVE IInv'
  BY <1>4, WritePlanInv
<1>5. ASSUME NEW r \in Requests, NEW u \in Users, NEW s \in Services, NEW slug \in BaseSlugs,
             Create(r, u, s, slug)
      PROVE  IInv'
  BY <1>5, CreateInv
<1>6. ASSUME NEW r \in Requests, CreateStep(r) \/ Disconnect(r) PROVE IInv'
  BY <1>6, CreateStepInv, DisconnectInv
<1>7. ASSUME NEW s \in Services, NEW k \in Countries, NEW c \in Categories,
             RemoveRate(s, k, c) /\ Idle
      PROVE  IInv'
  BY <1>7, RemoveRateInv
<1>8. CASE UNCHANGED vars
  BY <1>8, StutterInv
<1> QED
  BY <1>1, <1>2, <1>3, <1>4, <1>5, <1>6, <1>7, <1>8 DEF Next

LEMMA InitInv == Init => IInv
<1> SUFFICES ASSUME Init PROVE IInv
  OBVIOUS
<1>1. CatalogueInit /\ workspaces = {} /\ lock = [p \in Users \X Services |-> Nothing]
  BY DEF Init
<1>2. /\ "active" \in Status /\ [active |-> TRUE] \in CurrencyRow
      /\ [currency |-> SeedCurrency, active |-> TRUE] \in CountryRow
      /\ [currency |-> SeedCurrency, active |-> TRUE] \in RateRow
  BY DEF Status, CurrencyRow, CountryRow, RateRow
<1>3. Tables
  <2>1. currency \in [Currencies -> CurrencyRow \cup {Nothing}]
    BY <1>1, <1>2 DEF CatalogueInit
  <2>2. country \in [Countries -> CountryRow \cup {Nothing}]
    BY <1>1, <1>2 DEF CatalogueInit
  <2>3. service \in [Services -> Status \cup {Nothing}] /\ category \subseteq Services \X Categories
    BY <1>1, <1>2 DEF CatalogueInit
  <2>4. rate \in [Cells -> RateRow \cup {Nothing}]
    BY <1>1, <1>2 DEF CatalogueInit, SeedRow
  <2> QED
    BY <2>1, <2>2, <2>3, <2>4 DEF Tables
<1>4. plan \in [Scopes -> PlanRow \cup {Nothing}]
  <2>1. [active |-> TRUE, max |-> 1] \in PlanRow
    BY DEF PlanRow
  <2> QED
    BY <2>1 DEF Init
<1>5. request = [r \in Requests |-> Blank] /\ \A r \in Requests : request[r] = Blank
  BY <1>1 DEF CatalogueInit
<1>6. Typed
  <2>1. stale \in BOOLEAN /\ asked \in 0 .. MaxAsked
    <3>1. stale \in BOOLEAN
      BY <1>1 DEF CatalogueInit
    <3>2. asked = 0
      BY <1>1 DEF CatalogueInit
    <3>3. asked \in 0 .. MaxAsked
      BY <3>2
    <3> QED
      BY <3>1, <3>3
  <2>2. request \in [Requests -> RequestRow]
    BY <1>5, BlankRow
  <2>3. workspaces \subseteq Draft /\ IsFiniteSet(workspaces)
    BY <1>1, FS_EmptySet
  <2>4. lock \in [Users \X Services -> Requests \cup {Nothing}]
    BY <1>1
  <2> QED
    BY <1>3, <1>4, <2>1, <2>2, <2>3, <2>4 DEF Typed
<1>7. KeysInv
  <2>1. currency[SeedCurrency] # Nothing
    BY <1>1, <1>2 DEF CatalogueInit
  <2>2. \A k \in Countries :
          /\ k \in Seeded => country[k] # Nothing
          /\ country[k] # Nothing => k \in Seeded /\ country[k].currency = SeedCurrency
    BY <1>1, <1>2 DEF CatalogueInit
  <2>3. \A s \in Services \cap Seeded : service[s] # Nothing
    BY <1>1, <1>2 DEF CatalogueInit
  <2>4. \A p \in category : p[1] \in Services \cap Seeded
    BY <1>1 DEF CatalogueInit
  <2>5. \A cell \in Cells : rate[cell] # Nothing =>
          cell[1] \in Seeded /\ cell[2] \in Seeded /\ rate[cell].currency = SeedCurrency
    BY <1>1 DEF CatalogueInit, SeedRow
  <2> QED
    BY <2>1, <2>2, <2>3, <2>4, <2>5, CellsAre DEF KeysInv
<1>8. EnrolledInv
  BY <1>1 DEF EnrolledInv
<1>9. RatesInv
  <2>1. \A cell \in Cells : rate[cell] # Nothing => cell[1] \in Seeded
    BY <1>1 DEF CatalogueInit, SeedRow
  <2>2. category = (Services \cap Seeded) \X Categories
    BY <1>1 DEF CatalogueInit
  <2> QED
    BY <2>1, <2>2, CellsAre DEF RatesInv
<1>10. Carried
  BY <1>5, BlankRow DEF Carried
<1>11. LockedInv
  BY <1>1, <1>5, BlankRow DEF LockedInv, Inside, Inserting
<1>12. SlugsInv
  <2>1. Drafts = {}
    BY <1>5, BlankRow DEF Drafts, Inserting
  <2> QED
    BY <2>1 DEF SlugsInv
<1> QED
  BY <1>6, <1>7, <1>8, <1>9, <1>10, <1>11, <1>12 DEF IInv

-----------------------------------------------------------------------------
(* What follows.                                                           *)

\* The strengthening is an invariant: what a request carries stays true while others
\* work, and who is past a lock is alone there (src/src/workspaces/workspaces.service.ts).
THEOREM Invariance == Spec => []IInv
<1>1. Init => IInv
  BY InitInv
<1>2. IInv /\ [Next]_vars => IInv'
  BY StepInv
<1> QED
  BY <1>1, <1>2, PTL DEF Spec

\* Every row has its columns and what its columns refer to, and a creation lock is held
\* by who is between counting and commit only.
THEOREM TypeCorrect == Spec => []TypeOK
<1>1. IInv => TypeOK
  <2> SUFFICES ASSUME IInv PROVE TypeOK
    OBVIOUS
  <2>1. \A r \in Requests : LET d == request[r] IN
          /\ d.s \in Scopes \cup {Nothing} /\ d.k \in Countries \cup {Nothing}
          /\ d.m \in Currencies \cup {Nothing} /\ d.slug \in BaseSlugs \cup {Nothing}
          /\ d.max \in Limits \cup {Nothing} /\ d.attempt \in 0 .. SlugAttempts - 1
          /\ d.at \in Inserting => d.row \in Draft
    BY RequestRead DEF RequestRow, Creates
  <2>2. \A p \in Users \X Services, r \in Requests : lock[p] = r =>
          request[r].at \in {"count", "workspace"} \cup Inserting
    BY DEF IInv, LockedInv, Inside
  <2> QED
    BY <2>1, <2>2 DEF IInv, Typed, Tables, KeysInv, TypeOK
<1> QED
  BY <1>1, Invariance, PTL

\* Categories, rates and workspaces of a service are gone when it is, however its removal
\* (ServicesService.remove) meets their creation.
THEOREM NothingOutlives == Spec => []NothingOutlivesItsService
<1>1. IInv => NothingOutlivesItsService
  <2> SUFFICES ASSUME IInv, NEW s \in Services, service[s] = Nothing
               PROVE  /\ CategoriesOf(s) = {}
                      /\ \A k \in Countries : PricedIn(s, k) = {}
                      /\ s \notin Enrolled
    BY DEF NothingOutlivesItsService
  <2>1. CategoriesOf(s) = {}
    BY DEF CategoriesOf, IInv, KeysInv
  <2>2. ASSUME NEW k \in Countries, NEW c \in Categories, rate[<<s, k, c>>] # Nothing
        PROVE  FALSE
    <3>1. PICK cell \in Cells : cell = <<s, k, c>>
      BY DEF Cells
    <3>2. cell[1] = s /\ rate[cell] # Nothing
      BY <2>2, <3>1
    <3> QED
      BY <3>2 DEF IInv, KeysInv
  <2>3. s \notin Enrolled
    BY DEF Enrolled, IInv, EnrolledInv
  <2> QED
    BY <2>1, <2>2, <2>3 DEF PricedIn
<1> QED
  BY <1>1, Invariance, PTL

\* removeCategory leaves no rate without its category behind, unless one was saved for a
\* category that was gone, or it was cut off (src/src/services/services.service.ts).
THEOREM OrphansGone == Spec => []NoOrphanRates
<1>1. IInv => NoOrphanRates
  BY DEF IInv, RatesInv, NoOrphanRates, At
<1> QED
  BY <1>1, Invariance, PTL

-----------------------------------------------------------------------------
(* What a step may do to the workspaces.                                   *)

LEMMA OnlyCommits ==
  ASSUME [Next]_vars, \A r \in Requests : ~ Commit(r)
  PROVE  workspaces' = workspaces
  BY DEF Next, Idle, CreatePlan, UpdatePlan, InsertPlan, SavePlan, Create, CreateStep, Available,
     ReadPlan, LockCreate, CountOwned, InsertWorkspace, Collide, InsertMember, InsertEnrolment,
     InsertWallet, Disconnect, vars

\* Who comes to own more does so by a commit, and within the limit it had read.
Capped ==
    \A u \in Users, s \in Services : Owned(u, s)' # Owned(u, s) =>
      \E r \in Requests : /\ At(r, "commit") /\ request[r].user = u /\ request[r].s = s
                          /\ Cardinality(Owned(u, s)') <= request[r].max

LEMMA StepCapped ==
  ASSUME IInv, [Next]_vars
  PROVE  Capped
<1>1. CASE \A r \in Requests : ~ Commit(r)
  BY <1>1, OnlyCommits DEF Capped, Owned
<1>2. ASSUME NEW r \in Requests, Commit(r) PROVE Capped
  <2> SUFFICES ASSUME NEW u \in Users, NEW s \in Services, Owned(u, s)' # Owned(u, s)
               PROVE  /\ At(r, "commit") /\ request[r].user = u /\ request[r].s = s
                      /\ Cardinality(Owned(u, s)') <= request[r].max
    BY DEF Capped
  <2>1. PICK c, row : c = request[r] /\ row = c.row
    OBVIOUS
  <2>2. /\ c.at = "commit" /\ Founded(c) /\ c.max \in Limits
        /\ Owned(u, s)' = IF u = c.user /\ s = c.s
                          THEN Owned(u, s) \cup {row} ELSE Owned(u, s)
    BY <1>2, <2>1, CommitEffect
  <2>3. u = c.user /\ s = c.s /\ Owned(u, s)' = Owned(u, s) \cup {row}
    BY <2>2
  <2>4. Cardinality(Owned(u, s)) < c.max
    BY <2>2, <2>3 DEF Founded, Inserting
  <2>5. IsFiniteSet(Owned(u, s))
    BY FS_Subset DEF Owned, IInv, Typed
  <2>6. Cardinality(Owned(u, s)) \in Nat
    BY <2>5, FS_CardinalityType
  <2>7. Cardinality(Owned(u, s) \cup {row}) \in
          {Cardinality(Owned(u, s)), Cardinality(Owned(u, s)) + 1}
    BY <2>5, FS_AddElement
  <2>8. c.max \in Nat
    BY <2>2
  <2>9. Cardinality(Owned(u, s) \cup {row}) <= c.max
    BY <2>4, <2>6, <2>7, <2>8
  <2> QED
    BY <2>1, <2>2, <2>3, <2>9 DEF At
<1> QED
  BY <1>1, <1>2

\* The limit of the plan that a creation had read holds when it commits, however many
\* creations of the user race: the advisory lock of PlanLimitService is enough.
THEOREM CapKept == Spec => CapHolds
<1>1. IInv /\ [Next]_vars => [Capped]_vars
  BY StepCapped
<1> QED
  BY <1>1, Invariance, PTL DEF Spec, CapHolds, Capped

\* A commit founds one whole workspace under a slug that nobody has.
LEMMA StepFounds ==
  ASSUME IInv, [Next]_vars
  PROVE  [Book!Next]_workspaces
<1>1. CASE \A r \in Requests : ~ Commit(r)
  BY <1>1, OnlyCommits
<1>2. ASSUME NEW r \in Requests, Commit(r) PROVE Book!Next
  <2>1. PICK row : row = request[r].row
    OBVIOUS
  <2>2. /\ row \in Draft /\ row.wallet = row.currency /\ row.owner \in Users
        /\ row.service \in Services /\ workspaces' = workspaces \cup {row}
        /\ \A w \in workspaces : w.slug # row.slug
    BY <1>2, <2>1, CommitEffect
  <2>3. row \in Book!Workspace
    <3>1. row.wallet \in Currencies
      BY <2>2 DEF Draft
    <3> QED
      BY <2>2, <3>1 DEF Draft, Book!Workspace
  <2>4. Book!Found(row)
    BY <2>2 DEF Book!Found
  <2> QED
    BY <2>3, <2>4 DEF Book!Next
<1> QED
  BY <1>1, <1>2

\* createForService implements WorkspaceBook: others see the workspace, its owner, its
\* service and its wallet appear in one step.
THEOREM Refinement == Spec => ImplementsBook
<1>1. Init => Book!Init
  BY DEF Init, Book!Init
<1>2. IInv /\ [Next]_vars => [Book!Next]_workspaces
  BY StepFounds
<1> QED
  BY <1>1, <1>2, Invariance, PTL DEF Spec, ImplementsBook, Book!Spec

=============================================================================
