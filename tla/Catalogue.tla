------------------------------ MODULE Catalogue ------------------------------
(***************************************************************************)
(* What the platform sells: currencies, countries, services, their         *)
(* categories and the base rates per country (src/src/currencies,          *)
(* src/src/countries, src/src/services), as operators change it.           *)
(*                                                                         *)
(* An operation checks first and writes later, statement by statement,     *)
(* with no transaction around them; foreign keys and unique indexes are    *)
(* checked by each write.  save() writes every column of the copy, inserts *)
(* it again if the row is gone, and of a new row with a key that exists by *)
(* then makes an UPDATE, unless its own look at the table came too early.  *)
(*                                                                         *)
(* Rows are their keys; of their columns only those stay that others       *)
(* depend on.  "active" stands for the status beta as well.  `stale` is    *)
(* not in the code: a rate was saved for a category that was gone by then, *)
(* or the removal of a category cut off half way.                          *)
(***************************************************************************)
EXTENDS Integers, Sequences, FiniteSets

CONSTANTS
    Currencies, Countries, Services, Categories,
    Seeded,       \* the countries and services of reference.seed.ts
    SeedCurrency, \* the currency of these countries
    Requests,     \* concurrent requests
    MaxAsked,     \* bound on the operations that are asked for
    Nothing       \* no row

ASSUME SeededAssumption == Seeded \subseteq Countries \cup Services
ASSUME CurrencyAssumption == SeedCurrency \in Currencies
ASSUME MaxAskedAssumption == MaxAsked \in Nat

VARIABLES
    currency,     \* currencies: [active]
    country,      \* countries: [currency, active]
    service,      \* services: their status
    category,     \* service_categories: pairs of a service and a key
    rate,         \* service_country_rates: [currency, active]
    request,      \* what each request is in the middle of
    stale,        \* see above
    asked         \* how many operations were asked for

tables == <<currency, country, service, category, rate>>

Status == {"active", "coming_soon"}
CurrencyRow == [active : BOOLEAN]
CountryRow == [currency : Currencies, active : BOOLEAN]
RateRow == [currency : Currencies, active : BOOLEAN]
Cells == Services \X Countries \X Categories

ASSUME NothingAssumption ==
    Nothing \notin Requests \cup Services \cup Status \cup CurrencyRow \cup CountryRow

CategoriesOf(s) == {c \in Categories : <<s, c>> \in category}
PricedIn(s, k) == {c \in Categories : rate[<<s, k, c>>] # Nothing}

-----------------------------------------------------------------------------
(* Requests.  `s`, `k`, `c`, `m` are the service, country, category and    *)
(* currency it is about; `row` what it has read or will save.              *)

Blank == [at |-> "done", s |-> Nothing, k |-> Nothing, c |-> Nothing, m |-> Nothing,
          row |-> Nothing, cats |-> {}, next |-> "done",
          user |-> Nothing, slug |-> Nothing, max |-> Nothing, attempt |-> 0]

At(r, where) == request[r].at = where
Goto(r, where) == request' = [request EXCEPT ![r].at = where]
Finish(r) == request' = [request EXCEPT ![r] = Blank]
Cell(r) == <<request[r].s, request[r].k, request[r].c>>

Ask(r, d) ==
    /\ At(r, "done")
    /\ asked < MaxAsked
    /\ asked' = asked + 1
    /\ request' = [request EXCEPT ![r] = d]
    /\ UNCHANGED <<tables, stale>>

\* A step that only reads.
Reads == UNCHANGED <<tables, stale, asked>>

-----------------------------------------------------------------------------
(* Currencies and countries: never deleted, only switched off.             *)

CreateCurrency(r, m) ==
    /\ currency[m] = Nothing
    /\ Ask(r, [Blank EXCEPT !.at = "newCurrency", !.m = m])

\* A second creation changes the names at most.
SaveNewCurrency(r) ==
    LET m == request[r].m IN
    /\ At(r, "newCurrency")
    /\ currency' = [currency EXCEPT ![m] = IF @ = Nothing THEN [active |-> TRUE] ELSE @]
    /\ Finish(r)
    /\ UNCHANGED <<country, service, category, rate, stale, asked>>

UpdateCurrency(r, m, active) ==
    /\ currency[m] # Nothing
    /\ Ask(r, [Blank EXCEPT !.at = "saveCurrency", !.m = m, !.row = [active |-> active]])

SaveCurrency(r) ==
    /\ At(r, "saveCurrency")
    /\ currency' = [currency EXCEPT ![request[r].m] = request[r].row]
    /\ Finish(r)
    /\ UNCHANGED <<country, service, category, rate, stale, asked>>

CreateCountry(r, k, m) ==
    /\ country[k] = Nothing
    /\ Ask(r, [Blank EXCEPT !.at = "assertCurrency", !.next = "newCountry", !.k = k, !.m = m])

UpdateCountry(r, k, row) ==
    /\ country[k] # Nothing
    /\ Ask(r, [Blank EXCEPT !.k = k, !.m = row.currency, !.row = row, !.next = "saveCountry",
                 !.at = IF row.currency = country[k].currency
                        THEN "saveCountry" ELSE "assertCurrency"])

\* CurrenciesService.assertActive
AssertCurrency(r) ==
    LET m == request[r].m IN
    /\ At(r, "assertCurrency")
    /\ IF currency[m] # Nothing /\ currency[m].active
       THEN Goto(r, request[r].next) ELSE Finish(r)
    /\ Reads

\* isActive is not among the columns of a creation.
SaveNewCountry(r) ==
    LET d == request[r] IN
    /\ At(r, "newCountry")
    /\ \/ /\ country[d.k] = Nothing
          /\ country' = [country EXCEPT ![d.k] = [currency |-> d.m, active |-> TRUE]]
       \/ /\ country[d.k] # Nothing
          /\ country' \in {country, [country EXCEPT ![d.k].currency = d.m]}
    /\ Finish(r)
    /\ UNCHANGED <<currency, service, category, rate, stale, asked>>

SaveCountry(r) ==
    /\ At(r, "saveCountry")
    /\ country' = [country EXCEPT ![request[r].k] = request[r].row]
    /\ Finish(r)
    /\ UNCHANGED <<currency, service, category, rate, stale, asked>>

-----------------------------------------------------------------------------
(* Services.                                                               *)

CreateService(r, s, status) ==
    /\ service[s] = Nothing
    /\ Ask(r, [Blank EXCEPT !.at = "newService", !.s = s, !.row = status])

SaveNewService(r) ==
    LET d == request[r] IN
    /\ At(r, "newService")
    /\ \/ service[d.s] = Nothing /\ service' = [service EXCEPT ![d.s] = d.row]
       \/ service[d.s] # Nothing /\ service' \in {service, [service EXCEPT ![d.s] = d.row]}
    /\ Finish(r)
    /\ UNCHANGED <<currency, country, category, rate, stale, asked>>

UpdateService(r, s, status) ==
    /\ service[s] # Nothing
    /\ Ask(r, [Blank EXCEPT !.at = "saveService", !.s = s, !.row = status])

\* A service that was removed meanwhile is back, without its categories.
SaveService(r) ==
    /\ At(r, "saveService")
    /\ service' = [service EXCEPT ![request[r].s] = request[r].row]
    /\ Finish(r)
    /\ UNCHANGED <<currency, country, category, rate, stale, asked>>

RemoveService(r, s) ==
    /\ service[s] # Nothing
    /\ Ask(r, [Blank EXCEPT !.at = "deleteService", !.s = s])

\* Mutant of DeleteService: the keys of categories and rates do not cascade.
DeleteServiceOnly(r, held, referenced) ==
    LET s == request[r].s IN
    /\ At(r, "deleteService") /\ s \notin held
    /\ service' = [service EXCEPT ![s] = IF s \in referenced THEN @ ELSE Nothing]
    /\ Finish(r)
    /\ UNCHANGED <<currency, country, category, rate, stale, asked>>

\* ON DELETE CASCADE of categories and rates, RESTRICT of workspaces (`referenced`),
\* whose uncommitted rows make it wait (`held`).
DeleteService(r, held, referenced) ==
    LET s == request[r].s IN
    /\ At(r, "deleteService") /\ s \notin held
    /\ \/ /\ s \notin referenced
          /\ service' = [service EXCEPT ![s] = Nothing]
          /\ category' = {p \in category : p[1] # s}
          /\ rate' = [cell \in Cells |-> IF cell[1] = s THEN Nothing ELSE rate[cell]]
       \/ s \in referenced /\ UNCHANGED <<service, category, rate>>
    /\ Finish(r)
    /\ UNCHANGED <<currency, country, stale, asked>>

-----------------------------------------------------------------------------
(* Categories.                                                             *)

AddCategory(r, s, c) ==
    /\ service[s] # Nothing /\ <<s, c>> \notin category
    /\ Ask(r, [Blank EXCEPT !.at = "saveCategory", !.s = s, !.c = c])

UpdateCategory(r, s, c) ==
    /\ <<s, c>> \in category
    /\ Ask(r, [Blank EXCEPT !.at = "saveCategory", !.s = s, !.c = c])

\* The key of the service must still be there; a duplicate leaves the row that is.
SaveCategory(r) ==
    LET d == request[r] IN
    /\ At(r, "saveCategory")
    /\ category' = category \cup (IF service[d.s] = Nothing THEN {} ELSE {<<d.s, d.c>>})
    /\ Finish(r)
    /\ UNCHANGED <<currency, country, service, rate, stale, asked>>

RemoveCategory(r, s, c) ==
    /\ <<s, c>> \in category
    /\ Ask(r, [Blank EXCEPT !.at = "deleteCategory", !.s = s, !.c = c])

\* By the id it has read: a category that was removed and added again since is
\* another row and stays.  Rows are their keys here, so that it is left open which.
DeleteCategory(r) ==
    LET d == request[r] IN
    /\ At(r, "deleteCategory")
    /\ category' \in {category, category \ {<<d.s, d.c>>}}
    /\ Goto(r, "deleteRates")
    /\ UNCHANGED <<currency, country, service, rate, stale, asked>>

\* Mutant of DeleteRates: they are left to a cascade that there is not.
RatesCascade(r) ==
    /\ At(r, "deleteRates")
    /\ Finish(r)
    /\ UNCHANGED <<tables, stale, asked>>

DeleteRates(r) ==
    LET d == request[r] IN
    /\ At(r, "deleteRates")
    /\ rate' = [cell \in Cells |-> IF cell[1] = d.s /\ cell[3] = d.c
                                   THEN Nothing ELSE rate[cell]]
    /\ Finish(r)
    /\ UNCHANGED <<currency, country, service, category, stale, asked>>

-----------------------------------------------------------------------------
(* Rates.                                                                  *)

\* getServiceOrFail, assertCategory
UpsertRate(r, s, k, c, active) ==
    /\ <<s, c>> \in category
    /\ Ask(r, [Blank EXCEPT !.at = "rateCountry", !.s = s, !.k = k, !.c = c,
                            !.row = [active |-> active]])

\* getForLink: the rate is in the currency the country has now.
RateCountry(r) ==
    LET k == request[r].k IN
    /\ At(r, "rateCountry")
    /\ IF country[k] = Nothing THEN Finish(r)
       ELSE request' = [request EXCEPT ![r].at = "findRate", ![r].m = country[k].currency]
    /\ Reads

\* Whether the row will be inserted is decided here.
FindRate(r) ==
    /\ At(r, "findRate")
    /\ Goto(r, IF rate[Cell(r)] = Nothing THEN "insertRate" ELSE "saveRate")
    /\ Reads

\* An INSERT meets the key of the service and, if it is the second, the unique index.
SaveRate(r) ==
    LET d == request[r]
        kept == \/ service[d.s] = Nothing
                \/ d.at = "insertRate" /\ rate[Cell(r)] # Nothing
    IN  /\ d.at \in {"insertRate", "saveRate"}
        /\ \/ /\ ~ kept
              /\ rate' = [rate EXCEPT ![Cell(r)] =
                            [currency |-> d.m, active |-> d.row.active]]
              /\ stale' = (stale \/ <<d.s, d.c>> \notin category)
           \/ kept /\ UNCHANGED <<rate, stale>>
        /\ Finish(r)
        /\ UNCHANGED <<currency, country, service, category, asked>>

AddCountry(r, s, k) ==
    /\ CategoriesOf(s) # {}
    /\ Ask(r, [Blank EXCEPT !.at = "addCountry", !.s = s, !.k = k, !.cats = CategoriesOf(s)])

\* CountriesService.assertActive
AddCountryActive(r) ==
    LET k == request[r].k IN
    /\ At(r, "addCountry")
    /\ IF country[k] # Nothing /\ country[k].active
       THEN request' = [request EXCEPT ![r].at = "addUnpriced", ![r].m = country[k].currency]
       ELSE Finish(r)
    /\ Reads

AddCountryUnpriced(r) ==
    LET d == request[r] IN
    /\ At(r, "addUnpriced")
    /\ IF PricedIn(d.s, d.k) = {} THEN Goto(r, "addRates") ELSE Finish(r)
    /\ Reads

\* One transaction: all the rows or none.
SaveRates(r) ==
    LET d == request[r]
        kept == service[d.s] = Nothing \/ PricedIn(d.s, d.k) \cap d.cats # {}
    IN  /\ At(r, "addRates")
        /\ \/ /\ ~ kept
              /\ rate' = [cell \in Cells |->
                            IF cell[1] = d.s /\ cell[2] = d.k /\ cell[3] \in d.cats
                            THEN [currency |-> d.m, active |-> TRUE] ELSE rate[cell]]
              /\ stale' = (stale \/ ~ d.cats \subseteq CategoriesOf(d.s))
           \/ kept /\ UNCHANGED <<rate, stale>>
        /\ Finish(r)
        /\ UNCHANGED <<currency, country, service, category, asked>>

\* The row is found and deleted by its id, so that the later statement alone counts.
RemoveRate(s, k, c) ==
    /\ asked < MaxAsked
    /\ rate[<<s, k, c>>] # Nothing
    /\ rate' = [rate EXCEPT ![<<s, k, c>>] = Nothing]
    /\ asked' = asked + 1
    /\ UNCHANGED <<currency, country, service, category, request, stale>>

\* removeCountry counts the rows, then deletes those that are there.
RemoveCountry(r, s, k) ==
    /\ PricedIn(s, k) # {}
    /\ Ask(r, [Blank EXCEPT !.at = "deleteCountry", !.s = s, !.k = k])

DeleteCountryRates(r) ==
    LET d == request[r] IN
    /\ At(r, "deleteCountry")
    /\ rate' = [cell \in Cells |-> IF cell[1] = d.s /\ cell[2] = d.k
                                   THEN Nothing ELSE rate[cell]]
    /\ Finish(r)
    /\ UNCHANGED <<currency, country, service, category, stale, asked>>

-----------------------------------------------------------------------------
(* The seed, which may be run again at any time: rows that exist are left   *)
(* alone.  Currencies, countries and the plan are never deleted, so that    *)
(* only services, categories and rates may be missing.                      *)

SeedRow(cell) ==
    IF cell[1] \in Seeded /\ cell[2] \in Seeded
    THEN [currency |-> SeedCurrency, active |-> TRUE] ELSE Nothing

Seed(r) == Ask(r, [Blank EXCEPT !.at = "seedServices"])

SeedServices(r) ==
    /\ At(r, "seedServices")
    /\ service' = [s \in Services |-> IF s \in Seeded /\ service[s] = Nothing
                                      THEN "active" ELSE service[s]]
    /\ Goto(r, "seedCategories")
    /\ UNCHANGED <<currency, country, category, rate, stale, asked>>

\* A service that is gone again fails the statement, and the seed.
SeedCategories(r) ==
    /\ At(r, "seedCategories")
    /\ \/ /\ \A s \in Services \cap Seeded : service[s] # Nothing
          /\ category' = category \cup (Services \cap Seeded) \X Categories
          /\ Goto(r, "seedRates")
       \/ /\ \E s \in Services \cap Seeded : service[s] = Nothing
          /\ Finish(r) /\ UNCHANGED category
    /\ UNCHANGED <<currency, country, service, rate, stale, asked>>

SeedRates(r) ==
    LET missing == {cell \in Cells : rate[cell] = Nothing /\ SeedRow(cell) # Nothing} IN
    /\ At(r, "seedRates")
    /\ \/ /\ \A s \in Services \cap Seeded : service[s] # Nothing
          /\ rate' = [cell \in Cells |-> IF cell \in missing THEN SeedRow(cell) ELSE rate[cell]]
          /\ stale' = (stale \/ \E cell \in missing : <<cell[1], cell[3]>> \notin category)
       \/ /\ \E s \in Services \cap Seeded : service[s] = Nothing
          /\ UNCHANGED <<rate, stale>>
    /\ Finish(r)
    /\ UNCHANGED <<currency, country, service, category, asked>>

-----------------------------------------------------------------------------
\* What the first seed has left.
CatalogueInit ==
    /\ currency = [m \in Currencies |-> IF m = SeedCurrency THEN [active |-> TRUE] ELSE Nothing]
    /\ country = [k \in Countries |-> IF k \in Seeded
                    THEN [currency |-> SeedCurrency, active |-> TRUE] ELSE Nothing]
    /\ service = [s \in Services |-> IF s \in Seeded THEN "active" ELSE Nothing]
    /\ category = (Services \cap Seeded) \X Categories
    /\ rate = [cell \in Cells |-> SeedRow(cell)]
    /\ request = [r \in Requests |-> Blank]
    /\ stale = FALSE
    /\ asked = 0

\* An operator asks.
Operate(r) ==
    \/ Seed(r)
    \/ \E m \in Currencies : \/ CreateCurrency(r, m)
                             \/ \E active \in BOOLEAN : UpdateCurrency(r, m, active)
    \/ \E k \in Countries : \/ \E m \in Currencies : CreateCountry(r, k, m)
                            \/ \E row \in CountryRow : UpdateCountry(r, k, row)
    \/ \E s \in Services :
         \/ \E status \in Status : CreateService(r, s, status) \/ UpdateService(r, s, status)
         \/ RemoveService(r, s)
         \/ \E c \in Categories :
              AddCategory(r, s, c) \/ UpdateCategory(r, s, c) \/ RemoveCategory(r, s, c)
         \/ \E k \in Countries :
              \/ AddCountry(r, s, k) \/ RemoveCountry(r, s, k)
              \/ \E c \in Categories, active \in BOOLEAN : UpsertRate(r, s, k, c, active)

CatalogueStep(r, held, referenced) ==
    \/ SaveNewCurrency(r) \/ SaveCurrency(r)
    \/ AssertCurrency(r) \/ SaveNewCountry(r) \/ SaveCountry(r)
    \/ SaveNewService(r) \/ SaveService(r) \/ DeleteService(r, held, referenced)
    \/ SaveCategory(r) \/ DeleteCategory(r) \/ DeleteRates(r)
    \/ RateCountry(r) \/ FindRate(r) \/ SaveRate(r)
    \/ AddCountryActive(r) \/ AddCountryUnpriced(r) \/ SaveRates(r)
    \/ DeleteCountryRates(r)
    \/ SeedServices(r) \/ SeedCategories(r) \/ SeedRates(r)

\* The process or a connection dies between two statements.
CutOff(r) ==
    /\ ~ At(r, "done")
    /\ Finish(r)
    /\ stale' = (stale \/ At(r, "deleteRates"))
    /\ UNCHANGED <<tables, asked>>
=============================================================================
