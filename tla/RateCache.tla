------------------------------ MODULE RateCache ------------------------------
(***************************************************************************)
(* The cached resolution of a rate (pricing/rate-resolver.service.ts and   *)
(* rate-cache.service.ts) beside the writers of the rates it caches        *)
(* (services/service-pricing.service.ts, services.service.ts and           *)
(* customers-admin/workspace-rates.service.ts), for one (service, country, *)
(* category) cell.                                                         *)
(*                                                                         *)
(* PostgreSQL holds the truth: `states` is the sequence of the states the  *)
(* cell has been committed in, the last one being current.  Redis holds    *)
(* the version counter, the base entry all workspaces share and an         *)
(* override entry for each workspace.  An entry is the version it is       *)
(* stamped with and the place `at` of the state its value was read from.   *)
(*                                                                         *)
(* `announced` is not in the code: announced[v + 1] is the newest state    *)
(* whose writer had bumped the counter when it reached v.                  *)
(***************************************************************************)
EXTENDS Ladder, FiniteSets

CONSTANTS
    Workspaces,   \* workspaces that ask for prices and may have a ladder
    Readers,      \* concurrent calls of resolve
    Writers,      \* concurrent staff calls that change rates
    Bases,        \* prices of the country row
    Puts,         \* the bodies of PUT ladder calls: lists of rungs
    Qtys,         \* monthly volumes prices are asked for
    MaxStates,    \* bound on the commits
    NoEntry       \* the key is not in Redis

ASSUME WorkspacesAssumption == Workspaces # {}
ASSUME BasesAssumption == Bases \subseteq Nat /\ NoBase \notin Bases
ASSUME PutsAssumption == Puts \subseteq Seq(Rungs)
ASSUME QtysAssumption == Qtys \subseteq Nat

VARIABLES
    states,       \* every committed state of the cell, the current one last
    writer,       \* what each writer is in the middle of
    ratever,      \* the version counter
    announced,    \* see above
    baseEntry,    \* rate:base:...
    ovrEntry,     \* rate:ovr:..., by workspace
    reader        \* what each reader is in the middle of

dbVars == <<states, writer, ratever, announced>>
cacheVars == <<baseEntry, ovrEntry>>
vars == <<states, writer, ratever, announced, baseEntry, ovrEntry, reader>>

Cell == [base : Bases \cup {NoBase}, ladder : [Workspaces -> SUBSET Rungs]]
Entry == [v : Nat, at : Nat]
Idle == [at |-> "idle"]

Newest == Len(states)
Now == states[Newest]

-----------------------------------------------------------------------------
(* The writers.  Checks that turn a call away before it writes leave no    *)
(* trace and are left out.                                                 *)

Become(x, what) == writer' = [writer EXCEPT ![x] = what]

\* A commit; the writer goes on to announce it.
CommitCell(x, cell) ==
    /\ Newest < MaxStates
    /\ states' = Append(states, cell)
    /\ Become(x, [at |-> "bump", state |-> Newest + 1])
    /\ UNCHANGED <<ratever, announced, baseEntry, ovrEntry, reader>>

\* upsertRate, addCountry, removeRate and removeCountry leave the cell with a
\* price, or with no row, an unpriced or an inactive one.
SaveBase(x, base) ==
    /\ writer[x] = Idle
    /\ CommitCell(x, [Now EXCEPT !.base = base])

\* Mutant of DeleteRungs: no advisory lock.
DeleteUnlocked(x, w, list) ==
    /\ writer[x] = Idle
    /\ Accepted(list)
    /\ Become(x, [at |-> "insert", ws |-> w, rows |-> Now.ladder[w],
                  list |-> list])
    /\ UNCHANGED <<states, ratever, announced, baseEntry, ovrEntry, reader>>

\* replaceLadder, inside its transaction: the advisory lock of the cell, then
\* the DELETE of the rows that are there.
DeleteRungs(x, w, list) ==
    /\ writer[x] = Idle
    /\ Accepted(list)
    /\ \A y \in Writers : writer[y].at = "insert" => writer[y].ws # w
    /\ Become(x, [at |-> "insert", ws |-> w, rows |-> Now.ladder[w],
                  list |-> list])
    /\ UNCHANGED <<states, ratever, announced, baseEntry, ovrEntry, reader>>

\* uq_workspace_service_rate: a rung that the DELETE did not see is there with
\* the threshold of a new one.
Collides(x) ==
    \E a \in Now.ladder[writer[x].ws] \ writer[x].rows, b \in ToSet(writer[x].list) :
        a.minQty = b.minQty

\* ... then the INSERT of the new rungs, and COMMIT; or error 23505, which undoes
\* the DELETE and is answered LADDER_CONFLICT.
InsertRungs(x) ==
    /\ writer[x].at = "insert"
    /\ IF Collides(x)
         THEN /\ Become(x, Idle)
              /\ UNCHANGED <<states, ratever, announced, baseEntry, ovrEntry, reader>>
         ELSE CommitCell(x, [Now EXCEPT !.ladder[writer[x].ws] =
                               (@ \ writer[x].rows) \cup ToSet(writer[x].list)])

\* clearLadder: a DELETE of its own, which waits for a replace that has deleted
\* the same rows and then finds none (LADDER_NOT_FOUND).
ClearLadder(x, w) ==
    /\ writer[x] = Idle
    /\ Now.ladder[w] # {}
    /\ \A y \in Writers : writer[y].at = "insert" => writer[y].ws # w
    /\ CommitCell(x, [Now EXCEPT !.ladder[w] = {}])

\* removeCategory of services.service.ts deletes the rates of the category and
\* calls nobody.
RemoveCategory(x) ==
    /\ writer[x] = Idle
    /\ Newest < MaxStates
    /\ states' = Append(states, [Now EXCEPT !.base = NoBase])
    /\ UNCHANGED <<writer, ratever, announced, baseEntry, ovrEntry, reader>>

\* invalidate, after the commit.
Bump(x) ==
    /\ writer[x].at = "bump"
    /\ ratever' = ratever + 1
    /\ announced' = Append(announced,
                           IF writer[x].state > announced[ratever + 1]
                             THEN writer[x].state ELSE announced[ratever + 1])
    /\ Become(x, Idle)
    /\ UNCHANGED <<states, baseEntry, ovrEntry, reader>>

\* The process dies, or the database rolls back, or Redis is not there: what is
\* committed stays, and is not announced.
Crash(x) ==
    /\ writer[x] # Idle
    /\ Become(x, Idle)
    /\ UNCHANGED <<states, ratever, announced, baseEntry, ovrEntry, reader>>

-----------------------------------------------------------------------------
(* The time to live of the entries, 600 seconds.                           *)

\* Mutant of ExpireBase: the SET without EX.
KeepBase == baseEntry # NoEntry /\ UNCHANGED vars

ExpireBase ==
    /\ baseEntry # NoEntry
    /\ baseEntry' = NoEntry
    /\ UNCHANGED <<states, writer, ratever, announced, ovrEntry, reader>>

ExpireOvr(w) ==
    /\ ovrEntry[w] # NoEntry
    /\ ovrEntry' = [ovrEntry EXCEPT ![w] = NoEntry]
    /\ UNCHANGED <<states, writer, ratever, announced, baseEntry, reader>>

-----------------------------------------------------------------------------
(* resolve.  A reader keeps the version it started from and the states its *)
(* base and its rungs are from: 0 is none yet, and for the rungs of a hit  *)
(* no override.  A hit stays in view until the reader's next call.         *)

Blank == [pc |-> "done", ws |-> CHOOSE w \in Workspaces : TRUE, ver |-> 0,
          base |-> 0, rungs |-> 0]

Set(r, new) == /\ reader' = [reader EXCEPT ![r] = new]
               /\ UNCHANGED <<dbVars, cacheVars>>

BaseAt(i) == states[i].base
RungsAt(i, w) == IF i = 0 THEN {} ELSE states[i].ladder[w]
Fresh(r, entry) == entry # NoEntry /\ entry.v = reader[r].ver

\* A call begins with the version of the cell.
GetVersion(r, w) ==
    /\ reader[r].pc = "done"
    /\ Set(r, [Blank EXCEPT !.pc = "base", !.ws = w, !.ver = ratever])

\* Mutant of ReadBase: the base is used whatever its version.
ReadAnyBase(r) ==
    /\ reader[r].pc = "base"
    /\ Set(r, [reader[r] EXCEPT !.pc = "ovr",
                                !.base = IF baseEntry # NoEntry THEN baseEntry.at ELSE 0])

\* The two GETs go out together, over one connection and in this order.
ReadBase(r) ==
    /\ reader[r].pc = "base"
    /\ Set(r, [reader[r] EXCEPT !.pc = "ovr",
                                !.base = IF Fresh(r, baseEntry) THEN baseEntry.at ELSE 0])

\* Mutant of ReadOvr: the override is used whatever its version.
ReadAnyOvr(r) ==
    /\ reader[r].pc = "ovr"
    /\ LET d == reader[r]
           ovr == ovrEntry[d.ws]
       IN  IF d.base # 0
             THEN Set(r, [d EXCEPT !.pc = "done",
                                   !.rungs = IF ovr # NoEntry THEN ovr.at ELSE 0])
             ELSE Set(r, [d EXCEPT !.pc = "load"])

\* A fresh base is a hit, with the override if that is fresh and with no rungs
\* if it is not; anything else is a miss.
ReadOvr(r) ==
    /\ reader[r].pc = "ovr"
    /\ LET d == reader[r]
           ovr == ovrEntry[d.ws]
       IN  IF d.base # 0
             THEN Set(r, [d EXCEPT !.pc = "done",
                                   !.rungs = IF Fresh(r, ovr) THEN ovr.at ELSE 0])
             ELSE Set(r, [d EXCEPT !.pc = "load"])

\* loadCell: two queries on two connections, in either order.
LoadBase(r) ==
    /\ reader[r].pc = "load"
    /\ reader[r].base = 0
    /\ Set(r, [reader[r] EXCEPT !.base = Newest])

LoadRungs(r) ==
    /\ reader[r].pc = "load"
    /\ reader[r].rungs = 0
    /\ Set(r, [reader[r] EXCEPT !.rungs = Newest])

\* RATE_NOT_CONFIGURED is thrown before anything is cached.
PriceLoaded(r) ==
    /\ reader[r].pc = "load"
    /\ reader[r].base # 0 /\ reader[r].rungs # 0
    /\ Set(r, IF BaseAt(reader[r].base) = NoBase
                THEN Blank ELSE [reader[r] EXCEPT !.pc = "putBase"])

\* Mutant of PutBase: the entry is stamped with the version of the moment.
PutBaseNow(r) ==
    /\ reader[r].pc = "putBase"
    /\ baseEntry' = [v |-> ratever, at |-> reader[r].base]
    /\ reader' = [reader EXCEPT ![r] =
                    IF RungsAt(@.rungs, @.ws) = {} THEN Blank ELSE [@ EXCEPT !.pc = "putOvr"]]
    /\ UNCHANGED <<dbVars, ovrEntry>>

\* Mutant of PutBase: the value is written without its version.
PutBaseUnstamped(r) ==
    /\ reader[r].pc = "putBase"
    /\ baseEntry' = [at |-> reader[r].base]
    /\ reader' = [reader EXCEPT ![r] =
                    IF RungsAt(@.rungs, @.ws) = {} THEN Blank ELSE [@ EXCEPT !.pc = "putOvr"]]
    /\ UNCHANGED <<dbVars, ovrEntry>>

PutBase(r) ==
    /\ reader[r].pc = "putBase"
    /\ baseEntry' = [v |-> reader[r].ver, at |-> reader[r].base]
    /\ reader' = [reader EXCEPT ![r] =
                    IF RungsAt(@.rungs, @.ws) = {} THEN Blank ELSE [@ EXCEPT !.pc = "putOvr"]]
    /\ UNCHANGED <<dbVars, ovrEntry>>

PutOvr(r) ==
    /\ reader[r].pc = "putOvr"
    /\ ovrEntry' = [ovrEntry EXCEPT ![reader[r].ws] =
                      [v |-> reader[r].ver, at |-> reader[r].rungs]]
    /\ reader' = [reader EXCEPT ![r] = Blank]
    /\ UNCHANGED <<dbVars, baseEntry>>

\* The request is cut off; its caller gets no price.
GiveUp(r) ==
    /\ reader[r].pc # "done"
    /\ Set(r, Blank)

-----------------------------------------------------------------------------
Init ==
    /\ \E base \in Bases \cup {NoBase} :
         states = << [base |-> base, ladder |-> [w \in Workspaces |-> {}]] >>
    /\ writer = [x \in Writers |-> Idle]
    /\ ratever = 0
    /\ announced = <<1>>
    /\ baseEntry = NoEntry
    /\ ovrEntry = [w \in Workspaces |-> NoEntry]
    /\ reader = [r \in Readers |-> Blank]

Write(x) ==
    \/ \E base \in Bases \cup {NoBase} : SaveBase(x, base)
    \/ \E w \in Workspaces :
         \/ \E list \in Puts : DeleteRungs(x, w, list)
         \/ ClearLadder(x, w)
    \/ RemoveCategory(x)

Resolve(r) ==
    \/ ReadBase(r) \/ ReadOvr(r)
    \/ LoadBase(r) \/ LoadRungs(r) \/ PriceLoaded(r) \/ PutBase(r) \/ PutOvr(r)

Expire == ExpireBase \/ \E w \in Workspaces : ExpireOvr(w)

Next ==
    \/ \E x \in Writers : Write(x) \/ InsertRungs(x) \/ Bump(x) \/ Crash(x)
    \/ Expire
    \/ \E r \in Readers :
         \/ \E w \in Workspaces : GetVersion(r, w)
         \/ Resolve(r)
         \/ GiveUp(r)

Spec == Init /\ [][Next]_vars
\* Requests run on, and Redis drops an entry when its time has come.
FairSpec == Spec /\ WF_vars(ExpireBase)
                 /\ \A w \in Workspaces : WF_vars(ExpireOvr(w))
                 /\ \A r \in Readers : WF_vars(Resolve(r))

-----------------------------------------------------------------------------
(* What is checked of it.                                                  *)

ReaderRow == [pc : {"done", "base", "ovr", "load", "putBase", "putOvr"},
              ws : Workspaces, ver : Nat, base : Nat, rungs : Nat]
WriterRow == {Idle}
             \cup [at : {"bump"}, state : Nat]
             \cup [at : {"insert"}, ws : Workspaces, rows : SUBSET Rungs, list : Puts]

\* The types of the variables.
TypeOK ==
    /\ states \in Seq(Cell)
    /\ writer \in [Writers -> WriterRow]
    /\ ratever \in Nat
    /\ announced \in Seq(Nat)
    /\ baseEntry \in Entry \cup {NoEntry}
    /\ ovrEntry \in [Workspaces -> Entry \cup {NoEntry}]
    /\ reader \in [Readers -> ReaderRow]

\* A state that a call which started at version v may have read.
Since(v, at) == v <= ratever /\ announced[v + 1] <= at /\ at <= Newest

\* "A slow read-through can't repopulate stale data" (rate-cache.service.ts):
\* an entry stamped with version v holds a value that was read after every
\* write announced up to v, and is one worth caching.
EntriesKeepTheirVersion ==
    /\ baseEntry # NoEntry =>
         Since(baseEntry.v, baseEntry.at) /\ BaseAt(baseEntry.at) # NoBase
    /\ \A w \in Workspaces : ovrEntry[w] # NoEntry =>
         Since(ovrEntry[w].v, ovrEntry[w].at) /\ RungsAt(ovrEntry[w].at, w) # {}

\* The reader has all it needs to answer.
Priced(r) == \/ reader[r].pc \in {"putBase", "putOvr"}
             \/ reader[r].pc = "done" /\ reader[r].base # 0

\* No price is made from a base or from rungs that a write announced before the
\* call asked for the version has replaced, cached or not.
NoStalePrice ==
    \A r \in Readers : Priced(r) =>
        /\ Since(reader[r].ver, reader[r].base)
        /\ reader[r].rungs # 0 => Since(reader[r].ver, reader[r].rungs)

WholeLadders == {{}} \cup {ToSet(list) : list \in {l \in Puts : Accepted(l)}}

StatesAreWhole ==
    \A i \in 1 .. Newest, w \in Workspaces : states[i].ladder[w] \in WholeLadders

\* A ladder is one accepted PUT, whole, or nothing: concurrent PUTs and DELETEs of
\* a cell never merge, and "delete+insert can't interleave" (workspace-rates.service.ts),
\* so that no PUT meets the unique index for the sake of another.
LadderIsOnePut ==
    /\ StatesAreWhole
    /\ \A x \in Writers : writer[x].at = "insert" => ~ Collides(x)

\* A hit on the base, without an override that is fresh.
Missed(r) == reader[r].pc = "done" /\ reader[r].base # 0 /\ reader[r].rungs = 0

\* The rows of the cell, as they were at some time since the call asked for the
\* version, make this price.  loadCell reads the base and the rungs apart, and
\* they are entries apart, so each has a time of its own.
RightSince(r, qty, price) ==
    \E i, j \in 1 .. Newest :
        /\ Since(reader[r].ver, i) /\ Since(reader[r].ver, j)
        /\ BaseAt(i) # NoBase
        /\ IsPrice(price, BaseAt(i), RungsAt(j, reader[r].ws), qty)

\* Every price is the one of the two-tier rule on rows that no write announced
\* before the call had replaced, "never a silent free send" without a base; a call
\* that missed the override has the price of the base, which is right but for that.
PriceFollowsTheRule ==
    \A r \in Readers, qty \in Qtys : Priced(r) =>
        LET base  == BaseAt(reader[r].base)
            price == ResolveCell(base, RungsAt(reader[r].rungs, reader[r].ws), qty)
        IN  \/ RightSince(r, qty, price)
            \/ /\ Missed(r)
               /\ price = [tier |-> 2, sell |-> base] /\ base # NoBase
               /\ Since(reader[r].ver, reader[r].base)

\* "A fresh base lets us trust an ovr miss as 'no override'"
\* (rate-resolver.service.ts:52): who missed the override had none, at some time
\* since the call asked for the version.
MissMeansNoOverride ==
    \A r \in Readers : Missed(r) =>
        \E j \in 1 .. Newest :
            Since(reader[r].ver, j) /\ RungsAt(j, reader[r].ws) = {}

\* What the proofs add to the invariants above.  The counters stay in step:
CountersAgree ==
    /\ Newest > 0
    /\ Len(announced) = ratever + 1
    /\ \A i \in 1 .. Len(announced) : announced[i] \in 1 .. Newest
    /\ \A x \in Writers : writer[x].at = "bump" => writer[x].state \in 1 .. Newest

\* a reader carries nothing older than its version, and caches what is there;
OnTime(d) ==
    /\ d.ver <= ratever
    /\ d.base # 0 => Since(d.ver, d.base)
    /\ d.rungs # 0 => Since(d.ver, d.rungs)
    /\ d.pc \in {"ovr", "done"} /\ d.base # 0 => BaseAt(d.base) # NoBase
    /\ d.pc \in {"putBase", "putOvr"} =>
         d.base # 0 /\ d.rungs # 0 /\ BaseAt(d.base) # NoBase
    /\ d.pc = "putOvr" => RungsAt(d.rungs, d.ws) # {}
ReadersOnTime == \A r \in Readers : OnTime(reader[r])

\* and under the advisory lock the rows that were deleted are all there are, to
\* make way for a list that passed the validator.
OneReplaceAtATime ==
    \A x \in Writers : writer[x].at = "insert" =>
        /\ writer[x].rows = Now.ladder[writer[x].ws]
        /\ Accepted(writer[x].list)
        /\ \A y \in Writers \ {x} :
             writer[y].at = "insert" => writer[y].ws # writer[x].ws

\* The inductive invariant.
IInv ==
    /\ TypeOK
    /\ CountersAgree
    /\ EntriesKeepTheirVersion
    /\ ReadersOnTime
    /\ StatesAreWhole
    /\ OneReplaceAtATime

\* The TTL "bounds drift" (rate-cache.service.ts): once the rates are left
\* alone, what is cached and would be trusted becomes the truth and stays it,
\* even if a write was never announced.
Trusted(entry) == entry # NoEntry /\ entry.v = ratever
DriftIsBounded ==
    <>[](/\ Trusted(baseEntry) => BaseAt(baseEntry.at) = Now.base
         /\ \A w \in Workspaces :
              Trusted(ovrEntry[w]) => RungsAt(ovrEntry[w].at, w) = Now.ladder[w])
=============================================================================
