--------------------------- MODULE RateCacheProofs ---------------------------
(***************************************************************************)
(* Proofs about RateCache, for any number of readers, writers, workspaces  *)
(* and commits.  The steps are grouped by what they touch: the committed   *)
(* states grow (CommitInv), the counter moves (BumpInv), a writer starts   *)
(* or dies (WriterInv), an entry goes (ExpireInv), and a reader moves on   *)
(* (ReaderInv) or fills an entry (PutInv).                                 *)
(***************************************************************************)
EXTENDS RateCache, LadderProofs, TLAPS

USE WorkspacesAssumption, BasesAssumption, PutsAssumption, QtysAssumption

\* The shape of what a writer may be in the middle of.
LEMMA WriterShape ==
  ASSUME NEW row \in WriterRow
  PROVE  /\ row = Idle \/ row.at = "bump" \/ row.at = "insert"
         /\ row.at = "bump" => row \in [at : {"bump"}, state : Nat]
         /\ row.at = "insert" =>
              row \in [at : {"insert"}, ws : Workspaces, rows : SUBSET Rungs, list : Puts]
         /\ row = Idle => row.at = "idle"
  BY DEF WriterRow, Idle

\* The rungs of a PUT are rungs.
LEMMA PutRows == \A list \in Puts : ToSet(list) \subseteq Rungs
<1> SUFFICES ASSUME NEW list \in Puts PROVE ToSet(list) \subseteq Rungs
  OBVIOUS
<1>1. list \in Seq(Rungs)
  OBVIOUS
<1> QED
  BY <1>1 DEF ToSet

\* A state read before a commit stays what it was.
LEMMA AppendStates ==
  ASSUME NEW cell \in Cell, states \in Seq(Cell), states' = Append(states, cell)
  PROVE  /\ states' \in Seq(Cell)
         /\ Newest' = Newest + 1
         /\ Now' = cell
         /\ \A i \in 1 .. Newest : states'[i] = states[i]
         /\ Newest \in Nat
  BY DEF Newest, Now

\* What a call may have read it may still have read after a commit or a bump.
LEMMA SinceStays ==
  ASSUME CountersAgree, ratever \in Nat, announced \in Seq(Nat), Newest \in Nat,
         Newest' \in Nat, Newest' >= Newest,
         \/ announced' = announced /\ ratever' = ratever
         \/ /\ \E n \in Nat : announced' = Append(announced, n)
            /\ ratever' = ratever + 1,
         NEW v \in Nat, NEW at \in Nat, Since(v, at)
  PROVE  Since(v, at)' /\ at \in 1 .. Newest
<1>1. /\ v + 1 \in 1 .. Len(announced)
      /\ announced[v + 1] \in 1 .. Newest
      /\ announced[v + 1] <= at /\ at <= Newest
  BY DEF Since, CountersAgree
<1>2. announced'[v + 1] = announced[v + 1] /\ v <= ratever'
  <2>0. v <= ratever
    BY DEF Since
  <2>1. CASE announced' = announced /\ ratever' = ratever
    BY <2>0, <2>1
  <2>2. CASE (\E n \in Nat : announced' = Append(announced, n)) /\ ratever' = ratever + 1
    <3>1. PICK n \in Nat : announced' = Append(announced, n)
      BY <2>2
    <3> QED
      BY <1>1, <2>0, <2>2, <3>1
  <2> QED
    BY <2>1, <2>2
<1>3. v <= ratever' /\ announced'[v + 1] <= at /\ at <= Newest'
  BY <1>1, <1>2
<1>4. at \in 1 .. Newest
  BY <1>1
<1>5. Since(v, at)'
  BY <1>3 DEF Since
<1> QED
  BY <1>4, <1>5

LEMMA InitInv == Init => IInv
<1> SUFFICES ASSUME Init PROVE IInv
  OBVIOUS
<1>1. PICK base \in Bases \cup {NoBase} :
        states = << [base |-> base, ladder |-> [w \in Workspaces |-> {}]] >>
  BY DEF Init
<1>2. /\ states \in Seq(Cell) /\ Newest = 1
      /\ states[1] = [base |-> base, ladder |-> [w \in Workspaces |-> {}]]
      /\ Now = states[1]
  BY <1>1 DEF Cell, Newest, Now
<1>3. /\ \A r \in Readers : reader[r] = Blank
      /\ \A x \in Writers : writer[x] = Idle
      /\ reader = [r \in Readers |-> Blank]
      /\ writer = [x \in Writers |-> Idle]
  BY DEF Init
<1>4. Blank \in ReaderRow
  BY DEF Blank, ReaderRow
<1>5. TypeOK
  BY <1>2, <1>3, <1>4 DEF Init, TypeOK, WriterRow
<1>6. CountersAgree
  BY <1>2, <1>3 DEF Init, CountersAgree, Idle
<1>7. EntriesKeepTheirVersion
  BY DEF Init, EntriesKeepTheirVersion
<1>8. ReadersOnTime
  BY <1>3 DEF Init, ReadersOnTime, OnTime, Blank
<1>9. StatesAreWhole /\ OneReplaceAtATime
  BY <1>2, <1>3 DEF StatesAreWhole, WholeLadders, OneReplaceAtATime, Idle
<1> QED
  BY <1>5, <1>6, <1>7, <1>8, <1>9 DEF IInv

-----------------------------------------------------------------------------
(* The entries and the readers, when a writer changes the states or the    *)
(* counter and leaves them alone.                                          *)

LEMMA CachedStays ==
  ASSUME IInv, UNCHANGED <<baseEntry, ovrEntry, reader>>,
         Newest' \in Nat, Newest' >= Newest,
         \A i \in 1 .. Newest : states'[i] = states[i],
         \/ announced' = announced /\ ratever' = ratever
         \/ /\ \E n \in Nat : announced' = Append(announced, n)
            /\ ratever' = ratever + 1
  PROVE  EntriesKeepTheirVersion' /\ ReadersOnTime'
<1>1. /\ Newest \in Nat /\ ratever \in Nat /\ announced \in Seq(Nat)
      /\ ovrEntry \in [Workspaces -> Entry \cup {NoEntry}]
      /\ baseEntry \in Entry \cup {NoEntry}
      /\ reader \in [Readers -> ReaderRow]
      /\ CountersAgree
  BY DEF IInv, TypeOK, Newest
<1>2. \A v \in Nat, at \in Nat : Since(v, at) => Since(v, at)' /\ at \in 1 .. Newest
  BY <1>1, SinceStays
<1>3. \A at \in 1 .. Newest : /\ BaseAt(at)' = BaseAt(at)
                              /\ \A w \in Workspaces : RungsAt(at, w)' = RungsAt(at, w)
  BY DEF BaseAt, RungsAt
<1>4. EntriesKeepTheirVersion'
  <2>1. baseEntry' # NoEntry =>
          (Since(baseEntry.v, baseEntry.at) /\ BaseAt(baseEntry.at) # NoBase)'
    <3> SUFFICES ASSUME baseEntry # NoEntry
                 PROVE  (Since(baseEntry.v, baseEntry.at) /\ BaseAt(baseEntry.at) # NoBase)'
      OBVIOUS
    <3>1. baseEntry.v \in Nat /\ baseEntry.at \in Nat
      BY <1>1 DEF Entry
    <3>2. Since(baseEntry.v, baseEntry.at) /\ BaseAt(baseEntry.at) # NoBase
      BY DEF IInv, EntriesKeepTheirVersion
    <3> QED
      BY <1>2, <1>3, <3>1, <3>2
  <2>2. ASSUME NEW w \in Workspaces, ovrEntry[w] # NoEntry
        PROVE  (Since(ovrEntry[w].v, ovrEntry[w].at) /\ RungsAt(ovrEntry[w].at, w) # {})'
    <3>1. ovrEntry[w].v \in Nat /\ ovrEntry[w].at \in Nat
      BY <1>1, <2>2 DEF Entry
    <3>2. Since(ovrEntry[w].v, ovrEntry[w].at) /\ RungsAt(ovrEntry[w].at, w) # {}
      BY <2>2 DEF IInv, EntriesKeepTheirVersion
    <3> QED
      BY <1>2, <1>3, <3>1, <3>2
  <2> QED
    BY <2>1, <2>2 DEF EntriesKeepTheirVersion
<1>5. ReadersOnTime'
  <2> SUFFICES ASSUME NEW r \in Readers
               PROVE  OnTime(reader[r])'
    BY DEF ReadersOnTime
  <2>1. /\ reader[r].ver \in Nat /\ reader[r].base \in Nat
        /\ reader[r].rungs \in Nat /\ reader[r].ws \in Workspaces
    BY <1>1 DEF ReaderRow
  <2>2. OnTime(reader[r])
    BY DEF IInv, ReadersOnTime
  <2>3. reader[r].ver <= ratever'
    BY <1>1, <2>1, <2>2 DEF OnTime
  <2> QED
    BY <1>2, <1>3, <2>1, <2>2, <2>3 DEF OnTime
<1> QED
  BY <1>4, <1>5

-----------------------------------------------------------------------------
(* The writers.                                                            *)

\* The states grow by one; writers that are replacing a ladder find theirs as
\* it was.
LEMMA CommitInv ==
  ASSUME IInv, NEW cell \in Cell, states' = Append(states, cell),
         UNCHANGED <<ratever, announced, baseEntry, ovrEntry, reader>>,
         writer' \in [Writers -> WriterRow],
         \A w \in Workspaces : cell.ladder[w] \in WholeLadders,
         \A y \in Writers : writer'[y].at = "bump" => writer'[y].state \in 1 .. Newest + 1,
         \A y \in Writers : writer'[y].at = "insert" =>
           /\ writer'[y] = writer[y]
           /\ cell.ladder[writer[y].ws] = Now.ladder[writer[y].ws]
  PROVE  IInv'
<1>1. /\ states' \in Seq(Cell) /\ Newest' = Newest + 1 /\ Now' = cell
      /\ \A i \in 1 .. Newest : states'[i] = states[i]
      /\ Newest \in Nat
  BY AppendStates DEF IInv, TypeOK
<1>2. TypeOK'
  BY <1>1 DEF IInv, TypeOK
<1>3. CountersAgree'
  BY <1>1 DEF IInv, CountersAgree
<1>4. EntriesKeepTheirVersion' /\ ReadersOnTime'
  <2>1. /\ Newest' \in Nat /\ Newest' >= Newest
    BY <1>1
  <2>2. announced' = announced /\ ratever' = ratever
    OBVIOUS
  <2> QED
    BY <1>1, <2>1, <2>2, CachedStays
<1>5. StatesAreWhole'
  <2> SUFFICES ASSUME NEW i \in 1 .. Newest', NEW w \in Workspaces
               PROVE  states'[i].ladder[w] \in WholeLadders
    BY DEF StatesAreWhole
  <2>1. CASE i \in 1 .. Newest
    <3>1. states[i].ladder[w] \in WholeLadders
      BY <2>1 DEF IInv, StatesAreWhole
    <3>2. states'[i] = states[i]
      BY <1>1, <2>1
    <3> QED
      BY <3>1, <3>2
  <2>2. CASE i = Newest + 1
    <3>1. i = Newest'
      BY <1>1, <2>2
    <3>2. states'[i] = Now'
      BY <3>1 DEF Now
    <3> QED
      BY <1>1, <3>2
  <2>3. Newest' = Newest + 1 /\ Newest \in Nat
    BY <1>1
  <2>4. i \in 1 .. Newest \/ i = Newest + 1
    BY <2>3
  <2> QED
    BY <2>1, <2>2, <2>4
<1>6. OneReplaceAtATime'
  BY <1>1 DEF IInv, OneReplaceAtATime
<1> QED
  BY <1>2, <1>3, <1>4, <1>5, <1>6 DEF IInv

\* The current state is a cell like every other.
LEMMA NowType ==
  IInv => /\ Now \in Cell /\ Newest \in Nat
          /\ \A w \in Workspaces :
               Now.ladder[w] \in WholeLadders /\ Now.ladder[w] \subseteq Rungs
<1> SUFFICES ASSUME IInv
             PROVE  /\ Now \in Cell /\ Newest \in Nat
                    /\ \A w \in Workspaces : Now.ladder[w] \in WholeLadders /\ Now.ladder[w] \subseteq Rungs
  OBVIOUS
<1>1. states \in Seq(Cell) /\ Newest \in 1 .. Len(states) /\ Newest \in Nat
  BY DEF IInv, TypeOK, CountersAgree, Newest
<1>2. Now \in Cell
  BY <1>1 DEF Now
<1>3. \A w \in Workspaces : Now.ladder[w] \in WholeLadders
  BY <1>1 DEF Now, IInv, StatesAreWhole
<1> QED
  BY <1>1, <1>2, <1>3 DEF Cell

\* The writer that commits goes on to "bump", everybody else stays.
LEMMA CommitCellInv ==
  ASSUME IInv, NEW x \in Writers, NEW cell \in Cell, CommitCell(x, cell),
         \A w \in Workspaces : cell.ladder[w] \in WholeLadders,
         \A y \in Writers \ {x} : writer[y].at = "insert" =>
           cell.ladder[writer[y].ws] = Now.ladder[writer[y].ws]
  PROVE  IInv'
<1>1. /\ Newest \in Nat
      /\ writer' = [writer EXCEPT ![x] = [at |-> "bump", state |-> Newest + 1]]
      /\ writer \in [Writers -> WriterRow]
  BY NowType DEF IInv, TypeOK, CommitCell, Become
<1>2. writer' \in [Writers -> WriterRow]
  BY <1>1 DEF WriterRow
<1>3. /\ \A y \in Writers : writer'[y].at = "bump" => writer'[y].state \in 1 .. Newest + 1
      /\ \A y \in Writers : writer'[y].at = "insert" => y # x /\ writer'[y] = writer[y]
  BY <1>1 DEF IInv, CountersAgree
<1>4. /\ states' = Append(states, cell)
      /\ UNCHANGED <<ratever, announced, baseEntry, ovrEntry, reader>>
  BY DEF CommitCell, IInv, TypeOK
<1> QED
  BY <1>2, <1>3, <1>4, CommitInv

LEMMA SaveBaseInv ==
  ASSUME IInv, NEW x \in Writers, NEW base \in Bases \cup {NoBase}, SaveBase(x, base)
  PROVE  IInv'
<1> DEFINE cell == [Now EXCEPT !.base = base]
<1>1. cell \in Cell /\ cell.ladder = Now.ladder
  BY NowType DEF Cell
<1>2. CommitCell(x, cell)
  BY DEF SaveBase
<1> QED
  BY <1>1, <1>2, NowType, CommitCellInv

LEMMA ClearLadderInv ==
  ASSUME IInv, NEW x \in Writers, NEW w \in Workspaces, ClearLadder(x, w)
  PROVE  IInv'
<1> DEFINE cell == [Now EXCEPT !.ladder[w] = {}]
<1>1. /\ cell \in Cell
      /\ \A v \in Workspaces : cell.ladder[v] = IF v = w THEN {} ELSE Now.ladder[v]
  BY NowType DEF Cell
<1>2. /\ CommitCell(x, cell)
      /\ \A y \in Writers : writer[y].at = "insert" => writer[y].ws # w
  BY DEF ClearLadder
<1>3. \A y \in Writers : writer[y].at = "insert" => writer[y].ws \in Workspaces
  BY WriterShape DEF IInv, TypeOK
<1>4. \A y \in Writers \ {x} : writer[y].at = "insert" =>
        cell.ladder[writer[y].ws] = Now.ladder[writer[y].ws]
  BY <1>1, <1>2, <1>3
<1>5. \A v \in Workspaces : cell.ladder[v] \in WholeLadders
  BY <1>1, NowType DEF WholeLadders
<1> HIDE DEF cell
<1> QED
  BY <1>1, <1>2, <1>4, <1>5, CommitCellInv

\* Under the advisory lock the unique index never has to refuse a rung.
LEMMA NoCollision ==
  IInv => \A x \in Writers : writer[x].at = "insert" => ~ Collides(x)
  BY DEF IInv, OneReplaceAtATime, Collides

LEMMA InsertRungsInv ==
  ASSUME IInv, NEW x \in Writers, InsertRungs(x)
  PROVE  IInv'
<1> DEFINE w == writer[x].ws
           rungs == (Now.ladder[w] \ writer[x].rows) \cup ToSet(writer[x].list)
           cell == [Now EXCEPT !.ladder[w] = rungs]
<1>0. writer[x].at = "insert" /\ ~ Collides(x)
  BY NoCollision DEF InsertRungs
<1>1. writer[x].at = "insert" /\ CommitCell(x, cell)
  BY <1>0 DEF InsertRungs
<1>2. \A y \in Writers : writer[y].at = "insert" =>
        writer[y].ws \in Workspaces /\ writer[y].list \in Puts
  BY WriterShape DEF IInv, TypeOK
<1>3. rungs = ToSet(writer[x].list) /\ rungs \subseteq Rungs
  BY <1>1, <1>2, PutRows DEF IInv, OneReplaceAtATime
<1>4. rungs \in WholeLadders
  BY <1>1, <1>2, <1>3 DEF WholeLadders, IInv, OneReplaceAtATime
<1> HIDE DEF rungs
<1>5. /\ cell \in Cell
      /\ \A v \in Workspaces : cell.ladder[v] = IF v = w THEN rungs ELSE Now.ladder[v]
  BY <1>1, <1>2, <1>3, NowType DEF Cell
<1>6. \A y \in Writers \ {x} : writer[y].at = "insert" => writer[y].ws # w
  BY <1>1 DEF IInv, OneReplaceAtATime
<1>7. \A y \in Writers \ {x} : writer[y].at = "insert" =>
        cell.ladder[writer[y].ws] = Now.ladder[writer[y].ws]
  BY <1>2, <1>5, <1>6
<1>8. \A v \in Workspaces : cell.ladder[v] \in WholeLadders
  BY <1>4, <1>5, NowType
<1> HIDE DEF cell
<1> QED
  BY <1>1, <1>5, <1>7, <1>8, CommitCellInv

LEMMA RemoveCategoryInv ==
  ASSUME IInv, NEW x \in Writers, RemoveCategory(x)
  PROVE  IInv'
<1> DEFINE cell == [Now EXCEPT !.base = NoBase]
<1>1. cell \in Cell /\ cell.ladder = Now.ladder
  BY NowType DEF Cell
<1>2. /\ states' = Append(states, cell)
      /\ UNCHANGED <<writer, ratever, announced, baseEntry, ovrEntry, reader>>
  BY NowType DEF RemoveCategory
<1>3. writer' \in [Writers -> WriterRow]
  BY <1>2 DEF IInv, TypeOK
<1>4. \A y \in Writers : writer'[y].at = "bump" => writer'[y].state \in 1 .. Newest + 1
  BY <1>2, NowType DEF IInv, CountersAgree
<1>5. \A v \in Workspaces : cell.ladder[v] \in WholeLadders
  BY <1>1, NowType
<1> HIDE DEF cell
<1> QED
  BY <1>1, <1>2, <1>3, <1>4, <1>5, CommitInv

\* The counter moves up to announce a state.
LEMMA BumpInv ==
  ASSUME IInv, NEW x \in Writers, Bump(x)
  PROVE  IInv'
<1> DEFINE newest == IF writer[x].state > announced[ratever + 1]
                       THEN writer[x].state ELSE announced[ratever + 1]
<1>1. /\ announced \in Seq(Nat) /\ ratever \in Nat /\ Newest \in Nat
      /\ Len(announced) = ratever + 1
      /\ \A i \in 1 .. Len(announced) : announced[i] \in 1 .. Newest
      /\ writer \in [Writers -> WriterRow]
  BY NowType DEF IInv, TypeOK, CountersAgree
<1>2. writer[x].state \in 1 .. Newest
  BY DEF IInv, CountersAgree, Bump
<1>3. newest \in 1 .. Newest
  BY <1>1, <1>2
<1>4. /\ ratever' = ratever + 1 /\ announced' = Append(announced, newest)
      /\ UNCHANGED <<states, baseEntry, ovrEntry, reader>>
      /\ writer' = [writer EXCEPT ![x] = Idle]
  BY DEF Bump, Become
<1> HIDE DEF newest
<1>6. writer' \in [Writers -> WriterRow]
  BY <1>1, <1>4 DEF WriterRow
<1>7. \A y \in Writers : writer'[y].at # "idle" => y # x /\ writer'[y] = writer[y]
  BY <1>1, <1>4 DEF Idle
<1>8. Newest' = Newest /\ Now' = Now
  BY <1>4 DEF Newest, Now
<1>9. TypeOK'
  BY <1>1, <1>3, <1>4, <1>6 DEF IInv, TypeOK
<1>10. CountersAgree'
  <2>1. Len(announced') = ratever' + 1
    BY <1>1, <1>4
  <2>2. \A i \in 1 .. Len(announced') : announced'[i] \in 1 .. Newest
    BY <1>1, <1>3, <1>4
  <2>3. \A y \in Writers : writer'[y].at = "bump" => writer'[y].state \in 1 .. Newest
    BY <1>7 DEF IInv, CountersAgree
  <2>4. Newest > 0
    BY DEF IInv, CountersAgree
  <2> QED
    BY <1>8, <2>1, <2>2, <2>3, <2>4 DEF CountersAgree
<1>11. EntriesKeepTheirVersion' /\ ReadersOnTime'
  <2>1. Newest' \in Nat /\ Newest' >= Newest
    BY <1>1, <1>8
  <2>2. \E n \in Nat : announced' = Append(announced, n)
    BY <1>3, <1>4
  <2>3. \A i \in 1 .. Newest : states'[i] = states[i]
    BY <1>4
  <2> QED
    BY <1>4, <2>1, <2>2, <2>3, CachedStays
<1>12. StatesAreWhole'
  BY <1>4, <1>8 DEF IInv, StatesAreWhole
<1>13. OneReplaceAtATime'
  BY <1>7, <1>8 DEF IInv, OneReplaceAtATime
<1> QED
  BY <1>9, <1>10, <1>11, <1>12, <1>13 DEF IInv

\* A writer takes the advisory lock of a cell.
LEMMA DeleteRungsInv ==
  ASSUME IInv, NEW x \in Writers, NEW w \in Workspaces, NEW list \in Puts,
         DeleteRungs(x, w, list)
  PROVE  IInv'
<1> DEFINE row == [at |-> "insert", ws |-> w, rows |-> Now.ladder[w], list |-> list]
<1>1. /\ writer' = [writer EXCEPT ![x] = row]
      /\ writer \in [Writers -> WriterRow]
      /\ UNCHANGED <<states, ratever, announced, baseEntry, ovrEntry, reader>>
      /\ \A y \in Writers : writer[y].at = "insert" => writer[y].ws # w
  BY DEF DeleteRungs, Become, IInv, TypeOK
<1>2. row \in WriterRow
  BY NowType DEF WriterRow
<1>3. /\ row.at = "insert" /\ row.ws = w /\ row.rows = Now.ladder[w]
      /\ Accepted(row.list)
  BY DEF DeleteRungs
<1> HIDE DEF row
<1>4. TypeOK'
  BY <1>1, <1>2 DEF IInv, TypeOK
<1>5. \A y \in Writers : writer'[y] = IF y = x THEN row ELSE writer[y]
  BY <1>1
<1>6. Newest' = Newest /\ Now' = Now
  BY <1>1 DEF Newest, Now
<1>7. CountersAgree'
  BY <1>1, <1>3, <1>5, <1>6 DEF IInv, CountersAgree
<1>8. EntriesKeepTheirVersion' /\ ReadersOnTime' /\ StatesAreWhole'
  BY <1>1, <1>6 DEF IInv, EntriesKeepTheirVersion, ReadersOnTime, StatesAreWhole,
                    OnTime, Since, BaseAt, RungsAt
<1>9. OneReplaceAtATime'
  BY <1>1, <1>3, <1>5, <1>6 DEF IInv, OneReplaceAtATime
<1> QED
  BY <1>4, <1>7, <1>8, <1>9 DEF IInv

LEMMA CrashInv ==
  ASSUME IInv, NEW x \in Writers, Crash(x)
  PROVE  IInv'
<1>1. /\ writer' = [writer EXCEPT ![x] = Idle]
      /\ writer \in [Writers -> WriterRow]
      /\ UNCHANGED <<states, ratever, announced, baseEntry, ovrEntry, reader>>
  BY DEF Crash, Become, IInv, TypeOK
<1>2. writer' \in [Writers -> WriterRow]
  BY <1>1 DEF WriterRow
<1>3. TypeOK'
  BY <1>1, <1>2 DEF IInv, TypeOK
<1>4. \A y \in Writers : writer'[y].at # "idle" => y # x /\ writer'[y] = writer[y]
  BY <1>1 DEF Idle
<1>5. Newest' = Newest /\ Now' = Now
  BY <1>1 DEF Newest, Now
<1>6. CountersAgree'
  BY <1>1, <1>4, <1>5 DEF IInv, CountersAgree
<1>7. EntriesKeepTheirVersion' /\ ReadersOnTime' /\ StatesAreWhole'
  BY <1>1, <1>5 DEF IInv, EntriesKeepTheirVersion, ReadersOnTime, StatesAreWhole,
                    OnTime, Since, BaseAt, RungsAt
<1>8. OneReplaceAtATime'
  BY <1>4, <1>5 DEF IInv, OneReplaceAtATime
<1> QED
  BY <1>3, <1>6, <1>7, <1>8 DEF IInv

-----------------------------------------------------------------------------
(* The entries and the readers.                                            *)

\* An entry disappears.
LEMMA ExpireInv ==
  ASSUME IInv, Expire
  PROVE  IInv'
<1>1. /\ UNCHANGED <<dbVars, reader>>
      /\ baseEntry' \in {baseEntry, NoEntry}
      /\ ovrEntry' \in [Workspaces -> Entry \cup {NoEntry}]
      /\ \A w \in Workspaces : ovrEntry'[w] \in {ovrEntry[w], NoEntry}
  BY DEF Expire, ExpireBase, ExpireOvr, dbVars, IInv, TypeOK
<1>2. UNCHANGED <<states, writer, ratever, announced, reader>>
  BY <1>1 DEF dbVars
<1>3. Newest' = Newest /\ Now' = Now
  BY <1>2 DEF Newest, Now
<1>4. TypeOK'
  BY <1>1, <1>2 DEF IInv, TypeOK
<1>5. EntriesKeepTheirVersion'
  BY <1>1, <1>2, <1>3 DEF IInv, EntriesKeepTheirVersion, Since, BaseAt, RungsAt
<1>6. CountersAgree' /\ ReadersOnTime' /\ StatesAreWhole' /\ OneReplaceAtATime'
  BY <1>2, <1>3 DEF IInv, CountersAgree, ReadersOnTime, StatesAreWhole,
                    OneReplaceAtATime, OnTime, Since, BaseAt, RungsAt
<1> QED
  BY <1>4, <1>5, <1>6 DEF IInv

\* A reader moves on with what it carries on time, and the entries are in order.
LEMMA ReaderInv ==
  ASSUME IInv, NEW r \in Readers, NEW d \in ReaderRow, OnTime(d),
         reader' = [reader EXCEPT ![r] = d], UNCHANGED dbVars,
         baseEntry' \in Entry \cup {NoEntry},
         ovrEntry' \in [Workspaces -> Entry \cup {NoEntry}],
         baseEntry' # NoEntry =>
           Since(baseEntry'.v, baseEntry'.at) /\ BaseAt(baseEntry'.at) # NoBase,
         \A w \in Workspaces : ovrEntry'[w] # NoEntry =>
           Since(ovrEntry'[w].v, ovrEntry'[w].at) /\ RungsAt(ovrEntry'[w].at, w) # {}
  PROVE  IInv'
<1>1. UNCHANGED <<states, writer, ratever, announced>>
  BY DEF dbVars
<1>2. Newest' = Newest /\ Now' = Now
  BY <1>1 DEF Newest, Now
<1>3. /\ \A v, at : Since(v, at)' <=> Since(v, at)
      /\ \A at : BaseAt(at)' = BaseAt(at)
      /\ \A at, w : RungsAt(at, w)' = RungsAt(at, w)
  BY <1>1, <1>2 DEF Since, BaseAt, RungsAt
<1>4. TypeOK'
  BY <1>1 DEF IInv, TypeOK
<1>5. EntriesKeepTheirVersion'
  BY <1>1, <1>2 DEF EntriesKeepTheirVersion, Since, BaseAt, RungsAt
<1>6. ReadersOnTime'
  <2> SUFFICES ASSUME NEW q \in Readers PROVE OnTime(reader[q])'
    BY DEF ReadersOnTime
  <2>1. reader'[q] = d \/ reader'[q] = reader[q]
    BY DEF IInv, TypeOK
  <2>2. OnTime(reader[q]) /\ OnTime(d)
    BY DEF IInv, ReadersOnTime
  <2> QED
    BY <1>1, <1>2, <2>1, <2>2 DEF OnTime, Since, BaseAt, RungsAt
<1>7. CountersAgree' /\ StatesAreWhole' /\ OneReplaceAtATime'
  BY <1>1, <1>2 DEF IInv, CountersAgree, StatesAreWhole, OneReplaceAtATime
<1> QED
  BY <1>4, <1>5, <1>6, <1>7 DEF IInv

\* What the invariant says of the reader of a step and of what it reads.
LEMMA ReaderFacts ==
  ASSUME IInv, NEW r \in Readers
  PROVE  /\ reader \in [Readers -> ReaderRow] /\ reader[r] \in ReaderRow
         /\ reader[r].ws \in Workspaces /\ reader[r].ver \in Nat
         /\ reader[r].base \in Nat /\ reader[r].rungs \in Nat
         /\ OnTime(reader[r])
         /\ OnTime(Blank) /\ Blank \in ReaderRow
         /\ Newest \in Nat /\ Newest > 0 /\ ratever \in Nat
         /\ Since(reader[r].ver, Newest)
         /\ baseEntry \in Entry \cup {NoEntry}
         /\ ovrEntry \in [Workspaces -> Entry \cup {NoEntry}]
         /\ EntriesKeepTheirVersion
<1>1. /\ reader[r] \in ReaderRow /\ Blank \in ReaderRow /\ ratever \in Nat
      /\ reader[r].ver \in Nat
  BY DEF IInv, TypeOK, Blank, ReaderRow
<1>2. OnTime(reader[r])
  BY DEF IInv, ReadersOnTime
<1>3. OnTime(Blank)
  BY <1>1 DEF OnTime, Blank
<1>4. Newest \in Nat /\ Newest > 0
  BY NowType DEF IInv, CountersAgree
<1>5. Since(reader[r].ver, Newest)
  <2>1. reader[r].ver + 1 \in 1 .. Len(announced) /\ reader[r].ver <= ratever
    BY <1>1, <1>2 DEF OnTime, IInv, CountersAgree
  <2>2. announced[reader[r].ver + 1] \in 1 .. Newest
    BY <2>1 DEF IInv, CountersAgree
  <2> QED
    BY <1>4, <2>1, <2>2 DEF Since
<1> QED
  BY <1>1, <1>2, <1>3, <1>4, <1>5 DEF IInv, TypeOK, ReaderRow

\* A step of a reader that leaves the cache alone.
LEMMA SetInv ==
  ASSUME IInv, NEW r \in Readers, NEW d \in ReaderRow, OnTime(d), Set(r, d)
  PROVE  IInv'
<1>1. reader' = [reader EXCEPT ![r] = d] /\ UNCHANGED dbVars
      /\ UNCHANGED <<baseEntry, ovrEntry>>
  BY DEF Set, cacheVars
<1>2. EntriesKeepTheirVersion /\ baseEntry \in Entry \cup {NoEntry}
      /\ ovrEntry \in [Workspaces -> Entry \cup {NoEntry}]
  BY DEF IInv, TypeOK
<1>3. /\ baseEntry' # NoEntry =>
           Since(baseEntry'.v, baseEntry'.at) /\ BaseAt(baseEntry'.at) # NoBase
      /\ \A w \in Workspaces : ovrEntry'[w] # NoEntry =>
           Since(ovrEntry'[w].v, ovrEntry'[w].at) /\ RungsAt(ovrEntry'[w].at, w) # {}
  BY <1>1, <1>2 DEF EntriesKeepTheirVersion
<1> QED
  BY <1>1, <1>2, <1>3, ReaderInv

LEMMA ReadInv ==
  ASSUME IInv, NEW r \in Readers,
         (\E w \in Workspaces : GetVersion(r, w)) \/ ReadBase(r) \/ ReadOvr(r) \/ GiveUp(r)
  PROVE  IInv'
<1> DEFINE d == reader[r]
<1>1. CASE \E w \in Workspaces : GetVersion(r, w)
  <2>1. PICK w \in Workspaces : GetVersion(r, w)
    BY <1>1
  <2> DEFINE n == [Blank EXCEPT !.pc = "base", !.ws = w, !.ver = ratever]
  <2>4. n.pc = "base" /\ n.ver = ratever /\ n.base = 0 /\ n.rungs = 0
    BY DEF Blank
  <2>2. n \in ReaderRow /\ OnTime(n)
    <3>1. n \in ReaderRow
      BY ReaderFacts DEF Blank, ReaderRow
    <3>2. ratever <= ratever
      BY ReaderFacts
    <3> HIDE DEF n
    <3>3. OnTime(n)
      BY <2>4, <3>2 DEF OnTime
    <3> QED
      BY <3>1, <3>3
  <2>3. Set(r, n)
    BY <2>1 DEF GetVersion
  <2> QED
    BY <2>2, <2>3, SetInv
<1>2. CASE ReadBase(r)
  <2> DEFINE base == IF Fresh(r, baseEntry) THEN baseEntry.at ELSE 0
             n == [d EXCEPT !.pc = "ovr", !.base = base]
  <2>1. base \in Nat /\ (base # 0 => Since(d.ver, base) /\ BaseAt(base) # NoBase)
    BY ReaderFacts DEF Fresh, Entry, EntriesKeepTheirVersion
  <2> HIDE DEF base
  <2>2. n \in ReaderRow /\ OnTime(n)
    BY <2>1, ReaderFacts DEF OnTime, ReaderRow
  <2>3. Set(r, n)
    BY <1>2 DEF ReadBase, base
  <2> QED
    BY <2>2, <2>3, SetInv
<1>3. CASE ReadOvr(r)
  <2> DEFINE rungs == IF Fresh(r, ovrEntry[d.ws]) THEN ovrEntry[d.ws].at ELSE 0
             hit == [d EXCEPT !.pc = "done", !.rungs = rungs]
             miss == [d EXCEPT !.pc = "load"]
  <2>1. rungs \in Nat /\ (rungs # 0 => Since(d.ver, rungs))
    <3>1. /\ d.ws \in Workspaces /\ ovrEntry[d.ws] \in Entry \cup {NoEntry}
          /\ ovrEntry[d.ws] # NoEntry => Since(ovrEntry[d.ws].v, ovrEntry[d.ws].at)
      BY ReaderFacts DEF EntriesKeepTheirVersion
    <3> QED
      BY <3>1 DEF Fresh, Entry
  <2> HIDE DEF rungs
  <2>2. hit \in ReaderRow /\ OnTime(hit) /\ miss \in ReaderRow /\ OnTime(miss)
    <3>1. d.pc = "ovr" /\ (d.base # 0 => BaseAt(d.base) # NoBase)
      BY <1>3, ReaderFacts DEF ReadOvr, OnTime
    <3>2. hit \in ReaderRow /\ miss \in ReaderRow
      BY <2>1, ReaderFacts DEF ReaderRow
    <3>3. OnTime(hit)
      <4>1. /\ hit.pc = "done" /\ hit.base = d.base /\ hit.ver = d.ver
            /\ hit.rungs = rungs /\ hit.ws = d.ws
        BY ReaderFacts DEF ReaderRow
      <4> HIDE DEF hit
      <4> QED
        BY <2>1, <3>1, <4>1, ReaderFacts DEF OnTime
    <3>4. OnTime(miss)
      <4>1. /\ miss.pc = "load" /\ miss.base = d.base /\ miss.ver = d.ver
            /\ miss.rungs = d.rungs /\ miss.ws = d.ws
        BY ReaderFacts DEF ReaderRow
      <4> HIDE DEF miss
      <4> QED
        BY <4>1, ReaderFacts DEF OnTime
    <3> QED
      BY <3>2, <3>3, <3>4
  <2>3. Set(r, hit) \/ Set(r, miss)
    BY <1>3 DEF ReadOvr, rungs
  <2> QED
    BY <2>2, <2>3, SetInv
<1>4. CASE GiveUp(r)
  BY <1>4, ReaderFacts, SetInv DEF GiveUp
<1> QED
  BY <1>1, <1>2, <1>3, <1>4

LEMMA LoadInv ==
  ASSUME IInv, NEW r \in Readers, LoadBase(r) \/ LoadRungs(r) \/ PriceLoaded(r)
  PROVE  IInv'
<1> DEFINE d == reader[r]
           withBase  == [d EXCEPT !.base = Newest]
           withRungs == [d EXCEPT !.rungs = Newest]
           priced    == [d EXCEPT !.pc = "putBase"]
<1>1. CASE LoadBase(r)
  <2>1. withBase \in ReaderRow /\ OnTime(withBase)
    BY <1>1, ReaderFacts DEF LoadBase, OnTime, ReaderRow
  <2>2. Set(r, withBase)
    BY <1>1 DEF LoadBase
  <2> QED
    BY <2>1, <2>2, SetInv
<1>2. CASE LoadRungs(r)
  <2>1. withRungs \in ReaderRow /\ OnTime(withRungs)
    BY <1>2, ReaderFacts DEF LoadRungs, OnTime, ReaderRow
  <2>2. Set(r, withRungs)
    BY <1>2 DEF LoadRungs
  <2> QED
    BY <2>1, <2>2, SetInv
<1>3. CASE PriceLoaded(r)
  <2>1. CASE BaseAt(d.base) = NoBase
    BY <1>3, <2>1, ReaderFacts, SetInv DEF PriceLoaded
  <2>2. CASE BaseAt(d.base) # NoBase
    <3>1. priced \in ReaderRow /\ OnTime(priced)
      BY <1>3, <2>2, ReaderFacts DEF PriceLoaded, OnTime, ReaderRow
    <3>2. Set(r, priced)
      BY <1>3, <2>2 DEF PriceLoaded
    <3> QED
      BY <3>1, <3>2, SetInv
  <2> QED
    BY <2>1, <2>2
<1> QED
  BY <1>1, <1>2, <1>3

\* The reader fills an entry with what it read, stamped with its own version.
LEMMA PutInv ==
  ASSUME IInv, NEW r \in Readers, PutBase(r) \/ PutOvr(r)
  PROVE  IInv'
<1> DEFINE d == reader[r]
           next == [d EXCEPT !.pc = "putOvr"]
<1>1. CASE PutBase(r)
  <2> DEFINE n == IF RungsAt(d.rungs, d.ws) = {} THEN Blank ELSE next
  <2>1. /\ d.pc = "putBase" /\ baseEntry' = [v |-> d.ver, at |-> d.base]
        /\ UNCHANGED <<dbVars, ovrEntry>>
    BY <1>1 DEF PutBase
  <2>2. reader' = [reader EXCEPT ![r] = n]
    BY <1>1, ReaderFacts DEF PutBase
  <2>3. Since(d.ver, d.base) /\ BaseAt(d.base) # NoBase
    BY <2>1, ReaderFacts DEF OnTime
  <2>4. n \in ReaderRow /\ OnTime(n)
    <3>1. CASE RungsAt(d.rungs, d.ws) = {}
      BY <3>1, ReaderFacts
    <3>2. CASE RungsAt(d.rungs, d.ws) # {}
      <4>1. next \in ReaderRow /\ OnTime(next)
        BY <2>1, <3>2, ReaderFacts DEF OnTime, ReaderRow
      <4> QED
        BY <3>2, <4>1
    <3> QED
      BY <3>1, <3>2
  <2>5. /\ baseEntry' \in Entry \cup {NoEntry}
        /\ ovrEntry' \in [Workspaces -> Entry \cup {NoEntry}]
        /\ Since(baseEntry'.v, baseEntry'.at) /\ BaseAt(baseEntry'.at) # NoBase
    BY <2>1, <2>3, ReaderFacts DEF Entry
  <2>6. \A w \in Workspaces : ovrEntry'[w] # NoEntry =>
           Since(ovrEntry'[w].v, ovrEntry'[w].at) /\ RungsAt(ovrEntry'[w].at, w) # {}
    BY <2>1, ReaderFacts DEF EntriesKeepTheirVersion
  <2> HIDE DEF n
  <2> QED
    BY <2>1, <2>2, <2>4, <2>5, <2>6, ReaderInv
<1>2. CASE PutOvr(r)
  <2>1. /\ d.pc = "putOvr" /\ UNCHANGED <<dbVars, baseEntry>>
        /\ ovrEntry' = [ovrEntry EXCEPT ![d.ws] = [v |-> d.ver, at |-> d.rungs]]
        /\ reader' = [reader EXCEPT ![r] = Blank]
    BY <1>2 DEF PutOvr
  <2>2. Since(d.ver, d.rungs) /\ RungsAt(d.rungs, d.ws) # {}
    BY <2>1, ReaderFacts DEF OnTime
  <2>3. ovrEntry' \in [Workspaces -> Entry \cup {NoEntry}]
    BY <2>1, ReaderFacts DEF Entry
  <2>4. \A w \in Workspaces : ovrEntry'[w] # NoEntry =>
           Since(ovrEntry'[w].v, ovrEntry'[w].at) /\ RungsAt(ovrEntry'[w].at, w) # {}
    BY <2>1, <2>2, ReaderFacts DEF EntriesKeepTheirVersion
  <2>5. /\ baseEntry' \in Entry \cup {NoEntry}
        /\ baseEntry' # NoEntry =>
             Since(baseEntry'.v, baseEntry'.at) /\ BaseAt(baseEntry'.at) # NoBase
    BY <2>1, ReaderFacts DEF EntriesKeepTheirVersion
  <2>6. Blank \in ReaderRow /\ OnTime(Blank)
    BY ReaderFacts
  <2> QED
    BY <2>1, <2>3, <2>4, <2>5, <2>6, ReaderInv
<1> QED
  BY <1>1, <1>2

-----------------------------------------------------------------------------
LEMMA StutterInv == IInv /\ UNCHANGED vars => IInv'
  BY DEF IInv, vars, TypeOK, CountersAgree, EntriesKeepTheirVersion, ReadersOnTime,
         OnTime, StatesAreWhole, OneReplaceAtATime, Since, BaseAt, RungsAt, Newest, Now

LEMMA NextInv == IInv /\ [Next]_vars => IInv'
<1> SUFFICES ASSUME IInv, [Next]_vars PROVE IInv'
  OBVIOUS
<1>1. ASSUME NEW x \in Writers, Write(x) \/ InsertRungs(x) \/ Bump(x) \/ Crash(x)
      PROVE  IInv'
  <2>1. CASE Write(x)
    BY <2>1, SaveBaseInv, DeleteRungsInv, ClearLadderInv, RemoveCategoryInv DEF Write
  <2> QED
    BY <1>1, <2>1, InsertRungsInv, BumpInv, CrashInv
<1>2. CASE Expire
  BY <1>2, ExpireInv
<1>3. ASSUME NEW r \in Readers,
             (\E w \in Workspaces : GetVersion(r, w)) \/ Resolve(r) \/ GiveUp(r)
      PROVE  IInv'
  BY <1>3, ReadInv, LoadInv, PutInv DEF Resolve
<1>4. CASE UNCHANGED vars
  BY <1>4, StutterInv
<1> QED
  BY <1>1, <1>2, <1>3, <1>4 DEF Next

\* The inductive invariant holds of every behaviour.
THEOREM Invariance == Spec => []IInv
<1> QED
  BY InitInv, NextInv, PTL DEF Spec

\* Every variable keeps its type.
THEOREM TypeCorrect == Spec => []TypeOK
<1>1. IInv => TypeOK
  BY DEF IInv
<1> QED
  BY <1>1, Invariance, PTL

\* Version stamps are honest: an entry never holds a value that a write
\* announced before the version it is stamped with has replaced, however slowly
\* the read-through that fills it runs (rate-cache.service.ts).
THEOREM StampsAreHonest == Spec => []EntriesKeepTheirVersion
<1>1. IInv => EntriesKeepTheirVersion
  BY DEF IInv
<1> QED
  BY <1>1, Invariance, PTL

\* resolve never prices with what a write announced before it began replaced.
THEOREM PricesAreCurrent == Spec => []NoStalePrice
<1>1. IInv => NoStalePrice
  <2> SUFFICES ASSUME IInv, NEW r \in Readers, Priced(r)
               PROVE  /\ Since(reader[r].ver, reader[r].base)
                      /\ reader[r].rungs # 0 => Since(reader[r].ver, reader[r].rungs)
    BY DEF NoStalePrice
  <2> QED
    BY ReaderFacts DEF OnTime, Priced
<1> QED
  BY <1>1, Invariance, PTL

\* The advisory lock of replaceLadder keeps every committed ladder whole, and no
\* replace meets the unique index for the sake of another.
THEOREM LaddersAreWhole == Spec => []LadderIsOnePut
<1>1. IInv => LadderIsOnePut
  BY NoCollision DEF IInv, LadderIsOnePut
<1> QED
  BY <1>1, Invariance, PTL

\* Every price is the one of the two-tier rule on rows that no write announced
\* before the call had replaced, unless the call missed the override, when it is the
\* base price of such a time.  It takes all three: the stamps being honest, so that
\* what the cache hands out is of the time of the call; a base without a price never
\* being cached, so that a hit has one; and the ladders being whole, since one merged
\* from two PUTs could hold a threshold twice, and one of rungs left behind might not
\* begin at 0.
THEOREM PricesFollowTheRule == Spec => []PriceFollowsTheRule
<1>1. IInv => PriceFollowsTheRule
  <2> SUFFICES ASSUME IInv, NEW r \in Readers, NEW qty \in Qtys, Priced(r)
               PROVE  LET base  == BaseAt(reader[r].base)
                          price == ResolveCell(base, RungsAt(reader[r].rungs, reader[r].ws), qty)
                      IN  \/ RightSince(r, qty, price)
                          \/ /\ Missed(r)
                             /\ price = [tier |-> 2, sell |-> base] /\ base # NoBase
                             /\ Since(reader[r].ver, reader[r].base)
    BY DEF PriceFollowsTheRule
  <2> DEFINE d == reader[r]
             base == BaseAt(d.base)
             rows == RungsAt(d.rungs, d.ws)
             price == ResolveCell(base, rows, qty)
  <2>1. /\ d.base # 0 /\ base # NoBase /\ d.base \in 1 .. Newest
        /\ Since(d.ver, d.base) /\ d.ws \in Workspaces
    BY ReaderFacts DEF OnTime, Priced, Since
  <2>2. d.rungs # 0 => Since(d.ver, d.rungs) /\ d.rungs \in 1 .. Newest
    BY ReaderFacts DEF OnTime, Since
  <2>3. rows \in WholeLadders
    BY <2>1, <2>2 DEF RungsAt, WholeLadders, IInv, StatesAreWhole
  <2>4. IsPrice(price, base, rows, qty) /\ (price.tier = 2 => rows = {})
    <3>1. /\ rows \in SUBSET Rungs /\ IsFiniteSet(rows) /\ Distinct(rows)
          /\ rows = {} \/ \E a \in rows : a.minQty = 0
      <4>1. CASE rows = {}
        BY <4>1, FS_EmptySet DEF Distinct
      <4>2. CASE rows # {}
        <5>1. PICK list \in Puts : Accepted(list) /\ rows = ToSet(list)
          BY <2>3, <4>2 DEF WholeLadders
        <5>2. list \in Seq(Rungs)
          OBVIOUS
        <5> QED
          BY <5>1, <5>2, AcceptedLadder
      <4> QED
        BY <4>1, <4>2
    <3>2. qty \in Nat
      OBVIOUS
    <3> HIDE DEF rows, base
    <3> QED
      BY <3>1, <3>2, PriceIsTheRule
  <2>5. CASE d.rungs # 0
    <3>1. RightSince(r, qty, price)
      BY <2>1, <2>2, <2>4, <2>5 DEF RightSince
    <3> QED
      BY <3>1
  <2>6. CASE d.rungs = 0
    <3>1. Missed(r)
      BY <2>1, <2>6, ReaderFacts DEF Missed, Priced, OnTime
    <3>2. rows = {}
      BY <2>6 DEF RungsAt
    <3>3. price = [tier |-> 2, sell |-> base]
      BY <3>2, <2>1, <2>4 DEF IsPrice
    <3> QED
      BY <2>1, <3>1, <3>3
  <2> QED
    BY <2>5, <2>6
<1> QED
  BY <1>1, Invariance, PTL
=============================================================================
