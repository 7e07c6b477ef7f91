---------------------------- MODULE StaffProofs ----------------------------
(***************************************************************************)
(* Proofs about Staff, for any number of accounts, requests and changes.   *)
(* A step moves one request on (MoveInv), perhaps saving the account it is *)
(* about (SaveInv); invitations begin and end with a step of their own.    *)
(***************************************************************************)
EXTENDS Staff, FiniteSetTheorems, SequenceTheorems, TLAPS

USE BootstrapAssumption, RolesAssumption, RequestsAssumption, BoundsAssumption

-----------------------------------------------------------------------------
(* The inductive invariant.                                                *)

\* A row an account may have: who is invited has an invitation and no password.
Sound(row) ==
    /\ row \in StaffRow
    /\ row.status = "invited" => ~ row.password /\ row.invite

\* A set of super admins that is not empty without any one of them either.
Spare(seen) == seen # {} => \A i \in Nat : \E j \in seen : j # i

\* What a request carries, over a table of n rows.
Pending(d, n) ==
    /\ d \in RequestRow
    /\ d.at \in {"count", "save", "remove", "revoke", "accept", "touch", "issue"} =>
         d.id \in 1 .. n /\ Sound(d.row)
    /\ d.at \in {"insert", "count", "save"} => Sound(d.new)
    /\ d.at \in {"count", "accept", "touch"} => d.seen = {}

\* A change that nobody was counted for takes no super admin away.
Counted(d) ==
    /\ Spare(d.seen)
    /\ d.at = "save" /\ d.seen = {} /\ IsSuper(d.row) => IsSuper(d.new)
    /\ d.at = "remove" /\ d.seen = {} => ~ IsSuper(d.row)

Inviting == {q \in Requests : At(q, "insert")}

Typed ==
    /\ staff \in Seq(StaffRow) /\ \A i \in Ids : Sound(staff[i])
    /\ signed \in Seq(SUBSET Roles) /\ Len(signed) = Len(staff)
    /\ stale \in BOOLEAN /\ changes \in 0 .. MaxChanges
    /\ request \in [Requests -> RequestRow]

Carried == \A q \in Requests : Pending(request[q], Len(staff)) /\ Counted(request[q])

\* The rows and the invitations under way stay within the bound.
Room == Len(staff) + Cardinality(Inviting) <= MaxStaff

IInv == Typed /\ Carried /\ Room /\ OneAccountPerEmail /\ SuperAdminRemains

-----------------------------------------------------------------------------
LEMMA BlankRow ==
    /\ Blank \in RequestRow /\ Blank.at = "done" /\ Blank.seen = {}
    /\ \A n \in Nat : Pending(Blank, n) /\ Counted(Blank)
<1>1. Blank \in RequestRow /\ Blank.at = "done" /\ Blank.seen = {}
  BY DEF Blank, RequestRow
<1> QED
  BY <1>1 DEF Pending, Counted, Spare

\* How many invitations are under way.
LEMMA InvitingCount == IsFiniteSet(Inviting) /\ Cardinality(Inviting) \in Nat
<1>1. Inviting \in SUBSET Requests
  BY DEF Inviting
<1>2. IsFiniteSet(Inviting)
  BY <1>1, FS_Subset
<1> QED
  BY <1>2, FS_CardinalityType

\* A request that is not about to insert takes no room.
LEMMA NoMoreRoom ==
  ASSUME IInv, NEW r \in Requests, NEW d, d.at # "insert",
         request' = [request EXCEPT ![r] = d], Len(staff') = Len(staff)
  PROVE  Room'
<1>1. Inviting' \in SUBSET Inviting
  BY DEF Inviting, At, IInv, Typed
<1>2. Cardinality(Inviting') <= Cardinality(Inviting) /\ IsFiniteSet(Inviting')
  BY <1>1, InvitingCount, FS_Subset
<1>3. Cardinality(Inviting') \in Nat
  BY <1>2, FS_CardinalityType
<1>4. Len(staff) \in Nat /\ Len(staff) + Cardinality(Inviting) <= MaxStaff
  BY DEF IInv, Typed, Room
<1> QED
  BY <1>2, <1>3, <1>4, InvitingCount DEF Room

\* The requests after one of them has moved on, over a table no smaller.
LEMMA CarriedOn ==
  ASSUME IInv, NEW r \in Requests, NEW d, Counted(d), Pending(d, Len(staff')),
         request' = [request EXCEPT ![r] = d],
         Len(staff') \in Nat, Len(staff) <= Len(staff')
  PROVE  Carried' /\ request' \in [Requests -> RequestRow]
<1>1. d \in RequestRow
  BY DEF Pending
<1>2. request' \in [Requests -> RequestRow]
  BY <1>1 DEF IInv, Typed
<1>3. ASSUME NEW q \in Requests
      PROVE  Pending(request'[q], Len(staff')) /\ Counted(request'[q])
  <2>1. CASE q = r
    BY <2>1 DEF IInv, Typed
  <2>2. CASE q # r
    <3>1. request'[q] = request[q]
      BY <2>2 DEF IInv, Typed
    <3>2. Pending(request[q], Len(staff)) /\ Counted(request[q])
      BY DEF IInv, Carried
    <3>3. Len(staff) \in Nat
      BY DEF IInv, Typed
    <3>4. \A i : i \in 1 .. Len(staff) => i \in 1 .. Len(staff')
      BY <3>3
    <3> QED
      BY <3>1, <3>2, <3>4 DEF Pending
  <2> QED
    BY <2>1, <2>2
<1>4. Carried' <=> \A q \in Requests : Pending(request'[q], Len(staff')) /\ Counted(request'[q])
  BY DEF Carried, Pending, Counted, Spare, Sound, IsSuper, RequestRow, StaffRow
<1> QED
  BY <1>2, <1>3, <1>4

\* A request moves on and the table stays as it is.
LEMMA MoveInv ==
  ASSUME IInv, NEW r \in Requests, NEW d, Pending(d, Len(staff)), Counted(d),
         d.at # "insert", request' = [request EXCEPT ![r] = d],
         staff' = staff, signed' \in Seq(SUBSET Roles), Len(signed') = Len(signed),
         stale' = stale, changes' \in 0 .. MaxChanges
  PROVE  IInv'
<1>1. Room'
  BY NoMoreRoom
<1>2. Len(staff) \in Nat
  BY DEF IInv, Typed
<1>3. Carried' /\ request' \in [Requests -> RequestRow]
  <2>1. Pending(d, Len(staff'))
    OBVIOUS
  <2>2. Len(staff') \in Nat /\ Len(staff) <= Len(staff')
    BY <1>2
  <2> QED
    BY <2>1, <2>2, CarriedOn
<1>4. Typed'
  BY <1>3 DEF IInv, Typed, Ids, Sound, StaffRow
<1>5. OneAccountPerEmail' /\ SuperAdminRemains'
  BY DEF IInv, OneAccountPerEmail, SuperAdminRemains, Supers, LiveIds, Ids
<1> QED
  BY <1>1, <1>3, <1>4, <1>5 DEF IInv

\* A request ends.
LEMMA EndInv ==
  ASSUME IInv, NEW r \in Requests, Finish(r), staff' = staff,
         signed' \in Seq(SUBSET Roles), Len(signed') = Len(signed),
         stale' = stale, changes' \in 0 .. MaxChanges
  PROVE  IInv'
<1>1. Len(staff) \in Nat
  BY DEF IInv, Typed
<1>2. Pending(Blank, Len(staff)) /\ Counted(Blank) /\ Blank.at # "insert"
  BY <1>1, BlankRow
<1>3. request' = [request EXCEPT ![r] = Blank]
  BY DEF Finish
<1> QED
  BY <1>2, <1>3, MoveInv

\* A request writes the account it is about: there is a super admin left, unless
\* its copy or its count was out of date, and the index has let the row in.
LEMMA SaveInv ==
  ASSUME IInv, NEW r \in Requests, NEW row, Sound(row),
         NEW i \in Ids, i = request[r].id, ~ EmailTaken(i, row),
         staff' = [staff EXCEPT ![i] = row],
         stale' = (stale \/ OldCopy(r) \/ OldCount(r)),
         request[r].seen = {} /\ IsSuper(request[r].row) /\ staff[i] = request[r].row
           => IsSuper(row),
         NEW d, Pending(d, Len(staff)), Counted(d), d.at # "insert",
         request' = [request EXCEPT ![r] = d], UNCHANGED <<signed, changes>>
  PROVE  IInv'
<1>0. /\ staff \in Seq(StaffRow) /\ Len(staff) \in Nat /\ i \in 1 .. Len(staff) /\ i \in Nat
      /\ row \in StaffRow /\ row.live \in BOOLEAN
  BY DEF IInv, Typed, Ids, Sound, StaffRow
<1>1. /\ staff' \in Seq(StaffRow) /\ Len(staff') = Len(staff)
      /\ \A j \in Ids : staff'[j] = IF j = i THEN row ELSE staff[j]
  BY <1>0, ExceptSeq DEF Ids
<1>2. Ids' = Ids
  BY <1>1 DEF Ids
<1>3. Room'
  BY <1>1, NoMoreRoom
<1>4. Carried' /\ request' \in [Requests -> RequestRow]
  <2>1. Pending(d, Len(staff'))
    BY <1>1
  <2>2. Len(staff') \in Nat /\ Len(staff) <= Len(staff')
    BY <1>0, <1>1
  <2> QED
    BY <2>1, <2>2, CarriedOn
<1>5. Typed'
  <2>1. \A j \in Ids : Sound(staff'[j])
    BY <1>1 DEF IInv, Typed
  <2>2. (\A j \in Ids : Sound(staff[j]))'
    BY <1>2, <2>1 DEF Sound, StaffRow
  <2>3. stale' \in BOOLEAN
    BY DEF IInv, Typed, OldCopy, OldCount
  <2> QED
    BY <1>1, <1>4, <2>2, <2>3 DEF IInv, Typed
<1>6. OneAccountPerEmail'
  <2>1. LiveIds' \subseteq LiveIds \cup {i}
    BY <1>1, <1>2 DEF LiveIds
  <2>2. ASSUME NEW j \in LiveIds', NEW k \in LiveIds', j # k
        PROVE  staff'[j].email # staff'[k].email
    <3>1. j \in Ids /\ k \in Ids
      BY <1>2 DEF LiveIds
    <3>2. CASE j # i /\ k # i
      BY <1>1, <2>1, <2>2, <3>1, <3>2 DEF IInv, OneAccountPerEmail
    <3>3. CASE j = i \/ k = i
      <4>1. row.live
        BY <1>1, <3>1, <3>3, <2>2 DEF LiveIds
      <4>2. \A m \in LiveIds \ {i} : staff[m].email # row.email
        BY <4>1 DEF EmailTaken
      <4> QED
        BY <1>1, <2>1, <2>2, <3>1, <3>3, <4>2
    <3> QED
      BY <3>2, <3>3
  <2> QED
    BY <2>2 DEF OneAccountPerEmail
<1>7. SuperAdminRemains'
  <2> SUFFICES ASSUME ~ stale' PROVE Supers' # {}
    BY DEF SuperAdminRemains
  <2>1. ~ stale /\ staff[i] = request[r].row
    BY DEF OldCopy
  <2>2. request[r].seen # {} => request[r].seen = Supers
    BY DEF OldCount
  <2>3. \A j \in Supers : j # i => j \in Supers'
    BY <1>1, <1>2 DEF Supers, LiveIds
  <2>4. CASE request[r].seen # {}
    <3>1. Spare(request[r].seen)
      BY DEF IInv, Carried, Counted
    <3>2. PICK j \in request[r].seen : j # i
      BY <1>0, <2>4, <3>1 DEF Spare
    <3> QED
      BY <2>2, <2>3, <2>4, <3>2
  <2>5. CASE request[r].seen = {}
    <3>1. PICK j \in Supers : TRUE
      BY <2>1 DEF IInv, SuperAdminRemains
    <3>2. CASE j # i
      BY <2>3, <3>2
    <3>3. CASE j = i
      <4>1. IsSuper(request[r].row)
        BY <2>1, <3>3 DEF Supers, LiveIds, IsSuper
      <4>2. IsSuper(row)
        BY <2>1, <2>5, <4>1
      <4>3. i \in Supers'
        BY <1>1, <1>2, <4>2 DEF Supers, LiveIds, IsSuper
      <4> QED
        BY <4>3
    <3> QED
      BY <3>2, <3>3
  <2> QED
    BY <2>4, <2>5
<1> QED
  BY <1>3, <1>4, <1>5, <1>6, <1>7 DEF IInv

LEMMA InitInv == Init => IInv
<1> SUFFICES ASSUME Init PROVE IInv
  OBVIOUS
<1> DEFINE first == [email |-> Bootstrap, role |-> "SUPER_ADMIN", status |-> "active",
                     password |-> TRUE, invite |-> FALSE, live |-> TRUE]
<1>1. Sound(first) /\ first.email = Bootstrap /\ IsSuper(first)
  BY DEF Sound, StaffRow, IsSuper
<1>2. staff = <<first>> /\ signed = << {} >>
  BY DEF Init
<1> HIDE DEF first
<1>3. /\ staff \in Seq(StaffRow) /\ Len(staff) = 1 /\ Ids = {1} /\ staff[1] = first
      /\ signed \in Seq(SUBSET Roles) /\ Len(signed) = 1
  BY <1>1, <1>2 DEF Ids, Sound
<1>4. \A q \in Requests : request[q] = Blank
  BY DEF Init
<1>5. Typed
  <2>1. \A j \in Ids : Sound(staff[j])
    BY <1>1, <1>3
  <2>2. request \in [Requests -> RequestRow]
    BY BlankRow DEF Init
  <2>3. stale \in BOOLEAN /\ changes \in 0 .. MaxChanges
    <3>1. stale \in BOOLEAN
      BY DEF Init
    <3>2. changes = 0
      BY DEF Init
    <3> QED
      BY <3>1, <3>2
  <2> QED
    BY <1>3, <2>1, <2>2, <2>3 DEF Typed
<1>6. Carried
  BY <1>3, <1>4, BlankRow DEF Carried
<1>7. Room
  <2>1. Inviting = {}
    BY <1>4, BlankRow DEF Inviting, At
  <2> QED
    BY <1>3, <2>1, FS_EmptySet DEF Room
<1>8. OneAccountPerEmail
  BY <1>3 DEF OneAccountPerEmail, LiveIds
<1>9. SuperAdminRemains
  <2>1. 1 \in Supers
    BY <1>1, <1>3 DEF Supers, LiveIds, IsSuper
  <2> QED
    BY <2>1 DEF SuperAdminRemains
<1> QED
  BY <1>5, <1>6, <1>7, <1>8, <1>9 DEF IInv

-----------------------------------------------------------------------------
(* What the actions read.                                                  *)

\* A row of the table, and its number.
LEMMA RowRead ==
  ASSUME IInv, NEW i \in Ids
  PROVE  /\ Sound(staff[i]) /\ staff[i] \in StaffRow
         /\ i \in 0 .. MaxStaff /\ i \in 1 .. Len(staff) /\ Len(staff) \in Nat
<1>1. Len(staff) \in Nat /\ Len(staff) <= MaxStaff
  BY InvitingCount DEF IInv, Typed, Room
<1>2. Sound(staff[i])
  BY DEF IInv, Typed
<1> QED
  BY <1>1, <1>2 DEF Ids, Sound

\* A request that is about an account.
LEMMA RequestRead ==
  ASSUME IInv, NEW r \in Requests
  PROVE  /\ request[r] \in RequestRow
         /\ Pending(request[r], Len(staff)) /\ Counted(request[r])
         /\ request[r].at \in {"count", "save", "remove", "revoke", "accept", "touch", "issue"}
              => request[r].id \in Ids /\ Sound(request[r].row)
  BY DEF IInv, Typed, Carried, Pending, Ids

\* A request that has saved, or goes on to something that needs its account alone.
LEMMA GoneOn ==
  ASSUME IInv, NEW r \in Requests, NEW next \in {"revoke", "issue"},
         request[r].at \in {"save", "remove", "accept", "touch"}
  PROVE  LET d == [request[r] EXCEPT !.at = next]
         IN  Pending(d, Len(staff)) /\ Counted(d) /\ d.at # "insert"
<1> DEFINE d == [request[r] EXCEPT !.at = next]
<1>1. d \in RequestRow
  BY RequestRead DEF RequestRow
<1>2. /\ d.at = next /\ d.id = request[r].id /\ d.row = request[r].row
      /\ d.seen = request[r].seen
  BY RequestRead DEF RequestRow
<1>3. Sound(request[r].row) /\ request[r].id \in 1 .. Len(staff) /\ Spare(request[r].seen)
  BY RequestRead DEF Pending, Counted
<1> HIDE DEF d
<1>4. Pending(d, Len(staff)) /\ Counted(d) /\ d.at # "insert"
  BY <1>1, <1>2, <1>3 DEF Pending, Counted
<1> QED
  BY <1>4 DEF d

\* Save, whichever way it goes.
LEMMA SavedInv ==
  ASSUME IInv, NEW r \in Requests, NEW row, Sound(row),
         NEW next \in {"done", "revoke", "issue"}, Save(r, row, next),
         request[r].at \in {"save", "accept", "touch"},
         request[r].seen = {} /\ IsSuper(request[r].row) => IsSuper(row),
         UNCHANGED <<signed, changes>>
  PROVE  IInv'
<1> DEFINE i == request[r].id
<1>1. i \in Ids /\ Len(staff) \in Nat
  BY RequestRead DEF IInv, Typed
<1>2. CASE EmailTaken(i, row) /\ Finish(r) /\ UNCHANGED <<staff, stale>>
  BY <1>2, EndInv DEF IInv, Typed
<1>3. CASE /\ ~ EmailTaken(i, row) /\ staff' = [staff EXCEPT ![i] = row]
           /\ stale' = (stale \/ OldCopy(r) \/ OldCount(r))
           /\ IF next = "done" THEN Finish(r) ELSE Goto(r, next)
  <2>1. PICK d : /\ Pending(d, Len(staff)) /\ Counted(d) /\ d.at # "insert"
                 /\ request' = [request EXCEPT ![r] = d]
    <3>1. CASE next = "done"
      <4>1. Pending(Blank, Len(staff)) /\ Counted(Blank) /\ Blank.at # "insert"
        BY <1>1, BlankRow
      <4> QED
        BY <1>3, <3>1, <4>1 DEF Finish
    <3>2. CASE next # "done"
      <4>1. request' = [request EXCEPT ![r] = [request[r] EXCEPT !.at = next]]
        BY <1>3, <3>2 DEF Goto
      <4> QED
        BY <3>2, <4>1, GoneOn
    <3> QED
      BY <3>1, <3>2
  <2> HIDE DEF i
  <2>2. i = request[r].id
    BY DEF i
  <2> QED
    BY <1>1, <1>3, <2>1, <2>2, SaveInv
<1> QED
  BY <1>2, <1>3 DEF Save

-----------------------------------------------------------------------------
(* Managing staff.                                                         *)

\* An invitation takes its room when it begins.
LEMMA InviteInv ==
  ASSUME IInv, NEW r \in Requests, NEW actor \in Ids, NEW email \in Emails, NEW role \in Roles,
         Invite(r, actor, email, role)
  PROVE  IInv'
<1> DEFINE row == [email |-> email, role |-> role, status |-> "invited",
                   password |-> FALSE, invite |-> TRUE, live |-> TRUE]
           d == [Blank EXCEPT !.at = "insert", !.new = row]
<1>1. Sound(row)
  BY DEF Sound, StaffRow
<1>2. /\ d \in RequestRow /\ d.at = "insert" /\ d.new = row /\ d.seen = {}
  BY <1>1, BlankRow DEF Sound, RequestRow, Blank
<1>3. Pending(d, Len(staff)) /\ Counted(d)
  BY <1>1, <1>2 DEF Pending, Counted, Spare
<1>4. /\ At(r, "done") /\ request' = [request EXCEPT ![r] = d]
      /\ changes < MaxChanges /\ changes' = changes + 1 /\ UNCHANGED <<staff, signed, stale>>
      /\ Len(staff) + Cardinality(Inviting) < MaxStaff
  BY DEF Invite, Ask, Begin, Inviting
<1> HIDE DEF d
<1>5. Carried' /\ request' \in [Requests -> RequestRow]
  <2>1. Pending(d, Len(staff'))
    BY <1>3, <1>4
  <2>2. Len(staff') \in Nat /\ Len(staff) <= Len(staff')
    BY <1>4 DEF IInv, Typed
  <2> QED
    BY <1>3, <1>4, <2>1, <2>2, CarriedOn
<1>6. Room'
  <2>1. Inviting' = Inviting \cup {r} /\ r \notin Inviting
    BY <1>2, <1>4 DEF Inviting, At, IInv, Typed
  <2>2. Cardinality(Inviting') = Cardinality(Inviting) + 1
    BY <2>1, InvitingCount, FS_AddElement
  <2>3. Len(staff) \in Nat
    BY DEF IInv, Typed
  <2> QED
    BY <1>4, <2>2, <2>3, InvitingCount DEF Room
<1>7. Typed'
  <2>1. changes' \in 0 .. MaxChanges
    BY <1>4 DEF IInv, Typed
  <2> QED
    BY <1>4, <1>5, <2>1 DEF IInv, Typed, Ids, Sound, StaffRow
<1>8. OneAccountPerEmail' /\ SuperAdminRemains'
  BY <1>4 DEF IInv, OneAccountPerEmail, SuperAdminRemains, Supers, LiveIds, Ids
<1> QED
  BY <1>5, <1>6, <1>7, <1>8 DEF IInv

\* ... which the row then has, if the index lets it in.
LEMMA InsertInvitedInv ==
  ASSUME IInv, NEW r \in Requests, InsertInvited(r)
  PROVE  IInv'
<1> DEFINE row == request[r].new
           n == Len(staff)
<1>1. Sound(row) /\ At(r, "insert") /\ n \in Nat
  BY RequestRead DEF InsertInvited, At, Pending, IInv, Typed
<1>2. Finish(r) /\ UNCHANGED <<stale, changes>>
  BY DEF InsertInvited
<1>3. CASE UNCHANGED <<staff, signed>>
  BY <1>2, <1>3, EndInv DEF IInv, Typed
<1>4. CASE /\ ~ EmailTaken(0, row) /\ staff' = Append(staff, row)
           /\ signed' = Append(signed, {})
  <2> HIDE DEF row
  <2>1. /\ staff' \in Seq(StaffRow) /\ Len(staff') = n + 1
        /\ \A j \in 1 .. n : staff'[j] = staff[j]
        /\ staff'[n + 1] = row
    BY <1>1, <1>4, AppendProperties DEF IInv, Typed, Sound
  <2>2. signed' \in Seq(SUBSET Roles) /\ Len(signed') = Len(staff')
    BY <1>1, <1>4, <2>1, AppendProperties DEF IInv, Typed
  <2>3. Ids = 1 .. n /\ Ids' = 1 .. (n + 1)
    BY <2>1 DEF Ids
  <2>4. Carried' /\ request' \in [Requests -> RequestRow]
    <3>1. Pending(Blank, Len(staff')) /\ Counted(Blank)
      BY <1>1, <2>1, BlankRow
    <3>2. Len(staff') \in Nat /\ Len(staff) <= Len(staff')
      BY <1>1, <2>1
    <3> QED
      BY <1>2, <3>1, <3>2, CarriedOn DEF Finish
  <2>5. Room'
    <3>1. Inviting' = Inviting \ {r} /\ r \in Inviting
      BY <1>1, <1>2, BlankRow DEF Finish, Inviting, At, IInv, Typed
    <3>2. Cardinality(Inviting') = Cardinality(Inviting) - 1
      BY <3>1, InvitingCount, FS_RemoveElement
    <3> QED
      BY <1>1, <2>1, <3>2, InvitingCount DEF Room, IInv
  <2>6. Typed'
    <3>1. \A j \in 1 .. (n + 1) : Sound(staff'[j])
      BY <1>1, <2>1, <2>3 DEF IInv, Typed
    <3>2. (\A j \in Ids : Sound(staff[j]))'
      BY <2>3, <3>1 DEF Sound, StaffRow
    <3> QED
      BY <1>2, <2>1, <2>2, <2>4, <3>2 DEF IInv, Typed
  <2>7. OneAccountPerEmail'
    <3>1. \A j \in LiveIds' : j \in LiveIds \/ j = n + 1
      BY <1>1, <2>1, <2>3 DEF LiveIds
    <3>2. \A j \in LiveIds : staff'[j] = staff[j]
      BY <2>1, <2>3 DEF LiveIds
    <3>3. n + 1 \in LiveIds' => \A j \in LiveIds : staff[j].email # row.email
      BY <1>1, <1>4, <2>1, <2>3 DEF LiveIds, EmailTaken, Ids
    <3>4. \A j, k \in LiveIds : j # k => staff[j].email # staff[k].email
      BY DEF IInv, OneAccountPerEmail
    <3>5. \A j, k \in LiveIds' : j # k => staff'[j].email # staff'[k].email
      BY <2>1, <3>1, <3>2, <3>3, <3>4
    <3> QED
      BY <3>5 DEF OneAccountPerEmail
  <2>8. SuperAdminRemains'
    <3>1. Supers \subseteq Supers'
      BY <1>1, <2>1, <2>3 DEF Supers, LiveIds
    <3> QED
      BY <1>2, <3>1 DEF IInv, SuperAdminRemains
  <2> QED
    BY <2>4, <2>5, <2>6, <2>7, <2>8 DEF IInv
<1> QED
  BY <1>3, <1>4 DEF InsertInvited

\* An update or a removal begins.
LEMMA AskInv ==
  ASSUME IInv, NEW r \in Requests, NEW i \in Ids, NEW new, Sound(new),
         NEW skip \in {"save", "remove"}, skip = "remove" => ~ new.live,
         Ask(r, [Blank EXCEPT !.at = IF TakesSuper(staff[i], new) THEN "count" ELSE skip,
                              !.id = i, !.row = staff[i], !.new = new])
  PROVE  IInv'
<1> DEFINE at == IF TakesSuper(staff[i], new) THEN "count" ELSE skip
           d == [Blank EXCEPT !.at = at, !.id = i, !.row = staff[i], !.new = new]
<1>1. /\ request' = [request EXCEPT ![r] = d]
      /\ changes < MaxChanges /\ changes' = changes + 1 /\ UNCHANGED <<staff, signed, stale>>
  BY DEF Ask, Begin
<1>2. at \in {"count", "save", "remove"}
  OBVIOUS
<1>3. at # "count" => ~ TakesSuper(staff[i], new) /\ at = skip
  OBVIOUS
<1> HIDE DEF at
<1>4. /\ Sound(staff[i]) /\ staff[i] \in StaffRow /\ new \in StaffRow
      /\ i \in 0 .. MaxStaff /\ i \in 1 .. Len(staff)
  BY RowRead DEF Sound
<1>5. /\ d \in RequestRow /\ d.at = at /\ d.id = i /\ d.row = staff[i] /\ d.new = new
      /\ d.seen = {}
  BY <1>2, <1>4 DEF RequestRow, Blank
<1> HIDE DEF d
<1>6. Pending(d, Len(staff)) /\ d.at # "insert"
  BY <1>2, <1>4, <1>5 DEF Pending
<1>7. Counted(d)
  <2>1. at # "count" /\ IsSuper(staff[i]) => IsSuper(new)
    BY <1>3 DEF TakesSuper
  <2>2. at = "remove" => ~ IsSuper(new)
    BY <1>3 DEF IsSuper
  <2> QED
    BY <1>5, <2>1, <2>2 DEF Counted, Spare
<1>8. changes' \in 0 .. MaxChanges
  BY <1>1 DEF IInv, Typed
<1> QED
  BY <1>1, <1>6, <1>7, <1>8, MoveInv DEF IInv, Typed

LEMMA UpdateInv ==
  ASSUME IInv, NEW r \in Requests, NEW actor \in Ids, NEW i \in Ids, NEW role \in Roles,
         NEW status \in {"invited", "active", "suspended"}, Update(r, actor, i, role, status)
  PROVE  IInv'
<1> DEFINE new == [staff[i] EXCEPT !.role = role, !.status = status]
<1>1. Sound(staff[i]) /\ status \in {"active", "suspended", staff[i].status}
  BY RowRead DEF Update
<1>2. Sound(new)
  BY <1>1 DEF Sound, StaffRow
<1>3. Ask(r, [Blank EXCEPT !.at = IF TakesSuper(staff[i], new) THEN "count" ELSE "save",
                           !.id = i, !.row = staff[i], !.new = new])
  BY DEF Update
<1> HIDE DEF new
<1> QED
  BY <1>2, <1>3, AskInv

LEMMA RemoveInv ==
  ASSUME IInv, NEW r \in Requests, NEW actor \in Ids, NEW i \in Ids, Remove(r, actor, i)
  PROVE  IInv'
<1> DEFINE new == [staff[i] EXCEPT !.live = FALSE]
<1>1. Sound(new) /\ ~ new.live
  BY RowRead DEF Sound, StaffRow
<1>2. Ask(r, [Blank EXCEPT !.at = IF TakesSuper(staff[i], new) THEN "count" ELSE "remove",
                           !.id = i, !.row = staff[i], !.new = new])
  BY DEF Remove
<1> HIDE DEF new
<1> QED
  BY <1>1, <1>2, AskInv

\* More than one super admin: without any of them there is another.
LEMMA ManyIsSpare ==
  ASSUME IInv, ~ (Cardinality(Supers) <= 1)
  PROVE  Spare(Supers) /\ Supers \in SUBSET (1 .. MaxStaff)
<1>1. Len(staff) \in Nat /\ Len(staff) <= MaxStaff
  BY InvitingCount DEF IInv, Typed, Room
<1>2. Supers \in SUBSET (1 .. Len(staff))
  BY DEF Supers, LiveIds, Ids
<1>3. ASSUME NEW i \in Nat, ~ \E j \in Supers : j # i
      PROVE  FALSE
  <2>1. Supers \in SUBSET {i}
    BY <1>3
  <2>2. IsFiniteSet({i}) /\ Cardinality({i}) = 1
    BY FS_Singleton
  <2>3. IsFiniteSet(Supers) /\ Cardinality(Supers) <= Cardinality({i})
    BY <2>1, <2>2, FS_Subset
  <2> QED
    BY <2>2, <2>3
<1>4. Supers \in SUBSET (1 .. MaxStaff)
  BY <1>1, <1>2
<1> QED
  BY <1>3, <1>4 DEF Spare

LEMMA CountSupersInv ==
  ASSUME IInv, NEW r \in Requests, CountSupers(r)
  PROVE  IInv'
<1>1. CASE Cardinality(Supers) <= 1
  BY <1>1, EndInv DEF CountSupers, IInv, Typed
<1>2. CASE ~ (Cardinality(Supers) <= 1)
  <2> DEFINE at == IF request[r].new.live THEN "save" ELSE "remove"
             d == [request[r] EXCEPT !.seen = Supers, !.at = at]
  <2>1. at \in {"save", "remove"}
    OBVIOUS
  <2>2. request' = [request EXCEPT ![r] = d] /\ request[r].at = "count"
    BY <1>2 DEF CountSupers, At
  <2> HIDE DEF at
  <2>3. /\ Sound(request[r].row) /\ Sound(request[r].new)
        /\ request[r].id \in 1 .. Len(staff) /\ request[r] \in RequestRow
    BY <2>2, RequestRead DEF Pending
  <2>4. Spare(Supers) /\ Supers \in SUBSET (1 .. MaxStaff)
    BY <1>2, ManyIsSpare
  <2>5. /\ d \in RequestRow /\ d.at = at /\ d.id = request[r].id /\ d.row = request[r].row
        /\ d.new = request[r].new /\ d.seen = Supers
    BY <2>1, <2>3, <2>4 DEF RequestRow
  <2> HIDE DEF d
  <2>6. Supers # {}
    BY <1>2, FS_EmptySet
  <2>7. Pending(d, Len(staff)) /\ Counted(d) /\ d.at # "insert"
    BY <2>1, <2>3, <2>4, <2>5, <2>6 DEF Pending, Counted
  <2> QED
    BY <2>2, <2>7, MoveInv DEF CountSupers, IInv, Typed
<1> QED
  BY <1>1, <1>2

LEMMA SaveUpdateInv ==
  ASSUME IInv, NEW r \in Requests, SaveUpdate(r)
  PROVE  IInv'
<1> DEFINE next == IF request[r].new # request[r].row THEN "revoke" ELSE "done"
<1>1. /\ request[r].at = "save" /\ Save(r, request[r].new, next)
      /\ UNCHANGED <<signed, changes>>
  BY DEF SaveUpdate, At
<1>2. next \in {"done", "revoke", "issue"}
  OBVIOUS
<1>3. /\ Sound(request[r].new)
      /\ request[r].seen = {} /\ IsSuper(request[r].row) => IsSuper(request[r].new)
  BY <1>1, RequestRead DEF Pending, Counted
<1> HIDE DEF next
<1> QED
  BY <1>1, <1>2, <1>3, SavedInv

LEMMA SoftRemoveInv ==
  ASSUME IInv, NEW r \in Requests, SoftRemove(r)
  PROVE  IInv'
<1> DEFINE i == request[r].id
           row == [staff[i] EXCEPT !.live = FALSE]
           d == [request[r] EXCEPT !.at = "revoke"]
<1>1. /\ request[r].at = "remove" /\ staff' = [staff EXCEPT ![i] = row]
      /\ stale' = (stale \/ OldCopy(r) \/ OldCount(r))
      /\ request' = [request EXCEPT ![r] = d] /\ UNCHANGED <<signed, changes>>
  BY DEF SoftRemove, At, Goto
<1>2. i \in Ids
  BY <1>1, RequestRead
<1>3. Sound(row) /\ ~ row.live
  BY <1>2, RowRead DEF Sound, StaffRow
<1>4. ~ EmailTaken(i, row)
  BY <1>3 DEF EmailTaken
<1>5. request[r].seen = {} => ~ IsSuper(request[r].row)
  BY <1>1, RequestRead DEF Counted
<1>6. Pending(d, Len(staff)) /\ Counted(d) /\ d.at # "insert"
  BY <1>1, GoneOn
<1>7. i = request[r].id
  OBVIOUS
<1> HIDE DEF row, d, i
<1> QED
  BY <1>1, <1>2, <1>3, <1>4, <1>5, <1>6, <1>7, SaveInv

LEMMA RevokeAllInv ==
  ASSUME IInv, NEW r \in Requests, RevokeAll(r)
  PROVE  IInv'
<1>1. request[r].id \in Ids
  BY RequestRead DEF RevokeAll, At
<1>2. request[r].id \in 1 .. Len(signed)
  BY <1>1 DEF IInv, Typed, Ids
<1>3. signed' \in Seq(SUBSET Roles) /\ Len(signed') = Len(signed)
  BY <1>2, ExceptSeq DEF RevokeAll, IInv, Typed
<1> QED
  BY <1>3, EndInv DEF RevokeAll, IInv, Typed

-----------------------------------------------------------------------------
(* Getting in.                                                             *)

\* A request reads an account, to save it later.
LEMMA ReadInv ==
  ASSUME IInv, NEW r \in Requests, NEW i \in Ids, NEW at \in {"accept", "touch"},
         request' = [request EXCEPT ![r] = [Blank EXCEPT !.at = at, !.id = i, !.row = staff[i]]],
         UNCHANGED <<staff, signed, stale, changes>>
  PROVE  IInv'
<1> DEFINE d == [Blank EXCEPT !.at = at, !.id = i, !.row = staff[i]]
<1>1. /\ Sound(staff[i]) /\ staff[i] \in StaffRow /\ i \in 0 .. MaxStaff
      /\ i \in 1 .. Len(staff)
  BY RowRead
<1>2. d \in RequestRow /\ d.at = at /\ d.id = i /\ d.row = staff[i] /\ d.seen = {}
  BY <1>1 DEF RequestRow, Blank
<1>3. request' = [request EXCEPT ![r] = d]
  OBVIOUS
<1> HIDE DEF d
<1>4. Pending(d, Len(staff)) /\ Counted(d) /\ d.at # "insert"
  BY <1>1, <1>2 DEF Pending, Counted, Spare
<1> QED
  BY <1>3, <1>4, MoveInv DEF IInv, Typed

LEMMA AcceptInviteInv ==
  ASSUME IInv, NEW r \in Requests, NEW i \in Ids, AcceptInvite(r, i)
  PROVE  IInv'
  BY ReadInv DEF AcceptInvite, Begin

LEMMA LoginInv ==
  ASSUME IInv, NEW r \in Requests, NEW i \in Ids, Login(r, i)
  PROVE  IInv'
  BY ReadInv DEF Login, Begin

LEMMA SaveAcceptedInv ==
  ASSUME IInv, NEW r \in Requests, SaveAccepted(r)
  PROVE  IInv'
<1> DEFINE row == [request[r].row EXCEPT !.password = TRUE, !.status = "active",
                                         !.invite = FALSE]
<1>1. request[r].at = "accept" /\ Save(r, row, "issue") /\ UNCHANGED <<signed, changes>>
  BY DEF SaveAccepted, At
<1>2. Sound(request[r].row)
  BY <1>1, RequestRead
<1>3. Sound(row) /\ (IsSuper(request[r].row) => IsSuper(row))
  BY <1>2 DEF Sound, StaffRow, IsSuper
<1> HIDE DEF row
<1> QED
  BY <1>1, <1>3, SavedInv

LEMMA OnLoginInv ==
  ASSUME IInv, NEW r \in Requests, OnLogin(r)
  PROVE  IInv'
<1>1. /\ request[r].at = "touch" /\ Save(r, request[r].row, "issue")
      /\ UNCHANGED <<signed, changes>>
  BY DEF OnLogin, At
<1>2. Sound(request[r].row)
  BY <1>1, RequestRead
<1> QED
  BY <1>1, <1>2, SavedInv

LEMMA IssueTokensInv ==
  ASSUME IInv, NEW r \in Requests, IssueTokens(r)
  PROVE  IInv'
<1>1. request[r].id \in Ids /\ Sound(request[r].row)
  BY RequestRead DEF IssueTokens, At
<1>2. request[r].id \in 1 .. Len(signed) /\ request[r].row.role \in Roles
  BY <1>1 DEF IInv, Typed, Ids, Sound, StaffRow
<1>3. signed[request[r].id] \cup {request[r].row.role} \in SUBSET Roles
  BY <1>2, ElementOfSeq DEF IInv, Typed
<1>4. signed' \in Seq(SUBSET Roles) /\ Len(signed') = Len(signed)
  BY <1>2, <1>3, ExceptSeq DEF IssueTokens, IInv, Typed
<1> QED
  BY <1>4, EndInv DEF IssueTokens, IInv, Typed

\* The sessions of an account change, and no request.
LEMMA SessionsInv ==
  ASSUME IInv, NEW i \in Ids, NEW roles \in SUBSET Roles,
         signed' = [signed EXCEPT ![i] = roles],
         UNCHANGED <<staff, request, stale, changes>>
  PROVE  IInv'
<1>1. i \in 1 .. Len(signed)
  BY DEF IInv, Typed, Ids
<1>2. signed' \in Seq(SUBSET Roles) /\ Len(signed') = Len(signed)
  BY <1>1, ExceptSeq DEF IInv, Typed
<1>3. Typed'
  BY <1>2 DEF IInv, Typed, Ids, Sound, StaffRow
<1>4. Carried'
  BY DEF IInv, Carried, Pending, Counted, Spare, Sound, IsSuper, RequestRow, StaffRow
<1>5. Room'
  BY DEF IInv, Room, Inviting, At
<1>6. OneAccountPerEmail' /\ SuperAdminRemains'
  BY DEF IInv, OneAccountPerEmail, SuperAdminRemains, Supers, LiveIds, Ids
<1> QED
  BY <1>3, <1>4, <1>5, <1>6 DEF IInv

LEMMA RefreshInv ==
  ASSUME IInv, NEW i \in Ids, Refresh(i)
  PROVE  IInv'
<1>1. i \in 1 .. Len(signed) /\ staff[i].role \in Roles
  BY RowRead DEF IInv, Typed, Ids, StaffRow
<1>2. signed[i] \cup {staff[i].role} \in SUBSET Roles
  BY <1>1, ElementOfSeq DEF IInv, Typed
<1> QED
  BY <1>2, SessionsInv DEF Refresh

LEMMA StepInv == IInv /\ [Next]_vars => IInv'
<1> SUFFICES ASSUME IInv, [Next]_vars PROVE IInv'
  OBVIOUS
<1>1. ASSUME NEW r \in Requests, Manage(r)
      PROVE  IInv'
  BY <1>1, InviteInv, UpdateInv, RemoveInv DEF Manage
<1>2. ASSUME NEW r \in Requests, NEW i \in Ids, AcceptInvite(r, i) \/ Login(r, i)
      PROVE  IInv'
  BY <1>2, AcceptInviteInv, LoginInv
<1>3. ASSUME NEW r \in Requests,
             \/ InsertInvited(r) \/ CountSupers(r) \/ SaveUpdate(r) \/ SoftRemove(r)
             \/ RevokeAll(r)
      PROVE  IInv'
  BY <1>3, InsertInvitedInv, CountSupersInv, SaveUpdateInv, SoftRemoveInv, RevokeAllInv
<1>4. ASSUME NEW r \in Requests,
             SaveAccepted(r) \/ OnLogin(r) \/ IssueTokens(r)
      PROVE  IInv'
  BY <1>4, SaveAcceptedInv, OnLoginInv, IssueTokensInv
<1>5. ASSUME NEW r \in Requests, CutOff(r)
      PROVE  IInv'
  BY <1>5, EndInv DEF CutOff, IInv, Typed
<1>6. ASSUME NEW i \in Ids, Refresh(i)
      PROVE  IInv'
  BY <1>6, RefreshInv
<1>7. ASSUME NEW i \in Ids, SessionsEnd(i)
      PROVE  IInv'
  <2>1. {} \in SUBSET Roles
    OBVIOUS
  <2> QED
    BY <1>7, <2>1, SessionsInv DEF SessionsEnd
<1>8. CASE UNCHANGED vars
  <2>1. Typed'
    BY <1>8 DEF IInv, Typed, Ids, Sound, StaffRow, RequestRow, vars
  <2>2. Carried'
    BY <1>8 DEF IInv, Carried, Pending, Counted, Spare, Sound, IsSuper, RequestRow, StaffRow, vars
  <2>3. Room'
    BY <1>8 DEF IInv, Room, Inviting, At, vars
  <2>4. OneAccountPerEmail' /\ SuperAdminRemains'
    BY <1>8 DEF IInv, OneAccountPerEmail, SuperAdminRemains, Supers, LiveIds, Ids, vars
  <2> QED
    BY <2>1, <2>2, <2>3, <2>4 DEF IInv
<1> QED
  BY <1>1, <1>2, <1>3, <1>4, <1>5, <1>6, <1>7, <1>8 DEF Next

-----------------------------------------------------------------------------
(* The theorems.                                                           *)

\* The invariant that the properties of Staff follow from: what every request
\* under way holds of the account it is about, and of the super admins it counted.
THEOREM Invariance == Spec => []IInv
  BY InitInv, StepInv, PTL DEF Spec

\* Every row and every copy a request holds has its columns, and who is invited
\* has an invitation and no password yet, whatever is saved over what.
THEOREM TypeCorrect == Spec => []TypeOK
<1>1. IInv => TypeOK
  <2> SUFFICES ASSUME IInv PROVE TypeOK
    OBVIOUS
  <2>1. Len(staff) \in Nat /\ Len(staff) <= MaxStaff
    BY InvitingCount DEF IInv, Typed, Room
  <2>2. signed \in [Ids -> SUBSET Roles]
    BY DEF IInv, Typed, Ids
  <2>3. \A i \in Ids : staff[i].status = "invited" => ~ staff[i].password /\ staff[i].invite
    BY DEF IInv, Typed, Sound
  <2> QED
    BY <2>1, <2>2, <2>3 DEF IInv, Typed, TypeOK
<1> QED
  BY <1>1, Invariance, PTL

\* However many admins manage each other, the platform keeps one that is active,
\* as long as nobody's copy or count was out of date when it was used
\* (assertNotLastActiveSuperAdmin).
THEOREM SuperAdminStays == Spec => []SuperAdminRemains
<1>1. IInv => SuperAdminRemains
  BY DEF IInv
<1> QED
  BY <1>1, Invariance, PTL

\* The index on the live emails holds through every invitation and through every
\* save that brings a removed account back (uq_platform_staff_email).
THEOREM EmailsAreUnique == Spec => []OneAccountPerEmail
<1>1. IInv => OneAccountPerEmail
  BY DEF IInv
<1> QED
  BY <1>1, Invariance, PTL
=============================================================================
