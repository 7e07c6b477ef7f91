---------------------------- MODULE MembersProofs ----------------------------
(***************************************************************************)
(* Proofs about Members, for any number of people, requests, invitations   *)
(* and seats.  A step is one of three kinds: it moves one request on and   *)
(* leaves the tables alone (MoveInv); it writes outside the advisory lock, *)
(* which takes no seat unless a copy was out of date (OutsideInv); or it   *)
(* writes under the lock, when nobody else is between a look or a count    *)
(* and the write that relies on it (InsideInv).                            *)
(***************************************************************************)
EXTENDS Members, FiniteSetTheorems, SequenceTheorems, TLAPS

USE OwnerAssumption, FiniteAssumption, RolesAssumption, LimitsAssumption,
    BoundsAssumption, NoRequestAssumption, NothingAssumption

-----------------------------------------------------------------------------
(* The inductive invariant.                                                *)

Sound(invite) == invite \in InviteRow /\ invite.token \in 1 .. MaxTokens

Rows == {e \in Emails : member[e] # Nothing}
Inside == {"look", "count", "write", "join"}
MintingOps == {"invite", "reinvite", "resend"}
Minting == {q \in Requests : request[q].op \in MintingOps}

\* Which operations are in the middle of what.
OnItsWay(d) ==
    /\ d.at = "done" => d.op = "none"
    /\ d.at = "lock" => d.op \in {"invite", "promote", "accept", "claim"}
    /\ d.at = "look" => d.op = "invite"
    /\ d.at \in {"count", "write"} => d.op \in {"invite", "reinvite", "promote"}
    /\ d.at = "join" => d.op \in {"accept", "claim"}
    /\ d.at = "resend" => d.op = "resend"
    /\ d.at = "revoke" => d.op = "revoke"
    /\ d.at = "save" => d.op = "promote"
    /\ d.at = "remove" => d.op = "remove"

\* What a request carries, over n invitations and the people that have a row.
Carries(d, n, rows) ==
    /\ d \in RequestRow
    /\ OnItsWay(d)
    /\ d.op \in {"reinvite", "resend", "revoke", "accept", "claim"} =>
         /\ d.id \in 1 .. n /\ Sound(d.copy)
         /\ d.copy.status = "pending" /\ d.copy.email = d.email
    /\ d.op \in {"accept", "claim"} => d.role = d.copy.role
    /\ d.op \in {"invite", "reinvite", "promote"} => d.role \in Roles
    /\ d.op = "promote" =>
         /\ d.was \in MemberRow /\ d.was.live
         /\ IF d.at = "save" THEN d.role = "AGENT" => d.was.role = "AGENT"
                             ELSE d.role = "AGENT"
    /\ d.op \in {"promote", "remove"} => d.email \in rows

\* LookedStaysTrue of one request.
Looked(d) ==
    d.op = "invite" /\ d.at \in {"count", "write"} /\ ~ stale =>
      /\ ~ Joined(d.email)
      /\ \A i \in Pending : invites[i].email # d.email

\* Who has counted still has the seat it needs, until it writes.
Counted(d) ==
    d.at = "write" /\ ~ stale =>
      /\ d.op = "invite" => Cardinality(Live) + Cardinality(Pending) < MaxMembers
      /\ d.role = "AGENT" /\ (d.op = "reinvite" => d.copy.role # "AGENT") =>
           Cardinality(Agents) + Cardinality(PendingAgents) < MaxAgents

Typed ==
    /\ account \subseteq Emails
    /\ member \in [Emails -> MemberRow \cup {Nothing}]
    /\ invites \in Seq(InviteRow)
    /\ \A i \in 1 .. Len(invites) : Sound(invites[i])
    /\ minted \in Nat
    /\ expired \subseteq 1 .. MaxTokens
    /\ lock \in Requests \cup {NoRequest}
    /\ request \in [Requests -> RequestRow]
    /\ stale \in BOOLEAN

\* The tokens there are and those that requests under way will make.
MintRoom == minted + Cardinality(Minting) <= MaxTokens

Carried == \A q \in Requests : Carries(request[q], Len(invites), Rows)
CountedStaysTrue == \A q \in Requests : Counted(request[q])

TablesInv == AcceptedHasJoined /\ SeatsReserved

IInv ==
    /\ Typed /\ Carried /\ OneAtATime /\ MintRoom
    /\ LookedStaysTrue /\ CountedStaysTrue /\ TablesInv

-----------------------------------------------------------------------------
(* Counting.                                                               *)

\* What is counted is finite.
LEMMA Countable ==
  ASSUME invites \in Seq(InviteRow)
  PROVE  /\ IsFiniteSet(Live) /\ IsFiniteSet(Agents)
         /\ IsFiniteSet(Pending) /\ IsFiniteSet(PendingAgents)
         /\ Cardinality(Live) \in Nat /\ Cardinality(Agents) \in Nat
         /\ Cardinality(Pending) \in Nat /\ Cardinality(PendingAgents) \in Nat
<1>1. Live \in SUBSET Emails /\ Agents \in SUBSET Emails
  BY DEF Live, Agents
<1>2. IsFiniteSet(Live) /\ IsFiniteSet(Agents)
  BY <1>1, FS_Subset
<1>3. IsFiniteSet(1 .. Len(invites))
  BY FS_Interval
<1>4. Pending \in SUBSET (1 .. Len(invites)) /\ PendingAgents \in SUBSET (1 .. Len(invites))
  BY DEF Pending, PendingAgents
<1>5. IsFiniteSet(Pending) /\ IsFiniteSet(PendingAgents)
  BY <1>3, <1>4, FS_Subset
<1> QED
  BY <1>2, <1>5, FS_CardinalityType

LEMMA MintingCount == IsFiniteSet(Minting) /\ Cardinality(Minting) \in Nat
<1>1. Minting \in SUBSET Requests
  BY DEF Minting
<1>2. IsFiniteSet(Minting)
  BY <1>1, FS_Subset
<1> QED
  BY <1>2, FS_CardinalityType

\* One request changes: how many are minting then.
LEMMA MintingMoved ==
  ASSUME Typed, NEW r \in Requests, NEW d, request' = [request EXCEPT ![r] = d]
  PROVE  /\ (d.op \in MintingOps <=> r \in Minting) =>
              Cardinality(Minting') = Cardinality(Minting)
         /\ d.op \in MintingOps /\ r \notin Minting =>
              Cardinality(Minting') = Cardinality(Minting) + 1
         /\ d.op \notin MintingOps /\ r \in Minting =>
              Cardinality(Minting') = Cardinality(Minting) - 1
<1>1. Cardinality(Minting \cup {r}) =
        IF r \in Minting THEN Cardinality(Minting) ELSE Cardinality(Minting) + 1
  BY MintingCount, FS_AddElement
<1>2. Cardinality(Minting \ {r}) =
        IF r \in Minting THEN Cardinality(Minting) - 1 ELSE Cardinality(Minting)
  BY MintingCount, FS_RemoveElement
<1>3. Minting' = IF d.op \in MintingOps THEN Minting \cup {r} ELSE Minting \ {r}
  BY DEF Minting, Typed
<1> QED
  BY <1>1, <1>2, <1>3

\* A set that loses members, gains at most one, or loses a certain one.
LEMMA NoMore ==
  ASSUME NEW S, IsFiniteSet(S), NEW T, T \subseteq S
  PROVE  IsFiniteSet(T) /\ Cardinality(T) \in Nat /\ Cardinality(T) <= Cardinality(S)
<1>1. T \in SUBSET S
  OBVIOUS
<1>2. IsFiniteSet(T) /\ Cardinality(T) <= Cardinality(S)
  BY <1>1, FS_Subset
<1> QED
  BY <1>2, FS_CardinalityType

LEMMA AtMostOneMore ==
  ASSUME NEW S, IsFiniteSet(S), NEW x, NEW T, T \subseteq S \cup {x}
  PROVE  IsFiniteSet(T) /\ Cardinality(T) \in Nat /\ Cardinality(T) <= Cardinality(S) + 1
<1>1. /\ IsFiniteSet(S \cup {x}) /\ Cardinality(S) \in Nat
      /\ Cardinality(S \cup {x}) = IF x \in S THEN Cardinality(S) ELSE Cardinality(S) + 1
  BY FS_AddElement, FS_CardinalityType
<1>2. IsFiniteSet(T) /\ Cardinality(T) \in Nat /\ Cardinality(T) <= Cardinality(S \cup {x})
  BY <1>1, NoMore
<1> QED
  BY <1>1, <1>2

LEMMA OneLess ==
  ASSUME NEW S, IsFiniteSet(S), NEW x \in S, NEW T, T \subseteq S \ {x}
  PROVE  IsFiniteSet(T) /\ Cardinality(T) \in Nat /\ Cardinality(T) <= Cardinality(S) - 1
<1>1. IsFiniteSet(S \ {x}) /\ Cardinality(S) \in Nat /\ Cardinality(S \ {x}) = Cardinality(S) - 1
  BY FS_RemoveElement, FS_CardinalityType
<1>2. IsFiniteSet(T) /\ Cardinality(T) \in Nat /\ Cardinality(T) <= Cardinality(S \ {x})
  BY <1>1, NoMore
<1> QED
  BY <1>1, <1>2

\* Seats that are given up: what is counted becomes no more.
LEMMA FewerSeats ==
  ASSUME Typed, Live' \subseteq Live, Pending' \subseteq Pending,
         Agents' \subseteq Agents, PendingAgents' \subseteq PendingAgents
  PROVE  /\ Cardinality(Live') + Cardinality(Pending')
              <= Cardinality(Live) + Cardinality(Pending)
         /\ Cardinality(Agents') + Cardinality(PendingAgents')
              <= Cardinality(Agents) + Cardinality(PendingAgents)
         /\ Cardinality(Live') \in Nat /\ Cardinality(Pending') \in Nat
         /\ Cardinality(Agents') \in Nat /\ Cardinality(PendingAgents') \in Nat
<1>1. /\ IsFiniteSet(Live) /\ IsFiniteSet(Agents)
      /\ IsFiniteSet(Pending) /\ IsFiniteSet(PendingAgents)
      /\ Cardinality(Live) \in Nat /\ Cardinality(Agents) \in Nat
      /\ Cardinality(Pending) \in Nat /\ Cardinality(PendingAgents) \in Nat
  BY Countable DEF Typed
<1>2. Cardinality(Live') \in Nat /\ Cardinality(Live') <= Cardinality(Live)
  BY <1>1, NoMore
<1>3. Cardinality(Pending') \in Nat /\ Cardinality(Pending') <= Cardinality(Pending)
  BY <1>1, NoMore
<1>4. Cardinality(Agents') \in Nat /\ Cardinality(Agents') <= Cardinality(Agents)
  BY <1>1, NoMore
<1>5. /\ Cardinality(PendingAgents') \in Nat
      /\ Cardinality(PendingAgents') <= Cardinality(PendingAgents)
  BY <1>1, NoMore
<1> QED
  BY <1>1, <1>2, <1>3, <1>4, <1>5

-----------------------------------------------------------------------------
(* The requests.                                                           *)

LEMMA BlankRow ==
  ASSUME NEW n, NEW rows
  PROVE  /\ Carries(Blank, n, rows) /\ Looked(Blank) /\ Counted(Blank)
         /\ Blank.at = "done" /\ Blank.op = "none" /\ Blank \in RequestRow
<1>1. Blank.at = "done" /\ Blank.op = "none" /\ Blank \in RequestRow
  BY DEF Blank, RequestRow
<1> QED
  BY <1>1 DEF Carries, OnItsWay, Looked, Counted

\* What a request carries it still carries over larger tables.
LEMMA CarriedOn ==
  ASSUME IInv, NEW r \in Requests, NEW d, Carries(d, Len(invites'), Rows'),
         request' = [request EXCEPT ![r] = d],
         Len(invites') \in Nat, Len(invites) <= Len(invites'), Rows \subseteq Rows'
  PROVE  Carried' /\ request' \in [Requests -> RequestRow]
<1>1. d \in RequestRow
  BY DEF Carries
<1>2. request' \in [Requests -> RequestRow]
  BY <1>1 DEF IInv, Typed
<1>3. \A i : i \in 1 .. Len(invites) => i \in 1 .. Len(invites')
  BY DEF IInv, Typed
<1>4. ASSUME NEW q \in Requests
      PROVE  Carries(request'[q], Len(invites'), Rows')
  <2>1. CASE q = r
    BY <2>1 DEF IInv, Typed
  <2>2. CASE q # r
    <3>1. request'[q] = request[q] /\ Carries(request[q], Len(invites), Rows)
      BY <2>2 DEF IInv, Typed, Carried
    <3> QED
      BY <1>3, <3>1 DEF Carries
  <2> QED
    BY <2>1, <2>2
<1>5. Carried' <=> \A q \in Requests : Carries(request'[q], Len(invites'), Rows')
  BY DEF Carried, Carries, Sound, OnItsWay, RequestRow, InviteRow, MemberRow
<1> QED
  BY <1>2, <1>4, <1>5

\* The lock stays with who holds it, is taken when it is free, or is let go of.
LEMMA LockKept ==
  ASSUME IInv, NEW r \in Requests, NEW d, request' = [request EXCEPT ![r] = d],
         \/ lock' = lock /\ (d.at \in Inside <=> lock = r)
         \/ lock = NoRequest /\ lock' = r /\ d.at \in Inside
         \/ lock' = (IF lock = r THEN NoRequest ELSE lock) /\ d.at \notin Inside
  PROVE  OneAtATime' /\ lock' \in Requests \cup {NoRequest}
<1>1. request'[r] = d /\ \A q \in Requests : q # r => request'[q] = request[q]
  BY DEF IInv, Typed
<1>2. lock' \in Requests \cup {NoRequest}
  BY DEF IInv, Typed
<1> QED
  BY <1>1, <1>2 DEF IInv, Typed, OneAtATime, Inside

\* A request moves on and the tables stay as they are.
LEMMA MoveInv ==
  ASSUME IInv, NEW r \in Requests, NEW d, request' = [request EXCEPT ![r] = d],
         Carries(d, Len(invites), Rows), Looked(d), Counted(d),
         d.op \in MintingOps /\ r \notin Minting => minted + Cardinality(Minting) < MaxTokens,
         \/ lock' = lock /\ (d.at \in Inside <=> lock = r)
         \/ lock = NoRequest /\ lock' = r /\ d.at \in Inside
         \/ lock' = (IF lock = r THEN NoRequest ELSE lock) /\ d.at \notin Inside,
         UNCHANGED <<account, member, invites, minted, expired, stale>>
  PROVE  IInv'
<1>1. Carried' /\ request' \in [Requests -> RequestRow]
  <2>1. Rows' = Rows
    BY DEF Rows
  <2>2. Carries(d, Len(invites'), Rows') /\ Rows \subseteq Rows'
    BY <2>1
  <2>3. Len(invites') \in Nat /\ Len(invites) <= Len(invites')
    BY DEF IInv, Typed
  <2> QED
    BY <2>2, <2>3, CarriedOn
<1>2. OneAtATime' /\ lock' \in Requests \cup {NoRequest}
  BY LockKept
<1>3. MintRoom'
  <2>1. /\ minted \in Nat /\ minted + Cardinality(Minting) <= MaxTokens
        /\ Cardinality(Minting) \in Nat /\ minted' = minted
    BY MintingCount DEF IInv, Typed, MintRoom
  <2>2. \/ Cardinality(Minting') = Cardinality(Minting)
        \/ /\ Cardinality(Minting') = Cardinality(Minting) + 1
           /\ minted + Cardinality(Minting) < MaxTokens
        \/ Cardinality(Minting') = Cardinality(Minting) - 1
    BY MintingMoved DEF IInv
  <2> QED
    BY <2>1, <2>2 DEF MintRoom
<1>4. Typed'
  BY <1>1, <1>2 DEF IInv, Typed, Sound, InviteRow
<1>5. Live' = Live /\ Pending' = Pending /\ Agents' = Agents /\ PendingAgents' = PendingAgents
  BY DEF Live, Pending, Agents, PendingAgents
<1>6. request'[r] = d /\ \A q \in Requests : q # r => request'[q] = request[q]
  BY DEF IInv, Typed
<1>7. LookedStaysTrue'
  BY <1>5, <1>6 DEF IInv, LookedStaysTrue, Looked, Joined
<1>8. CountedStaysTrue'
  <2> SUFFICES ASSUME NEW q \in Requests PROVE Counted(request[q])'
    BY DEF CountedStaysTrue
  <2>1. Counted(request'[q])
    BY <1>6 DEF IInv, CountedStaysTrue
  <2> QED
    BY <1>5, <2>1 DEF Counted
<1>9. TablesInv'
  BY <1>5 DEF IInv, TablesInv, AcceptedHasJoined, SeatsReserved, WithinLimits
<1> QED
  BY <1>1, <1>2, <1>3, <1>4, <1>7, <1>8, <1>9 DEF IInv

\* A request ends without having written.
LEMMA EndInv ==
  ASSUME IInv, NEW r \in Requests, Finish(r),
         UNCHANGED <<account, member, invites, minted, expired, stale>>
  PROVE  IInv'
<1>1. Blank.at \notin Inside /\ Blank.op \notin MintingOps
  BY BlankRow DEF Inside, MintingOps
<1>2. Carries(Blank, Len(invites), Rows) /\ Looked(Blank) /\ Counted(Blank)
  BY BlankRow
<1> QED
  BY <1>1, <1>2, MoveInv DEF Finish

-----------------------------------------------------------------------------
(* Steps that write.                                                       *)

\* What all of them do: the request ends, and no row is lost.
Writes(r) ==
    /\ Finish(r)
    /\ account \subseteq account' /\ account' \subseteq Emails
    /\ member' \in [Emails -> MemberRow \cup {Nothing}] /\ Rows \subseteq Rows'
    /\ invites' \in Seq(InviteRow) /\ Len(invites) <= Len(invites')
    /\ \A i \in 1 .. Len(invites') : Sound(invites'[i])
    /\ minted' # minted => minted' = minted + 1 /\ r \in Minting
    /\ expired' = expired
    /\ stale' \in BOOLEAN /\ (stale => stale')

LEMMA RequestsAfterWrite ==
  ASSUME IInv, NEW r \in Requests, Writes(r)
  PROVE  /\ Typed' /\ Carried' /\ OneAtATime' /\ MintRoom'
         /\ request'[r] = Blank
         /\ \A q \in Requests : q # r => request'[q] = request[q]
<1>1. /\ request' = [request EXCEPT ![r] = Blank]
      /\ lock' = (IF lock = r THEN NoRequest ELSE lock)
  BY DEF Writes, Finish
<1>2. Carried' /\ request' \in [Requests -> RequestRow]
  <2>1. Carries(Blank, Len(invites'), Rows')
    BY BlankRow
  <2>2. Len(invites') \in Nat /\ Len(invites) <= Len(invites') /\ Rows \subseteq Rows'
    BY DEF Writes
  <2> QED
    BY <1>1, <2>1, <2>2, CarriedOn
<1>3. Blank.at \notin Inside /\ Blank.op \notin MintingOps
  BY BlankRow DEF Inside, MintingOps
<1>4. OneAtATime' /\ lock' \in Requests \cup {NoRequest}
  BY <1>1, <1>3, LockKept
<1>5. MintRoom' /\ minted' \in Nat
  <2>1. minted \in Nat /\ minted + Cardinality(Minting) <= MaxTokens /\ Cardinality(Minting) \in Nat
    BY MintingCount DEF IInv, Typed, MintRoom
  <2>2. /\ r \in Minting => Cardinality(Minting') = Cardinality(Minting) - 1
        /\ r \notin Minting => Cardinality(Minting') = Cardinality(Minting)
    BY <1>1, <1>3, MintingMoved DEF IInv
  <2> QED
    BY <2>1, <2>2 DEF MintRoom, Writes
<1>6. Typed'
  <2>1. (\A i \in 1 .. Len(invites) : Sound(invites[i]))'
    BY DEF Writes, Sound, InviteRow
  <2>2. expired' \subseteq 1 .. MaxTokens
    BY DEF Writes, IInv, Typed
  <2> QED
    BY <1>2, <1>4, <1>5, <2>1, <2>2 DEF Typed, Writes
<1>7. request'[r] = Blank /\ \A q \in Requests : q # r => request'[q] = request[q]
  BY <1>1 DEF IInv, Typed
<1> QED
  BY <1>2, <1>4, <1>5, <1>6, <1>7

\* Outside the lock a write takes no seat, and nobody's email, unless a copy was
\* out of date.
LEMMA OutsideInv ==
  ASSUME IInv, NEW r \in Requests, Writes(r), AcceptedHasJoined',
         ~ stale' => /\ Live' \subseteq Live /\ Pending' \subseteq Pending
                     /\ Agents' \subseteq Agents /\ PendingAgents' \subseteq PendingAgents
                     /\ \A i \in Pending' : invites'[i].email = invites[i].email
  PROVE  IInv'
<1>1. /\ Typed' /\ Carried' /\ OneAtATime' /\ MintRoom' /\ request'[r] = Blank
      /\ \A q \in Requests : q # r => request'[q] = request[q]
  BY RequestsAfterWrite
<1>2. ~ stale' =>
        /\ Cardinality(Live') + Cardinality(Pending')
             <= Cardinality(Live) + Cardinality(Pending)
        /\ Cardinality(Agents') + Cardinality(PendingAgents')
             <= Cardinality(Agents) + Cardinality(PendingAgents)
        /\ Cardinality(Live') \in Nat /\ Cardinality(Pending') \in Nat
        /\ Cardinality(Agents') \in Nat /\ Cardinality(PendingAgents') \in Nat
  BY <1>1, FewerSeats DEF IInv
<1>3. /\ Cardinality(Live) \in Nat /\ Cardinality(Agents) \in Nat
      /\ Cardinality(Pending) \in Nat /\ Cardinality(PendingAgents) \in Nat
  BY Countable DEF IInv, Typed
<1>4. SeatsReserved'
  BY <1>2, <1>3 DEF IInv, TablesInv, SeatsReserved, WithinLimits, Writes
<1>5. LookedStaysTrue'
  <2> SUFFICES ASSUME NEW q \in Requests PROVE Looked(request[q])'
    BY DEF LookedStaysTrue, Looked
  <2>1. CASE q = r
    BY <1>1, <2>1, BlankRow DEF Looked
  <2>2. CASE q # r
    <3>1. request'[q] = request[q] /\ Looked(request[q])
      BY <1>1, <2>2 DEF IInv, LookedStaysTrue, Looked
    <3> QED
      BY <3>1 DEF Looked, Joined, Writes
  <2> QED
    BY <2>1, <2>2
<1>6. CountedStaysTrue'
  <2> SUFFICES ASSUME NEW q \in Requests PROVE Counted(request[q])'
    BY DEF CountedStaysTrue
  <2>1. CASE q = r
    BY <1>1, <2>1, BlankRow DEF Counted
  <2>2. CASE q # r
    <3>1. request'[q] = request[q] /\ Counted(request[q])
      BY <1>1, <2>2 DEF IInv, CountedStaysTrue
    <3> QED
      BY <1>2, <1>3, <3>1 DEF Counted, Writes
  <2> QED
    BY <2>1, <2>2
<1> QED
  BY <1>1, <1>4, <1>5, <1>6 DEF IInv, TablesInv

\* Under the lock there is nobody else whose look or count a write could disturb.
LEMMA InsideInv ==
  ASSUME IInv, NEW r \in Requests, request[r].at \in Inside, Writes(r),
         AcceptedHasJoined', SeatsReserved'
  PROVE  IInv'
<1>1. /\ Typed' /\ Carried' /\ OneAtATime' /\ MintRoom' /\ request'[r] = Blank
      /\ \A q \in Requests : q # r => request'[q] = request[q]
  BY RequestsAfterWrite
<1>2. \A q \in Requests : request'[q].at \notin Inside
  <2>1. lock = r
    BY DEF IInv, OneAtATime, Inside
  <2>2. \A q \in Requests : q # r => request[q].at \notin Inside
    BY <2>1 DEF IInv, OneAtATime, Inside
  <2> QED
    BY <1>1, <2>2, BlankRow DEF Inside
<1>3. LookedStaysTrue' /\ CountedStaysTrue'
  BY <1>2 DEF LookedStaysTrue, CountedStaysTrue, Counted, Inside
<1> QED
  BY <1>1, <1>3 DEF IInv, TablesInv

LEMMA InitInv == Init => IInv
<1> SUFFICES ASSUME Init PROVE IInv
  OBVIOUS
<1>1. \A q \in Requests : request[q] = Blank
  BY DEF Init
<1>2. Typed
  <2>1. request \in [Requests -> RequestRow]
    BY BlankRow DEF Init
  <2>2. member \in [Emails -> MemberRow \cup {Nothing}]
    BY DEF Init, MemberRow
  <2>3. invites \in Seq(InviteRow) /\ Len(invites) = 0
    BY DEF Init
  <2>4. /\ account \subseteq Emails /\ minted \in Nat /\ expired \subseteq 1 .. MaxTokens
        /\ lock = NoRequest /\ stale \in BOOLEAN
    BY DEF Init
  <2> QED
    BY <2>1, <2>2, <2>3, <2>4 DEF Typed
<1>3. Carried
  BY <1>1, BlankRow DEF Carried
<1>4. OneAtATime
  BY <1>1, BlankRow DEF Init, OneAtATime
<1>5. MintRoom
  <2>1. Minting = {}
    BY <1>1, BlankRow DEF Minting, MintingOps
  <2>2. minted = 0
    BY DEF Init
  <2> QED
    BY <2>1, <2>2, FS_EmptySet DEF MintRoom
<1>6. LookedStaysTrue /\ CountedStaysTrue
  BY <1>1, BlankRow DEF LookedStaysTrue, CountedStaysTrue, Counted
<1>7. Len(invites) = 0
  BY DEF Init
<1>8. AcceptedHasJoined
  BY <1>7 DEF AcceptedHasJoined
<1>9. SeatsReserved
  <2>1. Pending = {} /\ PendingAgents = {}
    BY <1>7 DEF Pending, PendingAgents
  <2>2. Cardinality(Live) <= MaxMembers /\ Cardinality(Agents) <= MaxAgents
    BY DEF Init
  <2>3. Cardinality(Live) \in Nat /\ Cardinality(Agents) \in Nat
    BY <1>2, Countable DEF Typed
  <2> QED
    BY <2>1, <2>2, <2>3, FS_EmptySet DEF SeatsReserved, WithinLimits
<1> QED
  BY <1>2, <1>3, <1>4, <1>5, <1>6, <1>8, <1>9 DEF IInv, TablesInv

-----------------------------------------------------------------------------
(* Invite, and the lock it shares.                                         *)

\* What the actions read of a request.
LEMMA RequestRead ==
  ASSUME IInv, NEW r \in Requests
  PROVE  /\ Carries(request[r], Len(invites), Rows) /\ request[r] \in RequestRow
         /\ Len(invites) \in Nat
         /\ request[r].at \in Inside <=> lock = r
  BY DEF IInv, Typed, Carried, OneAtATime, Inside

LEMMA InviteInv ==
  ASSUME IInv, NEW r \in Requests, NEW actor \in Emails, NEW e \in Emails, NEW role \in Roles,
         Invite(r, actor, e, role)
  PROVE  IInv'
<1> DEFINE d == [Blank EXCEPT !.at = "lock", !.op = "invite", !.email = e, !.role = role]
<1>1. /\ d \in RequestRow /\ d.at = "lock" /\ d.op = "invite" /\ d.role = role
  BY DEF Blank, RequestRow
<1>2. Carries(d, Len(invites), Rows) /\ Looked(d) /\ Counted(d)
  BY <1>1 DEF Carries, OnItsWay, Looked, Counted
<1>3. /\ request' = [request EXCEPT ![r] = d] /\ request[r].at = "done"
      /\ UNCHANGED <<account, member, invites, minted, expired, lock, stale>>
  BY DEF Invite, Begin, At, tables
<1>4. minted + Cardinality(Minting) < MaxTokens
  BY DEF Invite, MayMint, Minting, MintingOps
<1>5. d.at \notin Inside /\ lock # r
  BY <1>1, <1>3, RequestRead DEF Inside
<1> HIDE DEF d
<1> QED
  BY <1>2, <1>3, <1>4, <1>5, MoveInv

LEMMA LockInv ==
  ASSUME IInv, NEW r \in Requests, Lock(r)
  PROVE  IInv'
<1> DEFINE at == CASE request[r].op = "invite" -> "look"
                   [] request[r].op = "promote" -> "count"
                   [] request[r].op \in {"accept", "claim"} -> "join"
           d == [request[r] EXCEPT !.at = at]
<1>1. /\ request' = [request EXCEPT ![r] = d] /\ request[r].at = "lock"
      /\ lock = NoRequest /\ lock' = r
      /\ UNCHANGED <<account, member, invites, minted, expired, stale>>
  BY DEF Lock, Goto, At, tables
<1>2. /\ request[r].op \in {"invite", "promote", "accept", "claim"}
      /\ Carries(request[r], Len(invites), Rows) /\ request[r] \in RequestRow
  BY <1>1, RequestRead DEF Carries, OnItsWay
<1>3. /\ request[r].op = "invite" => at = "look"
      /\ request[r].op = "promote" => at = "count"
      /\ request[r].op \in {"accept", "claim"} => at = "join"
  OBVIOUS
<1>4. at \in {"look", "count", "join"}
  BY <1>2, <1>3
<1> HIDE DEF at
<1>5. /\ d \in RequestRow /\ d.at = at /\ d.op = request[r].op /\ d.email = request[r].email
      /\ d.role = request[r].role /\ d.id = request[r].id /\ d.copy = request[r].copy
      /\ d.was = request[r].was
  BY <1>2, <1>4 DEF RequestRow
<1> HIDE DEF d
<1>6. Carries(d, Len(invites), Rows) /\ Looked(d) /\ Counted(d)
  BY <1>1, <1>2, <1>3, <1>4, <1>5 DEF Carries, OnItsWay, Looked, Counted
<1>7. d.at \in Inside /\ (d.op \in MintingOps => r \in Minting)
  BY <1>4, <1>5 DEF Inside, Minting
<1> QED
  BY <1>1, <1>6, <1>7, MoveInv

LEMMA LookInv ==
  ASSUME IInv, NEW r \in Requests, Look(r)
  PROVE  IInv'
<1> DEFINE c == request[r]
           old == {i \in Pending : invites[i].email = c.email}
<1>1. /\ c.at = "look" /\ c.op = "invite" /\ c \in RequestRow /\ c.role \in Roles
      /\ Carries(c, Len(invites), Rows) /\ lock = r /\ r \in Minting
      /\ UNCHANGED <<account, member, invites, minted, expired, stale>>
  BY RequestRead DEF Look, At, tables, Carries, OnItsWay, Inside, Minting, MintingOps
<1>2. CASE Finish(r)
  BY <1>1, <1>2, EndInv
<1>3. ASSUME NEW i \in old, lock' = lock,
             request' = [request EXCEPT ![r] =
               [c EXCEPT !.op = "reinvite", !.id = i, !.copy = invites[i],
                         !.at = IF c.role = "AGENT" /\ invites[i].role # "AGENT"
                                THEN "count" ELSE "write"]]
      PROVE  IInv'
  <2> DEFINE at == IF c.role = "AGENT" /\ invites[i].role # "AGENT" THEN "count" ELSE "write"
             d == [c EXCEPT !.op = "reinvite", !.id = i, !.copy = invites[i], !.at = at]
  <2>1. /\ at \in {"count", "write"}
        /\ at = "write" /\ c.role = "AGENT" => invites[i].role = "AGENT"
    OBVIOUS
  <2>2. request' = [request EXCEPT ![r] = d]
    BY <1>3
  <2>3. /\ i \in 1 .. Len(invites) /\ Sound(invites[i]) /\ invites[i] \in InviteRow
        /\ invites[i].status = "pending" /\ invites[i].email = c.email
        /\ i \in Nat
    BY DEF Pending, IInv, Typed, Sound
  <2> HIDE DEF at, c
  <2>4. /\ d \in RequestRow /\ d.at = at /\ d.op = "reinvite" /\ d.email = c.email
        /\ d.role = c.role /\ d.id = i /\ d.copy = invites[i]
    BY <1>1, <2>1, <2>3 DEF RequestRow
  <2> HIDE DEF d
  <2>5. Carries(d, Len(invites), Rows)
    BY <1>1, <2>1, <2>3, <2>4 DEF Carries, OnItsWay
  <2>6. Looked(d) /\ Counted(d)
    BY <2>1, <2>4 DEF Looked, Counted
  <2>7. d.at \in Inside
    BY <2>1, <2>4 DEF Inside
  <2> QED
    BY <1>1, <1>3, <2>2, <2>5, <2>6, <2>7, MoveInv
<1>4. CASE ~ Joined(c.email) /\ old = {} /\ Goto(r, "count") /\ UNCHANGED lock
  <2> DEFINE d == [c EXCEPT !.at = "count"]
  <2>1. request' = [request EXCEPT ![r] = d] /\ lock' = lock
    BY <1>4 DEF Goto
  <2>2. ~ Joined(c.email) /\ \A i \in Pending : invites[i].email # c.email
    BY <1>4
  <2> HIDE DEF c
  <2>3. /\ d \in RequestRow /\ d.at = "count" /\ d.op = "invite" /\ d.email = c.email
        /\ d.role = c.role
    BY <1>1 DEF RequestRow
  <2> HIDE DEF d
  <2>4. Carries(d, Len(invites), Rows) /\ d.at \in Inside
    BY <1>1, <2>3 DEF Carries, OnItsWay, Inside
  <2>5. Looked(d) /\ Counted(d)
    BY <2>2, <2>3 DEF Looked, Counted
  <2> QED
    BY <1>1, <2>1, <2>4, <2>5, MoveInv
<1> QED
  BY <1>2, <1>3, <1>4 DEF Look

LEMMA CountInv ==
  ASSUME IInv, NEW r \in Requests, Count(r)
  PROVE  IInv'
<1> DEFINE c == request[r]
<1>1. /\ c.at = "count" /\ c \in RequestRow /\ c.op \in {"invite", "reinvite", "promote"}
      /\ Carries(c, Len(invites), Rows) /\ lock = r
      /\ UNCHANGED <<account, member, invites, minted, expired, stale>>
  BY RequestRead DEF Count, At, tables, Carries, OnItsWay, Inside
<1>2. CASE ~ SeatFor(c)
  BY <1>1, <1>2, EndInv DEF Count
<1>3. CASE SeatFor(c)
  <2> DEFINE d == [c EXCEPT !.at = "write"]
  <2>1. request' = [request EXCEPT ![r] = d] /\ lock' = lock
    BY <1>3 DEF Count, Goto
  <2>2. Looked(c)
    BY DEF IInv, LookedStaysTrue, Looked
  <2>3. c.op \in MintingOps => r \in Minting
    BY DEF Minting
  <2> HIDE DEF c
  <2>4. /\ d \in RequestRow /\ d.at = "write" /\ d.op = c.op /\ d.email = c.email
        /\ d.role = c.role /\ d.id = c.id /\ d.copy = c.copy /\ d.was = c.was
    BY <1>1 DEF RequestRow
  <2> HIDE DEF d
  <2>5. Carries(d, Len(invites), Rows) /\ d.at \in Inside
    BY <1>1, <2>4 DEF Carries, OnItsWay, Inside
  <2>6. Looked(d)
    BY <1>1, <2>2, <2>4 DEF Looked
  <2>7. Counted(d)
    BY <1>3, <2>4 DEF Counted, SeatFor
  <2> QED
    BY <1>1, <2>1, <2>3, <2>4, <2>5, <2>6, <2>7, MoveInv
<1> QED
  BY <1>2, <1>3

-----------------------------------------------------------------------------
(* Requests that begin outside the lock.                                   *)

LEMMA BeginInv ==
  ASSUME IInv, NEW r \in Requests, NEW d, Begin(r, d),
         Carries(d, Len(invites), Rows), d.at \notin Inside,
         d.op \in MintingOps => MayMint,
         UNCHANGED <<tables, expired, lock, stale>>
  PROVE  IInv'
<1>1. request' = [request EXCEPT ![r] = d] /\ request[r].at = "done"
  BY DEF Begin, At
<1>2. Looked(d) /\ Counted(d)
  BY DEF Looked, Counted, Inside
<1>3. lock # r
  BY <1>1, RequestRead DEF Inside
<1>4. d.op \in MintingOps => minted + Cardinality(Minting) < MaxTokens
  BY DEF MayMint, Minting, MintingOps
<1> QED
  BY <1>1, <1>2, <1>3, <1>4, MoveInv DEF tables

\* A row of the table of invitations.
LEMMA InviteRead ==
  ASSUME IInv, NEW i \in Pending
  PROVE  /\ i \in 1 .. Len(invites) /\ i \in Nat /\ Sound(invites[i])
         /\ invites[i] \in InviteRow /\ invites[i].status = "pending"
         /\ invites[i].email \in Emails /\ invites[i].role \in Roles
  BY DEF Pending, IInv, Typed, Sound, InviteRow

LEMMA LoadPendingInv ==
  ASSUME IInv, NEW r \in Requests, NEW actor \in Emails, NEW i \in 1 .. Len(invites),
         NEW op \in {"resend", "revoke"}, LoadPending(r, actor, i, op)
  PROVE  IInv'
<1> DEFINE d == [Blank EXCEPT !.at = op, !.op = op, !.email = invites[i].email,
                              !.id = i, !.copy = invites[i]]
<1>1. i \in Pending /\ Begin(r, d) /\ UNCHANGED <<tables, expired, lock, stale>>
  BY DEF LoadPending
<1>2. /\ i \in Nat /\ Sound(invites[i]) /\ invites[i] \in InviteRow
      /\ invites[i].status = "pending" /\ invites[i].email \in Emails
  BY <1>1, InviteRead
<1>3. /\ d \in RequestRow /\ d.at = op /\ d.op = op /\ d.id = i /\ d.copy = invites[i]
      /\ d.email = invites[i].email
  BY <1>2 DEF RequestRow, Blank
<1> HIDE DEF d
<1>4. Carries(d, Len(invites), Rows) /\ d.at \notin Inside
  BY <1>2, <1>3 DEF Carries, OnItsWay, Inside
<1>5. d.op \in MintingOps => MayMint
  BY <1>3 DEF LoadPending, MintingOps
<1> QED
  BY <1>1, <1>4, <1>5, BeginInv

LEMMA FindInviteInv ==
  ASSUME IInv, NEW r \in Requests, NEW i \in 1 .. Len(invites), FindInvite(r, i)
  PROVE  IInv'
<1> DEFINE op == IF invites[i].email \in account THEN "accept" ELSE "claim"
           d == [Blank EXCEPT !.at = "lock", !.op = op, !.email = invites[i].email,
                              !.role = invites[i].role, !.id = i, !.copy = invites[i]]
<1>1. i \in Pending /\ Begin(r, d) /\ UNCHANGED <<tables, expired, lock, stale>>
  BY DEF FindInvite
<1>2. op \in {"accept", "claim"}
  OBVIOUS
<1> HIDE DEF op
<1>3. /\ i \in Nat /\ Sound(invites[i]) /\ invites[i] \in InviteRow
      /\ invites[i].status = "pending" /\ invites[i].email \in Emails /\ invites[i].role \in Roles
  BY <1>1, InviteRead
<1>4. /\ d \in RequestRow /\ d.at = "lock" /\ d.op = op /\ d.id = i /\ d.copy = invites[i]
      /\ d.email = invites[i].email /\ d.role = invites[i].role
  BY <1>2, <1>3 DEF RequestRow, Blank
<1> HIDE DEF d
<1>5. Carries(d, Len(invites), Rows) /\ d.at \notin Inside
  BY <1>2, <1>3, <1>4 DEF Carries, OnItsWay, Inside
<1>6. d.op \notin MintingOps
  BY <1>2, <1>4 DEF MintingOps
<1> QED
  BY <1>1, <1>5, <1>6, BeginInv

LEMMA ChangeRoleInv ==
  ASSUME IInv, NEW r \in Requests, NEW actor \in Emails, NEW e \in Emails, NEW role \in Roles,
         ChangeRole(r, actor, e, role)
  PROVE  IInv'
<1> DEFINE promoting == role = "AGENT" /\ member[e].role # "AGENT"
           at == IF promoting THEN "lock" ELSE "save"
           d == [Blank EXCEPT !.at = at, !.op = "promote", !.email = e, !.role = role,
                              !.was = member[e]]
<1>1. Begin(r, d) /\ UNCHANGED <<tables, expired, lock, stale>>
  BY DEF ChangeRole
<1>2. /\ e \in Rows /\ member[e] \in MemberRow /\ member[e].live
  BY DEF ChangeRole, Manageable, Live, Rows, IInv, Typed
<1>3. /\ at = "save" /\ role = "AGENT" => member[e].role = "AGENT"
      /\ at # "save" => role = "AGENT"
      /\ at \in {"lock", "save"}
  OBVIOUS
<1> HIDE DEF at
<1>4. /\ d \in RequestRow /\ d.at = at /\ d.op = "promote" /\ d.email = e /\ d.role = role
      /\ d.was = member[e]
  BY <1>2, <1>3 DEF RequestRow, Blank
<1> HIDE DEF d
<1>5. Carries(d, Len(invites), Rows) /\ d.at \notin Inside
  BY <1>2, <1>3, <1>4 DEF Carries, OnItsWay, Inside
<1>6. d.op \notin MintingOps
  BY <1>4 DEF MintingOps
<1> QED
  BY <1>1, <1>5, <1>6, BeginInv

LEMMA RemoveInv ==
  ASSUME IInv, NEW r \in Requests, NEW actor \in Emails, NEW e \in Emails, Remove(r, actor, e)
  PROVE  IInv'
<1> DEFINE d == [Blank EXCEPT !.at = "remove", !.op = "remove", !.email = e]
<1>1. Begin(r, d) /\ UNCHANGED <<tables, expired, lock, stale>>
  BY DEF Remove
<1>2. e \in Rows
  BY DEF Remove, Manageable, Live, Rows
<1>3. d \in RequestRow /\ d.at = "remove" /\ d.op = "remove" /\ d.email = e
  BY DEF RequestRow, Blank
<1> HIDE DEF d
<1>4. Carries(d, Len(invites), Rows) /\ d.at \notin Inside
  BY <1>2, <1>3 DEF Carries, OnItsWay, Inside
<1>5. d.op \notin MintingOps
  BY <1>3 DEF MintingOps
<1> QED
  BY <1>1, <1>4, <1>5, BeginInv

-----------------------------------------------------------------------------
(* Saving an invitation.                                                   *)

\* The invitation a request has read.
LEMMA CopyRead ==
  ASSUME IInv, NEW r \in Requests,
         request[r].op \in {"reinvite", "resend", "revoke", "accept", "claim"}
  PROVE  LET c == request[r] IN
         /\ c \in RequestRow /\ c.id \in 1 .. Len(invites) /\ Sound(c.copy)
         /\ c.copy \in InviteRow /\ c.copy.status = "pending" /\ c.copy.email = c.email
         /\ c.email \in Emails /\ c.copy.role \in Roles
         /\ c.op \in {"accept", "claim"} => c.role = c.copy.role
  BY RequestRead DEF Carries, Sound, InviteRow, RequestRow

\* The table when the copy is saved.
LEMMA SavedCopy ==
  ASSUME IInv, NEW r \in Requests,
         request[r].op \in {"reinvite", "resend", "revoke", "accept", "claim"},
         NEW row, Sound(row), SaveCopy(r, row)
  PROVE  LET i == request[r].id IN
         /\ invites' \in Seq(InviteRow) /\ Len(invites') = Len(invites)
         /\ \A j \in 1 .. Len(invites) : invites'[j] = IF j = i THEN row ELSE invites[j]
         /\ \A j \in 1 .. Len(invites') : Sound(invites'[j])
         /\ stale' \in BOOLEAN /\ (stale => stale')
         /\ ~ stale' => invites[i] = request[r].copy /\ i \in Pending
<1> DEFINE i == request[r].id
<1>1. i \in 1 .. Len(invites) /\ row \in InviteRow /\ invites \in Seq(InviteRow)
  BY CopyRead DEF Sound, IInv, Typed
<1>2. invites' = [invites EXCEPT ![i] = row]
  BY DEF SaveCopy
<1>3. /\ invites' \in Seq(InviteRow) /\ Len(invites') = Len(invites)
      /\ \A j \in 1 .. Len(invites) : invites'[j] = IF j = i THEN row ELSE invites[j]
  BY <1>1, <1>2, ExceptSeq
<1>4. \A j \in 1 .. Len(invites') : Sound(invites'[j])
  BY <1>3 DEF IInv, Typed
<1>5. stale' \in BOOLEAN /\ (stale => stale')
  BY DEF SaveCopy, OldCopy, IInv, Typed
<1>6. ~ stale' => invites[i] = request[r].copy /\ i \in Pending
  BY <1>1, CopyRead DEF SaveCopy, OldCopy, Pending
<1> QED
  BY <1>3, <1>4, <1>5, <1>6

\* Who is about to make a token has one left.
LEMMA MintsOne ==
  ASSUME IInv, NEW r \in Minting
  PROVE  minted + 1 \in 1 .. MaxTokens
<1>1. Cardinality(Minting) # 0
  BY MintingCount, FS_EmptySet
<1> QED
  BY <1>1, MintingCount DEF IInv, Typed, MintRoom

LEMMA SaveResendInv ==
  ASSUME IInv, NEW r \in Requests, SaveResend(r)
  PROVE  IInv'
<1> DEFINE c == request[r]
           row == [c.copy EXCEPT !.token = minted + 1]
<1>1. /\ c.at = "resend" /\ c.op = "resend" /\ Finish(r) /\ r \in Minting
      /\ UNCHANGED <<account, member, expired>>
  BY RequestRead DEF SaveResend, At, Carries, OnItsWay, Minting, MintingOps
<1>2. CASE Collision(r, row) /\ UNCHANGED minted
  BY <1>1, <1>2, EndInv DEF Collision
<1>3. CASE SaveCopy(r, row) /\ minted' = minted + 1
  <2>1. minted + 1 \in 1 .. MaxTokens
    BY <1>1, MintsOne
  <2>2. /\ Sound(row) /\ row.status = "pending" /\ row.email = c.copy.email
        /\ row.role = c.copy.role
    BY <1>1, <2>1, CopyRead DEF Sound, InviteRow
  <2> HIDE DEF row
  <2>3. /\ invites' \in Seq(InviteRow) /\ Len(invites') = Len(invites)
        /\ \A j \in 1 .. Len(invites) : invites'[j] = IF j = c.id THEN row ELSE invites[j]
        /\ \A j \in 1 .. Len(invites') : Sound(invites'[j])
        /\ stale' \in BOOLEAN /\ (stale => stale')
        /\ ~ stale' => invites[c.id] = c.copy /\ c.id \in Pending
    BY <1>1, <1>3, <2>2, SavedCopy
  <2>4. Writes(r)
    <3>1. Rows' = Rows
      BY <1>1 DEF Rows
    <3> QED
      BY <1>1, <1>3, <2>3, <3>1 DEF Writes, IInv, Typed
  <2>5. AcceptedHasJoined'
    BY <1>1, <2>2, <2>3 DEF IInv, TablesInv, AcceptedHasJoined
  <2>6. ~ stale' => /\ Live' \subseteq Live /\ Pending' \subseteq Pending
                    /\ Agents' \subseteq Agents /\ PendingAgents' \subseteq PendingAgents
                    /\ \A i \in Pending' : invites'[i].email = invites[i].email
    BY <1>1, <2>2, <2>3 DEF Live, Pending, Agents, PendingAgents
  <2> QED
    BY <2>4, <2>5, <2>6, OutsideInv
<1> QED
  BY <1>2, <1>3 DEF SaveResend

LEMMA SaveRevokeInv ==
  ASSUME IInv, NEW r \in Requests, SaveRevoke(r)
  PROVE  IInv'
<1> DEFINE c == request[r]
           row == [c.copy EXCEPT !.status = "revoked"]
<1>1. /\ c.at = "revoke" /\ c.op = "revoke" /\ Finish(r) /\ SaveCopy(r, row)
      /\ UNCHANGED <<account, member, minted, expired>>
  BY RequestRead DEF SaveRevoke, At, Carries, OnItsWay
<1>2. Sound(row) /\ row.status = "revoked"
  BY <1>1, CopyRead DEF Sound, InviteRow
<1> HIDE DEF row
<1>3. /\ invites' \in Seq(InviteRow) /\ Len(invites') = Len(invites)
      /\ \A j \in 1 .. Len(invites) : invites'[j] = IF j = c.id THEN row ELSE invites[j]
      /\ \A j \in 1 .. Len(invites') : Sound(invites'[j])
      /\ stale' \in BOOLEAN /\ (stale => stale')
  BY <1>1, <1>2, SavedCopy
<1>4. Writes(r)
  <2>1. Rows' = Rows
    BY <1>1 DEF Rows
  <2> QED
    BY <1>1, <1>3, <2>1 DEF Writes, IInv, Typed
<1>5. AcceptedHasJoined'
  BY <1>1, <1>2, <1>3 DEF IInv, TablesInv, AcceptedHasJoined
<1>6. /\ Live' \subseteq Live /\ Pending' \subseteq Pending
      /\ Agents' \subseteq Agents /\ PendingAgents' \subseteq PendingAgents
      /\ \A i \in Pending' : invites'[i].email = invites[i].email
  BY <1>1, <1>2, <1>3 DEF Live, Pending, Agents, PendingAgents
<1> QED
  BY <1>4, <1>5, <1>6, OutsideInv

-----------------------------------------------------------------------------
(* Writing under the lock.                                                 *)

\* The pending row is renewed; the seat it has becomes an agent's only if there
\* was one to have.
LEMMA RenewInv ==
  ASSUME IInv, NEW r \in Requests, request[r].at = "write", request[r].op = "reinvite",
         NEW row, row = [email |-> request[r].email, role |-> request[r].role,
                         token |-> minted + 1, status |-> "pending"],
         SaveCopy(r, row), minted' = minted + 1, Finish(r), UNCHANGED <<account, member, expired>>
  PROVE  IInv'
<1> DEFINE c == request[r]
<1>1. r \in Minting /\ c.at \in Inside /\ c.role \in Roles
  BY RequestRead DEF Minting, MintingOps, Inside, Carries
<1>2. minted + 1 \in 1 .. MaxTokens
  BY <1>1, MintsOne
<1>3. /\ Sound(row) /\ row.status = "pending" /\ row.email = c.copy.email
      /\ row.role = c.role
  BY <1>1, <1>2, CopyRead DEF Sound, InviteRow
<1>4. /\ invites' \in Seq(InviteRow) /\ Len(invites') = Len(invites)
      /\ \A j \in 1 .. Len(invites) : invites'[j] = IF j = c.id THEN row ELSE invites[j]
      /\ \A j \in 1 .. Len(invites') : Sound(invites'[j])
      /\ stale' \in BOOLEAN /\ (stale => stale')
      /\ ~ stale' => invites[c.id] = c.copy /\ c.id \in Pending
  BY <1>3, SavedCopy
<1>5. Writes(r)
  <2>1. Rows' = Rows
    BY DEF Rows
  <2> QED
    BY <1>1, <1>4, <2>1 DEF Writes, IInv, Typed
<1>6. AcceptedHasJoined'
  BY <1>3, <1>4 DEF IInv, TablesInv, AcceptedHasJoined
<1>7. ASSUME ~ stale' PROVE WithinLimits'
  <2>1. /\ Live' = Live /\ Agents' = Agents /\ Pending' \subseteq Pending
        /\ PendingAgents' \subseteq PendingAgents \cup {c.id}
        /\ c.role # "AGENT" \/ c.copy.role = "AGENT" => PendingAgents' \subseteq PendingAgents
    BY <1>3, <1>4, <1>7 DEF Live, Pending, Agents, PendingAgents
  <2>2. /\ IsFiniteSet(Pending) /\ IsFiniteSet(PendingAgents)
        /\ Cardinality(Live) \in Nat /\ Cardinality(Agents) \in Nat
        /\ Cardinality(Pending) \in Nat /\ Cardinality(PendingAgents) \in Nat
    BY Countable DEF IInv, Typed
  <2>3. Cardinality(Pending') \in Nat /\ Cardinality(Pending') <= Cardinality(Pending)
    BY <2>1, <2>2, NoMore
  <2>4. /\ Cardinality(PendingAgents') \in Nat
        /\ Cardinality(PendingAgents') <= Cardinality(PendingAgents) + 1
    BY <2>1, <2>2, AtMostOneMore
  <2>5. c.role # "AGENT" \/ c.copy.role = "AGENT" =>
          Cardinality(PendingAgents') <= Cardinality(PendingAgents)
    BY <2>1, <2>2, NoMore
  <2>6. WithinLimits /\ Counted(c) /\ ~ stale
    BY <1>4, <1>7 DEF IInv, TablesInv, SeatsReserved, CountedStaysTrue
  <2>7. c.role = "AGENT" /\ c.copy.role # "AGENT" =>
          Cardinality(Agents) + Cardinality(PendingAgents) < MaxAgents
    BY <2>6 DEF Counted
  <2> QED
    BY <2>1, <2>2, <2>3, <2>4, <2>5, <2>6, <2>7 DEF WithinLimits
<1>8. SeatsReserved'
  BY <1>7 DEF SeatsReserved
<1> QED
  BY <1>1, <1>5, <1>6, <1>8, InsideInv

\* A new row takes the seat that was counted for it.
LEMMA InsertInv ==
  ASSUME IInv, NEW r \in Requests, request[r].at = "write", request[r].op = "invite",
         NEW row, row = [email |-> request[r].email, role |-> request[r].role,
                         token |-> minted + 1, status |-> "pending"],
         invites' = Append(invites, row), minted' = minted + 1, Finish(r),
         UNCHANGED <<account, member, expired, stale>>
  PROVE  IInv'
<1> DEFINE c == request[r]
           n == Len(invites)
<1>1. r \in Minting /\ c.at \in Inside /\ c.role \in Roles /\ c.email \in Emails /\ n \in Nat
  BY RequestRead DEF Minting, MintingOps, Inside, Carries, RequestRow
<1>2. minted + 1 \in 1 .. MaxTokens
  BY <1>1, MintsOne
<1>3. Sound(row) /\ row.status = "pending" /\ row.role = c.role /\ row \in InviteRow
  BY <1>1, <1>2 DEF Sound, InviteRow
<1>4. /\ invites' \in Seq(InviteRow) /\ Len(invites') = n + 1
      /\ \A j \in 1 .. n : invites'[j] = invites[j]
      /\ invites'[n + 1] = row
  BY <1>3, AppendProperties DEF IInv, Typed
<1>5. \A j \in 1 .. Len(invites') : Sound(invites'[j])
  BY <1>1, <1>3, <1>4 DEF IInv, Typed
<1>6. Writes(r)
  <2>1. Rows' = Rows
    BY DEF Rows
  <2> QED
    BY <1>1, <1>4, <1>5, <2>1 DEF Writes, IInv, Typed
<1>7. AcceptedHasJoined'
  BY <1>1, <1>3, <1>4 DEF IInv, TablesInv, AcceptedHasJoined
<1>8. ASSUME ~ stale' PROVE WithinLimits'
  <2>1. /\ Live' = Live /\ Agents' = Agents /\ Pending' \subseteq Pending \cup {n + 1}
        /\ PendingAgents' \subseteq PendingAgents \cup {n + 1}
        /\ c.role # "AGENT" => PendingAgents' \subseteq PendingAgents
    BY <1>1, <1>3, <1>4 DEF Live, Pending, Agents, PendingAgents
  <2>2. /\ IsFiniteSet(Pending) /\ IsFiniteSet(PendingAgents)
        /\ Cardinality(Live) \in Nat /\ Cardinality(Agents) \in Nat
        /\ Cardinality(Pending) \in Nat /\ Cardinality(PendingAgents) \in Nat
    BY Countable DEF IInv, Typed
  <2>3. Cardinality(Pending') \in Nat /\ Cardinality(Pending') <= Cardinality(Pending) + 1
    BY <2>1, <2>2, AtMostOneMore
  <2>4. /\ Cardinality(PendingAgents') \in Nat
        /\ Cardinality(PendingAgents') <= Cardinality(PendingAgents) + 1
    BY <2>1, <2>2, AtMostOneMore
  <2>5. c.role # "AGENT" => Cardinality(PendingAgents') <= Cardinality(PendingAgents)
    BY <2>1, <2>2, NoMore
  <2>6. WithinLimits /\ Counted(c) /\ ~ stale
    BY <1>8 DEF IInv, TablesInv, SeatsReserved, CountedStaysTrue
  <2>7. /\ Cardinality(Live) + Cardinality(Pending) < MaxMembers
        /\ c.role = "AGENT" => Cardinality(Agents) + Cardinality(PendingAgents) < MaxAgents
    BY <2>6 DEF Counted
  <2> QED
    BY <2>1, <2>2, <2>3, <2>4, <2>5, <2>6, <2>7 DEF WithinLimits
<1>9. SeatsReserved'
  BY <1>8 DEF SeatsReserved
<1> QED
  BY <1>1, <1>6, <1>7, <1>9, InsideInv

LEMMA WriteInviteInv ==
  ASSUME IInv, NEW r \in Requests, WriteInvite(r)
  PROVE  IInv'
<1> DEFINE row == [email |-> request[r].email, role |-> request[r].role,
                   token |-> minted + 1, status |-> "pending"]
<1>1. request[r].at = "write" /\ Finish(r) /\ UNCHANGED <<account, member, expired>>
  BY DEF WriteInvite, At
<1>2. CASE request[r].op = "reinvite" /\ SaveCopy(r, row) /\ minted' = minted + 1
  BY <1>1, <1>2, RenewInv
<1>3. CASE Collision(r, row) /\ UNCHANGED minted
  BY <1>1, <1>3, EndInv DEF Collision
<1>4. CASE /\ request[r].op = "invite" /\ invites' = Append(invites, row)
           /\ minted' = minted + 1 /\ UNCHANGED stale
  BY <1>1, <1>4, InsertInv
<1>5. CASE UNCHANGED <<invites, minted, stale>>
  BY <1>1, <1>5, EndInv
<1> QED
  BY <1>2, <1>3, <1>4, <1>5 DEF WriteInvite

\* Acceptance gives the seat of the invitation to the member.
LEMMA AcceptInv ==
  ASSUME IInv, NEW r \in Requests, request[r].at = "join",
         account' = account \cup {request[r].email}, member' = Upsert(request[r]),
         SaveCopy(r, [request[r].copy EXCEPT !.status = "accepted"]),
         Finish(r), UNCHANGED <<minted, expired>>
  PROVE  IInv'
<1> DEFINE c == request[r]
           e == c.email
           row == [c.copy EXCEPT !.status = "accepted"]
           joined == [role |-> c.role, live |-> TRUE]
<1>1. /\ c.op \in {"accept", "claim"} /\ c.at \in Inside
      /\ c \in RequestRow /\ c.id \in 1 .. Len(invites) /\ Sound(c.copy)
      /\ c.copy \in InviteRow /\ c.copy.status = "pending" /\ c.copy.email = e
      /\ e \in Emails /\ c.copy.role \in Roles /\ c.role = c.copy.role
  BY RequestRead, CopyRead DEF Inside, Carries, OnItsWay
<1>2. Sound(row) /\ row.status = "accepted" /\ row.email = e
  BY <1>1 DEF Sound, InviteRow
<1>3. SaveCopy(r, row)
  OBVIOUS
<1> HIDE DEF row
<1>4. /\ invites' \in Seq(InviteRow) /\ Len(invites') = Len(invites)
      /\ \A j \in 1 .. Len(invites) : invites'[j] = IF j = c.id THEN row ELSE invites[j]
      /\ \A j \in 1 .. Len(invites') : Sound(invites'[j])
      /\ stale' \in BOOLEAN /\ (stale => stale')
      /\ ~ stale' => invites[c.id] = c.copy /\ c.id \in Pending
  BY <1>1, <1>2, <1>3, SavedCopy
<1>5. joined \in MemberRow /\ joined # Nothing /\ joined.live /\ joined.role = c.role
  <2>1. joined \in MemberRow
    BY <1>1 DEF MemberRow
  <2> QED
    BY <2>1
<1> HIDE DEF joined
<1>6. /\ member' \in [Emails -> MemberRow \cup {Nothing}]
      /\ \A p \in Emails : p # e => member'[p] = member[p]
      /\ member'[e] = IF e \in Live THEN member[e] ELSE joined
  BY <1>1, <1>5 DEF Upsert, Joined, joined, IInv, Typed
<1>7. member'[e] # Nothing
  BY <1>5, <1>6 DEF Live
<1>8. Writes(r)
  <2>1. Rows \subseteq Rows'
    BY <1>6, <1>7 DEF Rows
  <2> QED
    BY <1>1, <1>4, <1>6, <2>1 DEF Writes, IInv, Typed
<1>9. AcceptedHasJoined'
  <2> SUFFICES ASSUME NEW i \in 1 .. Len(invites'), invites'[i].status = "accepted"
               PROVE  invites'[i].email \in account' /\ member'[invites'[i].email] # Nothing
    BY DEF AcceptedHasJoined
  <2>1. CASE i = c.id
    BY <1>2, <1>4, <1>7, <2>1
  <2>2. CASE i # c.id
    <3>1. /\ invites'[i] = invites[i] /\ Sound(invites[i])
          /\ invites[i].email \in account /\ member[invites[i].email] # Nothing
      BY <1>4, <2>2 DEF IInv, TablesInv, AcceptedHasJoined, Typed
    <3> QED
      BY <1>6, <1>7, <3>1 DEF Sound, InviteRow
  <2> QED
    BY <2>1, <2>2
<1>10. ASSUME ~ stale' PROVE WithinLimits'
  <2>1. c.id \in Pending /\ invites[c.id].role = c.role /\ WithinLimits
    BY <1>1, <1>4, <1>10 DEF IInv, TablesInv, SeatsReserved
  <2>2. /\ Live' \subseteq Live \cup {e} /\ Pending' \subseteq Pending \ {c.id}
        /\ Agents' \subseteq Agents \cup {e} /\ PendingAgents' \subseteq PendingAgents \ {c.id}
        /\ c.role # "AGENT" => Agents' \subseteq Agents
    <3>1. Live' \subseteq Live \cup {e}
      BY <1>6 DEF Live
    <3>2. Pending' \subseteq Pending \ {c.id}
      BY <1>2, <1>4 DEF Pending
    <3>3. PendingAgents' \subseteq PendingAgents \ {c.id}
      BY <1>4, <3>2 DEF PendingAgents, Pending
    <3>4. Agents' \subseteq Agents \cup {e} /\ (c.role # "AGENT" => Agents' \subseteq Agents)
      BY <1>5, <1>6, <3>1 DEF Agents, Live
    <3> QED
      BY <3>1, <3>2, <3>3, <3>4
  <2>3. c.role = "AGENT" => c.id \in PendingAgents
    BY <2>1 DEF PendingAgents
  <2>4. /\ IsFiniteSet(Live) /\ IsFiniteSet(Agents)
        /\ IsFiniteSet(Pending) /\ IsFiniteSet(PendingAgents)
        /\ Cardinality(Live) \in Nat /\ Cardinality(Agents) \in Nat
        /\ Cardinality(Pending) \in Nat /\ Cardinality(PendingAgents) \in Nat
    BY Countable DEF IInv, Typed
  <2>5. Cardinality(Live') \in Nat /\ Cardinality(Live') <= Cardinality(Live) + 1
    BY <2>2, <2>4, AtMostOneMore
  <2>6. Cardinality(Pending') \in Nat /\ Cardinality(Pending') <= Cardinality(Pending) - 1
    BY <2>1, <2>2, <2>4, OneLess
  <2>7. Cardinality(Agents') \in Nat /\ Cardinality(Agents') <= Cardinality(Agents) + 1
    BY <2>2, <2>4, AtMostOneMore
  <2>8. c.role # "AGENT" => Cardinality(Agents') <= Cardinality(Agents)
    BY <2>2, <2>4, NoMore
  <2>9. /\ Cardinality(PendingAgents') \in Nat
        /\ Cardinality(PendingAgents') <= Cardinality(PendingAgents)
    BY <2>2, <2>4, NoMore
  <2>10. c.role = "AGENT" => Cardinality(PendingAgents') <= Cardinality(PendingAgents) - 1
    BY <2>2, <2>3, <2>4, OneLess
  <2> QED
    BY <2>1, <2>4, <2>5, <2>6, <2>7, <2>8, <2>9, <2>10 DEF WithinLimits
<1>11. SeatsReserved'
  BY <1>10 DEF SeatsReserved
<1> QED
  BY <1>1, <1>8, <1>9, <1>11, InsideInv

LEMMA JoinInv ==
  ASSUME IInv, NEW r \in Requests, Join(r)
  PROVE  IInv'
<1>1. request[r].at = "join" /\ Finish(r) /\ UNCHANGED <<minted, expired>>
  BY DEF Join, At
<1>2. CASE request[r].op = "claim" /\ request[r].email \in account
  BY <1>1, <1>2, EndInv DEF Join
<1>3. CASE ~ (request[r].op = "claim" /\ request[r].email \in account)
  BY <1>1, <1>3, AcceptInv DEF Join
<1> QED
  BY <1>2, <1>3

-----------------------------------------------------------------------------
(* The members.                                                            *)

LEMMA SaveRoleInv ==
  ASSUME IInv, NEW r \in Requests, SaveRole(r)
  PROVE  IInv'
<1> DEFINE c == request[r]
           e == c.email
           row == [role |-> c.role, live |-> TRUE]
<1>1. /\ c.op = "promote" /\ c.at \in {"save", "write"} /\ Finish(r)
      /\ member' = [member EXCEPT ![e] = row] /\ stale' = (stale \/ member[e] # c.was)
      /\ UNCHANGED <<account, invites, minted, expired>>
  BY DEF SaveRole
<1>2. /\ c.was \in MemberRow /\ c.was.live /\ c.role \in Roles /\ e \in Rows /\ e \in Emails
      /\ c.at = "save" => (c.role = "AGENT" => c.was.role = "AGENT")
      /\ c.at = "write" => c.role = "AGENT"
  BY <1>1, RequestRead DEF Carries, RequestRow
<1>3. row \in MemberRow /\ row # Nothing /\ row.live /\ row.role = c.role
  <2>1. row \in MemberRow
    BY <1>2 DEF MemberRow
  <2> QED
    BY <2>1
<1> HIDE DEF row
<1>4. /\ member' \in [Emails -> MemberRow \cup {Nothing}] /\ member'[e] = row
      /\ \A p \in Emails : p # e => member'[p] = member[p]
      /\ stale' \in BOOLEAN /\ (stale => stale')
  BY <1>1, <1>2, <1>3 DEF IInv, Typed
<1>5. Writes(r)
  <2>1. Rows \subseteq Rows'
    BY <1>3, <1>4 DEF Rows
  <2> QED
    BY <1>1, <1>4, <2>1 DEF Writes, IInv, Typed
<1>6. AcceptedHasJoined'
  <2>1. \A i \in 1 .. Len(invites) : Sound(invites[i])
    BY DEF IInv, Typed
  <2> QED
    BY <1>1, <1>3, <1>4, <2>1 DEF IInv, TablesInv, AcceptedHasJoined, Sound, InviteRow
<1>7. /\ Pending' = Pending /\ PendingAgents' = PendingAgents
      /\ \A i \in Pending' : invites'[i].email = invites[i].email
  BY <1>1 DEF Pending, PendingAgents
<1>8. ~ stale' => Live' \subseteq Live /\ Agents' \subseteq Agents \cup {e}
  BY <1>1, <1>2, <1>4 DEF Live, Agents
<1>9. CASE c.at = "save"
  <2>1. ~ stale' => Agents' \subseteq Agents
    BY <1>1, <1>2, <1>3, <1>4, <1>8, <1>9 DEF Live, Agents
  <2> QED
    BY <1>5, <1>6, <1>7, <1>8, <2>1, OutsideInv
<1>10. CASE c.at = "write"
  <2>1. ASSUME ~ stale' PROVE WithinLimits'
    <3>1. /\ IsFiniteSet(Live) /\ IsFiniteSet(Agents)
          /\ Cardinality(Live) \in Nat /\ Cardinality(Agents) \in Nat
          /\ Cardinality(Pending) \in Nat /\ Cardinality(PendingAgents) \in Nat
      BY Countable DEF IInv, Typed
    <3>2. Cardinality(Live') \in Nat /\ Cardinality(Live') <= Cardinality(Live)
      BY <1>8, <2>1, <3>1, NoMore
    <3>3. Cardinality(Agents') \in Nat /\ Cardinality(Agents') <= Cardinality(Agents) + 1
      BY <1>8, <2>1, <3>1, AtMostOneMore
    <3>4. WithinLimits /\ Counted(c) /\ ~ stale
      BY <1>4, <2>1 DEF IInv, TablesInv, SeatsReserved, CountedStaysTrue
    <3>5. Cardinality(Agents) + Cardinality(PendingAgents) < MaxAgents
      BY <1>1, <1>2, <1>10, <3>4 DEF Counted
    <3> QED
      BY <1>7, <3>1, <3>2, <3>3, <3>4, <3>5 DEF WithinLimits
  <2>2. SeatsReserved' /\ c.at \in Inside
    BY <1>10, <2>1 DEF SeatsReserved, Inside
  <2> QED
    BY <1>5, <1>6, <2>2, InsideInv
<1> QED
  BY <1>1, <1>9, <1>10

LEMMA SoftRemoveInv ==
  ASSUME IInv, NEW r \in Requests, SoftRemove(r)
  PROVE  IInv'
<1> DEFINE e == request[r].email
<1>1. /\ request[r].at = "remove" /\ Finish(r)
      /\ member' = [member EXCEPT ![e].live = FALSE]
      /\ UNCHANGED <<account, invites, minted, expired, stale>>
  BY DEF SoftRemove, At
<1>2. e \in Emails /\ member[e] \in MemberRow
  BY <1>1, RequestRead DEF Carries, OnItsWay, Rows, IInv, Typed
<1>3. /\ member' \in [Emails -> MemberRow \cup {Nothing}]
      /\ \A p \in Emails : p # e => member'[p] = member[p]
      /\ member'[e] \in MemberRow /\ ~ member'[e].live
  BY <1>1, <1>2 DEF MemberRow, IInv, Typed
<1>4. Writes(r)
  <2>1. Rows \subseteq Rows'
    BY <1>3 DEF Rows
  <2> QED
    BY <1>1, <1>3, <2>1 DEF Writes, IInv, Typed
<1>5. AcceptedHasJoined'
  <2>1. \A i \in 1 .. Len(invites) : Sound(invites[i])
    BY DEF IInv, Typed
  <2> QED
    BY <1>1, <1>3, <2>1 DEF IInv, TablesInv, AcceptedHasJoined, Sound, InviteRow
<1>6. /\ Live' \subseteq Live /\ Pending' = Pending /\ PendingAgents' = PendingAgents
      /\ \A i \in Pending' : invites'[i].email = invites[i].email
  BY <1>1, <1>3 DEF Live, Pending, PendingAgents
<1>7. Agents' \subseteq Agents
  BY <1>3, <1>6 DEF Agents, Live
<1> QED
  BY <1>4, <1>5, <1>6, <1>7, OutsideInv

LEMMA DisconnectInv ==
  ASSUME IInv, NEW r \in Requests, Disconnect(r)
  PROVE  IInv'
BY EndInv DEF Disconnect, tables

-----------------------------------------------------------------------------
(* What happens around the requests.                                       *)

LEMMA SignUpInv ==
  ASSUME IInv, NEW e \in Emails, SignUp(e)
  PROVE  IInv'
<1>1. /\ account' = account \cup {e}
      /\ UNCHANGED <<member, invites, minted, expired, lock, request, stale>>
  BY DEF SignUp
<1>2. Typed'
  BY <1>1 DEF IInv, Typed, Sound, InviteRow
<1>3. Carried' /\ OneAtATime'
  BY <1>1 DEF IInv, Carried, Carries, Sound, OnItsWay, Rows, OneAtATime
<1>4. MintRoom'
  BY <1>1 DEF IInv, MintRoom, Minting
<1>5. Live' = Live /\ Agents' = Agents /\ Pending' = Pending /\ PendingAgents' = PendingAgents
  BY <1>1 DEF Live, Agents, Pending, PendingAgents
<1>6. LookedStaysTrue'
  BY <1>1, <1>5 DEF IInv, LookedStaysTrue, Joined
<1>7. CountedStaysTrue'
  BY <1>1, <1>5 DEF IInv, CountedStaysTrue, Counted
<1>8. TablesInv'
  BY <1>1, <1>5 DEF IInv, TablesInv, AcceptedHasJoined, SeatsReserved, WithinLimits
<1> QED
  BY <1>2, <1>3, <1>4, <1>6, <1>7, <1>8 DEF IInv

LEMMA LapseInv ==
  ASSUME IInv, NEW i \in 1 .. Len(invites), Lapse(i)
  PROVE  IInv'
<1>1. /\ i \in Pending /\ expired' = expired \cup {invites[i].token}
      /\ UNCHANGED <<account, member, invites, minted, lock, request, stale>>
  BY DEF Lapse, tables
<1>2. invites[i].token \in 1 .. MaxTokens
  BY <1>1, InviteRead DEF Sound
<1>3. Typed'
  BY <1>1, <1>2 DEF IInv, Typed, Sound, InviteRow
<1>4. Carried' /\ OneAtATime'
  BY <1>1 DEF IInv, Carried, Carries, Sound, OnItsWay, Rows, OneAtATime
<1>5. MintRoom'
  BY <1>1 DEF IInv, MintRoom, Minting
<1>6. Live' = Live /\ Agents' = Agents /\ Pending' = Pending /\ PendingAgents' = PendingAgents
  BY <1>1 DEF Live, Agents, Pending, PendingAgents
<1>7. LookedStaysTrue'
  BY <1>1, <1>6 DEF IInv, LookedStaysTrue, Joined
<1>8. CountedStaysTrue'
  BY <1>1, <1>6 DEF IInv, CountedStaysTrue, Counted
<1>9. TablesInv'
  BY <1>1, <1>6 DEF IInv, TablesInv, AcceptedHasJoined, SeatsReserved, WithinLimits
<1> QED
  BY <1>3, <1>4, <1>5, <1>7, <1>8, <1>9 DEF IInv

LEMMA StutterInv ==
  ASSUME IInv, UNCHANGED vars
  PROVE  IInv'
<1>1. UNCHANGED <<account, member, invites, minted, expired, lock, request, stale>>
  BY DEF vars
<1>2. Typed' /\ Carried' /\ OneAtATime'
  BY <1>1 DEF IInv, Typed, Sound, Carried, Carries, OnItsWay, Rows, OneAtATime
<1>3. MintRoom'
  BY <1>1 DEF IInv, MintRoom, Minting
<1>4. Live' = Live /\ Agents' = Agents /\ Pending' = Pending /\ PendingAgents' = PendingAgents
  BY <1>1 DEF Live, Agents, Pending, PendingAgents
<1>5. LookedStaysTrue' /\ CountedStaysTrue'
  BY <1>1, <1>4 DEF IInv, LookedStaysTrue, Joined, CountedStaysTrue, Counted
<1>6. TablesInv'
  BY <1>1, <1>4 DEF IInv, TablesInv, AcceptedHasJoined, SeatsReserved, WithinLimits
<1> QED
  BY <1>2, <1>3, <1>5, <1>6 DEF IInv

LEMMA StepInv == IInv /\ [Next]_vars => IInv'
<1> SUFFICES ASSUME IInv, [Next]_vars PROVE IInv'
  OBVIOUS
<1>1. ASSUME NEW r \in Requests, Arrive(r) PROVE IInv'
  BY <1>1, InviteInv, ChangeRoleInv, RemoveInv, LoadPendingInv, FindInviteInv DEF Arrive
<1>2. ASSUME NEW r \in Requests, Step(r) PROVE IInv'
  BY <1>2, LockInv, LookInv, CountInv, WriteInviteInv, SaveResendInv, SaveRevokeInv,
     JoinInv, SaveRoleInv, SoftRemoveInv DEF Step
<1>3. ASSUME NEW r \in Requests, Disconnect(r) PROVE IInv'
  BY <1>3, DisconnectInv
<1>4. ASSUME NEW e \in Emails, SignUp(e) PROVE IInv'
  BY <1>4, SignUpInv
<1>5. ASSUME NEW i \in 1 .. Len(invites), Lapse(i) PROVE IInv'
  BY <1>5, LapseInv
<1>6. CASE UNCHANGED vars
  BY <1>6, StutterInv
<1> QED
  BY <1>1, <1>2, <1>3, <1>4, <1>5, <1>6 DEF Next

-----------------------------------------------------------------------------
(* The theorems.                                                           *)

\* The inductive invariant holds in every state.
THEOREM Invariance == Spec => []IInv
<1>1. Init => IInv
  BY InitInv
<1>2. IInv /\ [Next]_vars => IInv'
  BY StepInv
<1> QED
  BY <1>1, <1>2, PTL DEF Spec

\* The variables keep their types, and the tokens of the requests under way stay
\* within the bound on tokens.
THEOREM TypeCorrect == Spec => []TypeOK
<1>1. IInv => TypeOK
  BY MintingCount DEF IInv, Typed, MintRoom, TypeOK
<1> QED
  BY <1>1, Invariance, PTL

\* Whoever accepted an invitation, by accept or by claim, has an account and a row
\* of workspace_members, for every order of acceptances, sign-ups, resends and
\* revocations.
THEOREM AcceptanceCompletes == Spec => []AcceptedHasJoined
<1>1. IInv => AcceptedHasJoined
  BY DEF IInv, TablesInv
<1> QED
  BY <1>1, Invariance, PTL

\* member-invite:{workspace} is held by the one request that is between taking it
\* and the end of its transaction, and by nobody when there is none.
THEOREM LockDiscipline == Spec => []OneAtATime
<1>1. IInv => OneAtATime
  BY DEF IInv
<1> QED
  BY <1>1, Invariance, PTL

\* What invite has looked up under the lock is still so when it inserts its row.
THEOREM LookupsHold == Spec => []LookedStaysTrue
<1>1. IInv => LookedStaysTrue
  BY DEF IInv
<1> QED
  BY <1>1, Invariance, PTL

\* The limits of the plan on members and agents hold, for any number of concurrent
\* requests, as long as no row was written from a copy that was out of date.
THEOREM LimitsHold == Spec => []SeatsReserved
<1>1. IInv => SeatsReserved
  BY DEF IInv, TablesInv
<1> QED
  BY <1>1, Invariance, PTL
=============================================================================
