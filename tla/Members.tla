------------------------------- MODULE Members -------------------------------
(***************************************************************************)
(* The members and the invitations of one workspace: MemberInviteService,  *)
(* MembersService (src/src/members) and the seat checks of                 *)
(* PlanLimitService (src/src/workspaces/plan-limit.service.ts).            *)
(*                                                                         *)
(* Invitations, their acceptance and promotions to AGENT run in            *)
(* transactions under the advisory lock of the workspace; resend, revoke,  *)
(* remove and the other changes of a role do not take it, and accept,      *)
(* resend and revoke find their invitation before any lock.  The database  *)
(* is READ COMMITTED, and save() writes every column of the entity that    *)
(* was read back over the row of the moment (one step here: the SELECT     *)
(* with which TypeORM compares the two, and its UPDATE).                   *)
(*                                                                         *)
(* Users are their emails.  `stale` is not in the code: it records that a  *)
(* row was written from a copy that was out of date.                       *)
(***************************************************************************)
EXTENDS Integers, Sequences, FiniteSets

CONSTANTS
    Emails,       \* of the people who may be invited, and of the owner
    Owner,        \* who founded the workspace
    Roles,        \* the roles that are handed out
    Requests,     \* concurrent requests
    MaxMembers,   \* plan.limits.max_members
    MaxAgents,    \* plan.limits.max_agents
    MaxInvites,   \* bound on the rows of workspace_invitations
    MaxTokens,    \* bound on the tokens mailed
    NoRequest,    \* nobody holds the advisory lock
    Nothing       \* no row

\* ROLE_RANK
Rank == [VIEWER |-> 0, AGENT |-> 1, MANAGER |-> 2, ADMIN |-> 3, OWNER |-> 4]

ASSUME OwnerAssumption == Owner \in Emails
ASSUME FiniteAssumption == IsFiniteSet(Emails) /\ IsFiniteSet(Requests)
ASSUME RolesAssumption == Roles \subseteq DOMAIN Rank \ {"OWNER"} /\ Roles # {}
ASSUME LimitsAssumption == MaxMembers \in Nat \ {0} /\ MaxAgents \in Nat
ASSUME BoundsAssumption == MaxInvites \in Nat /\ MaxTokens \in Nat
ASSUME NoRequestAssumption == NoRequest \notin Requests

VARIABLES
    account,      \* emails that have a row in `users`
    member,       \* workspace_members, by email; a soft-deleted row is not live
    invites,      \* workspace_invitations, in the order they were inserted
    minted,       \* how many tokens were made; token n is the n-th
    expired,      \* tokens past their time
    lock,         \* who holds member-invite:{workspace}
    request,      \* what each request is in the middle of
    stale         \* see above

vars == <<account, member, invites, minted, expired, lock, request, stale>>
tables == <<account, member, invites, minted>>

MemberRow == [role : Roles \cup {"OWNER"}, live : BOOLEAN]
InviteRow == [email : Emails, role : Roles, token : Nat,
              status : {"pending", "accepted", "revoked"}]

ASSUME NothingAssumption == Nothing \notin MemberRow

Live == {e \in Emails : member[e] # Nothing /\ member[e].live}
Agents == {e \in Live : member[e].role = "AGENT"}
Pending == {i \in 1 .. Len(invites) : invites[i].status = "pending"}
PendingAgents == {i \in Pending : invites[i].role = "AGENT"}
Joined(e) == e \in Live

\* A request between two calls.  `id` and `copy` are the invitation it has read,
\* `was` the row of the member it has read.
Blank == [at |-> "done", op |-> "none", email |-> Owner, role |-> "VIEWER",
          id |-> 0, copy |-> Nothing, was |-> Nothing]

At(r, where) == request[r].at = where
Goto(r, where) == request' = [request EXCEPT ![r].at = where]
Begin(r, row) == At(r, "done") /\ request' = [request EXCEPT ![r] = row]

\* The request ends; COMMIT or ROLLBACK lets go of the lock.
Finish(r) ==
    /\ request' = [request EXCEPT ![r] = Blank]
    /\ lock' = IF lock = r THEN NoRequest ELSE lock

\* The guard of the route: the caller is an active member and ADMIN or above.
Manages(actor) == actor \in Live /\ Rank[member[actor].role] >= Rank["ADMIN"]

\* assertRoleBelowActor
Below(role, actor) == Rank[role] < Rank[member[actor].role]

-----------------------------------------------------------------------------
(* Saving an invitation.                                                   *)

\* uq_workspace_invitation_pending
Collides(id, row) ==
    row.status = "pending" /\ \E j \in Pending \ {id} : invites[j].email = row.email

\* The row is out of date if the table holds another one by now.
OldCopy(r) == invites[request[r].id] # request[r].copy

SaveCopy(r, row) ==
    /\ ~ Collides(request[r].id, row)
    /\ invites' = [invites EXCEPT ![request[r].id] = row]
    /\ stale' = (stale \/ OldCopy(r))

\* Error 23505: the transaction is rolled back.
Collision(r, row) ==
    /\ Collides(request[r].id, row)
    /\ UNCHANGED <<invites, stale>>

-----------------------------------------------------------------------------
(* Invite.                                                                 *)

\* The bounds on tokens and rows, those of the requests under way included.
MayMint == minted + Cardinality({r \in Requests : request[r].op \in
                                   {"invite", "reinvite", "resend"}}) < MaxTokens
MayInsert == Len(invites) + Cardinality({r \in Requests : request[r].op = "invite"})
               < MaxInvites

\* Mutant of Invite: the pending row is looked for before the lock.
InviteUnlocked(r, actor, email, role) ==
    /\ Manages(actor) /\ Below(role, actor)
    /\ MayMint /\ MayInsert
    /\ Begin(r, [Blank EXCEPT !.at = "look", !.op = "invite", !.email = email,
                              !.role = role])
    /\ UNCHANGED <<tables, expired, lock, stale>>

\* The lock comes before anything is read.
Invite(r, actor, email, role) ==
    /\ Manages(actor) /\ Below(role, actor)
    /\ MayMint /\ MayInsert
    /\ Begin(r, [Blank EXCEPT !.at = "lock", !.op = "invite", !.email = email,
                              !.role = role])
    /\ UNCHANGED <<tables, expired, lock, stale>>

\* pg_advisory_xact_lock; accept and claim go on to join.
Lock(r) ==
    /\ At(r, "lock")
    /\ lock = NoRequest
    /\ lock' = r
    /\ Goto(r, CASE request[r].op = "invite" -> "look"
                 [] request[r].op = "promote" -> "count"
                 [] request[r].op \in {"accept", "claim"} -> "join")
    /\ UNCHANGED <<tables, expired, stale>>

\* A member with this email is refused (ALREADY_MEMBER); a pending invitation is
\* renewed, and needs a seat only if it becomes one of an agent.
Look(r) ==
    LET d == request[r]
        old == {i \in Pending : invites[i].email = d.email}
    IN  /\ At(r, "look")
        /\ \/ /\ Joined(d.email)
              /\ Finish(r)
           \/ /\ ~ Joined(d.email) /\ old # {}
              /\ \E i \in old :
                   request' = [request EXCEPT ![r] =
                     [d EXCEPT !.op = "reinvite", !.id = i, !.copy = invites[i],
                               !.at = IF d.role = "AGENT" /\ invites[i].role # "AGENT"
                                        THEN "count" ELSE "write"]]
              /\ UNCHANGED lock
           \/ /\ ~ Joined(d.email) /\ old = {}
              /\ Goto(r, "count")
              /\ UNCHANGED lock
        /\ UNCHANGED <<tables, expired, stale>>

\* Mutant of SeatFor: a workspace that is at its limit may have one more.
SeatForOneMore(d) ==
    /\ d.op = "invite" => Cardinality(Live) + Cardinality(Pending) <= MaxMembers
    /\ d.role = "AGENT" => Cardinality(Agents) + Cardinality(PendingAgents) < MaxAgents

\* assertCanInviteMember; the member limit is for new invitations only, the
\* agent limit also for what becomes an agent's.
SeatFor(d) ==
    /\ d.op = "invite" => Cardinality(Live) + Cardinality(Pending) < MaxMembers
    /\ d.role = "AGENT" => Cardinality(Agents) + Cardinality(PendingAgents) < MaxAgents

\* Mutant of Count: the lock outlives a refusal (pg_advisory_lock).
CountKeepsLock(r) ==
    /\ At(r, "count")
    /\ IF SeatFor(request[r]) THEN Goto(r, "write")
                              ELSE request' = [request EXCEPT ![r] = Blank]
    /\ UNCHANGED <<tables, expired, lock, stale>>

Count(r) ==
    /\ At(r, "count")
    /\ IF SeatFor(request[r]) THEN Goto(r, "write") /\ UNCHANGED lock ELSE Finish(r)
    /\ UNCHANGED <<tables, expired, stale>>

\* The INSERT, or the save of the pending row that was found; COMMIT.
WriteInvite(r) ==
    LET d == request[r]
        row == [email |-> d.email, role |-> d.role, token |-> minted + 1,
                status |-> "pending"]
    IN  /\ At(r, "write")
        /\ \/ /\ d.op = "reinvite"
              /\ \/ SaveCopy(r, row) /\ minted' = minted + 1
                 \/ Collision(r, row) /\ UNCHANGED minted
           \/ /\ d.op = "invite"
              /\ \/ /\ ~ Collides(0, row)
                    /\ invites' = Append(invites, row)
                    /\ minted' = minted + 1
                 \/ Collides(0, row) /\ UNCHANGED <<invites, minted>>
              /\ UNCHANGED stale
        /\ Finish(r)
        /\ UNCHANGED <<account, member, expired>>

-----------------------------------------------------------------------------
(* Resend and revoke: the invitation is read, then saved, without the lock. *)

LoadPending(r, actor, i, op) ==
    /\ Manages(actor)
    /\ i \in Pending
    /\ op = "resend" => MayMint
    /\ Begin(r, [Blank EXCEPT !.at = op, !.op = op, !.email = invites[i].email,
                              !.id = i, !.copy = invites[i]])
    /\ UNCHANGED <<tables, expired, lock, stale>>

SaveResend(r) ==
    LET row == [request[r].copy EXCEPT !.token = minted + 1]
    IN  /\ At(r, "resend")
        /\ \/ SaveCopy(r, row) /\ minted' = minted + 1
           \/ Collision(r, row) /\ UNCHANGED minted
        /\ Finish(r)
        /\ UNCHANGED <<account, member, expired>>

SaveRevoke(r) ==
    /\ At(r, "revoke")
    /\ SaveCopy(r, [request[r].copy EXCEPT !.status = "revoked"])
    /\ Finish(r)
    /\ UNCHANGED <<account, member, minted, expired>>

-----------------------------------------------------------------------------
(* Accept, by a user who is logged in, and claim, by somebody who has no   *)
(* account.                                                                *)

\* findValidPending, by the token that is the invitation's now; who accepts has
\* the account with its email, who claims finds none.
FindInvite(r, i) ==
    /\ i \in Pending /\ invites[i].token \notin expired
    /\ Begin(r, [Blank EXCEPT !.at = "lock",
                   !.op = IF invites[i].email \in account THEN "accept" ELSE "claim",
                   !.email = invites[i].email, !.role = invites[i].role,
                   !.id = i, !.copy = invites[i]])
    /\ UNCHANGED <<tables, expired, lock, stale>>

\* Mutant of Upsert: the row is created but gets no role.
UpsertRoleless(d) == [member EXCEPT ![d.email] =
                IF Joined(d.email) THEN @ ELSE [live |-> TRUE]]

\* upsertMember
Upsert(d) == [member EXCEPT ![d.email] =
                IF Joined(d.email) THEN @ ELSE [role |-> d.role, live |-> TRUE]]

\* Mutant of Join: a claim that comes too late accepts all the same.
JoinAnyhow(r) ==
    LET d == request[r]
    IN  /\ At(r, "join")
        /\ IF d.op = "claim" /\ d.email \in account
             THEN UNCHANGED member ELSE member' = Upsert(d)
        /\ account' = account \cup {d.email}
        /\ SaveCopy(r, [d.copy EXCEPT !.status = "accepted"])
        /\ Finish(r)
        /\ UNCHANGED <<minted, expired>>

\* createInvited for a claim, which rolls back if the account exists by now
\* (EMAIL_TAKEN); upsertMember; markAccepted; COMMIT.
Join(r) ==
    LET d == request[r]
    IN  /\ At(r, "join")
        /\ IF d.op = "claim" /\ d.email \in account
             THEN UNCHANGED <<account, member, invites, stale>>
             ELSE /\ account' = account \cup {d.email}
                  /\ member' = Upsert(d)
                  /\ SaveCopy(r, [d.copy EXCEPT !.status = "accepted"])
        /\ Finish(r)
        /\ UNCHANGED <<minted, expired>>

-----------------------------------------------------------------------------
(* The members.                                                            *)

\* loadManageableTarget
Manageable(actor, e) ==
    /\ Manages(actor)
    /\ e \in Live /\ e # actor
    /\ member[e].role # "OWNER"
    /\ Below(member[e].role, actor)

\* changeRole; only who becomes an agent has to wait for the lock.
ChangeRole(r, actor, e, role) ==
    /\ Manageable(actor, e) /\ Below(role, actor)
    /\ LET promoting == role = "AGENT" /\ member[e].role # "AGENT"
       IN  Begin(r, [Blank EXCEPT !.at = IF promoting THEN "lock" ELSE "save",
                                  !.op = "promote", !.email = e, !.role = role,
                                  !.was = member[e]])
    /\ UNCHANGED <<tables, expired, lock, stale>>

\* save(target): the role, and deletedAt as it was read.
SaveRole(r) ==
    LET d == request[r]
    IN  /\ d.op = "promote" /\ d.at \in {"save", "write"}
        /\ member' = [member EXCEPT ![d.email] = [role |-> d.role, live |-> TRUE]]
        /\ stale' = (stale \/ member[d.email] # d.was)
        /\ Finish(r)
        /\ UNCHANGED <<account, invites, minted, expired>>

Remove(r, actor, e) ==
    /\ Manageable(actor, e)
    /\ Begin(r, [Blank EXCEPT !.at = "remove", !.op = "remove", !.email = e])
    /\ UNCHANGED <<tables, expired, lock, stale>>

\* softRemove(target) sets deletedAt and nothing else.
SoftRemove(r) ==
    /\ At(r, "remove")
    /\ member' = [member EXCEPT ![request[r].email].live = FALSE]
    /\ Finish(r)
    /\ UNCHANGED <<account, invites, minted, expired, stale>>

-----------------------------------------------------------------------------
\* Somebody signs up on their own (auth.service.ts).
SignUp(e) ==
    /\ e \notin account
    /\ account' = account \cup {e}
    /\ UNCHANGED <<member, invites, minted, expired, lock, request, stale>>

\* The seven days of an invitation are over.
Lapse(i) ==
    /\ i \in Pending /\ invites[i].token \notin expired
    /\ expired' = expired \cup {invites[i].token}
    /\ UNCHANGED <<tables, lock, request, stale>>

\* The connection breaks and the database rolls back.
Disconnect(r) ==
    /\ ~ At(r, "done")
    /\ Finish(r)
    /\ UNCHANGED <<tables, expired, stale>>

\* A workspace that has been at work: some have joined, nobody is invited.
Init ==
    /\ account \in {a \in SUBSET Emails : Owner \in a}
    /\ member \in [Emails -> [role : Roles \cup {"OWNER"}, live : {TRUE}] \cup {Nothing}]
    /\ \A e \in Emails : /\ member[e] # Nothing => e \in account
                         /\ e = Owner <=> member[e] # Nothing /\ member[e].role = "OWNER"
    /\ Cardinality(Live) <= MaxMembers /\ Cardinality(Agents) <= MaxAgents
    /\ invites = <<>>
    /\ minted = 0
    /\ expired = {}
    /\ lock = NoRequest
    /\ request = [r \in Requests |-> Blank]
    /\ stale = FALSE

Arrive(r) ==
    \/ \E actor, e \in Emails :
         \/ \E role \in Roles : Invite(r, actor, e, role) \/ ChangeRole(r, actor, e, role)
         \/ Remove(r, actor, e)
    \/ \E i \in 1 .. Len(invites) :
         \/ \E actor \in Emails, op \in {"resend", "revoke"} : LoadPending(r, actor, i, op)
         \/ FindInvite(r, i)

Step(r) ==
    \/ Lock(r) \/ Look(r) \/ Count(r) \/ WriteInvite(r)
    \/ SaveResend(r) \/ SaveRevoke(r) \/ Join(r)
    \/ SaveRole(r) \/ SoftRemove(r)

Next ==
    \/ \E r \in Requests : Arrive(r) \/ Step(r) \/ Disconnect(r)
    \/ \E e \in Emails : SignUp(e)
    \/ \E i \in 1 .. Len(invites) : Lapse(i)

Spec == Init /\ [][Next]_vars

-----------------------------------------------------------------------------
(* What is checked of it.                                                  *)

RequestRow ==
    [at : {"done", "lock", "look", "count", "write", "resend", "revoke", "join",
           "save", "remove"},
     op : {"none", "invite", "reinvite", "resend", "revoke", "accept", "claim",
           "promote", "remove"},
     email : Emails, role : Roles \cup {"VIEWER"}, id : Nat,
     copy : InviteRow \cup {Nothing}, was : MemberRow \cup {Nothing}]

\* The types of the variables.
TypeOK ==
    /\ account \subseteq Emails
    /\ member \in [Emails -> MemberRow \cup {Nothing}]
    /\ invites \in Seq(InviteRow)
    /\ minted \in 0 .. MaxTokens
    /\ expired \subseteq 1 .. MaxTokens
    /\ lock \in Requests \cup {NoRequest}
    /\ request \in [Requests -> RequestRow]
    /\ stale \in BOOLEAN

\* Nobody is a member by an invitation halfway: who accepted one has an account
\* and a row, whichever of accept, claim, sign-up, resend and revoke came first.
AcceptedHasJoined ==
    \A i \in 1 .. Len(invites) : invites[i].status = "accepted" =>
        invites[i].email \in account /\ member[invites[i].email] # Nothing

\* The advisory lock belongs to the one request that is between taking it and the
\* end of its transaction, on every path: a refusal, an unknown invitation, a
\* collision or a broken connection leaves no lock behind that would stop all
\* invitations of the workspace.
OneAtATime ==
    /\ lock # NoRequest => request[lock].at \in {"look", "count", "write", "join"}
    /\ \A r \in Requests :
         request[r].at \in {"look", "count", "write", "join"} => lock = r

\* Under the lock what invite has found stays true until it writes: nobody else
\* invites the email or joins with it, so 23505 needs a copy out of date.
LookedStaysTrue ==
    \A r \in Requests : request[r].op = "invite" /\ request[r].at \in {"count", "write"}
        /\ ~ stale =>
             /\ ~ Joined(request[r].email)
             /\ \A i \in Pending : invites[i].email # request[r].email

\* The seats reserved by pending invitations and taken by members.
WithinLimits ==
    /\ Cardinality(Live) + Cardinality(Pending) <= MaxMembers
    /\ Cardinality(Agents) + Cardinality(PendingAgents) <= MaxAgents

\* As long as every row was written from a copy that was still good, no order of
\* invitations, renewals, acceptances, promotions and removals overshoots the
\* limits of the plan, although acceptance does not count seats.
SeatsReserved == stale \/ WithinLimits
=============================================================================
