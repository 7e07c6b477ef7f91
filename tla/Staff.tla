-------------------------------- MODULE Staff --------------------------------
(***************************************************************************)
(* The accounts of the platform's own staff: StaffService and the logins   *)
(* and accepted invitations of AdminAuthService (src/src/admin).           *)
(*                                                                         *)
(* Every request is a sequence of statements without a lock: it reads an   *)
(* account, perhaps counts the super admins, and saves the whole copy, so  *)
(* that a removal that came between is undone.  Who may ask is decided by  *)
(* the role in the access token alone.  What the session store does        *)
(* command by command is in Sessions; here a live session is the role its  *)
(* token carries, and revoking all of them is one step.                    *)
(*                                                                         *)
(* Rows are numbered in the order of their insertion.  `stale` is not in   *)
(* the code: a row was written from a copy that was out of date, or a      *)
(* super admin taken away on a count that was.                             *)
(***************************************************************************)
EXTENDS Integers, Sequences, FiniteSets

CONSTANTS
    Emails,       \* of staff, that of the first super admin included
    Bootstrap,    \* ADMIN_BOOTSTRAP_EMAIL
    Roles,        \* PlatformRole, as far as they differ
    Requests,     \* concurrent requests
    MaxStaff,     \* bound on the rows of platform_staff
    MaxChanges,   \* bound on the invitations, updates and removals
    Nothing       \* no copy

ASSUME BootstrapAssumption == Bootstrap \in Emails
ASSUME RolesAssumption == "SUPER_ADMIN" \in Roles
ASSUME RequestsAssumption == IsFiniteSet(Requests)
ASSUME BoundsAssumption == MaxStaff \in Nat \ {0} /\ MaxChanges \in Nat

VARIABLES
    staff,        \* platform_staff
    signed,       \* per row, the roles in the access tokens of its live sessions
    request,      \* what each request is in the middle of
    stale,        \* see above
    changes       \* how many invitations, updates and removals were asked for

vars == <<staff, signed, request, stale, changes>>

StaffRow == [email : Emails, role : Roles, status : {"invited", "active", "suspended"},
             password : BOOLEAN, invite : BOOLEAN, live : BOOLEAN]

Ids == 1 .. Len(staff)
LiveIds == {i \in Ids : staff[i].live}
Supers == {i \in LiveIds : staff[i].role = "SUPER_ADMIN" /\ staff[i].status = "active"}
IsSuper(row) == row.live /\ row.role = "SUPER_ADMIN" /\ row.status = "active"

-----------------------------------------------------------------------------
(* Requests.  `row` is the account it has read, `new` what it will save,   *)
(* `seen` the super admins it has counted.                                 *)

Blank == [at |-> "done", id |-> 0, row |-> Nothing, new |-> Nothing, seen |-> {}]

At(r, where) == request[r].at = where
Goto(r, where) == request' = [request EXCEPT ![r].at = where]
Finish(r) == request' = [request EXCEPT ![r] = Blank]
Begin(r, d) == At(r, "done") /\ request' = [request EXCEPT ![r] = d]

\* A request for a change, within the bound.
Ask(r, d) ==
    /\ changes < MaxChanges
    /\ changes' = changes + 1
    /\ Begin(r, d)
    /\ UNCHANGED <<staff, signed, stale>>

\* @StaffAuth(SUPER_ADMIN): the session lives and its token says so.
MayManage(actor) == "SUPER_ADMIN" \in signed[actor]

\* Mutant of EmailTaken: only an INSERT meets the index.
EmailTakenOnInsert(id, row) == id = 0 /\ \E j \in LiveIds : staff[j].email = row.email

\* uq_platform_staff_email
EmailTaken(id, row) == row.live /\ \E j \in LiveIds \ {id} : staff[j].email = row.email

OldCopy(r) == staff[request[r].id] # request[r].row
OldCount(r) == request[r].seen # {} /\ request[r].seen # Supers

\* repository.save of the copy.
Save(r, row, next) ==
    LET i == request[r].id IN
    \/ /\ ~ EmailTaken(i, row)
       /\ staff' = [staff EXCEPT ![i] = row]
       /\ stale' = (stale \/ OldCopy(r) \/ OldCount(r))
       /\ IF next = "done" THEN Finish(r) ELSE Goto(r, next)
    \/ /\ EmailTaken(i, row)
       /\ Finish(r)
       /\ UNCHANGED <<staff, stale>>

-----------------------------------------------------------------------------
(* Managing staff.                                                         *)

Invite(r, actor, email, role) ==
    /\ MayManage(actor)
    /\ ~ \E i \in LiveIds : staff[i].email = email
    /\ Len(staff) + Cardinality({q \in Requests : At(q, "insert")}) < MaxStaff
    /\ Ask(r, [Blank EXCEPT !.at = "insert",
                   !.new = [email |-> email, role |-> role, status |-> "invited",
                            password |-> FALSE, invite |-> TRUE, live |-> TRUE]])

\* Of two invitations of one email the loser meets the index.
InsertInvited(r) ==
    LET row == request[r].new IN
    /\ At(r, "insert")
    /\ \/ /\ ~ EmailTaken(0, row)
          /\ staff' = Append(staff, row)
          /\ signed' = Append(signed, {})
       \/ EmailTaken(0, row) /\ UNCHANGED <<staff, signed>>
    /\ Finish(r)
    /\ UNCHANGED <<stale, changes>>

\* A live account that is not the caller's own.
IsTarget(actor, i) == i \in LiveIds /\ i # actor

\* Mutant of TakesSuper: suspending a super admin is not counted.
TakesSuperByRole(row, new) ==
    IsSuper(row) /\ ~ (new.live /\ new.role = "SUPER_ADMIN")

\* Whether the change needs another super admin to stay.
TakesSuper(row, new) == IsSuper(row) /\ ~ IsSuper(new)

\* Mutant of Update: the status may be any of the column.
UpdateAnyStatus(r, actor, i, role, status) ==
    LET new == [staff[i] EXCEPT !.role = role, !.status = status] IN
    /\ MayManage(actor) /\ IsTarget(actor, i)
    /\ Ask(r, [Blank EXCEPT !.at = IF TakesSuper(staff[i], new) THEN "count" ELSE "save",
                            !.id = i, !.row = staff[i], !.new = new])

\* `role` and `status` are what the account will have; a status of "invited" is
\* only ever kept.
Update(r, actor, i, role, status) ==
    LET new == [staff[i] EXCEPT !.role = role, !.status = status] IN
    /\ MayManage(actor) /\ IsTarget(actor, i)
    /\ status \in {"active", "suspended", staff[i].status}
    /\ Ask(r, [Blank EXCEPT !.at = IF TakesSuper(staff[i], new) THEN "count" ELSE "save",
                            !.id = i, !.row = staff[i], !.new = new])

Remove(r, actor, i) ==
    LET new == [staff[i] EXCEPT !.live = FALSE] IN
    /\ MayManage(actor) /\ IsTarget(actor, i)
    /\ Ask(r, [Blank EXCEPT !.at = IF TakesSuper(staff[i], new) THEN "count" ELSE "remove",
                            !.id = i, !.row = staff[i], !.new = new])

\* assertNotLastActiveSuperAdmin
CountSupers(r) ==
    /\ At(r, "count")
    /\ IF Cardinality(Supers) <= 1
       THEN Finish(r)
       ELSE request' = [request EXCEPT ![r].seen = Supers,
                          ![r].at = IF request[r].new.live THEN "save" ELSE "remove"]
    /\ UNCHANGED <<staff, signed, stale, changes>>

\* Sessions are revoked if anything changed.
SaveUpdate(r) ==
    LET d == request[r] IN
    /\ At(r, "save")
    /\ Save(r, d.new, IF d.new # d.row THEN "revoke" ELSE "done")
    /\ UNCHANGED <<signed, changes>>

\* softRemove sets deletedAt alone.
SoftRemove(r) ==
    /\ At(r, "remove")
    /\ staff' = [staff EXCEPT ![request[r].id].live = FALSE]
    /\ stale' = (stale \/ OldCopy(r) \/ OldCount(r))
    /\ Goto(r, "revoke")
    /\ UNCHANGED <<signed, changes>>

\* revokeAllForSubject
RevokeAll(r) ==
    /\ At(r, "revoke")
    /\ signed' = [signed EXCEPT ![request[r].id] = {}]
    /\ Finish(r)
    /\ UNCHANGED <<staff, stale, changes>>

-----------------------------------------------------------------------------
(* Getting in.                                                             *)

\* acceptInvite finds the row by its token, whatever its status is by now.
AcceptInvite(r, i) ==
    /\ i \in LiveIds /\ staff[i].invite
    /\ Begin(r, [Blank EXCEPT !.at = "accept", !.id = i, !.row = staff[i]])
    /\ UNCHANGED <<staff, signed, stale, changes>>

\* ... and saves it after the password is hashed.
SaveAccepted(r) ==
    /\ At(r, "accept")
    /\ Save(r, [request[r].row EXCEPT !.password = TRUE, !.status = "active",
                                      !.invite = FALSE], "issue")
    /\ UNCHANGED <<signed, changes>>

\* authenticate, assertLoginable
Login(r, i) ==
    /\ i \in LiveIds /\ staff[i].password /\ staff[i].status = "active"
    /\ Begin(r, [Blank EXCEPT !.at = "touch", !.id = i, !.row = staff[i]])
    /\ UNCHANGED <<staff, signed, stale, changes>>

\* onLogin saves what was read before the password was checked.
OnLogin(r) ==
    /\ At(r, "touch")
    /\ Save(r, request[r].row, "issue")
    /\ UNCHANGED <<signed, changes>>

\* issueTokens: the token carries the role of the copy.
IssueTokens(r) ==
    LET d == request[r] IN
    /\ At(r, "issue")
    /\ signed' = [signed EXCEPT ![d.id] = @ \cup {d.row.role}]
    /\ Finish(r)
    /\ UNCHANGED <<staff, stale, changes>>

\* A refresh puts the role the account has now into the new token.
Refresh(i) ==
    /\ signed[i] # {}
    /\ i \in LiveIds /\ staff[i].status = "active"
    /\ signed' = [signed EXCEPT ![i] = @ \cup {staff[i].role}]
    /\ UNCHANGED <<staff, request, stale, changes>>

\* Logouts, or the time to live: the account has no session any more.
SessionsEnd(i) ==
    /\ signed[i] # {}
    /\ signed' = [signed EXCEPT ![i] = {}]
    /\ UNCHANGED <<staff, request, stale, changes>>

\* The process or a connection dies between two statements.
CutOff(r) ==
    /\ ~ At(r, "done")
    /\ Finish(r)
    /\ UNCHANGED <<staff, signed, stale, changes>>

-----------------------------------------------------------------------------
\* seedBootstrapStaff
Init ==
    /\ staff = << [email |-> Bootstrap, role |-> "SUPER_ADMIN", status |-> "active",
                   password |-> TRUE, invite |-> FALSE, live |-> TRUE] >>
    /\ signed = << {} >>
    /\ request = [r \in Requests |-> Blank]
    /\ stale = FALSE
    /\ changes = 0

Manage(r) ==
    \E actor \in Ids :
      \/ \E email \in Emails, role \in Roles : Invite(r, actor, email, role)
      \/ \E i \in Ids :
           \/ Remove(r, actor, i)
           \/ \E role \in Roles, status \in {"invited", "active", "suspended"} :
                Update(r, actor, i, role, status)

Next ==
    \/ \E r \in Requests :
         \/ Manage(r)
         \/ \E i \in Ids : AcceptInvite(r, i) \/ Login(r, i)
         \/ InsertInvited(r) \/ CountSupers(r) \/ SaveUpdate(r) \/ SoftRemove(r)
         \/ RevokeAll(r) \/ SaveAccepted(r) \/ OnLogin(r) \/ IssueTokens(r)
         \/ CutOff(r)
    \/ \E i \in Ids : Refresh(i) \/ SessionsEnd(i)

Spec == Init /\ [][Next]_vars

-----------------------------------------------------------------------------
(* Properties.                                                             *)

RequestRow == [at : {"done", "insert", "count", "save", "remove", "revoke", "accept", "touch",
                     "issue"},
               id : 0 .. MaxStaff, row : StaffRow \cup {Nothing},
               new : StaffRow \cup {Nothing}, seen : SUBSET (1 .. MaxStaff)]

\* Every row has its columns, and an account that is INVITED has no password and
\* an invitation to set one: UpdateStaffDto never sets it back.
TypeOK ==
    /\ staff \in Seq(StaffRow) /\ Len(staff) <= MaxStaff
    /\ \A i \in Ids : staff[i].status = "invited" => ~ staff[i].password /\ staff[i].invite
    /\ signed \in [Ids -> SUBSET Roles]
    /\ request \in [Requests -> RequestRow]
    /\ stale \in BOOLEAN /\ changes \in 0 .. MaxChanges

\* The platform keeps an active super admin through every update and removal, also
\* when one was cut off between the save and the revocation and left a token of a
\* role that is gone (assertNotLastActiveSuperAdmin); see LastWayIn for `stale`.
SuperAdminRemains == ~ stale => Supers # {}

\* The same whatever overlaps: "Guard the platform against losing its last way in".
LastWayIn == Supers # {}

\* No email has two live accounts, neither through two invitations nor through a
\* save that brings a removed account back after its email was invited again.
OneAccountPerEmail ==
    \A i, j \in LiveIds : i # j => staff[i].email # staff[j].email
=============================================================================
