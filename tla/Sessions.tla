------------------------------ MODULE Sessions ------------------------------
(***************************************************************************)
(* The Redis session store (sessions/session-store.service.ts) under the   *)
(* requests that use it: login, refresh and logout of BaseAuthService, as  *)
(* staff have them, and StaffService.update and remove, which change an    *)
(* account and then revoke all its sessions.                               *)
(*                                                                         *)
(* Every command to Redis and every statement to PostgreSQL is a step of   *)
(* its own; between two steps of a request other requests run, the process *)
(* may die and Redis may drop a session whose time has come.  A refresh    *)
(* token is the session id and a number: the n-th value the session's hash *)
(* was set to.                                                             *)
(*                                                                         *)
(* Not in the code: `ended`, `crashes` and the fields `quiet` and `strays` *)
(* of a handler, which only record what has happened, for the properties.  *)
(***************************************************************************)
EXTENDS Integers, FiniteSets

CONSTANTS
    Subjects,     \* accounts of staff
    Sids,         \* session ids
    Handlers,     \* concurrent requests
    Standings,    \* what status, role and deletion of an account allow
    Barred,       \* the standing of a suspended or removed account
    MaxTokens,    \* bound on the refresh tokens of one session
    MaxCrashes,   \* bound on the requests that are cut off
    NoSession     \* sess:{sid} is not in Redis

ASSUME SubjectsAssumption == Subjects # {} /\ Sids # {}
ASSUME StandingsAssumption == Barred \in Standings
ASSUME HandlersAssumption == IsFiniteSet(Handlers)
ASSUME BoundsAssumption == MaxTokens \in Nat \ {0} /\ MaxCrashes \in Nat

VARIABLES
    account,      \* the standing of each row of platform_staff
    sess,         \* sess:{sid}: a session record
    index,        \* subject:{type}:{id}: the set of the sids of an account
    minted,       \* how many refresh tokens each session has had
    held,         \* the refresh tokens that were returned to their callers
    handler,      \* what each request is in the middle of
    ended,        \* whether each session was revoked, with a rotate under way or not
    crashes       \* how often a request has been cut off

vars == <<account, sess, index, minted, held, handler, ended, crashes>>

Record == [subject : Subjects, token : 1 .. MaxTokens]
Token == [sid : Sids, token : 1 .. MaxTokens]

\* `aim` is the operation a revoke is part of.
Blank == [at |-> "idle", aim |-> "none", subject |-> CHOOSE s \in Subjects : TRUE,
          sid |-> CHOOSE x \in Sids : TRUE, token |-> 1, standing |-> Barred,
          todo |-> {}, quiet |-> FALSE, strays |-> {}]

Live(s) == {x \in Sids : sess[x] # NoSession /\ sess[x].subject = s}
Unused == {x \in Sids : minted[x] = 0}
At(h, where) == handler[h].at = where
Goto(h, where) == handler' = [handler EXCEPT ![h].at = where]

Rotating(x) == {h \in Handlers : At(h, "rotate") /\ handler[h].sid = x}

\* Handler h goes on as `new`; a session of s has been written meanwhile.
Disturb(h, s, new) ==
    handler' = [g \in Handlers |->
                  IF g = h THEN new
                  ELSE IF handler[g].aim = "update" /\ handler[g].subject = s
                    THEN [handler[g] EXCEPT !.quiet = FALSE] ELSE handler[g]]

-----------------------------------------------------------------------------
(* Login.                                                                  *)

\* authenticate: findByEmail, then the password, then assertLoginable.
Login(h, s) ==
    /\ At(h, "idle")
    /\ account[s] # Barred
    /\ Cardinality(Unused)
         > Cardinality({g \in Handlers : handler[g].at \in {"touch", "issue"}})
    /\ handler' = [handler EXCEPT ![h] = [Blank EXCEPT !.at = "touch", !.subject = s,
                                                       !.standing = account[s]]]
    /\ UNCHANGED <<account, sess, index, minted, held, ended, crashes>>

\* onLogin: save() of the entity that was read, which writes back every column
\* that differs from the row by now, status, role and deletion included.
Touch(h) ==
    /\ At(h, "touch")
    /\ account' = [account EXCEPT ![handler[h].subject] = handler[h].standing]
    /\ handler' = [handler EXCEPT ![h] = [@ EXCEPT !.at = "issue", !.standing = Barred]]
    /\ UNCHANGED <<sess, index, minted, held, ended, crashes>>

\* Mutant of IssueSet: the record is made before the token is.
IssueUnnumbered(h) ==
    /\ At(h, "issue")
    /\ \E x \in Unused :
         /\ sess' = [sess EXCEPT ![x] = [subject |-> handler[h].subject, token |-> 0]]
         /\ minted' = [minted EXCEPT ![x] = 1]
         /\ Disturb(h, handler[h].subject,
                    [handler[h] EXCEPT !.at = "index", !.sid = x])
    /\ UNCHANGED <<account, index, held, ended, crashes>>

\* issue: SET of the record,
IssueSet(h) ==
    /\ At(h, "issue")
    /\ \E x \in Unused :
         /\ sess' = [sess EXCEPT ![x] = [subject |-> handler[h].subject, token |-> 1]]
         /\ minted' = [minted EXCEPT ![x] = 1]
         /\ Disturb(h, handler[h].subject,
                    [handler[h] EXCEPT !.at = "index", !.sid = x])
    /\ UNCHANGED <<account, index, held, ended, crashes>>

\* then SADD to the index; the tokens go to the caller.
IssueAdd(h) ==
    /\ At(h, "index")
    /\ index' = [index EXCEPT ![handler[h].subject] = @ \cup {handler[h].sid}]
    /\ held' = held \cup {[sid |-> handler[h].sid, token |-> 1]}
    /\ handler' = [handler EXCEPT ![h] = Blank]
    /\ UNCHANGED <<account, sess, minted, ended, crashes>>

-----------------------------------------------------------------------------
(* revoke, for a logout, for a refresh that is refused and for each sid of *)
(* revokeAllForSubject.                                                    *)

\* After the sid a revoke is done with.
Resume(h) ==
    handler' = [handler EXCEPT ![h] = IF handler[h].aim = "update"
                                        THEN [handler[h] EXCEPT !.at = "each", !.sid = Blank.sid]
                                        ELSE Blank]

\* Mutant of RevokeGet: no session ends the request, the loop it is part of
\* included.
RevokeGetOrStop(h) ==
    /\ At(h, "get")
    /\ handler' = [handler EXCEPT ![h] =
                     IF sess[handler[h].sid] # NoSession THEN [@ EXCEPT !.at = "del"]
                     ELSE IF @.aim = "update" THEN [@ EXCEPT !.at = "drop"] ELSE Blank]
    /\ UNCHANGED <<account, sess, index, minted, held, ended, crashes>>

RevokeGet(h) ==
    /\ At(h, "get")
    /\ IF sess[handler[h].sid] = NoSession THEN Resume(h) ELSE Goto(h, "del")
    /\ UNCHANGED <<account, sess, index, minted, held, ended, crashes>>

RevokeDel(h) ==
    /\ At(h, "del")
    /\ sess' = [sess EXCEPT ![handler[h].sid] = NoSession]
    /\ ended' = [ended EXCEPT ![handler[h].sid] =
                    IF Rotating(handler[h].sid) = {} THEN "quiet" ELSE "racing"]
    /\ Goto(h, "srem")
    /\ UNCHANGED <<account, index, minted, held, crashes>>

RevokeSrem(h) ==
    /\ At(h, "srem")
    /\ index' = [index EXCEPT ![handler[h].subject] = @ \ {handler[h].sid}]
    /\ Resume(h)
    /\ UNCHANGED <<account, sess, minted, held, ended, crashes>>

\* A revoke of sid x, of a session of s.
Revoke(h, x, s, aim) ==
    handler' = [handler EXCEPT ![h] = [Blank EXCEPT !.at = "get", !.aim = aim,
                                                    !.sid = x, !.subject = s]]

\* The guard has found the session of the access token; logout revokes it.
Logout(h, x) ==
    /\ At(h, "idle")
    /\ sess[x] # NoSession
    /\ \E t \in held : t.sid = x
    /\ Revoke(h, x, sess[x].subject, "logout")
    /\ UNCHANGED <<account, sess, index, minted, held, ended, crashes>>

-----------------------------------------------------------------------------
(* refresh.                                                                *)

\* The bound on the tokens of a session.
MayMint(x) == minted[x] + Cardinality(Rotating(x)) < MaxTokens

\* Mutant of Refresh: a session that is gone is not refused.
RefreshGone(h, t) ==
    /\ At(h, "idle")
    /\ MayMint(t.sid)
    /\ sess[t.sid] # NoSession => t.token = sess[t.sid].token
    /\ handler' = [handler EXCEPT ![h] = [Blank EXCEPT !.at = "rotate", !.sid = t.sid]]
    /\ UNCHANGED <<account, sess, index, minted, held, ended, crashes>>

\* rotate: GET of the session of the token.  One without a session is refused;
\* one that is not the current token of its session is a replay and revokes it.
Refresh(h, t) ==
    /\ At(h, "idle")
    /\ sess[t.sid] # NoSession
    /\ \/ /\ t.token = sess[t.sid].token
          /\ MayMint(t.sid)
          /\ handler' = [handler EXCEPT ![h] =
                           [Blank EXCEPT !.at = "rotate", !.sid = t.sid,
                                         !.subject = sess[t.sid].subject]]
       \/ /\ t.token # sess[t.sid].token
          /\ Revoke(h, t.sid, sess[t.sid].subject, "refused")
    /\ UNCHANGED <<account, sess, index, minted, held, ended, crashes>>

\* SET of the record that was read, with the hash of a new token.
RotateSet(h) ==
    LET x == handler[h].sid
        n == minted[x] + 1
    IN  /\ At(h, "rotate")
        /\ minted' = [minted EXCEPT ![x] = n]
        /\ sess' = [sess EXCEPT ![x] = [subject |-> handler[h].subject, token |-> n]]
        /\ Disturb(h, handler[h].subject, [handler[h] EXCEPT !.at = "check", !.token = n])
        /\ UNCHANGED <<account, index, held, ended, crashes>>

\* The tokens of a refresh go to its caller.
HandOut(h) ==
    /\ held' = held \cup {[sid |-> handler[h].sid, token |-> handler[h].token]}
    /\ handler' = [handler EXCEPT ![h] = Blank]
    /\ UNCHANGED <<account, sess, index, minted, ended, crashes>>

\* Mutant of RefreshCheck: the account is not looked at again.
RefreshUnchecked(h) == At(h, "check") /\ HandOut(h)

\* findById: an account that may not log in loses the session it refreshed.
RefreshCheck(h) ==
    /\ At(h, "check")
    /\ \/ account[handler[h].subject] # Barred /\ HandOut(h)
       \/ /\ account[handler[h].subject] = Barred
          /\ Revoke(h, handler[h].sid, handler[h].subject, "refused")
          /\ UNCHANGED <<account, sess, index, minted, held, ended, crashes>>

-----------------------------------------------------------------------------
(* StaffService.update and remove.                                         *)

\* getTarget; update revokes only if it changes what was read, remove always.
Change(h, s, standing) ==
    /\ At(h, "idle")
    /\ \E aim \in {"update", "keep"} :
         /\ aim = "keep" => standing = account[s]
         /\ aim = "update" => standing # account[s] \/ standing = Barred
         /\ handler' = [handler EXCEPT ![h] =
                          [Blank EXCEPT !.at = "save", !.aim = aim, !.subject = s,
                                        !.standing = standing]]
    /\ UNCHANGED <<account, sess, index, minted, held, ended, crashes>>

SaveAccount(h) ==
    /\ At(h, "save")
    /\ account' = [account EXCEPT ![handler[h].subject] = handler[h].standing]
    /\ handler' = [handler EXCEPT ![h] =
                     IF @.aim = "update" THEN [@ EXCEPT !.at = "list", !.standing = Barred]
                                            ELSE Blank]
    /\ UNCHANGED <<sess, index, minted, held, ended, crashes>>

\* revokeAllForSubject: SMEMBERS,
ListSids(h) ==
    LET s == handler[h].subject
    IN  /\ At(h, "list")
        /\ handler' = [handler EXCEPT ![h] =
                         [@ EXCEPT !.at = "each", !.todo = index[s],
                                   !.quiet = TRUE, !.strays = Live(s) \ index[s]]]
        /\ UNCHANGED <<account, sess, index, minted, held, ended, crashes>>

\* a revoke of each,
NextSid(h) ==
    /\ At(h, "each")
    /\ \/ \E x \in handler[h].todo :
            handler' = [handler EXCEPT ![h] =
                          [handler[h] EXCEPT !.at = "get", !.sid = x, !.todo = @ \ {x}]]
       \/ handler[h].todo = {} /\ Goto(h, "drop")
    /\ UNCHANGED <<account, sess, index, minted, held, ended, crashes>>

\* and DEL of the index, whatever it holds by now.
DropIndex(h) ==
    /\ At(h, "drop")
    /\ index' = [index EXCEPT ![handler[h].subject] = {}]
    /\ handler' = [handler EXCEPT ![h] = Blank]
    /\ UNCHANGED <<account, sess, minted, held, ended, crashes>>

-----------------------------------------------------------------------------
\* The process dies, or a command fails and the request ends with an error.
Crash(h) ==
    /\ ~ At(h, "idle")
    /\ crashes < MaxCrashes
    /\ crashes' = crashes + 1
    /\ handler' = [handler EXCEPT ![h] = Blank]
    /\ UNCHANGED <<account, sess, index, minted, held, ended>>

\* The time to live of a session that is not refreshed.  The index, whose own
\* is renewed with every issue and rotate, outlives its sessions.
Expire(x) ==
    /\ sess[x] # NoSession
    /\ sess' = [sess EXCEPT ![x] = NoSession]
    /\ UNCHANGED <<account, index, minted, held, handler, ended, crashes>>

Init ==
    /\ account \in [Subjects -> Standings]
    /\ sess = [x \in Sids |-> NoSession]
    /\ index = [s \in Subjects |-> {}]
    /\ minted = [x \in Sids |-> 0]
    /\ held = {}
    /\ handler = [h \in Handlers |-> Blank]
    /\ crashes = 0
    /\ ended = [x \in Sids |-> "no"]

Arrive(h) ==
    \/ \E s \in Subjects : Login(h, s) \/ \E new \in Standings : Change(h, s, new)
    \/ \E x \in Sids : Logout(h, x)
    \/ \E t \in held : Refresh(h, t)

Step(h) ==
    \/ Touch(h) \/ IssueSet(h) \/ IssueAdd(h)
    \/ RevokeGet(h) \/ RevokeDel(h) \/ RevokeSrem(h)
    \/ RotateSet(h) \/ RefreshCheck(h)
    \/ SaveAccount(h) \/ ListSids(h) \/ NextSid(h) \/ DropIndex(h)

Next ==
    \/ \E h \in Handlers : Arrive(h) \/ Step(h) \/ Crash(h)
    \/ \E x \in Sids : Expire(x)

Spec == Init /\ [][Next]_vars

\* Node runs every request on.  Nothing makes a session expire in time for a
\* property, and nobody has to send a request.
FairSpec == Spec /\ \A h \in Handlers : WF_vars(Step(h))

-----------------------------------------------------------------------------
(* What is checked of it.                                                  *)

Places == {"idle", "touch", "issue", "index", "get", "del", "srem", "rotate",
           "check", "save", "list", "each", "drop"}
HandlerRow == [at : Places, aim : {"none", "logout", "refused", "update", "keep"},
               subject : Subjects, sid : Sids, token : 1 .. MaxTokens,
               standing : Standings, todo : SUBSET Sids, quiet : BOOLEAN,
               strays : SUBSET Sids]

\* The types of the variables.
TypeOK ==
    /\ account \in [Subjects -> Standings]
    /\ sess \in [Sids -> Record \cup {NoSession}]
    /\ index \in [Subjects -> SUBSET Sids]
    /\ minted \in [Sids -> 0 .. MaxTokens]
    /\ held \subseteq Token
    /\ handler \in [Handlers -> HandlerRow]
    /\ crashes \in 0 .. MaxCrashes
    /\ ended \in [Sids -> {"no", "racing", "quiet"}]

\* A session that was revoked - by a logout, a replay or a staff update - while
\* no rotate of it was between its GET and its SET never comes back, whatever
\* its tokens are used for afterwards ("a later refresh is 401").
QuietRevokeIsFinal == \A x \in Sids : ended[x] = "quiet" => sess[x] = NoSession

\* revokeAllForSubject misses nothing it could know of: unless some session of
\* the account was written meanwhile, every session that is still alive is yet
\* to be revoked by the loop, or was in no index when the loop began; and that
\* although other requests revoke the same sessions under its feet.
StillToRevoke(d) ==
    (IF d.at = "drop" THEN {} ELSE d.todo)
      \cup (IF d.at \in {"get", "del"} THEN {d.sid} ELSE {})
Covered(d) ==
    d.aim = "update" /\ d.quiet =>
      Live(d.subject) \subseteq StillToRevoke(d) \cup d.strays
RevokeAllIsComplete == \A h \in Handlers : Covered(handler[h])

\* A refresh that meets a suspended account is the end of its session, unless
\* the account is let in again: however many refreshes overlap, no token that
\* could bring the session back is ever returned.  (A request that is cut off
\* halfway may leave the session to its time to live.)
RefreshingBarred(x, s) ==
    /\ account[s] = Barred
    /\ \E h \in Handlers :
         /\ handler[h].sid = x /\ handler[h].subject = s
         /\ \/ handler[h].at \in {"rotate", "check"}
            \/ handler[h].at \in {"get", "del"} /\ handler[h].aim = "refused"
SuspensionSticks ==
    \A x \in Sids, s \in Subjects, n \in 0 .. MaxCrashes :
        [](RefreshingBarred(x, s) /\ crashes = n
             => \/ <>(crashes # n \/ account[s] # Barred)
                \/ <>[](sess[x] = NoSession))

\* "Revoking a session logs the user out instantly" (session-store.service.ts:
\* 36-38): a session that has been revoked stays revoked.
LogoutIsFinal == \A x \in Sids : ended[x] # "no" => sess[x] = NoSession

-----------------------------------------------------------------------------
(* The inductive invariant of the proofs.                                  *)

\* The rotates under way have room for their tokens.
RoomForRotates == \A x \in Sids : minted[x] + Cardinality(Rotating(x)) <= MaxTokens

\* A session that exists, that is rotated or that is deleted was issued once.
IssuedFirst ==
    /\ \A x \in Sids : sess[x] # NoSession => minted[x] # 0
    /\ \A h \in Handlers : handler[h].at \in {"rotate", "del"} => minted[handler[h].sid] # 0

\* Nothing is left that could write a session again which ended quietly.
NothingBringsBack ==
    \A x \in Sids : ended[x] = "quiet" =>
        sess[x] = NoSession /\ minted[x] # 0 /\ Rotating(x) = {}

\* A request that writes a session does not revoke all sessions of anyone.
WritersDoNotRevoke ==
    \A h \in Handlers :
        handler[h].at \in {"touch", "issue", "index", "rotate", "check"}
          => handler[h].aim = "none"

IInv == /\ TypeOK /\ RoomForRotates /\ IssuedFirst /\ NothingBringsBack
        /\ WritersDoNotRevoke /\ RevokeAllIsComplete
=============================================================================
