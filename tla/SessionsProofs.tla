--------------------------- MODULE SessionsProofs ---------------------------
(***************************************************************************)
(* Proofs about Sessions, for any number of accounts, sessions, requests   *)
(* and tokens.  Most actions only move one request on (MoveInv); the ones  *)
(* that begin a rotate, write a session or drop one have a lemma each.     *)
(***************************************************************************)
EXTENDS Sessions, FiniteSetTheorems, TLAPS

USE SubjectsAssumption, StandingsAssumption, HandlersAssumption, BoundsAssumption

LEMMA BlankRow ==
  /\ Blank \in HandlerRow
  /\ Blank.at = "idle" /\ Blank.aim = "none" /\ Blank.quiet = FALSE
<1>1. Blank.subject \in Subjects /\ Blank.sid \in Sids
  BY DEF Blank
<1> QED
  BY <1>1 DEF Blank, HandlerRow, Places

\* Cardinalities of the rotates under way.
LEMMA RotatingCount ==
  ASSUME NEW x \in Sids
  PROVE  IsFiniteSet(Rotating(x)) /\ Cardinality(Rotating(x)) \in Nat
<1>1. Rotating(x) \in SUBSET Handlers
  BY DEF Rotating
<1>2. IsFiniteSet(Rotating(x))
  BY <1>1, FS_Subset
<1> QED
  BY <1>2, FS_CardinalityType

\* If rotates only end and tokens are not minted, there is room for the rest.
LEMMA FewerRotates ==
  ASSUME TypeOK, RoomForRotates, minted' = minted,
         \A x \in Sids : Rotating(x)' \subseteq Rotating(x)
  PROVE  RoomForRotates'
<1> SUFFICES ASSUME NEW x \in Sids
             PROVE  minted[x] + Cardinality(Rotating(x)') <= MaxTokens
  BY DEF RoomForRotates
<1>1. IsFiniteSet(Rotating(x)) /\ Cardinality(Rotating(x)) \in Nat
  BY RotatingCount
<1>2. Rotating(x)' \in SUBSET Rotating(x)
  OBVIOUS
<1>3. IsFiniteSet(Rotating(x)') /\ Cardinality(Rotating(x)') <= Cardinality(Rotating(x))
  BY <1>1, <1>2, FS_Subset
<1>4. Cardinality(Rotating(x)') \in Nat
  BY <1>3, FS_CardinalityType
<1>5. minted[x] \in 0 .. MaxTokens /\ minted[x] + Cardinality(Rotating(x)) <= MaxTokens
  BY DEF TypeOK, RoomForRotates
<1> QED
  BY <1>1, <1>3, <1>4, <1>5

LEMMA InitInv == Init => IInv
<1> SUFFICES ASSUME Init PROVE IInv
  OBVIOUS
<1>1. \A h \in Handlers : handler[h] = Blank
  BY DEF Init
<1>2. TypeOK
  BY BlankRow DEF Init, TypeOK
<1>3. \A x \in Sids : Rotating(x) = {}
  BY <1>1, BlankRow DEF Rotating, At
<1>4. RoomForRotates
  BY <1>3, FS_EmptySet DEF Init, RoomForRotates
<1>5. IssuedFirst /\ NothingBringsBack
  BY <1>1, BlankRow DEF Init, IssuedFirst, NothingBringsBack
<1>6. WritersDoNotRevoke /\ RevokeAllIsComplete
  BY <1>1, BlankRow DEF WritersDoNotRevoke, RevokeAllIsComplete, Covered
<1> QED
  BY <1>2, <1>4, <1>5, <1>6 DEF IInv

-----------------------------------------------------------------------------
(* A request moves on and the sessions stay as they are.                   *)

LEMMA MoveInv ==
  ASSUME IInv, NEW h \in Handlers, NEW new \in HandlerRow,
         handler' = [handler EXCEPT ![h] = new],
         new.at # "rotate",
         new.at = "del" => minted[new.sid] # 0,
         new.at \in {"touch", "issue", "index", "check"} => new.aim = "none",
         Covered(new),
         account' \in [Subjects -> Standings],
         index' \in [Subjects -> SUBSET Sids],
         held' \subseteq Token,
         crashes' \in 0 .. MaxCrashes,
         UNCHANGED <<sess, minted, ended>>
  PROVE  IInv'
<1>1. /\ handler'[h] = new
      /\ \A g \in Handlers : g # h => handler'[g] = handler[g]
      /\ handler' \in [Handlers -> HandlerRow]
  BY DEF IInv, TypeOK
<1>2. TypeOK'
  BY <1>1 DEF IInv, TypeOK
<1>3. \A x \in Sids : Rotating(x)' \subseteq Rotating(x)
  BY <1>1 DEF Rotating, At
<1>4. RoomForRotates'
  BY <1>3, FewerRotates DEF IInv
<1>5. IssuedFirst'
  BY <1>1 DEF IInv, IssuedFirst
<1>6. NothingBringsBack'
  BY <1>3 DEF IInv, NothingBringsBack
<1>7. WritersDoNotRevoke'
  BY <1>1 DEF IInv, WritersDoNotRevoke
<1>8. RevokeAllIsComplete'
  <2> SUFFICES ASSUME NEW g \in Handlers PROVE Covered(handler[g])'
    BY DEF RevokeAllIsComplete
  <2>1. Covered(handler'[g])
    BY <1>1 DEF IInv, RevokeAllIsComplete
  <2> QED
    BY <2>1 DEF Covered, StillToRevoke, Live
<1> QED
  BY <1>2, <1>4, <1>5, <1>6, <1>7, <1>8 DEF IInv

\* A request that ends, whatever it was in the middle of.
LEMMA EndInv ==
  ASSUME IInv, NEW h \in Handlers,
         handler' = [handler EXCEPT ![h] = Blank],
         account' \in [Subjects -> Standings],
         index' \in [Subjects -> SUBSET Sids],
         held' \subseteq Token,
         crashes' \in 0 .. MaxCrashes,
         UNCHANGED <<sess, minted, ended>>
  PROVE  IInv'
<1>1. Covered(Blank)
  BY BlankRow DEF Covered
<1> QED
  BY <1>1, BlankRow, MoveInv

LEMMA LoginInv ==
  ASSUME IInv, NEW h \in Handlers, NEW s \in Subjects, Login(h, s)
  PROVE  IInv'
<1> DEFINE new == [Blank EXCEPT !.at = "touch", !.subject = s, !.standing = account[s]]
<1>1. new \in HandlerRow /\ new.at = "touch" /\ new.aim = "none"
  BY BlankRow DEF IInv, TypeOK, HandlerRow, Places
<1>2. Covered(new)
  BY <1>1 DEF Covered
<1>3. handler' = [handler EXCEPT ![h] = new]
  BY DEF Login
<1> HIDE DEF new
<1> QED
  BY <1>1, <1>2, <1>3, MoveInv DEF Login, IInv, TypeOK

LEMMA TouchInv ==
  ASSUME IInv, NEW h \in Handlers, Touch(h)
  PROVE  IInv'
<1> DEFINE new == [handler[h] EXCEPT !.at = "issue", !.standing = Barred]
<1>1. handler[h] \in HandlerRow /\ handler[h].at = "touch" /\ handler[h].aim = "none"
  BY DEF IInv, TypeOK, Touch, At, WritersDoNotRevoke
<1>2. new \in HandlerRow /\ new.at = "issue" /\ new.aim = "none"
  BY <1>1 DEF HandlerRow, Places
<1>3. Covered(new)
  BY <1>2 DEF Covered
<1>4. handler' = [handler EXCEPT ![h] = new]
  BY DEF Touch
<1>5. account' \in [Subjects -> Standings]
  BY <1>1 DEF Touch, IInv, TypeOK, HandlerRow
<1> HIDE DEF new
<1> QED
  BY <1>2, <1>3, <1>4, <1>5, MoveInv DEF Touch, IInv, TypeOK

LEMMA IssueAddInv ==
  ASSUME IInv, NEW h \in Handlers, IssueAdd(h)
  PROVE  IInv'
<1>1. handler[h] \in HandlerRow /\ 1 \in 1 .. MaxTokens
  BY DEF IInv, TypeOK
<1>2. index' \in [Subjects -> SUBSET Sids]
  BY <1>1 DEF IssueAdd, IInv, TypeOK, HandlerRow
<1>3. held' \subseteq Token
  BY <1>1 DEF IssueAdd, IInv, TypeOK, HandlerRow, Token
<1> QED
  BY <1>2, <1>3, EndInv DEF IssueAdd, IInv, TypeOK

-----------------------------------------------------------------------------
(* revoke.                                                                 *)

\* The row of a request whose revoke of one session is over.
LEMMA ResumeInv ==
  ASSUME IInv, NEW h \in Handlers, Resume(h),
         handler[h].at \in {"get", "srem"},
         handler[h].at = "get" => sess[handler[h].sid] = NoSession,
         index' \in [Subjects -> SUBSET Sids],
         UNCHANGED <<account, sess, minted, held, ended, crashes>>
  PROVE  IInv'
<1> DEFINE new == [handler[h] EXCEPT !.at = "each", !.sid = Blank.sid]
<1>1. /\ account' \in [Subjects -> Standings]
      /\ held' \subseteq Token
      /\ crashes' \in 0 .. MaxCrashes
  BY DEF IInv, TypeOK
<1>2. CASE handler[h].aim # "update"
  <2>1. handler' = [handler EXCEPT ![h] = Blank]
    BY <1>2 DEF Resume
  <2> QED
    BY <1>1, <2>1, EndInv
<1>3. CASE handler[h].aim = "update"
  <2>1. handler[h] \in HandlerRow /\ Covered(handler[h])
    BY DEF IInv, TypeOK, RevokeAllIsComplete
  <2>2. new \in HandlerRow
    BY <2>1, BlankRow DEF HandlerRow, Places
  <2>3. /\ new.at = "each" /\ new.quiet = handler[h].quiet
        /\ new.aim = handler[h].aim /\ new.subject = handler[h].subject
        /\ new.todo = handler[h].todo /\ new.strays = handler[h].strays
    BY <2>1 DEF HandlerRow
  <2>4. Covered(new)
    BY <2>1, <2>3 DEF Covered, StillToRevoke, Live
  <2>5. handler' = [handler EXCEPT ![h] = new]
    BY <1>3 DEF Resume
  <2> HIDE DEF new
  <2> QED
    BY <1>1, <2>2, <2>3, <2>4, <2>5, MoveInv
<1> QED
  BY <1>2, <1>3

\* The first step of a revoke.
LEMMA RevokeInv ==
  ASSUME IInv, NEW h \in Handlers, NEW x \in Sids, NEW s \in Subjects,
         NEW aim \in {"logout", "refused"}, Revoke(h, x, s, aim),
         UNCHANGED <<account, sess, index, minted, held, ended, crashes>>
  PROVE  IInv'
<1> DEFINE new == [Blank EXCEPT !.at = "get", !.aim = aim, !.sid = x, !.subject = s]
<1>1. new \in HandlerRow /\ new.at = "get" /\ new.aim # "update"
  BY BlankRow DEF HandlerRow, Places
<1>2. Covered(new)
  BY <1>1 DEF Covered
<1>3. handler' = [handler EXCEPT ![h] = new]
  BY DEF Revoke
<1> HIDE DEF new
<1> QED
  BY <1>1, <1>2, <1>3, MoveInv DEF IInv, TypeOK

LEMMA RevokeGetInv ==
  ASSUME IInv, NEW h \in Handlers, RevokeGet(h)
  PROVE  IInv'
<1>1. CASE sess[handler[h].sid] = NoSession
  BY <1>1, ResumeInv DEF RevokeGet, At, IInv, TypeOK
<1>2. CASE sess[handler[h].sid] # NoSession
  <2> DEFINE new == [handler[h] EXCEPT !.at = "del"]
  <2>1. handler[h] \in HandlerRow /\ handler[h].at = "get" /\ Covered(handler[h])
    BY DEF IInv, TypeOK, RevokeAllIsComplete, RevokeGet, At
  <2>2. new \in HandlerRow
    BY <2>1 DEF HandlerRow, Places
  <2>3. /\ new.at = "del" /\ new.sid = handler[h].sid /\ new.quiet = handler[h].quiet
        /\ new.aim = handler[h].aim /\ new.subject = handler[h].subject
        /\ new.todo = handler[h].todo /\ new.strays = handler[h].strays
    BY <2>1 DEF HandlerRow
  <2>4. Covered(new)
    BY <2>1, <2>3 DEF Covered, StillToRevoke
  <2>5. minted[new.sid] # 0
    BY <1>2, <2>1, <2>3 DEF IInv, IssuedFirst, HandlerRow
  <2>6. handler' = [handler EXCEPT ![h] = new]
    BY <1>2 DEF RevokeGet, Goto
  <2> HIDE DEF new
  <2> QED
    BY <2>2, <2>3, <2>4, <2>5, <2>6, MoveInv DEF RevokeGet, IInv, TypeOK
<1> QED
  BY <1>1, <1>2

LEMMA RevokeSremInv ==
  ASSUME IInv, NEW h \in Handlers, RevokeSrem(h)
  PROVE  IInv'
<1>1. index' \in [Subjects -> SUBSET Sids]
  BY DEF RevokeSrem, IInv, TypeOK
<1> QED
  BY <1>1, ResumeInv DEF RevokeSrem, At

LEMMA LogoutInv ==
  ASSUME IInv, NEW h \in Handlers, NEW x \in Sids, Logout(h, x)
  PROVE  IInv'
<1>1. sess[x].subject \in Subjects
  BY DEF Logout, IInv, TypeOK, Record
<1> QED
  BY <1>1, RevokeInv DEF Logout

\* DEL: nothing that rotates the session is left behind unless it is seen.
LEMMA RevokeDelInv ==
  ASSUME IInv, NEW h \in Handlers, RevokeDel(h)
  PROVE  IInv'
<1> DEFINE x == handler[h].sid
           new == [handler[h] EXCEPT !.at = "srem"]
<1>1. /\ handler[h] \in HandlerRow /\ handler[h].at = "del" /\ x \in Sids
      /\ minted[x] # 0
  BY DEF IInv, TypeOK, IssuedFirst, RevokeDel, At, HandlerRow
<1>2. /\ new \in HandlerRow /\ new.at = "srem" /\ new.quiet = handler[h].quiet
      /\ new.aim = handler[h].aim /\ new.subject = handler[h].subject
      /\ new.todo = handler[h].todo /\ new.strays = handler[h].strays
  BY <1>1 DEF HandlerRow, Places
<1>3. /\ handler' \in [Handlers -> HandlerRow] /\ handler'[h] = new
      /\ \A g \in Handlers : g # h => handler'[g] = handler[g]
  BY <1>2 DEF RevokeDel, Goto, IInv, TypeOK
<1>4. TypeOK'
  BY <1>1, <1>3 DEF RevokeDel, IInv, TypeOK
<1>5. \A y \in Sids : Rotating(y)' \subseteq Rotating(y)
  BY <1>2, <1>3 DEF Rotating, At
<1>6. RoomForRotates'
  BY <1>5, FewerRotates DEF RevokeDel, IInv
<1>7. /\ \A y \in Sids : sess'[y] # NoSession => y # x /\ sess'[y] = sess[y]
      /\ sess'[x] = NoSession /\ minted' = minted
      /\ \A y \in Sids : y # x => sess'[y] = sess[y] /\ ended'[y] = ended[y]
      /\ ended'[x] = "quiet" => Rotating(x) = {}
  BY <1>1 DEF RevokeDel, IInv, TypeOK
<1>8. IssuedFirst'
  BY <1>2, <1>3, <1>7 DEF IInv, IssuedFirst
<1>9. NothingBringsBack'
  BY <1>1, <1>5, <1>7 DEF IInv, NothingBringsBack
<1>10. WritersDoNotRevoke'
  BY <1>2, <1>3 DEF IInv, WritersDoNotRevoke
<1>11. RevokeAllIsComplete'
  <2> SUFFICES ASSUME NEW g \in Handlers PROVE Covered(handler[g])'
    BY DEF RevokeAllIsComplete
  <2>1. Covered(handler[g])
    BY DEF IInv, RevokeAllIsComplete
  <2>2. CASE g # h
    BY <1>3, <1>7, <2>1, <2>2 DEF Covered, StillToRevoke, Live
  <2>3. CASE g = h
    <3> SUFFICES ASSUME new.aim = "update", new.quiet, NEW y \in Sids,
                        sess'[y] # NoSession, sess'[y].subject = new.subject
                 PROVE  y \in new.todo \cup new.strays
      BY <1>2, <1>3, <2>3 DEF Covered, StillToRevoke, Live
    <3>1. y # x /\ y \in Live(handler[h].subject)
      BY <1>2, <1>7 DEF Live
    <3>2. Live(handler[h].subject) \subseteq handler[h].todo \cup {x} \cup handler[h].strays
      BY <1>1, <1>2, <2>1, <2>3 DEF Covered, StillToRevoke
    <3> QED
      BY <1>2, <3>1, <3>2
  <2> QED
    BY <2>2, <2>3
<1> QED
  BY <1>4, <1>6, <1>8, <1>9, <1>10, <1>11 DEF IInv

LEMMA ExpireInv ==
  ASSUME IInv, NEW x \in Sids, Expire(x)
  PROVE  IInv'
<1>1. \A y \in Sids : sess'[y] = NoSession \/ sess'[y] = sess[y]
  BY DEF Expire, IInv, TypeOK
<1>2. TypeOK'
  BY DEF Expire, IInv, TypeOK
<1>3. \A y \in Sids : Rotating(y)' = Rotating(y)
  BY DEF Expire, Rotating, At
<1>4. RoomForRotates'
  BY <1>3, FewerRotates DEF Expire, IInv
<1>5. IssuedFirst' /\ NothingBringsBack' /\ WritersDoNotRevoke'
  BY <1>1, <1>3 DEF Expire, IInv, IssuedFirst, NothingBringsBack, WritersDoNotRevoke
<1>6. RevokeAllIsComplete'
  <2> SUFFICES ASSUME NEW g \in Handlers PROVE Covered(handler[g])'
    BY DEF RevokeAllIsComplete
  <2>1. Covered(handler[g]) /\ handler' = handler
    BY DEF IInv, RevokeAllIsComplete, Expire
  <2> QED
    BY <1>1, <2>1 DEF Covered, StillToRevoke, Live
<1> QED
  BY <1>2, <1>4, <1>5, <1>6 DEF IInv

-----------------------------------------------------------------------------
(* The writes of a session: issue and rotate.                              *)

\* What a write of a session of s does to the other requests.
LEMMA DisturbRows ==
  ASSUME TypeOK, NEW h \in Handlers, NEW s \in Subjects, NEW new \in HandlerRow,
         Disturb(h, s, new)
  PROVE  /\ handler' \in [Handlers -> HandlerRow]
         /\ handler'[h] = new
         /\ \A g \in Handlers : g # h =>
              /\ handler'[g].at = handler[g].at /\ handler'[g].aim = handler[g].aim
              /\ handler'[g].sid = handler[g].sid
              /\ handler'[g].subject = handler[g].subject
              /\ handler'[g].todo = handler[g].todo
              /\ handler'[g].strays = handler[g].strays
              /\ handler'[g].quiet =>
                   handler[g].quiet /\ (handler[g].aim = "update" => handler[g].subject # s)
<1>1. \A g \in Handlers : handler[g] \in HandlerRow
  BY DEF TypeOK
<1>2. handler'[h] = new
  BY DEF Disturb
<1>3. ASSUME NEW g \in Handlers, g # h,
             handler[g].aim = "update", handler[g].subject = s
      PROVE  handler'[g] = [handler[g] EXCEPT !.quiet = FALSE]
  BY <1>3 DEF Disturb
<1>4. ASSUME NEW g \in Handlers, g # h,
             ~ (handler[g].aim = "update" /\ handler[g].subject = s)
      PROVE  handler'[g] = handler[g]
  BY <1>4 DEF Disturb
<1>5. \A g \in Handlers : [handler[g] EXCEPT !.quiet = FALSE] \in HandlerRow
  BY <1>1 DEF HandlerRow
<1>6. handler' \in [Handlers -> HandlerRow]
  <2>1. \A g \in Handlers : handler'[g] \in HandlerRow
    BY <1>1, <1>2, <1>3, <1>4, <1>5
  <2>2. handler' = [g \in Handlers |-> handler'[g]]
    BY DEF Disturb
  <2> QED
    BY <2>1, <2>2
<1>7. ASSUME NEW g \in Handlers, g # h
      PROVE  /\ handler'[g].at = handler[g].at /\ handler'[g].aim = handler[g].aim
             /\ handler'[g].sid = handler[g].sid
             /\ handler'[g].subject = handler[g].subject
             /\ handler'[g].todo = handler[g].todo
             /\ handler'[g].strays = handler[g].strays
             /\ handler'[g].quiet =>
                  handler[g].quiet /\ (handler[g].aim = "update" => handler[g].subject # s)
  <2>1. CASE handler[g].aim = "update" /\ handler[g].subject = s
    <3>1. handler'[g] = [handler[g] EXCEPT !.quiet = FALSE]
      BY <1>3, <1>7, <2>1
    <3> QED
      BY <1>1, <1>7, <3>1 DEF HandlerRow
  <2>2. CASE ~ (handler[g].aim = "update" /\ handler[g].subject = s)
    BY <1>4, <1>7, <2>2
  <2> QED
    BY <2>1, <2>2
<1> QED
  BY <1>2, <1>6, <1>7

LEMMA WriteInv ==
  ASSUME IInv, NEW h \in Handlers, NEW x \in Sids, NEW s \in Subjects,
         NEW n \in 1 .. MaxTokens, NEW new \in HandlerRow,
         new.at \in {"index", "check"}, new.aim = "none", Disturb(h, s, new),
         sess' = [sess EXCEPT ![x] = [subject |-> s, token |-> n]],
         minted' = [minted EXCEPT ![x] = n],
         ended[x] # "quiet",
         n + Cardinality(Rotating(x) \ {h}) <= MaxTokens,
         handler[h].at = "rotate" => handler[h].sid = x,
         UNCHANGED <<account, index, held, ended, crashes>>
  PROVE  IInv'
<1>1. /\ handler' \in [Handlers -> HandlerRow] /\ handler'[h] = new
      /\ \A g \in Handlers : g # h =>
              /\ handler'[g].at = handler[g].at /\ handler'[g].aim = handler[g].aim
              /\ handler'[g].sid = handler[g].sid
              /\ handler'[g].subject = handler[g].subject
              /\ handler'[g].todo = handler[g].todo
              /\ handler'[g].strays = handler[g].strays
              /\ handler'[g].quiet =>
                   handler[g].quiet /\ (handler[g].aim = "update" => handler[g].subject # s)
  BY DisturbRows DEF IInv
<1>2. /\ sess'[x].subject = s /\ minted'[x] = n
      /\ \A y \in Sids : y # x => sess'[y] = sess[y] /\ minted'[y] = minted[y]
  BY DEF IInv, TypeOK
<1>3. TypeOK'
  BY <1>1 DEF IInv, TypeOK, Record
<1>4. /\ Rotating(x)' = Rotating(x) \ {h}
      /\ \A y \in Sids : y # x => Rotating(y)' = Rotating(y)
      /\ \A y \in Sids : Rotating(y)' \subseteq Rotating(y)
  BY <1>1 DEF Rotating, At
<1>5. RoomForRotates'
  BY <1>2, <1>4 DEF IInv, RoomForRotates
<1>6. IssuedFirst'
  BY <1>1, <1>2 DEF IInv, IssuedFirst
<1>7. NothingBringsBack'
  BY <1>2, <1>4 DEF IInv, NothingBringsBack
<1>8. WritersDoNotRevoke'
  BY <1>1 DEF IInv, WritersDoNotRevoke
<1>9. RevokeAllIsComplete'
  <2> SUFFICES ASSUME NEW g \in Handlers PROVE Covered(handler[g])'
    BY DEF RevokeAllIsComplete
  <2>1. CASE g = h
    BY <1>1, <2>1 DEF Covered
  <2>2. CASE g # h
    <3>1. Covered(handler[g])
      BY DEF IInv, RevokeAllIsComplete
    <3> QED
      BY <1>1, <1>2, <2>2, <3>1 DEF Covered, StillToRevoke, Live
  <2> QED
    BY <2>1, <2>2
<1> QED
  BY <1>3, <1>5, <1>6, <1>7, <1>8, <1>9 DEF IInv

LEMMA IssueSetInv ==
  ASSUME IInv, NEW h \in Handlers, IssueSet(h)
  PROVE  IInv'
<1>1. /\ handler[h] \in HandlerRow /\ handler[h].at = "issue" /\ handler[h].aim = "none"
      /\ handler[h].subject \in Subjects
  BY DEF IInv, TypeOK, WritersDoNotRevoke, IssueSet, At, HandlerRow
<1>2. PICK x \in Unused :
        /\ sess' = [sess EXCEPT ![x] = [subject |-> handler[h].subject, token |-> 1]]
        /\ minted' = [minted EXCEPT ![x] = 1]
        /\ Disturb(h, handler[h].subject, [handler[h] EXCEPT !.at = "index", !.sid = x])
  BY DEF IssueSet
<1>3. x \in Sids /\ minted[x] = 0
  BY DEF Unused
<1> DEFINE new == [handler[h] EXCEPT !.at = "index", !.sid = x]
<1>4. new \in HandlerRow /\ new.at = "index" /\ new.aim = "none"
  BY <1>1, <1>3 DEF HandlerRow, Places
<1>5. Rotating(x) = {} /\ ended[x] # "quiet"
  BY <1>3 DEF IInv, IssuedFirst, NothingBringsBack, Rotating, At
<1>6. 1 + Cardinality(Rotating(x) \ {h}) <= MaxTokens
  <2>1. Rotating(x) \ {h} = {}
    BY <1>5
  <2> QED
    BY <2>1, FS_EmptySet
<1>7. /\ Disturb(h, handler[h].subject, new)
      /\ sess' = [sess EXCEPT ![x] = [subject |-> handler[h].subject, token |-> 1]]
      /\ minted' = [minted EXCEPT ![x] = 1]
      /\ UNCHANGED <<account, index, held, ended, crashes>>
  BY <1>2 DEF IssueSet
<1>8. 1 \in 1 .. MaxTokens
  OBVIOUS
<1> HIDE DEF new
<1> QED
  BY <1>1, <1>3, <1>4, <1>5, <1>6, <1>7, <1>8, WriteInv

LEMMA RotateSetInv ==
  ASSUME IInv, NEW h \in Handlers, RotateSet(h)
  PROVE  IInv'
<1> DEFINE x == handler[h].sid
           n == minted[x] + 1
           new == [handler[h] EXCEPT !.at = "check", !.token = n]
<1>1. /\ handler[h] \in HandlerRow /\ handler[h].at = "rotate" /\ handler[h].aim = "none"
      /\ handler[h].subject \in Subjects /\ x \in Sids /\ minted[x] \in Nat
  BY DEF IInv, TypeOK, WritersDoNotRevoke, RotateSet, At, HandlerRow
<1>2. h \in Rotating(x) /\ ended[x] # "quiet"
  BY <1>1 DEF IInv, NothingBringsBack, Rotating, At
<1>3. n + Cardinality(Rotating(x) \ {h}) <= MaxTokens
  <2>1. IsFiniteSet(Rotating(x)) /\ Cardinality(Rotating(x)) \in Nat
    BY <1>1, RotatingCount
  <2>2. Cardinality(Rotating(x) \ {h}) = Cardinality(Rotating(x)) - 1
    BY <1>2, <2>1, FS_RemoveElement
  <2>3. minted[x] + Cardinality(Rotating(x)) <= MaxTokens
    BY <1>1 DEF IInv, RoomForRotates
  <2> QED
    BY <1>1, <2>1, <2>2, <2>3
<1>4. n \in 1 .. MaxTokens
  <2>1. IsFiniteSet(Rotating(x) \ {h})
    BY <1>1, RotatingCount, FS_RemoveElement
  <2>2. Cardinality(Rotating(x) \ {h}) \in Nat
    BY <2>1, FS_CardinalityType
  <2> QED
    BY <1>1, <1>3, <2>2
<1>5. new \in HandlerRow /\ new.at = "check" /\ new.aim = "none"
  BY <1>1, <1>4 DEF HandlerRow, Places
<1>6. /\ Disturb(h, handler[h].subject, new)
      /\ sess' = [sess EXCEPT ![x] = [subject |-> handler[h].subject, token |-> n]]
      /\ minted' = [minted EXCEPT ![x] = n]
      /\ UNCHANGED <<account, index, held, ended, crashes>>
  BY DEF RotateSet
<1> HIDE DEF new, n
<1> QED
  BY <1>1, <1>2, <1>3, <1>4, <1>5, <1>6, WriteInv

-----------------------------------------------------------------------------
(* refresh.                                                                *)

\* A rotate begins.
LEMMA RotateBeginsInv ==
  ASSUME IInv, NEW h \in Handlers, NEW x \in Sids, NEW new \in HandlerRow,
         sess[x] # NoSession, MayMint(x), At(h, "idle"),
         new.at = "rotate", new.sid = x, new.aim = "none",
         handler' = [handler EXCEPT ![h] = new],
         UNCHANGED <<account, sess, index, minted, held, ended, crashes>>
  PROVE  IInv'
<1>1. /\ handler' \in [Handlers -> HandlerRow] /\ handler'[h] = new
      /\ \A g \in Handlers : g # h => handler'[g] = handler[g]
  BY DEF IInv, TypeOK
<1>2. TypeOK'
  BY <1>1 DEF IInv, TypeOK
<1>3. /\ Rotating(x)' = Rotating(x) \cup {h} /\ h \notin Rotating(x)
      /\ \A y \in Sids : y # x => Rotating(y)' = Rotating(y)
  BY <1>1 DEF Rotating, At
<1>4. RoomForRotates'
  <2>1. IsFiniteSet(Rotating(x)) /\ Cardinality(Rotating(x)) \in Nat
    BY RotatingCount
  <2>2. Cardinality(Rotating(x)') = Cardinality(Rotating(x)) + 1
    BY <1>3, <2>1, FS_AddElement
  <2>3. minted[x] + Cardinality(Rotating(x)') <= MaxTokens
    BY <2>1, <2>2 DEF MayMint, IInv, TypeOK
  <2> QED
    BY <1>3, <2>3 DEF IInv, RoomForRotates
<1>5. IssuedFirst' /\ NothingBringsBack' /\ WritersDoNotRevoke'
  BY <1>1, <1>3 DEF IInv, IssuedFirst, NothingBringsBack, WritersDoNotRevoke
<1>6. RevokeAllIsComplete'
  <2> SUFFICES ASSUME NEW g \in Handlers PROVE Covered(handler[g])'
    BY DEF RevokeAllIsComplete
  <2>1. Covered(handler'[g])
    BY <1>1 DEF IInv, RevokeAllIsComplete, Covered
  <2> QED
    BY <2>1 DEF Covered, StillToRevoke, Live
<1> QED
  BY <1>2, <1>4, <1>5, <1>6 DEF IInv

LEMMA RefreshInv ==
  ASSUME IInv, NEW h \in Handlers, NEW t \in held, Refresh(h, t)
  PROVE  IInv'
<1>1. /\ t.sid \in Sids /\ sess[t.sid] # NoSession
      /\ sess[t.sid].subject \in Subjects
  BY DEF Refresh, IInv, TypeOK, Token, Record
<1>2. CASE t.token = sess[t.sid].token
  <2> DEFINE new == [Blank EXCEPT !.at = "rotate", !.sid = t.sid,
                                  !.subject = sess[t.sid].subject]
  <2>1. new \in HandlerRow /\ new.at = "rotate" /\ new.sid = t.sid /\ new.aim = "none"
    BY <1>1, BlankRow DEF HandlerRow, Places
  <2>2. /\ At(h, "idle") /\ MayMint(t.sid)
        /\ handler' = [handler EXCEPT ![h] = new]
        /\ UNCHANGED <<account, sess, index, minted, held, ended, crashes>>
    BY <1>2 DEF Refresh
  <2> HIDE DEF new
  <2> QED
    BY <1>1, <2>1, <2>2, RotateBeginsInv
<1>3. CASE t.token # sess[t.sid].token
  BY <1>1, <1>3, RevokeInv DEF Refresh
<1> QED
  BY <1>2, <1>3

LEMMA RefreshCheckInv ==
  ASSUME IInv, NEW h \in Handlers, RefreshCheck(h)
  PROVE  IInv'
<1>1. handler[h] \in HandlerRow
  BY DEF IInv, TypeOK
<1>2. handler[h].sid \in Sids /\ handler[h].subject \in Subjects
      /\ handler[h].token \in 1 .. MaxTokens
  BY <1>1 DEF HandlerRow
<1>3. CASE account[handler[h].subject] # Barred
  <2>1. held' \subseteq Token
    BY <1>2, <1>3 DEF RefreshCheck, HandOut, IInv, TypeOK, Token
  <2> QED
    BY <1>3, <2>1, EndInv DEF RefreshCheck, HandOut, IInv, TypeOK
<1>4. CASE account[handler[h].subject] = Barred
  <2>1. /\ Revoke(h, handler[h].sid, handler[h].subject, "refused")
        /\ UNCHANGED <<account, sess, index, minted, held, ended, crashes>>
    BY <1>4 DEF RefreshCheck
  <2> QED
    BY <1>2, <2>1, RevokeInv
<1> QED
  BY <1>3, <1>4

-----------------------------------------------------------------------------
(* update and remove.                                                      *)

LEMMA ChangeInv ==
  ASSUME IInv, NEW h \in Handlers, NEW s \in Subjects, NEW standing \in Standings,
         Change(h, s, standing)
  PROVE  IInv'
<1>1. PICK aim \in {"update", "keep"} :
        handler' = [handler EXCEPT ![h] = [Blank EXCEPT !.at = "save", !.aim = aim,
                                                        !.subject = s, !.standing = standing]]
  BY DEF Change
<1> DEFINE new == [Blank EXCEPT !.at = "save", !.aim = aim,
                                !.subject = s, !.standing = standing]
<1>2. new \in HandlerRow /\ new.at = "save" /\ new.quiet = FALSE
  BY BlankRow DEF HandlerRow, Places
<1>3. Covered(new)
  BY <1>2 DEF Covered
<1>4. handler' = [handler EXCEPT ![h] = new]
  BY <1>1
<1> HIDE DEF new
<1> QED
  BY <1>2, <1>3, <1>4, MoveInv DEF Change, IInv, TypeOK

LEMMA SaveAccountInv ==
  ASSUME IInv, NEW h \in Handlers, SaveAccount(h)
  PROVE  IInv'
<1>1. handler[h] \in HandlerRow /\ handler[h].at = "save" /\ Covered(handler[h])
  BY DEF IInv, TypeOK, RevokeAllIsComplete, SaveAccount, At
<1>2. account' \in [Subjects -> Standings]
  BY <1>1 DEF SaveAccount, IInv, TypeOK, HandlerRow
<1>3. CASE handler[h].aim = "update"
  <2> DEFINE new == [handler[h] EXCEPT !.at = "list", !.standing = Barred]
  <2>1. new \in HandlerRow
    BY <1>1 DEF HandlerRow, Places
  <2>2. /\ new.at = "list" /\ new.quiet = handler[h].quiet
        /\ new.subject = handler[h].subject
        /\ new.todo = handler[h].todo /\ new.strays = handler[h].strays
    BY <1>1 DEF HandlerRow
  <2>3. Covered(new)
    BY <1>1, <1>3, <2>2 DEF Covered, StillToRevoke
  <2>4. handler' = [handler EXCEPT ![h] = new]
    BY <1>3 DEF SaveAccount
  <2> HIDE DEF new
  <2> QED
    BY <1>2, <2>1, <2>2, <2>3, <2>4, MoveInv DEF SaveAccount, IInv, TypeOK
<1>4. CASE handler[h].aim # "update"
  <2>1. handler' = [handler EXCEPT ![h] = Blank]
    BY <1>4 DEF SaveAccount
  <2> QED
    BY <1>2, <2>1, EndInv DEF SaveAccount, IInv, TypeOK
<1> QED
  BY <1>3, <1>4

\* SMEMBERS: what the loop will do and what it cannot know of is every session
\* that is alive.
LEMMA ListSidsInv ==
  ASSUME IInv, NEW h \in Handlers, ListSids(h)
  PROVE  IInv'
<1> DEFINE s == handler[h].subject
           new == [handler[h] EXCEPT !.at = "each", !.todo = index[s],
                                     !.quiet = TRUE, !.strays = Live(s) \ index[s]]
<1>1. handler[h] \in HandlerRow /\ s \in Subjects
  BY DEF IInv, TypeOK, HandlerRow
<1>2. index[s] \in SUBSET Sids /\ Live(s) \ index[s] \in SUBSET Sids
  BY <1>1 DEF IInv, TypeOK, Live
<1>3. new \in HandlerRow
  BY <1>1, <1>2 DEF HandlerRow, Places
<1>4. /\ new.at = "each" /\ new.subject = s
      /\ new.todo = index[s] /\ new.strays = Live(s) \ index[s]
  BY <1>1 DEF HandlerRow
<1>5. Covered(new)
  BY <1>4 DEF Covered, StillToRevoke
<1>6. handler' = [handler EXCEPT ![h] = new]
  BY DEF ListSids
<1> HIDE DEF new
<1> QED
  BY <1>3, <1>4, <1>5, <1>6, MoveInv DEF ListSids, IInv, TypeOK

LEMMA NextSidInv ==
  ASSUME IInv, NEW h \in Handlers, NextSid(h)
  PROVE  IInv'
<1>1. handler[h] \in HandlerRow /\ handler[h].at = "each" /\ Covered(handler[h])
  BY DEF IInv, TypeOK, RevokeAllIsComplete, NextSid, At
<1>2. ASSUME NEW x \in handler[h].todo,
             handler' = [handler EXCEPT ![h] =
                           [handler[h] EXCEPT !.at = "get", !.sid = x, !.todo = @ \ {x}]]
      PROVE  IInv'
  <2> DEFINE new == [handler[h] EXCEPT !.at = "get", !.sid = x, !.todo = @ \ {x}]
  <2>1. new \in HandlerRow
    BY <1>1 DEF HandlerRow, Places
  <2>2. /\ new.at = "get" /\ new.sid = x /\ new.todo = handler[h].todo \ {x}
        /\ new.aim = handler[h].aim /\ new.quiet = handler[h].quiet
        /\ new.subject = handler[h].subject /\ new.strays = handler[h].strays
    BY <1>1 DEF HandlerRow
  <2>3. Covered(new)
    BY <1>1, <2>2 DEF Covered, StillToRevoke
  <2>4. handler' = [handler EXCEPT ![h] = new]
    BY <1>2
  <2> HIDE DEF new
  <2> QED
    BY <2>1, <2>2, <2>3, <2>4, MoveInv DEF NextSid, IInv, TypeOK
<1>3. ASSUME handler[h].todo = {}, Goto(h, "drop")
      PROVE  IInv'
  <2> DEFINE new == [handler[h] EXCEPT !.at = "drop"]
  <2>1. new \in HandlerRow
    BY <1>1 DEF HandlerRow, Places
  <2>2. /\ new.at = "drop" /\ new.aim = handler[h].aim /\ new.quiet = handler[h].quiet
        /\ new.subject = handler[h].subject /\ new.strays = handler[h].strays
    BY <1>1 DEF HandlerRow
  <2>3. Covered(new)
    BY <1>1, <1>3, <2>2 DEF Covered, StillToRevoke
  <2>4. handler' = [handler EXCEPT ![h] = new]
    BY <1>3 DEF Goto
  <2> HIDE DEF new
  <2> QED
    BY <2>1, <2>2, <2>3, <2>4, MoveInv DEF NextSid, IInv, TypeOK
<1> QED
  BY <1>2, <1>3 DEF NextSid

LEMMA DropIndexInv ==
  ASSUME IInv, NEW h \in Handlers, DropIndex(h)
  PROVE  IInv'
<1>1. index' \in [Subjects -> SUBSET Sids]
  BY DEF DropIndex, IInv, TypeOK
<1> QED
  BY <1>1, EndInv DEF DropIndex, IInv, TypeOK

LEMMA CrashInv ==
  ASSUME IInv, NEW h \in Handlers, Crash(h)
  PROVE  IInv'
<1>1. crashes' \in 0 .. MaxCrashes
  BY DEF Crash, IInv, TypeOK
<1> QED
  BY <1>1, EndInv DEF Crash, IInv, TypeOK

-----------------------------------------------------------------------------
LEMMA StepInv == IInv /\ [Next]_vars => IInv'
<1> SUFFICES ASSUME IInv, [Next]_vars PROVE IInv'
  OBVIOUS
<1>1. CASE UNCHANGED vars
  BY <1>1 DEF vars, IInv, TypeOK, RoomForRotates, IssuedFirst, NothingBringsBack,
              WritersDoNotRevoke, RevokeAllIsComplete, Covered, StillToRevoke,
              Live, Rotating, At
<1>2. ASSUME NEW h \in Handlers, Arrive(h) PROVE IInv'
  BY <1>2, LoginInv, ChangeInv, LogoutInv, RefreshInv DEF Arrive
<1>3. ASSUME NEW h \in Handlers, Step(h) PROVE IInv'
  BY <1>3, TouchInv, IssueSetInv, IssueAddInv, RevokeGetInv, RevokeDelInv,
     RevokeSremInv, RotateSetInv, RefreshCheckInv, SaveAccountInv, ListSidsInv,
     NextSidInv, DropIndexInv DEF Step
<1>4. ASSUME NEW h \in Handlers, Crash(h) PROVE IInv'
  BY <1>4, CrashInv
<1>5. ASSUME NEW x \in Sids, Expire(x) PROVE IInv'
  BY <1>5, ExpireInv
<1> QED
  BY <1>1, <1>2, <1>3, <1>4, <1>5 DEF Next

\* The inductive invariant holds of every behaviour of the session store and
\* the requests that use it (sessions/session-store.service.ts).
THEOREM Invariance == Spec => []IInv
<1>1. Init => IInv
  BY InitInv
<1>2. IInv /\ [Next]_vars => IInv'
  BY StepInv
<1> QED
  BY <1>1, <1>2, PTL DEF Spec

\* The variables keep their types: in particular no session is set to a token
\* beyond the last one there is room for, however many rotates overlap.
THEOREM TypeCorrect == Spec => []TypeOK
<1>1. IInv => TypeOK
  BY DEF IInv
<1> QED
  BY <1>1, Invariance, PTL

\* A session that was revoked while nothing rotated it never comes back, for
\* any number of requests that still hold its tokens (revoke, lines 150-168,
\* under rotate, lines 101-148).
THEOREM RevokedForGood == Spec => []QuietRevokeIsFinal
<1>1. IInv => QuietRevokeIsFinal
  BY DEF IInv, NothingBringsBack, QuietRevokeIsFinal
<1> QED
  BY <1>1, Invariance, PTL

\* revokeAllForSubject (lines 170-179) passes over no session it could know of,
\* whatever else logs out, is refused, expires or dies while it loops.
THEOREM RevokeAllMissesNothing == Spec => []RevokeAllIsComplete
<1>1. IInv => RevokeAllIsComplete
  BY DEF IInv
<1> QED
  BY <1>1, Invariance, PTL
=============================================================================
