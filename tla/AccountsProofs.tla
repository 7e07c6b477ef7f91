---------------------------- MODULE AccountsProofs ----------------------------
(***************************************************************************)
(* Proofs about Accounts, for any number of customers, partners, numbers,  *)
(* requests and codes.  A request knows two kinds of things: what nobody   *)
(* can take from it (Carries: the account exists, the code is of this      *)
(* purpose), and what is true only while nobody else is at work on the     *)
(* account (Fresh).  A step changes nothing of the accounts it does not    *)
(* touch (SameFor), and as long as an account is calm one request touches  *)
(* it (Alone), so that each action is about its own accounts only          *)
(* (WriteInv).                                                             *)
(***************************************************************************)
EXTENDS Accounts, FiniteSetTheorems, SequenceTheorems, WellFoundedInduction, TLAPS

USE SubjectsAssumption, AttemptsAssumption, CodesAssumption, NothingAssumption,
    RequestsAssumption, NoRowAssumption

-----------------------------------------------------------------------------
(* The inductive invariant.                                                *)

MintingOps == {"first", "again", "mobile"}
Minting == {q \in Requests : request[q].op \in MintingOps /\ request[q].id = 0}
Purpose(d) == IF d.op \in {"mobile", "verifyMobile"} THEN "mobile" ELSE "signup"

\* Which operations are in the middle of what, and whether they have a code yet.
OnItsWay(d) ==
    /\ d.at = "insert" => d.op = "first"
    /\ d.at \in {"reread", "overwrite", "open"} => d.op = "again"
    /\ d.at = "cool" => d.op \in MintingOps
    /\ d.at = "invalidate" => d.op \in {"again", "mobile"}
    /\ d.at \in {"mint", "send"} => d.op \in MintingOps
    /\ d.at = "free" => d.op \in {"mobile", "verifyMobile"}
    /\ d.at \in {"stageRead", "stage"} => d.op = "mobile"
    /\ d.at \in {"check", "markRead", "mark"} => d.op \in {"verify", "verifyMobile"}
    /\ d.at = "number" => d.op = "verifyMobile"
    /\ d.at = "touch" => d.op = "login"
    /\ d.at = "done" => d = Blank
    /\ d.at \in {"insert", "reread", "overwrite", "open", "cool", "invalidate", "mint",
                 "touch"} => d.id = 0
    /\ d.at = "free" /\ d.op = "mobile" => d.id = 0

HasCode(d) ==
    \/ d.at \in {"send", "stageRead", "stage", "check", "number", "markRead", "mark"}
    \/ d.at = "free" /\ d.op = "verifyMobile"

\* What a request carries of the account and the code it is about.
Carries(d) ==
    /\ d \in RequestRow
    /\ OnItsWay(d)
    /\ d.at # "done" => d.who \in Subjects
    /\ d.at \notin {"done", "insert"} => Exists(d.who)
    /\ d.op \in {"mobile", "verifyMobile"} => d.who \in Users
    /\ d.at \in {"overwrite", "stage", "mark", "touch"} => d.row \in AccountRow
    /\ d.op = "mobile" => d.number \in Numbers
    /\ d.id \in 0 .. Len(codes)
    /\ HasCode(d) =>
         /\ d.id # 0
         /\ codes[d.id].purpose = Purpose(d)
         /\ d.at # "check" \/ d.op = "verify" => codes[d.id].subject = d.who
    /\ d.op \in {"verify", "verifyMobile"} /\ (d.at = "check" => d.right) =>
         codes[d.id].to # Nothing

\* What holds besides while the requests of an account have not overlapped: what has
\* been read of the account and its codes is still so.
Fresh(d) ==
    /\ d.at \in {"overwrite", "stage", "mark", "touch"} => d.row = account[d.who]
    /\ d.op = "first" /\ d.at \in {"cool", "mint"} => CodesOf(d.who, "signup") = {}
    /\ d.at \in {"invalidate", "mint"} =>
         \A i \in CodesOf(d.who, Purpose(d)) : ~ Young(i)
    /\ d.at = "mint" => Open(d.who, Purpose(d)) = {}
    /\ d.at \in {"stageRead", "stage"} =>
         \A i \in Open(d.who, "mobile") : codes[i].to = Nothing
    /\ d.at = "send" /\ d.op = "mobile" =>
         account[d.who].mobile = d.number /\ ~ account[d.who].mobileOk
    /\ d.op = "verifyMobile" /\ d.at \in {"number", "free", "markRead", "mark"} =>
         codes[d.id].to = account[d.who].mobile

CalmFacts(d) ==
    /\ d.who \in calm => Fresh(d)
    /\ d.at = "check" /\ codes[d.id].subject \in calm => codes[d.id].consumed = "no"

\* An account whose requests have not overlapped.
Ordered(s, purpose) ==
    /\ \A i \in CodesOf(s, purpose) : Young(i) => codes[i].consumed # "replaced"
    /\ \A i, j \in CodesOf(s, purpose) :
         i # j => /\ ~ (Young(i) /\ Young(j))
                  /\ ~ (i \in Open(s, purpose) /\ j \in Open(s, purpose))

Proved(s) ==
    Exists(s) =>
      /\ \A i \in Open(s, "mobile") :
           codes[i].to # Nothing => codes[i].to = account[s].mobile
      /\ account[s].mobileOk =>
           /\ proof[s].mobile \in CodesOf(s, "mobile")
           /\ codes[proof[s].mobile].to = account[s].mobile

InOrder(s) == Ordered(s, "signup") /\ Ordered(s, "mobile") /\ (s \in Users => Proved(s))

Typed ==
    /\ account \in [Subjects -> AccountRow \cup {Nothing}]
    /\ codes \in Seq(CodeRow)
    /\ request \in [Requests -> RequestRow]
    /\ proof \in [Subjects -> [signup : 0 .. MaxCodes, mobile : 0 .. MaxCodes]]
    /\ calm \subseteq Subjects

\* The codes there are and those that requests under way may make.
MintRoom == Len(codes) + Cardinality(Minting) <= MaxCodes

CodesInv ==
    /\ \A i \in 1 .. Len(codes) : Exists(codes[i].subject)
    /\ \A i, j \in 1 .. Len(codes) : i < j /\ Young(i) => Young(j)

Carried == \A q \in Requests : Carries(request[q])

\* Requests of an account that have not overlapped yet do not overlap.
Alone ==
    \A p, q \in Requests : p # q /\ request[p].at # "done" /\ request[q].at # "done" =>
      Touched(request[p]) \cap Touched(request[q]) \cap calm = {}

CalmInv == (\A q \in Requests : CalmFacts(request[q])) /\ (\A s \in calm : InOrder(s))

IInv ==
    /\ Typed /\ MintRoom /\ CodesInv /\ Carried
    /\ Alone /\ CalmInv
    /\ OneHolderPerNumber /\ OwnCode

-----------------------------------------------------------------------------
(* Numbers and sets.                                                       *)

\* What is counted as the latest code exists.
LEMMA Largest ==
  ASSUME NEW n \in Nat, NEW S \in SUBSET (1 .. n), S # {}
  PROVE  \E i \in S : \A j \in S : j <= i
<1> DEFINE R == {ss \in Nat \X Nat : ss[1] < ss[2]}
           T == {n - i : i \in S}
<1>1. IsWellFoundedOn(R, Nat)
  BY NatLessThanWellFounded DEF OpToRel
<1>2. \A i \in S : n - i \in Nat
  OBVIOUS
<1>3. T \subseteq Nat /\ T # {}
  BY <1>2
<1> HIDE DEF R, T
<1>4. PICK x \in T : \A y \in T : ~ (<<y, x>> \in R)
  BY <1>1, <1>3, WFMin
<1> USE DEF T
<1>5. PICK i \in S : x = n - i
  OBVIOUS
<1>6. ASSUME NEW j \in S PROVE j <= i
  <2>1. n - j \in T /\ n - j \in Nat /\ x \in Nat
    BY <1>2, <1>3
  <2>2. ~ (<<n - j, x>> \in R)
    BY <1>4, <2>1
  <2>3. ~ (n - j < x)
    BY <2>1, <2>2 DEF R
  <2> QED
    BY <1>5, <2>3
<1> QED
  BY <1>6

LEMMA MintingCount == IsFiniteSet(Minting) /\ Cardinality(Minting) \in Nat
<1>1. Minting \in SUBSET Requests
  BY DEF Minting
<1>2. IsFiniteSet(Minting)
  BY <1>1, FS_Subset
<1> QED
  BY <1>2, FS_CardinalityType

\* One request changes: how many may still make a code then.
LEMMA MintingMoved ==
  ASSUME Typed, NEW r \in Requests, NEW d, request' = [request EXCEPT ![r] = d]
  PROVE  LET mints == d.op \in MintingOps /\ d.id = 0 IN
         /\ (mints <=> r \in Minting) => Cardinality(Minting') = Cardinality(Minting)
         /\ mints /\ r \notin Minting => Cardinality(Minting') = Cardinality(Minting) + 1
         /\ ~ mints /\ r \in Minting => Cardinality(Minting') = Cardinality(Minting) - 1
<1> DEFINE mints == d.op \in MintingOps /\ d.id = 0
<1>1. Cardinality(Minting \cup {r}) =
        IF r \in Minting THEN Cardinality(Minting) ELSE Cardinality(Minting) + 1
  BY MintingCount, FS_AddElement
<1>2. Cardinality(Minting \ {r}) =
        IF r \in Minting THEN Cardinality(Minting) - 1 ELSE Cardinality(Minting)
  BY MintingCount, FS_RemoveElement
<1>3. Minting' = IF mints THEN Minting \cup {r} ELSE Minting \ {r}
  BY DEF Minting, Typed
<1> QED
  BY <1>1, <1>2, <1>3

-----------------------------------------------------------------------------
(* What a step leaves alone.                                               *)

\* No account and no code is lost.
Grows ==
    /\ \A s \in Subjects : Exists(s) => account'[s] # Nothing
    /\ Len(codes') \in Nat /\ Len(codes) <= Len(codes')
    /\ \A i \in 1 .. Len(codes) :
         /\ codes'[i].subject = codes[i].subject /\ codes'[i].purpose = codes[i].purpose
         /\ codes[i].to # Nothing => codes'[i].to # Nothing

\* Nothing of an account and its codes has changed.
SameFor(s) ==
    /\ account'[s] = account[s] /\ proof'[s] = proof[s]
    /\ \A i \in 1 .. Len(codes') :
         codes'[i].subject = s => i \in 1 .. Len(codes) /\ codes'[i] = codes[i]

LEMMA TouchedIs ==
  ASSUME NEW d, d.id \in 0 .. Len(codes)
  PROVE  Touched(d) = {d.who} \cup IF d.id = 0 THEN {} ELSE {codes[d.id].subject}
<1>1. d.id # 0 => {d.id} \cap (1 .. Len(codes)) = {d.id}
  OBVIOUS
<1>2. d.id = 0 => {d.id} \cap (1 .. Len(codes)) = {}
  OBVIOUS
<1> QED
  BY <1>1, <1>2 DEF Touched

LEMMA TouchedOn ==
  ASSUME Typed, NEW d, d.id \in 0 .. Len(codes), Grows
  PROVE  Touched(d)' = Touched(d)
<1>1. {d.id} \cap (1 .. Len(codes')) = {d.id} \cap (1 .. Len(codes))
  BY DEF Grows, Typed
<1> QED
  BY <1>1 DEF Touched, Grows

LEMMA CarriedOn ==
  ASSUME Typed, NEW d, Carries(d), Grows
  PROVE  Carries(d)'
<1>1. d.id \in 0 .. Len(codes') /\ (d.id # 0 => d.id \in 1 .. Len(codes))
  BY DEF Carries, Grows, Typed
<1>2. d.at \notin {"done", "insert"} => Exists(d.who)'
  BY DEF Carries, Grows, Exists, OnItsWay
<1>3. HasCode(d) => /\ d.id # 0 /\ codes'[d.id].purpose = Purpose(d)
                    /\ d.at # "check" \/ d.op = "verify" => codes'[d.id].subject = d.who
  BY <1>1 DEF Carries, Grows
<1>4. d.op \in {"verify", "verifyMobile"} /\ (d.at = "check" => d.right) =>
        codes'[d.id].to # Nothing
  <2>1. d.op \in {"verify", "verifyMobile"} => HasCode(d)
    BY DEF Carries, OnItsWay, HasCode, RequestRow, MintingOps, Blank
  <2> QED
    BY <1>1, <2>1 DEF Carries, Grows
<1> QED
  BY <1>1, <1>2, <1>3, <1>4 DEF Carries

LEMMA SameCodes ==
  ASSUME Typed, NEW s, SameFor(s), Grows, NEW purpose
  PROVE  /\ CodesOf(s, purpose)' = CodesOf(s, purpose)
         /\ Open(s, purpose)' = Open(s, purpose)
         /\ \A i \in CodesOf(s, purpose) : codes'[i] = codes[i] /\ (Young(i)' <=> Young(i))
         /\ Open(s, purpose) \subseteq CodesOf(s, purpose)
<1>1. ASSUME NEW i \in 1 .. Len(codes), codes[i].subject = s
      PROVE  codes'[i] = codes[i] /\ i \in 1 .. Len(codes')
  <2>1. i \in 1 .. Len(codes') /\ codes'[i].subject = s
    BY <1>1 DEF Grows, Typed
  <2> QED
    BY <2>1 DEF SameFor
<1>2. CodesOf(s, purpose)' = CodesOf(s, purpose)
  BY <1>1 DEF SameFor, Grows, CodesOf, Typed
<1>3. \A i \in CodesOf(s, purpose) : codes'[i] = codes[i] /\ (Young(i)' <=> Young(i))
  BY <1>1 DEF CodesOf, Young
<1>4. Open(s, purpose)' = Open(s, purpose)
  BY <1>2, <1>3 DEF Open
<1> QED
  BY <1>2, <1>3, <1>4 DEF Open

LEMMA FreshOn ==
  ASSUME Typed, NEW d, Carries(d), Fresh(d), SameFor(d.who), Grows
  PROVE  Fresh(d)'
<1>1. \A purpose :
        /\ CodesOf(d.who, purpose)' = CodesOf(d.who, purpose)
        /\ Open(d.who, purpose)' = Open(d.who, purpose)
        /\ \A i \in CodesOf(d.who, purpose) :
             codes'[i] = codes[i] /\ (Young(i)' <=> Young(i))
        /\ Open(d.who, purpose) \subseteq CodesOf(d.who, purpose)
  BY SameCodes
<1>2. d.op = "verifyMobile" /\ d.at \in {"number", "free", "markRead", "mark"} =>
        codes'[d.id] = codes[d.id]
  BY DEF Carries, HasCode, SameFor, Grows, Typed
<1> QED
  BY <1>1, <1>2 DEF Fresh, SameFor

LEMMA InOrderOn ==
  ASSUME Typed, NEW s, InOrder(s), SameFor(s), Grows
  PROVE  InOrder(s)'
<1>1. \A purpose :
        /\ CodesOf(s, purpose)' = CodesOf(s, purpose)
        /\ Open(s, purpose)' = Open(s, purpose)
        /\ \A i \in CodesOf(s, purpose) : codes'[i] = codes[i] /\ (Young(i)' <=> Young(i))
        /\ Open(s, purpose) \subseteq CodesOf(s, purpose)
  BY SameCodes
<1>2. ASSUME NEW purpose, Ordered(s, purpose) PROVE Ordered(s, purpose)'
  BY <1>1, <1>2 DEF Ordered
<1>3. ASSUME Proved(s) PROVE Proved(s)'
  BY <1>1, <1>3 DEF Proved, SameFor, Exists
<1> QED
  BY <1>2, <1>3 DEF InOrder

-----------------------------------------------------------------------------
(* The kinds of steps.                                                     *)

LEMMA BlankRow ==
  /\ Blank \in RequestRow /\ Blank.at = "done" /\ Blank.op = "none" /\ Blank.id = 0
  /\ Blank.who = Nothing
  /\ Carries(Blank) /\ CalmFacts(Blank)
  /\ Carries(Blank)'
  /\ calm' = calm /\ Typed => CalmFacts(Blank)'
<1>1. /\ Blank \in RequestRow /\ Blank.at = "done" /\ Blank.op = "none" /\ Blank.id = 0
      /\ Blank.who = Nothing
  BY DEF Blank, RequestRow
<1>2. OnItsWay(Blank)
  BY <1>1 DEF OnItsWay
<1>3. Carries(Blank)
  BY <1>1, <1>2 DEF Carries, HasCode
<1>4. Carries(Blank)'
  BY <1>1, <1>2 DEF Carries, HasCode
<1>5. Fresh(Blank)
  BY <1>1 DEF Fresh
<1>6. CalmFacts(Blank)
  BY <1>1, <1>5 DEF CalmFacts
<1>7. calm' = calm /\ Typed => CalmFacts(Blank)'
  BY <1>1 DEF CalmFacts, Typed, Subjects
<1> QED
  BY <1>1, <1>3, <1>4, <1>6, <1>7

LEMMA CalmFactsOn ==
  ASSUME Typed, NEW d, Carries(d), CalmFacts(d), Grows, calm' = calm,
         \A s \in calm \cap Touched(d) : SameFor(s)
  PROVE  CalmFacts(d)'
<1>1. d.id \in 0 .. Len(codes)
  BY DEF Carries
<1>2. d.who \in Touched(d) /\ (d.id # 0 => codes[d.id].subject \in Touched(d))
  BY <1>1, TouchedIs
<1>3. d.who \in calm => Fresh(d)'
  BY <1>2, FreshOn DEF CalmFacts
<1>4. ASSUME d.at = "check", codes'[d.id].subject \in calm
      PROVE  codes'[d.id].consumed = "no"
  <2>1. d.id \in 1 .. Len(codes) /\ d.id \in 1 .. Len(codes')
    BY <1>1, <1>4 DEF Carries, HasCode, Grows, Typed
  <2>2. codes'[d.id].subject = codes[d.id].subject
    BY <2>1 DEF Grows
  <2>3. codes'[d.id] = codes[d.id]
    BY <1>2, <1>4, <2>1, <2>2 DEF SameFor
  <2> QED
    BY <1>4, <2>2, <2>3 DEF CalmFacts
<1> QED
  BY <1>3, <1>4 DEF CalmFacts

\* What the actions read of a request.
LEMMA RequestRead ==
  ASSUME IInv, NEW r \in Requests
  PROVE  /\ Carries(request[r]) /\ request[r] \in RequestRow
         /\ CalmFacts(request[r])
         /\ Len(codes) \in Nat /\ codes \in Seq(CodeRow)
  BY DEF IInv, Typed, Carried, CalmInv

\* A request goes on, and changes only accounts that it touches.
LEMMA WriteInv ==
  ASSUME IInv, NEW r \in Requests, NEW d, request' = [request EXCEPT ![r] = d],
         request[r].at # "done", Grows, calm' = calm,
         d.at # "done" => Touched(d)' \subseteq Touched(request[r]),
         \A s \in Subjects \ Touched(request[r]) : SameFor(s),
         account' \in [Subjects -> AccountRow \cup {Nothing}], codes' \in Seq(CodeRow),
         proof' \in [Subjects -> [signup : 0 .. MaxCodes, mobile : 0 .. MaxCodes]],
         MintRoom', CodesInv', OneHolderPerNumber', OwnCode',
         d \in RequestRow, Carries(d)', CalmFacts(d)',
         \A s \in calm \cap Touched(request[r]) : InOrder(s)'
  PROVE  IInv'
<1> DEFINE mine == Touched(request[r])
<1>1. request'[r] = d /\ \A q \in Requests : q # r => request'[q] = request[q]
  BY DEF IInv, Typed
<1>2. Typed'
  BY DEF IInv, Typed
<1>3. Carried'
  <2> SUFFICES ASSUME NEW q \in Requests PROVE Carries(request[q])'
    BY DEF Carried
  <2>1. CASE q = r
    BY <1>1, <2>1
  <2>2. CASE q # r
    <3>1. Carries(request[q]) /\ Typed
      BY DEF IInv, Carried
    <3> QED
      BY <1>1, <2>2, <3>1, CarriedOn
  <2> QED
    BY <2>1, <2>2
<1>4. \A q \in Requests : q # r => Touched(request[q])' = Touched(request[q])
  <2> SUFFICES ASSUME NEW q \in Requests, q # r
               PROVE  Touched(request[q])' = Touched(request[q])
    OBVIOUS
  <2>1. request[q].id \in 0 .. Len(codes) /\ Typed
    BY DEF IInv, Carried, Carries
  <2> QED
    BY <1>1, <2>1, TouchedOn
<1>5. Touched(request[r])' = Touched(d)'
  BY <1>1
<1>6. Alone'
  <2> SUFFICES ASSUME NEW p \in Requests, NEW q \in Requests, p # q,
                      request'[p].at # "done", request'[q].at # "done"
               PROVE  (Touched(request[p]) \cap Touched(request[q]) \cap calm)' = {}
    BY DEF Alone
  <2>1. /\ request[p].at # "done" /\ request[q].at # "done"
        /\ Touched(request[p])' \subseteq Touched(request[p])
        /\ Touched(request[q])' \subseteq Touched(request[q])
    BY <1>1, <1>4, <1>5
  <2> QED
    BY <2>1 DEF IInv, Alone
<1>7. ASSUME NEW q \in Requests PROVE CalmFacts(request[q])'
  <2>1. CASE q = r
    BY <1>1, <2>1
  <2>2. CASE request[q].at = "done" /\ q # r
    <3>1. request'[q] = Blank /\ Typed
      BY <1>1, <2>2 DEF IInv, Carried, Carries, OnItsWay
    <3> QED
      BY <3>1, BlankRow
  <2>3. CASE q # r /\ request[q].at # "done"
    <3>1. /\ Carries(request[q]) /\ CalmFacts(request[q]) /\ Typed
          /\ Touched(request[q]) \cap mine \cap calm = {}
      BY <2>3 DEF IInv, Carried, CalmInv, Alone
    <3>2. \A s \in calm \cap Touched(request[q]) : SameFor(s)
      BY <3>1 DEF Typed
    <3> QED
      BY <1>1, <2>3, <3>1, <3>2, CalmFactsOn
  <2> QED
    BY <2>1, <2>2, <2>3
<1>8. ASSUME NEW s \in calm PROVE InOrder(s)'
  <2>1. CASE s \in mine
    BY <2>1
  <2>2. CASE s \notin mine
    <3>1. SameFor(s) /\ InOrder(s) /\ Typed
      BY <2>2 DEF IInv, CalmInv, Typed
    <3> QED
      BY <3>1, InOrderOn
  <2> QED
    BY <2>1, <2>2
<1>9. CalmInv'
  BY <1>7, <1>8 DEF CalmInv
<1> QED
  BY <1>2, <1>3, <1>6, <1>9 DEF IInv

\* A request goes on and the tables stay as they are.
LEMMA MoveInv ==
  ASSUME IInv, NEW r \in Requests, NEW d, request' = [request EXCEPT ![r] = d],
         request[r].at # "done", UNCHANGED <<account, codes, proof, calm>>,
         d.at # "done" => Touched(d) \subseteq Touched(request[r]),
         d.op \in MintingOps /\ d.id = 0 => r \in Minting,
         Carries(d), CalmFacts(d)
  PROVE  IInv'
<1>1. Typed /\ Len(codes) \in Nat
  BY DEF IInv, Typed
<1>2. Grows
  BY <1>1 DEF Grows, Exists
<1>3. \A s \in Subjects : SameFor(s)
  BY DEF SameFor
<1>4. MintRoom'
  <2>1. /\ Len(codes) + Cardinality(Minting) <= MaxCodes /\ Cardinality(Minting) \in Nat
        /\ Len(codes') = Len(codes)
    BY MintingCount DEF IInv, MintRoom
  <2>2. \/ Cardinality(Minting') = Cardinality(Minting)
        \/ Cardinality(Minting') = Cardinality(Minting) - 1
    BY <1>1, MintingMoved
  <2> QED
    BY <1>1, <2>1, <2>2 DEF MintRoom
<1>5. CodesInv'
  BY DEF IInv, CodesInv, Exists, Young
<1>6. OneHolderPerNumber' /\ OwnCode'
  BY DEF IInv, OneHolderPerNumber, OwnCode, HoldsNumber, Exists, CodesOf
<1>7. Carries(d)'
  BY <1>1, <1>2, CarriedOn
<1>8. CalmFacts(d)'
  <2>1. Fresh(d) => Fresh(d)'
    BY <1>3 DEF Fresh, CodesOf, Open, Young
  <2> QED
    BY <2>1 DEF CalmFacts
<1>9. \A s \in calm : InOrder(s)'
  BY <1>1, <1>2, <1>3, InOrderOn DEF IInv, CalmInv, Typed
<1>10. d \in RequestRow /\ d.id \in 0 .. Len(codes)
  BY DEF Carries
<1>11. Touched(d)' = Touched(d)
  BY <1>1, <1>2, <1>10, TouchedOn
<1>12. Typed'
  BY <1>10 DEF IInv, Typed
<1> QED
  BY <1>2, <1>3, <1>4, <1>5, <1>6, <1>7, <1>8, <1>9, <1>10, <1>11, <1>12, WriteInv DEF Typed

LEMMA EndInv ==
  ASSUME IInv, NEW r \in Requests, request[r].at # "done", Finish(r),
         UNCHANGED <<account, codes, proof, calm>>
  PROVE  IInv'
<1>1. Blank.op \notin MintingOps
  BY BlankRow DEF MintingOps
<1> QED
  BY <1>1, BlankRow, MoveInv DEF Finish

\* A request begins; an account it meets another one at is calm no more.
LEMMA BeginInv ==
  ASSUME IInv, NEW r \in Requests, NEW d, Begin(r, d), d.at # "done",
         UNCHANGED <<account, codes, proof>>,
         d.op \in MintingOps /\ d.id = 0 => MayMint,
         Carries(d), Fresh(d), d.at = "check" => codes[d.id].consumed = "no"
  PROVE  IInv'
<1>1. /\ request' = [request EXCEPT ![r] = d] /\ request[r].at = "done"
      /\ calm' = calm \ {s \in Touched(d) : Busy(s)}
  BY DEF Begin, At
<1>2. Typed /\ Len(codes) \in Nat
  BY DEF IInv, Typed
<1>3. request'[r] = d /\ \A q \in Requests : q # r => request'[q] = request[q]
  BY <1>1, <1>2 DEF Typed
<1>4. Grows
  BY <1>2 DEF Grows, Exists
<1>5. \A s \in Subjects : SameFor(s)
  BY DEF SameFor
<1>6. Typed'
  BY <1>1 DEF IInv, Typed, Carries
<1>7. MintRoom'
  <2>1. /\ Len(codes) + Cardinality(Minting) <= MaxCodes /\ Cardinality(Minting) \in Nat
        /\ Len(codes') = Len(codes)
    BY MintingCount DEF IInv, MintRoom
  <2>2. MayMint <=> Len(codes) + Cardinality(Minting) < MaxCodes
    BY DEF MayMint, Minting, MintingOps
  <2>3. \/ Cardinality(Minting') = Cardinality(Minting)
        \/ Cardinality(Minting') = Cardinality(Minting) + 1 /\ MayMint
        \/ Cardinality(Minting') = Cardinality(Minting) - 1
    BY <1>1, <1>2, MintingMoved
  <2> QED
    BY <1>2, <2>1, <2>2, <2>3 DEF MintRoom
<1>8. CodesInv'
  BY DEF IInv, CodesInv, Exists, Young
<1>9. OneHolderPerNumber' /\ OwnCode'
  BY DEF IInv, OneHolderPerNumber, OwnCode, HoldsNumber, Exists, CodesOf
<1>10. Carried'
  <2> SUFFICES ASSUME NEW q \in Requests PROVE Carries(request[q])'
    BY DEF Carried
  <2>1. Carries(request[q])
    BY DEF IInv, Carried
  <2>2. Carries(d)' /\ (q # r => Carries(request[q])')
    BY <1>2, <1>3, <1>4, <2>1, CarriedOn
  <2> QED
    BY <1>3, <2>2
<1>11. Alone'
  <2>1. \A q \in Requests : q # r => Touched(request[q])' = Touched(request[q])
    <3> SUFFICES ASSUME NEW q \in Requests, q # r
                 PROVE  Touched(request[q])' = Touched(request[q])
      OBVIOUS
    <3>1. request[q].id \in 0 .. Len(codes)
      BY DEF IInv, Carried, Carries
    <3> QED
      BY <1>2, <1>3, <1>4, <3>1, TouchedOn
  <2>2. Touched(request[r])' = Touched(d)
    <3>1. d.id \in 0 .. Len(codes)
      BY DEF Carries
    <3> QED
      BY <1>2, <1>3, <1>4, <3>1, TouchedOn
  <2>3. ASSUME NEW q \in Requests, q # r, request'[q].at # "done"
        PROVE  Touched(d) \cap Touched(request[q]) \cap calm' = {}
    BY <1>1, <1>3, <2>3 DEF Busy
  <2>4. ASSUME NEW p \in Requests, NEW q \in Requests, p # q,
               request'[p].at # "done", request'[q].at # "done", p # r, q # r
        PROVE  Touched(request[p]) \cap Touched(request[q]) \cap calm' = {}
    BY <1>1, <1>3, <2>4 DEF IInv, Alone
  <2> QED
    BY <2>1, <2>2, <2>3, <2>4 DEF Alone
<1>12. \A q \in Requests : CalmFacts(request[q])'
  <2> SUFFICES ASSUME NEW q \in Requests PROVE CalmFacts(request[q])'
    OBVIOUS
  <2>1. Fresh(d)'
    BY DEF Fresh, CodesOf, Open, Young
  <2>2. CASE q = r
    BY <1>3, <2>1, <2>2 DEF CalmFacts
  <2>3. CASE q # r
    <3>1. CalmFacts(request[q]) /\ request'[q] = request[q]
      BY <1>3, <2>3 DEF IInv, CalmInv
    <3>2. Fresh(request[q]) => Fresh(request[q])'
      BY <3>1 DEF Fresh, CodesOf, Open, Young
    <3> QED
      BY <1>1, <3>1, <3>2 DEF CalmFacts
  <2> QED
    BY <2>2, <2>3
<1>13. \A s \in calm' : InOrder(s)'
  BY <1>1, <1>2, <1>4, <1>5, InOrderOn DEF IInv, CalmInv, Typed
<1> QED
  BY <1>6, <1>7, <1>8, <1>9, <1>10, <1>11, <1>12, <1>13 DEF IInv, CalmInv

-----------------------------------------------------------------------------
(* Requests begin.                                                         *)

LEMMA SignupInv ==
  ASSUME IInv, NEW r \in Requests, NEW s \in Subjects, Signup(r, s)
  PROVE  IInv'
<1> DEFINE at == IF Exists(s) THEN "reread" ELSE "insert"
           op == IF Exists(s) THEN "again" ELSE "first"
           d == [Blank EXCEPT !.at = at, !.op = op, !.who = s]
<1>1. Begin(r, d) /\ MayMint /\ UNCHANGED <<account, codes, proof>>
  BY DEF Signup
<1>2. \/ at = "reread" /\ op = "again" /\ Exists(s)
      \/ at = "insert" /\ op = "first"
  OBVIOUS
<1> HIDE DEF at, op
<1>3. /\ d \in RequestRow /\ d.at = at /\ d.op = op /\ d.who = s /\ d.id = 0
  BY <1>2, BlankRow DEF RequestRow
<1> HIDE DEF d
<1>4. Carries(d) /\ Fresh(d)
  BY <1>2, <1>3, RequestRead DEF Carries, OnItsWay, HasCode, Fresh, MintingOps
<1> QED
  BY <1>1, <1>2, <1>3, <1>4, BeginInv

LEMMA RegisterInv ==
  ASSUME IInv, NEW r \in Requests, NEW s \in Subjects, Register(r, s)
  PROVE  IInv'
<1> DEFINE at == IF Exists(s) THEN "overwrite" ELSE "insert"
           op == IF Exists(s) THEN "again" ELSE "first"
           d == [Blank EXCEPT !.at = at, !.op = op, !.who = s, !.row = account[s]]
<1>1. Begin(r, d) /\ MayMint /\ UNCHANGED <<account, codes, proof>>
  BY DEF Register
<1>2. \/ at = "overwrite" /\ op = "again" /\ Exists(s)
      \/ at = "insert" /\ op = "first"
  OBVIOUS
<1>3. account[s] \in AccountRow \cup {Nothing} /\ (Exists(s) => account[s] \in AccountRow)
  BY DEF IInv, Typed, Exists
<1> HIDE DEF at, op
<1>4. /\ d \in RequestRow /\ d.at = at /\ d.op = op /\ d.who = s /\ d.id = 0
      /\ d.row = account[s]
  BY <1>2, <1>3, BlankRow DEF RequestRow
<1> HIDE DEF d
<1>5. Carries(d) /\ Fresh(d)
  BY <1>2, <1>3, <1>4, RequestRead DEF Carries, OnItsWay, HasCode, Fresh, MintingOps
<1> QED
  BY <1>1, <1>2, <1>4, <1>5, BeginInv

LEMMA LoginUnverifiedInv ==
  ASSUME IInv, NEW r \in Requests, NEW s \in Subjects, LoginUnverified(r, s)
  PROVE  IInv'
<1> DEFINE d == [Blank EXCEPT !.at = "open", !.op = "again", !.who = s]
<1>1. Begin(r, d) /\ MayMint /\ Exists(s) /\ UNCHANGED <<account, codes, proof>>
  BY DEF LoginUnverified
<1>2. d \in RequestRow /\ d.at = "open" /\ d.op = "again" /\ d.who = s /\ d.id = 0
  BY BlankRow DEF RequestRow
<1> HIDE DEF d
<1>3. Carries(d) /\ Fresh(d)
  BY <1>1, <1>2, RequestRead DEF Carries, OnItsWay, HasCode, Fresh, MintingOps
<1> QED
  BY <1>1, <1>2, <1>3, BeginInv

\* A row of the table of codes.
LEMMA CodeRead ==
  ASSUME IInv, NEW i \in 1 .. Len(codes)
  PROVE  /\ codes[i] \in CodeRow /\ codes[i].subject \in Subjects
         /\ codes[i].purpose \in Purposes /\ codes[i].attempts \in 0 .. MaxAttempts
         /\ Exists(codes[i].subject) /\ i \in 1 .. MaxCodes /\ i \in 0 .. Len(codes)
<1>1. Len(codes) \in Nat /\ Len(codes) <= MaxCodes
  BY MintingCount DEF IInv, Typed, MintRoom
<1>2. codes[i] \in CodeRow /\ Exists(codes[i].subject)
  BY DEF IInv, Typed, CodesInv
<1> QED
  BY <1>1, <1>2 DEF CodeRow

LEMMA ResendInv ==
  ASSUME IInv, NEW r \in Requests, NEW i \in 1 .. Len(codes), Resend(r, i)
  PROVE  IInv'
<1> DEFINE s == codes[i].subject
           d == [Blank EXCEPT !.at = "cool", !.op = "again", !.who = s]
<1>1. Begin(r, d) /\ MayMint /\ Exists(s) /\ UNCHANGED <<account, codes, proof>>
  BY DEF Resend
<1>2. s \in Subjects
  BY CodeRead
<1> HIDE DEF s
<1>3. d \in RequestRow /\ d.at = "cool" /\ d.op = "again" /\ d.who = s /\ d.id = 0
  BY <1>2, BlankRow DEF RequestRow
<1> HIDE DEF d
<1>4. Carries(d) /\ Fresh(d)
  BY <1>1, <1>2, <1>3, RequestRead DEF Carries, OnItsWay, HasCode, Fresh, MintingOps
<1> QED
  BY <1>1, <1>3, <1>4, BeginInv

LEMMA SetMobileInv ==
  ASSUME IInv, NEW r \in Requests, NEW s \in Users, NEW n \in Numbers, SetMobile(r, s, n)
  PROVE  IInv'
<1> DEFINE d == [Blank EXCEPT !.at = "free", !.op = "mobile", !.who = s, !.number = n]
<1>1. /\ Begin(r, d) /\ MayMint /\ Exists(s) /\ s \in Subjects
      /\ UNCHANGED <<account, codes, proof>>
  BY DEF SetMobile, Verified, Subjects
<1>2. /\ d \in RequestRow /\ d.at = "free" /\ d.op = "mobile" /\ d.who = s /\ d.id = 0
      /\ d.number = n
  BY <1>1, BlankRow DEF RequestRow
<1> HIDE DEF d
<1>3. Carries(d) /\ Fresh(d)
  BY <1>1, <1>2, RequestRead DEF Carries, OnItsWay, HasCode, Fresh, MintingOps
<1> QED
  BY <1>1, <1>2, <1>3, BeginInv

LEMMA VerifyOtpInv ==
  ASSUME IInv, NEW r \in Requests, NEW i \in 1 .. Len(codes), NEW right \in BOOLEAN,
         VerifyOtp(r, i, right)
  PROVE  IInv'
<1> DEFINE s == codes[i].subject
           n == codes[i].attempts
           d == [Blank EXCEPT !.at = "check", !.op = "verify", !.who = s, !.id = i,
                              !.right = right, !.attempts = n]
<1>1. /\ Begin(r, d) /\ UNCHANGED <<account, codes, proof>>
      /\ codes[i].consumed = "no" /\ codes[i].purpose = "signup"
      /\ right => codes[i].to # Nothing
  BY DEF VerifyOtp, Acceptable, Guess
<1>2. /\ s \in Subjects /\ n \in 0 .. MaxAttempts - 1 /\ Exists(s) /\ i \in 0 .. MaxCodes
      /\ i # 0 /\ i \in 0 .. Len(codes) /\ s = codes[i].subject
  BY CodeRead DEF VerifyOtp, Acceptable, Locked
<1> HIDE DEF s, n
<1>3. /\ d \in RequestRow /\ d.at = "check" /\ d.op = "verify" /\ d.who = s /\ d.id = i
      /\ d.right = right
  <2>1. Blank \in RequestRow
    BY BlankRow
  <2> QED
    BY <1>2, <2>1 DEF RequestRow
<1> HIDE DEF d
<1>4. Carries(d) /\ Fresh(d)
  BY <1>1, <1>2, <1>3 DEF Carries, OnItsWay, HasCode, Fresh, MintingOps, Purpose
<1>5. codes[d.id].consumed = "no" /\ d.op \notin MintingOps
  BY <1>1, <1>3 DEF MintingOps
<1> QED
  BY <1>1, <1>3, <1>4, <1>5, BeginInv

LEMMA VerifyMobileInv ==
  ASSUME IInv, NEW r \in Requests, NEW s \in Users, NEW i \in 1 .. Len(codes),
         NEW right \in BOOLEAN, VerifyMobile(r, s, i, right)
  PROVE  IInv'
<1> DEFINE n == codes[i].attempts
           d == [Blank EXCEPT !.at = "check", !.op = "verifyMobile", !.who = s, !.id = i,
                              !.right = right, !.attempts = n]
<1>1. /\ Begin(r, d) /\ UNCHANGED <<account, codes, proof>> /\ Exists(s)
      /\ codes[i].consumed = "no" /\ codes[i].purpose = "mobile"
      /\ right => codes[i].to # Nothing
  BY DEF VerifyMobile, Acceptable, Guess, Verified
<1>2. /\ s \in Subjects /\ n \in 0 .. MaxAttempts - 1 /\ i \in 0 .. MaxCodes
      /\ i # 0 /\ i \in 0 .. Len(codes)
  BY CodeRead DEF VerifyMobile, Acceptable, Locked, Subjects
<1> HIDE DEF n
<1>3. /\ d \in RequestRow /\ d.at = "check" /\ d.op = "verifyMobile" /\ d.who = s
      /\ d.id = i /\ d.right = right
  <2>1. Blank \in RequestRow
    BY BlankRow
  <2> QED
    BY <1>2, <2>1 DEF RequestRow
<1> HIDE DEF d
<1>4. Carries(d) /\ Fresh(d)
  BY <1>1, <1>2, <1>3 DEF Carries, OnItsWay, HasCode, Fresh, MintingOps, Purpose
<1>5. codes[d.id].consumed = "no" /\ d.op \notin MintingOps
  BY <1>1, <1>3 DEF MintingOps
<1> QED
  BY <1>1, <1>3, <1>4, <1>5, BeginInv

LEMMA PartnerLoginInv ==
  ASSUME IInv, NEW r \in Requests, NEW s \in Subjects, PartnerLogin(r, s)
  PROVE  IInv'
<1> DEFINE d == [Blank EXCEPT !.at = "touch", !.op = "login", !.who = s, !.row = account[s]]
<1>1. Begin(r, d) /\ Exists(s) /\ UNCHANGED <<account, codes, proof>>
  BY DEF PartnerLogin, Verified
<1>2. account[s] \in AccountRow
  BY <1>1 DEF IInv, Typed, Exists
<1>3. /\ d \in RequestRow /\ d.at = "touch" /\ d.op = "login" /\ d.who = s /\ d.id = 0
      /\ d.row = account[s]
  BY <1>2, BlankRow DEF RequestRow
<1> HIDE DEF d
<1>4. Carries(d) /\ Fresh(d) /\ d.op \notin MintingOps
  BY <1>1, <1>2, <1>3, RequestRead DEF Carries, OnItsWay, HasCode, Fresh, MintingOps
<1> QED
  BY <1>1, <1>3, <1>4, BeginInv

-----------------------------------------------------------------------------
(* Requests go on.                                                         *)

\* The same request, somewhere else.
Same(d, c) ==
    /\ d \in RequestRow
    /\ d.op = c.op /\ d.who = c.who /\ d.id = c.id /\ d.right = c.right
    /\ d.attempts = c.attempts

LEMMA GoneTo ==
  ASSUME IInv, NEW r \in Requests, NEW where, Goto(r, where),
         where \in {"open", "cool", "invalidate", "mint", "send", "free", "number", "markRead"}
  PROVE  \E d : /\ request' = [request EXCEPT ![r] = d]
                /\ Same(d, request[r]) /\ d.at = where
                /\ d.number = request[r].number /\ d.row = request[r].row
<1> DEFINE c == request[r]
           d == [c EXCEPT !.at = where]
<1>1. request' = [request EXCEPT ![r] = d]
  BY DEF Goto
<1>2. c \in RequestRow
  BY RequestRead
<1> HIDE DEF c
<1>3. Same(d, c) /\ d.at = where /\ d.number = c.number /\ d.row = c.row
  BY <1>2 DEF RequestRow, Same
<1> QED
  BY <1>1, <1>3 DEF c

LEMMA Copied ==
  ASSUME IInv, NEW r \in Requests, NEW where, Copy(r, where),
         where \in {"overwrite", "stage", "mark"},
         Exists(request[r].who), request[r].who \in Subjects
  PROVE  \E d : /\ request' = [request EXCEPT ![r] = d]
                /\ Same(d, request[r]) /\ d.at = where /\ d.number = request[r].number
                /\ d.row = account[request[r].who] /\ d.row \in AccountRow
<1> DEFINE c == request[r]
           a == account[c.who]
           d == [c EXCEPT !.at = where, !.row = a]
<1>1. request' = [request EXCEPT ![r] = d]
  BY DEF Copy
<1>2. c \in RequestRow /\ a \in AccountRow
  BY RequestRead DEF IInv, Typed, Exists
<1> HIDE DEF c, a
<1>3. Same(d, c) /\ d.at = where /\ d.number = c.number /\ d.row = a
  BY <1>2 DEF RequestRow, Same
<1> QED
  BY <1>1, <1>2, <1>3 DEF c, a

LEMMA OnInv ==
  ASSUME IInv, NEW r \in Requests, request[r].at # "done",
         NEW d, request' = [request EXCEPT ![r] = d], Same(d, request[r]),
         UNCHANGED <<account, codes, proof, calm>>,
         Carries(d), d.who \in calm => Fresh(d), d.at # "check"
  PROVE  IInv'
<1>1. Touched(d) = Touched(request[r])
  BY DEF Same, Touched
<1>2. d.op \in MintingOps /\ d.id = 0 => r \in Minting
  BY DEF Same, Minting
<1>3. CalmFacts(d)
  BY DEF CalmFacts
<1> QED
  BY <1>1, <1>2, <1>3, MoveInv

LEMMA RereadInv ==
  ASSUME IInv, NEW r \in Requests, Reread(r)
  PROVE  IInv'
<1>1. /\ request[r].at = "reread" /\ Copy(r, "overwrite")
      /\ UNCHANGED <<account, codes, proof, calm>>
  BY DEF Reread, At
<1>2. Carries(request[r]) /\ Exists(request[r].who) /\ request[r].who \in Subjects
  BY <1>1, RequestRead DEF Carries
<1>3. PICK d : /\ request' = [request EXCEPT ![r] = d]
              /\ Same(d, request[r]) /\ d.at = "overwrite"
              /\ d.row = account[request[r].who] /\ d.row \in AccountRow
  BY <1>1, <1>2, Copied
<1>4. Carries(d) /\ Fresh(d)
  BY <1>1, <1>2, <1>3 DEF Same, Carries, OnItsWay, HasCode, Fresh, MintingOps
<1> QED
  BY <1>1, <1>3, <1>4, OnInv

LEMMA EnsureOpenInv ==
  ASSUME IInv, NEW r \in Requests, EnsureOpen(r)
  PROVE  IInv'
<1>1. /\ request[r].at = "open" /\ UNCHANGED <<account, codes, proof, calm>>
      /\ Finish(r) \/ Goto(r, "cool")
  BY DEF EnsureOpen, At
<1>2. CASE Finish(r)
  BY <1>1, <1>2, EndInv
<1>3. CASE Goto(r, "cool")
  <2>1. PICK d : request' = [request EXCEPT ![r] = d] /\ Same(d, request[r]) /\ d.at = "cool"
    BY <1>3, GoneTo
  <2>2. Carries(d) /\ Fresh(d)
    BY <1>1, <2>1, RequestRead DEF Same, Carries, OnItsWay, HasCode, Fresh, MintingOps
  <2> QED
    BY <1>1, <2>1, <2>2, OnInv
<1> QED
  BY <1>1, <1>2, <1>3

LEMMA CoolInv ==
  ASSUME IInv, NEW r \in Requests, Cool(r)
  PROVE  IInv'
<1> DEFINE c == request[r]
           mine == CodesOf(c.who, PurposeOf(r))
           next == IF c.op = "first" THEN "mint" ELSE "invalidate"
<1>1. /\ c.at = "cool" /\ UNCHANGED <<account, codes, proof, calm>>
      /\ \/ Finish(r)
         \/ ~ (\E i \in mine : IsLatest(i, mine) /\ Young(i)) /\ Goto(r, next)
  BY DEF Cool, At
<1>2. CASE Finish(r)
  BY <1>1, <1>2, EndInv
<1>3. CASE ~ (\E i \in mine : IsLatest(i, mine) /\ Young(i)) /\ Goto(r, next)
  <2>1. \A i \in mine : ~ Young(i)
    <3> SUFFICES ASSUME NEW i \in mine, Young(i) PROVE FALSE
      OBVIOUS
    <3>1. mine \in SUBSET (1 .. Len(codes)) /\ Len(codes) \in Nat
      BY RequestRead DEF CodesOf
    <3>2. PICK k \in mine : \A j \in mine : j <= k
      BY <3>1, Largest
    <3>3. Young(k)
      BY <3>1, <3>2 DEF IInv, CodesInv
    <3> QED
      BY <1>3, <3>2, <3>3 DEF IsLatest
  <2>2. next \in {"mint", "invalidate"} /\ (next = "mint" <=> c.op = "first")
    OBVIOUS
  <2> HIDE DEF next
  <2>3. PICK d : request' = [request EXCEPT ![r] = d] /\ Same(d, c) /\ d.at = next /\ d.number = c.number
    BY <1>3, <2>2, GoneTo
  <2>4. Carries(d)
    BY <1>1, <2>2, <2>3, RequestRead DEF Same, Carries, OnItsWay, HasCode, MintingOps
  <2>5. Purpose(d) = PurposeOf(r) /\ (d.op = "first" => Purpose(d) = "signup")
    BY <2>3 DEF Purpose, PurposeOf, Same
  <2>6. ASSUME d.who \in calm PROVE Fresh(d)
    <3>1. Fresh(c)
      BY <2>3, <2>6, RequestRead DEF CalmFacts, Same
    <3>2. d.op = "first" => Open(d.who, Purpose(d)) = {}
      BY <1>1, <2>3, <2>5, <3>1 DEF Fresh, Same, Open
    <3> QED
      BY <1>1, <2>1, <2>2, <2>3, <2>5, <3>1, <3>2 DEF Fresh, Same
  <2>7. d.at # "check"
    BY <2>2, <2>3
  <2> QED
    BY <1>1, <2>3, <2>4, <2>6, <2>7, OnInv
<1> QED
  BY <1>1, <1>2, <1>3

LEMMA FreeInv ==
  ASSUME IInv, NEW r \in Requests, Free(r)
  PROVE  IInv'
<1> DEFINE c == request[r]
           next == IF c.op = "mobile" THEN "cool" ELSE "markRead"
<1>1. /\ c.at = "free" /\ UNCHANGED <<account, codes, proof, calm>>
      /\ Finish(r) \/ Goto(r, next)
  BY DEF Free, At
<1>2. CASE Finish(r)
  BY <1>1, <1>2, EndInv
<1>3. CASE Goto(r, next)
  <2>1. next \in {"cool", "markRead"} /\ (next = "cool" <=> c.op = "mobile")
    OBVIOUS
  <2> HIDE DEF next
  <2>2. PICK d : /\ request' = [request EXCEPT ![r] = d] /\ Same(d, c) /\ d.at = next
                /\ d.number = c.number
    BY <1>3, <2>1, GoneTo
  <2>3. Carries(d)
    <3>1. Carries(c)
      BY RequestRead
    <3>2. c.op \in {"mobile", "verifyMobile"} /\ (c.op = "mobile" => c.id = 0)
      BY <1>1, <3>1 DEF Carries, OnItsWay
    <3>3. HasCode(d) <=> c.op = "verifyMobile"
      BY <2>1, <2>2, <3>2 DEF HasCode
    <3>4. Purpose(d) = Purpose(c) /\ (HasCode(c) <=> HasCode(d))
      BY <1>1, <2>2, <3>2, <3>3 DEF Purpose, Same, HasCode
    <3> QED
      BY <1>1, <2>1, <2>2, <3>1, <3>2, <3>4 DEF Same, Carries, OnItsWay, MintingOps
  <2>4. d.who \in calm => Fresh(d)
    BY <1>1, <2>1, <2>2, RequestRead DEF CalmFacts, Fresh, Same
  <2>5. d.at # "check"
    BY <2>1, <2>2
  <2> QED
    BY <1>1, <2>2, <2>3, <2>4, <2>5, OnInv
<1> QED
  BY <1>1, <1>2, <1>3

LEMMA StageReadInv ==
  ASSUME IInv, NEW r \in Requests, StageRead(r)
  PROVE  IInv'
<1>1. /\ request[r].at = "stageRead" /\ Copy(r, "stage")
      /\ UNCHANGED <<account, codes, proof, calm>>
  BY DEF StageRead, At
<1>2. /\ Carries(request[r]) /\ Exists(request[r].who) /\ request[r].who \in Subjects
      /\ request[r].op = "mobile"
  BY <1>1, RequestRead DEF Carries, OnItsWay
<1>3. PICK d : /\ request' = [request EXCEPT ![r] = d]
              /\ Same(d, request[r]) /\ d.at = "stage" /\ d.number = request[r].number
              /\ d.row = account[request[r].who] /\ d.row \in AccountRow
  BY <1>1, <1>2, Copied
<1>4. Carries(d)
  <2>1. Purpose(d) = Purpose(request[r])
    BY <1>3 DEF Purpose, Same
  <2> QED
    BY <1>1, <1>2, <1>3, <2>1 DEF Same, Carries, OnItsWay, HasCode, MintingOps
<1>5. d.who \in calm => Fresh(d)
  BY <1>1, <1>2, <1>3, RequestRead DEF CalmFacts, Fresh, Same
<1> QED
  BY <1>1, <1>3, <1>4, <1>5, OnInv

LEMMA MarkReadInv ==
  ASSUME IInv, NEW r \in Requests, MarkRead(r)
  PROVE  IInv'
<1>1. /\ request[r].at = "markRead" /\ Copy(r, "mark")
      /\ UNCHANGED <<account, codes, proof, calm>>
  BY DEF MarkRead, At
<1>2. /\ Carries(request[r]) /\ Exists(request[r].who) /\ request[r].who \in Subjects
      /\ request[r].op \in {"verify", "verifyMobile"}
  BY <1>1, RequestRead DEF Carries, OnItsWay
<1>3. PICK d : /\ request' = [request EXCEPT ![r] = d]
              /\ Same(d, request[r]) /\ d.at = "mark" /\ d.number = request[r].number
              /\ d.row = account[request[r].who] /\ d.row \in AccountRow
  BY <1>1, <1>2, Copied
<1>4. Carries(d)
  <2>1. Purpose(d) = Purpose(request[r])
    BY <1>3 DEF Purpose, Same
  <2> QED
    BY <1>1, <1>2, <1>3, <2>1 DEF Same, Carries, OnItsWay, HasCode, MintingOps
<1>5. d.who \in calm => Fresh(d)
  BY <1>1, <1>2, <1>3, RequestRead DEF CalmFacts, Fresh, Same
<1> QED
  BY <1>1, <1>3, <1>4, <1>5, OnInv

LEMMA NumberReadInv ==
  ASSUME IInv, NEW r \in Requests, NumberRead(r)
  PROVE  IInv'
<1> DEFINE c == request[r]
           n == account[c.who].mobile
           d == [c EXCEPT !.at = "free", !.number = n]
<1>1. /\ c.at = "number" /\ UNCHANGED <<account, codes, proof, calm>>
      /\ Finish(r) \/ (n # Nothing /\ request' = [request EXCEPT ![r] = d])
  BY DEF NumberRead, At
<1>2. CASE Finish(r)
  BY <1>1, <1>2, EndInv
<1>3. CASE n # Nothing /\ request' = [request EXCEPT ![r] = d]
  <2>1. Carries(c) /\ c.op = "verifyMobile" /\ (c.who \in calm => Fresh(c))
    BY <1>1, RequestRead DEF Carries, OnItsWay, CalmFacts
  <2>2. n \in Numbers
    BY <1>1, <1>3, <2>1 DEF Carries, IInv, Typed, Exists, AccountRow
  <2>3. request[r] = c /\ request' = [request EXCEPT ![r] = d]
    BY <1>3
  <2> HIDE DEF c, n
  <2>4. Same(d, c) /\ d.at = "free" /\ d.number = n
    BY <2>1, <2>2 DEF Carries, RequestRow, Same
  <2> HIDE DEF d
  <2>5. Purpose(d) = Purpose(c) /\ HasCode(d) /\ HasCode(c)
    BY <1>1, <2>1, <2>4 DEF Purpose, Same, HasCode
  <2>6. Carries(d)
    BY <1>1, <2>1, <2>2, <2>4, <2>5 DEF Same, Carries, OnItsWay, MintingOps
  <2>7. d.who \in calm => Fresh(d)
    BY <1>1, <2>1, <2>4 DEF Fresh, Same
  <2> QED
    BY <1>1, <2>3, <2>4, <2>6, <2>7, OnInv
<1> QED
  BY <1>1, <1>2, <1>3

-----------------------------------------------------------------------------
(* Saving an account.                                                      *)

LEMMA NoCodes ==
  ASSUME IInv, NEW s, ~ Exists(s), NEW purpose
  PROVE  CodesOf(s, purpose) = {} /\ Open(s, purpose) = {}
BY DEF IInv, CodesInv, CodesOf, Open

\* uq_users_mobile keeps a verified number to one user, whatever row is saved.
LEMMA HoldersAfterSave ==
  ASSUME Typed, OneHolderPerNumber, NEW s \in Subjects, NEW row \in AccountRow,
         ~ NumberTaken(s, row), account' = [account EXCEPT ![s] = row]
  PROVE  OneHolderPerNumber'
<1>1. /\ account'[s] = row /\ row # Nothing
      /\ \A t \in Users : t # s => account'[t] = account[t]
  BY DEF Typed, Subjects
<1>2. ASSUME NEW t \in Users, NEW n \in Numbers, t # s
      PROVE  HoldsNumber(t, n)' <=> HoldsNumber(t, n)
  BY <1>1, <1>2 DEF HoldsNumber, Exists
<1>3. ASSUME NEW n \in Numbers PROVE HoldsNumber(s, n)' <=> row.mobileOk /\ row.mobile = n
  BY <1>1 DEF HoldsNumber, Exists
<1>4. ASSUME NEW t \in Users, t # s, NEW n \in Numbers
      PROVE  ~ (HoldsNumber(s, n)' /\ HoldsNumber(t, n)')
  BY <1>2, <1>3, <1>4 DEF NumberTaken
<1>5. ASSUME NEW t \in Users, NEW u \in Users, t # u, NEW n \in Numbers
      PROVE  ~ (HoldsNumber(t, n)' /\ HoldsNumber(u, n)')
  BY <1>2, <1>4, <1>5 DEF OneHolderPerNumber
<1> QED
  BY <1>5 DEF OneHolderPerNumber

LEMMA SaveInv ==
  ASSUME IInv, NEW r \in Requests, request[r].at # "done",
         NEW d, request' = [request EXCEPT ![r] = d], d \in RequestRow,
         d.at # "done" => d.who = request[r].who /\ d.id = request[r].id,
         d.op \in MintingOps /\ d.id = 0 => r \in Minting,
         NEW s, s = request[r].who, s \in Subjects,
         NEW row \in AccountRow, Save(s, row), UNCHANGED <<codes, calm>>,
         proof' \in [Subjects -> [signup : 0 .. MaxCodes, mobile : 0 .. MaxCodes]],
         \A t \in Subjects : t # s => proof'[t] = proof[t],
         OwnCode', Carries(d)', CalmFacts(d)', s \in calm => InOrder(s)'
  PROVE  IInv'
<1>1. Typed /\ Len(codes) \in Nat /\ Carries(request[r])
  BY DEF IInv, Typed, Carried
<1>2. /\ account' = [account EXCEPT ![s] = row] /\ ~ NumberTaken(s, row) /\ row # Nothing
      /\ account'[s] = row /\ \A t \in Subjects : t # s => account'[t] = account[t]
  BY <1>1 DEF Save, Typed
<1>3. Grows
  BY <1>1, <1>2 DEF Grows, Exists
<1>4. \A t \in Subjects : t # s => SameFor(t)
  BY <1>2 DEF SameFor
<1>5. request[r].id \in 0 .. Len(codes)
  BY <1>1 DEF Carries
<1>6. s \in Touched(request[r])
  BY <1>5, TouchedIs
<1>7. d.at # "done" => Touched(d)' \subseteq Touched(request[r])
  <2>1. d.at # "done" => Touched(d)' = Touched(d)
    BY <1>1, <1>3, <1>5, TouchedOn
  <2> QED
    BY <2>1 DEF Touched
<1>8. MintRoom'
  <2>1. /\ Len(codes) + Cardinality(Minting) <= MaxCodes /\ Cardinality(Minting) \in Nat
        /\ Len(codes') = Len(codes)
    BY MintingCount DEF IInv, MintRoom
  <2>2. \/ Cardinality(Minting') = Cardinality(Minting)
        \/ Cardinality(Minting') = Cardinality(Minting) - 1
    BY <1>1, MintingMoved
  <2> QED
    BY <1>1, <2>1, <2>2 DEF MintRoom
<1>9. CodesInv'
  <2>1. \A i \in 1 .. Len(codes) : codes[i].subject \in Subjects /\ Exists(codes[i].subject)
    BY CodeRead
  <2> QED
    BY <1>3, <2>1 DEF IInv, CodesInv, Grows, Exists, Young
<1>10. OneHolderPerNumber'
  BY <1>1, <1>2, HoldersAfterSave DEF IInv
<1>11. \A t \in calm : InOrder(t)'
  <2> SUFFICES ASSUME NEW t \in calm, t # s PROVE InOrder(t)'
    OBVIOUS
  <2>1. SameFor(t) /\ InOrder(t)
    BY <1>1, <1>4 DEF IInv, CalmInv, Typed
  <2> QED
    BY <1>1, <1>3, <2>1, InOrderOn
<1>12. account' \in [Subjects -> AccountRow \cup {Nothing}] /\ codes' \in Seq(CodeRow)
  BY <1>1, <1>2 DEF Typed
<1> QED
  BY <1>3, <1>4, <1>6, <1>7, <1>8, <1>9, <1>10, <1>11, <1>12, WriteInv

LEMMA InsertInv ==
  ASSUME IInv, NEW r \in Requests, Insert(r)
  PROVE  IInv'
<1>1. PICK s : s = request[r].who
  OBVIOUS
<1>2. /\ request[r].at = "insert" /\ UNCHANGED <<codes, proof, calm>>
      /\ \/ /\ ~ Exists(s) /\ account' = [account EXCEPT ![s] = NewAccount]
            /\ Goto(r, "cool")
         \/ Finish(r) /\ UNCHANGED account
  BY <1>1 DEF Insert, At
<1>3. /\ Carries(request[r]) /\ request[r].op = "first" /\ s \in Subjects
      /\ request[r].id = 0 /\ Typed
  BY <1>1, <1>2, RequestRead DEF Carries, OnItsWay, IInv
<1>4. CASE Finish(r) /\ UNCHANGED account
  BY <1>2, <1>4, EndInv
<1>5. CASE /\ ~ Exists(s) /\ account' = [account EXCEPT ![s] = NewAccount]
           /\ Goto(r, "cool")
  <2>1. PICK d : /\ request' = [request EXCEPT ![r] = d] /\ Same(d, request[r])
                /\ d.at = "cool"
    BY <1>5, GoneTo
  <2>2. NewAccount \in AccountRow /\ ~ NewAccount.mobileOk
    BY DEF NewAccount, AccountRow
  <2>3. /\ d \in RequestRow /\ d.who = s /\ d.op = "first" /\ d.id = 0
    BY <1>1, <1>3, <2>1 DEF Same
  <2>4. account'[s] = NewAccount /\ NewAccount # Nothing
    BY <1>3, <1>5, <2>2 DEF Typed
  <2>5. \A purpose : CodesOf(s, purpose)' = {} /\ Open(s, purpose)' = {}
    <3>1. \A purpose : CodesOf(s, purpose) = {}
      BY <1>5, NoCodes
    <3>2. \A purpose : CodesOf(s, purpose)' = {}
      BY <1>2, <3>1 DEF CodesOf
    <3> QED
      BY <3>2 DEF Open
  <2>6. Save(s, NewAccount)
    BY <1>5, <2>2 DEF Save, NumberTaken
  <2>7. OwnCode'
    BY <1>2 DEF IInv, OwnCode, CodesOf
  <2>8. Carries(d)'
    BY <1>2, <1>3, <2>1, <2>3, <2>4, RequestRead
       DEF Carries, OnItsWay, HasCode, MintingOps, Exists
  <2>9. CalmFacts(d)'
    BY <2>1, <2>3, <2>5 DEF CalmFacts, Fresh
  <2>10. InOrder(s)'
    <3>1. \A purpose : Ordered(s, purpose)'
      BY <2>5 DEF Ordered
    <3>2. Proved(s)'
      BY <2>2, <2>4, <2>5 DEF Proved
    <3> QED
      BY <3>1, <3>2 DEF InOrder
  <2>11. d.op \in MintingOps /\ d.id = 0 => r \in Minting
    BY <1>3, <2>3 DEF Minting
  <2>12. /\ proof' \in [Subjects -> [signup : 0 .. MaxCodes, mobile : 0 .. MaxCodes]]
         /\ \A t \in Subjects : proof'[t] = proof[t]
    BY <1>2, <1>3 DEF Typed
  <2> QED
    BY <1>1, <1>2, <1>3, <2>1, <2>2, <2>3, <2>6, <2>7, <2>8, <2>9, <2>10, <2>11, <2>12,
       SaveInv
<1> QED
  BY <1>2, <1>4, <1>5

\* The copy is saved as it was read.
LEMMA RewriteInv ==
  ASSUME IInv, NEW r \in Requests, request[r].at \in {"overwrite", "touch"},
         NEW d, request' = [request EXCEPT ![r] = d], d \in RequestRow,
         d.at \in {"done", "open"},
         d.at # "done" => d.who = request[r].who /\ d.id = request[r].id,
         d.op \in MintingOps /\ d.id = 0 => r \in Minting,
         Save(request[r].who, request[r].row), UNCHANGED <<codes, proof, calm>>,
         Carries(d)', CalmFacts(d)'
  PROVE  IInv'
<1>1. PICK s, row : s = request[r].who /\ row = request[r].row
  OBVIOUS
<1>2. s \in Subjects /\ row \in AccountRow /\ Typed
  BY <1>1, RequestRead DEF Carries, IInv
<1>3. OwnCode'
  BY DEF IInv, OwnCode, CodesOf
<1>4. s \in calm => InOrder(s)'
  <2> SUFFICES ASSUME s \in calm PROVE InOrder(s)'
    OBVIOUS
  <2>1. row = account[s]
    BY <1>1, RequestRead DEF CalmFacts, Fresh
  <2>2. account' = [account EXCEPT ![s] = row]
    BY <1>1 DEF Save
  <2>3. account' = account
    BY <1>2, <2>1, <2>2 DEF Typed
  <2>4. SameFor(s) /\ Grows
    BY <1>2, <2>3 DEF SameFor, Grows, Typed, Exists
  <2> QED
    BY <1>2, <2>4, InOrderOn DEF IInv, CalmInv
<1>5. /\ proof' \in [Subjects -> [signup : 0 .. MaxCodes, mobile : 0 .. MaxCodes]]
      /\ \A t \in Subjects : proof'[t] = proof[t]
  BY <1>2 DEF Typed
<1>6. /\ Save(s, row) /\ UNCHANGED <<codes, calm>> /\ request[r].at # "done"
      /\ d.at # "done" => d.who = request[r].who /\ d.id = request[r].id
  BY <1>1
<1> QED
  BY <1>1, <1>2, <1>3, <1>4, <1>5, <1>6, SaveInv

LEMMA OverwriteInv ==
  ASSUME IInv, NEW r \in Requests, Overwrite(r)
  PROVE  IInv'
<1>1. /\ request[r].at = "overwrite" /\ UNCHANGED <<codes, proof, calm>>
      /\ \/ Save(request[r].who, request[r].row) /\ Goto(r, "open")
         \/ Finish(r) /\ UNCHANGED account
  BY DEF Overwrite, At
<1>2. CASE Finish(r) /\ UNCHANGED account
  BY <1>1, <1>2, EndInv
<1>3. CASE Save(request[r].who, request[r].row) /\ Goto(r, "open")
  <2>1. PICK d : /\ request' = [request EXCEPT ![r] = d] /\ Same(d, request[r])
                /\ d.at = "open"
    BY <1>3, GoneTo
  <2>2. /\ Carries(request[r]) /\ request[r].who \in Subjects /\ request[r].row \in AccountRow
        /\ request[r].op = "again" /\ request[r].id = 0
    BY <1>1, RequestRead DEF Carries, OnItsWay
  <2>3. account'[d.who] # Nothing
    BY <1>3, <2>1, <2>2 DEF Save, Same, IInv, Typed
  <2>4. Carries(d)'
    BY <1>1, <2>1, <2>2, <2>3, RequestRead
       DEF Same, Carries, OnItsWay, HasCode, MintingOps, Exists
  <2>5. CalmFacts(d)'
    BY <2>1, <2>2 DEF CalmFacts, Fresh, Same
  <2>6. d.op \in MintingOps /\ d.id = 0 => r \in Minting
    BY <2>1 DEF Minting, Same
  <2> QED
    BY <1>1, <1>3, <2>1, <2>4, <2>5, <2>6, RewriteInv DEF Same
<1> QED
  BY <1>1, <1>2, <1>3

LEMMA OnLoginInv ==
  ASSUME IInv, NEW r \in Requests, OnLogin(r)
  PROVE  IInv'
<1>1. /\ request[r].at = "touch" /\ UNCHANGED <<codes, proof, calm>>
      /\ Save(request[r].who, request[r].row) /\ Finish(r)
  BY DEF OnLogin, At
<1>2. /\ Blank.op \notin MintingOps /\ Blank \in RequestRow /\ Blank.at = "done"
      /\ Carries(Blank)' /\ CalmFacts(Blank)'
  BY <1>1, BlankRow DEF MintingOps, IInv
<1> QED
  BY <1>1, <1>2, RewriteInv DEF Finish

\* The new number replaces the old one; every code that is open was made for it.
LEMMA StageInv ==
  ASSUME IInv, NEW r \in Requests, Stage(r)
  PROVE  IInv'
<1>1. PICK s, n, row : /\ s = request[r].who /\ n = request[r].number
                       /\ row = [request[r].row EXCEPT !.mobile = n, !.mobileOk = FALSE]
  OBVIOUS
<1>2. /\ request[r].at = "stage" /\ UNCHANGED <<codes, proof, calm>>
      /\ Save(s, row) /\ Goto(r, "send")
  BY <1>1 DEF Stage, At
<1>3. /\ Carries(request[r]) /\ s \in Subjects /\ request[r].row \in AccountRow
      /\ request[r].op = "mobile" /\ n \in Numbers /\ Typed
  BY <1>1, <1>2, RequestRead DEF Carries, OnItsWay, IInv
<1>4. row \in AccountRow /\ row.mobile = n /\ ~ row.mobileOk
  BY <1>1, <1>3 DEF AccountRow
<1>5. PICK d : /\ request' = [request EXCEPT ![r] = d] /\ Same(d, request[r])
              /\ d.at = "send" /\ d.number = n
  BY <1>1, <1>2, GoneTo
<1>6. account'[s] = row /\ row # Nothing
  BY <1>2, <1>3, <1>4 DEF Save, Typed
<1>7. Carries(d)'
  <2>1. Purpose(d) = Purpose(request[r])
    BY <1>5 DEF Purpose, Same
  <2> QED
    BY <1>1, <1>2, <1>3, <1>5, <1>6, <2>1 DEF Same, Carries, OnItsWay, HasCode, MintingOps, Exists
<1>8. CalmFacts(d)'
  BY <1>1, <1>3, <1>4, <1>5, <1>6 DEF CalmFacts, Fresh, Same
<1>9. s \in calm => InOrder(s)'
  <2> SUFFICES ASSUME s \in calm PROVE InOrder(s)'
    OBVIOUS
  <2>1. /\ \A i \in Open(s, "mobile") : codes[i].to = Nothing
        /\ InOrder(s)
    BY <1>1, <1>2, RequestRead DEF CalmFacts, Fresh, IInv, CalmInv
  <2>2. ASSUME NEW purpose, Ordered(s, purpose) PROVE Ordered(s, purpose)'
    BY <1>2, <2>2 DEF Ordered, CodesOf, Open, Young
  <2>3. Proved(s)'
    BY <1>2, <1>4, <1>6, <2>1 DEF Proved, CodesOf, Open
  <2> QED
    BY <2>1, <2>2, <2>3 DEF InOrder
<1>10. OwnCode'
  BY <1>2 DEF IInv, OwnCode, CodesOf
<1>11. d.op \in MintingOps /\ d.id = 0 => r \in Minting
  BY <1>5 DEF Minting, Same
<1>12. /\ proof' \in [Subjects -> [signup : 0 .. MaxCodes, mobile : 0 .. MaxCodes]]
       /\ \A t \in Subjects : proof'[t] = proof[t]
  BY <1>2, <1>3 DEF Typed
<1>13. /\ request[r].at # "done" /\ d \in RequestRow
       /\ d.at # "done" => d.who = request[r].who /\ d.id = request[r].id
  BY <1>2, <1>5 DEF Same
<1> QED
  BY <1>1, <1>2, <1>3, <1>4, <1>5, <1>7, <1>8, <1>9, <1>10, <1>11, <1>12, <1>13, SaveInv

LEMMA MarkInv ==
  ASSUME IInv, NEW r \in Requests, Mark(r)
  PROVE  IInv'
<1>1. PICK s, i, row : /\ s = request[r].who /\ i = request[r].id
                       /\ row = [request[r].row EXCEPT !.verified = TRUE]
  OBVIOUS
<1>2. /\ request[r].at = "mark" /\ request[r].op = "verify" /\ UNCHANGED <<codes, calm>>
      /\ Finish(r)
      /\ \/ Save(s, row) /\ proof' = [proof EXCEPT ![s].signup = i]
         \/ UNCHANGED <<account, proof>>
  BY <1>1 DEF Mark, At
<1>3. CASE UNCHANGED <<account, proof>>
  BY <1>2, <1>3, EndInv
<1>4. CASE Save(s, row) /\ proof' = [proof EXCEPT ![s].signup = i]
  <2>1. /\ Carries(request[r]) /\ s \in Subjects /\ request[r].row \in AccountRow /\ Typed
        /\ HasCode(request[r]) /\ Purpose(request[r]) = "signup"
    BY <1>1, <1>2, RequestRead DEF Carries, IInv, HasCode, Purpose
  <2>2. /\ row \in AccountRow /\ row.mobile = request[r].row.mobile
        /\ row.mobileOk = request[r].row.mobileOk
    BY <1>1, <2>1 DEF AccountRow
  <2>3. /\ i \in 1 .. Len(codes) /\ codes[i].purpose = "signup" /\ codes[i].subject = s
        /\ codes[i].to # Nothing
    BY <1>1, <1>2, <2>1, RequestRead DEF Carries
  <2>4. i \in 0 .. MaxCodes
    BY <2>3, CodeRead
  <2>5. /\ proof' \in [Subjects -> [signup : 0 .. MaxCodes, mobile : 0 .. MaxCodes]]
        /\ \A t \in Subjects : t # s => proof'[t] = proof[t]
        /\ proof'[s].signup = i /\ proof'[s].mobile = proof[s].mobile
    BY <1>4, <2>1, <2>4 DEF Typed
  <2>6. OwnCode'
    <3> SUFFICES ASSUME NEW t \in Subjects, NEW purpose \in Purposes,
                        proof'[t][purpose] # 0
                 PROVE  /\ proof'[t][purpose] \in CodesOf(t, purpose)
                        /\ codes[proof'[t][purpose]].to # Nothing
      BY <1>2 DEF OwnCode, CodesOf
    <3>1. CASE t = s /\ purpose = "signup"
      BY <2>3, <2>5, <3>1 DEF CodesOf
    <3>2. CASE ~ (t = s /\ purpose = "signup")
      BY <2>5, <3>2 DEF IInv, OwnCode, Purposes
    <3> QED
      BY <3>1, <3>2
  <2>7. s \in calm => InOrder(s)'
    <3> SUFFICES ASSUME s \in calm PROVE InOrder(s)'
      OBVIOUS
    <3>1. request[r].row = account[s] /\ InOrder(s) /\ account[s] # Nothing
      BY <1>1, <1>2, <2>1, RequestRead DEF CalmFacts, Fresh, IInv, CalmInv
    <3>2. account'[s] = row
      BY <1>4, <2>1 DEF Save, Typed
    <3>3. ASSUME NEW purpose, Ordered(s, purpose) PROVE Ordered(s, purpose)'
      BY <1>2, <3>3 DEF Ordered, CodesOf, Open, Young
    <3>4. ASSUME Proved(s) PROVE Proved(s)'
      BY <1>2, <2>2, <2>5, <3>1, <3>2, <3>4 DEF Proved, CodesOf, Open, Exists
    <3> QED
      BY <3>1, <3>3, <3>4 DEF InOrder
  <2>8. /\ Blank.op \notin MintingOps /\ Blank \in RequestRow /\ Blank.at = "done"
        /\ Carries(Blank)' /\ CalmFacts(Blank)'
    BY <1>2, BlankRow DEF MintingOps, IInv
  <2>9. request' = [request EXCEPT ![r] = Blank]
    BY <1>2 DEF Finish
  <2> QED
    BY <1>1, <1>2, <1>4, <2>1, <2>2, <2>5, <2>6, <2>7, <2>8, <2>9, SaveInv
<1> QED
  BY <1>2, <1>3, <1>4

LEMMA MarkMobileInv ==
  ASSUME IInv, NEW r \in Requests, MarkMobile(r)
  PROVE  IInv'
<1>1. PICK s, i, row : /\ s = request[r].who /\ i = request[r].id
                       /\ row = [request[r].row EXCEPT !.mobileOk = TRUE]
  OBVIOUS
<1>2. /\ request[r].at = "mark" /\ request[r].op = "verifyMobile" /\ UNCHANGED <<codes, calm>>
      /\ Finish(r)
      /\ \/ Save(s, row) /\ proof' = [proof EXCEPT ![s].mobile = i]
         \/ UNCHANGED <<account, proof>>
  BY <1>1 DEF MarkMobile, At
<1>3. CASE UNCHANGED <<account, proof>>
  BY <1>2, <1>3, EndInv
<1>4. CASE Save(s, row) /\ proof' = [proof EXCEPT ![s].mobile = i]
  <2>1. /\ Carries(request[r]) /\ s \in Subjects /\ request[r].row \in AccountRow /\ Typed
        /\ HasCode(request[r]) /\ Purpose(request[r]) = "mobile"
    BY <1>1, <1>2, RequestRead DEF Carries, IInv, HasCode, Purpose
  <2>2. row \in AccountRow /\ row.mobile = request[r].row.mobile
    BY <1>1, <2>1 DEF AccountRow
  <2>3. /\ i \in 1 .. Len(codes) /\ codes[i].purpose = "mobile" /\ codes[i].subject = s
        /\ codes[i].to # Nothing
    BY <1>1, <1>2, <2>1, RequestRead DEF Carries
  <2>4. i \in 0 .. MaxCodes
    BY <2>3, CodeRead
  <2>5. /\ proof' \in [Subjects -> [signup : 0 .. MaxCodes, mobile : 0 .. MaxCodes]]
        /\ \A t \in Subjects : t # s => proof'[t] = proof[t]
        /\ proof'[s].mobile = i /\ proof'[s].signup = proof[s].signup
    BY <1>4, <2>1, <2>4 DEF Typed
  <2>6. OwnCode'
    <3> SUFFICES ASSUME NEW t \in Subjects, NEW purpose \in Purposes,
                        proof'[t][purpose] # 0
                 PROVE  /\ proof'[t][purpose] \in CodesOf(t, purpose)
                        /\ codes[proof'[t][purpose]].to # Nothing
      BY <1>2 DEF OwnCode, CodesOf
    <3>1. CASE t = s /\ purpose = "mobile"
      BY <2>3, <2>5, <3>1 DEF CodesOf
    <3>2. CASE ~ (t = s /\ purpose = "mobile")
      BY <2>5, <3>2 DEF IInv, OwnCode, Purposes
    <3> QED
      BY <3>1, <3>2
  <2>7. s \in calm => InOrder(s)'
    <3> SUFFICES ASSUME s \in calm PROVE InOrder(s)'
      OBVIOUS
    <3>1. /\ request[r].row = account[s] /\ InOrder(s) /\ account[s] # Nothing
          /\ codes[i].to = account[s].mobile
      BY <1>1, <1>2, <2>1, RequestRead DEF CalmFacts, Fresh, IInv, CalmInv
    <3>2. account'[s] = row
      BY <1>4, <2>1 DEF Save, Typed
    <3>3. ASSUME NEW purpose, Ordered(s, purpose) PROVE Ordered(s, purpose)'
      BY <1>2, <3>3 DEF Ordered, CodesOf, Open, Young
    <3>4. ASSUME Proved(s) PROVE Proved(s)'
      BY <1>2, <2>2, <2>3, <2>5, <3>1, <3>2, <3>4 DEF Proved, CodesOf, Open, Exists
    <3> QED
      BY <3>1, <3>3, <3>4 DEF InOrder
  <2>8. /\ Blank.op \notin MintingOps /\ Blank \in RequestRow /\ Blank.at = "done"
        /\ Carries(Blank)' /\ CalmFacts(Blank)'
    BY <1>2, BlankRow DEF MintingOps, IInv
  <2>9. request' = [request EXCEPT ![r] = Blank]
    BY <1>2 DEF Finish
  <2> QED
    BY <1>1, <1>2, <1>4, <2>1, <2>2, <2>5, <2>6, <2>7, <2>8, <2>9, SaveInv
<1> QED
  BY <1>2, <1>3, <1>4

LEMMA CreateInvitedInv ==
  ASSUME IInv, NEW s \in Users, CreateInvited(s)
  PROVE  IInv'
<1>1. PICK row : row = [NewAccount EXCEPT !.verified = TRUE]
  OBVIOUS
<1>2. /\ ~ Exists(s) /\ account' = [account EXCEPT ![s] = row]
      /\ UNCHANGED <<codes, request, proof, calm>>
      /\ Typed /\ s \in Subjects
  BY <1>1 DEF CreateInvited, Subjects, IInv
<1>3. row \in AccountRow /\ ~ row.mobileOk
  BY <1>1 DEF NewAccount, AccountRow
<1>4. /\ account'[s] = row /\ row # Nothing
      /\ \A t \in Subjects : t # s => account'[t] = account[t]
  BY <1>2, <1>3 DEF Typed
<1>5. Typed'
  BY <1>2, <1>3 DEF Typed
<1>6. Grows /\ \A t \in Subjects : t # s => SameFor(t)
  BY <1>2, <1>4 DEF Grows, SameFor, Typed, Exists
<1>7. MintRoom'
  BY <1>2 DEF IInv, MintRoom, Minting
<1>8. CodesInv'
  <2>1. \A i \in 1 .. Len(codes) : codes[i].subject \in Subjects /\ Exists(codes[i].subject)
    BY CodeRead
  <2> QED
    BY <1>2, <1>6, <2>1 DEF IInv, CodesInv, Grows, Exists, Young
<1>9. Carried'
  BY <1>2, <1>6, CarriedOn DEF IInv, Carried
<1>10. Alone'
  BY <1>2 DEF IInv, Alone, Touched
<1>11. OneHolderPerNumber'
  BY <1>2, <1>3, HoldersAfterSave DEF IInv, NumberTaken
<1>12. OwnCode'
  BY <1>2 DEF IInv, OwnCode, CodesOf
<1>13. ASSUME NEW q \in Requests PROVE CalmFacts(request[q])'
  <2>1. Carries(request[q]) /\ CalmFacts(request[q]) /\ request'[q] = request[q]
    BY <1>2, RequestRead
  <2>2. CASE request[q].who = s
    <3>1. request[q].at = "insert" \/ request[q].at = "done"
      BY <1>2, <2>1, <2>2 DEF Carries
    <3> QED
      BY <2>1, <3>1 DEF CalmFacts, Fresh
  <2>3. CASE request[q].who # s
    <3>1. request[q].who \in calm => Fresh(request[q]) /\ SameFor(request[q].who)
      BY <1>2, <1>6, <2>1, <2>3 DEF CalmFacts, Typed
    <3>2. request[q].who \in calm => Fresh(request[q])'
      BY <1>2, <1>6, <2>1, <3>1, FreshOn
    <3> QED
      BY <1>2, <2>1, <3>2 DEF CalmFacts
  <2> QED
    BY <2>2, <2>3
<1>14. ASSUME NEW t \in calm PROVE InOrder(t)'
  <2>1. CASE t # s
    BY <1>2, <1>6, <2>1, InOrderOn DEF IInv, CalmInv, Typed
  <2>2. CASE t = s
    <3>1. \A purpose : CodesOf(s, purpose)' = {}
      BY <1>2, NoCodes DEF CodesOf
    <3>2. \A purpose : Open(s, purpose)' = {} /\ Ordered(s, purpose)'
      BY <3>1 DEF Open, Ordered
    <3>3. Proved(s)'
      BY <1>3, <1>4, <3>2 DEF Proved
    <3> QED
      BY <2>2, <3>2, <3>3 DEF InOrder
  <2> QED
    BY <2>1, <2>2
<1>15. CalmInv'
  BY <1>2, <1>13, <1>14 DEF CalmInv
<1> QED
  BY <1>5, <1>7, <1>8, <1>9, <1>10, <1>11, <1>12, <1>15 DEF IInv

-----------------------------------------------------------------------------
(* Saving codes.                                                           *)

\* Codes are changed but none is made, and none gets younger.
Recodes ==
    /\ UNCHANGED <<account, proof, calm>>
    /\ codes' \in Seq(CodeRow) /\ Len(codes') = Len(codes)
    /\ \A i \in 1 .. Len(codes) :
         /\ codes'[i].subject = codes[i].subject /\ codes'[i].purpose = codes[i].purpose
         /\ codes'[i].age = codes[i].age
         /\ codes[i].to # Nothing => codes'[i].to # Nothing

LEMMA SameSets ==
  ASSUME Recodes, NEW s, NEW purpose
  PROVE  /\ CodesOf(s, purpose)' = CodesOf(s, purpose)
         /\ \A i \in CodesOf(s, purpose) :
              /\ i \in 1 .. Len(codes) /\ codes[i].subject = s /\ codes[i].purpose = purpose
              /\ Young(i)' <=> Young(i)
              /\ i \in Open(s, purpose)' <=> codes'[i].consumed = "no"
              /\ i \in Open(s, purpose) <=> codes[i].consumed = "no"
         /\ Open(s, purpose) \subseteq CodesOf(s, purpose)
         /\ Open(s, purpose)' \subseteq CodesOf(s, purpose)
<1>1. CodesOf(s, purpose)' = CodesOf(s, purpose)
  BY DEF Recodes, CodesOf
<1> QED
  BY <1>1 DEF Recodes, CodesOf, Open, Young

\* The codes of an account may be used, or replaced when they are not young.
LEMMA KeptInOrder ==
  ASSUME Recodes, NEW s \in Subjects, InOrder(s),
         \A i \in 1 .. Len(codes) : codes[i].subject = s =>
           /\ codes'[i].to = codes[i].to
           /\ codes'[i].consumed = "no" => codes[i].consumed = "no"
           /\ codes'[i].consumed = "replaced" => codes[i].consumed = "replaced" \/ ~ Young(i)
  PROVE  InOrder(s)'
<1>1. ASSUME NEW purpose, Ordered(s, purpose) PROVE Ordered(s, purpose)'
  BY <1>1, SameSets DEF Ordered
<1>2. ASSUME Proved(s) PROVE Proved(s)'
  <2>1. UNCHANGED <<account, proof>>
    BY DEF Recodes
  <2>2. \A i \in CodesOf(s, "mobile") :
          /\ codes'[i].to = codes[i].to
          /\ i \in Open(s, "mobile")' => i \in Open(s, "mobile")
    BY SameSets
  <2> QED
    BY <1>2, <2>1, <2>2, SameSets DEF Proved, Exists
<1> QED
  BY <1>1, <1>2 DEF InOrder

LEMMA RecodeInv ==
  ASSUME IInv, NEW r \in Requests, request[r].at # "done",
         NEW d, request' = [request EXCEPT ![r] = d], d \in RequestRow,
         d.at # "done" => d.who = request[r].who /\ d.id = request[r].id,
         d.op \in MintingOps /\ d.id = 0 => r \in Minting,
         Recodes,
         \A i \in 1 .. Len(codes) :
           codes[i].subject \notin Touched(request[r]) => codes'[i] = codes[i],
         Carries(d)', CalmFacts(d)',
         \A s \in calm \cap Touched(request[r]) : InOrder(s)'
  PROVE  IInv'
<1>1. Typed /\ Len(codes) \in Nat /\ Len(codes') = Len(codes)
      /\ UNCHANGED <<account, proof, calm>> /\ codes' \in Seq(CodeRow)
  BY DEF IInv, Typed, Recodes
<1>2. Grows
  BY <1>1 DEF Grows, Recodes, Exists
<1>3. \A s \in Subjects \ Touched(request[r]) : SameFor(s)
  BY <1>1 DEF SameFor, Recodes
<1>4. d.at # "done" => Touched(d)' \subseteq Touched(request[r])
  <2>1. request[r].id \in 0 .. Len(codes)
    BY RequestRead DEF Carries
  <2>2. d.at # "done" => Touched(d)' = Touched(d)
    BY <1>1, <1>2, <2>1, TouchedOn
  <2> QED
    BY <2>2 DEF Touched
<1>5. MintRoom'
  <2>1. /\ Len(codes) + Cardinality(Minting) <= MaxCodes /\ Cardinality(Minting) \in Nat
    BY MintingCount DEF IInv, MintRoom
  <2>2. \/ Cardinality(Minting') = Cardinality(Minting)
        \/ Cardinality(Minting') = Cardinality(Minting) - 1
    BY <1>1, MintingMoved
  <2> QED
    BY <1>1, <2>1, <2>2 DEF MintRoom
<1>6. CodesInv'
  BY <1>1 DEF IInv, CodesInv, Recodes, Exists, Young
<1>7. OneHolderPerNumber'
  BY <1>1 DEF IInv, OneHolderPerNumber, HoldsNumber, Exists
<1>8. OwnCode'
  <2>1. \A s, purpose : CodesOf(s, purpose)' = CodesOf(s, purpose)
    BY SameSets
  <2>2. \A s, purpose : \A i \in CodesOf(s, purpose) :
          codes[i].to # Nothing => codes'[i].to # Nothing
    BY DEF Recodes, CodesOf
  <2> QED
    BY <1>1, <2>1, <2>2 DEF IInv, OwnCode
<1> QED
  BY <1>1, <1>2, <1>3, <1>4, <1>5, <1>6, <1>7, <1>8, WriteInv DEF Typed

LEMMA InvalidateInv ==
  ASSUME IInv, NEW r \in Requests, Invalidate(r)
  PROVE  IInv'
<1>1. PICK s, purpose : s = request[r].who /\ purpose = PurposeOf(r)
  OBVIOUS
<1>2. /\ request[r].at = "invalidate" /\ UNCHANGED <<account, proof, calm>>
      /\ codes' = [i \in 1 .. Len(codes) |->
                     IF i \in Open(s, purpose)
                     THEN [codes[i] EXCEPT !.consumed = "replaced"] ELSE codes[i]]
      /\ Goto(r, "mint")
  BY <1>1 DEF Invalidate, At
<1>3. /\ Carries(request[r]) /\ s \in Subjects /\ Typed /\ Exists(s)
      /\ request[r].op \in {"again", "mobile"} /\ request[r].id = 0
      /\ Len(codes) \in Nat
  BY <1>1, <1>2, RequestRead DEF Carries, OnItsWay, IInv
<1>4. PICK d : /\ request' = [request EXCEPT ![r] = d] /\ Same(d, request[r])
              /\ d.at = "mint" /\ d.number = request[r].number
  BY <1>2, GoneTo
<1>5. Purpose(d) = purpose /\ Purpose(request[r]) = purpose
  BY <1>1, <1>4 DEF Purpose, PurposeOf, Same
<1>6. /\ Len(codes') = Len(codes) /\ codes' \in Seq(CodeRow)
      /\ \A i \in 1 .. Len(codes) :
           /\ i \notin Open(s, purpose) => codes'[i] = codes[i]
           /\ i \in Open(s, purpose) => codes'[i].consumed = "replaced"
           /\ codes'[i].subject = codes[i].subject /\ codes'[i].purpose = codes[i].purpose
           /\ codes'[i].age = codes[i].age /\ codes'[i].to = codes[i].to
  <2>1. \A i \in 1 .. Len(codes) : codes[i] \in CodeRow
    BY CodeRead
  <2>2. \A i \in 1 .. Len(codes) :
          /\ codes'[i] \in CodeRow
          /\ i \notin Open(s, purpose) => codes'[i] = codes[i]
          /\ i \in Open(s, purpose) => codes'[i].consumed = "replaced"
          /\ codes'[i].subject = codes[i].subject /\ codes'[i].purpose = codes[i].purpose
          /\ codes'[i].age = codes[i].age /\ codes'[i].to = codes[i].to
    BY <1>2, <2>1 DEF CodeRow
  <2>3. codes' \in [1 .. Len(codes) -> CodeRow]
    BY <1>2, <2>2
  <2>4. codes' \in Seq(CodeRow) /\ Len(codes') = Len(codes)
    BY <1>3, <2>3
  <2> QED
    BY <2>2, <2>4
<1>7. Recodes
  BY <1>2, <1>6 DEF Recodes
<1>8. \A i \in 1 .. Len(codes) : codes[i].subject # s => codes'[i] = codes[i]
  BY <1>6 DEF Open, CodesOf
<1>9. Touched(request[r]) = {s}
  BY <1>1, <1>3, TouchedIs
<1>10. Carries(d)'
  BY <1>1, <1>2, <1>3, <1>4, <1>6 DEF Same, Carries, OnItsWay, HasCode, MintingOps, Exists
<1>11. ASSUME s \in calm PROVE \A i \in CodesOf(s, purpose) : ~ Young(i)
  BY <1>1, <1>2, <1>5, <1>11, RequestRead DEF CalmFacts, Fresh
<1>12. CalmFacts(d)'
  <2>1. Open(s, purpose)' = {}
    BY <1>6, <1>7, SameSets
  <2>2. s \in calm => \A i \in CodesOf(s, purpose)' : ~ Young(i)'
    BY <1>7, <1>11, SameSets
  <2> QED
    BY <1>1, <1>2, <1>3, <1>4, <1>5, <2>1, <2>2 DEF CalmFacts, Fresh, Same
<1>13. s \in calm => InOrder(s)'
  <2> SUFFICES ASSUME s \in calm PROVE InOrder(s)'
    OBVIOUS
  <2>1. \A i \in 1 .. Len(codes) : i \in Open(s, purpose) => ~ Young(i)
    BY <1>11 DEF Open
  <2>2. InOrder(s)
    BY DEF IInv, CalmInv
  <2> QED
    BY <1>3, <1>6, <1>7, <2>1, <2>2, KeptInOrder
<1>14. d.op \in MintingOps /\ d.id = 0 => r \in Minting
  BY <1>4 DEF Minting, Same
<1>15. /\ request[r].at # "done" /\ d \in RequestRow
       /\ d.at # "done" => d.who = request[r].who /\ d.id = request[r].id
  BY <1>2, <1>4 DEF Same
<1> QED
  BY <1>1, <1>4, <1>7, <1>8, <1>9, <1>10, <1>12, <1>13, <1>14, <1>15, RecodeInv

\* One code is saved.
LEMMA CodeSaved ==
  ASSUME IInv, NEW i \in 1 .. Len(codes), NEW code \in CodeRow,
         codes' = [codes EXCEPT ![i] = code], UNCHANGED <<account, proof, calm>>,
         code.subject = codes[i].subject, code.purpose = codes[i].purpose,
         code.age = codes[i].age, codes[i].to # Nothing => code.to # Nothing
  PROVE  /\ Recodes /\ codes'[i] = code
         /\ \A j \in 1 .. Len(codes) : j # i => codes'[j] = codes[j]
         /\ \A s \in Subjects : s # codes[i].subject => SameFor(s)
         /\ Grows
<1>1. codes \in Seq(CodeRow) /\ Len(codes) \in Nat
  BY RequestRead DEF IInv, Typed
<1>2. /\ codes' \in Seq(CodeRow) /\ Len(codes') = Len(codes) /\ codes'[i] = code
      /\ \A j \in 1 .. Len(codes) : j # i => codes'[j] = codes[j]
  BY <1>1, ExceptSeq
<1>3. Recodes
  BY <1>2 DEF Recodes
<1>4. \A s \in Subjects : s # codes[i].subject => SameFor(s)
  BY <1>2 DEF SameFor
<1>5. Grows
  BY <1>1, <1>3 DEF Grows, Recodes, Exists
<1> QED
  BY <1>2, <1>3, <1>4, <1>5

LEMMA SendInv ==
  ASSUME IInv, NEW r \in Requests, Send(r)
  PROVE  IInv'
<1>1. PICK s, i, to, code :
        /\ s = request[r].who /\ i = request[r].id
        /\ to = (IF request[r].op = "mobile" THEN request[r].number ELSE s)
        /\ code = [codes[i] EXCEPT !.to = to]
  OBVIOUS
<1>2. /\ request[r].at = "send" /\ UNCHANGED <<account, proof, calm>> /\ Finish(r)
      /\ codes' = [codes EXCEPT ![i] = code]
  BY <1>1 DEF Send, At
<1>3. /\ Carries(request[r]) /\ s \in Subjects /\ Typed /\ Exists(s)
      /\ i \in 1 .. Len(codes) /\ codes[i].subject = s
      /\ codes[i].purpose = Purpose(request[r])
      /\ request[r].op \in MintingOps
      /\ request[r].op = "mobile" => request[r].number \in Numbers
  BY <1>1, <1>2, RequestRead DEF Carries, OnItsWay, HasCode, IInv
<1>4. to \in Subjects \cup Numbers /\ to # Nothing
  BY <1>1, <1>3 DEF Subjects
<1>5. /\ code \in CodeRow /\ code.to = to
      /\ code.subject = codes[i].subject /\ code.purpose = codes[i].purpose
      /\ code.age = codes[i].age /\ code.consumed = codes[i].consumed
  <2>1. codes[i] \in CodeRow
    BY <1>3, CodeRead
  <2> QED
    BY <1>1, <1>4, <2>1 DEF CodeRow
<1>6. /\ Recodes /\ codes'[i] = code
      /\ \A j \in 1 .. Len(codes) : j # i => codes'[j] = codes[j]
  BY <1>2, <1>3, <1>4, <1>5, CodeSaved
<1>7. Touched(request[r]) = {s}
  BY <1>1, <1>3, TouchedIs
<1>8. s \in calm => InOrder(s)'
  <2> SUFFICES ASSUME s \in calm PROVE InOrder(s)'
    OBVIOUS
  <2>1. InOrder(s) /\ Fresh(request[r])
    BY <1>1, RequestRead DEF IInv, CalmInv, CalmFacts
  <2>2. \A j \in 1 .. Len(codes) : codes'[j].consumed = codes[j].consumed
    BY <1>5, <1>6
  <2>3. ASSUME NEW purpose, Ordered(s, purpose) PROVE Ordered(s, purpose)'
    BY <1>6, <2>2, <2>3, SameSets DEF Ordered
  <2>4. ASSUME Proved(s) PROVE Proved(s)'
    <3>1. UNCHANGED <<account, proof>>
      BY <1>2
    <3>2. CASE request[r].op = "mobile"
      <4>1. account[s].mobile = to /\ ~ account[s].mobileOk
        BY <1>1, <1>2, <2>1, <3>2 DEF Fresh
      <4>2. \A j \in CodesOf(s, "mobile") :
              /\ j \in Open(s, "mobile")' => j \in Open(s, "mobile")
              /\ codes'[j].to = IF j = i THEN to ELSE codes[j].to
        BY <1>5, <1>6, <2>2, SameSets
      <4> QED
        BY <1>6, <2>4, <3>1, <4>1, <4>2, SameSets DEF Proved, Exists
    <3>3. CASE request[r].op # "mobile"
      <4>1. i \notin CodesOf(s, "mobile")
        BY <1>3, <3>3 DEF CodesOf, Purpose, MintingOps
      <4>2. \A j \in CodesOf(s, "mobile") :
              /\ j \in Open(s, "mobile")' => j \in Open(s, "mobile")
              /\ codes'[j].to = codes[j].to
        BY <1>6, <2>2, <4>1, SameSets
      <4> QED
        BY <1>6, <2>4, <3>1, <4>2, SameSets DEF Proved, Exists
    <3> QED
      BY <3>2, <3>3
  <2> QED
    BY <2>1, <2>3, <2>4 DEF InOrder
<1>9. /\ Blank.op \notin MintingOps /\ Blank \in RequestRow /\ Blank.at = "done"
      /\ Carries(Blank)' /\ CalmFacts(Blank)'
  BY <1>2, <1>3, BlankRow DEF MintingOps
<1>10. request' = [request EXCEPT ![r] = Blank] /\ request[r].at # "done"
  BY <1>2 DEF Finish
<1>11. \A j \in 1 .. Len(codes) :
         codes[j].subject \notin Touched(request[r]) => codes'[j] = codes[j]
  BY <1>3, <1>6, <1>7
<1> QED
  BY <1>6, <1>7, <1>8, <1>9, <1>10, <1>11, RecodeInv

\* What a check does to the order of an account: the code was open when it was found.
LEMMA CheckedInOrder ==
  ASSUME IInv, NEW r \in Requests, request[r].at = "check",
         NEW i, i = request[r].id, NEW code \in CodeRow,
         codes' = [codes EXCEPT ![i] = code], UNCHANGED <<account, proof, calm>>,
         code.subject = codes[i].subject, code.purpose = codes[i].purpose,
         code.age = codes[i].age, code.to = codes[i].to, code.consumed \in {"no", "used"}
  PROVE  /\ \A s \in calm \cap Touched(request[r]) : InOrder(s)'
         /\ i \in 1 .. Len(codes) /\ Recodes /\ codes'[i] = code /\ Grows
         /\ \A j \in 1 .. Len(codes) :
              codes[j].subject \notin Touched(request[r]) => codes'[j] = codes[j]
<1>1. /\ i \in 1 .. Len(codes) /\ i # 0 /\ Typed /\ i \in 0 .. Len(codes)
      /\ codes[i].subject \in calm => codes[i].consumed = "no"
  BY RequestRead DEF Carries, HasCode, CalmFacts, IInv
<1>2. /\ Recodes /\ codes'[i] = code /\ Grows
      /\ \A j \in 1 .. Len(codes) : j # i => codes'[j] = codes[j]
      /\ \A s \in Subjects : s # codes[i].subject => SameFor(s)
  <2>1. codes[i].to # Nothing => code.to # Nothing
    OBVIOUS
  <2> QED
    BY <1>1, <2>1, CodeSaved
<1>3. codes[i].subject \in Touched(request[r])
  BY <1>1, TouchedIs
<1>4. ASSUME NEW s \in calm PROVE InOrder(s)'
  <2>1. InOrder(s) /\ s \in Subjects
    BY <1>1 DEF IInv, CalmInv, Typed
  <2>2. CASE s # codes[i].subject
    BY <1>1, <1>2, <2>1, <2>2, InOrderOn
  <2>3. CASE s = codes[i].subject
    <3>1. \A j \in 1 .. Len(codes) : codes[j].subject = s =>
            /\ codes'[j].to = codes[j].to
            /\ codes'[j].consumed = "no" => codes[j].consumed = "no"
            /\ codes'[j].consumed = "replaced" => codes[j].consumed = "replaced"
      BY <1>1, <1>2, <2>3
    <3> QED
      BY <1>2, <2>1, <3>1, KeptInOrder
  <2> QED
    BY <2>2, <2>3
<1> QED
  BY <1>1, <1>2, <1>3, <1>4

LEMMA CheckWrongInv ==
  ASSUME IInv, NEW r \in Requests, CheckWrong(r)
  PROVE  IInv'
<1>1. PICK i, n, code :
        /\ i = request[r].id /\ n = request[r].attempts
        /\ code = [codes[i] EXCEPT !.attempts = n + 1, !.consumed = "no"]
  OBVIOUS
<1>2. /\ request[r].at = "check" /\ Finish(r) /\ UNCHANGED <<account, proof, calm>>
      /\ codes' = [codes EXCEPT ![i] = code]
  BY <1>1 DEF CheckWrong, At
<1>3. i \in 1 .. Len(codes) /\ n \in 0 .. MaxAttempts - 1
  BY <1>1, <1>2, RequestRead DEF Carries, HasCode, RequestRow
<1>4. /\ code \in CodeRow /\ code.to = codes[i].to
      /\ code.subject = codes[i].subject /\ code.purpose = codes[i].purpose
      /\ code.age = codes[i].age /\ code.consumed = "no"
  <2>1. codes[i] \in CodeRow /\ n + 1 \in 0 .. MaxAttempts
    BY <1>3, CodeRead
  <2> QED
    BY <1>1, <2>1 DEF CodeRow
<1>5. /\ \A s \in calm \cap Touched(request[r]) : InOrder(s)'
      /\ Recodes
      /\ \A j \in 1 .. Len(codes) :
           codes[j].subject \notin Touched(request[r]) => codes'[j] = codes[j]
  <2>1. i = request[r].id /\ code.consumed \in {"no", "used"}
    BY <1>1, <1>4
  <2> QED
    BY <1>2, <1>4, <2>1, CheckedInOrder
<1>6. /\ Blank.op \notin MintingOps /\ Blank \in RequestRow /\ Blank.at = "done"
      /\ Carries(Blank)' /\ CalmFacts(Blank)'
  BY <1>2, BlankRow DEF MintingOps, IInv
<1>7. request' = [request EXCEPT ![r] = Blank] /\ request[r].at # "done"
  BY <1>2 DEF Finish
<1> QED
  BY <1>5, <1>6, <1>7, RecodeInv

LEMMA CheckRightInv ==
  ASSUME IInv, NEW r \in Requests, CheckRight(r)
  PROVE  IInv'
<1>1. PICK c, s, i, n, code :
        /\ c = request[r] /\ s = c.who /\ i = c.id /\ n = c.attempts
        /\ code = [codes[i] EXCEPT !.attempts = n, !.consumed = "used"]
  OBVIOUS
<1>2. /\ c.at = "check" /\ c.right /\ UNCHANGED <<account, proof, calm>>
      /\ codes' = [codes EXCEPT ![i] = code]
      /\ \/ c.op = "verify" /\ Goto(r, "markRead")
         \/ c.op # "verify" /\ codes[i].subject = s /\ Goto(r, "number")
         \/ Finish(r)
  BY <1>1 DEF CheckRight, At
<1>3. Carries(c) /\ CalmFacts(c) /\ Typed /\ c.op \in {"verify", "verifyMobile"}
  BY <1>1, <1>2, RequestRead DEF Carries, OnItsWay, IInv
<1>4. i \in 1 .. Len(codes) /\ n \in 0 .. MaxAttempts /\ codes[i].to # Nothing
  BY <1>1, <1>2, <1>3, RequestRead DEF Carries, HasCode, RequestRow
<1>5. /\ code \in CodeRow /\ code.to = codes[i].to
      /\ code.subject = codes[i].subject /\ code.purpose = codes[i].purpose
      /\ code.age = codes[i].age /\ code.consumed = "used"
  <2>1. codes[i] \in CodeRow
    BY <1>4, CodeRead
  <2> QED
    BY <1>1, <1>4, <2>1 DEF CodeRow
<1>6. /\ \A t \in calm \cap Touched(request[r]) : InOrder(t)'
      /\ Recodes /\ codes'[i] = code /\ Grows
      /\ \A j \in 1 .. Len(codes) :
           codes[j].subject \notin Touched(request[r]) => codes'[j] = codes[j]
  <2>1. i = request[r].id /\ code.consumed \in {"no", "used"} /\ request[r].at = "check"
    BY <1>1, <1>2, <1>5
  <2>2. codes' = [codes EXCEPT ![i] = code] /\ UNCHANGED <<account, proof, calm>>
    BY <1>2
  <2>3. /\ code.subject = codes[i].subject /\ code.purpose = codes[i].purpose
        /\ code.age = codes[i].age /\ code.to = codes[i].to /\ code \in CodeRow
    BY <1>5
  <2>4. /\ \A t \in calm \cap Touched(request[r]) : InOrder(t)'
        /\ \A j \in 1 .. Len(codes) :
             codes[j].subject \notin Touched(request[r]) => codes'[j] = codes[j]
    BY <2>1, <2>2, <2>3, CheckedInOrder
  <2>5. Recodes /\ codes'[i] = code /\ Grows
    <3>1. codes[i].to # Nothing => code.to # Nothing
      BY <2>3
    <3> QED
      BY <1>4, <2>2, <2>3, <3>1, CodeSaved
  <2> QED
    BY <2>4, <2>5
<1>7. CASE Finish(r)
  <2>1. /\ Blank.op \notin MintingOps /\ Blank \in RequestRow /\ Blank.at = "done"
        /\ Carries(Blank)' /\ CalmFacts(Blank)'
    BY <1>2, <1>3, BlankRow DEF MintingOps
  <2>2. request' = [request EXCEPT ![r] = Blank] /\ request[r].at # "done"
    BY <1>1, <1>2, <1>7 DEF Finish
  <2> QED
    BY <1>6, <2>1, <2>2, RecodeInv
<1>8. ASSUME NEW d, request' = [request EXCEPT ![r] = d], Same(d, c),
             Carries(d)', CalmFacts(d)'
      PROVE  IInv'
  <2>1. /\ d \in RequestRow /\ request[r].at # "done" /\ d.op \notin MintingOps
        /\ d.who = request[r].who /\ d.id = request[r].id
    BY <1>1, <1>2, <1>3, <1>8 DEF Same, MintingOps
  <2> QED
    BY <1>6, <1>8, <2>1, RecodeInv
<1>9. codes'[i].to = codes[i].to /\ codes'[i].subject = codes[i].subject
      /\ codes'[i].purpose = codes[i].purpose
  BY <1>5, <1>6
<1>10. CASE c.op = "verify" /\ Goto(r, "markRead")
  <2>1. PICK d : request' = [request EXCEPT ![r] = d] /\ Same(d, c) /\ d.at = "markRead"
    BY <1>1, <1>10, GoneTo
  <2>2. Carries(d)'
    <3>1. d.id = i /\ d.id \in 0 .. Len(codes') /\ Exists(d.who)' /\ d.who \in Subjects
      BY <1>1, <1>2, <1>3, <1>4, <1>6, <2>1 DEF Carries, Grows, Same, Exists, Recodes
    <3>2. codes'[i].purpose = Purpose(d) /\ codes'[i].subject = d.who /\ i # 0
      BY <1>1, <1>2, <1>3, <1>4, <1>9, <1>10, <2>1 DEF Carries, HasCode, Same, Purpose
    <3> QED
      BY <1>4, <1>9, <1>10, <2>1, <3>1, <3>2 DEF Carries, Same, OnItsWay, MintingOps
  <2>3. CalmFacts(d)'
    BY <1>10, <2>1 DEF CalmFacts, Fresh, Same
  <2> QED
    BY <1>8, <2>1, <2>2, <2>3
<1>11. CASE c.op # "verify" /\ codes[i].subject = s /\ Goto(r, "number")
  <2>1. PICK d : request' = [request EXCEPT ![r] = d] /\ Same(d, c) /\ d.at = "number"
    BY <1>1, <1>11, GoneTo
  <2>2. c.op = "verifyMobile" /\ s \in Users /\ Exists(s) /\ d.who = s
    BY <1>1, <1>2, <1>3, <1>11, <2>1 DEF Carries, Same
  <2>3. codes[i].purpose = "mobile" /\ i # 0
    BY <1>1, <1>2, <1>3, <1>4, <2>2 DEF Carries, HasCode, Purpose
  <2>4. Carries(d)'
    <3>1. /\ d.id = i /\ d.id \in 0 .. Len(codes') /\ Exists(d.who)' /\ d.who \in Users
          /\ d.who \in Subjects
      BY <1>1, <1>2, <1>4, <1>6, <2>1, <2>2 DEF Same, Exists, Recodes, Subjects
    <3>2. codes'[i].purpose = Purpose(d) /\ codes'[i].subject = d.who
      BY <1>9, <1>11, <2>1, <2>2, <2>3 DEF Same, Purpose
    <3> QED
      BY <1>4, <1>9, <2>1, <2>2, <2>3, <3>1, <3>2 DEF Carries, Same, OnItsWay, MintingOps
  <2>5. s \in calm => codes[i].to = account[s].mobile
    <3> SUFFICES ASSUME s \in calm PROVE codes[i].to = account[s].mobile
      OBVIOUS
    <3>1. i \in Open(s, "mobile")
      BY <1>1, <1>2, <1>3, <1>4, <1>11, <2>3 DEF CalmFacts, Open, CodesOf
    <3>2. Proved(s)
      BY <2>2 DEF IInv, CalmInv, InOrder
    <3> QED
      BY <1>4, <2>2, <3>1, <3>2 DEF Proved
  <2>6. CalmFacts(d)'
    BY <1>1, <1>2, <1>9, <2>1, <2>2, <2>5 DEF CalmFacts, Fresh, Same
  <2> QED
    BY <1>8, <2>1, <2>4, <2>6
<1> QED
  BY <1>2, <1>7, <1>10, <1>11

LEMMA MintInv ==
  ASSUME IInv, NEW r \in Requests, Mint(r)
  PROVE  IInv'
<1>1. PICK c, s, purpose, n, next, code, d :
        /\ c = request[r] /\ s = c.who /\ purpose = PurposeOf(r) /\ n = Len(codes) + 1
        /\ next = (IF c.op = "mobile" THEN "stageRead" ELSE "send")
        /\ code = [subject |-> s, purpose |-> purpose, attempts |-> 0,
                   consumed |-> "no", age |-> "young", to |-> Nothing]
        /\ d = [c EXCEPT !.id = n, !.at = next]
  OBVIOUS
<1>2. /\ c.at = "mint" /\ codes' = Append(codes, code)
      /\ request' = [request EXCEPT ![r] = d] /\ UNCHANGED <<account, proof, calm>>
  BY <1>1 DEF Mint, At
<1>3. /\ Carries(c) /\ CalmFacts(c) /\ c \in RequestRow /\ Typed
      /\ Len(codes) \in Nat /\ codes \in Seq(CodeRow)
      /\ s \in Subjects /\ Exists(s) /\ c.op \in MintingOps /\ c.id = 0
  BY <1>1, <1>2, RequestRead DEF Carries, OnItsWay, IInv
<1>4. Purpose(c) = purpose /\ purpose \in Purposes
  BY <1>1 DEF Purpose, PurposeOf, Purposes
<1>5. /\ code \in CodeRow /\ code.subject = s /\ code.purpose = purpose
      /\ code.consumed = "no" /\ code.age = "young" /\ code.to = Nothing
  BY <1>1, <1>3, <1>4 DEF CodeRow
<1>6. /\ codes' \in Seq(CodeRow) /\ Len(codes') = n /\ codes'[n] = code
      /\ \A i \in 1 .. Len(codes) : codes'[i] = codes[i]
  BY <1>1, <1>2, <1>3, <1>5, AppendProperties
<1>7. n \in Nat /\ \A i : i \in 1 .. n <=> i \in 1 .. Len(codes) \/ i = n
  BY <1>1, <1>3
<1>8. /\ n <= MaxCodes
      /\ MintRoom'
  <2>1. r \in Minting
    BY <1>1, <1>3 DEF Minting
  <2>2. /\ Len(codes) + Cardinality(Minting) <= MaxCodes
        /\ IsFiniteSet(Minting) /\ Cardinality(Minting) \in Nat
    BY MintingCount DEF IInv, MintRoom
  <2>3. Cardinality(Minting) # 0
    BY <2>1, <2>2, FS_EmptySet
  <2>4. n <= MaxCodes
    BY <1>1, <1>3, <2>2, <2>3
  <2>5. d.id = n /\ n # 0
    BY <1>1, <1>3 DEF RequestRow
  <2>6. Cardinality(Minting') = Cardinality(Minting) - 1
    BY <1>2, <1>3, <2>1, <2>5, MintingMoved
  <2>7. Len(codes') + Cardinality(Minting') <= MaxCodes
    BY <1>1, <1>3, <1>6, <2>2, <2>6
  <2> QED
    BY <2>4, <2>7 DEF MintRoom
<1>9. /\ next \in {"stageRead", "send"}
      /\ next = "stageRead" <=> c.op = "mobile"
  BY <1>1
<1>10. /\ d \in RequestRow /\ d.op = c.op /\ d.who = s /\ d.id = n /\ d.at = next
       /\ d.number = c.number /\ d.right = c.right
  <2>1. n \in 0 .. MaxCodes
    BY <1>1, <1>3, <1>8
  <2>2. d = [c EXCEPT !.id = n, !.at = next] /\ s = c.who
    BY <1>1
  <2> QED
    BY <1>3, <1>9, <2>1, <2>2 DEF RequestRow
<1>11. Grows /\ \A t \in Subjects : t # s => SameFor(t)
  BY <1>2, <1>3, <1>5, <1>6, <1>7 DEF Grows, SameFor, Exists
<1>12. CodesInv'
  <2>1. \A i \in 1 .. n : Exists(codes[i].subject)'
    BY <1>2, <1>3, <1>5, <1>6, <1>7 DEF IInv, CodesInv, Exists
  <2>2. \A i, j \in 1 .. n : i < j /\ Young(i)' => Young(j)'
    BY <1>3, <1>5, <1>6, <1>7 DEF IInv, CodesInv, Young
  <2> QED
    BY <1>6, <2>1, <2>2 DEF CodesInv
<1>13. \A t, p : \A i \in CodesOf(t, p) : i \in CodesOf(t, p)' /\ codes'[i] = codes[i]
  BY <1>3, <1>6, <1>7 DEF CodesOf
<1>14. \A i \in CodesOf(s, purpose)' : i \in CodesOf(s, purpose) \/ i = n
  BY <1>6, <1>7 DEF CodesOf
<1>15. \A i \in Open(s, purpose)' : i \in Open(s, purpose) \/ i = n
  BY <1>6, <1>14 DEF Open, CodesOf
<1>16. OneHolderPerNumber'
  BY <1>2 DEF IInv, OneHolderPerNumber, HoldsNumber, Exists
<1>17. OwnCode'
  <2> SUFFICES ASSUME NEW t \in Subjects, NEW p \in Purposes, proof'[t][p] # 0
               PROVE  /\ proof'[t][p] \in CodesOf(t, p)'
                      /\ codes'[proof'[t][p]].to # Nothing
    BY DEF OwnCode
  <2>1. proof[t][p] \in CodesOf(t, p) /\ codes[proof[t][p]].to # Nothing
    BY <1>2 DEF IInv, OwnCode
  <2> QED
    BY <1>2, <1>13, <2>1
<1>18. Touched(request[r]) = {s}
  <2>1. c.id \in 0 .. Len(codes)
    BY <1>3
  <2> QED
    BY <1>1, <1>3, <2>1, TouchedIs
<1>19. Touched(d)' = {s}
  <2>1. {d.id} \cap (1 .. Len(codes')) = {n}
    BY <1>6, <1>7, <1>10
  <2> QED
    BY <1>5, <1>6, <1>10, <2>1 DEF Touched
<1>20. Carries(d)'
  <2>1. Purpose(d) = purpose
    BY <1>4, <1>10 DEF Purpose
  <2>2. d.id \in 0 .. Len(codes') /\ d.id # 0 /\ Exists(d.who)'
    BY <1>2, <1>3, <1>6, <1>7, <1>10, <1>1 DEF Exists
  <2>3. OnItsWay(d)
    BY <1>3, <1>10, <1>9 DEF OnItsWay, MintingOps
  <2>4. /\ c.op \in {"mobile", "verifyMobile"} => s \in Users
        /\ c.op = "mobile" => c.number \in Numbers
    BY <1>1, <1>3 DEF Carries
  <2>5. codes'[d.id].purpose = Purpose(d) /\ codes'[d.id].subject = d.who
    BY <1>5, <1>6, <1>10, <2>1
  <2> QED
    BY <1>3, <1>10, <1>9, <2>2, <2>3, <2>4, <2>5 DEF Carries, MintingOps
<1>21. s \in calm =>
         /\ \A i \in CodesOf(s, purpose) : ~ Young(i)
         /\ Open(s, purpose) = {} /\ InOrder(s)
  BY <1>1, <1>2, <1>3, <1>4 DEF CalmFacts, Fresh, IInv, CalmInv
<1>22. CalmFacts(d)'
  <2>1. s \in calm /\ d.at = "stageRead" =>
          \A i \in Open(s, "mobile")' : codes'[i].to = Nothing
    BY <1>1, <1>5, <1>6, <1>10, <1>9, <1>15, <1>21 DEF PurposeOf
  <2> QED
    BY <1>2, <1>3, <1>10, <1>9, <2>1 DEF CalmFacts, Fresh, MintingOps
<1>23. s \in calm => InOrder(s)'
  <2> SUFFICES ASSUME s \in calm PROVE InOrder(s)'
    OBVIOUS
  <2>1. \A i \in CodesOf(s, purpose) : ~ Young(i)'
    BY <1>6, <1>21 DEF CodesOf, Young
  <2>2. Ordered(s, purpose)'
    <3>1. \A i \in CodesOf(s, purpose)' : Young(i)' => codes'[i].consumed # "replaced"
      BY <1>5, <1>6, <1>14, <2>1
    <3>2. \A i, j \in CodesOf(s, purpose)' :
            i # j => /\ ~ (Young(i)' /\ Young(j)')
                     /\ ~ (i \in Open(s, purpose)' /\ j \in Open(s, purpose)')
      BY <1>14, <1>15, <1>21, <2>1
    <3> QED
      BY <3>1, <3>2 DEF Ordered
  <2>3. ASSUME NEW p, p # purpose
        PROVE  /\ CodesOf(s, p)' = CodesOf(s, p) /\ Open(s, p)' = Open(s, p)
               /\ \A i \in CodesOf(s, p) : codes'[i] = codes[i]
    <3>1. CodesOf(s, p)' = CodesOf(s, p)
      BY <1>5, <1>6, <1>7, <2>3 DEF CodesOf
    <3>2. \A i \in CodesOf(s, p) : codes'[i] = codes[i]
      BY <1>6 DEF CodesOf
    <3> QED
      BY <3>1, <3>2 DEF Open
  <2>4. ASSUME NEW p, p # purpose, Ordered(s, p) PROVE Ordered(s, p)'
    BY <2>3, <2>4 DEF Ordered, Young, Open
  <2>5. ASSUME Proved(s) PROVE Proved(s)'
    <3>1. \A i \in Open(s, "mobile")' : i \in Open(s, "mobile") \/ codes'[i].to = Nothing
      BY <1>5, <1>6, <1>15, <2>3
    <3>2. \A i \in CodesOf(s, "mobile") : codes'[i] = codes[i]
      BY <1>6 DEF CodesOf
    <3> QED
      BY <1>2, <1>13, <2>5, <3>1, <3>2 DEF Proved, Exists, Open
  <2> QED
    BY <1>21, <2>2, <2>4, <2>5 DEF InOrder
<1>24. request[r].at # "done"
  BY <1>1, <1>2
<1>25. /\ account' \in [Subjects -> AccountRow \cup {Nothing}]
       /\ proof' \in [Subjects -> [signup : 0 .. MaxCodes, mobile : 0 .. MaxCodes]]
       /\ calm' = calm
  BY <1>2, <1>3 DEF Typed
<1> QED
  BY <1>2, <1>6, <1>8, <1>10, <1>11, <1>12, <1>16, <1>17, <1>18, <1>19, <1>20, <1>22,
     <1>23, <1>24, <1>25, WriteInv

-----------------------------------------------------------------------------
(* Every step.                                                             *)

LEMMA GrowOlderInv ==
  ASSUME IInv, NEW i \in 1 .. Len(codes), GrowOlder(i)
  PROVE  IInv'
<1>1. PICK code, age :
        /\ code = [codes[i] EXCEPT !.age = age]
        /\ age \in {"usable", "expired"}
        /\ codes' = [codes EXCEPT ![i] = code]
        /\ UNCHANGED <<account, request, proof, calm>>
        /\ \A j \in 1 .. i - 1 : ~ Young(j)
  <2>1. PICK k \in 1 .. 2 :
          /\ \A j \in 1 .. i - 1 : \E m \in k + 1 .. 3 : codes[j].age = Ages[m]
          /\ codes' = [codes EXCEPT ![i].age = Ages[k + 1]]
          /\ UNCHANGED <<account, request, proof, calm>>
    BY DEF GrowOlder
  <2>2. \A m \in k + 1 .. 3 : m \in {2, 3} /\ Ages[m] \in {"usable", "expired"}
    BY DEF Ages
  <2>3. \A j \in 1 .. i - 1 : ~ Young(j)
    BY <2>1, <2>2 DEF Young
  <2>4. Ages[k + 1] \in {"usable", "expired"}
    BY <2>2
  <2> QED
    BY <2>1, <2>3, <2>4
<1>2. /\ code \in CodeRow /\ code.subject = codes[i].subject /\ code.to = codes[i].to
      /\ code.purpose = codes[i].purpose /\ code.consumed = codes[i].consumed
      /\ code.age = age
  <2>1. codes[i] \in CodeRow
    BY CodeRead
  <2> QED
    BY <1>1, <2>1 DEF CodeRow
<1>3. Typed /\ Len(codes) \in Nat /\ codes \in Seq(CodeRow)
  BY RequestRead DEF IInv, Typed
<1>4. /\ codes' \in Seq(CodeRow) /\ Len(codes') = Len(codes) /\ codes'[i] = code
      /\ \A j \in 1 .. Len(codes) : j # i => codes'[j] = codes[j]
  BY <1>1, <1>2, <1>3, ExceptSeq
<1>5. \A j \in 1 .. Len(codes) :
        /\ codes'[j].subject = codes[j].subject /\ codes'[j].to = codes[j].to
        /\ codes'[j].purpose = codes[j].purpose /\ codes'[j].consumed = codes[j].consumed
        /\ Young(j)' => j # i /\ Young(j)
  BY <1>1, <1>2, <1>4 DEF Young
<1>6. \A s, purpose : /\ CodesOf(s, purpose)' = CodesOf(s, purpose)
                      /\ Open(s, purpose)' = Open(s, purpose)
                      /\ CodesOf(s, purpose) \subseteq 1 .. Len(codes)
                      /\ Open(s, purpose) \subseteq CodesOf(s, purpose)
  BY <1>4, <1>5 DEF CodesOf, Open
<1>7. Grows
  BY <1>1, <1>3, <1>4, <1>5 DEF Grows, Exists
<1>8. Typed'
  BY <1>1, <1>3, <1>4 DEF Typed
<1>9. MintRoom'
  BY <1>1, <1>4 DEF IInv, MintRoom, Minting
<1>10. CodesInv'
  <2>1. \A j, k \in 1 .. Len(codes) : j < k /\ Young(j)' => Young(k)'
    <3> SUFFICES ASSUME NEW j \in 1 .. Len(codes), NEW k \in 1 .. Len(codes),
                        j < k, Young(j)'
                 PROVE  Young(k)'
      OBVIOUS
    <3>1. Young(j) /\ Young(k)
      BY <1>5 DEF IInv, CodesInv
    <3>2. k # i
      BY <1>1, <1>3, <3>1
    <3> QED
      BY <1>4, <3>1, <3>2 DEF Young
  <2>2. \A j \in 1 .. Len(codes) : Exists(codes[j].subject)'
    BY <1>1, <1>5 DEF IInv, CodesInv, Exists
  <2> QED
    BY <1>4, <2>1, <2>2 DEF CodesInv
<1>11. Carried'
  BY <1>1, <1>3, <1>7, CarriedOn DEF IInv, Carried
<1>12. Alone'
  <2>1. \A q \in Requests : Touched(request[q])' = Touched(request[q])
    <3> SUFFICES ASSUME NEW q \in Requests
                 PROVE  Touched(request[q])' = Touched(request[q])
      OBVIOUS
    <3>1. request[q].id \in 0 .. Len(codes)
      BY RequestRead DEF Carries
    <3> QED
      BY <1>1, <1>3, <1>7, <3>1, TouchedOn
  <2> QED
    BY <1>1, <2>1 DEF IInv, Alone
<1>13. OneHolderPerNumber'
  BY <1>1 DEF IInv, OneHolderPerNumber, HoldsNumber, Exists
<1>14. OwnCode'
  BY <1>1, <1>5, <1>6 DEF IInv, OwnCode
<1>15. ASSUME NEW q \in Requests PROVE CalmFacts(request[q])'
  <2>1. Carries(request[q]) /\ CalmFacts(request[q]) /\ request'[q] = request[q]
    BY <1>1, RequestRead
  <2>2. request[q].id # 0 => request[q].id \in 1 .. Len(codes)
    BY <1>3, <2>1 DEF Carries
  <2>3. HasCode(request[q]) => request[q].id \in 1 .. Len(codes)
    BY <2>1, <2>2 DEF Carries
  <2>4. Fresh(request[q]) => Fresh(request[q])'
    BY <1>1, <1>5, <1>6, <2>1, <2>3 DEF Fresh, HasCode
  <2>5. request[q].at = "check" => request[q].id \in 1 .. Len(codes)
    BY <2>3 DEF HasCode
  <2> QED
    BY <1>1, <1>5, <2>1, <2>4, <2>5 DEF CalmFacts
<1>16. ASSUME NEW s \in calm PROVE InOrder(s)'
  <2>1. InOrder(s)
    BY DEF IInv, CalmInv
  <2>2. ASSUME NEW purpose, Ordered(s, purpose) PROVE Ordered(s, purpose)'
    BY <1>5, <1>6, <2>2 DEF Ordered
  <2>3. ASSUME Proved(s) PROVE Proved(s)'
    BY <1>1, <1>5, <1>6, <2>3 DEF Proved, Exists
  <2> QED
    BY <2>1, <2>2, <2>3 DEF InOrder
<1>17. CalmInv'
  BY <1>1, <1>15, <1>16 DEF CalmInv
<1> QED
  BY <1>8, <1>9, <1>10, <1>11, <1>12, <1>13, <1>14, <1>17 DEF IInv

LEMMA CutOffInv ==
  ASSUME IInv, NEW r \in Requests, CutOff(r)
  PROVE  IInv'
BY EndInv DEF CutOff, At

LEMMA StutterInv ==
  ASSUME IInv, UNCHANGED vars
  PROVE  IInv'
<1>1. /\ account' = account /\ codes' = codes /\ request' = request /\ proof' = proof
      /\ calm' = calm
  BY DEF vars
<1>2. Typed' /\ MintRoom' /\ CodesInv'
  BY <1>1 DEF IInv, Typed, MintRoom, Minting, CodesInv, Exists, Young
<1>3. Grows /\ Typed /\ \A s \in Subjects : SameFor(s)
  BY <1>1 DEF IInv, Typed, Grows, Exists, SameFor
<1>4. Carried'
  BY <1>1, <1>3, CarriedOn DEF IInv, Carried
<1>5. Alone'
  BY <1>1 DEF IInv, Alone, Touched
<1>6. ASSUME NEW q \in Requests PROVE CalmFacts(request[q])'
  <2>1. Carries(request[q]) /\ CalmFacts(request[q]) /\ request'[q] = request[q]
    BY <1>1, RequestRead
  <2>2. \A s \in calm : SameFor(s)
    BY <1>3 DEF Typed
  <2> QED
    BY <1>1, <1>3, <2>1, <2>2, CalmFactsOn
<1>7. \A s \in calm : InOrder(s)'
  BY <1>3, InOrderOn DEF IInv, CalmInv, Typed
<1>8. CalmInv'
  BY <1>1, <1>6, <1>7 DEF CalmInv
<1>9. OneHolderPerNumber' /\ OwnCode'
  BY <1>1 DEF IInv, OneHolderPerNumber, HoldsNumber, Exists, OwnCode, CodesOf
<1> QED
  BY <1>2, <1>4, <1>5, <1>8, <1>9 DEF IInv

LEMMA StepInv == IInv /\ [Next]_vars => IInv'
<1> SUFFICES ASSUME IInv, [Next]_vars PROVE IInv'
  OBVIOUS
<1>1. ASSUME NEW r \in Requests, Step(r) PROVE IInv'
  BY <1>1, InsertInv, RereadInv, OverwriteInv, EnsureOpenInv, CoolInv, InvalidateInv,
     MintInv, SendInv, FreeInv, StageReadInv, StageInv, CheckWrongInv, CheckRightInv,
     NumberReadInv, MarkReadInv, MarkInv, MarkMobileInv, OnLoginInv DEF Step
<1>2. ASSUME NEW r \in Requests, Arrive(r) PROVE IInv'
  BY <1>2, SignupInv, RegisterInv, LoginUnverifiedInv, PartnerLoginInv, SetMobileInv,
     ResendInv, VerifyOtpInv, VerifyMobileInv DEF Arrive
<1> QED
  BY <1>1, <1>2, CutOffInv, CreateInvitedInv, GrowOlderInv, StutterInv DEF Next

LEMMA InitInv == Init => IInv
<1> SUFFICES ASSUME Init PROVE IInv
  OBVIOUS
<1>1. /\ account = [s \in Subjects |-> Nothing] /\ codes = << >>
      /\ request = [r \in Requests |-> Blank] /\ calm = Subjects
      /\ proof = [s \in Subjects |-> [signup |-> 0, mobile |-> 0]]
      /\ Len(codes) = 0
  BY DEF Init
<1>2. \A q \in Requests : request[q] = Blank
  BY <1>1
<1>3. Typed
  BY <1>1, BlankRow DEF Typed
<1>4. Minting = {}
  BY <1>2, BlankRow DEF Minting, MintingOps
<1>5. MintRoom
  <2>1. Cardinality(Minting) = 0
    BY <1>4, FS_EmptySet
  <2> QED
    BY <1>1, <2>1 DEF MintRoom
<1>6. CodesInv
  BY <1>1 DEF CodesInv
<1>7. Carried /\ Alone
  BY <1>2, BlankRow DEF Carried, Alone
<1>8. \A s \in Subjects : \A purpose : CodesOf(s, purpose) = {} /\ Open(s, purpose) = {}
  BY <1>1 DEF CodesOf, Open
<1>9. \A s \in Subjects : ~ Exists(s)
  BY <1>1 DEF Exists
<1>10. CalmInv
  BY <1>1, <1>2, <1>8, <1>9, BlankRow DEF CalmInv, InOrder, Ordered, Proved
<1>11. OneHolderPerNumber /\ OwnCode
  BY <1>1, <1>9 DEF OneHolderPerNumber, HoldsNumber, OwnCode, Purposes, Subjects
<1> QED
  BY <1>3, <1>5, <1>6, <1>7, <1>10, <1>11 DEF IInv

-----------------------------------------------------------------------------
(* The theorems.                                                           *)

\* The inductive invariant holds of every behaviour: what each request carries of the
\* account and the code it is about, and the order of the accounts that are calm.
THEOREM Invariance == Spec => []IInv
<1>1. Init => IInv
  BY InitInv
<1>2. IInv /\ [Next]_vars => IInv'
  BY StepInv
<1> QED
  BY <1>1, <1>2, PTL DEF Spec

\* The variables keep their types, the codes stay within their bound and a code never
\* counts more wrong guesses than OTP_MAX_ATTEMPTS, whatever requests overlap.
THEOREM TypeCorrect == Spec => []TypeOK
<1>1. IInv => TypeOK
  BY MintingCount DEF IInv, Typed, MintRoom, TypeOK
<1> QED
  BY <1>1, Invariance, PTL

\* Two users never hold the same verified number, whatever requests overlap: the
\* saves of signup, staging, verification and login all meet uq_users_mobile.
THEOREM OneHolder == Spec => []OneHolderPerNumber
<1>1. IInv => OneHolderPerNumber
  BY DEF IInv
<1> QED
  BY <1>1, Invariance, PTL

\* What verified an account or a number was a code made for this account and this
\* purpose and delivered to somebody, whatever requests overlap.
THEOREM OwnCodes == Spec => []OwnCode
<1>1. IInv => OwnCode
  BY DEF IInv
<1> QED
  BY <1>1, Invariance, PTL

\* As long as the requests of a user do not overlap, a number of theirs is verified by
\* a code that was sent to this number, wherever earlier requests were cut off.
THEOREM NumbersProved == Spec => []NumberProved
<1>1. IInv => NumberProved
  BY DEF IInv, CalmInv, InOrder, Proved, NumberProved
<1> QED
  BY <1>1, Invariance, PTL

\* As long as the requests of an account do not overlap, the code that holds the
\* cooldown has not been replaced: a refusal leaves its owner a code to wait for.
THEOREM NobodyStranded == Spec => []NeverStranded
<1>1. IInv => NeverStranded
  BY DEF IInv, CalmInv, InOrder, Ordered, NeverStranded, Purposes
<1> QED
  BY <1>1, Invariance, PTL

\* As long as the requests of an account do not overlap, it has one open code per
\* purpose and one within the cooldown, on every path that sends a code.
THEOREM OneOpenCode == Spec => []OneCodeAtATime
<1>1. IInv => OneCodeAtATime
  BY DEF IInv, CalmInv, InOrder, Ordered, OneCodeAtATime, Purposes
<1> QED
  BY <1>1, Invariance, PTL
=============================================================================
