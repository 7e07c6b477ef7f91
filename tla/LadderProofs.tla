---------------------------- MODULE LadderProofs ----------------------------
(***************************************************************************)
(* Proofs about the operators of Ladder, for every ladder and every        *)
(* volume: the rows of a cell can be put in order, the loop of pickRung    *)
(* stops somewhere, and the price is the one of the two-tier rule.         *)
(***************************************************************************)
EXTENDS Ladder, FiniteSetTheorems, NaturalsInduction, WellFoundedInduction, TLAPS

\* No two rungs have the same threshold.
Distinct(rows) == \A a, b \in rows : a.minQty = b.minQty => a = b

-----------------------------------------------------------------------------
(* Putting rows in order: a rung's place is the number of those up to it.  *)

UpTo(rows, a) == {b \in rows : b.minQty <= a.minQty}

LEMMA UpToGrows ==
  ASSUME NEW rows \in SUBSET Rungs, IsFiniteSet(rows),
         NEW a \in rows, NEW b \in rows, a.minQty < b.minQty
  PROVE  Cardinality(UpTo(rows, a)) < Cardinality(UpTo(rows, b))
<1>1. \A x \in rows : x.minQty \in Nat
  BY DEF Rungs
<1>2. UpTo(rows, b) \in SUBSET rows /\ IsFiniteSet(UpTo(rows, b))
  BY FS_Subset DEF UpTo
<1>3. UpTo(rows, a) \in SUBSET UpTo(rows, b) /\ b \in UpTo(rows, b) /\ b \notin UpTo(rows, a)
  BY <1>1 DEF UpTo
<1>4. UpTo(rows, a) # UpTo(rows, b)
  BY <1>3
<1>5. /\ Cardinality(UpTo(rows, a)) <= Cardinality(UpTo(rows, b))
      /\ Cardinality(UpTo(rows, b)) # Cardinality(UpTo(rows, a))
      /\ IsFiniteSet(UpTo(rows, a))
  BY <1>2, <1>3, <1>4, FS_Subset
<1>6. Cardinality(UpTo(rows, a)) \in Nat /\ Cardinality(UpTo(rows, b)) \in Nat
  BY <1>2, <1>5, FS_CardinalityType
<1> QED
  BY <1>5, <1>6

LEMMA OrderExists ==
  ASSUME NEW rows \in SUBSET Rungs, IsFiniteSet(rows), Distinct(rows)
  PROVE  \E list \in Bijection(1 .. Cardinality(rows), rows) : Ascending(list)
<1> DEFINE n == Cardinality(rows)
           place == [a \in rows |-> Cardinality(UpTo(rows, a))]
<1>1. n \in Nat
  BY FS_CardinalityType
<1>2. \A x \in rows : x.minQty \in Nat
  BY DEF Rungs
<1>3. ASSUME NEW a \in rows PROVE place[a] \in 1 .. n
  <2>1. UpTo(rows, a) \in SUBSET rows /\ a \in UpTo(rows, a)
    BY <1>2 DEF UpTo
  <2>2. IsFiniteSet(UpTo(rows, a)) /\ Cardinality(UpTo(rows, a)) <= n
    BY <2>1, FS_Subset
  <2>3. Cardinality(UpTo(rows, a)) \in Nat /\ Cardinality(UpTo(rows, a)) # 0
    BY <2>1, <2>2, FS_CardinalityType, FS_EmptySet
  <2> QED
    BY <1>1, <2>2, <2>3
<1>4. \A a, b \in rows : a.minQty < b.minQty => place[a] < place[b]
  BY UpToGrows
<1> HIDE DEF n, place
<1>5. \A a, b \in rows : place[a] = place[b] => a = b
  <2> SUFFICES ASSUME NEW a \in rows, NEW b \in rows, place[a] = place[b], a # b PROVE FALSE
    OBVIOUS
  <2>1. a.minQty < b.minQty \/ b.minQty < a.minQty
    BY <1>2 DEF Distinct
  <2>2. place[a] \in Nat /\ place[b] \in Nat
    BY <1>3
  <2> QED
    BY <1>4, <2>1, <2>2
<1>6. place \in [rows -> 1 .. n]
  BY <1>3 DEF place
<1>7. place \in Injection(rows, 1 .. n)
  BY <1>5, <1>6 DEF Injection, IsInjective
<1>8. IsFiniteSet(1 .. n) /\ Cardinality(1 .. n) = Cardinality(rows)
  BY <1>1, FS_Interval DEF n
<1>9. \A i \in 1 .. n : \E a \in rows : place[a] = i
  <2>1. place \in Surjection(rows, 1 .. n)
    BY <1>7, <1>8, FS_Injection
  <2> QED
    BY <2>1 DEF Surjection
<1> DEFINE list == [i \in 1 .. n |-> CHOOSE a \in rows : place[a] = i]
<1>10. /\ list \in [1 .. n -> rows] /\ DOMAIN list = 1 .. n
       /\ \A i \in 1 .. n : list[i] \in rows /\ place[list[i]] = i
  BY <1>9
<1> HIDE DEF list
<1>11. list \in Bijection(1 .. n, rows)
  <2>1. \A a \in rows : place[a] \in 1 .. n /\ list[place[a]] = a
    BY <1>3, <1>5, <1>10
  <2>2. list \in Surjection(1 .. n, rows)
    BY <1>10, <2>1 DEF Surjection
  <2>3. list \in Injection(1 .. n, rows)
    BY <1>10 DEF Injection, IsInjective
  <2> QED
    BY <2>2, <2>3 DEF Bijection
<1>12. Ascending(list)
  <2> SUFFICES ASSUME NEW i \in 1 .. n, NEW j \in 1 .. n, i < j,
                      ~ (list[i].minQty <= list[j].minQty)
               PROVE  FALSE
    BY <1>10 DEF Ascending
  <2>1. list[j].minQty < list[i].minQty
    BY <1>2, <1>10
  <2>2. place[list[j]] < place[list[i]]
    BY <1>4, <1>10, <2>1
  <2> QED
    BY <1>1, <1>10, <2>2
<1> QED
  BY <1>11, <1>12 DEF n

\* The query gives every row of the cell once, the thresholds ascending.
LEMMA InOrderSorts ==
  ASSUME NEW rows \in SUBSET Rungs, IsFiniteSet(rows), Distinct(rows)
  PROVE  /\ InOrder(rows) \in Seq(Rungs)
         /\ \A i \in 1 .. Len(InOrder(rows)) : InOrder(rows)[i] \in rows
         /\ \A a \in rows : \E i \in 1 .. Len(InOrder(rows)) : InOrder(rows)[i] = a
         /\ \A i, j \in 1 .. Len(InOrder(rows)) :
              i < j => InOrder(rows)[i].minQty < InOrder(rows)[j].minQty
<1> DEFINE n == Cardinality(rows)
           list == InOrder(rows)
<1>1. list \in Bijection(1 .. n, rows) /\ Ascending(list)
  BY OrderExists DEF InOrder
<1>2. n \in Nat
  BY FS_CardinalityType
<1> HIDE DEF n, list
<1>3. /\ list \in [1 .. n -> rows]
      /\ \A i, j \in 1 .. n : list[i] = list[j] => i = j
      /\ \A a \in rows : \E i \in 1 .. n : list[i] = a
  BY <1>1 DEF Bijection, Injection, Surjection, IsInjective
<1>4. list \in Seq(Rungs) /\ Len(list) = n
  BY <1>2, <1>3
<1>5. \A x \in rows : x.minQty \in Nat
  BY DEF Rungs
<1>6. ASSUME NEW i \in 1 .. n, NEW j \in 1 .. n, i < j
      PROVE  list[i].minQty < list[j].minQty
  <2>1. list[i].minQty <= list[j].minQty
    BY <1>1, <1>3, <1>6 DEF Ascending
  <2>2. list[i] # list[j] /\ list[i] \in rows /\ list[j] \in rows
    BY <1>2, <1>3, <1>6
  <2>3. list[i].minQty # list[j].minQty
    BY <2>2 DEF Distinct
  <2> QED
    BY <1>5, <2>1, <2>2, <2>3
<1> QED
  BY <1>3, <1>4, <1>6 DEF list

-----------------------------------------------------------------------------
(* The loop of pickRung.                                                   *)

\* Where the loop of pickRung stops in a ladder sorted by minQty is the rung with
\* the largest minQty that qty has reached; and if the validator has accepted
\* the ladder, there is one for every qty.
THEOREM PickRungIsLargest ==
  ASSUME NEW rungs \in Seq(Rungs), NEW qty \in Nat, NEW i \in 0 .. Len(rungs),
         \A j, k \in 1 .. Len(rungs) : j < k => rungs[j].minQty < rungs[k].minQty,
         Stops(rungs, qty, i)
  PROVE  /\ \A j \in 1 .. Len(rungs) :
              rungs[j].minQty <= qty => j <= i /\ rungs[j].minQty <= rungs[i].minQty
         /\ Accepted(rungs) => i > 0 /\ rungs[i].minQty <= qty
<1>1. \A j \in 1 .. Len(rungs) : rungs[j].minQty \in Nat
  <2>1. \A j \in 1 .. Len(rungs) : rungs[j] \in Rungs
    OBVIOUS
  <2> QED
    BY <2>1 DEF Rungs
<1>2. ASSUME NEW j \in 1 .. Len(rungs), rungs[j].minQty <= qty
      PROVE  j <= i /\ rungs[j].minQty <= rungs[i].minQty
  <2>1. j <= i
    <3> SUFFICES ASSUME j > i PROVE FALSE
      OBVIOUS
    <3>1. i + 1 \in 1 .. Len(rungs) /\ rungs[i + 1].minQty > qty
      BY DEF Stops
    <3>2. i + 1 = j \/ rungs[i + 1].minQty < rungs[j].minQty
      BY <3>1
    <3> QED
      BY <1>1, <1>2, <3>1, <3>2
  <2>2. j = i \/ rungs[j].minQty < rungs[i].minQty
    BY <2>1
  <2> QED
    BY <1>1, <2>1, <2>2
<1>3. ASSUME Accepted(rungs) PROVE i > 0 /\ rungs[i].minQty <= qty
  <2>1. PICK j \in 1 .. Len(rungs) : rungs[j].minQty = 0
    BY <1>3 DEF Accepted
  <2>2. j <= i
    BY <1>2, <2>1
  <2> QED
    BY <2>2 DEF Stops
<1> QED
  BY <1>2, <1>3

\* A set of numbers has a least one.
LEMMA Least ==
  ASSUME NEW S \in SUBSET Nat, S # {}
  PROVE  \E i \in S : \A j \in S : i <= j
<1> DEFINE R == {ss \in Nat \X Nat : ss[1] < ss[2]}
<1>1. IsWellFoundedOn(R, Nat)
  BY NatLessThanWellFounded DEF OpToRel
<1> HIDE DEF R
<1>2. PICK i \in S : \A j \in S : ~ (<<j, i>> \in R)
  BY <1>1, WFMin
<1>3. \A j \in S : ~ (j < i)
  BY <1>2 DEF R
<1> QED
  BY <1>3

\* The loop ends, and where it does is what the CHOOSE of PickRung picks.
LEMMA PickRungStops ==
  ASSUME NEW rungs \in Seq(Rungs), NEW qty \in Nat
  PROVE  PickRung(rungs, qty) \in 0 .. Len(rungs) /\ Stops(rungs, qty, PickRung(rungs, qty))
<1>1. \A j \in 1 .. Len(rungs) : rungs[j].minQty \in Nat
  <2>1. \A j \in 1 .. Len(rungs) : rungs[j] \in Rungs
    OBVIOUS
  <2> QED
    BY <2>1 DEF Rungs
<1>2. \E i \in 0 .. Len(rungs) : Stops(rungs, qty, i)
  <2> DEFINE Above == {j \in 1 .. Len(rungs) : rungs[j].minQty > qty}
  <2>1. CASE Above = {}
    <3>1. \A j \in 1 .. Len(rungs) : rungs[j].minQty <= qty
      BY <1>1, <2>1
    <3>2. Stops(rungs, qty, Len(rungs))
      BY <3>1 DEF Stops
    <3> QED
      BY <3>2
  <2>2. CASE Above # {}
    <3> Above \in SUBSET Nat
      OBVIOUS
    <3> HIDE DEF Above
    <3>1. PICK k \in Above : \A j \in Above : k <= j
      BY <2>2, Least
    <3> USE DEF Above
    <3>2. k \in 1 .. Len(rungs) /\ rungs[k].minQty > qty
      BY <3>1
    <3>3. \A j \in 1 .. k - 1 : rungs[j].minQty <= qty
      BY <1>1, <3>1, <3>2
    <3>4. Stops(rungs, qty, k - 1) /\ k - 1 \in 0 .. Len(rungs)
      BY <3>2, <3>3 DEF Stops
    <3> QED
      BY <3>4
  <2> QED
    BY <2>1, <2>2
<1> QED
  BY <1>2 DEF PickRung

-----------------------------------------------------------------------------
(* The price.                                                              *)

\* resolveCell gives what the two-tier rule asks for: the sell price of the rung with
\* the largest threshold that the volume has reached, and the base if there is none; and
\* a ladder that begins at 0 leaves nothing to the base (rate-resolver.service.ts,
\* resolved-rate.ts).
THEOREM PriceIsTheRule ==
  ASSUME NEW rows \in SUBSET Rungs, IsFiniteSet(rows), Distinct(rows),
         rows = {} \/ (\E a \in rows : a.minQty = 0),
         NEW base, NEW qty \in Nat
  PROVE  /\ IsPrice(ResolveCell(base, rows, qty), base, rows, qty)
         /\ ResolveCell(base, rows, qty).tier = 2 => rows = {}
<1> DEFINE rungs == InOrder(rows)
           i == PickRung(rungs, qty)
           price == ResolveCell(base, rows, qty)
           reached == {r \in rows : r.minQty <= qty}
<1>1. /\ rungs \in Seq(Rungs)
      /\ \A j \in 1 .. Len(rungs) : rungs[j] \in rows
      /\ \A a \in rows : \E j \in 1 .. Len(rungs) : rungs[j] = a
      /\ \A j, k \in 1 .. Len(rungs) : j < k => rungs[j].minQty < rungs[k].minQty
  BY InOrderSorts
<1>2. price = IF base = NoBase THEN [tier |-> 0, sell |-> 0]
              ELSE IF i > 0 THEN [tier |-> 1, sell |-> rungs[i].sell]
              ELSE [tier |-> 2, sell |-> base]
  BY DEF ResolveCell
<1>3. /\ base = NoBase /\ price.tier = 0 => IsPrice(price, base, rows, qty)
      /\ base # NoBase /\ price.tier = 1
           /\ (\E r \in reached : /\ price.sell = r.sell
                                 /\ \A s \in reached : s.minQty <= r.minQty)
         => IsPrice(price, base, rows, qty)
      /\ base # NoBase /\ reached = {} /\ price = [tier |-> 2, sell |-> base]
         => IsPrice(price, base, rows, qty)
  BY DEF IsPrice
<1> SUFFICES IsPrice(price, base, rows, qty) /\ (price.tier = 2 => rows = {})
  OBVIOUS
<1> HIDE DEF rungs, price
<1>4. i \in 0 .. Len(rungs) /\ Stops(rungs, qty, i)
  BY <1>1, PickRungStops
<1> HIDE DEF i
<1>5. \A j \in 1 .. Len(rungs) :
        rungs[j].minQty <= qty => j <= i /\ rungs[j].minQty <= rungs[i].minQty
  BY <1>1, <1>4, PickRungIsLargest
<1>6. CASE base = NoBase
  BY <1>2, <1>3, <1>6
<1>7. CASE base # NoBase /\ i > 0
  <2>1. price.tier = 1 /\ price.sell = rungs[i].sell
    BY <1>2, <1>7
  <2>2. rungs[i] \in reached
    BY <1>1, <1>4, <1>7 DEF Stops
  <2>3. \A s \in reached : s.minQty <= rungs[i].minQty
    BY <1>1, <1>5
  <2>4. \E r \in reached : /\ price.sell = r.sell
                           /\ \A s \in reached : s.minQty <= r.minQty
    BY <2>1, <2>2, <2>3
  <2> HIDE DEF reached
  <2> QED
    BY <1>3, <1>7, <2>1, <2>4
<1>8. CASE base # NoBase /\ ~ i > 0
  <2>1. price = [tier |-> 2, sell |-> base]
    BY <1>2, <1>8
  <2>2. reached = {}
    <3> SUFFICES ASSUME NEW a \in rows, a.minQty <= qty PROVE FALSE
      OBVIOUS
    <3>1. PICK j \in 1 .. Len(rungs) : rungs[j] = a
      BY <1>1
    <3>2. j <= i
      BY <1>5, <3>1
    <3> QED
      BY <1>4, <1>8, <3>2
  <2>3. rows = {}
    BY <2>2
  <2> HIDE DEF reached
  <2> QED
    BY <1>3, <1>8, <2>1, <2>2, <2>3
<1> QED
  BY <1>6, <1>7, <1>8

\* What the validator accepts is a finite ladder, one rung to a threshold, that
\* begins at 0.
LEMMA AcceptedLadder ==
  ASSUME NEW list \in Seq(Rungs), Accepted(list)
  PROVE  /\ ToSet(list) \in SUBSET Rungs /\ IsFiniteSet(ToSet(list))
         /\ Distinct(ToSet(list)) /\ \E a \in ToSet(list) : a.minQty = 0
<1>1. /\ ToSet(list) \in SUBSET Rungs
      /\ list \in [1 .. Len(list) -> ToSet(list)]
      /\ \A a \in ToSet(list) : \E i \in 1 .. Len(list) : list[i] = a
  BY DEF ToSet
<1>2. IsFiniteSet(ToSet(list))
  <2>1. list \in Surjection(1 .. Len(list), ToSet(list))
    BY <1>1 DEF Surjection
  <2>2. IsFiniteSet(1 .. Len(list))
    BY FS_Interval
  <2> QED
    BY <2>1, <2>2, FS_Surjection
<1>3. Distinct(ToSet(list))
  BY <1>1 DEF Distinct, Accepted
<1>4. \E a \in ToSet(list) : a.minQty = 0
  BY <1>1 DEF Accepted
<1> QED
  BY <1>1, <1>2, <1>3, <1>4
=============================================================================
