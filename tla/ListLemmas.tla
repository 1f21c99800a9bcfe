----------------------------- MODULE ListLemmas -----------------------------
(***************************************************************************)
(* What the operators of the library compute on sequences and on sets of   *)
(* numbers, point by point: lemmas for the proofs about the components.    *)
(***************************************************************************)
EXTENDS Integers, SequencesExt, SequenceTheorems, WellFoundedInduction, TLAPS

(* What the library's sequence operators compute, position by position.    *)
LEMMA ConcatPoints ==
  ASSUME NEW M, NEW s \in Seq(M), NEW t \in Seq(M), NEW n, n = Len(s) + Len(t)
  PROVE  s \o t = [k \in 1..n |-> IF k <= Len(s) THEN s[k] ELSE t[k - Len(s)]]
<1> DEFINE w == s \o t
<1>1. w \in Seq(M) /\ Len(w) = n
  BY ConcatProperties
<1>2. \A k \in 1..n : w[k] = IF k <= Len(s) THEN s[k] ELSE t[k - Len(s)]
  BY ConcatProperties
<1> HIDE DEF w
<1>3. w = [k \in 1..n |-> w[k]]
  BY <1>1
<1>4. w = [k \in 1..n |-> IF k <= Len(s) THEN s[k] ELSE t[k - Len(s)]]
  BY <1>2, <1>3
<1> QED
  BY <1>4 DEF w

LEMMA InsertAtPoints ==
  ASSUME NEW M, NEW s \in Seq(M), NEW i \in 1..(Len(s) + 1), NEW m \in M
  PROVE  InsertAt(s, i, m) = [k \in 1..(Len(s) + 1) |->
            IF k < i THEN s[k] ELSE IF k = i THEN m ELSE s[k - 1]]
<1> DEFINE n == Len(s)
           a == SubSeq(s, 1, i - 1)
           z == SubSeq(s, i, n)
           t == <<m>>
           am == a \o t
<1>1. n \in Nat /\ i \in Int /\ 1 <= i /\ i <= n + 1
  OBVIOUS
<1>2. a \in Seq(M) /\ Len(a) = i - 1 /\ \A k \in 1..(i - 1) : a[k] = s[k]
  BY <1>1
<1>3. z \in Seq(M) /\ Len(z) = n - i + 1 /\ \A k \in 1..(n - i + 1) : z[k] = s[i + k - 1]
  BY <1>1
<1>4. am \in Seq(M) /\ Len(am) = i /\ \A k \in 1..i : am[k] = IF k < i THEN s[k] ELSE m
  <2>1. t \in Seq(M) /\ Len(t) = 1 /\ t[1] = m
    OBVIOUS
  <2> HIDE DEF a, t
  <2>2. i = Len(a) + Len(t) /\ a \in Seq(M) /\ t \in Seq(M)
    BY <1>1, <1>2, <2>1
  <2>3. am \in Seq(M) /\ Len(am) = i
    BY <2>2, ConcatProperties
  <2>4. am = [k \in 1..i |-> IF k <= Len(a) THEN a[k] ELSE t[k - Len(a)]]
    BY ONLY <2>2, ConcatPoints
  <2>5. \A k \in 1..i : am[k] = IF k <= i - 1 THEN a[k] ELSE t[k - (i - 1)]
    BY <1>2, <2>4
  <2> HIDE DEF am
  <2>6. \A k \in 1..i : IF k < i THEN k \in 1..(i - 1) /\ k <= i - 1 
                                  ELSE ~(k <= i - 1) /\ k - (i - 1) = 1
    BY <1>1
  <2>7. \A k \in 1..i : am[k] = IF k < i THEN s[k] ELSE m
    BY <1>2, <2>1, <2>5, <2>6
  <2> QED
    BY <2>3, <2>7
<1>5. InsertAt(s, i, m) = am \o z
  BY DEF InsertAt
<1> HIDE DEF n, z, t, am
<1>6. n + 1 = Len(am) + Len(z)
  BY <1>1, <1>3, <1>4
<1>7. am \o z = [k \in 1..(n + 1) |-> IF k <= Len(am) THEN am[k] ELSE z[k - Len(am)]]
  BY ONLY <1>3, <1>4, <1>6, ConcatPoints
<1>8. \A k \in 1..(n + 1) : (IF k <= Len(am) THEN am[k] ELSE z[k - Len(am)])
            = IF k < i THEN s[k] ELSE IF k = i THEN m ELSE s[k - 1]
  <2> SUFFICES ASSUME NEW k \in 1..(n + 1)
               PROVE  (IF k <= i THEN am[k] ELSE z[k - i])
                         = IF k < i THEN s[k] ELSE IF k = i THEN m ELSE s[k - 1]
    BY <1>4
  <2>1. CASE k <= i
    <3>1. k \in 1..i
      BY <1>1, <2>1
    <3> QED
      BY <1>1, <1>4, <2>1, <3>1
  <2>2. CASE k > i
    <3>1. k - i \in 1..(n - i + 1) /\ i + (k - i) - 1 = k - 1
      BY <1>1, <2>2
    <3>2. z[k - i] = s[k - 1]
      BY <1>3, <3>1
    <3> QED
      BY <1>1, <2>2, <3>2
  <2> QED
    BY <1>1, <2>1, <2>2
<1>9. am \o z = [k \in 1..(n + 1) |->
            IF k < i THEN s[k] ELSE IF k = i THEN m ELSE s[k - 1]]
  BY <1>7, <1>8
<1> QED
  BY <1>5, <1>9 DEF n

LEMMA RemoveAtPoints ==
  ASSUME NEW M, NEW s \in Seq(M), NEW i \in 1..Len(s)
  PROVE  RemoveAt(s, i) = [k \in 1..(Len(s) - 1) |->
            IF k < i THEN s[k] ELSE s[k + 1]]
<1> DEFINE n == Len(s)
           a == SubSeq(s, 1, i - 1)
           z == SubSeq(s, i + 1, n)
<1>1. n \in Nat /\ i \in Int /\ 1 <= i /\ i <= n
  OBVIOUS
<1>2. a \in Seq(M) /\ Len(a) = i - 1 /\ \A k \in 1..(i - 1) : a[k] = s[k]
  BY <1>1
<1>3. z \in Seq(M) /\ Len(z) = n - i /\ \A k \in 1..(n - i) : z[k] = s[i + k]
  BY <1>1
<1>4. RemoveAt(s, i) = a \o z
  BY DEF RemoveAt
<1> HIDE DEF n, a, z
<1>5. n - 1 = Len(a) + Len(z)
  BY <1>1, <1>2, <1>3
<1>6. a \o z = [k \in 1..(n - 1) |-> IF k <= Len(a) THEN a[k] ELSE z[k - Len(a)]]
  <2>1. a \in Seq(M) /\ z \in Seq(M)
    BY <1>2, <1>3
  <2> QED
    BY ONLY <2>1, <1>5, ConcatPoints
<1>7. \A k \in 1..(n - 1) : (IF k <= Len(a) THEN a[k] ELSE z[k - Len(a)])
            = IF k < i THEN s[k] ELSE s[k + 1]
  <2> SUFFICES ASSUME NEW k \in 1..(n - 1)
               PROVE  (IF k <= i - 1 THEN a[k] ELSE z[k - (i - 1)])
                         = IF k < i THEN s[k] ELSE s[k + 1]
    BY <1>2
  <2>1. CASE k < i
    BY <1>1, <1>2, <2>1
  <2>2. CASE ~(k < i)
    <3>1. k - (i - 1) \in 1..(n - i) /\ i + (k - (i - 1)) = k + 1
      BY <1>1, <2>2
    <3>2. z[k - (i - 1)] = s[k + 1]
      BY <1>3, <3>1
    <3> QED
      BY <1>1, <2>2, <3>2
  <2> QED
    BY <2>1, <2>2
<1>8. a \o z = [k \in 1..(n - 1) |-> IF k < i THEN s[k] ELSE s[k + 1]]
  BY <1>6, <1>7
<1> QED
  BY <1>4, <1>8 DEF n

(* A set of natural numbers has a minimum.                                 *)
LEMMA MinOfNaturals ==
  ASSUME NEW S \in SUBSET Nat, S # {}
  PROVE  Min(S) \in S /\ \A x \in S : Min(S) <= x
<1> DEFINE R == OpToRel(<, Nat)
<1>1. \A x, y \in Nat : x < y => <<x, y>> \in R
  BY DEF OpToRel
<1>2. IsWellFoundedOn(R, Nat)
  BY NatLessThanWellFounded
<1> HIDE DEF R
<1>3. PICK m \in S : \A x \in S : ~(<<x, m>> \in R)
  BY <1>2, WFMin
<1>4. ASSUME NEW x \in S PROVE m <= x
  <2>1. m \in Nat /\ x \in Nat
    OBVIOUS
  <2>2. ~(x < m)
    BY <1>1, <1>3, <2>1
  <2> QED
    BY <2>1, <2>2
<1> QED
  BY <1>4 DEF Min

LEMMA MinOfTwo ==
  ASSUME NEW a \in Int, NEW b \in Int
  PROVE  Min({a, b}) = IF a <= b THEN a ELSE b
<1> DEFINE x == IF a <= b THEN a ELSE b
<1>1. x \in {a, b} /\ \A y \in {a, b} : x <= y
  OBVIOUS
<1>2. \A z \in {a, b} : (\A y \in {a, b} : z <= y) => z = x
  OBVIOUS
<1> HIDE DEF x
<1>3. Min({a, b}) = x
  BY <1>1, <1>2 DEF Min
<1> QED
  BY <1>3 DEF x

(* A sequence whose length is bounded.                                     *)
LEMMA BoundedSeqPoints ==
  ASSUME NEW S, NEW n \in Nat, NEW f
  PROVE  f \in BoundedSeq(S, n) <=> f \in Seq(S) /\ Len(f) <= n
<1>1. f \in BoundedSeq(S, n) <=> \E k \in 0..n : f \in [1..k -> S]
  BY DEF BoundedSeq, SeqOf
<1>2. ASSUME NEW k \in 0..n, f \in [1..k -> S]
      PROVE  f \in Seq(S) /\ Len(f) <= n
  BY <1>2
<1>3. ASSUME f \in Seq(S), Len(f) <= n
      PROVE  Len(f) \in 0..n /\ f \in [1..Len(f) -> S]
  BY <1>3
<1> QED
  BY <1>1, <1>2, <1>3
=============================================================================
