------------------------ MODULE PairingAlgebraProofs ------------------------
(***************************************************************************)
(* Proofs about PairingAlgebra for any group order, hashes, blocks, keys   *)
(* and coefficients: the types, what the tag operators promise, and that   *)
(* an honest audit is accepted; and, in a group of prime order, that one   *)
(* faulty block is never hidden.                                           *)
(***************************************************************************)
EXTENDS PairingAlgebra, FiniteSetTheorems, TLAPS

AllHonest == \A j \in DOMAIN Items : Honest(Items[j])

(* What one honest item and what all of them contribute to Theta.          *)
Signature(a, u, x, s) == (x + u * s) * a
Exponent(a, g, u, h, m) == a * g * (h + u * m)

Expected(h) == Exponent(keys.a, keys.g, keys.u, h, M)

ItemHash(item) == computeBlockHash(item.blockIndex, item.metadata) * item.nu

(* Every tag is the signature of what it was made from.                    *)
TagsSigned ==
  \A i \in BlockIndex : tags[i] = IF made[i] = Null THEN Null
                                  ELSE Sigma(i, made[i][1], made[i][2])

NoTags == \A i \in BlockIndex : made[i] = Null /\ tags[i] = Null

(* The history variable is the running sum of the weighted hashes.         *)
RunningSum ==
  /\ Len(hashSum) > 0 /\ hashSum[1] = 0
  /\ \A j \in 1..(Len(hashSum) - 1) :
       j \in DOMAIN Items /\ hashSum[j + 1] = hashSum[j] + ItemHash(Items[j])

Blinded == challenge.R = keys.y * challenge.r

Unstarted == /\ hashSum = <<0>> /\ k = 1 /\ Theta = 0 /\ M = 0 /\ H = 0
             /\ Items = << >> /\ challenge.R = 0 /\ aggregate = 0

Proving == /\ k \in 1..(Len(Items) + 1) /\ Len(hashSum) = k
           /\ Blinded /\ H = 0
           /\ AllHonest => /\ Theta = Expected(hashSum[k])
                           /\ k > 1 => accumulated

Verifying == /\ k \in 1..(Len(Items) + 1) /\ Len(hashSum) = Len(Items) + 1
             /\ Blinded /\ H = hashSum[k]
             /\ Lambda = keys.u * challenge.R * M
             /\ AllHonest => Theta = Expected(hashSum[Len(Items) + 1])

IInv == /\ TypeOK /\ TagsSigned /\ RunningSum /\ AggregateAgrees
        /\ pc \in {"keys", "tags"} => NoTags
        /\ pc \in {"keys", "tags", "challenge"} => Unstarted
        /\ pc = "prove" => Proving
        /\ pc = "verify" => Verifying
        /\ pc = "done" => Complete

-----------------------------------------------------------------------------
(* The identities of polynomials behind the steps.                         *)

Accumulates(a, g, u, h, m, x, s, nu) ==
  Exponent(a, g, u, h, m) + Signature(a, u, x, s) * g * nu
    = Exponent(a, g, u, h + x * nu, m + nu * s)

LEMMA AccumulateIdentity ==
  ASSUME NEW a \in Int, NEW g \in Int, NEW u \in Int, NEW h \in Int, NEW m \in Int,
         NEW x \in Int, NEW s \in Int, NEW nu \in Int
  PROVE  Accumulates(a, g, u, h, m, x, s, nu)
BY Z3 DEF Accumulates, Exponent, Signature

Balances(a, g, u, h, m, r) ==
  Exponent(a, g, u, h, m) * r = u * (g * a * r) * m + h * (g * a * r)

LEMMA CompareIdentity ==
  ASSUME NEW a \in Int, NEW g \in Int, NEW u \in Int, NEW h \in Int, NEW m \in Int, NEW r \in Int
  PROVE  Balances(a, g, u, h, m, r)
BY Z3 DEF Balances, Exponent

LEMMA AggregateIdentity ==
  ASSUME NEW x \in Int, NEW s \in Int, NEW g \in Int, NEW nu \in Int
  PROVE  x * g + s * g * nu = (x + s * nu) * g
BY Z3

LEMMA SameReflexive == \A x \in Int : Same(x, x)
BY OrderAssumption DEF Same

-----------------------------------------------------------------------------
(* Types of the values the steps compute with.                             *)

LEMMA HashType == \A i \in BlockIndex, x \in Metadata : computeBlockHash(i, x) \in Int
BY HashAssumption DEF computeBlockHash

LEMMA NonZeroType ==
  /\ \A x \in NonZeroRandom(KeyBytes) : x \in Int /\ x > 0
  /\ \A x \in NonZeroRandom(CoeffBytes) : x \in Int
BY ScalarAssumption DEF NonZeroRandom

LEMMA ItemType ==
  ASSUME NEW item \in ItemSet
  PROVE  /\ item.blockIndex \in BlockIndex /\ item.metadata \in Metadata
         /\ item.nu \in Int
         /\ computeBlockHash(item.blockIndex, item.metadata) \in Int
         /\ ItemHash(item) \in Int
<1>1. /\ item.blockIndex \in BlockIndex /\ item.metadata \in Metadata
      /\ item.nu \in NonZeroRandom(CoeffBytes)
  BY DEF ItemSet
<1>2. item.nu \in Int
  BY <1>1, NonZeroType
<1>3. computeBlockHash(item.blockIndex, item.metadata) \in Int
  BY <1>1, HashType
<1> QED
  BY <1>1, <1>2, <1>3 DEF ItemHash

LEMMA SigmaType ==
  ASSUME TypeOK, NEW i \in BlockIndex, NEW x \in Metadata, NEW s \in BlockScalar
  PROVE  Sigma(i, x, s) \in Int
<1>1. computeBlockHash(i, x) \in Int /\ s \in Int
  BY HashType, ScalarAssumption
<1>2. keys.a \in Int /\ keys.u \in Int
  BY DEF TypeOK
<1> QED
  BY <1>1, <1>2 DEF Sigma, TagTimes, TagPlus

-----------------------------------------------------------------------------
(* The initial states and every step keep the invariant.                   *)

LEMMA InitOK == Init => IInv
<1> SUFFICES ASSUME Init PROVE IInv
  OBVIOUS
<1>1. TypeOK
  <2>1. << >> \in Seq(ItemSet) /\ <<0>> \in Seq(Int)
    OBVIOUS
  <2>2. keys \in [a : Int, g : Int, y : Int, u : Int]
    BY DEF Init
  <2>3. challenge \in [items : Seq(ItemSet), r : Int, R : Int]
    BY <2>1 DEF Init
  <2>4. blocks \in [BlockIndex -> Int]
    BY DEF Init
  <2> QED
    BY <2>1, <2>2, <2>3, <2>4 DEF Init, TypeOK, TagInfinity
<1>2. Unstarted
  BY DEF Init, Unstarted, Items, TagInfinity
<1>3. TagsSigned
  BY DEF Init, TagsSigned
<1>4. RunningSum
  BY DEF Init, RunningSum
<1>5. AggregateAgrees
  BY DEF Init, AggregateAgrees, TagInfinity, Pairing
<1>6. NoTags
  BY DEF Init, NoTags
<1> QED
  BY <1>1, <1>2, <1>3, <1>4, <1>5, <1>6 DEF IInv, Init

LEMMA KeysStep == IInv /\ generateKeys => IInv'
<1> SUFFICES ASSUME IInv, generateKeys PROVE IInv'
  OBVIOUS
<1> USE DEF generateKeys, prover, setup
<1>1. PICK a, r, rPrime \in NonZeroRandom(KeyBytes) :
        keys' = [a |-> a, g |-> r, y |-> r * a, u |-> rPrime]
  OBVIOUS
<1>2. a \in Int /\ a > 0 /\ r \in Int /\ r > 0 /\ rPrime \in Int /\ rPrime > 0
  BY NonZeroType
<1>3. TypeOK'
  <2>1. /\ keys' \in [a : Int, g : Int, y : Int, u : Int]
        /\ keys'.a > 0 /\ keys'.g > 0 /\ keys'.u > 0 /\ keys'.y = keys'.g * keys'.a
    BY <1>1, <1>2
  <2> QED
    BY <2>1 DEF IInv, TypeOK
<1>4. Unstarted /\ Unstarted'
  BY DEF IInv, Unstarted, Items
<1>5. NoTags' /\ TagsSigned'
  BY DEF IInv, NoTags, TagsSigned
<1>6. RunningSum'
  BY <1>4 DEF RunningSum, Unstarted
<1>7. AggregateAgrees'
  <2>1. keys'.g \in Int /\ Theta' = 0 /\ aggregate' = 0
    BY <1>3, <1>4 DEF TypeOK, Unstarted
  <2> QED
    BY <2>1 DEF AggregateAgrees, Pairing
<1> QED
  BY <1>3, <1>4, <1>5, <1>6, <1>7 DEF IInv

LEMMA TagsStep == IInv /\ generateTags => IInv'
<1> SUFFICES ASSUME IInv, generateTags PROVE IInv'
  OBVIOUS
<1>1. TypeOK /\ Unstarted /\ AggregateAgrees /\ RunningSum /\ pc = "tags"
  BY DEF IInv, generateTags
<1>2. /\ made' \in [BlockIndex -> (Metadata \X BlockScalar) \cup {Null}]
      /\ tags' = [i \in BlockIndex |-> IF made'[i] = Null THEN Null
                                       ELSE Sigma(i, made'[i][1], made'[i][2])]
      /\ blocks' \in [BlockIndex -> BlockScalar]
      /\ pc' = "challenge"
  BY DEF generateTags
<1>3. UNCHANGED <<keys, challenge, prover, k, H, verdict, hashSum, aggregate>>
  BY DEF generateTags
<1>4. ASSUME NEW i \in BlockIndex, made'[i] # Null
      PROVE  Sigma(i, made'[i][1], made'[i][2]) \in Int
  <2>1. made'[i][1] \in Metadata /\ made'[i][2] \in BlockScalar
    BY <1>2, <1>4
  <2> QED
    BY <1>1, <2>1, SigmaType
<1>5. TypeOK'
  <2>1. tags' \in [BlockIndex -> Int \cup {Null}]
    BY <1>2, <1>4
  <2>2. blocks' \in [BlockIndex -> Int]
    <3>1. BlockScalar \subseteq Int
      BY ScalarAssumption
    <3> QED
      BY <1>2, <3>1
  <2> QED
    BY <1>1, <1>2, <1>3, <2>1, <2>2 DEF TypeOK, prover
<1>6. TagsSigned'
  BY <1>2, <1>3 DEF TagsSigned, Sigma
<1>7. Unstarted' /\ RunningSum' /\ AggregateAgrees'
  BY <1>1, <1>3 DEF Unstarted, RunningSum, AggregateAgrees, Items, prover
<1> QED
  BY <1>2, <1>5, <1>6, <1>7 DEF IInv

LEMMA ChallengeStep == IInv /\ generateChallenges => IInv'
<1> SUFFICES ASSUME IInv, generateChallenges PROVE IInv'
  OBVIOUS
<1>1. TypeOK /\ Unstarted /\ AggregateAgrees /\ TagsSigned /\ pc = "challenge"
  BY DEF IInv, generateChallenges
<1>2. /\ pc' = "prove" /\ k' = 1
      /\ UNCHANGED <<keys, tags, blocks, made, prover, H, verdict, hashSum, aggregate>>
  BY DEF generateChallenges
<1> DEFINE Drawn(items, r) == challenge' = [items |-> items, r |-> r, R |-> keys.y * r]
<1>n. PICK n \in 1..Cardinality(BlockIndex) :
        \E items \in [1..n -> ItemSet] : \E r \in NonZeroRandom(KeyBytes) : Drawn(items, r)
  BY DEF generateChallenges
<1>i. PICK items \in [1..n -> ItemSet] : \E r \in NonZeroRandom(KeyBytes) : Drawn(items, r)
  BY <1>n
<1>3. PICK r \in NonZeroRandom(KeyBytes) : Drawn(items, r)
  BY <1>i
<1>4. items \in Seq(ItemSet) /\ r \in Int /\ keys.y \in Int /\ keys.y * r \in Int
  <2>1. Cardinality(BlockIndex) \in Nat
    BY FileAssumption, FS_CardinalityType
  <2>2. n \in Nat
    BY <2>1
  <2>3. items \in Seq(ItemSet)
    BY <2>2
  <2>4. r \in Int
    BY NonZeroType
  <2>5. keys.y \in Int
    BY <1>1 DEF TypeOK
  <2> QED
    BY <2>3, <2>4, <2>5
<1>5. TypeOK'
  <2>1. challenge' \in [items : Seq(ItemSet), r : Int, R : Int]
    BY <1>3, <1>4
  <2> QED
    BY <1>1, <1>2, <2>1 DEF TypeOK, prover
<1>6. TagsSigned'
  BY <1>1, <1>2 DEF TagsSigned, Sigma
<1>7. RunningSum' /\ AggregateAgrees'
  <2>1. hashSum' = <<0>>
    BY <1>1, <1>2 DEF Unstarted
  <2>2. Len(hashSum') = 1 /\ hashSum'[1] = 0
    BY <2>1
  <2>3. RunningSum'
    BY <2>2 DEF RunningSum
  <2>4. AggregateAgrees'
    BY <1>1, <1>2 DEF AggregateAgrees, prover
  <2> QED
    BY <2>3, <2>4
<1>8. Proving'
  <2>1. Blinded' /\ H' = 0
    BY <1>1, <1>2, <1>3 DEF Unstarted, Blinded
  <2>2. k' = 1 /\ Len(hashSum') = 1 /\ hashSum'[1] = 0
    BY <1>1, <1>2 DEF Unstarted
  <2>3. k' \in 1..(Len(Items') + 1)
    <3>1. Items' = items /\ Len(items) \in Nat
      BY <1>3, <1>4 DEF Items
    <3> QED
      BY <2>2, <3>1
  <2>4. Theta' = Exponent(keys'.a, keys'.g, keys'.u, hashSum'[k'], M')
    <3>1. keys.a \in Int /\ keys.g \in Int /\ keys.u \in Int /\ Theta' = 0 /\ M' = 0
      BY <1>1, <1>2 DEF TypeOK, Unstarted, prover
    <3>2. keys.u * 0 = 0 /\ keys.a * keys.g * 0 = 0
      BY <3>1
    <3> QED
      BY <1>2, <2>2, <3>1, <3>2 DEF Exponent
  <2> QED
    BY <2>1, <2>2, <2>3, <2>4 DEF Proving, Expected
<1> QED
  BY <1>2, <1>5, <1>6, <1>7, <1>8 DEF IInv

(* What both kinds of item do to the history.                              *)
LEMMA HashStep ==
  ASSUME IInv, pc = "prove", k \in DOMAIN Items, NextHashSum, UNCHANGED setup
  PROVE  /\ Items' = Items /\ Item \in ItemSet /\ hashSum[k] \in Int
         /\ k \in 1..Len(Items) /\ Len(Items) \in Nat
         /\ hashSum' \in Seq(Int) /\ RunningSum' /\ Len(hashSum') = k + 1
         /\ hashSum'[k + 1] = hashSum[k] + ItemHash(Item)
         /\ TagsSigned' /\ Blinded' /\ (AllHonest' <=> AllHonest)
<1>1. TypeOK /\ TagsSigned /\ RunningSum /\ Proving
  BY DEF IInv
<1>2. Items \in Seq(ItemSet) /\ k \in 1..Len(Items) /\ Len(Items) \in Nat
  <2>1. Items \in Seq(ItemSet)
    BY <1>1 DEF TypeOK, Items
  <2> QED
    BY <2>1
<1>3. Item \in ItemSet /\ Items' = Items
  BY <1>2 DEF Item, Items, setup
<1>4. hashSum \in Seq(Int) /\ Len(hashSum) = k /\ hashSum[k] \in Int
  <2>1. hashSum \in Seq(Int) /\ Len(hashSum) = k
    BY <1>1 DEF TypeOK, Proving
  <2> QED
    BY <1>2, <2>1
<1>5. hashSum' = Append(hashSum, hashSum[k] + ItemHash(Item)) /\ ItemHash(Item) \in Int
  BY <1>3, ItemType DEF NextHashSum, ItemHash
<1>6. /\ hashSum' \in Seq(Int) /\ Len(hashSum') = k + 1
      /\ hashSum'[k + 1] = hashSum[k] + ItemHash(Item)
      /\ \A j \in 1..k : hashSum'[j] = hashSum[j]
  BY <1>2, <1>4, <1>5
<1>7. RunningSum'
  <2>1. ASSUME NEW j \in 1..k
        PROVE  j \in DOMAIN Items /\ hashSum'[j + 1] = hashSum'[j] + ItemHash(Items[j])
    <3>1. CASE j = k
      BY <1>2, <1>6, <3>1 DEF Item
    <3>2. CASE j # k
      <4>1. j \in 1..(Len(hashSum) - 1) /\ j + 1 \in 1..k
        BY <1>2, <1>4, <3>2
      <4> QED
        BY <1>1, <1>6, <4>1 DEF RunningSum
    <3> QED
      BY <3>1, <3>2
  <2>2. Len(hashSum') > 0 /\ hashSum'[1] = 0
    BY <1>1, <1>2, <1>6 DEF RunningSum
  <2>3. Len(hashSum') - 1 = k
    BY <1>2, <1>6
  <2> QED
    BY <1>3, <2>1, <2>2, <2>3 DEF RunningSum, ItemHash, computeBlockHash
<1>8. TagsSigned' /\ Blinded'
  BY <1>1 DEF setup, TagsSigned, Sigma, Proving, Blinded
<1>9. AllHonest' <=> AllHonest
  BY <1>3 DEF AllHonest, Honest, Skipped, setup, isInfinity, Same
<1> QED
  BY <1>2, <1>3, <1>4, <1>6, <1>7, <1>8, <1>9

LEMMA SkipStep == IInv /\ SkipItem => IInv'
<1> SUFFICES ASSUME IInv, SkipItem PROVE IInv'
  OBVIOUS
<1>1. /\ pc = "prove" /\ k \in DOMAIN Items /\ NextHashSum /\ k' = k + 1
      /\ Skipped(Item.blockIndex)
      /\ UNCHANGED <<setup, prover, pc, H, verdict, aggregate>>
  BY DEF SkipItem
<1>2. TypeOK /\ AggregateAgrees /\ Proving
  BY <1>1 DEF IInv
<1>3. /\ Items' = Items /\ k \in 1..Len(Items) /\ Len(Items) \in Nat
      /\ hashSum' \in Seq(Int) /\ RunningSum' /\ Len(hashSum') = k + 1
      /\ TagsSigned' /\ Blinded' /\ (AllHonest' <=> AllHonest)
  BY <1>1, HashStep
<1>4. TypeOK'
  <2>1. k' \in Nat
    BY <1>1, <1>3
  <2> QED
    BY <1>1, <1>2, <1>3, <2>1 DEF TypeOK, setup, prover
<1>5. AggregateAgrees'
  BY <1>1, <1>2 DEF AggregateAgrees, setup, prover
<1>6. ~AllHonest
  BY <1>1 DEF AllHonest, Honest, Item
<1>7. Proving'
  BY <1>1, <1>2, <1>3, <1>6 DEF Proving
<1> QED
  BY <1>1, <1>3, <1>4, <1>5, <1>7 DEF IInv

LEMMA AccumulateStep == IInv /\ AccumulateItem => IInv'
<1> SUFFICES ASSUME IInv, AccumulateItem PROVE IInv'
  OBVIOUS
<1> DEFINE i == Item.blockIndex
           sigma == tags[i]
           nu == Item.nu
<1>1. /\ pc = "prove" /\ k \in DOMAIN Items /\ NextHashSum /\ k' = k + 1
      /\ ~Skipped(i) /\ accumulated' = TRUE
      /\ UNCHANGED <<setup, Lambda, pc, H, verdict>>
  BY DEF AccumulateItem
<1>2. /\ Theta' = Theta + sigma * keys.g * nu /\ M' = M + nu * blocks[i]
      /\ aggregate' = aggregate + sigma * nu
  BY DEF AccumulateItem, Pairing, TagPlus, TagTimes
<1>3. TypeOK /\ AggregateAgrees /\ Proving /\ TagsSigned
  BY <1>1 DEF IInv
<1>4. /\ Items' = Items /\ Item \in ItemSet /\ hashSum[k] \in Int
      /\ k \in 1..Len(Items) /\ Len(Items) \in Nat
      /\ hashSum' \in Seq(Int) /\ RunningSum' /\ Len(hashSum') = k + 1
      /\ hashSum'[k + 1] = hashSum[k] + ItemHash(Item)
      /\ TagsSigned' /\ Blinded' /\ (AllHonest' <=> AllHonest)
  BY <1>1, HashStep
<1>5. /\ i \in BlockIndex /\ nu \in Int /\ Item.metadata \in Metadata
      /\ computeBlockHash(i, Item.metadata) \in Int
  BY <1>4, ItemType
<1>6. sigma \in Int /\ blocks[i] \in Int
  BY <1>1, <1>3, <1>5 DEF TypeOK, Skipped
<1>7. keys.a \in Int /\ keys.g \in Int /\ keys.u \in Int
  BY <1>3 DEF TypeOK
<1>8. Theta \in Int /\ M \in Int /\ aggregate \in Int
  BY <1>3 DEF TypeOK
<1>9. Theta' \in Int /\ M' \in Int /\ aggregate' \in Int /\ keys' = keys
  BY <1>1, <1>2, <1>5, <1>6, <1>7, <1>8 DEF setup
<1>10. TypeOK'
  <2>1. k' \in Nat
    BY <1>1, <1>4
  <2> QED
    BY <1>1, <1>3, <1>4, <1>9, <2>1 DEF TypeOK, setup
<1>11. AggregateAgrees'
  <2>1. Theta = aggregate * keys.g
    BY <1>3 DEF AggregateAgrees, Pairing
  <2>2. Theta' = (aggregate + sigma * nu) * keys.g
    BY <1>2, <1>5, <1>6, <1>7, <1>8, <2>1, AggregateIdentity
  <2> QED
    BY <1>2, <1>9, <2>2 DEF AggregateAgrees, Pairing
<1>12. ASSUME AllHonest
       PROVE  Theta' = Exponent(keys.a, keys.g, keys.u, hashSum'[k + 1], M')
  <2> DEFINE x == computeBlockHash(i, Item.metadata)
             s == blocks[i]
  <2>1. made[i] = <<Item.metadata, s>>
    BY <1>1, <1>12 DEF AllHonest, Honest, Item
  <2>2. sigma = Signature(keys.a, keys.u, x, s)
    <3>1. made[i] # Null
      BY <1>1, <1>3, <1>5 DEF Skipped, TagsSigned
    <3>2. sigma = Sigma(i, made[i][1], made[i][2])
      BY <1>3, <1>5, <3>1 DEF TagsSigned
    <3> QED
      BY <2>1, <3>2 DEF Sigma, TagTimes, TagPlus, Signature
  <2>3. Theta = Exponent(keys.a, keys.g, keys.u, hashSum[k], M)
    BY <1>3, <1>12 DEF Proving, Expected
  <2>4. Theta' = Exponent(keys.a, keys.g, keys.u, hashSum[k], M)
                   + Signature(keys.a, keys.u, x, s) * keys.g * nu
    BY <1>2, <2>2, <2>3
  <2>5. hashSum'[k + 1] = hashSum[k] + x * nu /\ M' = M + nu * s
    BY <1>2, <1>4 DEF ItemHash
  <2>6. x \in Int /\ s \in Int
    BY <1>5, <1>6
  <2>7. Accumulates(keys.a, keys.g, keys.u, hashSum[k], M, x, s, nu)
    <3>1. hashSum[k] \in Int /\ M \in Int /\ nu \in Int
      BY <1>4, <1>5, <1>8
    <3> HIDE DEF x, s, nu
    <3> QED
      BY <1>7, <2>6, <3>1, AccumulateIdentity
  <2> QED
    BY <2>4, <2>5, <2>7 DEF Accumulates
<1>13. Proving'
  BY <1>1, <1>3, <1>4, <1>9, <1>12 DEF Proving, Expected
<1> QED
  BY <1>1, <1>4, <1>10, <1>11, <1>13 DEF IInv

(* From the last item on nothing that Complete looks at changes.           *)
LEMMA Settled ==
  ASSUME UNCHANGED <<setup, hashSum>>
  PROVE  /\ Items' = Items /\ (AllHonest' <=> AllHonest)
         /\ (TagsSigned' <=> TagsSigned) /\ (RunningSum' <=> RunningSum)
         /\ (Blinded' <=> Blinded)
<1> USE DEF setup
<1>1. Items' = Items
  BY DEF Items
<1>2. AllHonest' <=> AllHonest
  BY <1>1 DEF AllHonest, Honest, Skipped, isInfinity, Same
<1>3. TagsSigned' <=> TagsSigned
  BY DEF TagsSigned, Sigma
<1>4. RunningSum' <=> RunningSum
  BY <1>1 DEF RunningSum, ItemHash, computeBlockHash
<1>5. Blinded' <=> Blinded
  BY DEF Blinded
<1> QED
  BY <1>1, <1>2, <1>3, <1>4, <1>5

LEMMA SealStep == IInv /\ SealProof => IInv'
<1> SUFFICES ASSUME IInv, SealProof PROVE IInv'
  OBVIOUS
<1>1. /\ pc = "prove" /\ k \notin DOMAIN Items /\ k' = 1
      /\ UNCHANGED <<setup, Theta, M, accumulated, H, hashSum, aggregate>>
  BY DEF SealProof
<1>2. TypeOK /\ TagsSigned /\ RunningSum /\ AggregateAgrees /\ Proving
  BY <1>1 DEF IInv
<1>3. /\ Items' = Items /\ (AllHonest' <=> AllHonest)
      /\ TagsSigned' /\ RunningSum' /\ Blinded'
  BY <1>1, <1>2, Settled DEF Proving
<1>4. Len(Items) \in Nat /\ k = Len(Items) + 1 /\ (Items # << >> => k > 1)
  <2>1. Items \in Seq(ItemSet)
    BY <1>2 DEF TypeOK, Items
  <2> QED
    BY <1>1, <1>2, <2>1 DEF Proving
<1>5. AggregateAgrees'
  BY <1>1, <1>2 DEF AggregateAgrees, setup
<1>6. keys.u \in Int /\ challenge.R \in Int /\ M \in Int
  BY <1>2 DEF TypeOK
<1>7. CASE accumulated /\ Pairable(keys.u, challenge.R)
  <2>1. pc' = "verify" /\ Lambda' = keys.u * challenge.R * M /\ verdict' = verdict
    BY <1>7 DEF SealProof, Pairing
  <2>2. Lambda' \in Int
    BY <1>6, <2>1
  <2>3. TypeOK'
    BY <1>1, <1>2, <2>1, <2>2 DEF TypeOK, setup
  <2>4. Verifying'
    <3>1. k' \in 1..(Len(Items') + 1) /\ Len(hashSum') = Len(Items') + 1 /\ H' = hashSum'[k']
      BY <1>1, <1>2, <1>3, <1>4 DEF Proving, RunningSum
    <3>2. Lambda' = keys'.u * challenge'.R * M'
      BY <1>1, <2>1 DEF setup
    <3>3. AllHonest' =>
               Theta' = Exponent(keys'.a, keys'.g, keys'.u, hashSum'[Len(Items') + 1], M')
      BY <1>1, <1>2, <1>3, <1>4 DEF Proving, Expected, setup
    <3> QED
      BY <1>3, <3>1, <3>2, <3>3 DEF Verifying, Expected
  <2> QED
    BY <1>3, <1>5, <2>1, <2>3, <2>4 DEF IInv
<1>8. CASE ~(accumulated /\ Pairable(keys.u, challenge.R))
  <2>1. pc' = "done" /\ verdict' = "no proof" /\ Lambda' = Lambda
    BY <1>8 DEF SealProof
  <2>2. TypeOK'
    BY <1>1, <1>2, <2>1 DEF TypeOK, setup
  <2>3. Complete'
    <3>1. Pairable(keys'.u, challenge'.R) <=> Pairable(keys.u, challenge.R)
      BY <1>1 DEF setup
    <3>2. AllHonest /\ Items # << >> => accumulated
      BY <1>2, <1>4 DEF Proving
    <3> QED
      BY <1>3, <1>8, <3>1, <3>2 DEF Complete, AllHonest
  <2> QED
    BY <1>3, <1>5, <2>1, <2>2, <2>3 DEF IInv
<1> QED
  BY <1>7, <1>8

LEMMA HashItemStep == IInv /\ HashItem => IInv'
<1> SUFFICES ASSUME IInv, HashItem PROVE IInv'
  OBVIOUS
<1>1. /\ pc = "verify" /\ k \in DOMAIN Items /\ k' = k + 1
      /\ H' = H + ItemHash(Item)
      /\ UNCHANGED <<setup, prover, pc, verdict, hashSum, aggregate>>
  BY DEF HashItem, ItemHash
<1>2. TypeOK /\ TagsSigned /\ RunningSum /\ AggregateAgrees /\ Verifying
  BY <1>1 DEF IInv
<1>3. /\ Items' = Items /\ (AllHonest' <=> AllHonest)
      /\ TagsSigned' /\ RunningSum' /\ Blinded'
  BY <1>1, <1>2, Settled DEF Verifying
<1>4. /\ Items \in Seq(ItemSet) /\ k \in 1..Len(Items) /\ Len(Items) \in Nat
  <2>1. Items \in Seq(ItemSet)
    BY <1>2 DEF TypeOK, Items
  <2> QED
    BY <1>1, <2>1
<1>5. Item \in ItemSet
  BY <1>4 DEF Item
<1>6. ItemHash(Item) \in Int
  BY <1>5, ItemType
<1>7. TypeOK'
  <2>1. H' \in Int /\ k' \in Nat
    <3>1. H \in Int
      BY <1>2 DEF TypeOK
    <3> QED
      BY <1>1, <1>4, <1>6, <3>1
  <2> QED
    BY <1>1, <1>2, <2>1 DEF TypeOK, setup, prover
<1>8. AggregateAgrees'
  BY <1>1, <1>2 DEF AggregateAgrees, setup, prover
<1>9. Verifying'
  <2>1. k \in 1..(Len(hashSum) - 1) /\ k' \in 1..(Len(Items') + 1)
    BY <1>1, <1>2, <1>3, <1>4 DEF Verifying
  <2>2. H' = hashSum'[k']
    BY <1>1, <1>2, <2>1 DEF Verifying, RunningSum, Item
  <2>3. Lambda' = keys'.u * challenge'.R * M'
    BY <1>1, <1>2 DEF Verifying, setup, prover
  <2>4. AllHonest' =>
             Theta' = Exponent(keys'.a, keys'.g, keys'.u, hashSum'[Len(Items') + 1], M')
    BY <1>1, <1>2, <1>3 DEF Verifying, Expected, setup, prover
  <2> QED
    BY <1>1, <1>2, <1>3, <2>1, <2>2, <2>3, <2>4 DEF Verifying, Expected
<1> QED
  BY <1>1, <1>3, <1>7, <1>8, <1>9 DEF IInv

LEMMA CompareStep == IInv /\ Compare => IInv'
<1> SUFFICES ASSUME IInv, Compare PROVE IInv'
  OBVIOUS
<1>1. /\ pc = "verify" /\ k \notin DOMAIN Items /\ pc' = "done"
      /\ UNCHANGED <<setup, prover, k, H, hashSum, aggregate>>
  BY DEF Compare
<1>2. verdict' = IF /\ Pairable(H, challenge.R)
                    /\ Same(Theta * challenge.r, Lambda + H * challenge.R)
                 THEN "ok" ELSE "rejected"
  BY DEF Compare, Pairing
<1>3. TypeOK /\ TagsSigned /\ RunningSum /\ AggregateAgrees /\ Verifying
  BY <1>1 DEF IInv
<1>4. /\ Items' = Items /\ (AllHonest' <=> AllHonest) /\ TagsSigned' /\ RunningSum'
  BY <1>1, <1>3, Settled DEF Verifying
<1>5. Len(Items) \in Nat /\ k = Len(Items) + 1
  <2>1. Items \in Seq(ItemSet)
    BY <1>3 DEF TypeOK, Items
  <2> QED
    BY <1>1, <1>3, <2>1 DEF Verifying
<1>6. TypeOK'
  <2>1. verdict' \in {"ok", "rejected"}
    BY <1>2
  <2> QED
    BY <1>1, <1>3, <2>1 DEF TypeOK, setup, prover
<1>7. AggregateAgrees'
  BY <1>1, <1>3 DEF AggregateAgrees, setup, prover
<1>8. ASSUME AllHonest, Pairable(keys.u, challenge.R), ~isInfinity(hashSum[Len(Items) + 1])
      PROVE  verdict' = "ok"
  <2>1. H = hashSum[Len(Items) + 1] /\ Lambda = keys.u * challenge.R * M
    BY <1>3, <1>5 DEF Verifying
  <2>2. Theta = Exponent(keys.a, keys.g, keys.u, H, M)
    BY <1>3, <1>8, <2>1 DEF Verifying, Expected
  <2>3. /\ keys.a \in Int /\ keys.g \in Int /\ keys.u \in Int /\ keys.y = keys.g * keys.a
        /\ H \in Int /\ M \in Int /\ challenge.r \in Int
    BY <1>1, <1>3 DEF TypeOK
  <2>4. challenge.R = keys.g * keys.a * challenge.r
    BY <1>3, <2>3 DEF Verifying, Blinded
  <2>5. Balances(keys.a, keys.g, keys.u, H, M, challenge.r)
    BY <2>3, CompareIdentity
  <2>6. Theta * challenge.r = Lambda + H * challenge.R
    BY <2>1, <2>2, <2>4, <2>5 DEF Balances
  <2>7. Theta * challenge.r \in Int
    <3>1. Theta \in Int
      BY <1>3 DEF TypeOK
    <3> QED
      BY <2>3, <3>1
  <2>8. Same(Theta * challenge.r, Lambda + H * challenge.R)
    BY <2>6, <2>7, SameReflexive
  <2>9. Pairable(H, challenge.R)
    BY <1>8, <2>1 DEF Pairable
  <2> QED
    BY <1>2, <2>8, <2>9
<1>9. Complete'
  <2>1. (Pairable(keys.u, challenge.R))' <=> Pairable(keys.u, challenge.R)
    BY <1>1 DEF Pairable, isInfinity, Same, setup
  <2>2. (isInfinity(hashSum[Len(Items) + 1]))' <=> isInfinity(hashSum[Len(Items) + 1])
    BY <1>1, <1>4 DEF isInfinity, Same
  <2> QED
    BY <1>4, <1>8, <2>1, <2>2 DEF Complete, AllHonest
<1> QED
  BY <1>1, <1>4, <1>6, <1>7, <1>9 DEF IInv

-----------------------------------------------------------------------------
LEMMA Inductive == IInv /\ [Next]_vars => IInv'
<1>1. ASSUME IInv, UNCHANGED vars PROVE IInv'
  <2>1. /\ TypeOK' /\ TagsSigned' /\ RunningSum' /\ AggregateAgrees'
    BY <1>1, Settled DEF IInv, vars, setup, prover, TypeOK, AggregateAgrees
  <2> QED
    BY <1>1, <2>1 DEF IInv, vars, setup, prover, NoTags, Unstarted, Proving, Verifying, Complete,
       AllHonest, Honest, Skipped, isInfinity, Same, Pairable, Expected, Blinded, Items
<1> QED
  BY <1>1, KeysStep, TagsStep, ChallengeStep, SkipStep, AccumulateStep, SealStep,
     HashItemStep, CompareStep DEF Next, generateProofs, verifyProofs

THEOREM Invariance == Spec => []IInv
BY InitOK, Inductive, PTL DEF Spec

(***************************************************************************)
(* Group elements and sums are of their types in every audit.              *)
(***************************************************************************)
THEOREM AuditTypes == Spec => []TypeOK
<1>1. IInv => TypeOK
  BY DEF IInv
<1> QED
  BY <1>1, Invariance, PTL

(***************************************************************************)
(* The product of pairings that generateProofs() makes is the one pairing  *)
(* of the weighted sum of the tags that + and * of DHTDynamicTag promise.  *)
(***************************************************************************)
THEOREM PairingsAggregate == Spec => []AggregateAgrees
<1>1. IInv => AggregateAgrees
  BY DEF IInv
<1> QED
  BY <1>1, Invariance, PTL

(***************************************************************************)
(* Completeness: verifyProofs() accepts the proof of generateProofs() for  *)
(* every sample of intact blocks, in a group of any order, for all keys,   *)
(* coefficients, hashes, contents and blinding factors.                    *)
(***************************************************************************)
THEOREM HonestAccepted == Spec => []Complete
<1>1. IInv => Complete
  BY DEF IInv, Complete
<1> QED
  BY <1>1, Invariance, PTL

-----------------------------------------------------------------------------
(***************************************************************************)
(* One faulty block.  The invariant of the loop of generateProofs() says   *)
(* by how much Theta deviates from what an honest audit would give.        *)
(***************************************************************************)
(* Arithmetic modulo the group order.                                      *)

LEMMA ZeroIsMultiple ==
  ASSUME NEW x \in Int, isInfinity(x)
  PROVE  \E q \in Int : x = GroupOrder * q
<1> DEFINE d == x \div GroupOrder
           m == x % GroupOrder
<1>1. m = 0
  BY DEF isInfinity, Same
<1>2. d \in Int /\ m \in Int /\ x = GroupOrder * d + m
  BY OrderAssumption
<1> HIDE DEF d, m
<1>3. x = GroupOrder * d
  BY <1>1, <1>2, OrderAssumption
<1> QED
  BY <1>2, <1>3

LEMMA MultipleIsZero ==
  ASSUME NEW q \in Int
  PROVE  isInfinity(GroupOrder * q)
<1> DEFINE x == GroupOrder * q
           d == x \div GroupOrder
           m == x % GroupOrder
<1>1. /\ x \in Int /\ d \in Int /\ m \in Int
      /\ x = GroupOrder * d + m /\ 0 <= m /\ m < GroupOrder
  BY OrderAssumption
<1>2. m = GroupOrder * (q - d)
  BY <1>1, OrderAssumption, Z3
<1>3. q - d \in Int
  BY <1>1
<1>4. \A z \in Int : z >= 1 => GroupOrder * z >= GroupOrder
  BY OrderAssumption, Z3
<1>5. \A z \in Int : z <= -1 => GroupOrder * z < 0
  BY OrderAssumption, Z3
<1>6. q - d = 0
  BY <1>1, <1>2, <1>3, <1>4, <1>5, OrderAssumption
<1>7. m = 0
  BY <1>2, <1>6, OrderAssumption
<1> QED
  BY <1>1, <1>7 DEF isInfinity, Same

LEMMA ZeroSum ==
  ASSUME NEW x \in Int, NEW y \in Int, isInfinity(x), isInfinity(y)
  PROVE  isInfinity(x + y)
<1>1. PICK p \in Int : x = GroupOrder * p
  BY ZeroIsMultiple
<1>2. PICK q \in Int : y = GroupOrder * q
  BY ZeroIsMultiple
<1>3. x + y = GroupOrder * (p + q)
  BY <1>1, <1>2, OrderAssumption, Z3
<1> QED
  BY <1>3, MultipleIsZero

LEMMA ZeroProduct ==
  ASSUME NEW x \in Int, NEW y \in Int, isInfinity(x)
  PROVE  isInfinity(x * y)
<1>1. PICK p \in Int : x = GroupOrder * p
  BY ZeroIsMultiple
<1>2. x * y = GroupOrder * (p * y) /\ p * y \in Int
  BY <1>1, OrderAssumption, Z3
<1> QED
  BY <1>2, MultipleIsZero

LEMMA NoZeroDivisors ==
  ASSUME NEW x \in Int, NEW y \in Int, isInfinity(x * y)
  PROVE  isInfinity(x) \/ isInfinity(y)
<1> DEFINE p == x \div GroupOrder
           q == y \div GroupOrder
           s == x % GroupOrder
           t == y % GroupOrder
<1>1. /\ p \in Int /\ s \in 0..(GroupOrder - 1) /\ x = GroupOrder * p + s
      /\ q \in Int /\ t \in 0..(GroupOrder - 1) /\ y = GroupOrder * q + t
  BY OrderAssumption
<1>2. PICK z \in Int : x * y = GroupOrder * z
  <2>1. x * y \in Int
    OBVIOUS
  <2> QED
    BY <2>1, ZeroIsMultiple
<1>3. s \in Int /\ t \in Int /\ GroupOrder \in Int
  BY <1>1, OrderAssumption
<1> HIDE DEF p, q, s, t
<1>4. s * t = GroupOrder * (z - p * y - q * s) /\ z - p * y - q * s \in Int
  BY <1>1, <1>2, <1>3, Z3
<1>5. isInfinity(s * t)
  BY <1>4, MultipleIsZero
<1>6. (s * t) % GroupOrder = 0
  BY <1>3, <1>5 DEF isInfinity, Same
<1>7. s = 0 \/ t = 0
  BY <1>1, <1>3, <1>6, PrimeAssumption
<1> QED
  BY <1>7 DEF isInfinity, Same, s, t

-----------------------------------------------------------------------------
(* The inductive invariant: after n items Theta is by d, in the exponent,  *)
(* more than it should be; d is zero without a faulty item and the weighted *)
(* discrepancy of a single one.                                            *)

FaultyAmong(n) == {j \in 1..n : ~isInfinity(Discrepancy(Items[j]))}

Excess(item) == item.nu * Discrepancy(item)

Deviates(n, d) ==
  /\ d \in Int
  /\ Theta = Expected(hashSum[n + 1] + d)
  /\ FaultyAmong(n) = {} => isInfinity(d)
  /\ \A f \in 1..n : FaultyAmong(n) = {f} => isInfinity(d - Excess(Items[f]))

NonZeroScalars ==
  /\ pc # "keys" => ~isInfinity(keys.a) /\ ~isInfinity(keys.g)
  /\ pc \in {"prove", "verify"} => ~isInfinity(challenge.r)

SInv == /\ IInv /\ NonZeroScalars
        /\ pc = "prove" => \E d \in Int : Deviates(k - 1, d)
        /\ pc = "verify" => \E d \in Int : Deviates(Len(Items), d)
        /\ pc = "done" => SingleFaultRejected

-----------------------------------------------------------------------------
LEMMA DrawnIsNotZero ==
  /\ \A x \in NonZeroRandom(KeyBytes) : x \in Int /\ ~isInfinity(x)
  /\ \A x \in NonZeroRandom(CoeffBytes) : x \in Int /\ ~isInfinity(x)
BY NonZeroType, ZeroAssumption DEF NonZeroRandom, isInfinity, Same

LEMMA ItemsType ==
  ASSUME TypeOK
  PROVE  Items \in Seq(ItemSet) /\ Len(Items) \in Nat /\ DOMAIN Items = 1..Len(Items)
<1>1. Items \in Seq(ItemSet)
  BY DEF TypeOK, Items
<1> QED
  BY <1>1

LEMMA CommitmentType ==
  ASSUME TypeOK, NEW i \in BlockIndex, NEW x \in Metadata, NEW s \in Int
  PROVE  Commitment(i, x, s) \in Int
<1>1. keys.u \in Int
  BY DEF TypeOK
<1> QED
  BY <1>1, HashType DEF Commitment

LEMMA MadeType ==
  ASSUME TypeOK, TagsSigned, NEW i \in BlockIndex, ~Skipped(i)
  PROVE  /\ made[i] # Null /\ made[i][1] \in Metadata /\ made[i][2] \in Int
         /\ tags[i] = Sigma(i, made[i][1], made[i][2]) /\ tags[i] \in Int
<1>1. tags[i] # Null
  BY DEF Skipped
<1>2. made[i] # Null /\ tags[i] = Sigma(i, made[i][1], made[i][2])
  BY <1>1 DEF TagsSigned
<1>3. made[i] \in Metadata \X BlockScalar
  BY <1>2 DEF TypeOK
<1>4. made[i][1] \in Metadata /\ made[i][2] \in BlockScalar
  BY <1>3
<1>5. made[i][2] \in Int
  <2>1. \A x \in BlockScalar : x \in Int
    BY ScalarAssumption
  <2> QED
    BY <1>4, <2>1
<1>6. tags[i] \in Int
  BY <1>1 DEF TypeOK
<1> QED
  BY <1>2, <1>4, <1>5, <1>6

LEMMA DiscrepancyType ==
  ASSUME TypeOK, TagsSigned, NEW item \in ItemSet
  PROVE  Discrepancy(item) \in Int /\ Excess(item) \in Int
<1> DEFINE i == item.blockIndex
<1>1. /\ i \in BlockIndex /\ item.metadata \in Metadata /\ item.nu \in Int
      /\ computeBlockHash(i, item.metadata) \in Int
  BY ItemType
<1>2. Discrepancy(item) \in Int
  <2>1. CASE Skipped(i)
    BY <1>1, <2>1 DEF Discrepancy
  <2>2. CASE ~Skipped(i)
    <3>1. made[i][1] \in Metadata /\ made[i][2] \in Int /\ blocks[i] \in Int
      BY <1>1, <2>2, MadeType DEF TypeOK
    <3>2. /\ Commitment(i, made[i][1], made[i][2]) \in Int
          /\ Commitment(i, item.metadata, blocks[i]) \in Int
      BY <1>1, <3>1, CommitmentType
    <3> QED
      BY <2>2, <3>2 DEF Discrepancy
  <2> QED
    BY <2>1, <2>2
<1> QED
  BY <1>1, <1>2 DEF Excess

(* One more item changes the deviation by its excess.                      *)
LEMMA DeviationStep ==
  ASSUME IInv, NEW n \in Nat, n + 1 <= Len(Items), NEW d \in Int, NEW e \in Int,
         e = d + Excess(Items[n + 1]),
         FaultyAmong(n) = {} => isInfinity(d),
         \A f \in 1..n : FaultyAmong(n) = {f} => isInfinity(d - Excess(Items[f]))
  PROVE  /\ FaultyAmong(n + 1) = {} => isInfinity(e)
         /\ \A f \in 1..(n + 1) :
              FaultyAmong(n + 1) = {f} => isInfinity(e - Excess(Items[f]))
<1> DEFINE item == Items[n + 1]
           D == Discrepancy(item)
<1>1. TypeOK /\ TagsSigned
  BY DEF IInv
<1>2. /\ \A j \in 1..(n + 1) : Items[j] \in ItemSet
      /\ n \notin 1..0 /\ n + 1 \in 1..(n + 1) /\ n + 1 \notin 1..n
      /\ 1..(n + 1) = (1..n) \cup {n + 1}
  BY <1>1, ItemsType
<1>3. \A j \in 1..(n + 1) : Excess(Items[j]) \in Int
  BY <1>1, <1>2, DiscrepancyType
<1>4. D \in Int /\ item.nu \in Int
  BY <1>1, <1>2, DiscrepancyType, ItemType
<1>5. FaultyAmong(n + 1) = FaultyAmong(n) \cup (IF isInfinity(D) THEN {} ELSE {n + 1})
  BY <1>2 DEF FaultyAmong
<1>6. FaultyAmong(n) \subseteq 1..n
  BY DEF FaultyAmong
<1>7. isInfinity(D) => isInfinity(Excess(item))
  <2>1. Excess(item) = D * item.nu
    BY <1>4 DEF Excess
  <2> QED
    BY <1>4, <2>1, ZeroProduct
<1> HIDE DEF D
<1>8. ASSUME FaultyAmong(n + 1) = {} PROVE isInfinity(e)
  <2>1. isInfinity(d) /\ isInfinity(Excess(item))
    BY <1>5, <1>7, <1>8
  <2> QED
    BY <1>2, <1>3, <2>1, ZeroSum
<1>9. ASSUME NEW f \in 1..(n + 1), FaultyAmong(n + 1) = {f}
      PROVE  isInfinity(e - Excess(Items[f]))
  <2>1. CASE f = n + 1
    <3>1. FaultyAmong(n) = {}
      BY <1>2, <1>5, <1>6, <1>9, <2>1
    <3>2. e - Excess(Items[f]) = d
      BY <1>2, <1>3, <2>1
    <3> QED
      BY <3>1, <3>2
  <2>2. CASE f # n + 1
    <3>1. f \in 1..n /\ FaultyAmong(n) = {f} /\ isInfinity(D)
      BY <1>2, <1>5, <1>9, <2>2
    <3>2. isInfinity(d - Excess(Items[f])) /\ isInfinity(Excess(item))
      BY <1>7, <3>1
    <3>3. isInfinity((d - Excess(Items[f])) + Excess(item))
      BY <1>2, <1>3, <3>2, ZeroSum
    <3>4. (d - Excess(Items[f])) + Excess(item) = e - Excess(Items[f])
      BY <1>2, <1>3
    <3> QED
      BY <3>3, <3>4
  <2> QED
    BY <2>1, <2>2
<1> QED
  BY <1>8, <1>9

(* Between two steps of the loop a faulty item stays faulty.               *)
LEMMA SameDiscrepancies ==
  ASSUME UNCHANGED setup
  PROVE  /\ Items' = Items
         /\ \A n : FaultyAmong(n)' = FaultyAmong(n)
         /\ \A j : Excess(Items[j])' = Excess(Items[j])
<1>1. Items' = Items /\ \A j : Discrepancy(Items[j])' = Discrepancy(Items[j])
  BY DEF setup, Items, Discrepancy, Skipped, Commitment, isInfinity, Same, computeBlockHash
<1>2. \A n : FaultyAmong(n)' = FaultyAmong(n)
  BY <1>1 DEF FaultyAmong, isInfinity, Same
<1>3. \A j : Excess(Items[j])' = Excess(Items[j])
  BY <1>1 DEF Excess
<1> QED
  BY <1>1, <1>2, <1>3

(* What both kinds of item show when the sums grow as they should.         *)
LEMMA ItemDeviates ==
  ASSUME SInv, pc = "prove", k \in DOMAIN Items, NextHashSum, UNCHANGED setup,
         k' = k + 1, NEW d \in Int, Deviates(k - 1, d),
         Theta' = Exponent(keys.a, keys.g, keys.u,
                           hashSum[k] + ItemHash(Item) + (d + Excess(Item)), M')
  PROVE  (\E e \in Int : Deviates(k - 1, e))'
<1>1. IInv /\ TypeOK /\ TagsSigned
  BY DEF SInv, IInv
<1>2. /\ k \in 1..Len(Items) /\ Len(Items) \in Nat /\ Item \in ItemSet
      /\ hashSum'[k + 1] = hashSum[k] + ItemHash(Item)
  BY <1>1, HashStep
<1>n. PICK n \in Nat : n = k - 1
  BY <1>2
<1>e. PICK e \in Int : e = d + Excess(Item)
  BY <1>1, <1>2, DiscrepancyType
<1>3. n + 1 = k /\ k' - 1 = n + 1
  BY <1>2, <1>n
<1>4. /\ FaultyAmong(n + 1) = {} => isInfinity(e)
      /\ \A f \in 1..(n + 1) :
           FaultyAmong(n + 1) = {f} => isInfinity(e - Excess(Items[f]))
  <2>1. /\ FaultyAmong(n) = {} => isInfinity(d)
        /\ \A f \in 1..n : FaultyAmong(n) = {f} => isInfinity(d - Excess(Items[f]))
    BY <1>n DEF Deviates
  <2>2. e = d + Excess(Items[n + 1]) /\ n + 1 <= Len(Items)
    BY <1>2, <1>3, <1>e DEF Item
  <2> QED
    BY <1>1, <2>1, <2>2, DeviationStep
<1>5. Theta' = Exponent(keys'.a, keys'.g, keys'.u, hashSum'[n + 1 + 1] + e, M')
  <2>1. hashSum'[n + 1 + 1] = hashSum[k] + ItemHash(Item)
    BY <1>2, <1>3
  <2> QED
    BY <1>e, <2>1 DEF setup
<1>6. /\ FaultyAmong(n + 1)' = {} => isInfinity(e)
      /\ \A f \in 1..(n + 1) :
           FaultyAmong(n + 1)' = {f} => isInfinity(e - Excess(Items[f])')
  BY <1>4, SameDiscrepancies
<1>7. Deviates(n + 1, e)'
  BY <1>5, <1>6 DEF Deviates, Expected, isInfinity, Same
<1>8. Deviates(k - 1, e)'
  BY <1>3, <1>7
<1> QED
  BY <1>8

LEMMA SkipDeviates == SInv /\ SkipItem => SInv'
<1> SUFFICES ASSUME SInv, SkipItem PROVE SInv'
  OBVIOUS
<1>1. /\ pc = "prove" /\ k \in DOMAIN Items /\ NextHashSum /\ k' = k + 1
      /\ Skipped(Item.blockIndex)
      /\ UNCHANGED <<setup, prover, pc, H, verdict, aggregate>>
  BY DEF SkipItem
<1>2. IInv /\ TypeOK /\ IInv'
  BY SkipStep DEF SInv, IInv
<1>3. PICK d \in Int : Deviates(k - 1, d)
  BY <1>1 DEF SInv
<1>4. k \in 1..Len(Items) /\ Item \in ItemSet /\ hashSum[k] \in Int
  BY <1>1, <1>2, HashStep
<1>5. Theta' = Exponent(keys.a, keys.g, keys.u,
                        hashSum[k] + ItemHash(Item) + (d + Excess(Item)), M')
  <2> DEFINE x == computeBlockHash(Item.blockIndex, Item.metadata)
  <2>1. x \in Int /\ Item.nu \in Int
    BY <1>4, ItemType
  <2>2. Excess(Item) = Item.nu * (0 - x)
    BY <1>1 DEF Excess, Discrepancy
  <2>3. ItemHash(Item) = x * Item.nu
    BY DEF ItemHash
  <2> HIDE DEF x
  <2>4. hashSum[k] + ItemHash(Item) + (d + Excess(Item)) = hashSum[k] + d
    <3>1. x * Item.nu + (d + Item.nu * (0 - x)) = d
      BY <2>1, Z3
    <3> DEFINE p == x * Item.nu
               q == Item.nu * (0 - x)
    <3>2. p \in Int /\ q \in Int /\ p + (d + q) = d
      BY <2>1, <3>1
    <3>3. ItemHash(Item) = p /\ Excess(Item) = q
      BY <2>2, <2>3
    <3> HIDE DEF p, q
    <3> QED
      BY <1>4, <3>2, <3>3
  <2>5. Theta = Expected(hashSum[k] + d)
    <3>1. k - 1 + 1 = k
      BY <1>4
    <3> QED
      BY <1>3, <3>1 DEF Deviates
  <2>6. Theta' = Theta /\ M' = M
    BY <1>1 DEF prover
  <2> QED
    BY <2>4, <2>5, <2>6 DEF Expected
<1>6. (\E e \in Int : Deviates(k - 1, e))'
  <2>1. UNCHANGED setup
    BY <1>1
  <2> QED
    BY <1>1, <1>3, <1>5, <2>1, ItemDeviates
<1>7. NonZeroScalars'
  BY <1>1 DEF SInv, NonZeroScalars, setup, isInfinity, Same
<1> QED
  BY <1>1, <1>2, <1>6, <1>7 DEF SInv

(* A used tag is the signature of what is expected and the discrepancy.    *)
LEMMA UsedTag ==
  ASSUME TypeOK, TagsSigned, NEW item \in ItemSet, ~Skipped(item.blockIndex)
  PROVE  tags[item.blockIndex]
           = Signature(keys.a, keys.u,
                       computeBlockHash(item.blockIndex, item.metadata) + Discrepancy(item),
                       blocks[item.blockIndex])
<1> DEFINE i == item.blockIndex
           x == computeBlockHash(i, item.metadata)
           x0 == computeBlockHash(i, made[i][1])
           s0 == made[i][2]
           s == blocks[i]
<1>1. i \in BlockIndex /\ x \in Int
  BY ItemType
<1>2. /\ tags[i] = Sigma(i, made[i][1], made[i][2])
      /\ made[i][1] \in Metadata /\ s0 \in Int
  BY <1>1, MadeType
<1>3. x0 \in Int /\ s \in Int /\ keys.u \in Int /\ keys.a \in Int
  BY <1>1, <1>2, HashType DEF TypeOK
<1>4. tags[i] = (x0 + keys.u * s0) * keys.a
  BY <1>2 DEF Sigma, TagTimes, TagPlus
<1>5. Discrepancy(item) = (x0 + keys.u * s0) - (x + keys.u * s)
  BY DEF Discrepancy, Commitment
<1> HIDE DEF x, x0, s0, s
<1>6. x + Discrepancy(item) + keys.u * s = x0 + keys.u * s0
  <2> DEFINE p == keys.u * s0
             q == keys.u * s
  <2>1. p \in Int /\ q \in Int
    BY <1>2, <1>3
  <2> HIDE DEF p, q
  <2>2. Discrepancy(item) = (x0 + p) - (x + q)
    BY <1>5 DEF p, q
  <2>3. x + Discrepancy(item) + q = x0 + p
    BY <1>1, <1>3, <2>1, <2>2
  <2> QED
    BY <2>3 DEF p, q
<1>7. tags[i] = Signature(keys.a, keys.u, x + Discrepancy(item), s)
  BY <1>4, <1>6 DEF Signature
<1> QED
  BY <1>7 DEF x, s

LEMMA AccumulateDeviates == SInv /\ AccumulateItem => SInv'
<1> SUFFICES ASSUME SInv, AccumulateItem PROVE SInv'
  OBVIOUS
<1> DEFINE i == Item.blockIndex
           nu == Item.nu
           x == computeBlockHash(i, Item.metadata)
           s == blocks[i]
           D == Discrepancy(Item)
<1>1. /\ pc = "prove" /\ k \in DOMAIN Items /\ NextHashSum /\ k' = k + 1
      /\ ~Skipped(i)
      /\ Theta' = Theta + tags[i] * keys.g * nu /\ M' = M + nu * s
      /\ UNCHANGED <<setup, Lambda, pc, H, verdict>>
  BY DEF AccumulateItem, Pairing
<1>2. IInv /\ TypeOK /\ TagsSigned /\ IInv'
  BY AccumulateStep DEF SInv, IInv
<1>3. PICK d \in Int : Deviates(k - 1, d)
  BY <1>1 DEF SInv
<1>4. k \in 1..Len(Items) /\ Item \in ItemSet /\ hashSum[k] \in Int
  BY <1>1, <1>2, HashStep
<1>5. /\ i \in BlockIndex /\ nu \in Int /\ x \in Int /\ D \in Int
  BY <1>2, <1>4, ItemType, DiscrepancyType
<1>6. /\ s \in Int /\ keys.a \in Int /\ keys.g \in Int /\ keys.u \in Int
      /\ M \in Int
  BY <1>2, <1>5 DEF TypeOK
<1>7. tags[i] = Signature(keys.a, keys.u, x + D, s)
  BY <1>1, <1>2, <1>4, UsedTag
<1>8. Theta = Exponent(keys.a, keys.g, keys.u, hashSum[k] + d, M)
  <2>1. k - 1 + 1 = k
    BY <1>4
  <2> QED
    BY <1>3, <2>1 DEF Deviates, Expected
<1>9. ItemHash(Item) = x * nu /\ Excess(Item) = nu * D
  BY DEF ItemHash, Excess
<1>10. Theta' = Exponent(keys.a, keys.g, keys.u,
                         hashSum[k] + ItemHash(Item) + (d + Excess(Item)), M')
  <2> HIDE DEF x, s, D, nu
  <2>1. Accumulates(keys.a, keys.g, keys.u, hashSum[k] + d, M, x + D, s, nu)
    <3>1. hashSum[k] + d \in Int /\ x + D \in Int
      BY <1>4, <1>5
    <3> QED
      BY <1>5, <1>6, <3>1, AccumulateIdentity
  <2>2. hashSum[k] + d + (x + D) * nu = hashSum[k] + ItemHash(Item) + (d + Excess(Item))
    <3> DEFINE p == x * nu
               q == nu * D
    <3>1. p \in Int /\ q \in Int
      BY <1>5
    <3>2. (x + D) * nu = p + q
      BY <1>5, Z3
    <3> HIDE DEF p, q
    <3>3. ItemHash(Item) = p /\ Excess(Item) = q
      BY <1>9 DEF p, q
    <3> QED
      BY <1>4, <3>1, <3>2, <3>3
  <2>3. Theta' = Exponent(keys.a, keys.g, keys.u, hashSum[k] + d + (x + D) * nu, M')
    BY <1>1, <1>7, <1>8, <2>1 DEF Accumulates
  <2> QED
    BY <2>2, <2>3
<1>11. (\E e \in Int : Deviates(k - 1, e))'
  <2>1. UNCHANGED setup
    BY <1>1
  <2> QED
    BY <1>1, <1>3, <1>10, <2>1, ItemDeviates
<1>12. NonZeroScalars'
  BY <1>1 DEF SInv, NonZeroScalars, setup, isInfinity, Same
<1> QED
  BY <1>1, <1>2, <1>11, <1>12 DEF SInv

(* After the loop of generateProofs the deviation stays.                   *)
LEMMA DeviationFixed ==
  ASSUME UNCHANGED <<setup, Theta, M, hashSum>>, NEW n, NEW d \in Int, Deviates(n, d)
  PROVE  Deviates(n, d)'
<1>1. /\ Items' = Items /\ FaultyAmong(n)' = FaultyAmong(n)
      /\ \A j : Excess(Items[j])' = Excess(Items[j])
  <2>1. UNCHANGED setup
    OBVIOUS
  <2> QED
    BY <2>1, SameDiscrepancies
<1> QED
  BY <1>1 DEF Deviates, Expected, Exponent, setup, isInfinity, Same

LEMMA DeviationStays ==
  ASSUME UNCHANGED <<setup, Theta, M, hashSum>>, NEW d \in Int, Deviates(Len(Items), d)
  PROVE  Deviates(Len(Items), d)'
<1>1. PICK n : n = Len(Items)
  OBVIOUS
<1>2. Items' = Items
  BY DEF setup, Items
<1>3. Deviates(n, d)'
  BY <1>1, DeviationFixed
<1> QED
  BY <1>1, <1>2, <1>3

LEMMA SealDeviates == SInv /\ SealProof => SInv'
<1> SUFFICES ASSUME SInv, SealProof PROVE SInv'
  OBVIOUS
<1>1. /\ pc = "prove" /\ k \notin DOMAIN Items
      /\ UNCHANGED <<setup, Theta, M, accumulated, H, hashSum, aggregate>>
      /\ pc' = "verify" \/ (pc' = "done" /\ verdict' = "no proof")
  BY DEF SealProof
<1>2. IInv /\ TypeOK /\ IInv' /\ Proving
  BY <1>1, SealStep DEF SInv, IInv
<1>3. PICK d \in Int : Deviates(k - 1, d)
  BY <1>1 DEF SInv
<1>4. k - 1 = Len(Items)
  <2>1. Len(Items) \in Nat /\ k \notin 1..Len(Items)
    BY <1>1, <1>2, ItemsType
  <2>2. k \in 1..(Len(Items) + 1)
    BY <1>2 DEF Proving
  <2> QED
    BY <2>1, <2>2
<1>5. Deviates(Len(Items), d)'
  BY <1>1, <1>3, <1>4, DeviationStays
<1>6. NonZeroScalars'
  BY <1>1 DEF SInv, NonZeroScalars, setup, isInfinity, Same
<1>7. pc' = "done" => SingleFaultRejected'
  BY <1>1 DEF SingleFaultRejected
<1> QED
  BY <1>1, <1>2, <1>5, <1>6, <1>7 DEF SInv

LEMMA HashItemDeviates == SInv /\ HashItem => SInv'
<1> SUFFICES ASSUME SInv, HashItem PROVE SInv'
  OBVIOUS
<1>1. /\ pc = "verify"
      /\ UNCHANGED <<setup, prover, pc, verdict, hashSum, aggregate>>
  BY DEF HashItem
<1>2. IInv'
  BY HashItemStep DEF SInv
<1>3. PICK d \in Int : Deviates(Len(Items), d)
  BY <1>1 DEF SInv
<1>4. Deviates(Len(Items), d)'
  BY <1>1, <1>3, DeviationStays DEF prover
<1>5. NonZeroScalars'
  BY <1>1 DEF SInv, NonZeroScalars, setup, isInfinity, Same
<1> QED
  BY <1>1, <1>2, <1>4, <1>5 DEF SInv

(* The two sides of the equation differ by the deviation.                  *)
Differs(a, g, u, h, m, r, d) ==
  Exponent(a, g, u, h + d, m) * r - (u * (g * a * r) * m + h * (g * a * r))
    = d * (a * (g * r))

LEMMA DifferenceIdentity ==
  ASSUME NEW a \in Int, NEW g \in Int, NEW u \in Int, NEW h \in Int, NEW m \in Int,
         NEW r \in Int, NEW d \in Int
  PROVE  Differs(a, g, u, h, m, r, d)
BY Z3 DEF Differs, Exponent

LEMMA CompareDeviates == SInv /\ Compare => SInv'
<1> SUFFICES ASSUME SInv, Compare PROVE SInv'
  OBVIOUS
<1>1. /\ pc = "verify" /\ k \notin DOMAIN Items /\ pc' = "done"
      /\ UNCHANGED <<setup, prover, k, H, hashSum, aggregate>>
      /\ verdict' = "ok" => Same(Theta * challenge.r, Lambda + H * challenge.R)
  BY DEF Compare, Pairing
<1>2. IInv /\ TypeOK /\ TagsSigned /\ Verifying /\ IInv'
  BY <1>1, CompareStep DEF SInv, IInv
<1>3. PICK d \in Int : Deviates(Len(Items), d)
  BY <1>1 DEF SInv
<1>4. /\ Len(Items) \in Nat /\ k = Len(Items) + 1 /\ DOMAIN Items = 1..Len(Items)
      /\ Items \in Seq(ItemSet)
  BY <1>1, <1>2, ItemsType DEF Verifying
<1>5. ASSUME verdict' = "ok", Cardinality(Faulty) = 1
      PROVE  FALSE
  <2>1. PICK f : Faulty = {f}
    <3>1. IsFiniteSet(1..Len(Items))
      BY <1>4, FS_Interval
    <3>2. Faulty \subseteq 1..Len(Items)
      BY <1>4 DEF Faulty
    <3>3. IsFiniteSet(Faulty)
      BY <3>1, <3>2, FS_Subset
    <3> QED
      BY <1>5, <3>3, FS_Singleton
  <2>2. Faulty = FaultyAmong(Len(Items))
    BY <1>4 DEF Faulty, FaultyAmong
  <2>3. f \in 1..Len(Items) /\ ~isInfinity(Discrepancy(Items[f]))
    BY <1>4, <2>1 DEF Faulty
  <2>4. isInfinity(d - Excess(Items[f]))
    BY <1>3, <2>1, <2>2, <2>3 DEF Deviates
  <2>5. isInfinity(d * (keys.a * (keys.g * challenge.r)))
    <3>1. /\ keys.a \in Int /\ keys.g \in Int /\ keys.u \in Int /\ keys.y = keys.g * keys.a
          /\ H \in Int /\ M \in Int /\ challenge.r \in Int
      BY <1>1, <1>2 DEF TypeOK
    <3>2. /\ H = hashSum[Len(Items) + 1] /\ Lambda = keys.u * challenge.R * M
          /\ challenge.R = keys.g * keys.a * challenge.r
      BY <1>2, <1>4, <3>1 DEF Verifying, Blinded
    <3>3. Theta = Exponent(keys.a, keys.g, keys.u, H + d, M)
      BY <1>3, <3>2 DEF Deviates, Expected
    <3>4. Differs(keys.a, keys.g, keys.u, H, M, challenge.r, d)
      BY <3>1, DifferenceIdentity
    <3>5. Theta * challenge.r - (Lambda + H * challenge.R)
            = d * (keys.a * (keys.g * challenge.r))
      BY <3>2, <3>3, <3>4 DEF Differs
    <3>6. d * (keys.a * (keys.g * challenge.r)) \in Int
      BY <3>1
    <3> QED
      BY <1>1, <1>5, <3>5, <3>6 DEF isInfinity, Same
  <2>6. isInfinity(d)
    <3>1. keys.a \in Int /\ keys.g \in Int /\ challenge.r \in Int
      BY <1>2 DEF TypeOK
    <3>2. ~isInfinity(keys.a) /\ ~isInfinity(keys.g) /\ ~isInfinity(challenge.r)
      BY <1>1 DEF SInv, NonZeroScalars
    <3>3. keys.g * challenge.r \in Int /\ ~isInfinity(keys.g * challenge.r)
      <4>1. keys.g * challenge.r \in Int
        BY <3>1
      <4>2. ASSUME isInfinity(keys.g * challenge.r) PROVE FALSE
        BY <3>1, <3>2, <4>2, NoZeroDivisors
      <4> QED
        BY <4>1, <4>2
    <3>4. PICK z \in Int : z = keys.g * challenge.r
      BY <3>3
    <3>5. keys.a * z \in Int /\ ~isInfinity(keys.a * z)
      <4>1. keys.a * z \in Int
        BY <3>1
      <4>2. ASSUME isInfinity(keys.a * z) PROVE FALSE
        BY <3>1, <3>2, <3>3, <3>4, <4>2, NoZeroDivisors
      <4> QED
        BY <4>1, <4>2
    <3>6. isInfinity(d * (keys.a * z))
      BY <2>5, <3>4
    <3> QED
      BY <3>5, <3>6, NoZeroDivisors
  <2>7. Items[f] \in ItemSet
    BY <1>4, <2>3
  <2>8. /\ Items[f].nu \in Int /\ ~isInfinity(Items[f].nu)
        /\ Discrepancy(Items[f]) \in Int /\ Excess(Items[f]) \in Int
    BY <1>2, <2>7, DrawnIsNotZero, DiscrepancyType DEF ItemSet
  <2>9. isInfinity(Excess(Items[f]))
    <3>1. PICK x \in Int : x = Excess(Items[f])
      BY <2>8
    <3>2. isInfinity((d - x) * (-1))
      BY <2>4, <3>1, ZeroProduct
    <3>3. isInfinity(d + (d - x) * (-1))
      BY <2>6, <3>2, ZeroSum
    <3>4. d + (d - x) * (-1) = x
      OBVIOUS
    <3> QED
      BY <3>1, <3>3, <3>4
  <2> QED
    BY <2>3, <2>8, <2>9, NoZeroDivisors DEF Excess
<1>6. SingleFaultRejected'
  <2>1. Faulty' = Faulty
    BY <1>1 DEF Faulty, Items, Discrepancy, Skipped, Commitment, isInfinity, Same,
                computeBlockHash, setup
  <2> QED
    BY <1>5, <2>1 DEF SingleFaultRejected
<1>7. NonZeroScalars'
  BY <1>1 DEF SInv, NonZeroScalars, setup, isInfinity, Same
<1> QED
  BY <1>1, <1>2, <1>6, <1>7 DEF SInv

LEMMA KeysDrawn == SInv /\ generateKeys => SInv'
<1> SUFFICES ASSUME SInv, generateKeys PROVE SInv'
  OBVIOUS
<1>1. PICK a, r, rPrime \in NonZeroRandom(KeyBytes) :
        keys' = [a |-> a, g |-> r, y |-> r * a, u |-> rPrime]
  BY DEF generateKeys
<1>2. ~isInfinity(a) /\ ~isInfinity(r)
  BY DrawnIsNotZero
<1>3. pc' = "tags" /\ keys'.a = a /\ keys'.g = r
  BY <1>1 DEF generateKeys
<1>4. NonZeroScalars'
  BY <1>2, <1>3 DEF NonZeroScalars, isInfinity, Same
<1> QED
  BY <1>3, <1>4, KeysStep DEF SInv

LEMMA TagsMade == SInv /\ generateTags => SInv'
<1> SUFFICES ASSUME SInv, generateTags PROVE SInv'
  OBVIOUS
<1>1. pc = "tags" /\ pc' = "challenge" /\ UNCHANGED keys
  BY DEF generateTags
<1>2. NonZeroScalars'
  BY <1>1 DEF SInv, NonZeroScalars, isInfinity, Same
<1> QED
  BY <1>1, <1>2, TagsStep DEF SInv

LEMMA ChallengeDrawn == SInv /\ generateChallenges => SInv'
<1> SUFFICES ASSUME SInv, generateChallenges PROVE SInv'
  OBVIOUS
<1>1. /\ pc = "challenge" /\ pc' = "prove" /\ k' = 1
      /\ UNCHANGED <<keys, prover, hashSum>>
  BY DEF generateChallenges
<1>2. IInv' /\ Unstarted /\ TypeOK /\ TypeOK'
  BY <1>1, ChallengeStep DEF SInv, IInv
<1>3. \E r \in NonZeroRandom(KeyBytes) : challenge'.r = r
  <2> DEFINE Drawn(items, r) == challenge' = [items |-> items, r |-> r, R |-> keys.y * r]
  <2>1. PICK n \in 1..Cardinality(BlockIndex) :
          \E items \in [1..n -> ItemSet] : \E r \in NonZeroRandom(KeyBytes) : Drawn(items, r)
    BY DEF generateChallenges
  <2>2. PICK items \in [1..n -> ItemSet] : \E r \in NonZeroRandom(KeyBytes) : Drawn(items, r)
    BY <2>1
  <2> QED
    BY <2>2
<1>4. NonZeroScalars'
  <2>1. ~isInfinity(challenge'.r)
    BY <1>3, DrawnIsNotZero
  <2> QED
    BY <1>1, <2>1 DEF SInv, NonZeroScalars, isInfinity, Same
<1>5. Deviates(0, 0)'
  <2>1. hashSum'[0 + 1] = 0 /\ Theta' = 0 /\ M' = 0
    BY <1>1, <1>2 DEF Unstarted, prover
  <2>2. Theta' = Exponent(keys'.a, keys'.g, keys'.u, hashSum'[0 + 1] + 0, M')
    <3>1. keys'.a \in Int /\ keys'.g \in Int /\ keys'.u \in Int
      BY <1>2 DEF TypeOK
    <3>2. keys'.u * 0 = 0 /\ keys'.a * keys'.g * 0 = 0
      BY <3>1
    <3> QED
      BY <2>1, <3>1, <3>2 DEF Exponent
  <2>3. isInfinity(0) /\ 1..0 = {}
    BY SameReflexive DEF isInfinity
  <2> QED
    BY <2>2, <2>3 DEF Deviates, Expected, isInfinity, Same
<1>6. (\E e \in Int : Deviates(k - 1, e))'
  <2>1. k' - 1 = 0
    BY <1>1
  <2>2. Deviates(k - 1, 0)'
    BY <1>5, <2>1
  <2> QED
    BY <2>2
<1> QED
  BY <1>1, <1>2, <1>4, <1>6 DEF SInv

LEMMA SoundInductive == SInv /\ [Next]_vars => SInv'
<1>1. ASSUME SInv, UNCHANGED vars PROVE SInv'
  <2>1. UNCHANGED <<setup, Theta, M, hashSum>> /\ UNCHANGED <<pc, k, verdict, keys, challenge>>
    BY <1>1 DEF vars, prover, setup
  <2>2. IInv'
    BY <1>1, Inductive DEF SInv
  <2>3. NonZeroScalars'
    BY <1>1, <2>1 DEF SInv, NonZeroScalars, isInfinity, Same
  <2>4. pc' = "prove" => (\E e \in Int : Deviates(k - 1, e))'
    <3>1. ASSUME pc' = "prove" PROVE (\E e \in Int : Deviates(k - 1, e))'
      <4>1. PICK d \in Int : Deviates(k - 1, d)
        BY <1>1, <2>1, <3>1 DEF SInv
      <4>2. PICK n : n = k - 1
        OBVIOUS
      <4>3. Deviates(n, d)'
        BY <2>1, <4>1, <4>2, DeviationFixed
      <4>4. Deviates(k - 1, d)'
        BY <2>1, <4>2, <4>3
      <4> QED
        BY <4>4
    <3> QED
      BY <3>1
  <2>5. pc' = "verify" => (\E e \in Int : Deviates(Len(Items), e))'
    BY <1>1, <2>1, DeviationStays DEF SInv
  <2>6. pc' = "done" => SingleFaultRejected'
    BY <1>1, <2>1 DEF SInv, SingleFaultRejected, Faulty, Items, Discrepancy,
       Skipped, Commitment, computeBlockHash, isInfinity, Same, setup
  <2> QED
    BY <2>2, <2>3, <2>4, <2>5, <2>6 DEF SInv
<1> QED
  BY <1>1, KeysDrawn, TagsMade, ChallengeDrawn, SkipDeviates, AccumulateDeviates, SealDeviates,
     HashItemDeviates, CompareDeviates DEF Next, generateProofs, verifyProofs

(***************************************************************************)
(* Soundness for one block: verifyProofs() does not accept the proof of    *)
(* generateProofs() when exactly one of the sampled blocks has a missing   *)
(* or stale tag or was changed, in a group of any prime order, for all     *)
(* keys, coefficients, hashes, contents and blinding factors.              *)
(***************************************************************************)
THEOREM SingleFaultNeverHidden == Spec => []SingleFaultRejected
<1>1. Init => SInv
  <2>1. Init => pc = "keys"
    BY DEF Init
  <2> QED
    BY <2>1, InitOK DEF SInv, NonZeroScalars
<1>2. SInv => SingleFaultRejected
  BY DEF SInv, SingleFaultRejected
<1> QED
  BY <1>1, <1>2, SoundInductive, PTL DEF Spec
=============================================================================
