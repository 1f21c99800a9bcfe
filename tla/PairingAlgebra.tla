--------------------------- MODULE PairingAlgebra ---------------------------
(***************************************************************************)
(* The algebra of one audit: keys, tags, a challenge, the loop of          *)
(* generateProofs(), the loop of verifyProofs() and its equation           *)
(*                                                                         *)
(*     Theta^r = Lambda * e(H, R).                                         *)
(*                                                                         *)
(* A group element is an integer, its exponent over a fixed generator; two *)
(* integers are the same element if they are congruent modulo the group    *)
(* order.  So points add, a scalar and a point multiply, the pairing       *)
(* multiplies, and products and powers in GT are sums and products.  Tags  *)
(* may be missing or made from other metadata or contents than the audit   *)
(* is about.                                                               *)
(***************************************************************************)
EXTENDS Integers, Sequences, FiniteSetsExt, Functions

CONSTANTS GroupOrder,   \* n
          BlockIndex,   \* blocks of the file
          Metadata,     \* what the state store may hold for a block
          hashToCurve,  \* the hash of a block index and metadata
          BlockScalar,  \* the segment sums of blocks
          KeyBytes,     \* what generateRandom() may return for keys and r
          CoeffBytes,   \* and for the coefficients nu_j
          Null          \* a tag that is not there

ASSUME OrderAssumption == GroupOrder \in Nat \ {0}
ASSUME FileAssumption == IsFiniteSet(BlockIndex)
ASSUME ScalarAssumption == /\ BlockScalar \subseteq Nat /\ BlockIndex \subseteq Nat
                           /\ KeyBytes \subseteq Nat /\ CoeffBytes \subseteq Nat
                           /\ Null \notin Int
(* The group order is prime, and isZero() tells the zeros of the group.    *)
ASSUME PrimeAssumption ==
  \A x, y \in 1..(GroupOrder - 1) : (x * y) % GroupOrder # 0
ASSUME ZeroAssumption ==
  \A x \in (KeyBytes \cup CoeffBytes) \ {0} : x % GroupOrder # 0
ASSUME HashAssumption == hashToCurve \in [BlockIndex \X Metadata -> Int]

VARIABLES keys,         \* a, and the public params g, y, u
          tags,         \* sigma_i, or Null
          blocks,       \* the scalars of the blocks that Storage has
          challenge,    \* its items, r and R
          pc, k,        \* the step of the audit, and the item it is at
          Theta, M, accumulated, Lambda,  \* of generateProofs()
          H,            \* of verifyProofs()
          verdict,
          made,         \* history: what each tag was made from
          hashSum,      \* history: the sums of nu_j * H_j up to each item
          aggregate     \* history: the sum of the tags, by their operators

prover == <<Theta, M, accumulated, Lambda>>
setup  == <<keys, tags, blocks, challenge, made>>
vars   == <<setup, prover, pc, k, H, verdict, hashSum, aggregate>>

-----------------------------------------------------------------------------
Same(x, y) == (x - y) % GroupOrder = 0

isInfinity(x) == Same(x, 0)

(* SM9GTElement::pairing fails for a point at infinity.                    *)
Pairable(p, q) == ~isInfinity(p) /\ ~isInfinity(q)
Pairing(p, q) == p * q

computeBlockHash(i, metadata) == hashToCurve[<<i, metadata>>]

(* Mutant: zero is not drawn again.                                        *)
AnyRandom(bytes) == bytes

(* generateRandom() in a loop while (isZero()).                            *)
NonZeroRandom(bytes) == bytes \ {0}

(* DHTDynamicTag: the default tag, +, - and *.  (Mutant: * does nothing.)  *)
TagInfinity == 0
TagPlus(s, t) == s + t
TagTimesIgnored(s, x) == s
TagTimes(s, x) == s * x

Items == challenge.items
Item == Items[k]

-----------------------------------------------------------------------------
(* generateKeys: g = [r]P2, y = [a]g, u = [r']P1.                          *)
generateKeys ==
  /\ pc = "keys"
  /\ \E a, r, rPrime \in NonZeroRandom(KeyBytes) :
       keys' = [a |-> a, g |-> r, y |-> r * a, u |-> rPrime]
  /\ pc' = "tags"
  /\ UNCHANGED <<tags, blocks, challenge, made, prover, k, H, verdict, hashSum, aggregate>>

(* sigma_i = [a](H_i + [m_i]u), for the metadata and the block of the time *)
(* the tag was made at; the block may have changed since.                  *)
Sigma(i, metadata, scalar) ==
  TagTimes(TagPlus(computeBlockHash(i, metadata), keys.u * scalar), keys.a)

generateTags ==
  /\ pc = "tags"
  /\ made' \in [BlockIndex -> (Metadata \X BlockScalar) \cup {Null}]
  /\ tags' = [i \in BlockIndex |-> IF made'[i] = Null THEN Null
                                   ELSE Sigma(i, made'[i][1], made'[i][2])]
  /\ blocks' \in [BlockIndex -> BlockScalar]
  /\ pc' = "challenge"
  /\ UNCHANGED <<keys, challenge, prover, k, H, verdict, hashSum, aggregate>>

(* Distinct blocks in any order, coefficients that are not zero and do not *)
(* add up to zero, r that is not zero, and R = [r]y.                       *)
ItemSet == [blockIndex : BlockIndex, nu : NonZeroRandom(CoeffBytes), metadata : Metadata]

generateChallenges ==
  /\ pc = "challenge"
  /\ \E n \in 1..Cardinality(BlockIndex) : \E items \in [1..n -> ItemSet] :
     \E r \in NonZeroRandom(KeyBytes) :
       /\ \A i, j \in 1..n : i # j => items[i].blockIndex # items[j].blockIndex
       /\ ~Same(FoldFunction(+, 0, [j \in 1..n |-> items[j].nu]), 0)
       /\ challenge' = [items |-> items, r |-> r, R |-> keys.y * r]
  /\ pc' = "prove" /\ k' = 1
  /\ UNCHANGED <<keys, tags, blocks, made, prover, H, verdict, hashSum, aggregate>>

-----------------------------------------------------------------------------
(* generateProofs().                                                       *)

Skipped(i) == IF tags[i] = Null THEN TRUE ELSE isInfinity(tags[i]) \/ isInfinity(keys.g)

NextHashSum == hashSum' = Append(hashSum, hashSum[k] + computeBlockHash(Item.blockIndex, Item.metadata) * Item.nu)

SkipItem ==
  /\ pc = "prove" /\ k \in DOMAIN Items
  /\ Skipped(Item.blockIndex)
  /\ k' = k + 1
  /\ NextHashSum
  /\ UNCHANGED <<setup, prover, pc, H, verdict, aggregate>>

AccumulateItem ==
  /\ pc = "prove" /\ k \in DOMAIN Items
  /\ ~Skipped(Item.blockIndex)
  /\ LET sigma == tags[Item.blockIndex]
     IN /\ Theta' = Theta + Pairing(sigma, keys.g) * Item.nu
        /\ aggregate' = TagPlus(aggregate, TagTimes(sigma, Item.nu))
  /\ M' = M + Item.nu * blocks[Item.blockIndex]
  /\ accumulated' = TRUE
  /\ k' = k + 1
  /\ NextHashSum
  /\ UNCHANGED <<setup, Lambda, pc, H, verdict>>

(* Mutant: Lambda is made with y, which is not blinded.                    *)
SealUnblinded ==
  /\ pc = "prove" /\ k \notin DOMAIN Items
  /\ pc' = "verify" /\ Lambda' = Pairing(keys.u, keys.y) * M
  /\ k' = 1
  /\ UNCHANGED <<setup, Theta, M, accumulated, H, verdict, hashSum, aggregate>>

(* Lambda = e(u, R)^M.  Without an accumulated item, no proof.             *)
SealProof ==
  /\ pc = "prove" /\ k \notin DOMAIN Items
  /\ IF accumulated /\ Pairable(keys.u, challenge.R)
     THEN /\ pc' = "verify" /\ Lambda' = Pairing(keys.u, challenge.R) * M
          /\ UNCHANGED verdict
     ELSE pc' = "done" /\ verdict' = "no proof" /\ UNCHANGED Lambda
  /\ k' = 1
  /\ UNCHANGED <<setup, Theta, M, accumulated, H, hashSum, aggregate>>

-----------------------------------------------------------------------------
(* verifyProofs().                                                         *)

HashItem ==
  /\ pc = "verify" /\ k \in DOMAIN Items
  /\ H' = H + computeBlockHash(Item.blockIndex, Item.metadata) * Item.nu
  /\ k' = k + 1
  /\ UNCHANGED <<setup, prover, pc, verdict, hashSum, aggregate>>

Compare ==
  /\ pc = "verify" /\ k \notin DOMAIN Items
  /\ pc' = "done"
  /\ verdict' = IF /\ Pairable(H, challenge.R)
                   /\ Same(Theta * challenge.r, Lambda + Pairing(H, challenge.R))
                THEN "ok" ELSE "rejected"
  /\ UNCHANGED <<setup, prover, k, H, hashSum, aggregate>>

-----------------------------------------------------------------------------
Init == /\ keys = [a |-> 0, g |-> 0, y |-> 0, u |-> 0]
        /\ tags = [i \in BlockIndex |-> Null]
        /\ blocks \in [BlockIndex -> {0}]
        /\ challenge = [items |-> << >>, r |-> 0, R |-> 0]
        /\ pc = "keys" /\ k = 1 /\ verdict = "none"
        /\ Theta = 0 /\ M = 0 /\ accumulated = FALSE /\ Lambda = 0 /\ H = 0
        /\ made = [i \in BlockIndex |-> Null]
        /\ hashSum = <<0>> /\ aggregate = TagInfinity

generateProofs == SkipItem \/ AccumulateItem \/ SealProof

verifyProofs == HashItem \/ Compare

Next == generateKeys \/ generateTags \/ generateChallenges \/ generateProofs \/ verifyProofs

Spec == Init /\ [][Next]_vars

-----------------------------------------------------------------------------
TypeOK ==
  /\ keys \in [a : Int, g : Int, y : Int, u : Int]
  /\ pc # "keys" => keys.a > 0 /\ keys.g > 0 /\ keys.u > 0 /\ keys.y = keys.g * keys.a
  /\ made \in [BlockIndex -> (Metadata \X BlockScalar) \cup {Null}]
  /\ tags \in [BlockIndex -> Int \cup {Null}]
  /\ blocks \in [BlockIndex -> Int]
  /\ challenge \in [items : Seq(ItemSet), r : Int, R : Int]
  /\ pc \in {"keys", "tags", "challenge", "prove", "verify", "done"}
  /\ verdict \in {"none", "no proof", "ok", "rejected"}
  /\ Theta \in Int /\ M \in Int /\ Lambda \in Int /\ accumulated \in BOOLEAN
  /\ H \in Int /\ aggregate \in Int
  /\ k \in Nat /\ hashSum \in Seq(Int)

(***************************************************************************)
(* What the tag operators promise: one pairing of the weighted sum of the  *)
(* tags is the product of pairings that generateProofs() makes.            *)
(***************************************************************************)
AggregateAgrees == Theta = Pairing(aggregate, keys.g)

(* An item whose tag is used, and was made from what the audit is about.   *)
Honest(item) == /\ ~Skipped(item.blockIndex)
                /\ made[item.blockIndex] = <<item.metadata, blocks[item.blockIndex]>>

(***************************************************************************)
(* An audit in which every challenged block has its tag and is as its tag, *)
(* its metadata and the challenge say, is accepted, whatever the keys, the *)
(* coefficients and r.  (The points that are paired must not be at         *)
(* infinity, or the audit fails: a block whose tag is at infinity is never *)
(* verified, and neither is a sample whose hashes cancel out.)             *)
(***************************************************************************)
Complete ==
  /\ pc = "done"
  /\ \A j \in DOMAIN Items : Honest(Items[j])
  /\ Items # << >> /\ Pairable(keys.u, challenge.R)
  /\ ~isInfinity(hashSum[Len(Items) + 1])
  => verdict = "ok"

(* What an item adds to the left side of the equation more than to the     *)
(* right one, before its coefficient.                                      *)
Commitment(i, metadata, scalar) == computeBlockHash(i, metadata) + keys.u * scalar

Discrepancy(item) ==
  LET i == item.blockIndex
  IN IF Skipped(i) THEN 0 - computeBlockHash(i, item.metadata)
     ELSE Commitment(i, made[i][1], made[i][2]) - Commitment(i, item.metadata, blocks[i])

Faulty == {j \in DOMAIN Items : ~isInfinity(Discrepancy(Items[j]))}

(***************************************************************************)
(* One faulty block is never hidden: if exactly one of the challenged      *)
(* blocks has a tag that does not fit its metadata and its content, or no  *)
(* tag, the audit is not accepted, whatever coefficients were drawn.  (Two *)
(* faulty blocks are hidden if the coefficients make them cancel out.)     *)
(***************************************************************************)
SingleFaultRejected == pc = "done" /\ Cardinality(Faulty) = 1 => verdict # "ok"
=============================================================================
