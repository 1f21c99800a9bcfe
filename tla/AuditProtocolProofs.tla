------------------------ MODULE AuditProtocolProofs ------------------------
(***************************************************************************)
(* Proofs about AuditProtocol: for any blocks, edits and windows, a file   *)
(* whose edits are maintained before they are tagged, and whose shifted    *)
(* blocks are tagged anew, is auditable whenever the Admin is done, audits *)
(* of it at rest succeed, and an accepted audit was answered from the      *)
(* content that its challenge stood for; and what the protocol does to the *)
(* store are operations of AtomicFile.                                     *)
(***************************************************************************)
EXTENDS AuditProtocol, ListLemmas, FiniteSetTheorems

(***************************************************************************)
(* The inductive invariant, in parts.  An edit goes through phases: until  *)
(* maintenance() the store is that of the old file; until the new tags are *)
(* sent, so is the tag collection.                                         *)
(***************************************************************************)
EditOps == {"Update", "Insert", "Delete"}

(* The order of the work, as the constant prescribes it.                   *)
PhaseInv ==
  /\ MaintainFirst
  /\ op \in EditOps \cup {"none", "Upload", "done"}
  /\ op = "none" => file = << >>
  /\ todo = {} <=> op \in {"none", "done"}
  /\ "maintain" \in todo => op \in EditOps /\ "generateTags" \in todo
  /\ "generateTags" \in todo => "sendTags" \in todo
  /\ op \in {"Update", "Insert"} => at \in 1..Len(file)
  /\ op = "Delete" => at \in 1..(Len(file) + 1)

(* How many blocks the file had before the edit.                           *)
OldLen == CASE op = "Upload" -> 0
            [] op = "Insert" -> Len(file) - 1
            [] op = "Delete" -> Len(file) + 1
            [] OTHER -> Len(file)

(* The store has an entry for each block, of the old file at first; while  *)
(* a new file is tagged, for some.  Each edit makes one version at most.   *)
StoreInv ==
  /\ "maintain" \in todo => Stored(store) = 0..(OldLen - 1)
  /\ "maintain" \notin todo /\ (op # "Upload" \/ "generateTags" \notin todo) =>
       Stored(store) = 0..(Len(file) - 1)
  /\ op = "Upload" => Stored(store) \subseteq 0..(Len(file) - 1)
  /\ \A j \in Stored(store) :
       store[j].version <= IF "maintain" \in todo THEN edits ELSE edits + 1

(* What the entries vouch for, which is the old file at first.             *)
VouchedInv ==
  /\ "maintain" \in todo =>
       /\ Len(vouched) = OldLen
       /\ op = "Update" => file = ReplaceAt(vouched, at, file[at])
       /\ op = "Insert" => file = InsertAt(vouched, at, file[at])
       /\ op = "Delete" => file = RemoveAt(vouched, at)
  /\ "maintain" \notin todo /\ op # "Upload" => vouched = file
  /\ op = "Upload" => vouched = IF Stored(store) = {} THEN << >> ELSE file

(* The blocks that are to be tagged anew.                                  *)
ToTag(i) == Wanted(op, at, file) = {} \/ i \in Wanted(op, at, file)

(* The new tags fit, and those that are missing are in a window to come.   *)
NewTagsInv ==
  /\ \A i \in DOMAIN newTags : /\ i \in DOMAIN file /\ store[i - 1] # Null
                               /\ newTags[i] = Tag(i, store[i - 1], file[i])
  /\ "maintain" \in todo \/ "sendTags" \notin todo => DOMAIN newTags = {}
  /\ "sendTags" \in todo =>
       \A i \in DOMAIN file : ToTag(i) =>
          i \in DOMAIN newTags \/ \E s \in windows : i \in InWindow(file, s)

(* The blocks that an edit leaves where and as they are.                   *)
Kept(i) == \/ op = "Update" /\ i # at
           \/ op \in {"Insert", "Delete"} /\ i < at

(* The tags of Storage fit, those of the kept blocks all the time.         *)
TagsInv ==
  /\ Stored(tags) = 0..((IF "sendTags" \in todo THEN OldLen ELSE Len(file)) - 1)
  /\ \A i \in DOMAIN file : "sendTags" \notin todo \/ Kept(i) =>
       tags[i - 1] = Tag(i, store[i - 1], file[i])

BlocksInv == "sendBlocks" \notin todo => blocks = file

(* An audit of a file at rest reads what the store has and is answered     *)
(* from tags and blocks that fit.                                          *)
QuietInv ==
  /\ audit.pc \in {"read", "verify"} /\ quiet =>
       /\ todo = {} /\ op = "done"
       /\ DOMAIN audit.items # {} /\ DOMAIN audit.items \subseteq DOMAIN file
       /\ \A i \in DOMAIN audit.items : audit.items[i] \in {Null, store[i - 1]}
  /\ audit.pc = "verify" /\ quiet =>
       /\ DOMAIN audit.proof = DOMAIN audit.items
       /\ \A i \in DOMAIN audit.items :
            /\ audit.items[i] = store[i - 1]
            /\ audit.proof[i] = [tag |-> Tag(i, store[i - 1], file[i]),
                                 scalar |-> accumulateBlockSegmentsScalar(file[i])]

(* The metadata x is that of block i, or was: versions only grow.          *)
Was(x, i) == /\ store[i - 1] # Null
             /\ x = store[i - 1] \/ x.version < store[i - 1].version

(* While no block has moved, equal metadata mean equal content: of a tag   *)
(* and the store, of a tag and an item of the challenge, of a tag in the   *)
(* proof and its item.                                                     *)
FreshInv == ~moved =>
  /\ \A i \in 1..MaxBlocks : tags[i - 1] # Null =>
       /\ Was(tags[i - 1].metadata, i)
       /\ tags[i - 1].metadata = store[i - 1] =>
            tags[i - 1].scalar = accumulateBlockSegmentsScalar(vouched[i])
  /\ \A i \in DOMAIN audit.items : audit.items[i] # Null =>
       /\ Was(audit.items[i], i) /\ i \in DOMAIN audit.want
       /\ audit.items[i] = store[i - 1] => audit.want[i] = vouched[i]
       /\ tags[i - 1] # Null /\ tags[i - 1].metadata = audit.items[i] =>
            tags[i - 1].scalar = accumulateBlockSegmentsScalar(audit.want[i])
  /\ audit.pc = "verify" => \A i \in DOMAIN audit.proof :
       /\ audit.proof[i].scalar = accumulateBlockSegmentsScalar(audit.served[i])
       /\ audit.proof[i].tag.metadata = audit.items[i] =>
            audit.proof[i].tag.scalar = accumulateBlockSegmentsScalar(audit.want[i])

AuditShape == audit = [pc |-> audit.pc, items |-> audit.items, want |-> audit.want,
                       proof |-> audit.proof, served |-> audit.served,
                       verdict |-> audit.verdict]

IInv == /\ PTypeOK /\ AuditShape
        /\ PhaseInv /\ StoreInv /\ VouchedInv /\ NewTagsInv /\ TagsInv /\ BlocksInv
        /\ QuietInv /\ QuietAudit /\ FreshInv
-----------------------------------------------------------------------------
(***************************************************************************)
(* Lemmas about the operators.                                             *)
(***************************************************************************)
LEMMA Scalars == \A b \in Block : accumulateBlockSegmentsScalar(b) \in 0..(GroupOrder - 1)
<1> SUFFICES ASSUME NEW b \in Block
             PROVE  accumulateBlockSegmentsScalar(b) \in 0..(GroupOrder - 1)
  OBVIOUS
<1> DEFINE sum == FoldFunction(+, 0, b)
<1>1. sum \in Nat
  BY SegmentsAssumption
<1> HIDE DEF sum
<1>2. sum % GroupOrder \in 0..(GroupOrder - 1)
  BY <1>1, GroupOrderAssumption
<1> QED
  BY <1>2 DEF sum, accumulateBlockSegmentsScalar

LEMMA TagType ==
  ASSUME NEW i \in 1..MaxBlocks, NEW x \in Metadata, NEW b \in Block
  PROVE  Tag(i, x, b) \in TagSet /\ Tag(i, x, b) # Null
  BY Scalars, NullAssumption DEF Tag, TagSet

(* The file, and what is in it.                                            *)
LEMMA FileType ==
  ASSUME NEW f \in BoundedSeq(Block, MaxBlocks)
  PROVE  /\ f \in Seq(Block) /\ Len(f) \in 0..MaxBlocks /\ Len(f) \in Nat
         /\ DOMAIN f = 1..Len(f) /\ \A i \in 1..Len(f) : f[i] \in Block
<1>1. f \in Seq(Block) /\ Len(f) <= MaxBlocks
  BY BoundedSeqPoints, BoundsAssumption
<1> QED
  BY <1>1, BoundsAssumption

LEMMA EmptyFile == << >> \in BoundedSeq(Block, MaxBlocks)
<1>1. << >> \in Seq(Block) /\ Len(<< >>) = 0
  OBVIOUS
<1>2. 0 <= MaxBlocks /\ MaxBlocks \in Nat
  BY BoundsAssumption
<1> QED
  BY <1>1, <1>2, BoundedSeqPoints

(* A window is a stretch of the file.                                      *)
LEMMA WindowPoints ==
  ASSUME NEW f \in Seq(Block), NEW s \in WindowStarts(f)
  PROVE  /\ s \in Nat
         /\ InWindow(f, s) = {i \in 1..Len(f) : s < i /\ i <= s + WindowSize}
         /\ InWindow(f, s) = (s + 1)..(s + Len(Window(f, s)))
         /\ \A i \in InWindow(f, s) : Window(f, s)[i - s] = f[i]
<1> DEFINE n == Len(f)
           k == Min({WindowSize, n - s})
           win == Window(f, s)
<1>1. n \in Nat /\ s \in Nat /\ s <= n /\ WindowSize \in Nat \ {0}
  BY WindowAssumption DEF WindowStarts
<1> HIDE DEF n
<1>2. k = IF WindowSize <= n - s THEN WindowSize ELSE n - s
  BY <1>1, MinOfTwo
<1>3. k \in Nat /\ k <= WindowSize /\ k <= n - s
  BY <1>1, <1>2
<1>4. win = [j \in 1..k |-> f[s + j]]
  BY DEF Window, n
<1> HIDE DEF k
<1>5. \A j \in 1..k : s + j \in 1..n /\ f[s + j] \in Block
  <2> SUFFICES ASSUME NEW j \in 1..k PROVE s + j \in 1..n /\ f[s + j] \in Block
    OBVIOUS
  <2>1. s + j \in 1..n
    BY <1>1, <1>3
  <2> QED
    BY <2>1 DEF n
<1>6. win \in [1..k -> Block]
  BY <1>4, <1>5
<1>7. win \in Seq(Block) /\ Len(win) = k /\ DOMAIN win = 1..k
  BY <1>3, <1>6
<1>8. InWindow(f, s) = {s + j : j \in 1..k}
  BY <1>7 DEF InWindow
<1> HIDE DEF win
<1>9. {s + j : j \in 1..k} = (s + 1)..(s + k)
  <2>1. ASSUME NEW i \in (s + 1)..(s + k) PROVE i \in {s + j : j \in 1..k}
    <3>1. i - s \in 1..k /\ i = s + (i - s)
      BY <1>1, <1>3
    <3> QED
      BY <3>1
  <2>2. ASSUME NEW j \in 1..k PROVE s + j \in (s + 1)..(s + k)
    BY <1>1, <1>3
  <2> QED
    BY <2>1, <2>2
<1>10. (s + 1)..(s + k) = {i \in 1..n : s < i /\ i <= s + WindowSize}
  BY <1>1, <1>2
<1>11. \A i \in (s + 1)..(s + k) : win[i - s] = f[i]
  <2> SUFFICES ASSUME NEW i \in (s + 1)..(s + k) PROVE win[i - s] = f[i]
    OBVIOUS
  <2>1. i - s \in 1..k /\ s + (i - s) = i
    BY <1>1, <1>3
  <2> QED
    BY <1>4, <2>1
<1> QED
  BY <1>1, <1>7, <1>8, <1>9, <1>10, <1>11 DEF n, win

(* Each block is in a window.                                              *)
LEMMA WindowsCover ==
  ASSUME NEW f \in Seq(Block), NEW i \in 1..Len(f)
  PROVE  \E s \in WindowStarts(f) : i \in InWindow(f, s)
<1> DEFINE n == Len(f)
           q == (i - 1) \div WindowSize
           r == (i - 1) % WindowSize
           s == i - 1 - r
<1>1. n \in Nat /\ i \in 1..n /\ WindowSize \in Nat \ {0} /\ i - 1 \in Nat
  BY WindowAssumption
<1>2. q \in Nat /\ r \in 0..(WindowSize - 1) /\ i - 1 = q * WindowSize + r
  BY <1>1, Z3
<1> HIDE DEF q, r
<1>3. s = q * WindowSize
  BY <1>1, <1>2, Z3
<1>4. s % WindowSize = 0
  BY <1>1, <1>2, <1>3, Z3
<1>5. q * WindowSize \in Nat
  BY <1>1, <1>2
<1>6. s \in 0..(n - 1) /\ s < i /\ i <= s + WindowSize
  BY <1>1, <1>2, <1>3, <1>5
<1>7. s \in WindowStarts(f)
  BY <1>4, <1>6 DEF WindowStarts
<1> QED
  BY <1>1, <1>6, <1>7, WindowPoints

-----------------------------------------------------------------------------
(***************************************************************************)
(* The steps of an audit, which change nothing but the audit.              *)
(***************************************************************************)
AuditType ==
  /\ audit.pc \in {"none", "read", "verify", "done"}
  /\ audit.verdict \in {"none", "ok", "rejected", "error"}
  /\ DOMAIN audit.items \subseteq 1..MaxBlocks
  /\ Range(audit.items) \subseteq Metadata \cup {Null}
  /\ DOMAIN audit.want \cup DOMAIN audit.served \subseteq DOMAIN audit.items

LEMMA AuditFrame ==
  ASSUME IInv, UNCHANGED <<admin, dht, storage>>, AuditShape', AuditType', quiet' \in BOOLEAN,
         QuietInv', QuietAudit', FreshInv'
  PROVE  IInv'
<1>1. PTypeOK'
  BY DEF IInv, PTypeOK, AuditType, admin, dht, storage, WindowStarts
<1>2. PhaseInv' /\ StoreInv' /\ VouchedInv' /\ BlocksInv'
  BY DEF IInv, admin, dht, storage, PhaseInv, StoreInv, VouchedInv, BlocksInv, OldLen, Stored
<1>3. NewTagsInv' /\ TagsInv'
  BY DEF IInv, admin, dht, storage, NewTagsInv, TagsInv, OldLen, Stored, ToTag, Kept,
         Wanted, InWindow, Window
<1> QED
  BY <1>1, <1>2, <1>3 DEF IInv

(* What is known of the file, of the indices of its blocks and of the      *)
(* store.                                                                  *)
LEMMA Basics ==
  ASSUME IInv
  PROVE  /\ file \in Seq(Block) /\ Len(file) \in 0..MaxBlocks /\ Len(file) \in Nat
         /\ DOMAIN file = 1..Len(file) /\ \A i \in 1..Len(file) : file[i] \in Block
         /\ \A i \in 1..MaxBlocks : i \in Nat /\ i - 1 \in Index
         /\ "maintain" \in todo => OldLen \in 0..MaxBlocks
         /\ Stored(store) \subseteq 0..(MaxBlocks - 1)
<1>1. file \in BoundedSeq(Block, MaxBlocks) /\ vouched \in BoundedSeq(Block, MaxBlocks)
  BY DEF IInv, PTypeOK
<1>2. /\ file \in Seq(Block) /\ Len(file) \in 0..MaxBlocks /\ Len(file) \in Nat
      /\ DOMAIN file = 1..Len(file) /\ \A i \in 1..Len(file) : file[i] \in Block
      /\ Len(vouched) \in 0..MaxBlocks
  BY <1>1, FileType
<1>3. \A i \in 1..MaxBlocks : i \in Nat /\ i - 1 \in Index
  BY BoundsAssumption DEF Index
<1>4. "maintain" \in todo => OldLen \in 0..MaxBlocks
  BY <1>2 DEF IInv, VouchedInv
<1>5. Stored(store) \subseteq 0..(MaxBlocks - 1)
  BY <1>2, <1>4, BoundsAssumption DEF IInv, StoreInv
<1> QED
  BY <1>2, <1>3, <1>4, <1>5

LEMMA ChallengeStep == ASSUME IInv, Challenge PROVE IInv'
<1>1. PICK ext \in 0..MaxBlocks :
        LET blockCount == IF ext # 0 THEN ext ELSE Cardinality(Stored(store))
        IN \E picked \in (IF known THEN SUBSET (1..blockCount) ELSE {{}}) :
            /\ known /\ blockCount > 0 => picked # {}
            /\ audit' = [NoAudit EXCEPT !.pc = "read",
                                        !.items = [i \in picked |-> Null]]
            /\ quiet' = (Idle /\ picked # {} /\ picked \subseteq DOMAIN file)
  BY DEF Challenge
<1> DEFINE blockCount == IF ext # 0 THEN ext ELSE Cardinality(Stored(store))
<1>2. PICK picked \in (IF known THEN SUBSET (1..blockCount) ELSE {{}}) :
            /\ audit' = [NoAudit EXCEPT !.pc = "read",
                                        !.items = [i \in picked |-> Null]]
            /\ quiet' = (Idle /\ picked # {} /\ picked \subseteq DOMAIN file)
  BY <1>1
<1>3. blockCount \in 0..MaxBlocks
  <2>1. MaxBlocks \in Nat
    BY BoundsAssumption
  <2>2. /\ IsFiniteSet(0..(MaxBlocks - 1)) /\ Cardinality(0..(MaxBlocks - 1)) = MaxBlocks
    BY <2>1, FS_Interval
  <2>3. IsFiniteSet(Stored(store)) /\ Cardinality(Stored(store)) <= MaxBlocks
    BY <2>2, Basics, FS_Subset
  <2>4. Cardinality(Stored(store)) \in Nat
    BY <2>3, FS_CardinalityType
  <2> QED
    BY <2>1, <2>3, <2>4
<1> HIDE DEF blockCount
<1>4. picked \subseteq 1..MaxBlocks
  <2>1. picked \subseteq 1..blockCount
    BY <1>2
  <2> QED
    BY <1>3, <2>1, BoundsAssumption
<1>5. /\ audit' = [pc |-> "read", items |-> [i \in picked |-> Null], want |-> << >>,
                   proof |-> << >>, served |-> << >>, verdict |-> "none"]
      /\ audit'.pc = "read" /\ audit'.items = [i \in picked |-> Null]
      /\ audit'.want = << >> /\ audit'.served = << >> /\ audit'.verdict = "none"
  BY <1>2 DEF NoAudit
<1>6. AuditShape' /\ AuditType'
  BY <1>4, <1>5 DEF AuditShape, AuditType, Range
<1>7. UNCHANGED <<admin, dht, storage>>
  BY DEF Challenge
<1>8. QuietInv'
  <2>1. op # "none" \/ DOMAIN file = {}
    BY DEF IInv, PhaseInv
  <2> QED
    BY <1>2, <1>5, <1>7, <2>1 DEF QuietInv, IInv, PhaseInv, EditOps, Idle, admin, dht, storage
<1>9. QuietAudit' /\ quiet' \in BOOLEAN
  BY <1>2, <1>5 DEF QuietAudit
<1>10. FreshInv'
  BY <1>5, <1>7 DEF IInv, FreshInv, Was, admin, dht, storage
<1> QED
  BY <1>6, <1>7, <1>8, <1>9, <1>10, AuditFrame

(* The audit ends with an error or a verdict.                              *)
LEMMA DoneStep ==
  ASSUME IInv, NEW verdict \in {"ok", "rejected", "error"}, audit' = Done(verdict),
         quiet => verdict = "ok", UNCHANGED <<admin, dht, storage, quiet>>
  PROVE  IInv'
<1>1. /\ audit' = [pc |-> "done", items |-> << >>, want |-> << >>,
                   proof |-> << >>, served |-> << >>, verdict |-> verdict]
      /\ audit'.pc = "done" /\ audit'.items = << >>
      /\ audit'.want = << >> /\ audit'.served = << >> /\ audit'.verdict = verdict
  BY DEF Done, NoAudit
<1>2. AuditShape' /\ AuditType'
  BY <1>1 DEF AuditShape, AuditType, Range
<1>3. QuietInv' /\ QuietAudit' /\ quiet' \in BOOLEAN
  BY <1>1 DEF QuietInv, QuietAudit, IInv, PTypeOK
<1>4. FreshInv'
  BY <1>1 DEF IInv, FreshInv, Was, admin, dht, storage
<1> QED
  BY <1>2, <1>3, <1>4, AuditFrame

LEMMA ReadStep == ASSUME IInv, ReadMetadata PROVE IInv'
<1>1. PICK i \in Unread :
       audit' = IF store[i - 1] = Null
                THEN Done("error")
                ELSE [audit EXCEPT !.items[i] = store[i - 1],
                                   !.want = Override([j \in {i} |-> vouched[i]], @)]
  BY DEF ReadMetadata
<1>2. /\ audit.pc = "read" /\ UNCHANGED <<admin, dht, storage, quiet>>
      /\ i \in DOMAIN audit.items /\ audit.items[i] = Null /\ i \in 1..MaxBlocks
  BY DEF ReadMetadata, Unread, IInv, PTypeOK
<1>3. i \in Nat /\ i - 1 \in Index
  BY <1>2, Basics
<1>4. CASE store[i - 1] = Null
  <2>1. ~quiet
    <3>1. ASSUME quiet PROVE FALSE
      <4>1. i \in 1..Len(file) /\ Stored(store) = 0..(Len(file) - 1)
        BY <1>2, <3>1, Basics DEF IInv, QuietInv, StoreInv
      <4>2. i - 1 \in Stored(store)
        BY <4>1, Basics
      <4> QED
        BY <1>4, <4>2 DEF Stored
    <3> QED
      BY <3>1
  <2> QED
    BY <1>1, <1>2, <1>4, <2>1, DoneStep
<1>5. CASE store[i - 1] # Null
  <2> DEFINE items == [audit.items EXCEPT ![i] = store[i - 1]]
             want == Override([j \in {i} |-> vouched[i]], audit.want)
  <2>1. /\ audit' = [pc |-> "read", items |-> items, want |-> want,
                     proof |-> audit.proof, served |-> audit.served,
                     verdict |-> audit.verdict]
        /\ audit'.pc = "read" /\ audit'.items = items
        /\ audit'.want = want /\ audit'.served = audit.served
        /\ audit'.proof = audit.proof /\ audit'.verdict = audit.verdict
    BY <1>1, <1>2, <1>5 DEF IInv, AuditShape
  <2>2. /\ DOMAIN items = DOMAIN audit.items /\ items[i] = store[i - 1]
        /\ \A j \in DOMAIN audit.items : j # i => items[j] = audit.items[j]
    BY <1>2
  <2>3. /\ DOMAIN want = {i} \cup DOMAIN audit.want /\ want[i] = vouched[i]
        /\ \A j \in DOMAIN audit.want : j # i => want[j] = audit.want[j]
    BY DEF Override
  <2> HIDE DEF items, want
  <2>4. store[i - 1] \in Metadata
    BY <1>3, <1>5 DEF IInv, PTypeOK
  <2>5. AuditShape' /\ AuditType'
    <3>1. Range(items) \subseteq Metadata \cup {Null}
      BY <2>2, <2>4 DEF Range, IInv, PTypeOK
    <3>2. AuditType'
      BY <1>2, <2>1, <2>2, <2>3, <3>1 DEF AuditType, IInv, PTypeOK
    <3> QED
      BY <2>1, <3>2 DEF AuditShape
  <2>6. QuietInv' /\ QuietAudit' /\ quiet' \in BOOLEAN
    <3>1. QuietInv'
      BY <1>2, <2>1, <2>2 DEF QuietInv, IInv, admin, dht, storage
    <3> QED
      BY <1>2, <2>1, <3>1 DEF QuietAudit, IInv, PTypeOK
  <2>7. FreshInv'
    <3> SUFFICES ASSUME ~moved PROVE FreshInv'
      BY <1>2 DEF FreshInv, dht
    <3>1. UNCHANGED <<tags, store, vouched, moved>>
      BY <1>2 DEF dht, storage
    <3>2. ASSUME NEW j \in DOMAIN items, items[j] # Null
          PROVE  /\ Was(items[j], j) /\ j \in DOMAIN want
                 /\ items[j] = store[j - 1] => want[j] = vouched[j]
                 /\ tags[j - 1] # Null /\ tags[j - 1].metadata = items[j] =>
                      tags[j - 1].scalar = accumulateBlockSegmentsScalar(want[j])
      <4>1. CASE j = i
        BY <1>2, <1>5, <2>2, <2>3, <4>1 DEF IInv, FreshInv, Was
      <4>2. CASE j # i
        <5>1. items[j] = audit.items[j] /\ j \in DOMAIN audit.items
          BY <2>2, <4>2
        <5>2. j \in DOMAIN audit.want
          BY <3>2, <5>1 DEF IInv, FreshInv
        <5>3. want[j] = audit.want[j] /\ j \in DOMAIN want
          BY <2>3, <4>2, <5>2
        <5> QED
          BY <3>2, <5>1, <5>3 DEF IInv, FreshInv
      <4> QED
        BY <4>1, <4>2
    <3> QED
      BY <2>1, <3>1, <3>2 DEF IInv, FreshInv, Was
  <2> QED
    BY <1>2, <2>5, <2>6, <2>7, AuditFrame
<1> QED
  BY <1>4, <1>5

LEMMA ProveStep == ASSUME IInv, Prove PROVE IInv'
<1> DEFINE acc == Accumulated(audit.items, tags)
           proof == Proof(audit.items, tags, blocks)
           served == [i \in acc |-> blocks[i]]
<1>1. /\ audit.pc = "read" /\ Unread = {} /\ UNCHANGED <<admin, dht, storage, quiet>>
      /\ audit' = IF acc \subseteq DOMAIN blocks
                  THEN [audit EXCEPT !.pc = "verify", !.proof = proof, !.served = served]
                  ELSE Done("error")
  BY DEF Prove
<1>2. \A i \in DOMAIN audit.items : audit.items[i] # Null
  BY <1>1 DEF Unread
<1>3. acc \subseteq DOMAIN audit.items /\ \A i \in acc : tags[i - 1] # Null
  BY DEF Accumulated
<1>4. /\ DOMAIN proof = acc
      /\ \A i \in acc : proof[i] = [tag |-> tags[i - 1],
                                    scalar |-> accumulateBlockSegmentsScalar(blocks[i])]
  BY DEF Proof
<1>5. ASSUME quiet
      PROVE  /\ acc = DOMAIN audit.items /\ blocks = file /\ acc \subseteq DOMAIN file
             /\ \A i \in acc : /\ audit.items[i] = store[i - 1]
                               /\ tags[i - 1] = Tag(i, store[i - 1], file[i])
  <2>1. /\ todo = {} /\ DOMAIN audit.items \subseteq DOMAIN file
        /\ \A i \in DOMAIN audit.items : audit.items[i] \in {Null, store[i - 1]}
    BY <1>1, <1>5 DEF IInv, QuietInv
  <2>2. /\ Stored(tags) = 0..(Len(file) - 1) /\ blocks = file
        /\ \A i \in DOMAIN file : tags[i - 1] = Tag(i, store[i - 1], file[i])
    BY <2>1 DEF IInv, TagsInv, BlocksInv
  <2>3. \A i \in DOMAIN file : i - 1 \in Stored(tags)
    BY <2>2, Basics
  <2> QED
    BY <1>2, <2>1, <2>2, <2>3 DEF Accumulated, Stored
<1> HIDE DEF acc, proof
<1>6. CASE ~(acc \subseteq DOMAIN blocks)
  BY <1>1, <1>5, <1>6, DoneStep
<1>7. CASE acc \subseteq DOMAIN blocks
  <2>1. /\ audit' = [pc |-> "verify", items |-> audit.items, want |-> audit.want,
                     proof |-> proof, served |-> served, verdict |-> audit.verdict]
        /\ audit'.pc = "verify" /\ audit'.items = audit.items
        /\ audit'.want = audit.want /\ audit'.served = served
        /\ audit'.proof = proof /\ audit'.verdict = audit.verdict
    BY <1>1, <1>7 DEF IInv, AuditShape
  <2>2. AuditShape' /\ AuditType'
    BY <1>3, <2>1 DEF AuditShape, AuditType, IInv, PTypeOK
  <2>3. QuietInv'
    <3> SUFFICES ASSUME quiet PROVE QuietInv'
      BY <1>1, <2>1 DEF QuietInv
    <3>1. UNCHANGED <<todo, op, file, store, quiet>>
      BY <1>1 DEF admin, dht
    <3>2. \A i \in DOMAIN audit.items :
             /\ audit.items[i] = store[i - 1]
             /\ proof[i] = [tag |-> Tag(i, store[i - 1], file[i]),
                            scalar |-> accumulateBlockSegmentsScalar(file[i])]
      BY <1>4, <1>5
    <3>3. DOMAIN proof = DOMAIN audit.items
      BY <1>4, <1>5
    <3>4. /\ todo = {} /\ op = "done"
          /\ DOMAIN audit.items # {} /\ DOMAIN audit.items \subseteq DOMAIN file
      BY <1>1 DEF IInv, QuietInv
    <3> QED
      BY <2>1, <3>1, <3>2, <3>3, <3>4 DEF QuietInv, Tag
  <2>4. QuietAudit' /\ quiet' \in BOOLEAN
    BY <1>1, <2>1 DEF QuietAudit, IInv, PTypeOK
  <2>5. FreshInv'
    <3> SUFFICES ASSUME ~moved PROVE FreshInv'
      BY <1>1 DEF FreshInv, dht
    <3>1. UNCHANGED <<tags, store, vouched, moved>>
      BY <1>1 DEF dht, storage
    <3>2. \A i \in acc :
             /\ proof[i].scalar = accumulateBlockSegmentsScalar(served[i])
             /\ proof[i].tag.metadata = audit.items[i] =>
                  proof[i].tag.scalar = accumulateBlockSegmentsScalar(audit.want[i])
      <4> SUFFICES ASSUME NEW i \in acc
                   PROVE  /\ proof[i].scalar = accumulateBlockSegmentsScalar(blocks[i])
                          /\ proof[i].tag.metadata = audit.items[i] =>
                               proof[i].tag.scalar = accumulateBlockSegmentsScalar(audit.want[i])
        OBVIOUS
      <4>1. /\ i \in DOMAIN audit.items /\ tags[i - 1] # Null /\ audit.items[i] # Null
        BY <1>2, <1>3
      <4>2. tags[i - 1].metadata = audit.items[i] =>
              tags[i - 1].scalar = accumulateBlockSegmentsScalar(audit.want[i])
        BY <4>1 DEF IInv, FreshInv
      <4> QED
        BY <1>4, <4>2
    <3> HIDE DEF served
    <3> QED
      BY <1>4, <2>1, <3>1, <3>2 DEF IInv, FreshInv, Was
  <2> QED
    BY <1>1, <2>2, <2>3, <2>4, <2>5, AuditFrame
<1> QED
  BY <1>6, <1>7

LEMMA VerifyStep == ASSUME IInv, Verify PROVE IInv'
<1>1. /\ audit.pc = "verify" /\ UNCHANGED <<admin, dht, storage, quiet>>
      /\ audit' = Done(IF Accepted THEN "ok" ELSE "rejected")
  BY DEF Verify
<1>2. ASSUME quiet PROVE Accepted
  <2>1. /\ DOMAIN audit.items # {} /\ DOMAIN audit.proof = DOMAIN audit.items
        /\ \A i \in DOMAIN audit.items :
             /\ audit.items[i] = store[i - 1]
             /\ audit.proof[i] = [tag |-> Tag(i, store[i - 1], file[i]),
                                  scalar |-> accumulateBlockSegmentsScalar(file[i])]
    BY <1>1, <1>2 DEF IInv, QuietInv
  <2>2. \A i \in DOMAIN audit.items :
           /\ audit.proof[i].tag.blockIndex = i
           /\ audit.proof[i].tag.metadata = audit.items[i]
           /\ audit.proof[i].tag.scalar = audit.proof[i].scalar
    <3> TAKE i \in DOMAIN audit.items
    <3> DEFINE t == Tag(i, store[i - 1], file[i])
               c == accumulateBlockSegmentsScalar(file[i])
    <3>1. t.blockIndex = i /\ t.metadata = store[i - 1] /\ t.scalar = c
      BY DEF Tag
    <3>2. audit.items[i] = store[i - 1] /\ audit.proof[i] = [tag |-> t, scalar |-> c]
      BY <2>1
    <3> HIDE DEF t, c
    <3>3. audit.proof[i].tag = t /\ audit.proof[i].scalar = c
      BY <3>2
    <3> QED
      BY <3>1, <3>2, <3>3
  <2> QED
    BY <1>1, <2>1, <2>2 DEF Accepted, Equation
<1> QED
  BY <1>1, <1>2, DoneStep

-----------------------------------------------------------------------------
(***************************************************************************)
(* The beginning of an edit, or of all.                                    *)
(***************************************************************************)
(* The windows that are planned cover what is wanted.                      *)
LEMMA PlanPoints ==
  ASSUME NEW o, NEW i, NEW f \in Seq(Block), PlanTags(o, i, f),
         Wanted(o, i, f) \subseteq 1..Len(f)
  PROVE  /\ windows' \subseteq WindowStarts(f) /\ windows' # {}
         /\ todo' = {"sendTags", "sendBlocks", "generateTags"}
                      \cup (IF o = "Upload" THEN {} ELSE {"maintain"})
         /\ \A k \in 1..Len(f) : Wanted(o, i, f) = {} \/ k \in Wanted(o, i, f) =>
               \E s \in windows' : k \in InWindow(f, s)
<1> DEFINE wanted == Wanted(o, i, f)
<1>1. windows' = {s \in WindowStarts(f) : wanted = {} \/ wanted \cap InWindow(f, s) # {}}
  BY DEF PlanTags
<1>2. todo' = {"sendTags", "sendBlocks"} \cup (IF o = "Upload" THEN {} ELSE {"maintain"})
                 \cup (IF windows' = {} THEN {} ELSE {"generateTags"})
  BY DEF PlanTags
<1> HIDE DEF wanted
<1>3. ASSUME NEW k \in 1..Len(f), wanted = {} \/ k \in wanted
      PROVE  \E s \in windows' : k \in InWindow(f, s)
  <2>1. PICK s \in WindowStarts(f) : k \in InWindow(f, s)
    BY WindowsCover
  <2> QED
    BY <1>1, <1>3, <2>1
<1>4. windows' # {}
  <2>1. CASE wanted = {}
    <3>1. 0 \in WindowStarts(f)
      BY DEF WindowStarts
    <3> QED
      BY <1>1, <2>1, <3>1
  <2>2. CASE wanted # {}
    <3>1. PICK k \in wanted : k \in 1..Len(f)
      BY <2>2 DEF wanted
    <3> QED
      BY <1>3, <3>1
  <2> QED
    BY <2>1, <2>2
<1> QED
  BY <1>1, <1>2, <1>3, <1>4 DEF wanted

LEMMA UploadStep == ASSUME IInv, Upload PROVE IInv'
<1>1. /\ op = "none" /\ op' = "Upload" /\ at' = 0 /\ quiet' = FALSE
      /\ file' \in BoundedSeq(Block, MaxBlocks)
      /\ PlanTags(op', at', file')
      /\ UNCHANGED <<edits, newTags, known, store, vouched, moved, blocks, tags, audit>>
  BY DEF Upload, dht, storage
<1>2. file' \in Seq(Block) /\ Len(file') \in 0..MaxBlocks /\ DOMAIN file' = 1..Len(file')
  BY <1>1, FileType
<1>3. MaintainFirst
  BY DEF IInv, PhaseInv
<1>4. Wanted(op', at', file') = {}
  BY <1>1 DEF Wanted
<1>5. /\ windows' \subseteq WindowStarts(file') /\ windows' # {}
      /\ todo' = {"sendTags", "sendBlocks", "generateTags"}
      /\ \A k \in 1..Len(file') : \E s \in windows' : k \in InWindow(file', s)
  BY <1>1, <1>2, <1>3, <1>4, PlanPoints
<1>6. /\ todo = {} /\ file = << >> /\ vouched = << >> /\ Stored(store) = {}
      /\ Stored(tags) = {} /\ DOMAIN newTags = {}
  <2>1. todo = {} /\ file = << >>
    BY <1>1 DEF IInv, PhaseInv
  <2> QED
    BY <1>1, <2>1 DEF IInv, StoreInv, VouchedInv, TagsInv, NewTagsInv
<1>7. PTypeOK' /\ AuditShape'
  <2>1. PTypeOK
    BY DEF IInv
  <2>2. /\ {file', blocks', vouched'} \subseteq BoundedSeq(Block, MaxBlocks)
        /\ at' \in 0..MaxBlocks
    BY <1>1, <2>1, BoundsAssumption DEF PTypeOK
  <2> QED
    BY <1>1, <1>5, <2>1, <2>2 DEF PTypeOK, IInv, AuditShape
<1>8. PhaseInv'
  BY <1>1, <1>3, <1>5 DEF PhaseInv, EditOps
<1>9. StoreInv' /\ VouchedInv' /\ BlocksInv'
  <2>1. Stored(store)' = {}
    BY <1>1, <1>6 DEF Stored
  <2> QED
    BY <1>1, <1>5, <1>6, <2>1 DEF StoreInv, VouchedInv, BlocksInv
<1>10. NewTagsInv'
  BY <1>1, <1>2, <1>5, <1>6 DEF NewTagsInv, ToTag
<1>11. TagsInv'
  <2>1. Stored(tags)' = {} /\ OldLen' = 0 /\ 0..(OldLen' - 1) = {}
    BY <1>1, <1>6 DEF Stored, OldLen
  <2>2. \A i \in DOMAIN file' : ~Kept(i)'
    BY <1>1 DEF Kept
  <2> QED
    BY <1>5, <2>1, <2>2 DEF TagsInv
<1>12. QuietInv' /\ QuietAudit' /\ FreshInv'
  BY <1>1 DEF IInv, QuietInv, QuietAudit, FreshInv, Was
<1> QED
  BY <1>7, <1>8, <1>9, <1>10, <1>11, <1>12 DEF IInv

(* What each of the three edits does to the file.                          *)
LEMMA EditPoints ==
  ASSUME IInv, Edit
  PROVE  /\ file' \in BoundedSeq(Block, MaxBlocks) /\ Len(file') \in 0..MaxBlocks
         /\ op' \in EditOps /\ OldLen' = Len(file)
         /\ Wanted(op', at', file') \subseteq 1..Len(file')
         /\ op' \in {"Update", "Insert"} => at' \in 1..Len(file')
         /\ op' = "Delete" => at' \in 1..(Len(file') + 1)
         /\ op' = "Update" => file' = ReplaceAt(file, at', file'[at'])
         /\ op' = "Insert" => file' = InsertAt(file, at', file'[at'])
         /\ op' = "Delete" => file' = RemoveAt(file, at')
         /\ \A i \in 1..Len(file') : Kept(i)' => i \in 1..Len(file) /\ file'[i] = file[i]
<1> DEFINE n == Len(file)
<1>1. /\ file \in Seq(Block) /\ n \in 0..MaxBlocks /\ DOMAIN file = 1..n /\ MaxBlocks \in Nat
      /\ n \in Nat
  BY Basics, BoundsAssumption
<1> DEFINE Goal(m) ==
         /\ file' \in Seq(Block) /\ Len(file') = m /\ m \in 0..MaxBlocks
         /\ op' \in EditOps /\ OldLen' = n
         /\ Wanted(op', at', file') \subseteq 1..m
         /\ op' \in {"Update", "Insert"} => at' \in 1..m
         /\ op' = "Delete" => at' \in 1..(m + 1)
         /\ op' = "Update" => file' = ReplaceAt(file, at', file'[at'])
         /\ op' = "Insert" => file' = InsertAt(file, at', file'[at'])
         /\ op' = "Delete" => file' = RemoveAt(file, at')
         /\ \A i \in 1..m : Kept(i)' => i \in 1..n /\ file'[i] = file[i]
<1>3. ASSUME op' = "Update", UpdateFile PROVE Goal(n)
  <2>1. PICK b \in Block : file' = ReplaceAt(file, at', b) /\ at' \in 1..n
    BY <1>3 DEF UpdateFile
  <2>2. file' = [file EXCEPT ![at'] = b]
    BY <2>1 DEF ReplaceAt
  <2>3. file' \in Seq(Block) /\ Len(file') = n /\ file'[at'] = b
    BY <1>1, <2>1, <2>2
  <2>4. Wanted(op', at', file') = {at'}
    BY <1>3 DEF Wanted
  <2>5. \A i \in 1..n : Kept(i)' => file'[i] = file[i]
    BY <1>1, <1>3, <2>1, <2>2 DEF Kept
  <2>6. OldLen' = n
    BY <1>3, <2>3 DEF OldLen
  <2> QED
    BY <1>1, <1>3, <2>1, <2>3, <2>4, <2>5, <2>6 DEF EditOps
<1>4. ASSUME op' = "Insert", InsertInFile PROVE Goal(n + 1)
  <2>1. PICK b \in Block : /\ file' = InsertAt(file, at', b)
                           /\ at' \in 1..(n + 1) /\ n < MaxBlocks
    BY <1>4 DEF InsertInFile
  <2>2. file' = [k \in 1..(n + 1) |-> IF k < at' THEN file[k] ELSE IF k = at' THEN b ELSE file[k - 1]]
    BY <1>1, <2>1, InsertAtPoints
  <2>3. \A k \in 1..(n + 1) :
          (IF k < at' THEN file[k] ELSE IF k = at' THEN b ELSE file[k - 1]) \in Block
    <3> TAKE k \in 1..(n + 1)
    <3>1. CASE k < at'
      BY <1>1, <2>1, <3>1
    <3>2. CASE k = at'
      BY <2>1, <3>2
    <3>3. CASE k > at'
      <4>1. k - 1 \in 1..n
        BY <1>1, <2>1, <3>3
      <4> QED
        BY <1>1, <2>1, <3>3, <4>1
    <3> QED
      BY <1>1, <2>1, <3>1, <3>2, <3>3
  <2>4. file' \in [1..(n + 1) -> Block] /\ n + 1 \in Nat
    BY <1>1, <2>2, <2>3
  <2>5. file' \in Seq(Block) /\ Len(file') = n + 1 /\ file'[at'] = b
    BY <1>1, <2>1, <2>2, <2>4
  <2>6. Wanted(op', at', file') = at'..(n + 1)
    BY <1>4, <2>5 DEF Wanted
  <2>7. \A i \in 1..(n + 1) : Kept(i)' => i \in 1..n /\ file'[i] = file[i]
    BY <1>1, <1>4, <2>1, <2>2 DEF Kept
  <2>8. OldLen' = n
    BY <1>1, <1>4, <2>5 DEF OldLen
  <2> QED
    BY <1>1, <1>4, <2>1, <2>5, <2>6, <2>7, <2>8 DEF EditOps
<1>5. ASSUME op' = "Delete", DeleteInFile PROVE Goal(n - 1)
  <2>1. file' = RemoveAt(file, at') /\ at' \in 1..n
    BY <1>5 DEF DeleteInFile
  <2>2. file' = [k \in 1..(n - 1) |-> IF k < at' THEN file[k] ELSE file[k + 1]]
    BY <1>1, <2>1, RemoveAtPoints
  <2>3. \A k \in 1..(n - 1) : (IF k < at' THEN file[k] ELSE file[k + 1]) \in Block
    BY <1>1, <2>1
  <2>4. file' \in [1..(n - 1) -> Block] /\ n - 1 \in Nat
    BY <1>1, <2>1, <2>2, <2>3
  <2>5. file' \in Seq(Block) /\ Len(file') = n - 1
    BY <2>4
  <2>6. Wanted(op', at', file') = at'..(n - 1)
    BY <1>5, <2>5 DEF Wanted
  <2>7. \A i \in 1..(n - 1) : Kept(i)' => i \in 1..n /\ file'[i] = file[i]
    BY <1>1, <1>5, <2>1, <2>2 DEF Kept
  <2>8. OldLen' = n
    BY <1>1, <1>5, <2>5 DEF OldLen
  <2> QED
    BY <1>1, <1>5, <2>1, <2>4, <2>5, <2>6, <2>7, <2>8 DEF EditOps
<1>6. \E m : Goal(m)
  BY <1>3, <1>4, <1>5 DEF Edit
<1>7. Goal(Len(file'))
  BY <1>6
<1>8. file' \in BoundedSeq(Block, MaxBlocks)
  BY <1>1, <1>7, BoundedSeqPoints
<1> QED
  BY <1>7, <1>8

LEMMA EditStep == ASSUME IInv, Edit PROVE IInv'
<1>1. /\ todo = {} /\ op # "none" /\ edits' = edits + 1 /\ edits < MaxEdits
      /\ quiet' = FALSE /\ op' \in Ops /\ PlanTags(op', at', file')
      /\ UNCHANGED <<newTags, known, store, vouched, moved, blocks, tags, audit>>
  BY DEF Edit, Idle, dht, storage
<1>2. MaintainFirst /\ op = "done"
  BY <1>1 DEF IInv, PhaseInv
<1>3. /\ vouched = file /\ Stored(store) = 0..(Len(file) - 1) /\ DOMAIN newTags = {}
      /\ Stored(tags) = 0..(Len(file) - 1)
      /\ \A i \in DOMAIN file : tags[i - 1] = Tag(i, store[i - 1], file[i])
      /\ \A j \in Stored(store) : store[j].version <= edits + 1
  BY <1>1, <1>2 DEF IInv, VouchedInv, StoreInv, NewTagsInv, TagsInv
<1>4. file' \in Seq(Block) /\ Len(file') \in 0..MaxBlocks /\ DOMAIN file' = 1..Len(file')
  BY EditPoints, FileType
<1>5. op' \in EditOps /\ OldLen' = Len(file) /\ DOMAIN file = 1..Len(file)
  BY EditPoints, Basics
<1>6. /\ windows' \subseteq WindowStarts(file') /\ windows' # {}
      /\ todo' = {"sendTags", "sendBlocks", "generateTags", "maintain"}
      /\ \A k \in 1..Len(file') : Wanted(op', at', file') = {} \/ k \in Wanted(op', at', file') =>
            \E s \in windows' : k \in InWindow(file', s)
  <2>1. Wanted(op', at', file') \subseteq 1..Len(file')
    BY EditPoints
  <2> QED
    BY <1>1, <1>2, <1>4, <1>5, <2>1, PlanPoints DEF EditOps
<1>7. PTypeOK' /\ AuditShape'
  <2>1. PTypeOK
    BY DEF IInv
  <2>2. {file', blocks', vouched'} \subseteq BoundedSeq(Block, MaxBlocks)
    BY <1>1, <2>1, EditPoints DEF PTypeOK
  <2>3. edits' \in 0..MaxEdits
    BY <1>1, <2>1, BoundsAssumption DEF PTypeOK
  <2>4. at' \in 0..MaxBlocks
    <3>1. op' \in {"Update", "Insert"} \/ op' = "Delete"
      BY <1>5 DEF EditOps
    <3>2. op' \in {"Update", "Insert"} => at' \in 1..Len(file')
      BY EditPoints
    <3>3. op' = "Delete" => at' \in 1..(Len(file') + 1)
      BY EditPoints
    <3>4. op' = "Delete" => Len(file') + 1 = Len(file)
      BY <1>4, <1>5 DEF OldLen
    <3>5. Len(file) \in 0..MaxBlocks /\ MaxBlocks \in Nat
      BY Basics, BoundsAssumption
    <3> QED
      BY <1>4, <3>1, <3>2, <3>3, <3>4, <3>5
  <2> QED
    BY <1>1, <1>6, <2>1, <2>2, <2>3, <2>4 DEF PTypeOK, IInv, AuditShape
<1>8. PhaseInv'
  BY <1>2, <1>5, <1>6, EditPoints DEF PhaseInv, EditOps
<1>9. StoreInv'
  <2>1. Stored(store)' = 0..(OldLen' - 1)
    BY <1>1, <1>3, <1>5 DEF Stored
  <2> QED
    BY <1>1, <1>3, <1>5, <1>6, <2>1 DEF StoreInv, EditOps, Stored
<1>10. VouchedInv'
  <2>1. Len(vouched') = OldLen' /\ vouched' = file
    BY <1>1, <1>3, <1>5
  <2> QED
    BY <1>5, <1>6, <2>1, EditPoints DEF VouchedInv, EditOps
<1>11. NewTagsInv'
  BY <1>1, <1>3, <1>4, <1>6 DEF NewTagsInv, ToTag
<1>12. TagsInv'
  <2>1. Stored(tags)' = 0..(OldLen' - 1)
    BY <1>1, <1>3, <1>5 DEF Stored
  <2>2. ASSUME NEW i \in DOMAIN file', Kept(i)'
        PROVE  tags'[i - 1] = Tag(i, store'[i - 1], file'[i])
    <3>1. i \in DOMAIN file /\ file'[i] = file[i]
      BY <1>4, <1>5, <2>2, EditPoints
    <3> QED
      BY <1>1, <1>3, <3>1
  <2> QED
    BY <1>6, <2>1, <2>2 DEF TagsInv, Tag
<1>13. BlocksInv'
  BY <1>6 DEF BlocksInv
<1>14. QuietInv' /\ QuietAudit' /\ FreshInv'
  BY <1>1 DEF IInv, QuietInv, QuietAudit, FreshInv, Was
<1> QED
  BY <1>7, <1>8, <1>9, <1>10, <1>11, <1>12, <1>13, <1>14 DEF IInv

-----------------------------------------------------------------------------
(***************************************************************************)
(* The work on an edit.                                                    *)
(***************************************************************************)
(* An audit is not quiet while there is work.                              *)
LEMMA AuditUntouched ==
  ASSUME IInv, todo # {}, UNCHANGED <<audit, quiet>>
  PROVE  QuietInv' /\ QuietAudit' /\ AuditShape'
  BY DEF IInv, QuietInv, QuietAudit, AuditShape

(* What maintenance() makes of the store and of what it vouches for.       *)
LEMMA MaintainPoints ==
  ASSUME IInv, Maintain
  PROVE  /\ vouched' = file
         /\ store' \in [Index -> Metadata \cup {Null}]
         /\ Stored(store') = 0..(Len(file) - 1)
         /\ \A j \in Stored(store') : store'[j].version <= edits + 1
         /\ \A i \in 1..Len(file) : Kept(i) => store'[i - 1] = store[i - 1]
         /\ op = "Update" => /\ store'[at - 1].version > store[at - 1].version
                             /\ \A j \in Index : j # at - 1 => store'[j] = store[j]
                             /\ at - 1 \in Stored(store)
<1> DEFINE n == Len(file)
<1>1. /\ n \in 0..MaxBlocks /\ DOMAIN file = 1..n /\ n \in Nat
      /\ MaxBlocks \in Nat /\ SizeMax \in Nat /\ MaxBlocks <= SizeMax
      /\ MaxEdits \in Nat /\ Null \notin Metadata
  BY Basics, BoundsAssumption, NullAssumption
<1>2. /\ "maintain" \in todo /\ op \in EditOps
      /\ store \in [Index -> Metadata \cup {Null}] /\ edits \in 0..MaxEdits
      /\ Stored(store) = 0..(OldLen - 1) /\ OldLen \in 0..MaxBlocks
      /\ \A j \in Stored(store) : store[j].version <= edits
  BY Basics DEF Maintain, IInv, PhaseInv, PTypeOK, StoreInv
<1>3. \A j \in Index : j \in 0..(OldLen - 1) <=> store[j] # Null
  BY <1>2 DEF Stored
<1>4. \A x \in Metadata : x.version \in 1..(MaxEdits + 1)
  BY DEF Metadata
<1>5. \A j \in 0..(OldLen - 1) : /\ j \in Index /\ store[j] \in Metadata
                                 /\ store[j].version \in Nat /\ store[j].version <= edits
  <2> TAKE j \in 0..(OldLen - 1)
  <2>1. j \in Index /\ j \in Stored(store)
    BY <1>2 DEF Stored
  <2> QED
    BY <1>2, <1>3, <1>4, <2>1
<1>6. CASE op = "Update"
  <2>1. PICK now \in Time :
           /\ store' = [store EXCEPT ![at - 1] =
                          [version |-> @.version + 1, timestamp |-> now]]
           /\ vouched' = ReplaceAt(vouched, at, file[at])
    BY <1>6 DEF Maintain
  <2>2. OldLen = n /\ at \in 1..n /\ at - 1 \in 0..(OldLen - 1) /\ vouched' = file
    BY <1>1, <1>2, <1>6, <2>1 DEF IInv, PhaseInv, VouchedInv, OldLen
  <2> DEFINE x == [version |-> store[at - 1].version + 1, timestamp |-> now]
  <2>3. x \in Metadata /\ x.version = store[at - 1].version + 1
    BY <1>1, <1>2, <1>5, <2>2 DEF Metadata
  <2>4. store' = [store EXCEPT ![at - 1] = x]
    BY <2>1
  <2> HIDE DEF x
  <2>5. /\ store' \in [Index -> Metadata \cup {Null}] /\ store'[at - 1] = x
        /\ \A j \in Index : j # at - 1 => store'[j] = store[j]
    BY <1>2, <1>5, <2>2, <2>3, <2>4
  <2>6. Stored(store') = 0..(n - 1)
    <3>1. \A j \in Index : store'[j] # Null <=> store[j] # Null
      BY <1>1, <1>3, <2>2, <2>3, <2>5
    <3> QED
      BY <1>2, <2>2, <3>1 DEF Stored
  <2>7. \A j \in 0..(n - 1) : store'[j].version <= edits + 1
    BY <1>2, <1>5, <2>2, <2>3, <2>5
  <2>8. \A i \in 1..n : Kept(i) => store'[i - 1] = store[i - 1]
    <3>1. \A i \in 1..n : i - 1 \in Index /\ (i # at => i - 1 # at - 1)
      BY <1>1, <2>2 DEF Index
    <3> QED
      BY <1>6, <2>5, <3>1 DEF Kept, EditOps
  <2>9. /\ store'[at - 1].version > store[at - 1].version /\ at - 1 \in Stored(store)
        /\ store[at - 1].version \in Nat
    BY <1>2, <1>5, <2>2, <2>3, <2>5
  <2> QED
    BY <2>2, <2>5, <2>6, <2>7, <2>8, <2>9
<1>7. CASE op = "Insert"
  <2>1. PICK now \in Time :
           /\ store' = InsertEntry(store, at - 1, [version |-> 1, timestamp |-> now])
           /\ vouched' = InsertAt(vouched, at, file[at])
    BY <1>7 DEF Maintain
  <2>2. OldLen = n - 1 /\ at \in 1..n /\ vouched' = file
    BY <1>1, <1>2, <1>7, <2>1 DEF IInv, PhaseInv, VouchedInv, OldLen
  <2> DEFINE x == [version |-> 1, timestamp |-> now]
  <2>3. x \in Metadata /\ x.version = 1
    BY <1>1 DEF Metadata
  <2>4. store[SizeMax] = Null /\ SizeMax \in Index
    BY <1>1, <1>3, <2>2 DEF Index
  <2> HIDE DEF x
  <2>5. store' = [j \in Index |-> IF j = at - 1 THEN x
                                  ELSE IF j > at - 1 THEN store[j - 1] ELSE store[j]]
    BY <2>1, <2>4 DEF InsertEntry, x
  <2>6. \A j \in Index : j > at - 1 => j - 1 \in Index
    BY <1>1, <2>2 DEF Index
  <2>7. store' \in [Index -> Metadata \cup {Null}]
    BY <1>2, <2>3, <2>5, <2>6
  <2>8. \A j \in Index : store'[j] # Null <=> j \in 0..(n - 1)
    <3> TAKE j \in Index
    <3>1. j \in Nat /\ at \in Nat
      BY <1>1, <2>2 DEF Index
    <3>2. CASE j = at - 1
      BY <1>1, <2>2, <2>3, <2>5, <3>1, <3>2
    <3>3. CASE j > at - 1
      <4>1. j - 1 \in 0..(OldLen - 1) <=> j \in 0..(n - 1)
        BY <1>1, <2>2, <3>1, <3>3
      <4> QED
        BY <1>3, <2>5, <2>6, <3>1, <3>3, <4>1
    <3>4. CASE j < at - 1
      <4>1. j \in 0..(OldLen - 1) /\ j \in 0..(n - 1)
        BY <1>1, <2>2, <3>1, <3>4
      <4> QED
        BY <1>3, <2>5, <3>1, <3>4, <4>1
    <3> QED
      BY <3>1, <3>2, <3>3, <3>4, <2>2
  <2>9. Stored(store') = 0..(n - 1)
    <3>1. \A j \in 0..(n - 1) : j \in Index
      BY <1>1 DEF Index
    <3> QED
      BY <2>8, <3>1 DEF Stored
  <2>10. \A j \in 0..(n - 1) : store'[j].version <= edits + 1
    <3> TAKE j \in 0..(n - 1)
    <3>1. j \in Index /\ j \in Nat /\ at \in Nat
      BY <1>1, <2>2 DEF Index
    <3>2. CASE j = at - 1
      BY <1>2, <2>3, <2>5, <3>1, <3>2
    <3>3. CASE j > at - 1
      <4>1. j - 1 \in 0..(OldLen - 1)
        BY <1>1, <2>2, <3>1, <3>3
      <4>2. store'[j] = store[j - 1]
        BY <2>5, <3>1, <3>3
      <4> QED
        BY <1>2, <1>5, <4>1, <4>2
    <3>4. CASE j < at - 1
      <4>1. j \in 0..(OldLen - 1)
        BY <1>1, <2>2, <3>1, <3>4
      <4>2. store'[j] = store[j]
        BY <2>5, <3>1, <3>4
      <4> QED
        BY <1>2, <1>5, <4>1, <4>2
    <3> QED
      BY <3>1, <3>2, <3>3, <3>4, <2>2
  <2>11. \A i \in 1..n : Kept(i) => store'[i - 1] = store[i - 1]
    <3>1. \A i \in 1..n : i - 1 \in Index /\ (i < at => i - 1 < at - 1)
      BY <1>1, <2>2 DEF Index
    <3> QED
      BY <1>1, <1>7, <2>2, <2>5, <3>1 DEF Kept
  <2> QED
    BY <1>7, <2>2, <2>7, <2>9, <2>10, <2>11
<1>8. CASE op = "Delete"
  <2>1. /\ store' = DeleteEntry(store, at - 1) /\ vouched' = RemoveAt(vouched, at)
    BY <1>8 DEF Maintain
  <2>2. OldLen = n + 1 /\ at \in 1..(n + 1) /\ vouched' = file
    BY <1>1, <1>2, <1>8, <2>1 DEF IInv, PhaseInv, VouchedInv, OldLen
  <2>3. store' = [j \in Index |-> IF j < at - 1 THEN store[j]
                                  ELSE IF j < SizeMax THEN store[j + 1] ELSE Null]
    BY <2>1 DEF DeleteEntry
  <2>4. \A j \in Index : j < SizeMax => j + 1 \in Index
    BY <1>1 DEF Index
  <2>5. store' \in [Index -> Metadata \cup {Null}]
    BY <1>2, <2>3, <2>4
  <2>6. \A j \in Index : store'[j] # Null <=> j \in 0..(n - 1)
    <3> TAKE j \in Index
    <3>1. j \in Nat /\ at \in Nat /\ j <= SizeMax
      BY <1>1, <2>2 DEF Index
    <3>2. CASE j < at - 1
      <4>1. j \in 0..(OldLen - 1) /\ j \in 0..(n - 1)
        BY <1>1, <2>2, <3>1, <3>2
      <4> QED
        BY <1>3, <2>3, <3>1, <3>2, <4>1
    <3>3. CASE ~(j < at - 1) /\ j < SizeMax
      <4>1. j + 1 \in 0..(OldLen - 1) <=> j \in 0..(n - 1)
        BY <1>1, <2>2, <3>1
      <4> QED
        BY <1>3, <2>3, <2>4, <3>1, <3>3, <4>1
    <3>4. CASE ~(j < at - 1) /\ j = SizeMax
      <4>1. store'[j] = Null /\ j \notin 0..(n - 1)
        BY <1>1, <1>2, <2>2, <2>3, <3>1, <3>4
      <4> QED
        BY <4>1
    <3> QED
      BY <1>1, <3>1, <3>2, <3>3, <3>4
  <2>7. Stored(store') = 0..(n - 1)
    <3>1. \A j \in 0..(n - 1) : j \in Index
      BY <1>1 DEF Index
    <3> QED
      BY <2>6, <3>1 DEF Stored
  <2>8. \A j \in 0..(n - 1) : store'[j].version <= edits + 1
    <3> TAKE j \in 0..(n - 1)
    <3>1. j \in Index /\ j \in Nat /\ at \in Nat /\ j < SizeMax
      BY <1>1, <2>2 DEF Index
    <3>2. j \in 0..(OldLen - 1) /\ j + 1 \in 0..(OldLen - 1)
      BY <1>1, <2>2
    <3>3. store'[j] = store[j] \/ store'[j] = store[j + 1]
      BY <2>3, <3>1
    <3> QED
      BY <1>2, <1>5, <3>2, <3>3
  <2>9. \A i \in 1..n : Kept(i) => store'[i - 1] = store[i - 1]
    <3>1. \A i \in 1..n : i - 1 \in Index /\ (i < at => i - 1 < at - 1)
      BY <1>1, <2>2 DEF Index
    <3> QED
      BY <1>1, <1>8, <2>2, <2>3, <3>1 DEF Kept
  <2> QED
    BY <1>8, <2>2, <2>5, <2>7, <2>8, <2>9
<1> QED
  BY <1>2, <1>6, <1>7, <1>8 DEF EditOps

LEMMA MaintainStep == ASSUME IInv, Maintain PROVE IInv'
<1>1. /\ "maintain" \in todo /\ todo' = todo \ {"maintain"} /\ moved' = (moved \/ op # "Update")
      /\ UNCHANGED <<file, op, at, edits, windows, newTags, known, blocks, tags, audit, quiet>>
  BY DEF Maintain, storage
<1>2. /\ op \in EditOps /\ {"generateTags", "sendTags"} \subseteq todo
      /\ todo' # {} /\ DOMAIN newTags = {} /\ op # "Upload"
  BY <1>1 DEF IInv, PhaseInv, NewTagsInv, EditOps
<1>3. /\ vouched' = file /\ store' \in [Index -> Metadata \cup {Null}]
      /\ Stored(store)' = 0..(Len(file) - 1)
      /\ \A j \in Stored(store)' : store'[j].version <= edits + 1
      /\ \A i \in 1..Len(file) : Kept(i) => store'[i - 1] = store[i - 1]
  BY MaintainPoints DEF Stored
<1>4. PTypeOK'
  <2>1. PTypeOK
    BY DEF IInv
  <2>2. moved' \in BOOLEAN
    BY <1>1
  <2> QED
    BY <1>1, <1>3, <2>1, <2>2 DEF PTypeOK
<1>5. PhaseInv'
  BY <1>1, <1>2 DEF IInv, PhaseInv
<1>6. StoreInv' /\ VouchedInv' /\ BlocksInv'
  BY <1>1, <1>2, <1>3 DEF IInv, StoreInv, VouchedInv, BlocksInv
<1>7. NewTagsInv'
  BY <1>1, <1>2 DEF IInv, NewTagsInv, ToTag, Wanted, InWindow, Window
<1>8. TagsInv'
  <2>1. Stored(tags)' = 0..(OldLen' - 1)
    BY <1>1, <1>2 DEF IInv, TagsInv, Stored, OldLen
  <2>2. ASSUME NEW i \in DOMAIN file, Kept(i)
        PROVE  tags[i - 1] = Tag(i, store'[i - 1], file[i])
    <3>1. store'[i - 1] = store[i - 1]
      BY <1>3, <2>2, Basics
    <3> QED
      BY <2>2, <3>1 DEF IInv, TagsInv
  <2>3. \A i : Kept(i)' <=> Kept(i)
    BY <1>1 DEF Kept
  <2> QED
    BY <1>1, <1>2, <2>1, <2>2, <2>3 DEF TagsInv, Tag
<1>9. FreshInv'
  <2> SUFFICES ASSUME ~moved' PROVE FreshInv'
    BY DEF FreshInv
  <2>1. ~moved /\ op = "Update"
    BY <1>1
  <2>2. /\ store'[at - 1].version > store[at - 1].version
        /\ \A j \in Index : j # at - 1 => store'[j] = store[j]
        /\ at - 1 \in Stored(store)
    BY <2>1, MaintainPoints
  <2>3. \A j \in Index : store[j] # Null => j \in Stored(store)'
    <3>1. Stored(store) = Stored(store)'
      BY <1>1, <1>3, <2>1 DEF IInv, StoreInv, OldLen
    <3> QED
      BY <3>1 DEF Stored
  <2>4. \A x \in Metadata \cup {Null} : x # Null => x.version \in Int
    BY BoundsAssumption DEF Metadata
  <2>5. /\ file = ReplaceAt(vouched, at, file[at]) /\ at \in 1..Len(file)
        /\ at \in Int /\ store[at - 1] # Null /\ at - 1 \in Index
    <3>1. file = ReplaceAt(vouched, at, file[at]) /\ at \in 1..Len(file)
      BY <1>1, <2>1 DEF IInv, VouchedInv, PhaseInv
    <3> QED
      BY <2>2, <3>1, Basics DEF Stored
  <2>6. \A i \in 1..Len(file) : i # at => vouched'[i] = vouched[i]
    <3>1. vouched \in BoundedSeq(Block, MaxBlocks) /\ Len(vouched) = Len(file)
      BY <1>1, <2>1 DEF IInv, PTypeOK, VouchedInv, OldLen
    <3>2. DOMAIN vouched = 1..Len(file)
      BY <3>1, FileType
    <3> QED
      BY <1>3, <2>5, <3>2 DEF ReplaceAt
  <2>7. ASSUME NEW i \in 1..MaxBlocks, NEW x \in Metadata, Was(x, i)
        PROVE  /\ Was(x, i)'
               /\ x = store'[i - 1] => x = store[i - 1] /\ vouched'[i] = vouched[i]
    <3>1. i - 1 \in Index /\ i \in Int
      BY Basics
    <3>2. CASE i = at
      <4>1. /\ store'[at - 1] # Null
            /\ store'[at - 1].version \in Int /\ store[at - 1].version \in Int
            /\ x.version \in Int
        <5>1. store'[at - 1] # Null
          BY <2>3, <2>5 DEF Stored
        <5>2. /\ store'[at - 1] \in Metadata \cup {Null}
              /\ store[at - 1] \in Metadata \cup {Null}
          BY <1>3, <2>5 DEF IInv, PTypeOK
        <5> QED
          BY <2>4, <2>5, <5>1, <5>2, NullAssumption
      <4>2. x.version < store'[at - 1].version
        BY <2>2, <2>7, <3>2, <4>1 DEF Was
      <4> QED
        BY <3>2, <4>1, <4>2 DEF Was
    <3>3. CASE i # at
      <4>1. i - 1 \in 0..(Len(file) - 1)
        BY <1>3, <2>3, <2>7, <3>1 DEF Was
      <4>2. i \in 1..Len(file)
        BY <3>1, <4>1, Basics
      <4> QED
        BY <2>2, <2>5, <2>6, <2>7, <3>1, <3>3, <4>2 DEF Was
    <3> QED
      BY <3>2, <3>3
  <2>8. ASSUME NEW i \in 1..MaxBlocks, tags[i - 1] # Null
        PROVE  /\ Was(tags[i - 1].metadata, i)'
               /\ tags[i - 1].metadata = store'[i - 1] =>
                    tags[i - 1].scalar = accumulateBlockSegmentsScalar(vouched'[i])
    <3>1. tags[i - 1].metadata \in Metadata
      <4>1. tags[i - 1] \in TagSet
        BY <2>8, Basics DEF IInv, PTypeOK
      <4> QED
        BY <4>1 DEF TagSet
    <3>2. /\ Was(tags[i - 1].metadata, i)
          /\ tags[i - 1].metadata = store[i - 1] =>
               tags[i - 1].scalar = accumulateBlockSegmentsScalar(vouched[i])
      BY <2>1, <2>8 DEF IInv, FreshInv
    <3> QED
      BY <1>1, <2>7, <3>1, <3>2
  <2>9. ASSUME NEW i \in DOMAIN audit.items, audit.items[i] # Null
        PROVE  /\ Was(audit.items[i], i)'
               /\ audit.items[i] = store'[i - 1] => audit.want[i] = vouched'[i]
    <3>1. audit.items[i] \in Metadata /\ i \in 1..MaxBlocks
      BY <2>9 DEF IInv, PTypeOK, Range
    <3>2. /\ Was(audit.items[i], i)
          /\ audit.items[i] = store[i - 1] => audit.want[i] = vouched[i]
      BY <2>1, <2>9 DEF IInv, FreshInv
    <3> QED
      BY <1>1, <2>7, <3>1, <3>2
  <2> QED
    BY <1>1, <2>1, <2>8, <2>9 DEF IInv, FreshInv, Was
<1>10. QuietInv' /\ QuietAudit' /\ AuditShape'
  BY <1>1, AuditUntouched
<1> QED
  BY <1>4, <1>5, <1>6, <1>7, <1>8, <1>9, <1>10 DEF IInv

(* When all is registered, the store vouches for the file as it is.        *)
LEMMA VouchedAll ==
  ASSUME IInv, {"maintain", "generateTags"} \cap todo = {}
  PROVE  vouched = file
<1>1. CASE op # "Upload"
  BY <1>1 DEF IInv, VouchedInv
<1>2. CASE op = "Upload" /\ Stored(store) # {}
  BY <1>2 DEF IInv, VouchedInv
<1>3. CASE op = "Upload" /\ Stored(store) = {}
  <2>1. Stored(store) = 0..(Len(file) - 1) /\ vouched = << >>
    BY <1>3 DEF IInv, VouchedInv, StoreInv
  <2>2. Len(file) \in Nat /\ 0 \notin 0..(Len(file) - 1)
    BY <1>3, <2>1, Basics
  <2>3. file = << >>
    BY <2>2, Basics
  <2> QED
    BY <2>1, <2>3
<1> QED
  BY <1>1, <1>2, <1>3

LEMMA SendBlocksStep == ASSUME IInv, SendBlocks PROVE IInv'
<1>1. /\ "sendBlocks" \in todo /\ todo' = todo \ {"sendBlocks"} /\ blocks' = file
      /\ IF todo' = {} THEN op' = "done" /\ at' = 0 ELSE UNCHANGED <<op, at>>
      /\ UNCHANGED <<file, edits, windows, newTags, known, store, vouched, moved, tags,
                     audit, quiet>>
  BY DEF SendBlocks, Sent, dht
<1>2. /\ "maintain" \in todo' <=> "maintain" \in todo
      /\ "generateTags" \in todo' <=> "generateTags" \in todo
      /\ "sendTags" \in todo' <=> "sendTags" \in todo
  BY <1>1
<1>3. op \in EditOps \cup {"Upload"} /\ todo # {}
  BY <1>1 DEF IInv, PhaseInv
<1>4. PTypeOK'
  <2>1. PTypeOK
    BY DEF IInv
  <2>2. at' \in 0..MaxBlocks /\ op' \in Ops \cup {"none", "Upload", "done"}
    BY <1>1, <2>1, BoundsAssumption DEF PTypeOK
  <2> QED
    BY <1>1, <1>2, <2>1, <2>2 DEF PTypeOK
<1>5. PhaseInv'
  BY <1>1, <1>3 DEF IInv, PhaseInv, EditOps
<1>6. QuietInv' /\ QuietAudit' /\ AuditShape' /\ FreshInv'
  <2>1. FreshInv'
    BY <1>1 DEF IInv, FreshInv, Was
  <2> QED
    BY <1>1, <1>3, <2>1, AuditUntouched
<1>7. BlocksInv'
  BY <1>1 DEF BlocksInv
<1>8. CASE todo' = {}
  <2>1. op' = "done" /\ {"maintain", "generateTags", "sendTags"} \cap todo = {}
    BY <1>1, <1>2, <1>8
  <2>2. /\ Stored(store)' = 0..(Len(file) - 1) /\ Stored(tags)' = 0..(Len(file) - 1)
        /\ \A j \in Stored(store) : store[j].version <= edits + 1
        /\ vouched = file /\ DOMAIN newTags = {}
        /\ \A i \in DOMAIN file : tags[i - 1] = Tag(i, store[i - 1], file[i])
    <3>1. /\ Stored(store)' = 0..(Len(file) - 1) /\ Stored(tags)' = 0..(Len(file) - 1)
          /\ \A j \in Stored(store) : store[j].version <= edits + 1
          /\ DOMAIN newTags = {}
          /\ \A i \in DOMAIN file : tags[i - 1] = Tag(i, store[i - 1], file[i])
      BY <1>1, <2>1 DEF IInv, StoreInv, NewTagsInv, TagsInv, Stored
    <3>2. vouched = file
      BY <2>1, VouchedAll
    <3> QED
      BY <3>1, <3>2
  <2> QED
    BY <1>1, <1>4, <1>5, <1>6, <1>7, <1>8, <2>1, <2>2
    DEF IInv, StoreInv, VouchedInv, NewTagsInv, TagsInv, Stored, Tag
<1>9. CASE todo' # {}
  <2>1. UNCHANGED <<op, at>>
    BY <1>1, <1>9
  <2>2. StoreInv' /\ VouchedInv'
    BY <1>1, <1>2, <2>1 DEF IInv, StoreInv, VouchedInv, OldLen, Stored
  <2>3. NewTagsInv' /\ TagsInv'
    BY <1>1, <1>2, <2>1 DEF IInv, NewTagsInv, TagsInv, OldLen, Stored, ToTag, Kept,
         Wanted, InWindow, Window
  <2> QED
    BY <1>4, <1>5, <1>6, <1>7, <2>2, <2>3 DEF IInv
<1> QED
  BY <1>8, <1>9

(* New tags are there for all that is to be tagged, and the others fit.    *)
LEMMA SendPoints ==
  ASSUME IInv, SendTags
  PROVE  /\ Stored(tags') = 0..(Len(file) - 1)
         /\ \A i \in 1..Len(file) : /\ tags'[i - 1] = Tag(i, store[i - 1], file[i])
                                    /\ store[i - 1] \in Metadata
         /\ tags' \in [Index -> TagSet \cup {Null}]
         /\ Stored(store) = 0..(Len(file) - 1)
<1> DEFINE n == Len(file)
           dropped == IF op # "Delete" THEN {} ELSE {n + 1}
<1>1. /\ "sendTags" \in todo /\ "generateTags" \notin todo /\ "maintain" \notin todo
      /\ windows = {} /\ op \in EditOps \cup {"Upload"}
  BY DEF SendTags, Sent, IInv, PhaseInv, PTypeOK
<1>2. /\ n \in 0..MaxBlocks /\ n \in Nat /\ DOMAIN file = 1..n
      /\ MaxBlocks \in Nat /\ SizeMax \in Nat /\ MaxBlocks <= SizeMax
      /\ \A i \in 1..n : file[i] \in Block /\ i \in 1..MaxBlocks /\ i - 1 \in Index
  BY Basics, BoundsAssumption
<1>3. tags' = [j \in Index |-> IF j + 1 \in DOMAIN newTags THEN newTags[j + 1]
                               ELSE IF j + 1 \in dropped THEN Null ELSE tags[j]]
  BY <1>1 DEF SendTags
<1>4. Stored(store) = 0..(n - 1) /\ Stored(tags) = 0..(OldLen - 1)
  BY <1>1 DEF IInv, StoreInv, TagsInv
<1>5. ASSUME NEW i \in 1..n
      PROVE  store[i - 1] \in Metadata /\ Tag(i, store[i - 1], file[i]) \in TagSet \ {Null}
  <2>1. i - 1 \in Stored(store)
    BY <1>2, <1>4
  <2>2. store[i - 1] \in Metadata
    BY <2>1 DEF Stored, IInv, PTypeOK
  <2> QED
    BY <1>2, <2>2, TagType
<1>6. \A i \in DOMAIN newTags : i \in 1..n /\ newTags[i] = Tag(i, store[i - 1], file[i])
  BY <1>2 DEF IInv, NewTagsInv
<1>7. ASSUME NEW i \in 1..n PROVE tags'[i - 1] = Tag(i, store[i - 1], file[i])
  <2>1. i - 1 \in Index /\ i = (i - 1) + 1
    BY <1>2
  <2>2. CASE i \in DOMAIN newTags
    BY <1>3, <1>6, <2>1, <2>2
  <2>3. CASE i \notin DOMAIN newTags
    <3>1. ~ToTag(i)
      BY <1>1, <1>2, <2>3 DEF IInv, NewTagsInv
    <3>2. Kept(i)
      BY <1>1, <1>2, <3>1 DEF ToTag, Wanted, Kept, EditOps, IInv, PhaseInv
    <3>3. i \notin dropped
      BY <1>2
    <3>4. tags'[i - 1] = tags[i - 1]
      BY <1>3, <2>1, <2>3, <3>3
    <3> QED
      BY <1>2, <3>2, <3>4 DEF IInv, TagsInv
  <2> QED
    BY <2>2, <2>3
<1>8. \A j \in Index : tags'[j] # Null <=> j \in 0..(n - 1)
  <2> TAKE j \in Index
  <2>1. j \in Nat
    BY DEF Index
  <2>2. CASE j \in 0..(n - 1)
    <3>1. j + 1 \in 1..n /\ (j + 1) - 1 = j
      BY <1>2, <2>2
    <3>2. tags'[j] = Tag(j + 1, store[j], file[j + 1])
      BY <1>7, <3>1
    <3>3. Tag(j + 1, store[j], file[j + 1]) # Null
      BY <1>5, <3>1
    <3> QED
      BY <2>2, <3>2, <3>3
  <2>3. CASE j \notin 0..(n - 1)
    <3>1. j + 1 \notin DOMAIN newTags
      BY <1>2, <1>6, <2>1, <2>3
    <3>2. j + 1 \in dropped \/ tags[j] = Null
      <4>1. j \in 0..(OldLen - 1) => op = "Delete" /\ j = n
        BY <1>1, <1>2, <2>1, <2>3 DEF OldLen, EditOps
      <4>2. j \in 0..(OldLen - 1) \/ tags[j] = Null
        BY <1>4 DEF Stored
      <4> QED
        BY <4>1, <4>2
    <3> QED
      BY <1>3, <2>3, <3>1, <3>2
  <2> QED
    BY <2>2, <2>3
<1>9. Stored(tags') = 0..(n - 1)
  <2>1. \A j \in 0..(n - 1) : j \in Index
    BY <1>2 DEF Index
  <2> QED
    BY <1>8, <2>1 DEF Stored
<1>10. tags' \in [Index -> TagSet \cup {Null}]
  <2>1. \A i \in DOMAIN newTags : newTags[i] \in TagSet
    BY <1>5, <1>6
  <2>2. \A j \in Index : tags[j] \in TagSet \cup {Null}
    BY DEF IInv, PTypeOK
  <2> QED
    BY <1>3, <2>1, <2>2
<1> QED
  BY <1>4, <1>5, <1>7, <1>9, <1>10

LEMMA SendTagsStep == ASSUME IInv, SendTags PROVE IInv'
<1>1. /\ "sendTags" \in todo /\ todo' = todo \ {"sendTags"} /\ newTags' = << >>
      /\ IF todo' = {} THEN op' = "done" /\ at' = 0 ELSE UNCHANGED <<op, at>>
      /\ UNCHANGED <<file, edits, windows, known, store, vouched, moved, blocks, audit, quiet>>
      /\ "generateTags" \notin todo
  BY DEF SendTags, Sent, dht
<1>2. op \in EditOps \cup {"Upload"} /\ todo # {} /\ "maintain" \notin todo
  BY <1>1 DEF IInv, PhaseInv
<1>3. /\ Stored(tags') = 0..(Len(file) - 1)
      /\ \A i \in 1..Len(file) : /\ tags'[i - 1] = Tag(i, store[i - 1], file[i])
                                 /\ store[i - 1] \in Metadata
      /\ tags' \in [Index -> TagSet \cup {Null}]
      /\ Stored(store) = 0..(Len(file) - 1)
  BY SendPoints
<1>4. vouched = file
  BY <1>1, <1>2, VouchedAll
<1>5. PTypeOK'
  <2>1. PTypeOK
    BY DEF IInv
  <2>2. at' \in 0..MaxBlocks /\ op' \in Ops \cup {"none", "Upload", "done"}
    BY <1>1, <2>1, BoundsAssumption DEF PTypeOK
  <2>3. DOMAIN newTags' = {} /\ Range(newTags)' = {}
    BY <1>1 DEF Range
  <2> QED
    BY <1>1, <1>2, <1>3, <2>1, <2>2, <2>3 DEF PTypeOK
<1>6. PhaseInv'
  BY <1>1, <1>2 DEF IInv, PhaseInv, EditOps
<1>7. StoreInv'
  BY <1>1, <1>2, <1>3 DEF IInv, StoreInv, Stored
<1>8. VouchedInv'
  <2>1. CASE op' # "Upload"
    BY <1>1, <1>2, <1>4, <2>1 DEF VouchedInv
  <2>2. CASE op' = "Upload"
    BY <1>1, <1>2, <2>2 DEF IInv, VouchedInv, Stored
  <2> QED
    BY <2>1, <2>2
<1>9. NewTagsInv'
  BY <1>1 DEF NewTagsInv
<1>10. TagsInv'
  <2>1. \A i \in DOMAIN file' : tags'[i - 1] = Tag(i, store'[i - 1], file'[i])
    BY <1>1, <1>3, Basics
  <2> QED
    BY <1>1, <1>3, <2>1 DEF TagsInv, Stored, Tag
<1>11. BlocksInv'
  BY <1>1 DEF IInv, BlocksInv
<1>12. FreshInv'
  <2> SUFFICES ASSUME ~moved PROVE FreshInv'
    BY <1>1 DEF FreshInv
  <2>1. ASSUME NEW i \in 1..MaxBlocks, tags'[i - 1] # Null
        PROVE  /\ i \in 1..Len(file) /\ tags'[i - 1].metadata = store[i - 1]
               /\ store[i - 1] # Null
               /\ tags'[i - 1].scalar = accumulateBlockSegmentsScalar(file[i])
    <3>1. i - 1 \in Stored(tags')
      BY <2>1, Basics DEF Stored
    <3>2. i \in 1..Len(file)
      BY <1>3, <3>1, Basics
    <3>3. tags'[i - 1] = Tag(i, store[i - 1], file[i]) /\ store[i - 1] \in Metadata
      BY <1>3, <3>2
    <3> QED
      BY <3>2, <3>3, NullAssumption DEF Tag
  <2>2. ASSUME NEW i \in DOMAIN audit.items, audit.items[i] # Null
        PROVE  /\ Was(audit.items[i], i) /\ i \in DOMAIN audit.want /\ i \in 1..MaxBlocks
               /\ audit.items[i] = store[i - 1] => audit.want[i] = vouched[i]
    BY <2>2 DEF IInv, FreshInv, PTypeOK
  <2>3. ASSUME NEW i \in DOMAIN audit.items, audit.items[i] # Null,
               tags'[i - 1] # Null, tags'[i - 1].metadata = audit.items[i]
        PROVE  tags'[i - 1].scalar = accumulateBlockSegmentsScalar(audit.want[i])
    BY <1>4, <2>1, <2>2, <2>3
  <2> QED
    BY <1>1, <1>4, <2>1, <2>2, <2>3 DEF IInv, FreshInv, Was
<1>13. QuietInv' /\ QuietAudit' /\ AuditShape'
  BY <1>1, <1>2, AuditUntouched
<1> QED
  BY <1>5, <1>6, <1>7, <1>8, <1>9, <1>10, <1>11, <1>12, <1>13 DEF IInv

(* The window whose turn it is, and what of it is to be tagged.            *)
LEMMA TargetPoints ==
  ASSUME IInv, MayTag
  PROVE  /\ Start \in windows /\ Targets \subseteq InWindow(file, Start)
         /\ InWindow(file, Start) \subseteq 1..Len(file)
         /\ \A i \in InWindow(file, Start) :
              /\ ToTag(i) => i \in Targets
              /\ Source[i - 1 - Start + 1] = file[i]
<1> DEFINE wanted == Wanted(op, at, file)
           win == InWindow(file, Start)
<1>1. windows # {} /\ windows \subseteq WindowStarts(file) /\ file \in Seq(Block)
  BY Basics DEF MayTag, IInv, PTypeOK
<1>2. \A s \in WindowStarts(file) : s \in Nat
  BY <1>1, WindowPoints
<1>3. Start \in windows
  BY <1>1, <1>2, MinOfNaturals DEF Start
<1>4. /\ Start \in Nat /\ win = {i \in 1..Len(file) : Start < i /\ i <= Start + WindowSize}
      /\ win = (Start + 1)..(Start + Len(Source))
      /\ \A i \in win : Source[i - Start] = file[i]
  BY <1>1, <1>3, WindowPoints DEF Source
<1>5. Targets = IF wanted \cap win = {} THEN win ELSE wanted \cap win
  BY <1>4 DEF Targets, resolveTargetBlockIndices
<1>6. \A i \in win : ToTag(i) => i \in Targets
  BY <1>5 DEF ToTag
<1>7. \A i \in win : i - 1 - Start + 1 = i - Start
  BY <1>4, Basics
<1> QED
  BY <1>3, <1>4, <1>5, <1>6, <1>7

(* Registration: what is missing of T gets metadata, the rest stays.       *)
LEMMA RegisterPoints ==
  ASSUME IInv, MayTag, NEW T \in SUBSET (1..Len(file)), Register(T)
  PROVE  /\ store' \in [Index -> Metadata \cup {Null}]
         /\ \A j \in Index : store[j] # Null => store'[j] = store[j]
         /\ \A i \in T : store'[i - 1] # Null
         /\ Stored(store) \subseteq Stored(store') /\ Stored(store') \subseteq 0..(Len(file) - 1)
         /\ \A j \in Stored(store') : store'[j].version <= edits + 1
         /\ op # "Upload" => /\ store' = store /\ vouched' = vouched
                             /\ Stored(store) = 0..(Len(file) - 1)
         /\ vouched' = IF op = "Upload" /\ Stored(store') = {} THEN << >> ELSE file
         /\ Stored(store) # {} => vouched' = vouched
<1> DEFINE n == Len(file)
           missing == {i \in T : store[i - 1] = Null}
<1>1. /\ n \in 0..MaxBlocks /\ n \in Nat /\ MaxBlocks \in Nat /\ MaxEdits \in Nat
      /\ \A i \in 1..n : i \in Nat /\ i - 1 \in Index /\ i - 1 \in 0..(n - 1)
      /\ Null \notin Metadata
  BY Basics, BoundsAssumption, NullAssumption
<1>2. "maintain" \notin todo /\ "generateTags" \in todo
  BY DEF MayTag, IInv, PhaseInv
<1>3. /\ store \in [Index -> Metadata \cup {Null}] /\ edits \in 0..MaxEdits
      /\ \A j \in Stored(store) : store[j].version <= edits + 1
      /\ op # "Upload" => Stored(store) = 0..(n - 1) /\ vouched = file
      /\ op = "Upload" => /\ Stored(store) \subseteq 0..(n - 1)
                          /\ vouched = IF Stored(store) = {} THEN << >> ELSE file
  BY <1>2 DEF IInv, PTypeOK, StoreInv, VouchedInv
<1>4. PICK now \in [missing -> Time] :
         store' = [j \in Index |-> IF j + 1 \in missing
                                   THEN [version |-> 1, timestamp |-> now[j + 1]]
                                   ELSE store[j]]
  BY DEF Register
<1>5. vouched' = IF missing = {} THEN vouched ELSE file
  BY DEF Register
<1>6. \A i \in missing : i \in T /\ i \in 1..n /\ store[i - 1] = Null
  OBVIOUS
<1>7. \A i \in T : i \notin missing => store[i - 1] # Null
  OBVIOUS
<1>8. \A j \in Index : store[j] # Null => j \in Stored(store)
  BY DEF Stored
<1> HIDE DEF missing
<1>9. \A t \in Time : [version |-> 1, timestamp |-> t] \in Metadata
  BY <1>1 DEF Metadata
<1>10. ASSUME NEW j \in Index, j + 1 \in missing
       PROVE  /\ store'[j] \in Metadata /\ store'[j] # Null /\ store'[j].version = 1
              /\ store[j] = Null /\ j \in 0..(n - 1)
  <2>1. store'[j] = [version |-> 1, timestamp |-> now[j + 1]] /\ now[j + 1] \in Time
    BY <1>4, <1>10
  <2>2. (j + 1) - 1 = j /\ j + 1 \in 1..n
    BY <1>6, <1>10 DEF Index
  <2> QED
    BY <1>1, <1>6, <1>9, <1>10, <2>1, <2>2
<1>11. ASSUME NEW j \in Index, j + 1 \notin missing
       PROVE  store'[j] = store[j]
  BY <1>4, <1>11
<1>12. store' \in [Index -> Metadata \cup {Null}]
  <2>1. \A j \in Index : store'[j] \in Metadata \cup {Null}
    BY <1>3, <1>10, <1>11
  <2>2. store' = [j \in Index |-> store'[j]]
    BY <1>4
  <2> QED
    BY <2>1, <2>2
<1>13. \A j \in Index : store[j] # Null => store'[j] = store[j]
  BY <1>10, <1>11
<1>14. ASSUME NEW i \in T PROVE store'[i - 1] # Null
  <2>1. i - 1 \in Index /\ (i - 1) + 1 = i
    BY <1>1
  <2> QED
    BY <1>7, <1>10, <1>11, <2>1
<1>15. Stored(store) \subseteq Stored(store')
  BY <1>13 DEF Stored
<1>16. Stored(store') \subseteq 0..(n - 1)
  BY <1>3, <1>10, <1>11 DEF Stored
<1>17. ASSUME NEW j \in Stored(store') PROVE store'[j].version <= edits + 1
  <2>1. j \in Index /\ store'[j] # Null
    BY DEF Stored
  <2> QED
    BY <1>3, <1>8, <1>10, <1>11, <2>1
<1>18. ASSUME op # "Upload" PROVE missing = {}
  <2>1. \A i \in missing : i - 1 \in Stored(store)
    BY <1>1, <1>3, <1>6, <1>18
  <2> QED
    BY <1>6, <2>1 DEF Stored
<1>19. op # "Upload" => store' = store /\ vouched' = vouched
  <2>1. missing = {} => store' = [j \in Index |-> store[j]]
    BY <1>4
  <2> QED
    BY <1>3, <1>5, <1>18, <2>1
<1>20. missing = {} => Stored(store') = Stored(store)
  BY <1>11 DEF Stored
<1>21. missing # {} => Stored(store') # {}
  <2> SUFFICES ASSUME NEW i \in missing PROVE Stored(store') # {}
    OBVIOUS
  <2>1. i - 1 \in Index
    BY <1>1, <1>6
  <2> QED
    BY <1>6, <1>14, <2>1 DEF Stored
<1>22. vouched' = IF op = "Upload" /\ Stored(store') = {} THEN << >> ELSE file
  BY <1>3, <1>5, <1>18, <1>20, <1>21
<1>23. Stored(store) # {} => vouched' = vouched
  BY <1>3, <1>5
<1> QED
  BY <1>3, <1>12, <1>13, <1>14, <1>15, <1>16, <1>17, <1>19, <1>22, <1>23

(* What is registered anew has no tag and no item yet.                     *)
LEMMA RegisterFresh ==
  ASSUME IInv, MayTag, NEW T \in SUBSET (1..Len(file)), Register(T),
         UNCHANGED <<tags, audit>>
  PROVE  FreshInv'
<1> SUFFICES ASSUME ~moved PROVE FreshInv'
  BY DEF FreshInv, Register
<1>1. ASSUME NEW i \in 1..MaxBlocks, NEW x, Was(x, i)
      PROVE  Was(x, i)' /\ store'[i - 1] = store[i - 1] /\ vouched'[i] = vouched[i]
  <2>1. i - 1 \in Index /\ store[i - 1] # Null
    BY <1>1, Basics DEF Was
  <2>2. store'[i - 1] = store[i - 1]
    BY <2>1, RegisterPoints
  <2>3. i - 1 \in Stored(store)
    BY <2>1 DEF Stored
  <2>4. vouched' = vouched
    BY <2>3, RegisterPoints
  <2> QED
    BY <1>1, <2>2, <2>4 DEF Was
<1>2. \A i \in DOMAIN audit.items : i \in 1..MaxBlocks
  BY DEF IInv, PTypeOK
<1>3. ASSUME NEW i \in 1..MaxBlocks, tags[i - 1] # Null
      PROVE  /\ Was(tags[i - 1].metadata, i)'
             /\ tags[i - 1].metadata = store'[i - 1] =>
                  tags[i - 1].scalar = accumulateBlockSegmentsScalar(vouched'[i])
  <2>1. /\ Was(tags[i - 1].metadata, i)
        /\ tags[i - 1].metadata = store[i - 1] =>
             tags[i - 1].scalar = accumulateBlockSegmentsScalar(vouched[i])
    BY <1>3 DEF IInv, FreshInv
  <2>2. Was(tags[i - 1].metadata, i)'
    <3>1. tags'[i - 1].metadata = tags[i - 1].metadata
      OBVIOUS
    <3> QED
      BY <1>1, <2>1, <3>1 DEF Was
  <2> QED
    BY <1>1, <2>1, <2>2
<1>4. ASSUME NEW i \in DOMAIN audit.items, audit.items[i] # Null
      PROVE  /\ Was(audit.items[i], i)' /\ i \in DOMAIN audit.want
             /\ audit.items[i] = store'[i - 1] => audit.want[i] = vouched'[i]
  <2>1. /\ Was(audit.items[i], i) /\ i \in DOMAIN audit.want
        /\ audit.items[i] = store[i - 1] => audit.want[i] = vouched[i]
    BY <1>4 DEF IInv, FreshInv
  <2>2. Was(audit.items[i], i)'
    BY <1>1, <1>2, <2>1 DEF Was
  <2> QED
    BY <1>1, <1>2, <2>1, <2>2
<1> QED
  BY <1>3, <1>4 DEF IInv, FreshInv, Was

LEMMA GenerateTagsStep == ASSUME IInv, GenerateTags PROVE IInv'
<1> DEFINE win == InWindow(file, Start)
<1>1. /\ MayTag /\ windows' = windows \ {Start} /\ Register(Targets)
      /\ todo' = IF windows' = {} THEN todo \ {"generateTags"} ELSE todo
      /\ newTags' = Override([i \in Targets |->
                                Tag(i, store'[i - 1], Source[i - 1 - Start + 1])], newTags)
      /\ UNCHANGED <<file, op, at, edits, blocks, tags, audit, quiet>>
  BY DEF GenerateTags, storage
<1>2. /\ Start \in windows /\ Targets \subseteq win /\ win \subseteq 1..Len(file)
      /\ \A i \in win : /\ ToTag(i) => i \in Targets
                        /\ Source[i - 1 - Start + 1] = file[i]
  BY <1>1, TargetPoints
<1>3. Targets \in SUBSET (1..Len(file))
  BY <1>2
<1>4. /\ store' \in [Index -> Metadata \cup {Null}]
      /\ \A j \in Index : store[j] # Null => store'[j] = store[j]
      /\ \A i \in Targets : store'[i - 1] # Null
      /\ Stored(store)' \subseteq 0..(Len(file) - 1)
      /\ \A j \in Stored(store)' : store'[j].version <= edits + 1
      /\ op # "Upload" => /\ store' = store /\ vouched' = vouched
                          /\ Stored(store) = 0..(Len(file) - 1)
      /\ vouched' = IF op = "Upload" /\ Stored(store)' = {} THEN << >> ELSE file
  BY <1>1, <1>3, RegisterPoints DEF Stored
<1>5. /\ "maintain" \notin todo /\ {"generateTags", "sendTags"} \subseteq todo
      /\ op \in EditOps \cup {"Upload"}
  BY <1>1 DEF MayTag, IInv, PhaseInv
<1>6. /\ "maintain" \notin todo' /\ "sendTags" \in todo'
      /\ "sendBlocks" \in todo' <=> "sendBlocks" \in todo
      /\ "generateTags" \in todo' <=> windows' # {}
  BY <1>1, <1>5
<1>7. /\ DOMAIN file = 1..Len(file) /\ Len(file) \in 0..MaxBlocks /\ Len(file) \in Nat
      /\ \A i \in 1..Len(file) : /\ i \in 1..MaxBlocks /\ i - 1 \in Index
                                 /\ file[i] \in Block
  BY Basics, BoundsAssumption
<1>8. /\ DOMAIN newTags' = Targets \cup DOMAIN newTags
      /\ \A i \in Targets : newTags'[i] = Tag(i, store'[i - 1], file[i])
      /\ \A i \in DOMAIN newTags \ Targets : newTags'[i] = newTags[i]
  BY <1>1, <1>2 DEF Override
<1>9. ASSUME NEW i \in DOMAIN newTags'
      PROVE  /\ i \in 1..Len(file) /\ store'[i - 1] # Null
             /\ newTags'[i] = Tag(i, store'[i - 1], file[i])
  <2>1. CASE i \in Targets
    BY <1>2, <1>4, <1>8, <2>1
  <2>2. CASE i \notin Targets
    <3>1. /\ i \in 1..Len(file) /\ store[i - 1] # Null
          /\ newTags[i] = Tag(i, store[i - 1], file[i])
      BY <1>7, <1>8, <1>9, <2>2 DEF IInv, NewTagsInv
    <3>2. store'[i - 1] = store[i - 1]
      BY <1>4, <1>7, <3>1
    <3> QED
      BY <1>8, <1>9, <2>2, <3>1, <3>2
  <2> QED
    BY <2>1, <2>2
<1>10. NewTagsInv'
  <2>1. ASSUME NEW i \in DOMAIN file, ToTag(i)
        PROVE  i \in DOMAIN newTags' \/ \E s \in windows' : i \in InWindow(file, s)
    <3>1. i \in DOMAIN newTags \/ \E s \in windows : i \in InWindow(file, s)
      BY <1>5, <2>1 DEF IInv, NewTagsInv
    <3> QED
      BY <1>1, <1>2, <1>8, <2>1, <3>1
  <2>2. \A i : ToTag(i)' <=> ToTag(i)
    BY <1>1 DEF ToTag
  <2> QED
    BY <1>1, <1>6, <1>7, <1>9, <2>1, <2>2 DEF NewTagsInv, Tag
<1>11. PTypeOK'
  <2>1. PTypeOK
    BY DEF IInv
  <2>2. DOMAIN newTags' \subseteq 1..MaxBlocks /\ Range(newTags)' \subseteq TagSet
    <3>1. ASSUME NEW i \in DOMAIN newTags' PROVE newTags'[i] \in TagSet
      <4>1. store'[i - 1] \in Metadata
        BY <1>4, <1>7, <1>9
      <4> QED
        BY <1>7, <1>9, <4>1, TagType
    <3> QED
      BY <1>7, <1>9, <3>1 DEF Range
  <2>3. vouched' \in BoundedSeq(Block, MaxBlocks)
    BY <1>4, <2>1, EmptyFile DEF PTypeOK
  <2>4. known' \in BOOLEAN /\ moved' \in BOOLEAN
    BY <1>1, <2>1 DEF Register, PTypeOK
  <2> QED
    BY <1>1, <1>4, <1>6, <2>1, <2>2, <2>3, <2>4 DEF PTypeOK, WindowStarts
<1>12. PhaseInv'
  BY <1>1, <1>5, <1>6 DEF IInv, PhaseInv, EditOps
<1>13. StoreInv'
  <2>1. ASSUME op # "Upload" \/ windows' = {}
        PROVE  Stored(store)' = 0..(Len(file) - 1)
    <3>1. CASE op # "Upload"
      BY <1>4, <3>1 DEF Stored
    <3>2. CASE op = "Upload" /\ windows' = {}
      <4>1. \A i \in 1..Len(file) : ToTag(i)
        BY <3>2 DEF ToTag, Wanted
      <4>2. \A i \in 1..Len(file) : i \in DOMAIN newTags'
        <5>1. \A i : ToTag(i)' <=> ToTag(i)
          BY <1>1 DEF ToTag
        <5> QED
          BY <1>1, <1>6, <1>7, <1>10, <3>2, <4>1, <5>1 DEF NewTagsInv
      <4>3. \A j \in 0..(Len(file) - 1) : j + 1 \in 1..Len(file) /\ (j + 1) - 1 = j
        BY <1>7
      <4>4. \A j \in 0..(Len(file) - 1) : j \in Index /\ store'[j] # Null
        BY <1>7, <1>9, <4>2, <4>3
      <4> QED
        BY <1>4, <4>4 DEF Stored
    <3> QED
      BY <2>1, <3>1, <3>2
  <2> QED
    BY <1>1, <1>4, <1>6, <2>1 DEF StoreInv
<1>14. VouchedInv'
  BY <1>1, <1>4, <1>6 DEF VouchedInv
<1>15. TagsInv'
  <2>1. Stored(tags)' = 0..(OldLen' - 1)
    BY <1>1, <1>5 DEF IInv, TagsInv, Stored, OldLen
  <2>2. ASSUME NEW i \in DOMAIN file, Kept(i)
        PROVE  tags[i - 1] = Tag(i, store'[i - 1], file[i])
    <3>1. op # "Upload"
      BY <2>2 DEF Kept
    <3> QED
      BY <1>4, <2>2, <3>1 DEF IInv, TagsInv
  <2>3. \A i : Kept(i)' <=> Kept(i)
    BY <1>1 DEF Kept
  <2> QED
    BY <1>1, <1>6, <2>1, <2>2, <2>3 DEF TagsInv, Tag
<1>16. BlocksInv'
  BY <1>1, <1>6 DEF IInv, BlocksInv
<1>17. FreshInv'
  BY <1>1, <1>3, RegisterFresh
<1>18. QuietInv' /\ QuietAudit' /\ AuditShape'
  BY <1>1, <1>5, AuditUntouched
<1> QED
  BY <1>10, <1>11, <1>12, <1>13, <1>14, <1>15, <1>16, <1>17, <1>18 DEF IInv

LEMMA GenerateTagsThrowsStep == ASSUME IInv, GenerateTagsThrows PROVE IInv'
<1>1. PICK i \in Targets : Register({j \in Targets : j <= i})
  BY DEF GenerateTagsThrows
<1>2. /\ MayTag
      /\ UNCHANGED <<file, op, at, todo, edits, windows, newTags, blocks, tags, audit, quiet>>
  BY DEF GenerateTagsThrows, storage
<1> DEFINE T == {j \in Targets : j <= i}
<1>3. T \in SUBSET (1..Len(file)) /\ Register(T)
  BY <1>1, <1>2, TargetPoints
<1> HIDE DEF T
<1>4. /\ store' \in [Index -> Metadata \cup {Null}]
      /\ \A j \in Index : store[j] # Null => store'[j] = store[j]
      /\ Stored(store)' \subseteq 0..(Len(file) - 1)
      /\ \A j \in Stored(store)' : store'[j].version <= edits + 1
      /\ op # "Upload" => /\ store' = store /\ vouched' = vouched
                          /\ Stored(store) = 0..(Len(file) - 1)
      /\ vouched' = IF op = "Upload" /\ Stored(store)' = {} THEN << >> ELSE file
  BY <1>2, <1>3, RegisterPoints DEF Stored
<1>5. /\ "maintain" \notin todo /\ {"generateTags", "sendTags"} \subseteq todo
      /\ op \in EditOps \cup {"Upload"}
  BY <1>2 DEF MayTag, IInv, PhaseInv
<1>6. \A j \in DOMAIN file : j - 1 \in Index
  BY Basics, BoundsAssumption
<1>7. PTypeOK'
  <2>1. PTypeOK
    BY DEF IInv
  <2>2. vouched' \in BoundedSeq(Block, MaxBlocks)
    BY <1>4, <2>1, EmptyFile DEF PTypeOK
  <2>3. known' \in BOOLEAN /\ moved' \in BOOLEAN
    BY <1>3, <2>1 DEF Register, PTypeOK
  <2> QED
    BY <1>2, <1>4, <2>1, <2>2, <2>3 DEF PTypeOK, WindowStarts
<1>8. PhaseInv'
  BY <1>2 DEF IInv, PhaseInv
<1>9. StoreInv'
  BY <1>2, <1>4, <1>5 DEF StoreInv
<1>10. VouchedInv'
  BY <1>2, <1>4, <1>5 DEF VouchedInv
<1>11. NewTagsInv'
  <2>1. \A j \in DOMAIN newTags : /\ j \in DOMAIN file /\ store'[j - 1] # Null
                                  /\ newTags[j] = Tag(j, store'[j - 1], file[j])
    BY <1>4, <1>6 DEF IInv, NewTagsInv
  <2>2. \A j : ToTag(j)' <=> ToTag(j)
    BY <1>2 DEF ToTag
  <2> QED
    BY <1>2, <2>1, <2>2 DEF IInv, NewTagsInv, Tag
<1>12. TagsInv'
  <2>1. Stored(tags)' = 0..(OldLen' - 1)
    BY <1>2, <1>5 DEF IInv, TagsInv, Stored, OldLen
  <2>2. ASSUME NEW j \in DOMAIN file, Kept(j)
        PROVE  tags[j - 1] = Tag(j, store'[j - 1], file[j])
    <3>1. op # "Upload"
      BY <2>2 DEF Kept
    <3> QED
      BY <1>4, <2>2, <3>1 DEF IInv, TagsInv
  <2>3. \A j : Kept(j)' <=> Kept(j)
    BY <1>2 DEF Kept
  <2> QED
    BY <1>2, <1>5, <2>1, <2>2, <2>3 DEF TagsInv, Tag
<1>13. BlocksInv'
  BY <1>2 DEF IInv, BlocksInv
<1>14. FreshInv'
  BY <1>2, <1>3, RegisterFresh
<1>15. QuietInv' /\ QuietAudit' /\ AuditShape'
  BY <1>2, <1>5, AuditUntouched
<1> QED
  BY <1>7, <1>8, <1>9, <1>10, <1>11, <1>12, <1>13, <1>14, <1>15 DEF IInv

-----------------------------------------------------------------------------
(***************************************************************************)
(* The results.                                                            *)
(***************************************************************************)
LEMMA PInitHolds == MaintainFirst /\ PInit => IInv
<1> SUFFICES ASSUME MaintainFirst, PInit PROVE IInv
  OBVIOUS
<1>1. /\ file = << >> /\ op = "none" /\ at = 0 /\ todo = {} /\ edits = 0
      /\ windows = {} /\ newTags = << >> /\ known = FALSE /\ store = Empty
      /\ vouched = << >> /\ moved = FALSE /\ blocks = << >> /\ tags = Empty
      /\ audit = NoAudit /\ quiet = TRUE
  BY DEF PInit
<1>2. /\ audit = [pc |-> "none", items |-> << >>, want |-> << >>,
                  proof |-> << >>, served |-> << >>, verdict |-> "none"]
      /\ audit.pc = "none" /\ audit.items = << >> /\ audit.want = << >>
      /\ audit.served = << >> /\ audit.verdict = "none" /\ audit.proof = << >>
  BY <1>1 DEF NoAudit
<1>3. /\ Stored(store) = {} /\ Stored(tags) = {} /\ 0..(Len(file) - 1) = {}
      /\ DOMAIN newTags = {} /\ DOMAIN file = {}
      /\ \A i \in 1..MaxBlocks : tags[i - 1] = Null
  <2>1. \A i \in 1..MaxBlocks : i - 1 \in Index
    BY BoundsAssumption DEF Index
  <2> QED
    BY <1>1, <2>1 DEF Stored, Empty
<1>4. PTypeOK
  <2>1. {file, blocks, vouched} \subseteq BoundedSeq(Block, MaxBlocks)
    BY <1>1, EmptyFile
  <2>2. store \in [Index -> Metadata \cup {Null}] /\ tags \in [Index -> TagSet \cup {Null}]
    BY <1>1 DEF Empty
  <2>3. Range(newTags) = {} /\ Range(audit.items) = {}
    BY <1>1, <1>2 DEF Range
  <2>4. 0 \in 0..MaxBlocks /\ 0 \in 0..MaxEdits
    BY BoundsAssumption
  <2>5. /\ DOMAIN newTags = {} /\ DOMAIN audit.items = {} /\ DOMAIN audit.want = {}
        /\ DOMAIN audit.served = {}
    BY <1>1, <1>2
  <2> QED
    BY <1>1, <1>2, <2>1, <2>2, <2>3, <2>4, <2>5 DEF PTypeOK
<1>5. PhaseInv /\ StoreInv /\ VouchedInv /\ NewTagsInv /\ TagsInv /\ BlocksInv
  BY <1>1, <1>3 DEF PhaseInv, StoreInv, VouchedInv, NewTagsInv, TagsInv, BlocksInv, EditOps
<1>6. AuditShape /\ QuietInv /\ QuietAudit /\ FreshInv
  BY <1>1, <1>2, <1>3 DEF AuditShape, QuietInv, QuietAudit, FreshInv
<1> QED
  BY <1>4, <1>5, <1>6 DEF IInv

LEMMA PNextKeeps == IInv /\ [PNext]_pvars => IInv'
<1> SUFFICES ASSUME IInv, [PNext]_pvars PROVE IInv'
  OBVIOUS
<1>1. CASE UNCHANGED pvars
  <2>1. UNCHANGED <<admin, dht, storage>> /\ UNCHANGED <<audit, quiet>>
    BY <1>1 DEF pvars
  <2>2. AuditShape' /\ AuditType' /\ quiet' \in BOOLEAN /\ QuietAudit'
    BY <2>1 DEF IInv, AuditShape, AuditType, PTypeOK, QuietAudit
  <2>3. QuietInv' /\ FreshInv'
    BY <2>1 DEF IInv, QuietInv, FreshInv, Was, admin, dht, storage
  <2> QED
    BY <2>1, <2>2, <2>3, AuditFrame
<1>2. CASE Upload \/ Edit
  BY <1>2, UploadStep, EditStep
<1>3. CASE Maintain \/ SendTags \/ SendBlocks
  BY <1>3, MaintainStep, SendTagsStep, SendBlocksStep
<1>4. CASE GenerateTags \/ GenerateTagsThrows
  BY <1>4, GenerateTagsStep, GenerateTagsThrowsStep
<1>5. CASE Challenge
  BY <1>5, ChallengeStep
<1>6. CASE ReadMetadata \/ Prove \/ Verify
  BY <1>6, ReadStep, ProveStep, VerifyStep
<1> QED
  BY <1>1, <1>2, <1>3, <1>4, <1>5, <1>6 DEF PNext, Settle, Answer

(***************************************************************************)
(* The inductive invariant holds when maintenance() precedes the tagging.  *)
(***************************************************************************)
THEOREM Inductive == MaintainFirst /\ PSpec => []IInv
  BY PInitHolds, PNextKeeps, PTL DEF PSpec

(***************************************************************************)
(* All values stay in their types: at every index computed by an edit, a   *)
(* challenge or a window there is a block, an entry or Null.               *)
(***************************************************************************)
THEOREM AuditTypeCorrect == MaintainFirst /\ PSpec => []PTypeOK
<1>1. IInv => PTypeOK
  BY DEF IInv
<1> QED
  BY <1>1, Inductive, PTL

(***************************************************************************)
(* A file is auditable when the Admin has done all that an edit takes.     *)
(***************************************************************************)
THEOREM EditsLeaveAuditable == MaintainFirst /\ PSpec => []IdleAuditable
<1>1. IInv => IdleAuditable
  BY DEF IInv, IdleAuditable, Idle, Auditable, PhaseInv, StoreInv, TagsInv, BlocksInv
<1> QED
  BY <1>1, Inductive, PTL

(***************************************************************************)
(* Every audit of a file at rest succeeds.                                 *)
(***************************************************************************)
THEOREM QuietAuditsSucceed == MaintainFirst /\ PSpec => []QuietAudit
<1>1. IInv => QuietAudit
  BY DEF IInv
<1> QED
  BY <1>1, Inductive, PTL

(***************************************************************************)
(* An accepted audit was answered from the content its challenge stood     *)
(* for, as long as no block has moved.                                     *)
(***************************************************************************)
THEOREM AcceptedAuditsAreFresh == MaintainFirst /\ PSpec => []AcceptedIsFresh
<1>1. IInv => AcceptedIsFresh
  <2> SUFFICES ASSUME IInv, Accepted, ~moved, NEW i \in DOMAIN audit.items
               PROVE  accumulateBlockSegmentsScalar(audit.served[i]) =
                      accumulateBlockSegmentsScalar(audit.want[i])
    BY DEF AcceptedIsFresh
  <2>1. /\ audit.pc = "verify" /\ i \in DOMAIN audit.proof
        /\ audit.proof[i].tag.metadata = audit.items[i]
        /\ audit.proof[i].tag.scalar = audit.proof[i].scalar
    BY DEF Accepted, Equation
  <2> QED
    BY <2>1 DEF IInv, FreshInv
<1> QED
  BY <1>1, Inductive, PTL

-----------------------------------------------------------------------------
(***************************************************************************)
(* The store of the protocol is an AtomicFile.                             *)
(***************************************************************************)
(* The file is unknown to the store until its first blocks are tagged.     *)
KnownInv == ~known => /\ store = Empty /\ op \in {"none", "Upload"}
                      /\ op = "Upload" => "generateTags" \in todo

LEMMA StoreAFIs ==
  /\ AF!Index = Index /\ AF!Empty = Empty
  /\ AF!Fresh = [version : {1}, timestamp : Time]
  /\ \A M : AF!Entries(M) = [Index -> M \cup {Null}]
  /\ \A c, i : AF!DeleteEntry(c, i) = DeleteEntry(c, i)
  /\ \A c, i, o : AF!InsertEntry(c, i, o) = InsertEntry(c, i, o)
BY DEF AF!Index, Index, AF!Empty, Empty, AF!Fresh, AF!Entries,
       AF!DeleteEntry, AF!InsertEntry, DeleteEntry, InsertEntry

StoreStep == KnownInv' /\ (AF!Next \/ UNCHANGED <<known, store>>)

LEMMA UploadKnown == ASSUME IInv, KnownInv, Upload PROVE StoreStep
<1>1. /\ op' = "Upload" /\ UNCHANGED <<known, store>> /\ op = "none"
      /\ PlanTags(op', at', file')
  BY DEF Upload, dht
<1>2. "generateTags" \in todo'
  <2>1. 0 \in WindowStarts(file') /\ Wanted(op', at', file') = {}
    BY <1>1 DEF WindowStarts, Wanted
  <2> QED
    BY <1>1, <2>1 DEF PlanTags
<1> QED
  BY <1>1, <1>2 DEF StoreStep, KnownInv

LEMMA EditKnown == ASSUME IInv, KnownInv, Edit PROVE StoreStep
<1>1. op = "done" /\ UNCHANGED <<known, store>>
  BY DEF Edit, Idle, dht, IInv, PhaseInv
<1> QED
  BY <1>1 DEF StoreStep, KnownInv

LEMMA MaintainAtomic == ASSUME IInv, KnownInv, Maintain PROVE StoreStep
<1> DEFINE i == at - 1
<1>1. /\ "maintain" \in todo /\ op \in EditOps /\ known /\ known' = known
      /\ Stored(store) = 0..(OldLen - 1)
      /\ store \in [Index -> Metadata \cup {Null}]
  BY DEF Maintain, IInv, PhaseInv, StoreInv, PTypeOK, KnownInv, EditOps
<1>2. /\ Len(file) \in 0..MaxBlocks /\ Len(file) \in Nat /\ OldLen \in 0..MaxBlocks
      /\ \A k \in 1..MaxBlocks : k - 1 \in Index
  BY <1>1, Basics
<1>3. i \in Index
  <2>1. at \in 1..MaxBlocks
    <3>1. CASE op \in {"Update", "Insert"}
      BY <1>2, <3>1, BoundsAssumption DEF IInv, PhaseInv
    <3>2. CASE op = "Delete"
      <4>1. OldLen = Len(file) + 1 /\ at \in 1..(Len(file) + 1)
        BY <3>2 DEF IInv, PhaseInv, OldLen
      <4> QED
        BY <1>2, <4>1, BoundsAssumption
    <3> QED
      BY <1>1, <3>1, <3>2 DEF EditOps
  <2> QED
    BY <1>2, <2>1
<1>4. op \in {"Update", "Delete"} => store[i] # Null
  <2>1. op \in {"Update", "Delete"} => i \in 0..(OldLen - 1)
    BY <1>2 DEF IInv, PhaseInv, OldLen
  <2> QED
    BY <1>1, <2>1 DEF Stored
<1>5. PICK now \in Time :
        \/ /\ op = "Update"
           /\ store' = [store EXCEPT ![i] = [version |-> @.version + 1, timestamp |-> now]]
        \/ /\ op = "Insert"
           /\ store' = InsertEntry(store, i, [version |-> 1, timestamp |-> now])
        \/ /\ op = "Delete"
           /\ store' = DeleteEntry(store, i)
  BY DEF Maintain
<1>6. AF!Modify(i) \/ AF!Insert(i) \/ AF!Delete(i)
  <2>1. CASE op = "Update"
    <3>1. /\ store' = [store EXCEPT ![i] = store'[i]]
          /\ store'[i] = [version |-> store[i].version + 1, timestamp |-> now]
      BY <1>1, <1>3, <1>5, <2>1
    <3> QED
      BY <1>4, <2>1, <3>1 DEF AF!Modify
  <2>2. CASE op = "Insert"
    <3>1. store'[i] = [version |-> 1, timestamp |-> now]
      BY <1>3, <1>5, <2>2 DEF InsertEntry
    <3>2. store' = InsertEntry(store, i, store'[i])
      BY <1>5, <2>2, <3>1
    <3>3. store'[i] \in [version : {1}, timestamp : Time]
      BY <3>1
    <3> QED
      BY <3>2, <3>3, StoreAFIs DEF AF!Insert
  <2>3. CASE op = "Delete"
    BY <1>4, <1>5, <2>3, StoreAFIs DEF AF!Delete
  <2> QED
    BY <1>5, <2>1, <2>2, <2>3
<1> QED
  BY <1>1, <1>3, <1>6, StoreAFIs DEF StoreStep, KnownInv, AF!Next

LEMMA RegisterAtomic ==
  ASSUME IInv, KnownInv, NEW T, Register(T)
  PROVE  StoreStep
<1> DEFINE missing == {k \in T : store[k - 1] = Null}
           Fresh == [version : {1}, timestamp : Time]
<1>1. known' = TRUE
  BY DEF Register
<1>2. PICK now \in [missing -> Time] :
        store' = [j \in Index |-> IF j + 1 \in missing
                                  THEN [version |-> 1, timestamp |-> now[j + 1]]
                                  ELSE store[j]]
  BY DEF Register
<1>3. store' = [j \in Index |-> store'[j]] /\ \A j \in Index : store'[j] \in Fresh \cup {store[j]}
  BY <1>2
<1>4. known \in BOOLEAN
  BY DEF IInv, PTypeOK
<1>5. CASE known
  <2>1. AF!Register
    BY <1>3, StoreAFIs DEF AF!Register
  <2> QED
    BY <1>1, <1>4, <1>5, <2>1 DEF StoreStep, KnownInv, AF!Next
<1>6. CASE ~known
  <2>1. \A j \in Index : store[j] = Null
    BY <1>6 DEF KnownInv, Empty
  <2>2. store' \in [Index -> Fresh \cup {Null}]
    BY <1>3, <2>1
  <2> QED
    BY <1>1, <1>4, <1>6, <2>2, StoreAFIs DEF StoreStep, KnownInv, AF!Next, AF!Add
<1> QED
  BY <1>5, <1>6

LEMMA SentKnown ==
  ASSUME IInv, KnownInv, NEW what \in {"sendTags", "sendBlocks"}, Sent(what),
         UNCHANGED <<known, store>>
  PROVE  StoreStep
<1>1. ~known => "generateTags" \in todo' /\ op' = op
  <2>1. ASSUME ~known PROVE op = "Upload" /\ "generateTags" \in todo
    BY <2>1 DEF IInv, PhaseInv, KnownInv, Sent
  <2> QED
    BY <2>1 DEF Sent
<1> QED
  BY <1>1 DEF StoreStep, KnownInv

(***************************************************************************)
(* All that the protocol does to its store, edits and registrations, are   *)
(* operations of AtomicFile, which StateStore and ConcurrentTags implement.*)
(***************************************************************************)
THEOREM StoreStaysAtomic == MaintainFirst /\ PSpec => StoreIsAtomicFile
<1>1. PInit => KnownInv /\ AF!Init
  <2> SUFFICES ASSUME PInit PROVE KnownInv /\ AF!Init
    OBVIOUS
  <2>1. store = Empty /\ known = FALSE /\ op = "none"
    BY DEF PInit
  <2>2. Empty \in [Index -> [version : {1}, timestamp : Time] \cup {Null}]
    BY DEF Empty
  <2> QED
    BY <2>1, <2>2, StoreAFIs DEF KnownInv, AF!Init
<1>2. ASSUME IInv, KnownInv, [PNext]_pvars
      PROVE  KnownInv' /\ [AF!Next]_<<known, store>>
  <2>1. CASE Upload \/ Edit
    BY <1>2, <2>1, UploadKnown, EditKnown DEF StoreStep
  <2>2. CASE Maintain
    BY <1>2, <2>2, MaintainAtomic DEF StoreStep
  <2>3. CASE GenerateTags \/ GenerateTagsThrows
    <3>1. \E T : Register(T)
      BY <2>3 DEF GenerateTags, GenerateTagsThrows
    <3> QED
      BY <1>2, <3>1, RegisterAtomic DEF StoreStep
  <2>4. CASE SendTags \/ SendBlocks
    BY <1>2, <2>4, SentKnown DEF StoreStep, SendTags, SendBlocks, dht
  <2>5. CASE Challenge \/ Answer \/ UNCHANGED pvars
    <3>1. UNCHANGED <<known, store, op, todo>>
      BY <2>5 DEF Challenge, Answer, ReadMetadata, Prove, Verify, pvars, admin, dht
    <3> QED
      BY <1>2, <3>1 DEF KnownInv
  <2> QED
    BY <1>2, <2>1, <2>2, <2>3, <2>4, <2>5 DEF PNext, Settle
<1> QED
  BY <1>1, <1>2, Inductive, PTL DEF PSpec, StoreIsAtomicFile, AF!Spec
=============================================================================
