-------------------------- MODULE ArtifactsProofs --------------------------
(***************************************************************************)
(* Proofs about Artifacts, for challenges of any length and any number of  *)
(* artifacts: what an object holds after deserialize() returned true or    *)
(* false, when the archive may have ended anywhere.                        *)
(***************************************************************************)
EXTENDS Artifacts, ListLemmas

-----------------------------------------------------------------------------
(***************************************************************************)
(* The archive.                                                            *)
(***************************************************************************)
FieldName == {"emptyMarker", "pk", "g", "y", "u", "sk", "a", "sigma", "R", "r",
              "blockCount", "theta", "lambda", "version", "timestamp"}
ItemField == {"blockIndex", "nu", "itemVersion", "itemTimestamp"}

Cell == Nat \X Nat \X ItemField
ItemType == [1..4 -> Cell]
ArchiveValue == Nat \cup (Nat \X FieldName) \cup Cell

(* Every class has finitely many fields, each at one place.                *)
LEMMA LayoutFacts ==
  ASSUME NEW k \in DOMAIN Layout
  PROVE  /\ Layout[k] \in Seq(FieldName) /\ Len(Layout[k]) \in 1..4
         /\ DOMAIN Layout[k] = 1..Len(Layout[k])
         /\ \A i, j \in 1..Len(Layout[k]) : Layout[k][i] = Layout[k][j] => i = j
         /\ \A i \in 1..Len(Layout[k]) : Layout[k][i] \in Range(Layout[k])
         /\ \A f \in Range(Layout[k]) : \E i \in 1..Len(Layout[k]) : f = Layout[k][i]
<1>1. k \in {"AlgorithmParams", "UserPublicParams", "UserPrivateParams", "Tag",
             "Challenges", "Proves", "DynamicBlockMetadata"}
  BY DEF Layout
<1>2. Layout[k] \in {AlgoParams, PublicParams, PrivateParams, TagFields,
                     ChallengeFields, ProvesFields, VersionedBlockMetadata}
  BY <1>1 DEF Layout
<1> DEFINE l == Layout[k]
<1> HIDE DEF l
<1>3. l \in Seq(FieldName) /\ Len(l) \in 1..4
  <2>1. AlgoParams \in Seq(FieldName) /\ Len(AlgoParams) = 1
    BY DEF AlgoParams, FieldName
  <2>2. PublicParams \in Seq(FieldName) /\ Len(PublicParams) = 4
    BY DEF PublicParams, FieldName
  <2>3. PrivateParams \in Seq(FieldName) /\ Len(PrivateParams) = 2
    BY DEF PrivateParams, FieldName
  <2>4. TagFields \in Seq(FieldName) /\ Len(TagFields) = 1
    BY DEF TagFields, FieldName
  <2>5. ChallengeFields \in Seq(FieldName) /\ Len(ChallengeFields) = 3
    BY DEF ChallengeFields, FieldName
  <2>6. ProvesFields \in Seq(FieldName) /\ Len(ProvesFields) = 2
    BY DEF ProvesFields, FieldName
  <2>7. VersionedBlockMetadata \in Seq(FieldName) /\ Len(VersionedBlockMetadata) = 2
    BY DEF VersionedBlockMetadata, FieldName
  <2> QED
    BY <1>2, <2>1, <2>2, <2>3, <2>4, <2>5, <2>6, <2>7 DEF l
<1>4. \A i, j \in 1..Len(l) : l[i] = l[j] => i = j
  BY <1>2 DEF l, AlgoParams, PublicParams, PrivateParams, TagFields,
              ChallengeFields, ProvesFields, VersionedBlockMetadata
<1>5. DOMAIN l = 1..Len(l)
  BY <1>3
<1> QED
  BY <1>3, <1>4, <1>5 DEF l, Range

LEMMA ItemFacts ==
  /\ Len(ChallengeItem) = 4 /\ DOMAIN ChallengeItem = 1..4
  /\ \A i \in 1..4 : ChallengeItem[i] \in ItemField
<1>1. ChallengeItem \in Seq(ItemField) /\ Len(ChallengeItem) = 4
  BY DEF ChallengeItem, ItemField
<1> QED
  BY <1>1

(* What an object holds that was written with n items.                     *)
LEMMA WrittenIs ==
  ASSUME NEW k \in DOMAIN Layout, NEW s \in Nat, NEW n \in Nat
  PROVE  LET o == Written(k, s, n) IN
         /\ o = [fields |-> o.fields, items |-> o.items]
         /\ DOMAIN o.fields = Range(Layout[k])
         /\ \A f \in Range(Layout[k]) : o.fields[f] = Value(s, f)
         /\ \A i \in 1..Len(Layout[k]) : o.fields[Layout[k][i]] = Value(s, Layout[k][i])
         /\ o.items \in Seq(ItemType) /\ Len(o.items) = n
         /\ \A j \in 1..n : \A i \in 1..4 : o.items[j][i] = <<s, j, ChallengeItem[i]>>
<1> DEFINE o == Written(k, s, n)
<1>1. /\ o = [fields |-> o.fields, items |-> o.items]
      /\ o.fields = [f \in Range(Layout[k]) |-> Value(s, f)]
      /\ o.items = [j \in 1..n |-> [i \in 1..4 |-> <<s, j, ChallengeItem[i]>>]]
  BY ItemFacts DEF Written
<1> HIDE DEF o
<1>2. \A j \in 1..n : [i \in 1..4 |-> <<s, j, ChallengeItem[i]>>] \in ItemType
  BY ItemFacts DEF ItemType, Cell
<1>3. o.items \in Seq(ItemType) /\ Len(o.items) = n
  BY <1>1, <1>2
<1>4. \A j \in 1..n : \A i \in 1..4 : o.items[j][i] = <<s, j, ChallengeItem[i]>>
  BY <1>1
<1>5. \A i \in 1..Len(Layout[k]) : o.fields[Layout[k][i]] = Value(s, Layout[k][i])
  BY <1>1, LayoutFacts
<1> QED
  BY <1>1, <1>3, <1>4, <1>5 DEF o

(* Where the values of the items are.                                      *)
LEMMA ItemValuesPoints ==
  ASSUME NEW items \in Seq(ItemType)
  PROVE  /\ ItemValues(items) \in Seq(Cell)
         /\ Len(ItemValues(items)) = 4 * Len(items)
         /\ \A m \in 0..(Len(items) - 1), q \in 0..3 :
               ItemValues(items)[4 * m + q + 1] = items[m + 1][q + 1]
<1> DEFINE n == Len(items)
           v == [p \in 1..(4 * n) |-> items[((p - 1) \div 4) + 1][((p - 1) % 4) + 1]]
<1>1. ItemValues(items) = v
  BY ItemFacts DEF ItemValues
<1>2. n \in Nat
  OBVIOUS
<1>3. ASSUME NEW p \in 1..(4 * n)
      PROVE  /\ ((p - 1) \div 4) + 1 \in 1..n
             /\ ((p - 1) % 4) + 1 \in 1..4
  BY <1>2, Z3
<1>4. \A p \in 1..(4 * n) : items[((p - 1) \div 4) + 1][((p - 1) % 4) + 1] \in Cell
  BY <1>3 DEF ItemType
<1>5. v \in Seq(Cell) /\ Len(v) = 4 * n
  BY <1>2, <1>4
<1>6. ASSUME NEW m \in 0..(n - 1), NEW q \in 0..3
      PROVE  v[4 * m + q + 1] = items[m + 1][q + 1]
  <2>1. 4 * m + q + 1 \in 1..(4 * n)
    BY <1>2
  <2>2. ((4 * m + q + 1 - 1) \div 4) = m /\ ((4 * m + q + 1 - 1) % 4) = q
    BY <1>2, Z3
  <2> QED
    BY <2>1, <2>2
<1> HIDE DEF v
<1> QED
  BY <1>1, <1>5, <1>6

(* The archive of an object, position by position.                         *)
LEMMA SerializePoints ==
  ASSUME kind \in DOMAIN Layout, NEW s \in Nat, NEW n \in Nat, HasItems \/ n = 0
  PROVE  LET w == serialize(Written(kind, s, n))
             l == Len(Layout[kind])
         IN
         /\ w \in Seq(ArchiveValue)
         /\ Len(w) = IF HasItems THEN l + 1 + 4 * n ELSE l
         /\ \A p \in 1..l : w[p] = Value(s, Layout[kind][p])
         /\ HasItems => /\ w[l + 1] = n
                        /\ \A m \in 0..(n - 1), q \in 0..3 :
                              w[l + 2 + 4 * m + q] = <<s, m + 1, ChallengeItem[q + 1]>>
<1> DEFINE o == Written(kind, s, n)
           l == Len(Layout[kind])
           a == [i \in DOMAIN Layout[kind] |-> o.fields[Layout[kind][i]]]
           v == ItemValues(o.items)
           h == <<n>>
           z == h \o v
<1>1. l \in Nat /\ DOMAIN Layout[kind] = 1..l /\ Layout[kind] \in Seq(FieldName)
  BY LayoutFacts
<1>2. /\ o.items \in Seq(ItemType) /\ Len(o.items) = n
      /\ \A j \in 1..n : \A i \in 1..4 : o.items[j][i] = <<s, j, ChallengeItem[i]>>
      /\ \A i \in 1..l : o.fields[Layout[kind][i]] = Value(s, Layout[kind][i])
  BY WrittenIs
<1> HIDE DEF o
<1>3. \A i \in 1..l : a[i] = Value(s, Layout[kind][i]) /\ a[i] \in ArchiveValue
  BY <1>1, <1>2 DEF ArchiveValue, Value, FieldName
<1>4. a \in Seq(ArchiveValue) /\ Len(a) = l
  BY <1>1, <1>3
<1>5. v \in Seq(ArchiveValue) /\ Len(v) = 4 * n
  BY <1>2, ItemValuesPoints DEF ArchiveValue
<1>6. \A m \in 0..(n - 1), q \in 0..3 : v[4 * m + q + 1] = <<s, m + 1, ChallengeItem[q + 1]>>
  <2> SUFFICES ASSUME NEW m \in 0..(n - 1), NEW q \in 0..3
               PROVE  v[4 * m + q + 1] = <<s, m + 1, ChallengeItem[q + 1]>>
    OBVIOUS
  <2>1. v[4 * m + q + 1] = o.items[m + 1][q + 1]
    BY <1>2, ItemValuesPoints
  <2>2. m + 1 \in 1..n /\ q + 1 \in 1..4
    OBVIOUS
  <2> HIDE DEF v
  <2> QED
    BY <1>2, <2>1, <2>2
<1>7. h \in Seq(ArchiveValue) /\ Len(h) = 1 /\ h[1] = n
  BY DEF ArchiveValue
<1>8. serialize(o) = a \o (IF HasItems THEN z ELSE << >>)
  BY <1>2 DEF serialize
<1> HIDE DEF l, a, v, h
<1>9. CASE HasItems
  <2>0. 1 + 4 * n = Len(h) + Len(v)
    BY <1>5, <1>7
  <2>1. z \in Seq(ArchiveValue) /\ Len(z) = 1 + 4 * n
    BY <1>5, <1>7, <2>0, ConcatProperties
  <2>2. z = [p \in 1..(1 + 4 * n) |-> IF p <= Len(h) THEN h[p] ELSE v[p - Len(h)]]
    BY ONLY <1>5, <1>7, <2>0, ConcatPoints
  <2> HIDE DEF z
  <2>3. z[1] = n
    BY <1>7, <2>2
  <2>4. \A m \in 0..(n - 1), q \in 0..3 :
           z[4 * m + q + 2] = <<s, m + 1, ChallengeItem[q + 1]>>
    <3> SUFFICES ASSUME NEW m \in 0..(n - 1), NEW q \in 0..3
                 PROVE  z[4 * m + q + 2] = <<s, m + 1, ChallengeItem[q + 1]>>
      OBVIOUS
    <3>1. 4 * m + q + 2 \in 1..(1 + 4 * n) /\ ~(4 * m + q + 2 <= 1)
          /\ 4 * m + q + 2 - 1 = 4 * m + q + 1
      OBVIOUS
    <3>2. z[4 * m + q + 2] = v[4 * m + q + 1]
      BY <1>7, <2>2, <3>1
    <3> QED
      BY <1>6, <3>2
  <2> DEFINE w == a \o z
             k == l + (1 + 4 * n)
  <2>5. k = Len(a) + Len(z)
    BY <1>4, <2>1
  <2>6. w \in Seq(ArchiveValue) /\ Len(w) = k
    BY <1>4, <2>1, <2>5, ConcatProperties
  <2>7. w = [p \in 1..k |-> IF p <= Len(a) THEN a[p] ELSE z[p - Len(a)]]
    BY ONLY <1>4, <2>1, <2>5, ConcatPoints
  <2> HIDE DEF w
  <2>8. \A p \in 1..l : w[p] = Value(s, Layout[kind][p])
    BY <1>1, <1>3, <1>4, <2>7 DEF l
  <2>9. w[l + 1] = n
    <3>1. l + 1 \in 1..k /\ ~(l + 1 <= l) /\ l + 1 - l = 1
      BY <1>1 DEF l
    <3> QED
      BY <1>4, <2>3, <2>7, <3>1
  <2>10. ASSUME NEW m \in 0..(n - 1), NEW q \in 0..3
         PROVE  w[l + 2 + 4 * m + q] = <<s, m + 1, ChallengeItem[q + 1]>>
    <3>1. /\ l + 2 + 4 * m + q \in 1..k /\ ~(l + 2 + 4 * m + q <= l)
          /\ l + 2 + 4 * m + q - l = 4 * m + q + 2
      BY <1>1 DEF l
    <3>2. w[l + 2 + 4 * m + q] = z[4 * m + q + 2]
      BY <1>4, <2>7, <3>1
    <3> QED
      BY <2>4, <3>2
  <2>11. serialize(o) = w /\ k = l + 1 + 4 * n
    BY <1>1, <1>8, <1>9 DEF w, l
  <2> QED
    BY <1>9, <2>6, <2>8, <2>9, <2>10, <2>11 DEF o, l
<1>10. CASE ~HasItems
  <2>1. serialize(o) = a
    BY <1>4, <1>8, <1>10, ConcatEmptySeq
  <2> QED
    BY <1>3, <1>4, <1>10, <2>1 DEF o, l
<1> QED
  BY <1>9, <1>10

-----------------------------------------------------------------------------
(***************************************************************************)
(* The inductive invariant.                                                *)
(***************************************************************************)
(* An object of the kind.                                                  *)
ObjectOk(o) ==
  /\ o = [fields |-> o.fields, items |-> o.items]
  /\ o.fields = [f \in Fields |-> o.fields[f]]
  /\ \A f \in Fields : o.fields[f] \in ((0..MaxStamp) \X {f}) \cup {Torn}
  /\ o.items \in Seq(ItemType)
  /\ ~HasItems => o.items = << >>

(* The object that was written.                                            *)
SentIs(s, n) == sent = Written(kind, s, n) /\ (HasItems \/ n = 0)

ShapeInv ==
  /\ kind \in DOMAIN Layout
  /\ ObjectOk(object)
  /\ \E s \in 0..MaxStamp, n \in Nat : SentIs(s, n)
  /\ archive \in Seq(ArchiveValue) /\ at \in 1..(Len(archive) + 1)
  /\ item \in Seq(Cell) /\ Len(item) < 4
  /\ stamp \in 0..MaxStamp
  /\ pc \in {"ready", "fields", "items"} /\ answer \in {"none", "true", "false"}

(* While an object is read, what arrived is the beginning of its archive.  *)
ArchiveInv ==
  pc # "ready" =>
    /\ answer = "none"
    /\ Len(archive) <= Len(serialize(sent))
    /\ \A p \in 1..Len(archive) : archive[p] = serialize(sent)[p]

(* The fields before the place of reading are new and the others old.      *)
FieldsInv ==
  pc = "fields" =>
    /\ at <= Len(Layout[kind]) + 1
    /\ \A i \in 1..Len(Layout[kind]) :
         object.fields[Layout[kind][i]] = IF i < at THEN sent.fields[Layout[kind][i]]
                                          ELSE before.fields[Layout[kind][i]]
    /\ object.items = before.items
    /\ item = << >>

(* All fields are new; so are the items, and the values of the next item,  *)
(* as far as the place of reading.                                         *)
ItemsInv ==
  pc = "items" =>
    /\ HasItems /\ count = Len(sent.items)
    /\ at = Len(Layout[kind]) + 2 + 4 * Len(object.items) + Len(item)
    /\ \A i \in 1..Len(Layout[kind]) :
         object.fields[Layout[kind][i]] = sent.fields[Layout[kind][i]]
    /\ Len(object.items) <= count
    /\ \A j \in 1..Len(object.items) : object.items[j] = sent.items[j]
    /\ Len(object.items) < count =>
         \A i \in 1..Len(item) : item[i] = sent.items[Len(object.items) + 1][i]

ReadyInv == pc = "ready" => OldOrNew

IInv == ShapeInv /\ ArchiveInv /\ FieldsInv /\ ItemsInv /\ ReadyInv /\ ReadsWhatWasWritten

-----------------------------------------------------------------------------
(* The archive of the object that was written.                             *)
LEMMA SentPoints ==
  ASSUME ShapeInv
  PROVE  \E s \in 0..MaxStamp, n \in Nat :
         LET l == Len(Layout[kind]) IN
         /\ SentIs(s, n)
         /\ sent = [fields |-> sent.fields, items |-> sent.items]
         /\ sent.fields = [f \in Fields |-> sent.fields[f]]
         /\ \A i \in 1..l : sent.fields[Layout[kind][i]] = Value(s, Layout[kind][i])
         /\ sent.items \in Seq(ItemType) /\ Len(sent.items) = n
         /\ \A j \in 1..n : \A i \in 1..4 : sent.items[j][i] = <<s, j, ChallengeItem[i]>>
         /\ Len(serialize(sent)) = IF HasItems THEN l + 1 + 4 * n ELSE l
         /\ \A p \in 1..l : serialize(sent)[p] = sent.fields[Layout[kind][p]]
         /\ HasItems => /\ serialize(sent)[l + 1] = n
                        /\ \A m \in 0..(n - 1), q \in 0..3 :
                              serialize(sent)[l + 2 + 4 * m + q] = sent.items[m + 1][q + 1]
<1> DEFINE l == Len(Layout[kind])
<1>1. PICK s \in 0..MaxStamp, n \in Nat : SentIs(s, n)
  BY DEF ShapeInv
<1>2. s \in Nat /\ kind \in DOMAIN Layout
  BY BoundsAssumption DEF ShapeInv
<1>3. sent = Written(kind, s, n) /\ (HasItems \/ n = 0)
  BY <1>1 DEF SentIs
<1>4. /\ sent = [fields |-> sent.fields, items |-> sent.items]
      /\ DOMAIN sent.fields = Fields
      /\ \A i \in 1..l : sent.fields[Layout[kind][i]] = Value(s, Layout[kind][i])
      /\ sent.items \in Seq(ItemType) /\ Len(sent.items) = n
      /\ \A j \in 1..n : \A i \in 1..4 : sent.items[j][i] = <<s, j, ChallengeItem[i]>>
  BY <1>2, <1>3, WrittenIs DEF Fields
<1>5. sent.fields = [f \in Fields |-> sent.fields[f]]
  BY <1>3 DEF Written, Fields
<1> DEFINE w == serialize(Written(kind, s, n))
<1>6. /\ Len(w) = IF HasItems THEN l + 1 + 4 * n ELSE l
      /\ \A p \in 1..l : w[p] = Value(s, Layout[kind][p])
      /\ HasItems => /\ w[l + 1] = n
                     /\ \A m \in 0..(n - 1), q \in 0..3 :
                           w[l + 2 + 4 * m + q] = <<s, m + 1, ChallengeItem[q + 1]>>
  BY <1>2, <1>3, SerializePoints
<1> HIDE DEF w
<1>7. \A p \in 1..l : w[p] = sent.fields[Layout[kind][p]]
  BY <1>4, <1>6
<1>8. ASSUME NEW m \in 0..(n - 1), NEW q \in 0..3
      PROVE  <<s, m + 1, ChallengeItem[q + 1]>> = sent.items[m + 1][q + 1]
  <2>1. m + 1 \in 1..n /\ q + 1 \in 1..4
    OBVIOUS
  <2> QED
    BY <1>4, <2>1
<1>9. HasItems => \A m \in 0..(n - 1), q \in 0..3 :
                     w[l + 2 + 4 * m + q] = sent.items[m + 1][q + 1]
  BY <1>6, <1>8
<1>10. serialize(sent) = w
  BY <1>3 DEF w
<1> QED
  BY <1>1, <1>4, <1>5, <1>6, <1>7, <1>9, <1>10

LEMMA SerializeFrame ==
  ASSUME kind' = kind, sent' = sent
  PROVE  serialize(sent)' = serialize(sent)
  BY DEF serialize, HasItems

(* An object in which one field is replaced.                               *)
LEMMA SetField ==
  ASSUME kind \in DOMAIN Layout, kind' = kind, ObjectOk(object),
         NEW k \in 1..Len(Layout[kind]),
         NEW v \in ((0..MaxStamp) \X {Layout[kind][k]}) \cup {Torn},
         object' = [object EXCEPT !.fields[Layout[kind][k]] = v]
  PROVE  /\ ObjectOk(object)' /\ object'.items = object.items
         /\ \A i \in 1..Len(Layout[kind]) :
               object'.fields[Layout[kind][i]] =
                 IF i = k THEN v ELSE object.fields[Layout[kind][i]]
<1> DEFINE f == Layout[kind][k]
           g == [object.fields EXCEPT ![f] = v]
<1>1. object = [fields |-> object.fields, items |-> object.items]
  BY DEF ObjectOk
<1>2. object' = [fields |-> g, items |-> object.items]
  BY <1>1
<1>3. f \in Fields /\ v \in ((0..MaxStamp) \X {f}) \cup {Torn}
  BY LayoutFacts DEF Fields
<1>4. object.fields = [x \in Fields |-> object.fields[x]]
  BY DEF ObjectOk
<1>5. \A i \in 1..Len(Layout[kind]) : Layout[kind][i] \in Fields
                                         /\ (Layout[kind][i] = f <=> i = k)
  BY LayoutFacts DEF Fields
<1> HIDE DEF f
<1>6. g = [x \in Fields |-> IF x = f THEN v ELSE object.fields[x]]
  BY <1>3, <1>4
<1> HIDE DEF g
<1>7. /\ object'.fields = g /\ object'.items = object.items
      /\ object' = [fields |-> object'.fields, items |-> object'.items]
  BY ONLY <1>2
<1>8. \A i \in 1..Len(Layout[kind]) :
         g[Layout[kind][i]] = IF i = k THEN v ELSE object.fields[Layout[kind][i]]
  BY <1>5, <1>6
<1>9. \A x \in Fields : g[x] \in ((0..MaxStamp) \X {x}) \cup {Torn}
  BY <1>3, <1>6 DEF ObjectOk
<1>10. g = [x \in Fields |-> g[x]]
  BY <1>6
<1>11. Fields' = Fields /\ HasItems' = HasItems
  BY DEF Fields, HasItems
<1>12. ObjectOk(object)'
  BY <1>7, <1>9, <1>10, <1>11 DEF ObjectOk
<1> QED
  BY <1>7, <1>8, <1>12

(* A witness of OldOrNew after a step.                                     *)
LEMMA OldOrNewFrom ==
  ASSUME kind' \in DOMAIN Layout, NEW n \in 0..Len(Layout[kind']),
         \A i \in 1..Len(Layout[kind']) :
            \/ i <= n /\ object'.fields[Layout[kind'][i]] = sent'.fields[Layout[kind'][i]]
            \/ i > n /\ object'.fields[Layout[kind'][i]] = before'.fields[Layout[kind'][i]]
            \/ i = n + 1 /\ object'.fields[Layout[kind'][i]] = Torn,
         \/ object'.items = before'.items
         \/ n = Len(Layout[kind']) /\ IsPrefix(object'.items, sent'.items)
  PROVE  OldOrNew'
<1>1. DOMAIN Layout[kind'] = 1..Len(Layout[kind'])
  BY LayoutFacts
<1> QED
  BY <1>1 DEF OldOrNew

(* Sequences of items that agree up to the end of the first.               *)
LEMMA PrefixPoints ==
  ASSUME NEW s \in Seq(ItemType), NEW t \in Seq(ItemType), Len(s) <= Len(t),
         \A j \in 1..Len(s) : s[j] = t[j]
  PROVE  IsPrefix(s, t) /\ (Len(s) = Len(t) => s = t)
<1>1. s = SubSeq(t, 1, Len(s))
  <2> DEFINE n == Len(s)
             u == SubSeq(t, 1, n)
  <2>1. n \in Nat /\ u \in Seq(ItemType) /\ Len(u) = n /\ \A j \in 1..n : u[j] = t[j]
    OBVIOUS
  <2>2. s = [j \in 1..n |-> s[j]]
    OBVIOUS
  <2> HIDE DEF u
  <2>3. u = [j \in 1..n |-> u[j]]
    BY <2>1
  <2>4. s = u
    BY <2>1, <2>2, <2>3
  <2> QED
    BY <2>4 DEF u
<1>2. IsPrefix(s, t)
  BY <1>1 DEF IsPrefix
<1>3. ASSUME Len(s) = Len(t) PROVE s = t
  <2>1. s = [j \in 1..Len(s) |-> s[j]] /\ t = [j \in 1..Len(t) |-> t[j]]
    OBVIOUS
  <2> QED
    BY <1>3, <2>1
<1> QED
  BY <1>2, <1>3

-----------------------------------------------------------------------------
(***************************************************************************)
(* Artifacts are made.                                                     *)
(***************************************************************************)
(* An object written with the values of one stamp is one of its kind.      *)
LEMMA WrittenOk ==
  ASSUME kind' \in DOMAIN Layout, NEW s \in 0..MaxStamp, object' = Written(kind', s, 0)
  PROVE  ObjectOk(object)'
<1>1. s \in Nat /\ 0 \in Nat /\ 0 \in 0..MaxStamp
  BY BoundsAssumption
<1>2. /\ object' = [fields |-> object'.fields, items |-> object'.items]
      /\ \A f \in Range(Layout[kind']) : object'.fields[f] = Value(s, f)
      /\ object'.items \in Seq(ItemType) /\ Len(object'.items) = 0
  BY <1>1, WrittenIs
<1>3. object'.fields = [f \in Range(Layout[kind']) |-> object'.fields[f]]
  BY DEF Written
<1>4. ASSUME NEW f \in Range(Layout[kind'])
      PROVE  object'.fields[f] \in ((0..MaxStamp) \X {f}) \cup {Torn}
  <2>1. object'.fields[f] = Value(s, f)
    BY <1>2
  <2>2. Value(s, f) = <<0, f>> \/ Value(s, f) = <<s, f>>
    BY DEF Value
  <2>3. <<0, f>> \in (0..MaxStamp) \X {f} /\ <<s, f>> \in (0..MaxStamp) \X {f}
    BY <1>1
  <2> QED
    BY <2>1, <2>2, <2>3
<1>5. object'.items = << >>
  BY <1>2
<1> QED
  BY <1>2, <1>3, <1>4, <1>5 DEF ObjectOk, Fields

(* Objects that are made are in order.                                     *)
LEMMA MadeStep ==
  ASSUME IInv, pc = "ready", kind' \in DOMAIN Layout, NEW s \in 0..MaxStamp,
         object' = Written(kind', s, 0), before' = object', sent' = object',
         answer' = "none", stamp' \in 0..MaxStamp,
         archive' = archive, at' = at, item' = item, pc' = pc
  PROVE  IInv'
<1>1. ObjectOk(object)'
  BY WrittenOk
<1>2. SentIs(s, 0)'
  BY DEF SentIs
<1>3. ShapeInv'
  BY <1>1, <1>2 DEF IInv, ShapeInv
<1>4. OldOrNew'
  <2>1. 0 \in 0..Len(Layout[kind']) /\ Len(Layout[kind']) \in Nat
    BY LayoutFacts
  <2>2. \A i \in 1..Len(Layout[kind']) : i > 0
    BY <2>1
  <2> QED
    BY <2>1, <2>2, OldOrNewFrom
<1> QED
  BY <1>3, <1>4 DEF IInv, ArchiveInv, FieldsInv, ItemsInv, ReadyInv, ReadsWhatWasWritten

LEMMA CreateStep == ASSUME IInv, createArtifact PROVE IInv'
<1>1. /\ pc = "ready" /\ kind' \in DOMAIN Layout /\ object' = Written(kind', 0, 0)
      /\ before' = object' /\ sent' = object' /\ answer' = "none"
      /\ archive' = archive /\ at' = at /\ item' = item /\ pc' = pc /\ stamp' = stamp
  BY DEF createArtifact, Default
<1>2. 0 \in 0..MaxStamp /\ stamp' \in 0..MaxStamp
  BY <1>1, BoundsAssumption DEF IInv, ShapeInv
<1> QED
  BY <1>1, <1>2, MadeStep

LEMMA AssignStep == ASSUME IInv, assign PROVE IInv'
<1>1. /\ pc = "ready" /\ object' = Written(kind, stamp', 0) /\ stamp' = stamp + 1
      /\ stamp < MaxStamp /\ kind' = kind
      /\ before' = object' /\ sent' = object' /\ answer' = "none"
      /\ archive' = archive /\ at' = at /\ item' = item /\ pc' = pc
  BY DEF assign
<1>2. stamp' \in 0..MaxStamp /\ kind' \in DOMAIN Layout
  BY <1>1, BoundsAssumption DEF IInv, ShapeInv
<1>3. object' = Written(kind', stamp', 0)
  BY <1>1
<1> QED
  BY <1>1, <1>2, <1>3, MadeStep

-----------------------------------------------------------------------------
(***************************************************************************)
(* Reading.                                                                *)
(***************************************************************************)
LEMMA BeginStep == ASSUME IInv, Begin PROVE IInv'
<1> DEFINE w == serialize(sent')
<1>1. /\ pc = "ready" /\ stamp < MaxStamp /\ stamp' = stamp + 1
      /\ object' = object /\ before' = object /\ at' = 1 /\ count' = 0 /\ item' = << >>
      /\ pc' = "fields" /\ answer' = "none" /\ kind' = kind
  BY DEF Begin, Arrive
<1>2. PICK n \in 0..(IF HasItems THEN MaxItems ELSE 0) : sent' = Written(kind, stamp', n)
  BY DEF Begin, Arrive
<1>3. PICK cut \in 0..Len(w) : archive' = SubSeq(w, 1, cut)
  BY DEF Begin, Arrive
<1>4. /\ n \in Nat /\ (HasItems \/ n = 0)
      /\ stamp' \in 0..MaxStamp /\ stamp' \in Nat /\ kind \in DOMAIN Layout
  BY <1>1, BoundsAssumption DEF IInv, ShapeInv
<1>5. w \in Seq(ArchiveValue)
  <2>1. serialize(Written(kind, stamp', n)) \in Seq(ArchiveValue)
    BY <1>4, SerializePoints
  <2> QED
    BY <1>2, <2>1
<1>6. serialize(sent)' = w
  BY <1>1 DEF serialize, HasItems
<1> HIDE DEF w
<1>7. /\ archive' \in Seq(ArchiveValue) /\ Len(archive') = cut /\ cut <= Len(w)
      /\ \A p \in 1..cut : archive'[p] = w[p]
  BY <1>3, <1>5
<1>8. ArchiveInv'
  BY <1>1, <1>6, <1>7 DEF ArchiveInv
<1>9. SentIs(stamp, n)'
  BY <1>1, <1>2, <1>4 DEF SentIs, HasItems
<1>10. ShapeInv'
  <2>1. ObjectOk(object)'
    BY <1>1 DEF IInv, ShapeInv, ObjectOk, Fields, HasItems
  <2>2. at' \in 1..(Len(archive') + 1) /\ item' \in Seq(Cell) /\ Len(item') < 4
    BY <1>1, <1>7
  <2>3. \E s \in 0..MaxStamp, m \in Nat : SentIs(s, m)'
    BY <1>4, <1>9
  <2> QED
    BY <1>1, <1>4, <1>7, <2>1, <2>2, <2>3 DEF ShapeInv
<1>11. FieldsInv'
  <2>1. Len(Layout[kind]) \in Nat
    BY <1>4, LayoutFacts
  <2> QED
    BY <1>1, <2>1 DEF FieldsInv
<1> QED
  BY <1>1, <1>8, <1>10, <1>11 DEF IInv, ItemsInv, ReadyInv, ReadsWhatWasWritten

(* What a step of reading leaves alone.                                    *)
ReadFrame == /\ kind' = kind /\ archive' = archive /\ answer' = answer /\ stamp' = stamp
             /\ sent' = sent /\ before' = before

LEMMA ReadFrameIs ==
  ASSUME IInv, ReadFrame
  PROVE  /\ \E s \in 0..MaxStamp, n \in Nat : SentIs(s, n)'
         /\ pc # "ready" => ArchiveInv'
<1>1. \E s \in 0..MaxStamp, n \in Nat : SentIs(s, n)'
  BY DEF ReadFrame, IInv, ShapeInv, SentIs, HasItems
<1>2. serialize(sent)' = serialize(sent)
  BY SerializeFrame DEF ReadFrame
<1> QED
  BY <1>1, <1>2 DEF ReadFrame, IInv, ArchiveInv

LEMMA ReadFieldStep == ASSUME IInv, ReadField PROVE IInv'
<1> DEFINE l == Len(Layout[kind])
           f == Layout[kind][at]
<1>1. /\ pc = "fields" /\ at <= l /\ at <= Len(archive) /\ kind \in DOMAIN Layout
      /\ object' = [object EXCEPT !.fields[f] = archive[at]]
      /\ at' = at + 1 /\ count' = count /\ item' = item /\ pc' = pc /\ ReadFrame
  BY DEF ReadField, AtField, Available, Field, ReadFrame, IInv, ShapeInv
<1>2. at \in 1..l /\ at \in 1..Len(archive) /\ l \in Nat /\ Len(archive) \in Nat
  BY <1>1, LayoutFacts DEF IInv, ShapeInv
<1>3. PICK s \in 0..MaxStamp :
         /\ \A i \in 1..l : sent.fields[Layout[kind][i]] = Value(s, Layout[kind][i])
         /\ \A p \in 1..l : serialize(sent)[p] = sent.fields[Layout[kind][p]]
  BY SentPoints DEF IInv
<1>4. archive[at] = sent.fields[f] /\ archive[at] = Value(s, f)
  BY <1>1, <1>2, <1>3 DEF IInv, ArchiveInv
<1>5. archive[at] \in ((0..MaxStamp) \X {f}) \cup {Torn}
  <2>1. Value(s, f) = <<0, f>> \/ Value(s, f) = <<s, f>>
    BY DEF Value
  <2>2. 0 \in 0..MaxStamp
    BY BoundsAssumption
  <2>3. <<0, f>> \in (0..MaxStamp) \X {f} /\ <<s, f>> \in (0..MaxStamp) \X {f}
    BY <2>2
  <2> QED
    BY <1>4, <2>1, <2>3
<1>6. /\ ObjectOk(object)' /\ object'.items = object.items
      /\ \A i \in 1..l : object'.fields[Layout[kind][i]] =
            IF i = at THEN archive[at] ELSE object.fields[Layout[kind][i]]
  <2>1. PICK k \in 1..l : k = at
    BY <1>2
  <2>2. PICK v \in ((0..MaxStamp) \X {f}) \cup {Torn} : v = archive[at]
    BY <1>5
  <2>3. kind' = kind /\ ObjectOk(object)
    BY <1>1 DEF ReadFrame, IInv, ShapeInv
  <2>4. /\ v \in ((0..MaxStamp) \X {Layout[kind][k]}) \cup {Torn}
        /\ object' = [object EXCEPT !.fields[Layout[kind][k]] = v]
    BY <1>1, <2>1, <2>2
  <2>5. kind \in DOMAIN Layout
    BY <1>1
  <2>6. /\ ObjectOk(object)' /\ object'.items = object.items
        /\ \A i \in 1..l : object'.fields[Layout[kind][i]] =
              IF i = k THEN v ELSE object.fields[Layout[kind][i]]
    BY ONLY <2>3, <2>4, <2>5, k \in 1..l, SetField
  <2> QED
    BY <2>1, <2>2, <2>6
<1>7. ShapeInv'
  <2>1. ObjectOk(object)'
    BY <1>6
  <2>2. at' \in 1..(Len(archive') + 1)
    BY <1>1, <1>2 DEF ReadFrame
  <2>3. \E s1 \in 0..MaxStamp, n \in Nat : SentIs(s1, n)'
    BY <1>1, ReadFrameIs
  <2> QED
    BY <1>1, <2>1, <2>2, <2>3 DEF ShapeInv, ReadFrame, IInv
<1>8. FieldsInv'
  <2> HIDE DEF f
  <2>1. at' <= l + 1
    BY <1>1, <1>2
  <2>2. ASSUME NEW i \in 1..l
        PROVE  object'.fields[Layout[kind][i]] = IF i < at' THEN sent.fields[Layout[kind][i]]
                                                 ELSE before.fields[Layout[kind][i]]
    <3>1. object.fields[Layout[kind][i]] = IF i < at THEN sent.fields[Layout[kind][i]]
                                           ELSE before.fields[Layout[kind][i]]
      BY <1>1 DEF IInv, FieldsInv
    <3>2. i < at' <=> i < at \/ i = at
      BY <1>1, <1>2
    <3> QED
      BY <1>2, <1>4, <1>6, <3>1, <3>2 DEF f
  <2>3. object'.items = before.items /\ item = << >>
    BY <1>1, <1>6 DEF IInv, FieldsInv
  <2> QED
    BY <1>1, <2>1, <2>2, <2>3 DEF FieldsInv, ReadFrame
<1>9. ArchiveInv' /\ answer' = "none"
  BY <1>1, ReadFrameIs DEF ReadFrame, IInv, ArchiveInv
<1> QED
  BY <1>1, <1>7, <1>8, <1>9 DEF IInv, ItemsInv, ReadyInv, ReadsWhatWasWritten

LEMMA ReadCountStep == ASSUME IInv, ReadCount PROVE IInv'
<1> DEFINE l == Len(Layout[kind])
<1>1. /\ HasItems /\ pc = "fields" /\ at > l /\ at <= Len(archive)
      /\ kind \in DOMAIN Layout
      /\ count' = archive[at]
      /\ object' = [object EXCEPT !.items = << >>]
      /\ at' = at + 1 /\ pc' = "items" /\ item' = item /\ ReadFrame
  BY DEF ReadCount, Available, ReadFrame, IInv, ShapeInv
<1>2. at = l + 1 /\ at \in 1..Len(archive) /\ l \in Nat /\ Len(archive) \in Nat
  BY <1>1, LayoutFacts DEF IInv, ShapeInv, FieldsInv
<1>3. PICK n \in Nat : Len(sent.items) = n /\ serialize(sent)[l + 1] = n
  BY <1>1, SentPoints DEF IInv
<1>4. count' = Len(sent.items) /\ Len(sent.items) \in Nat
  BY <1>1, <1>2, <1>3 DEF IInv, ArchiveInv
<1>5. /\ object'.fields = object.fields /\ object'.items = << >>
      /\ object' = [fields |-> object'.fields, items |-> object'.items]
  BY <1>1 DEF IInv, ShapeInv, ObjectOk
<1>6. \A i \in 1..l : object.fields[Layout[kind][i]] = sent.fields[Layout[kind][i]]
  BY <1>1, <1>2 DEF IInv, FieldsInv
<1>7. item = << >>
  BY <1>1 DEF IInv, FieldsInv
<1>8. ShapeInv'
  <2>1. ObjectOk(object)'
    BY <1>1, <1>5 DEF ObjectOk, ReadFrame, Fields, HasItems, IInv, ShapeInv
  <2>2. at' \in 1..(Len(archive') + 1)
    BY <1>1, <1>2 DEF ReadFrame
  <2>3. \E s \in 0..MaxStamp, k \in Nat : SentIs(s, k)'
    BY <1>1, ReadFrameIs
  <2> QED
    BY <1>1, <2>1, <2>2, <2>3 DEF ShapeInv, ReadFrame, IInv
<1>9. ItemsInv'
  <2>1. Len(object'.items) = 0 /\ Len(item') = 0
    BY <1>1, <1>5, <1>7
  <2>2. at' = l + 2 + 4 * Len(object'.items) + Len(item')
    BY <1>1, <1>2, <2>1
  <2> QED
    BY <1>1, <1>4, <1>5, <1>6, <2>1, <2>2 DEF ItemsInv, ReadFrame, HasItems
<1>10. ArchiveInv' /\ answer' = "none"
  BY <1>1, ReadFrameIs DEF ReadFrame, IInv, ArchiveInv
<1> QED
  BY <1>1, <1>8, <1>9, <1>10 DEF IInv, FieldsInv, ReadyInv, ReadsWhatWasWritten

LEMMA ReadItemStep == ASSUME IInv, ReadItem PROVE IInv'
<1> DEFINE l == Len(Layout[kind])
           m == Len(object.items)
           q == Len(item)
           read == Append(item, archive[at])
<1>1. /\ pc = "items" /\ m < count /\ at <= Len(archive) /\ kind \in DOMAIN Layout
      /\ IF Len(read) = 4
         THEN /\ object' = [object EXCEPT !.items = Append(@, read)] /\ item' = << >>
         ELSE item' = read /\ object' = object
      /\ at' = at + 1 /\ count' = count /\ pc' = pc /\ ReadFrame
  BY ItemFacts DEF ReadItem, Available, ReadFrame, IInv, ShapeInv
<1>2. /\ HasItems /\ count = Len(sent.items) /\ at = l + 2 + 4 * m + q
      /\ \A i \in 1..l : object.fields[Layout[kind][i]] = sent.fields[Layout[kind][i]]
      /\ \A j \in 1..m : object.items[j] = sent.items[j]
      /\ \A i \in 1..q : item[i] = sent.items[m + 1][i]
  BY <1>1 DEF IInv, ItemsInv
<1>3. /\ l \in Nat /\ m \in Nat /\ q \in 0..3 /\ Len(archive) \in Nat
      /\ at \in 1..Len(archive)
      /\ item \in Seq(Cell) /\ object.items \in Seq(ItemType)
  <2>1. /\ item \in Seq(Cell) /\ q < 4 /\ object.items \in Seq(ItemType)
        /\ archive \in Seq(ArchiveValue) /\ at \in 1..(Len(archive) + 1)
    BY DEF IInv, ShapeInv, ObjectOk
  <2>2. l \in Nat
    BY <1>1, LayoutFacts
  <2>3. q \in Nat /\ m \in Nat /\ Len(archive) \in Nat
    BY <2>1
  <2> HIDE DEF l, m, q
  <2>4. q \in 0..3
    BY <2>1, <2>3
  <2>5. at \in 1..Len(archive)
    BY <1>1, <2>1, <2>3
  <2> QED
    BY <2>1, <2>2, <2>3, <2>4, <2>5
<1> HIDE DEF l, m, q
<1>4. PICK n \in Nat :
         /\ sent.items \in Seq(ItemType) /\ Len(sent.items) = n
         /\ \A k \in 0..(n - 1), r \in 0..3 :
               serialize(sent)[l + 2 + 4 * k + r] = sent.items[k + 1][r + 1]
  BY <1>2, SentPoints DEF IInv, l
<1>5. m \in 0..(n - 1) /\ m + 1 \in 1..n
  <2>1. count = n
    BY <1>2, <1>4
  <2>2. m < n
    BY <1>1, <2>1
  <2>3. m \in Nat
    BY <1>3
  <2> QED
    BY <2>2, <2>3
<1>6. archive[at] = sent.items[m + 1][q + 1]
  <2>1. archive[at] = serialize(sent)[at]
    BY <1>1, <1>3 DEF IInv, ArchiveInv
  <2>2. serialize(sent)[l + 2 + 4 * m + q] = sent.items[m + 1][q + 1]
    BY <1>3, <1>4, <1>5
  <2> QED
    BY <1>2, <2>1, <2>2
<1>7. sent.items[m + 1] \in ItemType
  BY <1>4, <1>5
<1>8. archive[at] \in Cell
  <2>1. q + 1 \in 1..4
    BY <1>3
  <2> QED
    BY <1>6, <1>7, <2>1 DEF ItemType
<1>9. /\ read \in Seq(Cell) /\ Len(read) = q + 1
      /\ \A i \in 1..(q + 1) : read[i] = IF i = q + 1 THEN archive[at] ELSE item[i]
  BY <1>3, <1>8 DEF q
<1> HIDE DEF read
<1>a. l \in Nat /\ m \in Nat /\ q \in 0..3
  BY <1>3
<1>b. Len(read) = q + 1
  BY <1>9
<1>c. at' = at + 1 /\ at = l + 2 + 4 * m + q /\ count' = n /\ count = n
  BY <1>1, <1>2, <1>4
<1>10. \A i \in 1..(q + 1) : read[i] = sent.items[m + 1][i]
  <2> SUFFICES ASSUME NEW i \in 1..(q + 1) PROVE read[i] = sent.items[m + 1][i]
    OBVIOUS
  <2>1. CASE i = q + 1
    BY <1>6, <1>9, <2>1
  <2>2. CASE i # q + 1
    <3>1. i \in 1..q
      BY <1>a, <2>2
    <3> QED
      BY <1>2, <1>9, <2>2, <3>1
  <2> QED
    BY <2>1, <2>2
<1>11. at' \in 1..(Len(archive') + 1)
  BY <1>1, <1>3 DEF ReadFrame
<1>12. \E s \in 0..MaxStamp, k \in Nat : SentIs(s, k)'
  BY <1>1, ReadFrameIs
<1>13. ArchiveInv' /\ answer' = "none"
  BY <1>1, ReadFrameIs DEF ReadFrame, IInv, ArchiveInv
<1>14. CASE Len(read) = 4
  <2>0. q = 3
    <3>1. q + 1 = 4
      BY ONLY <1>b, <1>14
    <3> QED
      BY ONLY <1>a, <3>1
  <2>1. q = 3 /\ item' = << >> /\ Len(item') = 0
    BY <1>1, <1>14, <2>0
  <2>2. read = sent.items[m + 1] /\ read \in ItemType
    <3>0. read \in Seq(Cell)
      BY <1>9
    <3>1. read = [i \in 1..4 |-> read[i]]
      BY <1>14, <3>0
    <3>2. sent.items[m + 1] = [i \in 1..4 |-> sent.items[m + 1][i]]
      BY <1>7 DEF ItemType
    <3>3. \A i \in 1..4 : read[i] = sent.items[m + 1][i]
      BY <1>10, <2>1
    <3> QED
      BY <1>7, <3>1, <3>2, <3>3
  <2> DEFINE t == Append(object.items, read)
  <2>3. /\ t \in Seq(ItemType) /\ Len(t) = m + 1
        /\ \A j \in 1..(m + 1) : t[j] = IF j = m + 1 THEN read ELSE object.items[j]
    BY <1>3, <2>2 DEF m
  <2>4. object' = [object EXCEPT !.items = t]
    BY <1>1, <1>14
  <2> HIDE DEF t
  <2>5. /\ object'.fields = object.fields /\ object'.items = t
        /\ object' = [fields |-> object'.fields, items |-> object'.items]
    BY <2>4 DEF IInv, ShapeInv, ObjectOk
  <2>6. \A j \in 1..(m + 1) : t[j] = sent.items[j]
    <3> SUFFICES ASSUME NEW j \in 1..(m + 1) PROVE t[j] = sent.items[j]
      OBVIOUS
    <3>1. j = m + 1 \/ j \in 1..m
      BY <1>a
    <3>2. \A i \in 1..m : object.items[i] = sent.items[i]
      BY <1>2
    <3>3. t[j] = IF j = m + 1 THEN read ELSE object.items[j]
      BY <2>3
    <3> QED
      BY <2>2, <3>1, <3>2, <3>3
  <2>7. ObjectOk(object)'
    BY <1>1, <1>2, <2>3, <2>5 DEF ObjectOk, ReadFrame, Fields, HasItems, IInv, ShapeInv
  <2>8. ShapeInv'
    BY <1>1, <1>11, <1>12, <2>1, <2>7 DEF ShapeInv, ReadFrame, IInv
  <2>9. ItemsInv'
    <3>0. Len(object'.items) = m + 1
      BY <2>3, <2>5
    <3>1. at' = l + 2 + 4 * Len(object'.items) + Len(item')
      BY <1>a, <1>c, <2>0, <2>1, <3>0
    <3>2. Len(object'.items) <= count'
      BY <1>5, <1>c, <3>0
    <3>3. \A j \in 1..Len(object'.items) : object'.items[j] = sent.items[j]
      BY <2>3, <2>5, <2>6
    <3>4. /\ kind' = kind /\ sent' = sent /\ HasItems' /\ count' = Len(sent.items)
          /\ object'.fields = object.fields
      BY <1>1, <1>2, <2>5 DEF ReadFrame, HasItems
    <3>5. \A i \in 1..l : object.fields[Layout[kind][i]] = sent.fields[Layout[kind][i]]
      BY <1>2
    <3>6. ~(\E i \in Int : i \in 1..Len(item'))
      BY <2>1
    <3> QED
      BY <3>1, <3>2, <3>3, <3>4, <3>5, <3>6 DEF ItemsInv, l
  <2> QED
    BY <1>1, <1>13, <2>8, <2>9 DEF IInv, FieldsInv, ReadyInv, ReadsWhatWasWritten
<1>15. CASE Len(read) # 4
  <2>1. object' = object /\ item' = read /\ Len(item') = q + 1 /\ Len(item') < 4
    BY <1>1, <1>3, <1>9, <1>15
  <2>2. ObjectOk(object)'
    BY <1>1, <2>1 DEF ObjectOk, ReadFrame, Fields, HasItems, IInv, ShapeInv
  <2>3. ShapeInv'
    BY <1>1, <1>9, <1>11, <1>12, <2>1, <2>2 DEF ShapeInv, ReadFrame, IInv
  <2>4. ItemsInv'
    <3>0. Len(object'.items) = m
      BY <2>1 DEF m
    <3>1. at' = l + 2 + 4 * Len(object'.items) + Len(item')
      BY <1>a, <1>c, <2>1, <3>0
    <3>2. Len(object'.items) <= count'
      BY <1>5, <1>c, <3>0
    <3>3. \A i \in 1..Len(item') : item'[i] = sent.items[m + 1][i]
      BY <1>10, <2>1
    <3> QED
      BY <1>1, <1>2, <2>1, <3>1, <3>2, <3>3 DEF ItemsInv, ReadFrame, HasItems, l, m
  <2> QED
    BY <1>1, <1>13, <2>3, <2>4 DEF IInv, FieldsInv, ReadyInv, ReadsWhatWasWritten
<1> QED
  BY <1>14, <1>15
-----------------------------------------------------------------------------
(***************************************************************************)
(* Reading ends.                                                           *)
(***************************************************************************)
(* The invariant says of every moment what OldOrNew asks for.              *)
LEMMA HereOldOrNew == ASSUME IInv PROVE OldOrNew
<1> DEFINE l == Len(Layout[kind])
<1>1. /\ kind \in DOMAIN Layout /\ l \in Nat /\ DOMAIN Layout[kind] = 1..l
      /\ pc \in {"ready", "fields", "items"} /\ at \in Nat /\ at >= 1
  BY LayoutFacts DEF IInv, ShapeInv
<1>2. CASE pc = "ready"
  BY <1>2 DEF IInv, ReadyInv
<1>3. CASE pc = "fields"
  <2>1. PICK n \in 0..l : at = n + 1
    <3>1. at <= l + 1
      BY <1>3 DEF IInv, FieldsInv
    <3>2. at - 1 \in 0..l /\ at = (at - 1) + 1
      BY ONLY <1>1, <3>1
    <3> QED
      BY <3>2
  <2>2. ASSUME NEW i \in 1..l
        PROVE  \/ i <= n /\ object.fields[Layout[kind][i]] = sent.fields[Layout[kind][i]]
               \/ i > n /\ object.fields[Layout[kind][i]] = before.fields[Layout[kind][i]]
    <3>1. object.fields[Layout[kind][i]] = IF i < at THEN sent.fields[Layout[kind][i]]
                                           ELSE before.fields[Layout[kind][i]]
      BY <1>3 DEF IInv, FieldsInv
    <3>2. (i < at /\ i <= n) \/ (~(i < at) /\ i > n)
      BY ONLY <1>1, <2>1, i \in 1..l, n \in 0..l
    <3> QED
      BY <3>1, <3>2
  <2>3. object.items = before.items
    BY <1>3 DEF IInv, FieldsInv
  <2> QED
    BY <1>1, <2>2, <2>3 DEF OldOrNew
<1>4. CASE pc = "items"
  <2>1. /\ \A i \in 1..l : object.fields[Layout[kind][i]] = sent.fields[Layout[kind][i]]
        /\ Len(object.items) <= Len(sent.items)
        /\ \A j \in 1..Len(object.items) : object.items[j] = sent.items[j]
    BY <1>4 DEF IInv, ItemsInv
  <2>2. object.items \in Seq(ItemType) /\ sent.items \in Seq(ItemType)
    BY SentPoints DEF IInv, ShapeInv, ObjectOk
  <2>3. IsPrefix(object.items, sent.items)
    BY <2>1, <2>2, PrefixPoints
  <2>4. l \in 0..l /\ \A i \in 1..l : i <= l
    BY <1>1
  <2> QED
    BY <1>1, <2>1, <2>3, <2>4 DEF OldOrNew
<1> QED
  BY <1>1, <1>2, <1>3, <1>4

(* An object is the one that was written when all its parts are.           *)
LEMMA SamePartsSame ==
  ASSUME IInv, object.items = sent.items,
         \A i \in 1..Len(Layout[kind]) :
            object.fields[Layout[kind][i]] = sent.fields[Layout[kind][i]]
  PROVE  object = sent
<1>1. /\ object = [fields |-> object.fields, items |-> object.items]
      /\ object.fields = [f \in Fields |-> object.fields[f]]
  BY DEF IInv, ShapeInv, ObjectOk
<1>2. /\ sent = [fields |-> sent.fields, items |-> sent.items]
      /\ sent.fields = [f \in Fields |-> sent.fields[f]]
  BY SentPoints DEF IInv
<1>3. \A f \in Fields : object.fields[f] = sent.fields[f]
  BY LayoutFacts DEF Fields, IInv, ShapeInv
<1>4. object.fields = sent.fields
  BY <1>1, <1>2, <1>3
<1> QED
  BY <1>1, <1>2, <1>4

(* deserialize() returns and the object is as it was.                      *)
LEMMA EndStep ==
  ASSUME IInv, pc' = "ready", ObjectOk(object)', OldOrNew',
         kind' = kind, archive' = archive, at' = at, item' = item, stamp' = stamp,
         sent' = sent, answer' \in {"none", "true", "false"},
         answer' = "true" => object' = sent'
  PROVE  IInv'
<1>1. \E s \in 0..MaxStamp, n \in Nat : SentIs(s, n)'
  BY DEF IInv, ShapeInv, SentIs, HasItems
<1>2. ShapeInv'
  BY <1>1 DEF IInv, ShapeInv
<1> QED
  BY <1>2 DEF IInv, ArchiveInv, FieldsInv, ItemsInv, ReadyInv, ReadsWhatWasWritten

LEMMA ReturnStep == ASSUME IInv, Return PROVE IInv'
<1> DEFINE l == Len(Layout[kind])
<1>1. /\ pc' = "ready" /\ answer' = "true" /\ object' = object
      /\ kind' = kind /\ archive' = archive /\ at' = at /\ item' = item /\ stamp' = stamp
      /\ sent' = sent /\ before' = before
  BY DEF Return
<1>2. /\ kind \in DOMAIN Layout /\ l \in Nat /\ at \in Nat
      /\ object.items \in Seq(ItemType) /\ sent.items \in Seq(ItemType)
  <2>1. kind \in DOMAIN Layout /\ at \in Nat /\ object.items \in Seq(ItemType)
    BY DEF IInv, ShapeInv, ObjectOk
  <2>2. sent.items \in Seq(ItemType)
    BY SentPoints DEF IInv
  <2>3. l \in Nat
    BY <2>1, LayoutFacts
  <2> QED
    BY <2>1, <2>2, <2>3
<1>3. object = sent
  <2>1. CASE ~HasItems /\ pc = "fields" /\ at > l
    <3>1. \A i \in 1..l : i < at
      BY ONLY <1>2, <2>1
    <3>2. \A i \in 1..l : object.fields[Layout[kind][i]] = sent.fields[Layout[kind][i]]
      BY <2>1, <3>1 DEF IInv, FieldsInv
    <3>3. PICK n \in Nat : Len(sent.items) = n /\ (HasItems \/ n = 0)
      BY SentPoints DEF IInv, SentIs
    <3>4. sent.items = << >>
      BY <1>2, <2>1, <3>3
    <3>5. object.items = << >>
      BY <2>1 DEF IInv, ShapeInv, ObjectOk
    <3> QED
      BY <3>2, <3>4, <3>5, SamePartsSame
  <2>2. CASE pc = "items" /\ Len(object.items) = count
    <3>1. /\ \A i \in 1..l : object.fields[Layout[kind][i]] = sent.fields[Layout[kind][i]]
          /\ count = Len(sent.items)
          /\ \A j \in 1..Len(object.items) : object.items[j] = sent.items[j]
      BY <2>2 DEF IInv, ItemsInv
    <3>2. Len(object.items) = Len(sent.items) /\ Len(object.items) <= Len(sent.items)
      BY <1>2, <2>2, <3>1
    <3>3. object.items = sent.items
      BY <1>2, <3>1, <3>2, PrefixPoints
    <3> QED
      BY <3>1, <3>3, SamePartsSame
  <2> QED
    BY <2>1, <2>2 DEF Return
<1>4. OldOrNew'
  BY <1>1, HereOldOrNew DEF OldOrNew
<1>5. ObjectOk(object)'
  BY <1>1 DEF IInv, ShapeInv, ObjectOk, Fields, HasItems
<1> QED
  BY <1>1, <1>3, <1>4, <1>5, EndStep

(* Reading fails, and the object stays as it is.                           *)
LEMMA ThrowStep == ASSUME IInv, Throw(object) PROVE IInv'
<1>1. /\ pc' = "ready" /\ answer' = "false" /\ object' = object
      /\ kind' = kind /\ archive' = archive /\ at' = at /\ item' = item /\ stamp' = stamp
      /\ sent' = sent /\ before' = before
  BY DEF Throw
<1>2. OldOrNew'
  BY <1>1, HereOldOrNew DEF OldOrNew
<1>3. ObjectOk(object)'
  BY <1>1 DEF IInv, ShapeInv, ObjectOk, Fields, HasItems
<1> QED
  BY <1>1, <1>2, <1>3, EndStep

(* Reading fails within a field.                                           *)
LEMMA TornStep ==
  ASSUME IInv, AtField, Throw([object EXCEPT !.fields[Field] = Torn]) PROVE IInv'
<1> DEFINE l == Len(Layout[kind])
<1>1. /\ pc' = "ready" /\ answer' = "false"
      /\ object' = [object EXCEPT !.fields[Layout[kind][at]] = Torn]
      /\ kind' = kind /\ archive' = archive /\ at' = at /\ item' = item /\ stamp' = stamp
      /\ sent' = sent /\ before' = before
  BY DEF Throw, Field
<1>2. kind \in DOMAIN Layout /\ ObjectOk(object) /\ at \in Nat /\ at >= 1 /\ l \in Nat
  BY LayoutFacts DEF IInv, ShapeInv
<1>3. pc = "fields" /\ at <= l
  BY DEF AtField
<1>4. PICK k \in 1..l : k = at
  BY ONLY <1>2, <1>3
<1>5. /\ Torn \in ((0..MaxStamp) \X {Layout[kind][k]}) \cup {Torn}
      /\ object' = [object EXCEPT !.fields[Layout[kind][k]] = Torn]
  BY <1>1, <1>4
<1>6. /\ ObjectOk(object)' /\ object'.items = object.items
      /\ \A i \in 1..l : object'.fields[Layout[kind][i]] =
            IF i = k THEN Torn ELSE object.fields[Layout[kind][i]]
  BY ONLY <1>1, <1>2, <1>5, k \in 1..l, SetField
<1>7. PICK n \in 0..l : k = n + 1
  <2>1. k - 1 \in 0..l /\ k = (k - 1) + 1
    BY ONLY <1>2, k \in 1..l
  <2> QED
    BY <2>1
<1>8. ASSUME NEW i \in 1..l
      PROVE  \/ i <= n /\ object'.fields[Layout[kind][i]] = sent.fields[Layout[kind][i]]
             \/ i > n /\ object'.fields[Layout[kind][i]] = before.fields[Layout[kind][i]]
             \/ i = n + 1 /\ object'.fields[Layout[kind][i]] = Torn
  <2>1. object.fields[Layout[kind][i]] = IF i < at THEN sent.fields[Layout[kind][i]]
                                         ELSE before.fields[Layout[kind][i]]
    BY <1>3 DEF IInv, FieldsInv
  <2>2. \/ i = k /\ i = n + 1
        \/ i # k /\ i < at /\ i <= n
        \/ i # k /\ ~(i < at) /\ i > n
    BY ONLY <1>2, <1>4, <1>7, i \in 1..l, n \in 0..l
  <2> QED
    BY <1>6, <2>1, <2>2
<1>9. object'.items = before.items
  BY <1>3, <1>6 DEF IInv, FieldsInv
<1>10. OldOrNew'
  BY <1>1, <1>2, <1>8, <1>9, OldOrNewFrom
<1> QED
  BY <1>1, <1>6, <1>10, EndStep

LEMMA TruncatedStep == ASSUME IInv, Truncated PROVE IInv'
  BY ThrowStep, TornStep DEF Truncated

(* Reading fails after a field that is refused.                            *)
LEMMA RefusedStep == ASSUME IInv, Refused PROVE IInv'
<1>1. AtField
  BY DEF Refused
<1>2. \/ Throw([object EXCEPT !.fields[Field] = Torn])
      \/ Throw([object EXCEPT !.fields[Field] = object.fields[Field]])
  BY DEF Refused
<1>3. [object EXCEPT !.fields[Field] = object.fields[Field]] = object
  <2> DEFINE f == Field
             g == object.fields
  <2>1. object = [fields |-> g, items |-> object.items] /\ g = [x \in Fields |-> g[x]]
    BY DEF IInv, ShapeInv, ObjectOk
  <2> HIDE DEF f, g
  <2>2. [g EXCEPT ![f] = g[f]] = g
    BY <2>1
  <2>3. [object EXCEPT !.fields[f] = g[f]] = [fields |-> [g EXCEPT ![f] = g[f]],
                                              items |-> object.items]
    BY <2>1
  <2> QED
    BY <2>1, <2>2, <2>3 DEF f, g
<1> QED
  BY <1>1, <1>2, <1>3, ThrowStep, TornStep

-----------------------------------------------------------------------------
(***************************************************************************)
(* The theorems.                                                           *)
(***************************************************************************)
LEMMA Initially == AInit => IInv
<1> SUFFICES ASSUME AInit PROVE IInv
  OBVIOUS
<1>1. /\ kind \in DOMAIN Layout /\ object = Written(kind, 0, 0)
      /\ sent = object /\ before = object
      /\ archive = << >> /\ at = 1 /\ item = << >>
      /\ pc = "ready" /\ answer = "none" /\ stamp = 0
  BY DEF AInit, Default
<1>2. 0 \in 0..MaxStamp
  BY BoundsAssumption
<1>3. ObjectOk(object)
  <2>1. /\ object = [fields |-> object.fields, items |-> object.items]
        /\ \A f \in Range(Layout[kind]) : object.fields[f] = Value(0, f)
        /\ object.items \in Seq(ItemType) /\ Len(object.items) = 0
    BY <1>1, WrittenIs
  <2>2. object.fields = [f \in Range(Layout[kind]) |-> object.fields[f]]
    BY <1>1 DEF Written
  <2>3. \A f \in Range(Layout[kind]) :
           object.fields[f] \in ((0..MaxStamp) \X {f}) \cup {Torn}
    <3>1. \A f \in Range(Layout[kind]) : object.fields[f] = <<0, f>>
      BY <2>1 DEF Value
    <3> QED
      BY <1>2, <3>1
  <2>4. object.items = << >>
    BY <2>1
  <2> QED
    BY <2>1, <2>2, <2>3, <2>4 DEF ObjectOk, Fields
<1>4. SentIs(0, 0)
  BY <1>1 DEF SentIs
<1>5. ShapeInv
  BY <1>1, <1>2, <1>3, <1>4 DEF ShapeInv
<1>6. OldOrNew
  <2>1. /\ Len(Layout[kind]) \in Nat /\ DOMAIN Layout[kind] = 1..Len(Layout[kind])
        /\ \A i \in 1..Len(Layout[kind]) : i > 0
    BY <1>1, LayoutFacts
  <2>2. 0 \in 0..Len(Layout[kind])
    BY <2>1
  <2> QED
    BY <1>1, <2>1, <2>2 DEF OldOrNew
<1> QED
  BY <1>1, <1>5, <1>6 DEF IInv, ArchiveInv, FieldsInv, ItemsInv, ReadyInv,
                          ReadsWhatWasWritten

LEMMA NextKeepsIInv == IInv /\ [ANext]_vars => IInv'
<1> SUFFICES ASSUME IInv, [ANext]_vars PROVE IInv'
  OBVIOUS
<1>1. CASE UNCHANGED vars
  <2>1. /\ kind' = kind /\ object' = object /\ archive' = archive /\ at' = at
        /\ count' = count /\ item' = item /\ pc' = pc /\ answer' = answer
        /\ stamp' = stamp /\ sent' = sent /\ before' = before
    BY <1>1 DEF vars
  <2> QED
    <3>1. ShapeInv'
      BY <2>1 DEF IInv, ShapeInv, ObjectOk, SentIs, Fields, HasItems
    <3>2. ArchiveInv'
      <4>1. serialize(sent)' = serialize(sent)
        BY <2>1, SerializeFrame
      <4> QED
        BY <2>1, <4>1 DEF IInv, ArchiveInv
    <3>3. FieldsInv' /\ ItemsInv'
      BY <2>1 DEF IInv, FieldsInv, ItemsInv, HasItems
    <3>4. ReadyInv' /\ ReadsWhatWasWritten'
      BY <2>1 DEF IInv, ReadyInv, OldOrNew, ReadsWhatWasWritten
    <3> QED
      BY <3>1, <3>2, <3>3, <3>4 DEF IInv
<1>2. CASE ANext
  BY <1>2, CreateStep, AssignStep, BeginStep, ReadFieldStep, ReadCountStep, ReadItemStep,
     ReturnStep, TruncatedStep, RefusedStep DEF ANext, deserialize
<1> QED
  BY <1>1, <1>2

(* The invariant holds in every state.                                     *)
THEOREM ArtifactInvariant == ASpec => []IInv
  BY Initially, NextKeepsIInv, PTL DEF ASpec

LEMMA InvariantTyped == IInv => ATypeOK
<1> SUFFICES ASSUME IInv PROVE ATypeOK
  OBVIOUS
<1>1. DOMAIN object.fields = Fields
  BY DEF IInv, ShapeInv, ObjectOk
<1>2. ASSUME NEW j \in DOMAIN object.items
      PROVE  DOMAIN object.items[j] = DOMAIN ChallengeItem
  <2>1. object.items[j] \in ItemType
    BY DEF IInv, ShapeInv, ObjectOk
  <2> QED
    BY <2>1, ItemFacts DEF ItemType
<1>3. Len(item) < Len(ChallengeItem)
  BY ItemFacts DEF IInv, ShapeInv
<1> QED
  BY <1>1, <1>2, <1>3 DEF ATypeOK, IInv, ShapeInv, ObjectOk

(* Artifacts keep their type: the fields of their class and no others, and *)
(* items that have all four values, also after do_deserialize() threw.     *)
THEOREM ArtifactsTyped == ASpec => []ATypeOK
  BY ArtifactInvariant, InvariantTyped, PTL

(* A do_deserialize() that returns true has read exactly the object that   *)
(* was written, whatever the artifact held before: the number of fields,   *)
(* their order and the number of items fit, and the old items are gone.    *)
THEOREM ReadsAreExact == ASpec => []ReadsWhatWasWritten
<1>1. IInv => ReadsWhatWasWritten
  BY DEF IInv
<1> QED
  BY <1>1, ArtifactInvariant, PTL

(* Wherever the archive ends, new fields, at most one torn field and old   *)
(* fields follow one another, and items are the old ones or, once all      *)
(* fields are new, the first of the new ones.                              *)
THEOREM OldOrNewAlways == ASpec => []OldOrNew
  BY ArtifactInvariant, HereOldOrNew, PTL

=============================================================================
