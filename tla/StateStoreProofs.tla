-------------------------- MODULE StateStoreProofs --------------------------
(***************************************************************************)
(* Proofs about StateStore, for every set of files, collections and        *)
(* objects and every width of size_t: types, sharing of objects, growth of *)
(* versions and isolation of files; that every file is an AtomicFile; and  *)
(* that the store, called as its 1-based interface means it, keeps the     *)
(* blocks of every file densely numbered and implements BlockList.         *)
(***************************************************************************)
EXTENDS StateStore, ListLemmas, FiniteSetTheorems

-----------------------------------------------------------------------------
(***************************************************************************)
(* Lemmas about the helpers.                                               *)
(***************************************************************************)
(* blockIndex - 1 in size_t is an index, whatever the argument.            *)
LEMMA CollIdxType == \A b \in Index : CollIdx(b) \in Index
  BY SizeAssumption DEF CollIdx, Index

(* The rebuilt collections of insertBlock and deleteBlock are collections. *)
LEMMA InsertType ==
  ASSUME NEW c \in [Index -> Obj \cup {Null}], NEW i \in Index, NEW o \in Obj
  PROVE  InsertEntry(c, i, o) \in [Index -> Obj \cup {Null}]
  BY SizeAssumption DEF InsertEntry, Index

LEMMA DeleteType ==
  ASSUME NEW c \in [Index -> Obj \cup {Null}], NEW i \in Index
  PROVE  DeleteEntry(c, i) \in [Index -> Obj \cup {Null}]
  BY SizeAssumption DEF DeleteEntry, Index

(* A version that is not at the bound stays in range when it is bumped.    *)
LEMMA MetaType ==
  /\ FreshMeta \subseteq Meta
  /\ \A m \in Meta, now \in Time : m.version < MaxVersion =>
        [version |-> m.version + 1, timestamp |-> now] \in Meta
  BY SizeAssumption DEF FreshMeta, Meta

(* A new collection with new entries keeps the store well typed.           *)
LEMMA AttachType ==
  ASSUME TypeOK, NEW f \in File, NEW S \in SUBSET Index,
         NEW M \in SUBSET Meta, AttachNew(f, S, M)
  PROVE  TypeOK'
<1>1. PICK c \in FreshColl, os \in Injection(S, FreshObj) :
             \E ms \in [Range(os) -> M] : Attach(f, c, os, ms)
  BY DEF AttachNew
<1>2. PICK ms \in [Range(os) -> M] : Attach(f, c, os, ms)
  BY <1>1
<1>3. c \in Coll /\ os \in [S -> Obj]
  BY DEF FreshColl, FreshObj, Injection
<1>4. files' \in [File -> Coll \cup {Null}]
  BY <1>2, <1>3 DEF Attach, TypeOK
<1>5. colls' \in [Coll -> [Index -> Obj \cup {Null}]]
  <2>1. [i \in Index |-> IF i \in DOMAIN os THEN os[i] ELSE Null]
          \in [Index -> Obj \cup {Null}]
    BY <1>3
  <2>2. Empty \in [Index -> Obj \cup {Null}]
    BY DEF Empty
  <2> QED
    BY <1>2, <2>1, <2>2 DEF Attach, TypeOK
<1>6. metas' \in [Obj -> Meta]
  BY <1>2 DEF Attach, TypeOK
<1> QED
  BY <1>4, <1>5, <1>6 DEF TypeOK

(* A new object set into a collection keeps the store well typed.          *)
LEMMA SetNewType ==
  ASSUME TypeOK, NEW f \in File, hasFile(f), NEW o \in Obj,
         NEW c \in [Index -> Obj \cup {Null}], SetNew(f, o, c)
  PROVE  TypeOK'
  BY MetaType DEF TypeOK, SetNew, hasFile

(* The type invariant is kept by every step.                               *)
LEMMA TypeStep == TypeOK /\ [Next]_vars => TypeOK'
<1> SUFFICES ASSUME TypeOK, [Next]_vars PROVE TypeOK'
  OBVIOUS
<1>1. CASE UNCHANGED vars
  BY <1>1 DEF vars, TypeOK
<1>2. ASSUME NEW f \in File, AddEmptyFile(f) PROVE TypeOK'
  BY <1>2, AttachType, MetaType DEF AddEmptyFile
<1>3. ASSUME NEW f \in File, NEW n \in 1..MaxBlocks, AddFile(f, n) PROVE TypeOK'
  <2>1. 0..(n - 1) \in SUBSET Index
    BY SizeAssumption DEF Index
  <2> QED
    BY <1>3, <2>1, AttachType, MetaType DEF AddFile
<1>4. ASSUME NEW f \in File, RemoveFile(f) PROVE TypeOK'
  BY <1>4 DEF RemoveFile, TypeOK, Empty
<1>5. ASSUME NEW f \in File, NEW S \in SUBSET Index, SetBlockMetadataCollection(f, S)
      PROVE  TypeOK'
  BY <1>5, AttachType DEF SetBlockMetadataCollection
<1>6. ASSUME NEW f \in File, NEW b \in Index, ModifyBlock(f, b) PROVE TypeOK'
  <2>1. Entry(f, b) \in Obj
    BY <1>6, CollIdxType DEF ModifyBlock, Entry, hasFile, TypeOK
  <2>2. metas[Entry(f, b)] \in Meta
    BY <2>1 DEF TypeOK
  <2>3. metas' \in [Obj -> Meta]
    BY <1>6, <2>1, <2>2, MetaType DEF ModifyBlock, TypeOK
  <2> QED
    BY <1>6, <2>3 DEF ModifyBlock, TypeOK
<1>7. ASSUME NEW f \in File, NEW b \in Index, InsertBlock(f, b) PROVE TypeOK'
  <2>1. PICK o \in FreshObj :
               SetNew(f, o, InsertEntry(colls[files[f]], CollIdx(b), o))
    BY <1>7 DEF InsertBlock
  <2>2. InsertEntry(colls[files[f]], CollIdx(b), o) \in [Index -> Obj \cup {Null}]
    BY <1>7, CollIdxType, InsertType DEF InsertBlock, hasFile, TypeOK, FreshObj
  <2> QED
    BY <1>7, <2>1, <2>2, SetNewType DEF InsertBlock, FreshObj
<1>8. ASSUME NEW f \in File, NEW b \in Index, DeleteBlock(f, b) PROVE TypeOK'
  <2>1. DeleteEntry(colls[files[f]], CollIdx(b)) \in [Index -> Obj \cup {Null}]
    BY <1>8, CollIdxType, DeleteType DEF DeleteBlock, hasFile, TypeOK
  <2> QED
    BY <1>8, <2>1 DEF DeleteBlock, hasFile, TypeOK
<1>9. ASSUME NEW f \in File, NEW b \in Index \ {0}, RegisterBlock(f, b) PROVE TypeOK'
  <2>1. PICK o \in FreshObj :
               SetNew(f, o, [colls[files[f]] EXCEPT ![CollIdx(b)] = o])
    BY <1>9 DEF RegisterBlock
  <2>2. [colls[files[f]] EXCEPT ![CollIdx(b)] = o] \in [Index -> Obj \cup {Null}]
    BY <1>9 DEF RegisterBlock, hasFile, TypeOK, FreshObj
  <2> QED
    BY <1>9, <2>1, <2>2, SetNewType DEF RegisterBlock, FreshObj
<1> QED
  BY <1>1, <1>2, <1>3, <1>4, <1>5, <1>6, <1>7, <1>8, <1>9 DEF Next, FileNext

(***************************************************************************)
(* Whatever calls are made with whatever size_t arguments, the file map,   *)
(* the collections and the metadata objects hold values of their types; in *)
(* particular no index computed by the rebuilds leaves the size_t range.   *)
(***************************************************************************)
THEOREM TypeCorrect == Spec => []TypeOK
<1>1. Init => TypeOK
  BY MetaType DEF Init, TypeOK, Empty
<1> QED
  BY <1>1, TypeStep, PTL DEF Spec

-----------------------------------------------------------------------------
(***************************************************************************)
(* No sharing.                                                             *)
(***************************************************************************)
(* The entries of a collection are in one slot each.                       *)
Distinct(c) == \A i, j \in Index : c[i] # Null /\ c[i] = c[j] => i = j

(* Shifting up re-sets every entry once, and the new object is not one of  *)
(* them.                                                                   *)
LEMMA InsertDistinct ==
  ASSUME NEW c \in [Index -> Obj \cup {Null}], NEW i \in Index, NEW o \in Obj,
         Distinct(c), \A j \in Index : c[j] # o
  PROVE  /\ Distinct(InsertEntry(c, i, o))
         /\ \A j \in Index : LET e == InsertEntry(c, i, o)[j] IN
               e # Null => e = o \/ \E k \in Index : c[k] = e
<1> DEFINE d == InsertEntry(c, i, o)
<1>1. \A j \in Index : d[j] = IF j = i THEN o
                              ELSE IF j > i THEN c[j - 1]
                              ELSE IF j = 0 /\ c[SizeMax] # Null THEN c[SizeMax]
                              ELSE c[j]
  BY DEF InsertEntry
<1>2. Distinct(d)
  BY <1>1, SizeAssumption DEF Distinct, Index
<1>3. \A j \in Index : d[j] # Null => d[j] = o \/ \E k \in Index : c[k] = d[j]
  BY <1>1, SizeAssumption DEF Index
<1> QED
  BY <1>2, <1>3

(* Shifting down re-sets every remaining entry once.                       *)
LEMMA DeleteDistinct ==
  ASSUME NEW c \in [Index -> Obj \cup {Null}], NEW i \in Index, Distinct(c)
  PROVE  /\ Distinct(DeleteEntry(c, i))
         /\ \A j \in Index : LET e == DeleteEntry(c, i)[j] IN
               e # Null => \E k \in Index : c[k] = e
<1> DEFINE d == DeleteEntry(c, i)
<1>1. \A j \in Index : d[j] = IF j < i THEN c[j]
                              ELSE IF j < SizeMax THEN c[j + 1] ELSE Null
  BY DEF DeleteEntry
<1>2. Distinct(d)
  BY <1>1, SizeAssumption DEF Distinct, Index
<1>3. \A j \in Index : d[j] # Null => \E k \in Index : c[k] = d[j]
  BY <1>1, SizeAssumption DEF Index
<1> QED
  BY <1>2, <1>3

(* Rebuilding the collection of one file from its own entries and fresh    *)
(* objects introduces no sharing.                                          *)
LEMMA RebuildSharing ==
  ASSUME TypeOK, NoSharing, NEW f \in File, hasFile(f),
         NEW d \in [Index -> Obj \cup {Null}], Distinct(d),
         \A j \in Index : d[j] # Null =>
            d[j] \in FreshObj \/ \E k \in Index : colls[files[f]][k] = d[j],
         files' = files,
         colls' = [colls EXCEPT ![files[f]] = d]
  PROVE  NoSharing'
<1> DEFINE c0 == files[f]
<1>1. c0 \in Coll /\ c0 \in Attached
  BY DEF hasFile, TypeOK, Attached
<1>2. Attached' = Attached
  BY DEF Attached
<1>3. \A e \in Attached : colls'[e] = IF e = c0 THEN d ELSE colls[e]
  BY <1>1 DEF TypeOK, Attached
<1>4. ASSUME NEW c \in Attached, NEW i \in Index, NEW j \in Index,
             c # c0, d[j] # Null
      PROVE  colls[c][i] # d[j]
  <2>1. CASE d[j] \in FreshObj
    BY <1>4, <2>1 DEF FreshObj, Reachable
  <2>2. CASE \E k \in Index : colls[c0][k] = d[j]
    BY <1>1, <1>4, <2>2 DEF NoSharing
  <2> QED
    BY <1>4, <2>1, <2>2
<1>5. ASSUME NEW c \in Attached, NEW e \in Attached, NEW i \in Index, NEW j \in Index,
             colls'[c][i] # Null, colls'[c][i] = colls'[e][j]
      PROVE  c = e /\ i = j
  <2>1. CASE c = c0 /\ e = c0
    BY <1>3, <1>5, <2>1 DEF Distinct
  <2>2. CASE c # c0 /\ e = c0
    BY <1>3, <1>4, <1>5, <2>2
  <2>3. CASE c = c0 /\ e # c0
    BY <1>3, <1>4, <1>5, <2>3
  <2>4. CASE c # c0 /\ e # c0
    BY <1>3, <1>5, <2>4 DEF NoSharing
  <2> QED
    BY <2>1, <2>2, <2>3, <2>4
<1> QED
  BY <1>2, <1>5 DEF NoSharing

(* A newly attached collection shares nothing with the others.             *)
LEMMA AttachSharing ==
  ASSUME TypeOK, NoSharing, NEW f \in File, NEW S \in SUBSET Index,
         NEW M, AttachNew(f, S, M)
  PROVE  NoSharing'
<1>1. PICK c \in FreshColl, os \in Injection(S, FreshObj) :
             \E ms \in [Range(os) -> M] : Attach(f, c, os, ms)
  BY DEF AttachNew
<1>2. files' = [files EXCEPT ![f] = c]
  BY <1>1 DEF Attach
<1>3. c \in Coll /\ c \notin Attached /\ os \in [S -> FreshObj] /\ IsInjective(os)
  BY DEF FreshColl, Injection
<1>4. \A g \in File : g # f => files'[g] = files[g] /\ files'[g] # c
  BY <1>2, <1>3 DEF TypeOK, Attached
<1>5. files'[f] = c
  BY <1>2 DEF TypeOK
<1>6. ASSUME NEW d \in Attached', d # c
      PROVE  d \in Attached /\ colls'[d] = colls[d]
  <2>1. PICK g \in File : files'[g] = d
    BY <1>6 DEF Attached
  <2>2. g # f /\ files[g] = d
    BY <1>4, <1>5, <1>6, <2>1
  <2>3. d # files[f]
    BY <1>6, <2>2, NullAssumption DEF NoSharing, Attached
  <2>4. d \in Coll
    BY DEF Attached
  <2> QED
    BY <1>1, <1>6, <2>2, <2>3, <2>4 DEF Attach, Attached
<1>7. \A i \in Index : colls'[c][i] = IF i \in S THEN os[i] ELSE Null
  BY <1>1, <1>3 DEF Attach
<1>8. \A i \in Index : colls'[c][i] # Null => colls'[c][i] \in FreshObj
  BY <1>3, <1>7
<1>9. ASSUME NEW d \in Attached', NEW e \in Attached', NEW i \in Index, NEW j \in Index,
             colls'[d][i] # Null, colls'[d][i] = colls'[e][j]
      PROVE  d = e /\ i = j
  <2>1. CASE d = c /\ e = c
    <3>1. i \in S /\ j \in S /\ os[i] = os[j]
      BY <1>7, <1>9, <2>1
    <3> QED
      BY <1>3, <2>1, <3>1 DEF IsInjective
  <2>2. CASE d # c /\ e = c
    BY <1>6, <1>8, <1>9, <2>2 DEF FreshObj, Reachable
  <2>3. CASE d = c /\ e # c
    BY <1>6, <1>8, <1>9, <2>3 DEF FreshObj, Reachable
  <2>4. CASE d # c /\ e # c
    BY <1>6, <1>9, <2>4 DEF NoSharing
  <2> QED
    BY <2>1, <2>2, <2>3, <2>4
<1>10. \A g, h \in File : files'[g] # Null /\ files'[g] = files'[h] => g = h
  BY <1>4, <1>5 DEF NoSharing
<1> QED
  BY <1>9, <1>10 DEF NoSharing

(* Every step keeps metadata objects and collections unshared.             *)
LEMMA SharingStep == TypeOK /\ NoSharing /\ [Next]_vars => NoSharing'
<1> SUFFICES ASSUME TypeOK, NoSharing, [Next]_vars PROVE NoSharing'
  OBVIOUS
<1>a. ASSUME NEW f \in File, hasFile(f)
      PROVE  /\ files[f] \in Attached
             /\ colls[files[f]] \in [Index -> Obj \cup {Null}]
             /\ Distinct(colls[files[f]])
  BY <1>a DEF hasFile, TypeOK, Attached, NoSharing, Distinct
<1>1. CASE UNCHANGED vars
  BY <1>1 DEF vars, NoSharing, Attached
<1>2. ASSUME NEW f \in File, AddEmptyFile(f) PROVE NoSharing'
  BY <1>2, AttachSharing DEF AddEmptyFile
<1>3. ASSUME NEW f \in File, NEW n \in 1..MaxBlocks, AddFile(f, n) PROVE NoSharing'
  <2>1. 0..(n - 1) \in SUBSET Index
    BY SizeAssumption DEF Index
  <2> QED
    BY <1>3, <2>1, AttachSharing DEF AddFile
<1>4. ASSUME NEW f \in File, RemoveFile(f) PROVE NoSharing'
  <2>1. \A g \in File : files'[g] = IF g = f THEN Null ELSE files[g]
    BY <1>4 DEF RemoveFile, TypeOK
  <2>2. \A d \in Attached' : d \in Attached /\ colls'[d] = colls[d]
    BY <1>4, <2>1, NullAssumption DEF RemoveFile, TypeOK, Attached, NoSharing, hasFile
  <2> QED
    BY <2>1, <2>2 DEF NoSharing
<1>5. ASSUME NEW f \in File, NEW S \in SUBSET Index, SetBlockMetadataCollection(f, S)
      PROVE  NoSharing'
  BY <1>5, AttachSharing DEF SetBlockMetadataCollection
<1>6. ASSUME NEW f \in File, NEW b \in Index, ModifyBlock(f, b) PROVE NoSharing'
  BY <1>6 DEF ModifyBlock, NoSharing, Attached
<1>7. ASSUME NEW f \in File, NEW b \in Index, InsertBlock(f, b) PROVE NoSharing'
  <2> DEFINE c == colls[files[f]]
  <2>1. hasFile(f)
    BY <1>7 DEF InsertBlock
  <2>2. PICK o \in FreshObj : SetNew(f, o, InsertEntry(c, CollIdx(b), o))
    BY <1>7 DEF InsertBlock
  <2>3. o \in Obj /\ \A j \in Index : c[j] # o
    BY <1>a, <2>1 DEF FreshObj, Reachable
  <2>4. CollIdx(b) \in Index
    BY CollIdxType
  <2> DEFINE d == InsertEntry(c, CollIdx(b), o)
  <2>5. d \in [Index -> Obj \cup {Null}] /\ Distinct(d)
    BY <1>a, <2>1, <2>3, <2>4, InsertType, InsertDistinct
  <2>6. \A j \in Index : d[j] # Null => d[j] \in FreshObj \/ \E k \in Index : c[k] = d[j]
    BY <1>a, <2>1, <2>3, <2>4, InsertDistinct
  <2>7. files' = files /\ colls' = [colls EXCEPT ![files[f]] = d]
    BY <2>2 DEF SetNew
  <2> QED
    BY <2>1, <2>5, <2>6, <2>7, RebuildSharing
<1>8. ASSUME NEW f \in File, NEW b \in Index, DeleteBlock(f, b) PROVE NoSharing'
  <2> DEFINE c == colls[files[f]]
             d == DeleteEntry(c, CollIdx(b))
  <2>1. hasFile(f)
    BY <1>8 DEF DeleteBlock
  <2>2. CollIdx(b) \in Index
    BY CollIdxType
  <2>3. /\ d \in [Index -> Obj \cup {Null}] /\ Distinct(d)
        /\ \A j \in Index : d[j] # Null => \E k \in Index : c[k] = d[j]
    BY <1>a, <2>1, <2>2, DeleteType, DeleteDistinct
  <2>4. files' = files /\ colls' = [colls EXCEPT ![files[f]] = d]
    BY <1>8 DEF DeleteBlock
  <2> QED
    BY <2>1, <2>3, <2>4, RebuildSharing
<1>9. ASSUME NEW f \in File, NEW b \in Index \ {0}, RegisterBlock(f, b) PROVE NoSharing'
  <2> DEFINE c == colls[files[f]]
  <2>1. hasFile(f)
    BY <1>9 DEF RegisterBlock
  <2>2. PICK o \in FreshObj : SetNew(f, o, [c EXCEPT ![CollIdx(b)] = o])
    BY <1>9 DEF RegisterBlock
  <2>3. o \in Obj /\ \A j \in Index : c[j] # o
    BY <1>a, <2>1 DEF FreshObj, Reachable
  <2> DEFINE d == [c EXCEPT ![CollIdx(b)] = o]
  <2>4. /\ d \in [Index -> Obj \cup {Null}] /\ Distinct(d)
        /\ \A j \in Index : d[j] # Null => d[j] \in FreshObj \/ \E k \in Index : c[k] = d[j]
    BY <1>a, <2>1, <2>3, CollIdxType DEF Distinct
  <2>5. files' = files /\ colls' = [colls EXCEPT ![files[f]] = d]
    BY <2>2 DEF SetNew
  <2> QED
    BY <2>1, <2>4, <2>5, RebuildSharing
<1> QED
  BY <1>1, <1>2, <1>3, <1>4, <1>5, <1>6, <1>7, <1>8, <1>9 DEF Next, FileNext

(***************************************************************************)
(* No sequence of calls, with any indices, makes two files share a         *)
(* collection or two slots share a metadata object, so the in-place bump() *)
(* of modifyBlock touches exactly the addressed block.                     *)
(***************************************************************************)
THEOREM NeverShared == Spec => []NoSharing
<1>1. Init => TypeOK /\ NoSharing
  BY MetaType DEF Init, TypeOK, Empty, NoSharing, Attached
<1> QED
  BY <1>1, TypeStep, SharingStep, PTL DEF Spec
-----------------------------------------------------------------------------
(***************************************************************************)
(* Frame conditions: what a call on f leaves alone.                        *)
(***************************************************************************)
(* The other files keep their collections, and these keep their entries.   *)
LEMMA CollFrame ==
  ASSUME TypeOK, NoSharing, NEW f \in File, FileNext(f),
         NEW g \in File, g # f
  PROVE  /\ files'[g] = files[g]
         /\ files[g] # Null => colls'[files[g]] = colls[files[g]]
<1>a. ASSUME NEW S, NEW M, AttachNew(f, S, M)
      PROVE  /\ files'[g] = files[g]
             /\ files[g] # Null => colls'[files[g]] = colls[files[g]]
  <2>1. PICK c \in FreshColl : \E os, ms : Attach(f, c, os, ms)
    BY <1>a DEF AttachNew
  <2>2. files[g] # Null => files[g] \in Coll /\ files[g] # c /\ files[g] # files[f]
    BY DEF TypeOK, NoSharing, FreshColl, Attached
  <2> QED
    BY <2>1, <2>2 DEF Attach, TypeOK
<1>b. files[g] # Null => files[g] \in Coll /\ files[g] # files[f]
  BY DEF TypeOK, NoSharing
<1>c. ASSUME NEW o, NEW c, SetNew(f, o, c)
      PROVE  /\ files'[g] = files[g]
             /\ files[g] # Null => colls'[files[g]] = colls[files[g]]
  BY <1>b, <1>c DEF SetNew, TypeOK
<1>1. CASE AddEmptyFile(f)
  BY <1>a, <1>1 DEF AddEmptyFile
<1>2. CASE \E n \in 1..MaxBlocks : AddFile(f, n)
  BY <1>a, <1>2 DEF AddFile
<1>3. CASE \E S \in SUBSET Index : SetBlockMetadataCollection(f, S)
  BY <1>a, <1>3 DEF SetBlockMetadataCollection
<1>4. CASE RemoveFile(f)
  BY <1>b, <1>4 DEF RemoveFile, TypeOK
<1>5. CASE \E b \in Index : ModifyBlock(f, b)
  BY <1>5 DEF ModifyBlock
<1>6. CASE \E b \in Index : InsertBlock(f, b)
  BY <1>c, <1>6 DEF InsertBlock
<1>7. CASE \E b \in Index : DeleteBlock(f, b)
  BY <1>b, <1>7 DEF DeleteBlock, TypeOK
<1>8. CASE \E b \in Index \ {0} : RegisterBlock(f, b)
  BY <1>c, <1>8 DEF RegisterBlock
<1> QED
  BY <1>1, <1>2, <1>3, <1>4, <1>5, <1>6, <1>7, <1>8 DEF FileNext

(* Metadata that is in the store is written by bump() only, and bump()     *)
(* writes an object of f.                                                  *)
LEMMA MetaFrame ==
  ASSUME TypeOK, NEW f \in File, FileNext(f), NEW o \in Reachable
  PROVE  \/ metas'[o] = metas[o]
         \/ /\ metas'[o].version = metas[o].version + 1
            /\ hasFile(f) /\ \E b \in Index : o = Entry(f, b)
<1>o. o \in Obj
  BY DEF Reachable
<1>a. ASSUME NEW S, NEW M, AttachNew(f, S, M)
      PROVE  metas'[o] = metas[o]
  <2>1. PICK c \in FreshColl, os \in Injection(S, FreshObj) :
               \E ms \in [Range(os) -> M] : Attach(f, c, os, ms)
    BY <1>a DEF AttachNew
  <2>2. o \notin Range(os)
    BY DEF Range, Injection, FreshObj
  <2> QED
    BY <1>o, <2>1, <2>2 DEF Attach
<1>b. ASSUME NEW p \in FreshObj, NEW c, SetNew(f, p, c)
      PROVE  metas'[o] = metas[o]
  BY <1>o, <1>b DEF SetNew, TypeOK, FreshObj
<1>1. CASE AddEmptyFile(f)
  BY <1>a, <1>1 DEF AddEmptyFile
<1>2. CASE \E n \in 1..MaxBlocks : AddFile(f, n)
  BY <1>a, <1>2 DEF AddFile
<1>3. CASE \E S \in SUBSET Index : SetBlockMetadataCollection(f, S)
  BY <1>a, <1>3 DEF SetBlockMetadataCollection
<1>4. CASE RemoveFile(f)
  BY <1>4 DEF RemoveFile
<1>5. CASE \E b \in Index : ModifyBlock(f, b)
  BY <1>o, <1>5 DEF ModifyBlock, TypeOK
<1>6. CASE \E b \in Index : InsertBlock(f, b)
  BY <1>b, <1>6 DEF InsertBlock
<1>7. CASE \E b \in Index : DeleteBlock(f, b)
  BY <1>7 DEF DeleteBlock
<1>8. CASE \E b \in Index \ {0} : RegisterBlock(f, b)
  BY <1>b, <1>8 DEF RegisterBlock
<1> QED
  BY <1>1, <1>2, <1>3, <1>4, <1>5, <1>6, <1>7, <1>8 DEF FileNext

(***************************************************************************)
(* The version of a block never goes back while the block is in the store, *)
(* however often it is shifted: a tag made for a later version is never    *)
(* matched again by an earlier one.                                        *)
(***************************************************************************)
THEOREM VersionsNeverDecrease == Spec => VersionsGrow
<1>1. ASSUME TypeOK, [Next]_vars
      PROVE  [\A o \in Reachable \cap Reachable' :
                 metas[o].version <= metas'[o].version]_vars
  <2>1. ASSUME Next, NEW o \in Reachable
        PROVE  metas[o].version <= metas'[o].version
    <3>1. PICK f \in File : FileNext(f)
      BY <2>1 DEF Next
    <3>2. metas[o].version \in Nat
      BY <1>1 DEF TypeOK, Meta, Reachable
    <3> QED
      BY <1>1, <3>1, <3>2, MetaFrame
  <2> QED
    BY <1>1, <2>1
<1> QED
  BY <1>1, TypeCorrect, PTL DEF Spec, VersionsGrow

(* No metadata of another file is written.                                 *)
LEMMA OthersMetas ==
  ASSUME TypeOK, NoSharing, NEW f \in File, FileNext(f),
         NEW g \in File, g # f, hasFile(g),
         NEW i \in Index, colls[files[g]][i] # Null
  PROVE  metas'[colls[files[g]][i]] = metas[colls[files[g]][i]]
<1> DEFINE c == colls[files[g]]
<1>1. files[g] \in Attached
  BY DEF TypeOK, Attached, hasFile
<1>2. c[i] \in Reachable
  BY <1>1 DEF TypeOK, Attached, Reachable
<1>3. ASSUME hasFile(f), NEW b \in Index PROVE c[i] # Entry(f, b)
  <2>1. files[f] \in Attached /\ files[f] # files[g]
    BY <1>3 DEF TypeOK, Attached, hasFile, NoSharing
  <2> QED
    BY <1>1, <2>1, CollIdxType DEF NoSharing, Entry
<1> QED
  BY <1>2, <1>3, MetaFrame

(***************************************************************************)
(* Maintaining one file is invisible in all others, although all of them   *)
(* keep their blocks behind shared pointers.                               *)
(***************************************************************************)
THEOREM FilesAreIsolated == Spec => Isolation
<1>1. ASSUME TypeOK, NoSharing, NEW f \in File, FileNext(f),
             NEW g \in File, g # f
      PROVE  View(g)' = View(g)
  <2>1. files'[g] = files[g] /\ (files[g] # Null => colls'[files[g]] = colls[files[g]])
    BY <1>1, CollFrame
  <2>2. CASE files[g] = Null
    BY <2>1, <2>2 DEF View
  <2>3. CASE files[g] # Null
    BY <1>1, <2>1, <2>3, OthersMetas DEF View, hasFile
  <2> QED
    BY <2>2, <2>3
<1>2. ASSUME TypeOK, NoSharing, [Next]_vars
      PROVE  [\A f, g \in File :
                 View(f)' # View(f) /\ View(g)' # View(g) => f = g]_vars
  BY <1>1, <1>2 DEF Next
<1> QED
  BY <1>2, TypeCorrect, NeverShared, PTL DEF Spec, Isolation

-----------------------------------------------------------------------------
(***************************************************************************)
(* Each file as its callers see it.                                        *)
(***************************************************************************)
(* Blocks, AtomicFile's constants and its rebuilds, written out.           *)
LEMMA BlocksAre ==
  ASSUME NEW f \in File
  PROVE  /\ Blocks(f) = [i \in Index |-> Blocks(f)[i]]
         /\ files[f] = Null => \A i \in Index : Blocks(f)[i] = Null
         /\ files[f] # Null => \A i \in Index :
              Blocks(f)[i] = IF colls[files[f]][i] = Null THEN Null ELSE metas[colls[files[f]][i]]
BY DEF Blocks, View, Empty

LEMMA BlocksNext ==
  ASSUME NEW f \in File
  PROVE  /\ Blocks(f)' = [i \in Index |-> Blocks(f)'[i]]
         /\ files'[f] = Null => \A i \in Index : Blocks(f)'[i] = Null
         /\ files'[f] # Null => \A i \in Index :
              Blocks(f)'[i] = IF colls'[files'[f]][i] = Null THEN Null
                              ELSE metas'[colls'[files'[f]][i]]
BY DEF Blocks, View, Empty

LEMMA AFIs ==
  ASSUME NEW f \in File
  PROVE  /\ AF(f)!Index = Index /\ AF(f)!Empty = Empty
         /\ AF(f)!Meta = [version : Nat, timestamp : Time]
         /\ AF(f)!Fresh = FreshMeta
         /\ \A M : AF(f)!Entries(M) = [Index -> M \cup {Null}]
         /\ \A c, i : AF(f)!DeleteEntry(c, i) = DeleteEntry(c, i)
         /\ \A c, i, o : AF(f)!InsertEntry(c, i, o) = InsertEntry(c, i, o)
BY DEF AF!Index, Index, AF!Empty, Empty, AF!Meta, AF!Fresh, FreshMeta, AF!Entries,
       AF!DeleteEntry, AF!InsertEntry, DeleteEntry, InsertEntry

(* A new collection is not the old one, and holds only the metadata it was *)
(* built with.                                                             *)
LEMMA AttachBlocks ==
  ASSUME TypeOK, NEW f \in File, NEW S \in SUBSET Index,
         NEW M, AttachNew(f, S, M)
  PROVE  /\ files'[f] \notin {files[f], Null}
         /\ Blocks(f)' \in [Index -> M \cup {Null}]
<1>1. PICK c \in FreshColl, os \in Injection(S, FreshObj) :
             \E ms \in [Range(os) -> M] : Attach(f, c, os, ms)
  BY DEF AttachNew
<1>2. PICK ms \in [Range(os) -> M] : Attach(f, c, os, ms)
  BY <1>1
<1>3. os \in [S -> Obj] /\ c \in Coll /\ c # files[f] /\ c # Null
  BY NullAssumption DEF Injection, FreshObj, FreshColl, Attached
<1>4. files'[f] = c
  BY <1>2 DEF Attach, TypeOK
<1>5. colls'[c] = [i \in Index |-> IF i \in S THEN os[i] ELSE Null]
  BY <1>2, <1>3 DEF Attach
<1>6. ASSUME NEW i \in Index PROVE Blocks(f)'[i] \in M \cup {Null}
  <2>1. CASE i \in S
    <3>1. os[i] \in Range(os) /\ os[i] \in Obj /\ os[i] # Null
      BY <1>3, <2>1, NullAssumption DEF Range
    <3>2. metas'[os[i]] = ms[os[i]] /\ ms[os[i]] \in M
      BY <1>2, <3>1 DEF Attach
    <3> QED
      BY <1>3, <1>4, <1>5, <2>1, <3>1, <3>2, BlocksNext
  <2>2. CASE i \notin S
    BY <1>3, <1>4, <1>5, <2>2, BlocksNext
  <2> QED
    BY <2>1, <2>2
<1> QED
  BY <1>3, <1>4, <1>6, BlocksNext

(* What a caller sees of a file whose collection was rebuilt: the rebuild  *)
(* of what was seen before.                                                *)
LEMMA SetNewBlocks ==
  ASSUME TypeOK, NEW f \in File, hasFile(f), NEW i \in Index,
         NEW o \in FreshObj,
         NEW c, c \in {InsertEntry(colls[files[f]], i, o),
                       [colls[files[f]] EXCEPT ![i] = o]},
         SetNew(f, o, c)
  PROVE  /\ files' = files
         /\ Blocks(f)'[i] \in FreshMeta
         /\ c = InsertEntry(colls[files[f]], i, o) =>
              Blocks(f)' = InsertEntry(Blocks(f), i, Blocks(f)'[i])
         /\ c = [colls[files[f]] EXCEPT ![i] = o] =>
              Blocks(f)' = [Blocks(f) EXCEPT ![i] = Blocks(f)'[i]]
<1> DEFINE d == colls[files[f]]
<1>1. /\ files' = files /\ files[f] \in Coll /\ files[f] # Null
      /\ files[f] \in Attached /\ d \in [Index -> Obj \cup {Null}]
  BY DEF SetNew, TypeOK, hasFile, Attached
<1>2. colls'[files[f]] = c
  BY <1>1 DEF SetNew, TypeOK
<1>3. PICK m \in FreshMeta : metas' = [metas EXCEPT ![o] = m]
  BY DEF SetNew
<1>4. o \in Obj /\ o # Null /\ metas'[o] = m
  BY <1>3, NullAssumption DEF FreshObj, TypeOK
<1>5. \A j \in Index : d[j] # Null => metas'[d[j]] = metas[d[j]]
  <2>1. \A j \in Index : d[j] # Null => d[j] \in Obj /\ d[j] # o
    BY <1>1 DEF FreshObj, Reachable
  <2> QED
    BY <1>3, <2>1 DEF TypeOK
<1>6. \A j \in Index : Blocks(f)[j] = IF d[j] = Null THEN Null ELSE metas'[d[j]]
  BY <1>1, <1>5, BlocksAre
<1>7. \A j \in Index : Blocks(f)'[j] = IF c[j] = Null THEN Null ELSE metas'[c[j]]
  BY <1>1, <1>2, BlocksNext
<1>8. c[i] = o
  BY <1>1 DEF InsertEntry
<1>9. Blocks(f)'[i] = m
  BY <1>4, <1>7, <1>8
<1>10. ASSUME c = InsertEntry(d, i, o)
       PROVE  Blocks(f)' = InsertEntry(Blocks(f), i, m)
  <2>1. \A j \in Index : Blocks(f)'[j] = InsertEntry(Blocks(f), i, m)[j]
    <3> TAKE j \in Index
    <3>1. CASE j = i
      BY <1>9, <3>1 DEF InsertEntry
    <3>2. CASE j > i
      <4>1. j - 1 \in Index /\ c[j] = d[j - 1]
        BY <1>10, <3>2, SizeAssumption DEF InsertEntry, Index
      <4>2. InsertEntry(Blocks(f), i, m)[j] = Blocks(f)[j - 1]
        BY <3>2, SizeAssumption DEF InsertEntry, Index
      <4>3. Blocks(f)[j - 1] = IF d[j - 1] = Null THEN Null ELSE metas'[d[j - 1]]
        BY <1>6, <4>1
      <4> QED
        BY <1>7, <4>1, <4>2, <4>3
    <3>3. CASE j < i
      <4>1. SizeMax \in Index
        BY SizeAssumption DEF Index
      <4>2. d[SizeMax] # Null <=> Blocks(f)[SizeMax] # Null
        <5>1. d[SizeMax] # Null => metas'[d[SizeMax]] # Null
          <6>1. ASSUME d[SizeMax] # Null PROVE metas[d[SizeMax]] # Null
            BY <1>1, <4>1, <6>1, NullNoMeta DEF TypeOK
          <6> QED
            BY <1>5, <4>1, <6>1
        <5> QED
          BY <1>6, <4>1, <5>1
      <4>3. PICK k \in Index : c[j] = d[k] /\ InsertEntry(Blocks(f), i, m)[j] = Blocks(f)[k]
        <5>1. CASE j = 0 /\ d[SizeMax] # Null
          <6>1. c[j] = d[SizeMax]
            BY <1>10, <3>3, <5>1, SizeAssumption DEF InsertEntry, Index
          <6>2. InsertEntry(Blocks(f), i, m)[j] = Blocks(f)[SizeMax]
            BY <4>2, <3>3, <5>1, SizeAssumption DEF InsertEntry, Index
          <6> QED
            BY <4>1, <6>1, <6>2
        <5>2. CASE ~(j = 0 /\ d[SizeMax] # Null)
          <6>1. c[j] = d[j]
            BY <1>10, <3>3, <5>2, SizeAssumption DEF InsertEntry, Index
          <6>2. InsertEntry(Blocks(f), i, m)[j] = Blocks(f)[j]
            BY <4>2, <3>3, <5>2, SizeAssumption DEF InsertEntry, Index
          <6> QED
            BY <6>1, <6>2
        <5> QED
          BY <5>1, <5>2
      <4> QED
        BY <1>6, <1>7, <4>3
    <3> QED
      BY <3>1, <3>2, <3>3, SizeAssumption DEF Index
  <2>2. Blocks(f)' = [j \in Index |-> Blocks(f)'[j]]
    BY BlocksNext
  <2>3. InsertEntry(Blocks(f), i, m) = [j \in Index |-> InsertEntry(Blocks(f), i, m)[j]]
    BY DEF InsertEntry
  <2> QED
    BY <2>1, <2>2, <2>3
<1>11. ASSUME c = [d EXCEPT ![i] = o]
       PROVE  Blocks(f)' = [Blocks(f) EXCEPT ![i] = m]
  <2>1. \A j \in Index : Blocks(f)'[j] = [Blocks(f) EXCEPT ![i] = m][j]
    BY <1>1, <1>6, <1>7, <1>9, <1>11, BlocksAre
  <2> QED
    BY <2>1, BlocksAre, BlocksNext
<1> QED
  BY <1>1, <1>9, <1>10, <1>11

(* bump() changes the metadata at one index of the file.                   *)
LEMMA ModifyBlocks ==
  ASSUME TypeOK, NoSharing, NEW f \in File, NEW b \in Index, ModifyBlock(f, b)
  PROVE  AF(f)!Modify(CollIdx(b))
<1> DEFINE d == colls[files[f]]
           i == CollIdx(b)
<1>1. /\ files' = files /\ colls' = colls /\ files[f] # Null /\ i \in Index
      /\ files[f] \in Attached /\ d \in [Index -> Obj \cup {Null}] /\ d[i] # Null
  BY CollIdxType DEF ModifyBlock, TypeOK, hasFile, Attached, Entry
<1>2. PICK now \in Time : metas' = [metas EXCEPT ![d[i]] =
                             [version |-> metas[d[i]].version + 1, timestamp |-> now]]
  BY DEF ModifyBlock, Entry
<1>3. d[i] \in Obj /\ metas[d[i]] # Null
  BY <1>1, NullNoMeta DEF TypeOK
<1>4. \A j \in Index : j # i /\ d[j] # Null => metas'[d[j]] = metas[d[j]]
  <2>1. \A j \in Index : j # i /\ d[j] # Null => d[j] # d[i] /\ d[j] \in Obj
    BY <1>1 DEF NoSharing
  <2> QED
    BY <1>2, <2>1 DEF TypeOK
<1>5. metas'[d[i]] = [version |-> metas[d[i]].version + 1, timestamp |-> now]
  BY <1>2, <1>3 DEF TypeOK
<1>6. \A j \in Index : j # i => Blocks(f)'[j] = Blocks(f)[j]
  BY <1>1, <1>4, BlocksAre, BlocksNext
<1>7. /\ Blocks(f)[i] = metas[d[i]] /\ Blocks(f)[i] # Null
      /\ Blocks(f)'[i] = metas'[d[i]]
  BY <1>1, <1>3, BlocksAre, BlocksNext
<1>8. Blocks(f)'[i] \in [version : {Blocks(f)[i].version + 1}, timestamp : Time]
  BY <1>5, <1>7
<1>9. Blocks(f)' = [Blocks(f) EXCEPT ![i] = Blocks(f)'[i]]
  BY <1>6, BlocksAre, BlocksNext
<1> QED
  BY <1>7, <1>8, <1>9 DEF AF!Modify

(* deleteBlock moves the metadata as it moves the objects.                 *)
LEMMA DeleteBlocks ==
  ASSUME TypeOK, NEW f \in File, NEW b \in Index, DeleteBlock(f, b)
  PROVE  AF(f)!Delete(CollIdx(b))
<1> DEFINE d == colls[files[f]]
           i == CollIdx(b)
<1>1. /\ files' = files /\ metas' = metas /\ files[f] # Null /\ i \in Index
      /\ files[f] \in Coll /\ d \in [Index -> Obj \cup {Null}] /\ d[i] # Null
  BY CollIdxType DEF DeleteBlock, TypeOK, hasFile, Entry
<1>2. colls'[files[f]] = DeleteEntry(d, i)
  BY <1>1 DEF DeleteBlock, TypeOK
<1>3. Blocks(f)[i] # Null
  <2>1. metas[d[i]] # Null
    BY <1>1, NullNoMeta DEF TypeOK
  <2> QED
    BY <1>1, <2>1, BlocksAre
<1>4. \A j \in Index : Blocks(f)'[j] = DeleteEntry(Blocks(f), i)[j]
  <2> TAKE j \in Index
  <2>1. CASE j < i
    <3>1. DeleteEntry(d, i)[j] = d[j] /\ DeleteEntry(Blocks(f), i)[j] = Blocks(f)[j]
      BY <2>1 DEF DeleteEntry
    <3> QED
      BY <1>1, <1>2, <3>1, BlocksAre, BlocksNext
  <2>2. CASE ~(j < i) /\ j < SizeMax
    <3>1. /\ j + 1 \in Index /\ DeleteEntry(d, i)[j] = d[j + 1]
          /\ DeleteEntry(Blocks(f), i)[j] = Blocks(f)[j + 1]
      BY <2>2, SizeAssumption DEF DeleteEntry, Index
    <3> QED
      BY <1>1, <1>2, <3>1, BlocksAre, BlocksNext
  <2>3. CASE ~(j < i) /\ ~(j < SizeMax)
    <3>1. DeleteEntry(d, i)[j] = Null /\ DeleteEntry(Blocks(f), i)[j] = Null
      BY <2>3 DEF DeleteEntry
    <3> QED
      BY <1>1, <1>2, <3>1, BlocksNext
  <2> QED
    BY <2>1, <2>2, <2>3
<1>5. Blocks(f)' = DeleteEntry(Blocks(f), i)
  <2>1. DeleteEntry(Blocks(f), i) = [j \in Index |-> DeleteEntry(Blocks(f), i)[j]]
    BY DEF DeleteEntry
  <2> QED
    BY <1>4, <2>1, BlocksNext
<1> QED
  BY <1>3, <1>5, AFIs DEF AF!Delete

(* Every call on f is one operation of AtomicFile on f.                    *)
LEMMA FileStep ==
  ASSUME TypeOK, NoSharing, NEW f \in File, FileNext(f)
  PROVE  AF(f)!Next
<1> DEFINE Change(i) == \/ AF(f)!Register \/ AF(f)!Modify(i)
                        \/ AF(f)!Insert(i) \/ AF(f)!Delete(i)
<1>a. ASSUME hasFile(f), files' = files, NEW i \in Index, Change(i)
      PROVE  AF(f)!Next
  BY <1>a, AFIs DEF AF!Next, hasFile
<1>b. ASSUME NEW S \in SUBSET Index, AttachNew(f, S, FreshMeta), ~hasFile(f)
      PROVE  AF(f)!Next
  <2>1. /\ files'[f] \notin {files[f], Null}
        /\ Blocks(f)' \in [Index -> FreshMeta \cup {Null}]
    BY <1>b, AttachBlocks
  <2> QED
    BY <1>b, <2>1, AFIs DEF AF!Next, AF!Add, hasFile
<1>c. SizeMax \in Nat /\ \A n \in 1..MaxBlocks : 0..(n - 1) \subseteq Index
  BY SizeAssumption DEF Index
<1>1. CASE AddEmptyFile(f)
  BY <1>1, <1>b DEF AddEmptyFile
<1>2. CASE \E n \in 1..MaxBlocks : AddFile(f, n)
  BY <1>2, <1>b, <1>c DEF AddFile
<1>3. CASE \E S \in SUBSET Index : SetBlockMetadataCollection(f, S)
  <2>1. PICK S \in SUBSET Index : hasFile(f) /\ AttachNew(f, S, Meta)
    BY <1>3 DEF SetBlockMetadataCollection
  <2>2. /\ files'[f] \notin {files[f], Null}
        /\ Blocks(f)' \in [Index -> Meta \cup {Null}]
    BY <2>1, AttachBlocks
  <2>3. Meta \subseteq [version : Nat, timestamp : Time]
    BY SizeAssumption DEF Meta
  <2>4. Blocks(f)' \in [Index -> [version : Nat, timestamp : Time] \cup {Null}]
    BY <2>2, <2>3
  <2> QED
    BY <2>1, <2>2, <2>4, AFIs DEF AF!Next, AF!Load, hasFile
<1>4. CASE RemoveFile(f)
  <2>1. files[f] # Null /\ files'[f] = Null
    BY <1>4 DEF RemoveFile, hasFile, TypeOK
  <2>2. Blocks(f)' = Empty
    BY <2>1 DEF Blocks
  <2> QED
    BY <2>1, <2>2, AFIs DEF AF!Next, AF!Remove
<1>5. CASE \E b \in Index : ModifyBlock(f, b)
  BY <1>5, <1>a, ModifyBlocks, CollIdxType DEF ModifyBlock
<1>6. CASE \E b \in Index : InsertBlock(f, b)
  <2>1. PICK b \in Index : InsertBlock(f, b)
    BY <1>6
  <2>2. PICK o \in FreshObj :
               SetNew(f, o, InsertEntry(colls[files[f]], CollIdx(b), o))
    BY <2>1 DEF InsertBlock
  <2>3. hasFile(f) /\ CollIdx(b) \in Index
    BY <2>1, CollIdxType DEF InsertBlock
  <2>4. /\ files' = files /\ Blocks(f)'[CollIdx(b)] \in FreshMeta
        /\ Blocks(f)' = InsertEntry(Blocks(f), CollIdx(b), Blocks(f)'[CollIdx(b)])
    BY <2>2, <2>3, SetNewBlocks
  <2>5. AF(f)!Insert(CollIdx(b))
    BY <2>3, <2>4, AFIs DEF AF!Insert
  <2> QED
    BY <1>a, <2>3, <2>4, <2>5
<1>7. CASE \E b \in Index : DeleteBlock(f, b)
  BY <1>7, <1>a, DeleteBlocks, CollIdxType DEF DeleteBlock
<1>8. CASE \E b \in Index \ {0} : RegisterBlock(f, b)
  <2>1. PICK b \in Index : RegisterBlock(f, b)
    BY <1>8
  <2>2. PICK o \in FreshObj :
               SetNew(f, o, [colls[files[f]] EXCEPT ![CollIdx(b)] = o])
    BY <2>1 DEF RegisterBlock
  <2>3. hasFile(f) /\ CollIdx(b) \in Index
    BY <2>1, CollIdxType DEF RegisterBlock
  <2>4. /\ files' = files /\ Blocks(f)'[CollIdx(b)] \in FreshMeta
        /\ Blocks(f)' = [Blocks(f) EXCEPT ![CollIdx(b)] = Blocks(f)'[CollIdx(b)]]
    BY <2>2, <2>3, SetNewBlocks
  <2>5. AF(f)!Register
    <3>1. \A i \in Index : Blocks(f)'[i] \in FreshMeta \cup {Blocks(f)[i]}
      BY <2>3, <2>4, BlocksAre
    <3> QED
      BY <3>1, BlocksNext, AFIs DEF AF!Register
  <2> QED
    BY <1>a, <2>3, <2>4, <2>5
<1> QED
  BY <1>1, <1>2, <1>3, <1>4, <1>5, <1>6, <1>7, <1>8 DEF FileNext

(***************************************************************************)
(* Any calls, with any indices, are for every file the operations on       *)
(* metadata of AtomicFile: nobody who only reads metadata can tell that    *)
(* they are shared objects which the rebuilds move.                        *)
(***************************************************************************)
THEOREM FilesStayAtomic == Spec => FilesAreAtomic
<1>1. Init => \A f \in File : AF(f)!Init
  <2> SUFFICES ASSUME Init, NEW f \in File PROVE AF(f)!Init
    OBVIOUS
  <2>1. Blocks(f) = Empty
    BY DEF Init, Blocks
  <2>2. Empty \in [Index -> FreshMeta \cup {Null}]
    BY DEF Empty
  <2> QED
    BY <2>1, <2>2, AFIs DEF AF!Init
<1>2. ASSUME TypeOK, NoSharing, [Next]_vars
      PROVE  [\A f \in File : AF(f)!Next \/ UNCHANGED <<files[f], Blocks(f)>>]_vars
  <2>1. ASSUME NEW g \in File, FileNext(g), NEW f \in File
        PROVE  AF(f)!Next \/ UNCHANGED <<files[f], Blocks(f)>>
    <3>1. CASE f = g
      BY <1>2, <2>1, <3>1, FileStep
    <3>2. CASE f # g
      <4>1. files'[f] = files[f] /\ (files[f] # Null => colls'[files[f]] = colls[files[f]])
        BY <1>2, <2>1, <3>2, CollFrame
      <4>2. \A i \in Index : Blocks(f)'[i] = Blocks(f)[i]
        <5>1. CASE files[f] = Null
          BY <4>1, <5>1, BlocksAre, BlocksNext
        <5>2. CASE files[f] # Null
          BY <1>2, <2>1, <3>2, <4>1, <5>2, OthersMetas, BlocksAre, BlocksNext DEF hasFile
        <5> QED
          BY <5>1, <5>2
      <4> QED
        BY <4>1, <4>2, BlocksAre, BlocksNext
    <3> QED
      BY <3>1, <3>2
  <2> QED
    BY <1>2, <2>1 DEF Next
<1> QED
  BY <1>1, <1>2, TypeCorrect, NeverShared, PTL DEF Spec, FilesAreAtomic

-----------------------------------------------------------------------------
(***************************************************************************)
(* Density.                                                                *)
(***************************************************************************)
(* The collection c holds exactly the indices below n.                     *)
Fills(c, n) == /\ n \in 0..MaxBlocks
               /\ \A i \in Index : (c[i] # Null) <=> (i < n)

(* The number of entries of a dense collection is one past its last index. *)
LEMMA FillsCount ==
  ASSUME NEW c, NEW n, Fills(c, n)
  PROVE  Cardinality(Stored(c)) = n
<1>1. Stored(c) = 0..(n - 1)
  BY SizeAssumption DEF Stored, Fills, Index
<1>2. n \in Nat /\ (n > 0 => 0 <= n - 1)
  BY SizeAssumption DEF Fills
<1>3. CASE n = 0
  BY <1>1, <1>3, FS_EmptySet
<1>4. CASE n > 0
  BY <1>1, <1>2, <1>4, FS_Interval
<1> QED
  BY <1>2, <1>3, <1>4

(* Inserting between or behind the blocks of a dense collection that has   *)
(* room leaves it dense.                                                   *)
LEMMA InsertFills ==
  ASSUME NEW c, NEW n, Fills(c, n), n < MaxBlocks,
         NEW i \in 0..n, NEW o \in Obj
  PROVE  Fills(InsertEntry(c, i, o), n + 1)
  BY SizeAssumption, NullAssumption DEF Fills, InsertEntry, Index

(* Deleting an existing block of a dense collection leaves it dense.       *)
LEMMA DeleteFills ==
  ASSUME NEW c, NEW n, Fills(c, n), NEW i \in Index, c[i] # Null
  PROVE  Fills(DeleteEntry(c, i), n - 1)
  BY SizeAssumption DEF Fills, DeleteEntry, Index

(* A client that follows the interface makes calls of the general client.  *)
LEMMA ListStepIsStep ==
  ASSUME TypeOK, Dense, NEW f \in File, ListFileNext(f)
  PROVE  FileNext(f)
<1>1. hasFile(f) => getBlockCount(f) \in 0..MaxBlocks
  BY FillsCount DEF hasFile, TypeOK, Dense, Attached, Fills, getBlockCount
<1>2. \A n \in 0..MaxBlocks : 0..(n - 1) \in SUBSET Index
  BY SizeAssumption DEF Index
<1>3. HasRoom(f) => 1..(getBlockCount(f) + 1) \subseteq Index \ {0}
  BY <1>1, SizeAssumption DEF HasRoom, Index
<1>4. HasRoom(f) => getBlockCount(f) + 1 \in Index \ {0}
  BY <1>1, SizeAssumption DEF HasRoom, Index
<1> QED
  BY <1>2, <1>3, <1>4 DEF ListFileNext, FileNext
(* Registering behind the last block is inserting there.                   *)
LEMMA RegisterIsInsert ==
  ASSUME NEW c \in [Index -> Obj \cup {Null}], NEW n, Fills(c, n), NEW o \in Obj
  PROVE  [c EXCEPT ![n] = o] = InsertEntry(c, n, o)
<1> DEFINE d == InsertEntry(c, n, o)
<1>1. n \in Index /\ n <= SizeMax /\ SizeMax \in Index
  BY SizeAssumption DEF Fills, Index
<1>2. \A j \in Index : d[j] = IF j = n THEN o ELSE c[j]
  <2> SUFFICES ASSUME NEW j \in Index PROVE d[j] = IF j = n THEN o ELSE c[j]
    OBVIOUS
  <2>1. CASE j > n
    <3>1. j - 1 \in Index /\ ~(j - 1 < n) /\ ~(j < n)
      BY <1>1, <2>1, SizeAssumption DEF Index
    <3>2. c[j - 1] = Null /\ c[j] = Null
      BY <3>1 DEF Fills
    <3> QED
      BY <1>1, <2>1, <3>2, SizeAssumption DEF InsertEntry, Index
  <2>2. CASE ~(j > n)
    <3>1. c[SizeMax] = Null
      BY <1>1, SizeAssumption DEF Fills, Index
    <3> QED
      BY <2>2, <3>1 DEF InsertEntry
  <2> QED
    BY <2>1, <2>2
<1>3. d = [j \in Index |-> d[j]]
  BY DEF InsertEntry
<1> QED
  BY <1>1, <1>2, <1>3

(* A new collection holds exactly the entries it was built with.           *)
LEMMA AttachFills ==
  ASSUME TypeOK, NEW f \in File, NEW n \in 0..MaxBlocks,
         NEW M, AttachNew(f, 0..(n - 1), M)
  PROVE  /\ files'[f] \in Coll
         /\ Fills(colls'[files'[f]], n)
         /\ \A i \in 0..(n - 1) : metas'[colls'[files'[f]][i]] \in M
<1>1. PICK c \in FreshColl, os \in Injection(0..(n - 1), FreshObj) :
             \E ms \in [Range(os) -> M] : Attach(f, c, os, ms)
  BY DEF AttachNew
<1>2. PICK ms \in [Range(os) -> M] : Attach(f, c, os, ms)
  BY <1>1
<1>3. os \in [0..(n - 1) -> FreshObj] /\ FreshObj \subseteq Obj /\ c \in Coll
  BY DEF Injection, FreshObj, FreshColl
<1>4. files'[f] = c
  BY <1>2 DEF Attach, TypeOK
<1>5. colls'[c] = [i \in Index |-> IF i \in 0..(n - 1) THEN os[i] ELSE Null]
  BY <1>2, <1>3 DEF Attach
<1>6. 0..(n - 1) \subseteq Index /\ \A i \in Index : i \in 0..(n - 1) <=> i < n
  BY SizeAssumption DEF Index
<1>7. Fills(colls'[c], n)
  BY <1>3, <1>5, <1>6, NullAssumption DEF Fills
<1>8. \A i \in 0..(n - 1) : metas'[os[i]] \in M
  <2>1. \A i \in 0..(n - 1) : os[i] \in Range(os) /\ os[i] \in Obj
    BY <1>3 DEF Range
  <2> QED
    BY <1>2, <2>1 DEF Attach
<1> QED
  BY <1>3, <1>4, <1>5, <1>6, <1>7, <1>8

(* What insertBlock and the registration of the next block do to a dense   *)
(* file: one new object with fresh metadata, the old ones as they were.    *)
LEMMA InsertEffect ==
  ASSUME TypeOK, NEW f \in File, HasRoom(f), NEW n, Fills(colls[files[f]], n),
         NEW b, \/ b \in 1..(n + 1) /\ InsertBlock(f, b)
                \/ b = n + 1 /\ RegisterBlock(f, b)
  PROVE  /\ files' = files
         /\ \E o \in FreshObj, m \in FreshMeta :
               /\ colls' = [colls EXCEPT ![files[f]] =
                               InsertEntry(colls[files[f]], b - 1, o)]
               /\ metas' = [metas EXCEPT ![o] = m]
<1>1. n \in Nat /\ b \in 1..(n + 1) /\ CollIdx(b) = b - 1
  BY SizeAssumption DEF Fills, CollIdx
<1>2. CASE InsertBlock(f, b)
  BY <1>1, <1>2 DEF InsertBlock, SetNew
<1>3. CASE b = n + 1 /\ RegisterBlock(f, b)
  <2>1. colls[files[f]] \in [Index -> Obj \cup {Null}]
    BY DEF HasRoom, hasFile, TypeOK
  <2>2. \A o \in FreshObj : [colls[files[f]] EXCEPT ![CollIdx(b)] = o]
                              = InsertEntry(colls[files[f]], b - 1, o)
    <3>1. CollIdx(b) = n /\ b - 1 = n /\ FreshObj \subseteq Obj
      BY <1>1, <1>3 DEF FreshObj
    <3> QED
      BY <2>1, <3>1, RegisterIsInsert
  <2>3. PICK o \in FreshObj : SetNew(f, o, [colls[files[f]] EXCEPT ![CollIdx(b)] = o])
    BY <1>3 DEF RegisterBlock
  <2>4. SetNew(f, o, InsertEntry(colls[files[f]], b - 1, o))
    BY <2>2, <2>3
  <2> QED
    BY <2>4 DEF SetNew
<1> QED
  BY <1>2, <1>3

(* Every registered file is densely filled up to its block count.          *)
LEMMA DenseFile ==
  ASSUME TypeOK, Dense, NEW f \in File, hasFile(f)
  PROVE  /\ files[f] \in Coll
         /\ Fills(colls[files[f]], getBlockCount(f))
<1>1. files[f] \in Coll /\ files[f] \in Attached
  BY DEF TypeOK, hasFile, Attached
<1>2. PICK n \in 0..MaxBlocks : Fills(colls[files[f]], n)
  BY <1>1 DEF Dense, Fills
<1> QED
  BY <1>1, <1>2, FillsCount DEF getBlockCount

(* Density is kept by every step of a client that follows the interface.   *)
LEMMA DenseStep ==
  TypeOK /\ NoSharing /\ Dense /\ [ListNext]_vars => Dense'
<1> SUFFICES ASSUME TypeOK, NoSharing, Dense, [ListNext]_vars PROVE Dense'
  OBVIOUS
<1>1. CASE UNCHANGED vars
  BY <1>1 DEF vars, Dense, Attached
<1>2. ASSUME NEW f \in File, ListFileNext(f) PROVE Dense'
  <2>1. FileNext(f)
    BY <1>2, ListStepIsStep
  <2>2. ASSUME NEW g \in File, g # f, files'[g] # Null
        PROVE  \E n \in 0..MaxBlocks : Fills(colls'[files'[g]], n)
    <3>1. /\ files'[g] = files[g] /\ hasFile(g)
          /\ colls'[files[g]] = colls[files[g]]
      BY <2>1, <2>2, CollFrame DEF hasFile
    <3> QED
      BY <3>1, DenseFile DEF Fills
  <2>3. ASSUME files'[f] # Null
        PROVE  \E n \in 0..MaxBlocks : Fills(colls'[files'[f]], n)
    <3>0. 0 \in 0..MaxBlocks /\ 0..(0 - 1) = {}
      BY SizeAssumption
    <3>1. CASE AddEmptyFile(f)
      BY <3>0, <3>1, AttachFills DEF AddEmptyFile
    <3>2. CASE \E n \in 1..MaxBlocks : AddFile(f, n)
      BY <3>2, AttachFills DEF AddFile
    <3>3. CASE \E n \in 0..MaxBlocks : SetBlockMetadataCollection(f, 0..(n - 1))
      BY <3>3, AttachFills DEF SetBlockMetadataCollection
    <3>4. CASE RemoveFile(f)
      BY <2>3, <3>4 DEF RemoveFile, TypeOK
    <3>5. CASE \E b \in Index : ModifyBlock(f, b)
      BY <3>5, DenseFile DEF ModifyBlock, Fills
    <3>6. CASE \E b \in Index : DeleteBlock(f, b)
      <4>1. PICK b \in Index : DeleteBlock(f, b)
        BY <3>6
      <4>2. Fills(colls[files[f]], getBlockCount(f)) /\ files[f] \in Coll
        BY <4>1, DenseFile DEF DeleteBlock
      <4>3. colls[files[f]][CollIdx(b)] # Null /\ CollIdx(b) \in Index
        BY <4>1, CollIdxType DEF DeleteBlock, Entry
      <4>4. Fills(DeleteEntry(colls[files[f]], CollIdx(b)), getBlockCount(f) - 1)
        BY <4>2, <4>3, DeleteFills
      <4>5. files' = files /\ colls'[files[f]] = DeleteEntry(colls[files[f]], CollIdx(b))
        BY <4>1, <4>2 DEF DeleteBlock, TypeOK
      <4> QED
        BY <4>4, <4>5 DEF Fills
    <3>7. ASSUME HasRoom(f), NEW b \in 1..(getBlockCount(f) + 1),
                 \/ InsertBlock(f, b)
                 \/ b = getBlockCount(f) + 1 /\ RegisterBlock(f, b)
          PROVE  \E n \in 0..MaxBlocks : Fills(colls'[files'[f]], n)
      <4> DEFINE n == getBlockCount(f)
      <4>1. Fills(colls[files[f]], n) /\ files[f] \in Coll /\ n < MaxBlocks
        BY <3>7, DenseFile DEF HasRoom
      <4>2. files' = files /\ \E o \in FreshObj :
              colls' = [colls EXCEPT ![files[f]] = InsertEntry(colls[files[f]], b - 1, o)]
        BY <3>7, <4>1, InsertEffect
      <4>3. b - 1 \in 0..n
        BY <3>7, <4>1, SizeAssumption DEF Fills
      <4>4. \A o \in Obj : Fills(InsertEntry(colls[files[f]], b - 1, o), n + 1)
        BY <4>1, <4>3, InsertFills
      <4> QED
        BY <4>1, <4>2, <4>4 DEF Fills, FreshObj, TypeOK
    <3>8. HasRoom(f) => getBlockCount(f) + 1 \in 1..(getBlockCount(f) + 1)
      BY DenseFile, SizeAssumption DEF HasRoom, Fills
    <3> QED
      BY <1>2, <3>1, <3>2, <3>3, <3>4, <3>5, <3>6, <3>7, <3>8 DEF ListFileNext
  <2>4. ASSUME NEW c \in Attached'
        PROVE  \E n \in 0..MaxBlocks : Fills(colls'[c], n)
    <3>1. PICK g \in File : files'[g] = c /\ c # Null
      BY <2>4, NullAssumption DEF Attached
    <3> QED
      BY <2>2, <2>3, <3>1
  <2> QED
    BY <2>4 DEF Dense, Fills
<1> QED
  BY <1>1, <1>2 DEF ListNext

(***************************************************************************)
(* A client that inserts, registers and loads blocks as the 1-based        *)
(* interface means it never makes a gap, whatever it deletes and updates:  *)
(* each index that generateChallenges draws from [1, getBlockCount] has    *)
(* metadata.                                                               *)
(***************************************************************************)
THEOREM AlwaysDense == ListSpec => [](TypeOK /\ NoSharing /\ Dense)
<1>1. Init => TypeOK /\ NoSharing /\ Dense
  <2> SUFFICES ASSUME Init PROVE TypeOK /\ NoSharing /\ Dense
    OBVIOUS
  <2>1. Attached = {}
    BY NullAssumption DEF Init, Attached
  <2> QED
    BY <2>1, MetaType DEF Init, TypeOK, Empty, NoSharing, Dense
<1>2. TypeOK /\ Dense /\ [ListNext]_vars => [Next]_vars
  BY ListStepIsStep DEF ListNext, Next
<1> QED
  BY <1>1, <1>2, TypeStep, SharingStep, DenseStep, PTL DEF ListSpec
-----------------------------------------------------------------------------
(***************************************************************************)
(* Refinement.                                                             *)
(***************************************************************************)
(* The refinement mapping.                                                 *)
lists == [f \in File |-> Listing(f)]

(* The list of a densely filled collection c with contents ms.             *)
ListOf(c, ms, n) == [k \in 1..n |-> ms[c[k - 1]]]

LEMMA ListOfType ==
  ASSUME NEW c \in [Index -> Obj \cup {Null}], NEW ms \in [Obj -> Meta],
         NEW n, Fills(c, n)
  PROVE  /\ n \in Nat
         /\ ListOf(c, ms, n) \in Seq(Meta) /\ Len(ListOf(c, ms, n)) = n
         /\ ListOf(c, ms, n) # Null
<1>1. n \in Nat
  BY SizeAssumption DEF Fills
<1>2. \A k \in 1..n : ms[c[k - 1]] \in Meta
  <2> SUFFICES ASSUME NEW k \in 1..n PROVE ms[c[k - 1]] \in Meta
    OBVIOUS
  <2>1. k - 1 \in Index /\ k - 1 < n
    BY SizeAssumption DEF Fills, Index
  <2>2. c[k - 1] \in Obj
    BY <2>1 DEF Fills
  <2> QED
    BY <2>2
<1>3. ListOf(c, ms, n) \in Seq(Meta) /\ Len(ListOf(c, ms, n)) = n
  BY <1>1, <1>2 DEF ListOf
<1> QED
  BY <1>1, <1>3, NullNoMeta

(* The list of a densely filled file, before and after a step.             *)
LEMMA ListingOf ==
  ASSUME NEW f \in File, files[f] \in Coll, NEW n, Fills(colls[files[f]], n)
  PROVE  Listing(f) = ListOf(colls[files[f]], metas, n)
<1>1. getBlockCount(f) = n /\ files[f] # Null
  BY FillsCount, NullAssumption DEF getBlockCount
<1> QED
  BY <1>1 DEF Listing, ListOf

LEMMA NextListingOf ==
  ASSUME NEW f \in File, files'[f] \in Coll, NEW n, Fills(colls'[files'[f]], n)
  PROVE  Listing(f)' = ListOf(colls'[files'[f]], metas', n)
<1>1. getBlockCount(f)' = n /\ files'[f] # Null
  BY FillsCount, NullAssumption DEF getBlockCount, Stored
<1> QED
  BY <1>1 DEF Listing, ListOf

(* A call on f changes the list of f only.                                 *)
LEMMA OthersListing ==
  ASSUME TypeOK, NoSharing, Dense, NEW f \in File, FileNext(f)
  PROVE  lists' = [lists EXCEPT ![f] = Listing(f)']
<1>1. ASSUME NEW g \in File, g # f PROVE Listing(g)' = Listing(g)
  <2>1. files'[g] = files[g] /\ (files[g] # Null => colls'[files[g]] = colls[files[g]])
    BY <1>1, CollFrame
  <2>2. CASE files[g] = Null
    BY <2>1, <2>2 DEF Listing
  <2>3. CASE files[g] # Null
    <3> DEFINE c == colls[files[g]]
               n == getBlockCount(g)
    <3>1. Fills(c, n)
      BY <2>3, DenseFile DEF hasFile
    <3>2. getBlockCount(g)' = n
      BY <2>1, <2>3 DEF getBlockCount, Stored
    <3>3. ASSUME NEW k \in 1..n PROVE metas'[c[k - 1]] = metas[c[k - 1]]
      <4>1. k - 1 \in Index /\ c[k - 1] # Null
        BY <3>1, SizeAssumption DEF Fills, Index
      <4> QED
        BY <1>1, <2>3, <4>1, OthersMetas DEF hasFile
    <3> QED
      BY <2>1, <2>3, <3>2, <3>3 DEF Listing
  <2> QED
    BY <2>2, <2>3
<1> QED
  BY <1>1 DEF lists

(* The list of f after a call that attached a collection to f.             *)
LEMMA AttachListing ==
  ASSUME TypeOK, TypeOK', NEW f \in File, NEW n \in 0..MaxBlocks,
         NEW M, AttachNew(f, 0..(n - 1), M)
  PROVE  /\ Listing(f)' \in Seq(Meta)
         /\ \A k \in DOMAIN Listing(f)' : Listing(f)'[k] \in M
<1>1. /\ files'[f] \in Coll /\ Fills(colls'[files'[f]], n)
      /\ \A i \in 0..(n - 1) : metas'[colls'[files'[f]][i]] \in M
  BY AttachFills
<1>2. /\ Listing(f)' = [k \in 1..n |-> metas'[colls'[files'[f]][k - 1]]]
      /\ Listing(f)' \in Seq(Meta)
  <2>1. Listing(f)' = ListOf(colls'[files'[f]], metas', n)
    BY <1>1, NextListingOf
  <2>2. colls'[files'[f]] \in [Index -> Obj \cup {Null}] /\ metas' \in [Obj -> Meta]
    BY <1>1 DEF TypeOK
  <2> DEFINE c == colls'[files'[f]]
             ms == metas'
  <2>3. c \in [Index -> Obj \cup {Null}] /\ ms \in [Obj -> Meta] /\ Fills(c, n)
    BY <1>1, <2>2
  <2> HIDE DEF c, ms
  <2>4. ListOf(c, ms, n) \in Seq(Meta)
    BY <2>3, ListOfType
  <2>5. ListOf(c, ms, n) = [k \in 1..n |-> ms[c[k - 1]]]
    BY DEF ListOf
  <2> QED
    BY <2>1, <2>4, <2>5 DEF c, ms
<1>3. \A k \in 1..n : k - 1 \in 0..(n - 1)
  BY SizeAssumption
<1> QED
  BY <1>1, <1>2, <1>3

(* insertBlock moves the metadata behind the insertion point by one.       *)
LEMMA InsertListing ==
  ASSUME NEW c \in [Index -> Obj \cup {Null}], NEW ms \in [Obj -> Meta],
         NEW n, Fills(c, n), n < MaxBlocks, NEW i \in 1..(n + 1),
         NEW o \in Obj, \A j \in Index : c[j] # o, NEW m \in Meta
  PROVE  ListOf(InsertEntry(c, i - 1, o), [ms EXCEPT ![o] = m], n + 1)
            = BL!InsertAt(ListOf(c, ms, n), i, m)
<1> DEFINE s == ListOf(c, ms, n)
           d == InsertEntry(c, i - 1, o)
           mt == [ms EXCEPT ![o] = m]
<1>1. n \in Nat /\ n < SizeMax /\ SizeMax \in Nat
  BY SizeAssumption DEF Fills
<1>2. s \in Seq(Meta) /\ Len(s) = n
  BY ListOfType
<1>3. ASSUME NEW k \in 1..(n + 1)
      PROVE  mt[d[k - 1]] = IF k < i THEN s[k] ELSE IF k = i THEN m ELSE s[k - 1]
  <2>1. k - 1 \in Index
    BY <1>1 DEF Index
  <2>2. d[k - 1] = IF k - 1 = i - 1 THEN o
                   ELSE IF k - 1 > i - 1 THEN c[k - 1 - 1]
                   ELSE IF k - 1 = 0 /\ c[SizeMax] # Null THEN c[SizeMax]
                   ELSE c[k - 1]
    BY <2>1 DEF InsertEntry
  <2>3. c[SizeMax] = Null
    BY <1>1 DEF Fills, Index
  <2>4. CASE k < i
    <3>1. d[k - 1] = c[k - 1] /\ k \in 1..n /\ k - 1 < n
      BY <1>1, <2>2, <2>3, <2>4
    <3>2. c[k - 1] \in Obj /\ c[k - 1] # o
      BY <2>1, <3>1 DEF Fills
    <3> QED
      BY <2>4, <3>1, <3>2 DEF ListOf
  <2>5. CASE k = i
    BY <2>2, <2>5
  <2>6. CASE k > i
    <3>1. d[k - 1] = c[(k - 1) - 1] /\ k - 1 \in 1..n /\ (k - 1) - 1 < n
      BY <1>1, <2>2, <2>6
    <3>2. (k - 1) - 1 \in Index
      BY <1>1, <3>1 DEF Index
    <3>3. c[(k - 1) - 1] \in Obj /\ c[(k - 1) - 1] # o
      BY <3>1, <3>2 DEF Fills
    <3> QED
      BY <2>6, <3>1, <3>3 DEF ListOf
  <2> QED
    BY <2>4, <2>5, <2>6
<1> HIDE DEF s, d, mt
<1>4. ListOf(d, mt, n + 1) = [k \in 1..(n + 1) |->
            IF k < i THEN s[k] ELSE IF k = i THEN m ELSE s[k - 1]]
  BY <1>3 DEF ListOf
<1>5. BL!InsertAt(s, i, m) = [k \in 1..(n + 1) |->
            IF k < i THEN s[k] ELSE IF k = i THEN m ELSE s[k - 1]]
  BY <1>2, InsertAtPoints DEF BL!InsertAt, InsertAt
<1> QED
  BY <1>4, <1>5 DEF s, d, mt

(* deleteBlock closes the gap.                                             *)
LEMMA DeleteListing ==
  ASSUME NEW c \in [Index -> Obj \cup {Null}], NEW ms \in [Obj -> Meta],
         NEW n, Fills(c, n), NEW i \in 1..n
  PROVE  ListOf(DeleteEntry(c, i - 1), ms, n - 1) = BL!RemoveAt(ListOf(c, ms, n), i)
<1> DEFINE s == ListOf(c, ms, n)
           d == DeleteEntry(c, i - 1)
<1>1. n \in Nat /\ n <= SizeMax /\ SizeMax \in Nat
  BY SizeAssumption DEF Fills
<1>2. s \in Seq(Meta) /\ Len(s) = n
  BY ListOfType
<1>3. ASSUME NEW k \in 1..(n - 1)
      PROVE  ms[d[k - 1]] = IF k < i THEN s[k] ELSE s[k + 1]
  <2>1. k - 1 \in Index /\ k \in 1..n /\ k + 1 \in 1..n /\ (k - 1) + 1 = (k + 1) - 1
    BY <1>1 DEF Index
  <2>2. d[k - 1] = IF k - 1 < i - 1 THEN c[k - 1] ELSE c[(k + 1) - 1]
    BY <1>1, <2>1 DEF DeleteEntry
  <2> QED
    BY <2>1, <2>2 DEF ListOf
<1>4. ListOf(d, ms, n - 1) = [k \in 1..(n - 1) |-> IF k < i THEN s[k] ELSE s[k + 1]]
  BY <1>3 DEF ListOf
<1>5. BL!RemoveAt(s, i) = [k \in 1..(n - 1) |-> IF k < i THEN s[k] ELSE s[k + 1]]
  BY <1>2, RemoveAtPoints DEF BL!RemoveAt, RemoveAt
<1> QED
  BY <1>4, <1>5

(* bump() replaces one element.                                            *)
LEMMA BumpListing ==
  ASSUME NEW c \in [Index -> Obj \cup {Null}], NEW ms \in [Obj -> Meta],
         NEW n, Fills(c, n), Distinct(c), NEW i \in 1..n, NEW m \in Meta
  PROVE  ListOf(c, [ms EXCEPT ![c[i - 1]] = m], n) = BL!ReplaceAt(ListOf(c, ms, n), i, m)
<1> DEFINE s == ListOf(c, ms, n)
           mt == [ms EXCEPT ![c[i - 1]] = m]
<1>1. \A k \in 1..n : k - 1 \in Index /\ c[k - 1] \in Obj
  BY SizeAssumption DEF Fills, Index
<1>2. ASSUME NEW k \in 1..n PROVE mt[c[k - 1]] = IF k = i THEN m ELSE s[k]
  <2>1. k # i => c[k - 1] # c[i - 1]
    BY <1>1, NullAssumption DEF Distinct
  <2> QED
    BY <1>1, <2>1 DEF ListOf
<1> QED
  BY <1>2 DEF ListOf, BL!ReplaceAt
(* Every step of a client that follows the interface is a list operation.  *)
LEMMA RefinementStep ==
  ASSUME TypeOK, TypeOK', NoSharing, Dense, NEW f \in File, ListFileNext(f)
  PROVE  BL!Next
<1>1. FileNext(f)
  BY ListStepIsStep
<1>2. lists' = [lists EXCEPT ![f] = Listing(f)'] /\ lists[f] = Listing(f)
  BY <1>1, OthersListing DEF lists
<1>3. lists'[f] = Listing(f)'
  BY DEF lists
<1>4. 0 \in 0..MaxBlocks /\ 0..(0 - 1) = {}
  BY SizeAssumption
<1>5. ASSUME NEW n \in 0..MaxBlocks, ~hasFile(f), AttachNew(f, 0..(n - 1), FreshMeta)
      PROVE  BL!Create(f)
  <2>1. Listing(f)' \in Seq(Meta) /\ \A k \in DOMAIN Listing(f)' : Listing(f)'[k].version = 1
    <3>1. /\ Listing(f)' \in Seq(Meta)
          /\ \A k \in DOMAIN Listing(f)' : Listing(f)'[k] \in FreshMeta
      BY <1>5, AttachListing
    <3>2. \A m \in FreshMeta : m.version = 1
      BY DEF FreshMeta
    <3> QED
      BY <3>1, <3>2
  <2>2. Listing(f) = Null
    BY <1>5 DEF Listing, hasFile
  <2> QED
    BY <1>2, <1>3, <2>1, <2>2 DEF BL!Create, lists
<1>6. CASE AddEmptyFile(f)
  BY <1>4, <1>5, <1>6 DEF AddEmptyFile, BL!Next
<1>7. CASE \E n \in 1..MaxBlocks : AddFile(f, n)
  BY <1>5, <1>7 DEF AddFile, BL!Next
<1>8. CASE /\ hasFile(f) /\ getBlockCount(f) = 0
           /\ \E n \in 0..MaxBlocks : SetBlockMetadataCollection(f, 0..(n - 1))
  <2>1. Listing(f)' \in Seq(Meta)
    BY <1>8, AttachListing DEF SetBlockMetadataCollection
  <2>2. Listing(f) = << >>
    BY <1>8 DEF Listing, hasFile
  <2>3. BL!Load(f)
    BY <1>2, <1>3, <2>1, <2>2 DEF BL!Load, lists
  <2> QED
    BY <2>3 DEF BL!Next
<1> DEFINE c == colls[files[f]]
           n == getBlockCount(f)
           s == ListOf(c, metas, n)
<1>9. ASSUME hasFile(f)
       PROVE  /\ files[f] \in Coll /\ Fills(c, n)
              /\ c \in [Index -> Obj \cup {Null}] /\ metas \in [Obj -> Meta]
              /\ lists[f] = s /\ s \in Seq(Meta) /\ Len(s) = n /\ s # Null /\ n \in Nat
  <2>1. files[f] \in Coll /\ Fills(c, n)
    BY <1>9, DenseFile
  <2>2. c \in [Index -> Obj \cup {Null}] /\ metas \in [Obj -> Meta]
    BY <2>1 DEF TypeOK
  <2> QED
    BY <1>2, <2>1, <2>2, ListingOf, ListOfType
<1>10. CASE RemoveFile(f)
  <2>1. Listing(f)' = Null
    BY <1>10 DEF RemoveFile, Listing, TypeOK
  <2>2. lists[f] # Null
    BY <1>10, <1>9 DEF RemoveFile
  <2>3. BL!Drop(f)
    BY <1>2, <2>1, <2>2 DEF BL!Drop, lists
  <2> QED
    BY <2>3 DEF BL!Next
<1>11. CASE \E b \in Index : ModifyBlock(f, b)
  <2>1. PICK b \in Index, now \in Time :
               /\ hasFile(f) /\ Entry(f, b) # Null
               /\ metas[Entry(f, b)].version < MaxVersion
               /\ metas' = [metas EXCEPT ![Entry(f, b)] =
                              [version |-> metas[Entry(f, b)].version + 1, timestamp |-> now]]
               /\ files' = files /\ colls' = colls
    BY <1>11 DEF ModifyBlock
  <2> DEFINE m == [version |-> metas[Entry(f, b)].version + 1, timestamp |-> now]
             i == CollIdx(b) + 1
  <2>2. CollIdx(b) \in Index /\ c[CollIdx(b)] # Null /\ Entry(f, b) = c[i - 1]
    BY <2>1, CollIdxType, SizeAssumption DEF Entry, Index
  <2>3. i \in 1..n
    BY <1>9, <2>1, <2>2, SizeAssumption DEF Fills, Index
  <2>4. Distinct(c)
    BY <1>9, <2>1 DEF NoSharing, Attached, Distinct
  <2>5. Entry(f, b) \in Obj
    BY <1>9, <2>1, <2>2 DEF Entry
  <2>6. m \in Meta /\ m.version = metas[c[i - 1]].version + 1
    BY <2>1, <2>2, <2>5, MetaType DEF TypeOK
  <2>7. s[i] = metas[c[i - 1]]
    BY <2>3 DEF ListOf
  <2>8. Listing(f)' = ListOf(c, [metas EXCEPT ![c[i - 1]] = m], n)
    BY <1>9, <2>1, <2>2, NextListingOf
  <2>9. Listing(f)' = BL!ReplaceAt(s, i, m)
    BY <1>9, <2>1, <2>3, <2>4, <2>6, <2>8, BumpListing
  <2> HIDE DEF m, i, s, n, c
  <2>10. BL!Bump(f, i, m)
    BY <1>2, <1>9, <2>1, <2>6, <2>7, <2>9 DEF BL!Bump, lists
  <2> QED
    BY <1>9, <2>1, <2>3, <2>6, <2>10 DEF BL!Next, lists
<1>12. CASE \E b \in Index : DeleteBlock(f, b)
  <2>1. PICK b \in Index : DeleteBlock(f, b)
    BY <1>12
  <2> DEFINE i == CollIdx(b) + 1
  <2>2. hasFile(f) /\ CollIdx(b) \in Index /\ c[CollIdx(b)] # Null /\ CollIdx(b) = i - 1
    BY <2>1, CollIdxType, SizeAssumption DEF DeleteBlock, Entry, Index
  <2>3. i \in 1..n
    BY <1>9, <2>2, SizeAssumption DEF Fills, Index
  <2>4. files' = files /\ metas' = metas /\ colls'[files[f]] = DeleteEntry(c, i - 1)
    BY <1>9, <2>1, <2>2 DEF DeleteBlock, TypeOK
  <2>5. Fills(DeleteEntry(c, i - 1), n - 1)
    BY <1>9, <2>2, DeleteFills
  <2>6. Listing(f)' = ListOf(DeleteEntry(c, i - 1), metas, n - 1)
    BY <1>9, <2>2, <2>4, <2>5, NextListingOf
  <2>7. Listing(f)' = BL!RemoveAt(s, i)
    BY <1>9, <2>2, <2>3, <2>6, DeleteListing
  <2> HIDE DEF i, s, n, c
  <2>8. BL!Delete(f, i)
    BY <1>2, <1>9, <2>2, <2>7 DEF BL!Delete, lists
  <2> QED
    BY <1>9, <2>2, <2>3, <2>8 DEF BL!Next, lists
<1>13. ASSUME HasRoom(f), NEW b \in 1..(n + 1),
              \/ InsertBlock(f, b)
              \/ b = n + 1 /\ RegisterBlock(f, b)
       PROVE  BL!Next
  <2>1. hasFile(f) /\ n < MaxBlocks
    BY <1>13 DEF HasRoom
  <2>2. files' = files /\ \E o \in FreshObj, m \in FreshMeta :
              /\ colls' = [colls EXCEPT ![files[f]] = InsertEntry(c, b - 1, o)]
              /\ metas' = [metas EXCEPT ![o] = m]
    BY <1>9, <1>13, <2>1, InsertEffect
  <2>3. PICK o \in FreshObj, m \in FreshMeta :
              /\ colls' = [colls EXCEPT ![files[f]] = InsertEntry(c, b - 1, o)]
              /\ metas' = [metas EXCEPT ![o] = m]
    BY <2>2
  <2>4. o \in Obj /\ m \in Meta /\ m.version = 1 /\ \A j \in Index : c[j] # o
    BY <1>9, <2>1, MetaType DEF FreshObj, Reachable, Attached, FreshMeta
  <2>5. b - 1 \in 0..n
    BY <1>9, <2>1
  <2>6. Fills(InsertEntry(c, b - 1, o), n + 1)
    BY <1>9, <2>1, <2>4, <2>5, InsertFills
  <2>7. colls'[files'[f]] = InsertEntry(c, b - 1, o) /\ files'[f] \in Coll
    BY <1>9, <2>1, <2>2, <2>3 DEF TypeOK
  <2>8. Listing(f)' = ListOf(InsertEntry(c, b - 1, o), [metas EXCEPT ![o] = m], n + 1)
    BY <2>3, <2>6, <2>7, NextListingOf
  <2>9. Listing(f)' = BL!InsertAt(s, b, m)
    BY <1>9, <2>1, <2>4, <2>8, InsertListing
  <2> HIDE DEF s, n, c
  <2>10. BL!Insert(f, b, m)
    BY <1>2, <1>9, <2>1, <2>4, <2>9 DEF BL!Insert, lists
  <2> QED
    BY <1>9, <1>13, <2>1, <2>4, <2>10 DEF BL!Next, lists
<1>14. HasRoom(f) => n + 1 \in 1..(n + 1)
  BY <1>9 DEF HasRoom
<1> HIDE DEF s, c
<1> QED
  BY <1>6, <1>7, <1>8, <1>10, <1>11, <1>12, <1>13, <1>14 DEF ListFileNext

(***************************************************************************)
(* Called as its interface means it, the store behaves as a list per file: *)
(* insertBlock and deleteBlock move the blocks behind the position by one  *)
(* and change nothing else, modifyBlock advances one version by one.       *)
(***************************************************************************)
THEOREM StoreImplementsList == ListSpec => Refinement
<1>1. Init => BL!Init
  BY DEF Init, BL!Init, Listing
<1>2. ASSUME TypeOK, TypeOK', NoSharing, Dense, [ListNext]_vars
      PROVE  [BL!Next]_lists
  <2>1. CASE UNCHANGED vars
    BY <2>1 DEF vars, lists, Listing, getBlockCount, Stored
  <2>2. CASE ListNext
    BY <1>2, <2>2, RefinementStep DEF ListNext
  <2> QED
    BY <1>2, <2>1, <2>2
<1> QED
  BY <1>1, <1>2, AlwaysDense, PTL DEF ListSpec, Refinement, BL!Spec, lists
=============================================================================
