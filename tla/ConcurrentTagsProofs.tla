------------------------ MODULE ConcurrentTagsProofs ------------------------
(***************************************************************************)
(* Proofs about ConcurrentTags, for any number of threads, any windows and *)
(* any scenes within the stated hypotheses: copies are torn by a bump of   *)
(* the very object only, no block that is there is registered anew, no     *)
(* thread fails because of another one, what was made since the last edit  *)
(* agrees with the store, no entry is lost, and the methods are atomic.    *)
(***************************************************************************)
EXTENDS ConcurrentTags, ListLemmas, FiniteSetTheorems

(***************************************************************************)
(* What the scenes must be like, for some of the results.                  *)
(***************************************************************************)

Rebuilt(s) == s.edits \cap {"insert", "delete"} # {}

(* A file in which blocks are inserted and deleted has no gaps at first.   *)
Dense == \A s \in Scenes : Rebuilt(s) => \E k \in 0..MaxBlock : s.registered = 1..k

(* At most one thread in generateTags() may find that there is no file.    *)
OneAdds == \A s \in Scenes : \A t, u \in s.early :
              s.role[t] = "tags" /\ s.role[u] = "tags" => t = u

(* No two threads tag the same block.                                      *)
ApartIn(s) == \A t, u \in Worker :
                 s.role[t] = "tags" /\ s.role[u] = "tags" /\ t # u =>
                    s.window[t] \cap s.window[u] = {}

Apart == \A s \in Scenes : ApartIn(s)

(* Blocks of a file in which others are inserted and deleted are tagged    *)
(* only if they are there all the time.                                    *)
LastingIn(s) == {b \in s.registered :
                   /\ "delete" \in s.edits => b + MaxEdits \in s.registered
                   /\ "remove" \notin s.edits}

Steady == \A s \in Scenes : Rebuilt(s) =>
             \A t \in Worker : s.role[t] = "tags" => s.window[t] \subseteq LastingIn(s)

(* Blocks of a file that is edited at all are tagged only if they are      *)
(* there all the time, or else nothing but updates happens to it and no    *)
(* block is tagged by two threads.                                         *)
Changed(s) == s.edits \cap {"modify", "insert", "delete"} # {}

AllLasting(s) == \A t \in Worker : s.role[t] = "tags" => s.window[t] \subseteq LastingIn(s)

Orderly == \A s \in Scenes :
              Changed(s) => AllLasting(s) \/ (s.edits = {"modify"} /\ ApartIn(s))

(* No insertion moves a block past the largest index.                      *)
Room == MaxBlock + MaxEdits <= SizeMax + 1

(***************************************************************************)
(* The inductive invariant, in parts.  First the shape of the state.       *)
(***************************************************************************)
PartialFun(S, T) == UNION {[D -> T] : D \in SUBSET S}

WorkerRec == [pc    : {"hasFile", "addFile", "getMetadata", "getCollection", "set",
                       "copy", "done", "failed"},
              todo  : SUBSET Block,
              obj   : Obj \cup {Null},
              coll  : Nat,
              copy  : PartialFun(Field, Nat),
              raced : BOOLEAN,
              begun : [edits : 0..MaxEdits, moves : Nat],
              made  : [Block -> Meta \cup {Null}]]

MaintainerRec == [op    : {"none", "modify", "insert", "delete", "remove", "add", "load"},
                  pc    : {"idle", "bump", "below", "clear", "set"},
                  at    : 0..MaxBlock,
                  edits : 0..MaxEdits,
                  moves : Nat,
                  plan  : PartialFun(Nat, Obj)]

AtBlock(t) == w[t].pc \in {"getMetadata", "getCollection", "set", "copy"}

ShapeInv ==
  /\ scene \in Scenes /\ mutex \in BOOLEAN
  /\ colls \in Seq([Index -> Obj \cup {Null}]) /\ attached \in 0..Len(colls)
  /\ metas \in [Obj -> Meta]
  /\ w \in [Worker -> WorkerRec] /\ m \in MaintainerRec
  /\ mutex <=> m.pc # "idle"
  /\ mutex => known /\ m.at \in Block /\ m.edits > 0
  /\ m.pc = "bump" => m.op = "modify" /\ DOMAIN m.plan = {m.at - 1}
  /\ m.pc = "below" => m.op = "insert"
  /\ \A o \in Obj : metas[o].version <= m.edits + 1

(* What a thread has in hand, at each point of its loop.                   *)
LoopOf(t) ==
  /\ w[t].todo \subseteq scene.window[t]
  /\ AtBlock(t) => w[t].todo # {}
  /\ w[t].pc \in {"getCollection", "set"} => scene.role[t] = "tags"
  /\ w[t].pc = "set" => w[t].coll \in DOMAIN colls /\ w[t].obj = <<t, Current(t)>>
  /\ w[t].pc = "copy" => w[t].obj \in Obj
  /\ w[t].pc # "copy" => DOMAIN w[t].copy = {}
  /\ "version" \in DOMAIN w[t].copy => w[t].copy["version"] \in 1..(MaxEdits + 1)
  /\ "timestamp" \in DOMAIN w[t].copy => w[t].copy["timestamp"] \in scene.times

LoopInv == \A t \in Worker : LoopOf(t)

Types == ShapeInv /\ LoopInv

(* Objects nobody knows yet: of blocks that a thread is still to come to,  *)
(* and of insertions to come.                                              *)
Unknown(o) == /\ \A c \in DOMAIN colls : \A j \in Index : colls[c][j] # o
              /\ \A j \in DOMAIN m.plan : m.plan[j] # o
              /\ \A u \in Worker : w[u].obj # o

Ahead(t) == {b \in w[t].todo : b # Current(t) \/ w[t].pc \notin {"set", "copy", "failed"}}

Coming == {e \in 1..MaxEdits : e > m.edits \/ (e = m.edits /\ m.pc # "idle")}

FreshInv == /\ \A t \in Worker : \A b \in Ahead(t) : Unknown(<<t, b>>)
            /\ \A e \in Coming : Unknown(<<"maintainer", e>>)

(* A copy that has not raced with a bump is one of the object as it is,    *)
(* and each thread that has the object in hand races with its bump.        *)
CopyOf(t) == w[t].pc = "copy" /\ ~w[t].raced =>
               \A f \in DOMAIN w[t].copy : w[t].copy[f] = metas[w[t].obj][f]

RacedOf(t) == m.pc = "bump" /\ w[t].obj = m.plan[m.at - 1] => w[t].raced

CopyInv == \A t \in Worker : CopyOf(t) /\ RacedOf(t)

(***************************************************************************)
(* The blocks that cannot have been deleted so far, and where they are     *)
(* while the collection is rebuilt.                                        *)
(***************************************************************************)
Present == {b \in scene.registered :
              "delete" \in scene.edits => b + m.edits \in scene.registered}

Kept == "remove" \notin scene.edits /\ scene.registered # {}

Safe(b) ==
  /\ m.pc \in {"idle", "bump"} => coll[b - 1] # Null
  /\ m.pc = "below" => /\ b < m.at => coll[b - 1] # Null
                       /\ b > m.at => b - 1 \in DOMAIN m.plan
  /\ m.pc = "clear" => b - 1 \in DOMAIN m.plan \/ (m.op = "insert" /\ b = m.at)
  /\ m.pc = "set" => \/ b - 1 \in DOMAIN m.plan \/ coll[b - 1] # Null
                     \/ m.op = "insert" /\ b = m.at

PresentInv == Kept => known /\ \A b \in Present : Safe(b)

(* A thread that has found or added the file loses it by a removal only,   *)
(* and one that is about to add it is the only one.                        *)
FileOf(t) ==
  /\ w[t].begun.moves <= m.moves
  /\ w[t].pc = "addFile" => /\ scene.role[t] = "tags" /\ t \in scene.early
                            /\ known => m.moves > w[t].begun.moves
  /\ AtBlock(t) /\ ~known => m.moves > w[t].begun.moves

FileInv == \A t \in Worker : FileOf(t)

(* What NoneFails and RegistersNothing say, thread by thread.              *)
FailsOf(t) == w[t].pc = "failed" => \/ m.moves > w[t].begun.moves
                                    \/ /\ scene.role[t] = "challenge"
                                       /\ ~(scene.window[t] \subseteq Lasting)

RegistersOf(t) == w[t].todo \subseteq Lasting => w[t].pc # "getCollection"

(***************************************************************************)
(* As long as there is no edit, what a thread has found, set or copied is  *)
(* what is in the store.                                                   *)
(***************************************************************************)
Calm(t) == w[t].pc = "hasFile" \/ w[t].begun.edits = m.edits

CalmOf(t) ==
  /\ w[t].pc = "hasFile" => \A b \in Block : w[t].made[b] = Null
  /\ w[t].begun.edits <= m.edits
  /\ w[t].pc # "hasFile" /\ Calm(t) => m.pc = "idle"

CalmInv == \A t \in Worker : CalmOf(t)

AllCalm(t, b) == \A u \in {t} \cup Taggers(b) : Calm(u)

MatchOf(t, b) ==
  /\ w[t].made[b] # Null => coll[b - 1] # Null /\ w[t].made[b] = metas[coll[b - 1]]
  /\ AtBlock(t) /\ b = Current(t) =>
       /\ w[t].pc = "copy" => coll[b - 1] = w[t].obj /\ ~w[t].raced
       /\ w[t].pc \in {"getCollection", "set"} => coll[b - 1] = Null /\ ~w[t].raced
       /\ w[t].pc = "set" => w[t].coll = attached

MatchInv == \A t \in Worker : \A b \in scene.window[t] : AllCalm(t, b) => MatchOf(t, b)

(***************************************************************************)
(* How many entries there are, and are still to be set; a rebuild may have *)
(* to set an entry that is there already.                                  *)
(***************************************************************************)
Due == Stored(coll) \cup DOMAIN m.plan

Rebuilding == m.pc # "idle" /\ m.op \in {"insert", "delete"}

CountInv ==
  /\ expected \in Int
  /\ \A i \in Due : i < MaxBlock + m.edits
  /\ m.pc # "idle" => m.op \in {"modify", "insert", "delete"} \cap scene.edits
  /\ m.pc \in {"idle", "bump", "below"} => Cardinality(Stored(coll)) = expected
  /\ m.pc # "idle" /\ m.op = "modify" => DOMAIN m.plan \subseteq Stored(coll)
  /\ m.pc = "below" => DOMAIN m.plan = {j \in Nat : j - 1 \in Stored(coll) /\ j >= m.at}
  /\ m.pc = "clear" =>
       /\ Rebuilding
       /\ Cardinality(DOMAIN m.plan) = IF m.op = "delete" THEN expected - 1 ELSE expected
       /\ m.op = "insert" => m.at - 1 \notin DOMAIN m.plan
  /\ m.pc = "set" =>
       /\ Cardinality(Due) = IF m.op = "delete" THEN expected - 1 ELSE expected
       /\ m.op = "insert" => m.at - 1 \notin Due

SettersInv == Rebuilt(scene) => \A t \in Worker : w[t].pc # "set"

(***************************************************************************)
(* What makes the methods atomic: a thread sets an object that is not in   *)
(* the store nor about to be, and over no entry while blocks are edited;   *)
(* what the maintaining thread has collected is still there; and each      *)
(* block has an object of its own.                                         *)
(***************************************************************************)
Private(o) == /\ \A c \in DOMAIN colls : \A j \in Index : colls[c][j] # o
              /\ \A j \in DOMAIN m.plan : m.plan[j] # o

HandOf(t) ==
  /\ w[t].pc = "set" => Private(w[t].obj) /\ metas[w[t].obj].version = 1
  /\ w[t].pc \in {"getCollection", "set"} /\ Changed(scene) =>
       ~AllLasting(scene) /\ coll[Current(t) - 1] = Null

HandInv == \A t \in Worker : HandOf(t)

PlanInv ==
  /\ m.pc = "below" => \A j \in DOMAIN m.plan : m.plan[j] = coll[j - 1]
  /\ m.pc # "idle" /\ m.op = "modify" =>
       \A j \in DOMAIN m.plan : j = m.at - 1 /\ m.plan[j] = coll[j]

Distinct(c) == \A i, j \in Index : c[i] # Null /\ c[i] = c[j] => i = j

DistinctInv == Distinct(Observed)

-----------------------------------------------------------------------------
(***************************************************************************)
(* Lemmas about the operators.                                             *)
(***************************************************************************)
LEMMA PartialFunDef ==
  ASSUME NEW S, NEW T, NEW f
  PROVE  f \in PartialFun(S, T) <=> DOMAIN f \subseteq S /\ f \in [DOMAIN f -> T]
<1>1. ASSUME f \in PartialFun(S, T) PROVE DOMAIN f \subseteq S /\ f \in [DOMAIN f -> T]
  <2>1. PICK D \in SUBSET S : f \in [D -> T]
    BY <1>1 DEF PartialFun
  <2> QED
    BY <2>1
<1>2. ASSUME DOMAIN f \subseteq S, f \in [DOMAIN f -> T] PROVE f \in PartialFun(S, T)
  BY <1>2 DEF PartialFun
<1> QED
  BY <1>1, <1>2

LEMMA EmptyIsPartial == \A S, T : << >> \in PartialFun(S, T) /\ DOMAIN << >> = {}
<1>1. \A S, T : << >> \in [{} -> T] /\ {} \in SUBSET S
  OBVIOUS
<1>2. DOMAIN << >> = {}
  OBVIOUS
<1> QED
  BY <1>1, <1>2 DEF PartialFun

(* The collection of the file, whatever it is.                             *)
LEMMA CollTypes ==
  ASSUME Types
  PROVE  /\ coll \in [Index -> Obj \cup {Null}] /\ Empty \in [Index -> Obj \cup {Null}]
         /\ Null \notin Obj
         /\ known => attached \in DOMAIN colls /\ coll = colls[attached]
         /\ ~known => coll = Empty
         /\ \A i \in Index : Empty[i] = Null
         /\ \A c \in DOMAIN colls : colls[c] \in [Index -> Obj \cup {Null}]
<1>1. Empty \in [Index -> Obj \cup {Null}] /\ \A i \in Index : Empty[i] = Null
  BY DEF Empty
<1>2. colls \in Seq([Index -> Obj \cup {Null}]) /\ attached \in 0..Len(colls)
  BY DEF Types, ShapeInv
<1>3. known => attached \in DOMAIN colls
  BY <1>2 DEF known
<1> QED
  BY <1>1, <1>2, <1>3, NullAssumption DEF coll

(* The block a thread is at.                                               *)
LEMMA CurrentIn ==
  ASSUME Types, NEW t \in Worker, AtBlock(t)
  PROVE  /\ Current(t) \in w[t].todo /\ Current(t) \in scene.window[t]
         /\ Current(t) \in Block /\ Current(t) - 1 \in Index
         /\ <<t, Current(t)>> \in Obj
<1>1. w[t].todo # {} /\ w[t].todo \subseteq scene.window[t] /\ w[t].todo \subseteq Block
  <2>1. w[t] \in WorkerRec
    BY DEF Types, ShapeInv
  <2> QED
    BY <2>1 DEF Types, LoopInv, LoopOf, WorkerRec
<1>2. Block \subseteq Nat /\ \A b \in Block : b - 1 \in Index
  BY BoundsAssumption DEF Block, Index
<1>3. Min(w[t].todo) \in w[t].todo
  BY <1>1, <1>2, MinOfNaturals
<1> QED
  BY <1>1, <1>2, <1>3 DEF Current, Obj

LEMMA SceneTypes ==
  ASSUME Types
  PROVE  /\ scene \in Scene /\ Meta \subseteq [version : 1..(MaxEdits + 1), timestamp : Nat]
         /\ scene.role \in [Worker -> {"tags", "challenge"}]
         /\ scene.window \in [Worker -> SUBSET Block]
         /\ scene.registered \subseteq Block /\ scene.early \subseteq Worker
         /\ scene.times \subseteq Nat /\ Null \notin Meta
<1>1. scene \in Scene
  BY ScenesAssumption DEF Types, ShapeInv
<1>2. scene.times \subseteq Nat
  BY <1>1 DEF Scene
<1>3. Meta \subseteq [version : 1..(MaxEdits + 1), timestamp : Nat]
  BY <1>2 DEF Meta
<1> QED
  BY <1>1, <1>2, <1>3, NullAssumption DEF Scene

(* A thread that does not move keeps its part of the invariant.            *)
LEMMA LoopFrame ==
  ASSUME NEW t \in Worker, LoopOf(t), w'[t] = w[t], scene' = scene,
         DOMAIN colls \subseteq DOMAIN colls'
  PROVE  LoopOf(t)'
BY DEF LoopOf, AtBlock, Current

-----------------------------------------------------------------------------
(***************************************************************************)
(* The shape of the state is kept: each worker step, then each edit.       *)
(***************************************************************************)
LEMMA InitTypes == CInit => Types
<1> SUFFICES ASSUME CInit PROVE Types
  OBVIOUS
<1>1. scene \in Scenes /\ scene \in Scene
  BY ScenesAssumption DEF CInit
<1>2. Holding("prepared") \in [Index -> Obj \cup {Null}]
  <2>1. scene.registered \subseteq Block
    BY <1>1 DEF Scene
  <2> QED
    BY <2>1 DEF Holding, Obj
<1>3. colls \in Seq([Index -> Obj \cup {Null}]) /\ attached \in 0..Len(colls)
  <2> DEFINE c == Holding("prepared")
  <2>1. << >> \in Seq([Index -> Obj \cup {Null}]) /\ Len(<< >>) = 0
    OBVIOUS
  <2>2. <<c>> \in Seq([Index -> Obj \cup {Null}]) /\ Len(<<c>>) = 1
    BY <1>2
  <2>3. \/ attached = 0 /\ colls = << >>
        \/ attached = 1 /\ colls = <<c>>
    BY DEF CInit
  <2> HIDE DEF c
  <2>4. CASE attached = 0 /\ colls = << >>
    BY <2>1, <2>4
  <2>5. CASE attached = 1 /\ colls = <<c>>
    BY <2>2, <2>5
  <2> QED
    BY <2>3, <2>4, <2>5
<1>4. /\ metas \in [Obj -> Meta]
      /\ \A o \in Obj : metas[o].version = 1
  BY BoundsAssumption DEF CInit, Meta
<1>5. /\ m = [op |-> "none", pc |-> "idle", at |-> 0, edits |-> 0, moves |-> 0, plan |-> << >>]
      /\ m \in MaintainerRec
  BY EmptyIsPartial, BoundsAssumption DEF CInit, MaintainerRec
<1>6. Seen \in [edits : 0..MaxEdits, moves : Nat]
  BY <1>5, BoundsAssumption DEF Seen
<1>7. ASSUME NEW t \in Worker
      PROVE  w[t] \in WorkerRec /\ LoopOf(t)
  <2>1. w[t] = [pc |-> "hasFile", todo |-> scene.window[t], obj |-> Null, coll |-> 0,
                copy |-> << >>, raced |-> FALSE, begun |-> Seen,
                made |-> [b \in Block |-> Null]]
    BY DEF CInit
  <2>2. scene.window[t] \subseteq Block
    BY <1>1 DEF Scene
  <2> QED
    BY <1>6, <2>1, <2>2, EmptyIsPartial DEF WorkerRec, LoopOf, AtBlock
<1>8. w \in [Worker -> WorkerRec]
  <2>1. w = [t \in Worker |-> w[t]]
    BY DEF CInit
  <2> QED
    BY <1>7, <2>1
<1>9. ShapeInv
  <2>1. mutex = FALSE /\ m.pc = "idle" /\ m.edits = 0
    BY <1>5 DEF CInit
  <2>2. \A o \in Obj : metas[o].version <= m.edits + 1
    BY <1>4, <2>1
  <2> QED
    BY <1>1, <1>3, <1>4, <1>5, <1>8, <2>1, <2>2 DEF ShapeInv
<1> QED
  BY <1>7, <1>9 DEF Types, LoopInv

(* What is left to show of a worker step.                                  *)
LEMMA WorkerTypes ==
  ASSUME Types, NEW t \in Worker, UNCHANGED <<scene, mutex, m>>,
         metas' \in [Obj -> Meta], \A o \in Obj : metas'[o].version <= m.edits + 1,
         colls' \in Seq([Index -> Obj \cup {Null}]), DOMAIN colls \subseteq DOMAIN colls',
         attached' \in 0..Len(colls'), known => attached' # 0,
         NEW r \in WorkerRec, w' = [w EXCEPT ![t] = r], LoopOf(t)'
  PROVE  Types'
<1>1. w \in [Worker -> WorkerRec] /\ LoopInv /\ ShapeInv
  BY DEF Types, ShapeInv
<1>2. w' \in [Worker -> WorkerRec] /\ \A u \in Worker \ {t} : w'[u] = w[u]
  BY <1>1
<1>3. ShapeInv'
  <2>1. Meta' = Meta /\ WorkerRec' = WorkerRec
    BY DEF Meta, WorkerRec
  <2> QED
    BY <1>1, <1>2, <2>1 DEF ShapeInv, known
<1>4. \A u \in Worker \ {t} : LoopOf(u)'
  BY <1>1, <1>2, LoopFrame DEF LoopInv
<1> QED
  BY <1>3, <1>4 DEF Types, LoopInv

(* What stays typed when only threads move.                                *)
LEMMA StoreTypes ==
  ASSUME Types
  PROVE  /\ w \in [Worker -> WorkerRec] /\ LoopInv /\ m \in MaintainerRec
         /\ metas \in [Obj -> Meta] /\ \A o \in Obj : metas[o].version <= m.edits + 1
         /\ colls \in Seq([Index -> Obj \cup {Null}]) /\ attached \in 0..Len(colls)
         /\ Seen \in [edits : 0..MaxEdits, moves : Nat] /\ m.edits \in Nat
BY BoundsAssumption DEF Types, ShapeInv, Seen, MaintainerRec

LEMMA HasFileTypes == ASSUME Types, NEW t \in Worker, HasFile(t) PROVE Types'
<1> DEFINE r == [w[t] EXCEPT !.pc = IF known THEN NextTarget(w[t].todo)
                                    ELSE IF scene.role[t] = "tags" THEN "addFile" ELSE "done",
                             !.begun = Seen]
<1>1. w' = [w EXCEPT ![t] = r] /\ UNCHANGED <<scene, colls, attached, metas, mutex, m>>
  BY StoreTypes DEF HasFile
<1>2. w[t] \in WorkerRec /\ LoopOf(t) /\ w[t].pc = "hasFile"
  BY StoreTypes DEF HasFile, LoopInv
<1>3. r \in WorkerRec
  BY <1>2, StoreTypes DEF WorkerRec, NextTarget
<1>4. w'[t] = r
  BY <1>1, StoreTypes
<1>5. LoopOf(t)'
  <2>1. /\ r.todo = w[t].todo /\ r.copy = w[t].copy
        /\ r.pc \in {"getMetadata", "addFile", "done"}
        /\ r.pc = "getMetadata" => w[t].todo # {}
    BY <1>2 DEF WorkerRec, NextTarget
  <2> HIDE DEF r
  <2> QED
    BY <1>1, <1>2, <1>4, <2>1 DEF LoopOf, AtBlock, Current
<1> HIDE DEF r
<1> QED
  BY <1>1, <1>3, <1>5, StoreTypes, WorkerTypes DEF known

LEMMA AddFileTypes == ASSUME Types, NEW t \in Worker, AddFile(t) PROVE Types'
<1> DEFINE r == [w[t] EXCEPT !.pc = IF known THEN "failed" ELSE NextTarget(w[t].todo)]
<1>1. w' = [w EXCEPT ![t] = r] /\ UNCHANGED <<scene, metas, mutex, m>>
  BY StoreTypes DEF AddFile
<1>2. w[t] \in WorkerRec /\ LoopOf(t) /\ w[t].pc = "addFile"
  BY StoreTypes DEF AddFile, LoopInv
<1>3. r \in WorkerRec
  BY <1>2 DEF WorkerRec, NextTarget
<1>4. w'[t] = r
  BY <1>1, StoreTypes
<1>5. /\ colls' \in Seq([Index -> Obj \cup {Null}]) /\ DOMAIN colls \subseteq DOMAIN colls'
      /\ attached' \in 0..Len(colls') /\ (known => attached' # 0)
  <2>1. CASE known
    BY <2>1, StoreTypes DEF AddFile, known
  <2>2. CASE ~known
    <3> DEFINE C == [Index -> Obj \cup {Null}]
    <3>1. colls' = Append(colls, Empty) /\ attached' = Len(colls')
      BY <2>2 DEF AddFile
    <3>2. colls \in Seq(C) /\ Empty \in C
      BY StoreTypes, CollTypes
    <3> HIDE DEF C
    <3>3. /\ colls' \in Seq(C) /\ Len(colls') = Len(colls) + 1
      BY <3>1, <3>2
    <3> QED
      BY <2>2, <3>1, <3>2, <3>3 DEF C
  <2> QED
    BY <2>1, <2>2
<1>6. LoopOf(t)'
  <2>1. /\ r.todo = w[t].todo /\ r.copy = w[t].copy
        /\ r.pc \in {"getMetadata", "failed", "done"}
        /\ r.pc = "getMetadata" => w[t].todo # {}
    BY <1>2 DEF WorkerRec, NextTarget
  <2> HIDE DEF r
  <2> QED
    BY <1>1, <1>2, <1>4, <2>1 DEF LoopOf, AtBlock, Current
<1> HIDE DEF r
<1> QED
  BY <1>1, <1>3, <1>5, <1>6, StoreTypes, WorkerTypes

LEMMA GetMetadataTypes == ASSUME Types, NEW t \in Worker, GetMetadata(t) PROVE Types'
<1> DEFINE o == coll[Current(t) - 1]
           r == [w[t] EXCEPT !.pc = IF o # Null THEN "copy"
                                    ELSE IF scene.role[t] = "tags" THEN "getCollection"
                                    ELSE "failed",
                             !.obj = o, !.raced = FALSE]
<1>1. w' = [w EXCEPT ![t] = r] /\ UNCHANGED <<scene, colls, attached, metas, mutex, m>>
  BY StoreTypes DEF GetMetadata, Found
<1>2. w[t] \in WorkerRec /\ LoopOf(t) /\ w[t].pc = "getMetadata" /\ w[t].todo # {}
  BY StoreTypes DEF GetMetadata, LoopInv, LoopOf, AtBlock
<1>3. o \in Obj \cup {Null}
  BY <1>2, CurrentIn, CollTypes DEF AtBlock
<1> HIDE DEF o
<1>4. r \in WorkerRec
  BY <1>2, <1>3 DEF WorkerRec
<1>5. w'[t] = r
  BY <1>1, StoreTypes
<1>6. LoopOf(t)'
  <2>1. /\ r.todo = w[t].todo /\ r.copy = w[t].copy /\ r.obj = o
        /\ r.pc \in {"copy", "getCollection", "failed"}
        /\ r.pc = "copy" => o # Null
        /\ r.pc = "getCollection" => scene.role[t] = "tags"
    BY <1>2 DEF WorkerRec
  <2> HIDE DEF r
  <2> QED
    BY <1>1, <1>2, <1>3, <1>5, <2>1 DEF LoopOf, AtBlock, Current
<1> HIDE DEF r
<1> QED
  BY <1>1, <1>4, <1>6, StoreTypes, WorkerTypes DEF known

LEMMA FreshMetaTypes ==
  ASSUME Types, NEW o \in Obj, FreshMeta(o)
  PROVE  /\ metas' \in [Obj -> Meta] /\ \A p \in Obj : metas'[p].version <= m.edits + 1
         /\ \A p \in Obj \ {o} : metas'[p] = metas[p]
<1>1. PICK now \in scene.times : metas' = [metas EXCEPT ![o] = [version |-> 1, timestamp |-> now]]
  BY DEF FreshMeta
<1>2. [version |-> 1, timestamp |-> now] \in Meta
  BY BoundsAssumption DEF Meta
<1> QED
  BY <1>1, <1>2, StoreTypes

LEMMA GetCollectionTypes == ASSUME Types, NEW t \in Worker, GetCollection(t) PROVE Types'
<1> DEFINE r == [w[t] EXCEPT !.pc = IF known THEN "set" ELSE "failed",
                             !.obj = <<t, Current(t)>>, !.coll = attached]
<1>1. w' = [w EXCEPT ![t] = r] /\ UNCHANGED <<scene, colls, attached, mutex, m>>
  BY StoreTypes DEF GetCollection
<1>2. /\ w[t] \in WorkerRec /\ LoopOf(t) /\ w[t].pc = "getCollection" /\ AtBlock(t)
      /\ w[t].todo # {} /\ scene.role[t] = "tags"
  BY StoreTypes DEF GetCollection, LoopInv, LoopOf, AtBlock
<1>3. <<t, Current(t)>> \in Obj
  BY <1>2, CurrentIn
<1>4. /\ metas' \in [Obj -> Meta] /\ \A p \in Obj : metas'[p].version <= m.edits + 1
  BY <1>3, FreshMetaTypes DEF GetCollection
<1>5. attached \in Nat /\ (known => attached \in DOMAIN colls)
  BY StoreTypes, CollTypes
<1>6. r \in WorkerRec
  BY <1>2, <1>3, <1>5 DEF WorkerRec
<1>7. w'[t] = r
  BY <1>1, StoreTypes
<1>8. LoopOf(t)'
  <2>1. /\ r.todo = w[t].todo /\ r.copy = w[t].copy /\ r.obj = <<t, Current(t)>>
        /\ r.pc \in {"set", "failed"} /\ r.coll = attached
        /\ r.pc = "set" => known
    BY <1>2 DEF WorkerRec
  <2> HIDE DEF r
  <2> QED
    BY <1>1, <1>2, <1>5, <1>7, <2>1 DEF LoopOf, AtBlock, Current
<1> HIDE DEF r
<1> QED
  BY <1>1, <1>4, <1>6, <1>8, StoreTypes, WorkerTypes DEF known

(* Setting an entry of one of the collections.                             *)
LEMMA SetTypes ==
  ASSUME Types, NEW c \in DOMAIN colls, NEW j, NEW o \in Obj
  PROVE  /\ [colls EXCEPT ![c][j] = o] \in Seq([Index -> Obj \cup {Null}])
         /\ DOMAIN [colls EXCEPT ![c][j] = o] = DOMAIN colls
         /\ Len([colls EXCEPT ![c][j] = o]) = Len(colls)
<1>1. [colls[c] EXCEPT ![j] = o] \in [Index -> Obj \cup {Null}]
  BY CollTypes
<1> QED
  BY <1>1, StoreTypes

LEMMA SetEntryTypes == ASSUME Types, NEW t \in Worker, SetEntry(t) PROVE Types'
<1> DEFINE r == [w[t] EXCEPT !.pc = "copy"]
<1>1. w' = [w EXCEPT ![t] = r] /\ UNCHANGED <<scene, attached, metas, mutex, m>>
  BY StoreTypes DEF SetEntry
<1>2. /\ w[t] \in WorkerRec /\ LoopOf(t) /\ w[t].pc = "set" /\ AtBlock(t)
      /\ w[t].todo # {} /\ scene.role[t] = "tags" /\ w[t].coll \in DOMAIN colls
      /\ w[t].obj = <<t, Current(t)>>
  BY StoreTypes DEF SetEntry, LoopInv, LoopOf, AtBlock
<1>3. w[t].obj \in Obj
  BY <1>2, CurrentIn
<1>4. /\ colls' \in Seq([Index -> Obj \cup {Null}]) /\ DOMAIN colls = DOMAIN colls'
      /\ Len(colls) = Len(colls')
  BY <1>2, <1>3, SetTypes DEF SetEntry
<1>5. r \in WorkerRec
  BY <1>2 DEF WorkerRec
<1>6. w'[t] = r
  BY <1>1, StoreTypes
<1>7. LoopOf(t)'
  <2>1. r.todo = w[t].todo /\ r.copy = w[t].copy /\ r.obj = w[t].obj /\ r.pc = "copy"
    BY <1>2 DEF WorkerRec
  <2> HIDE DEF r
  <2> QED
    BY <1>1, <1>2, <1>3, <1>6, <2>1 DEF LoopOf, AtBlock, Current
<1> HIDE DEF r
<1> QED
  BY <1>1, <1>4, <1>5, <1>7, StoreTypes, WorkerTypes DEF known

(* The copy that a thread has after it has read field f.                   *)
Copied(t, f) == Override([g \in {f} |-> metas[w[t].obj][f]], w[t].copy)

LEMMA CopiedTypes ==
  ASSUME Types, NEW t \in Worker, w[t].pc = "copy", NEW f \in Field \ DOMAIN w[t].copy
  PROVE  /\ w[t].obj \in Obj
         /\ DOMAIN Copied(t, f) = DOMAIN w[t].copy \cup {f}
         /\ Copied(t, f)[f] = metas[w[t].obj][f]
         /\ \A g \in DOMAIN w[t].copy : Copied(t, f)[g] = w[t].copy[g]
         /\ Copied(t, f) \in PartialFun(Field, Nat)
         /\ "version" \in DOMAIN Copied(t, f) => Copied(t, f)["version"] \in 1..(MaxEdits + 1)
         /\ "timestamp" \in DOMAIN Copied(t, f) => Copied(t, f)["timestamp"] \in scene.times
         /\ DOMAIN Copied(t, f) = Field => Copied(t, f) \in Meta
<1> DEFINE c == Copied(t, f)
           o == w[t].obj
<1>1. w[t] \in WorkerRec /\ LoopOf(t)
  BY StoreTypes DEF LoopInv
<1>2. o \in Obj /\ metas[o] \in Meta
  BY <1>1, StoreTypes DEF LoopOf
<1>3. metas[o]["version"] \in 1..(MaxEdits + 1) /\ metas[o]["timestamp"] \in scene.times
  BY <1>2 DEF Meta
<1>4. DOMAIN w[t].copy \subseteq Field /\ w[t].copy \in [DOMAIN w[t].copy -> Nat]
  BY <1>1, PartialFunDef DEF WorkerRec
<1>5. /\ DOMAIN c = DOMAIN w[t].copy \cup {f} /\ c[f] = metas[o][f]
      /\ \A g \in DOMAIN w[t].copy : c[g] = w[t].copy[g]
      /\ c \in [DOMAIN c -> Nat]
  <2>1. metas[o][f] \in Nat
    BY <1>3, SceneTypes DEF Field
  <2> QED
    BY <1>4, <2>1 DEF Copied, Override
<1>6. c \in PartialFun(Field, Nat)
  <2>1. DOMAIN c \subseteq Field
    BY <1>4, <1>5
  <2> HIDE DEF c
  <2> QED
    BY <1>5, <2>1, PartialFunDef
<1>7. /\ "version" \in DOMAIN c => c["version"] \in 1..(MaxEdits + 1)
      /\ "timestamp" \in DOMAIN c => c["timestamp"] \in scene.times
  <2> HIDE DEF c
  <2> QED
    BY <1>1, <1>3, <1>5 DEF LoopOf, Field
<1>8. DOMAIN c = Field => c \in Meta
  <2> HIDE DEF c
  <2> QED
    BY <1>5, <1>7 DEF Field, Meta
<1> QED
  BY <1>2, <1>5, <1>6, <1>7, <1>8

LEMMA CopyFieldTypes == ASSUME Types, NEW t \in Worker, CopyField(t) PROVE Types'
<1>1. PICK f \in Field \ DOMAIN w[t].copy :
        w' = IF DOMAIN Copied(t, f) # Field
             THEN [w EXCEPT ![t].copy = Copied(t, f)]
             ELSE [w EXCEPT ![t].copy = << >>, ![t].made[Current(t)] = Copied(t, f),
                            ![t].pc = NextTarget(w[t].todo \ {Current(t)}),
                            ![t].todo = w[t].todo \ {Current(t)}]
  BY DEF CopyField, Copied
<1>2. /\ w[t] \in WorkerRec /\ LoopOf(t) /\ w[t].pc = "copy" /\ AtBlock(t)
      /\ UNCHANGED <<scene, colls, attached, metas, mutex, m>>
  BY StoreTypes DEF CopyField, LoopInv, AtBlock
<1> DEFINE c == Copied(t, f)
<1>3. /\ w[t].obj \in Obj /\ c \in PartialFun(Field, Nat)
      /\ "version" \in DOMAIN c => c["version"] \in 1..(MaxEdits + 1)
      /\ "timestamp" \in DOMAIN c => c["timestamp"] \in scene.times
      /\ DOMAIN c = Field => c \in Meta
  BY <1>2, CopiedTypes
<1> HIDE DEF c
<1>4. ASSUME DOMAIN c # Field PROVE Types'
  <2> DEFINE r == [w[t] EXCEPT !.copy = c]
  <2>1. w' = [w EXCEPT ![t] = r]
    BY <1>1, <1>4, StoreTypes DEF c
  <2>2. r \in WorkerRec
    BY <1>2, <1>3 DEF WorkerRec
  <2>3. w'[t] = r
    BY <2>1, StoreTypes
  <2>4. LoopOf(t)'
    <3>1. r.todo = w[t].todo /\ r.copy = c /\ r.obj = w[t].obj /\ r.pc = "copy"
      BY <1>2 DEF WorkerRec
    <3> HIDE DEF r
    <3> QED
      BY <1>2, <1>3, <2>3, <3>1 DEF LoopOf, AtBlock, Current
  <2> HIDE DEF r
  <2> QED
    BY <1>2, <2>1, <2>2, <2>4, StoreTypes, WorkerTypes DEF known
<1>5. ASSUME DOMAIN c = Field PROVE Types'
  <2> DEFINE rest == w[t].todo \ {Current(t)}
             r == [w[t] EXCEPT !.copy = << >>, !.made[Current(t)] = c,
                               !.pc = NextTarget(rest), !.todo = rest]
  <2>1. w' = [w EXCEPT ![t] = r]
    <3>1. w' = [w EXCEPT ![t].copy = << >>, ![t].made[Current(t)] = c,
                         ![t].pc = NextTarget(rest), ![t].todo = rest]
      BY <1>1, <1>5 DEF c
    <3>2. w \in [Worker -> WorkerRec]
      BY StoreTypes
    <3> HIDE DEF rest
    <3> QED
      BY <3>1, <3>2
  <2>2. r \in WorkerRec
    <3>1. c \in Meta /\ << >> \in PartialFun(Field, Nat)
      BY <1>3, <1>5, EmptyIsPartial
    <3>2. w[t].made \in [Block -> Meta \cup {Null}] /\ rest \subseteq Block
      BY <1>2 DEF WorkerRec
    <3>3. [w[t].made EXCEPT ![Current(t)] = c] \in [Block -> Meta \cup {Null}]
      BY <3>1, <3>2
    <3>4. NextTarget(rest) \in {"getMetadata", "done"}
      BY DEF NextTarget
    <3> HIDE DEF rest
    <3> QED
      BY <1>2, <3>1, <3>2, <3>3, <3>4 DEF WorkerRec
  <2>3. w'[t] = r
    BY <2>1, StoreTypes
  <2>4. LoopOf(t)'
    <3>1. /\ r.todo = rest /\ DOMAIN r.copy = {} /\ r.pc \in {"getMetadata", "done"}
          /\ r.pc = "getMetadata" => rest # {}
      BY <1>2, EmptyIsPartial DEF WorkerRec, NextTarget
    <3>2. rest \subseteq scene.window[t]
      BY <1>2 DEF LoopOf
    <3> HIDE DEF r, rest
    <3> QED
      BY <1>2, <2>3, <3>1, <3>2 DEF LoopOf, AtBlock, Current
  <2> HIDE DEF r
  <2> QED
    BY <1>2, <2>1, <2>2, <2>4, StoreTypes, WorkerTypes DEF known
<1> QED
  BY <1>4, <1>5

(* What is left to show of a step of the maintaining thread.               *)
LEMMA EditTypes ==
  ASSUME Types, scene' = scene, mutex' \in BOOLEAN, m' \in MaintainerRec,
         metas' \in [Obj -> Meta], \A o \in Obj : metas'[o].version <= m'.edits + 1,
         colls' \in Seq([Index -> Obj \cup {Null}]), DOMAIN colls \subseteq DOMAIN colls',
         attached' \in 0..Len(colls'),
         mutex' <=> m'.pc # "idle",
         mutex' => attached' # 0 /\ m'.at \in Block /\ m'.edits > 0,
         m'.pc = "bump" => m'.op = "modify" /\ DOMAIN m'.plan = {m'.at - 1},
         m'.pc = "below" => m'.op = "insert",
         w' = w
  PROVE  Types'
<1>1. w \in [Worker -> WorkerRec] /\ LoopInv /\ ShapeInv
  BY DEF Types, ShapeInv
<1>2. Meta' = Meta /\ WorkerRec' = WorkerRec
  BY DEF Meta, WorkerRec
<1>3. ShapeInv'
  BY <1>1, <1>2 DEF ShapeInv, known
<1>4. LoopInv'
  BY <1>1, LoopFrame DEF LoopInv
<1> QED
  BY <1>3, <1>4 DEF Types

(* The call of a method of the store that takes several steps.             *)
LEMMA BeginTypes ==
  ASSUME Types, NEW o, o \in {"modify", "insert", "delete"},
         NEW pc, pc \in {"bump", "below", "clear", "set"},
         NEW b, b \in Block, NEW plan, plan \in PartialFun(Nat, Obj), Begin(o, pc, b, plan)
  PROVE  /\ m' \in MaintainerRec /\ mutex' = TRUE /\ known /\ m.pc = "idle" /\ ~mutex
         /\ o \in scene.edits
         /\ m'.op = o /\ m'.pc = pc /\ m'.at = b /\ m'.plan = plan
         /\ m'.edits = m.edits + 1 /\ m'.moves = m.moves
<1>1. /\ m \in MaintainerRec /\ m.edits < MaxEdits /\ m.pc = "idle" /\ known /\ ~mutex
      /\ mutex' = TRUE /\ o \in scene.edits
      /\ m' = [m EXCEPT !.op = o, !.pc = pc, !.at = b, !.edits = @ + 1, !.plan = plan]
  BY StoreTypes DEF Begin, MayEdit
<1>2. b \in 0..MaxBlock /\ m.edits + 1 \in 0..MaxEdits
  BY <1>1, BoundsAssumption DEF Block, MaintainerRec
<1> QED
  BY <1>1, <1>2 DEF MaintainerRec

LEMMA BumpVersionTypes == ASSUME Types, NEW b \in Block, BumpVersion(b) PROVE Types'
<1> DEFINE o == coll[b - 1]
           plan == [j \in {b - 1} |-> o]
<1>1. /\ o # Null /\ Begin("modify", "bump", b, plan) /\ UNCHANGED <<scene, colls, attached>>
      /\ metas' = [metas EXCEPT ![o].version = @ + 1]
      /\ w' = [t \in Worker |-> IF w[t].obj = o THEN [w[t] EXCEPT !.raced = TRUE] ELSE w[t]]
  BY DEF BumpVersion
<1>2. o \in Obj /\ b - 1 \in Nat /\ b - 1 \in Index
  <2>1. b - 1 \in Index /\ b - 1 \in Nat
    BY BoundsAssumption DEF Block, Index
  <2> QED
    BY <1>1, <2>1, CollTypes
<1>3. DOMAIN plan = {b - 1} /\ plan \in PartialFun(Nat, Obj)
  <2>1. DOMAIN plan = {b - 1} /\ plan \in [{b - 1} -> Obj]
    BY <1>2
  <2> HIDE DEF plan
  <2> QED
    BY <1>2, <2>1, PartialFunDef
<1> HIDE DEF plan
<1>4. /\ m' \in MaintainerRec /\ mutex' = TRUE /\ known
      /\ m'.op = "modify" /\ m'.pc = "bump" /\ m'.at = b /\ m'.plan = plan
      /\ m'.edits = m.edits + 1
  BY <1>1, <1>3, BeginTypes
<1> HIDE DEF o
<1>5. /\ metas' \in [Obj -> Meta] /\ \A p \in Obj : metas'[p].version <= m'.edits + 1
  <2>1. metas[o].version + 1 \in 1..(MaxEdits + 1) /\ metas[o].version + 1 <= m'.edits + 1
    <3>1. metas[o].version \in Nat /\ metas[o].version >= 1 /\ metas[o].version <= m.edits + 1
      BY <1>2, StoreTypes DEF Meta
    <3>2. m.edits \in Nat /\ m.edits + 1 <= MaxEdits
      BY <1>1, BoundsAssumption, StoreTypes DEF Begin, MayEdit
    <3> QED
      BY <1>4, <3>1, <3>2, BoundsAssumption
  <2>2. [metas[o] EXCEPT !.version = @ + 1] \in Meta
    BY <1>2, <2>1, StoreTypes DEF Meta
  <2>3. \A p \in Obj : metas[p].version \in Int /\ metas[p].version <= m.edits + 1
    BY StoreTypes DEF Meta
  <2>4. [metas[o] EXCEPT !.version = @ + 1].version = metas[o].version + 1
    BY <1>2, StoreTypes DEF Meta
  <2>5. metas' = [metas EXCEPT ![o] = [metas[o] EXCEPT !.version = @ + 1]]
    BY <1>1, StoreTypes
  <2>6. \A p \in Obj : metas'[p] = IF p = o THEN [metas[o] EXCEPT !.version = @ + 1] ELSE metas[p]
    BY <2>5, StoreTypes
  <2>7. metas' \in [Obj -> Meta]
    BY <2>2, <2>5, StoreTypes
  <2>8. ASSUME NEW p \in Obj PROVE metas'[p].version <= m'.edits + 1
    <3>1. CASE p = o
      BY <2>1, <2>4, <2>6, <3>1
    <3>2. CASE p # o
      <4>1. metas'[p] = metas[p] /\ metas[p].version <= m.edits + 1 /\ metas[p].version \in Int
        BY <2>3, <2>6, <3>2
      <4> HIDE DEF o
      <4> QED
        BY <1>4, <4>1, StoreTypes
    <3> QED
      BY <3>1, <3>2
  <2> QED
    BY <2>7, <2>8
<1>6. w' \in [Worker -> WorkerRec] /\ \A t \in Worker : LoopOf(t)'
  <2>1. ASSUME NEW t \in Worker PROVE w'[t] \in WorkerRec /\ LoopOf(t)'
    <3>1. w[t] \in WorkerRec /\ LoopOf(t)
      BY StoreTypes DEF LoopInv
    <3>2. /\ w'[t] \in WorkerRec /\ w'[t].pc = w[t].pc /\ w'[t].todo = w[t].todo
          /\ w'[t].obj = w[t].obj /\ w'[t].coll = w[t].coll /\ w'[t].copy = w[t].copy
      BY <1>1, <3>1 DEF WorkerRec
    <3> QED
      BY <1>1, <3>1, <3>2 DEF LoopOf, AtBlock, Current
  <2> QED
    BY <1>1, <2>1
<1>7. Meta' = Meta /\ WorkerRec' = WorkerRec
  BY <1>1 DEF Meta, WorkerRec
<1>8. ShapeInv'
  <2>1. scene \in Scenes /\ colls \in Seq([Index -> Obj \cup {Null}]) /\ attached \in 0..Len(colls)
    BY DEF Types, ShapeInv
  <2>2. known' /\ m'.edits > 0 /\ DOMAIN m'.plan = {m'.at - 1}
    BY <1>1, <1>3, <1>4, StoreTypes DEF known
  <2> QED
    BY <1>1, <1>4, <1>5, <1>6, <1>7, <2>1, <2>2 DEF ShapeInv
<1> QED
  BY <1>6, <1>8 DEF Types, LoopInv

LEMMA CollectShiftedTypes == ASSUME Types, NEW b \in Block, CollectShifted(b) PROVE Types'
<1> DEFINE shifted == [j \in {i + 1 : i \in Stored(coll) \cap (b - 1)..SizeMax} |-> coll[j - 1]]
           pc == IF shifted = << >> THEN "set" ELSE "below"
<1>1. Begin("insert", pc, b, shifted) /\ UNCHANGED <<scene, colls, attached, metas, w>>
  BY DEF CollectShifted
<1>2. shifted \in PartialFun(Nat, Obj)
  <2>1. \A j \in DOMAIN shifted : j \in Nat /\ j - 1 \in Stored(coll)
    BY BoundsAssumption DEF Stored, Index
  <2>2. \A i \in Stored(coll) : coll[i] \in Obj
    BY CollTypes DEF Stored
  <2>3. DOMAIN shifted \subseteq Nat /\ shifted \in [DOMAIN shifted -> Obj]
    BY <2>1, <2>2
  <2> HIDE DEF shifted
  <2> QED
    BY <2>3, PartialFunDef
<1>3. pc \in {"set", "below"}
  OBVIOUS
<1> HIDE DEF shifted, pc
<1>4. /\ m' \in MaintainerRec /\ mutex' = TRUE /\ known
      /\ m'.op = "insert" /\ m'.pc = pc /\ m'.at = b /\ m'.edits = m.edits + 1
  BY <1>1, <1>2, <1>3, BeginTypes
<1>5. \A o \in Obj : metas[o].version <= m.edits + 2
  <2>1. \A o \in Obj : metas[o].version \in Int
    BY StoreTypes DEF Meta
  <2> QED
    BY <2>1, StoreTypes
<1> QED
  BY <1>1, <1>3, <1>4, <1>5, StoreTypes, EditTypes DEF known

LEMMA CollectDeleteTypes == ASSUME Types, NEW b \in Block, CollectDelete(b) PROVE Types'
<1> DEFINE rest == DeleteEntry(coll, b - 1)
           plan == Restrict(rest, Stored(rest))
<1>1. Begin("delete", "clear", b, plan) /\ UNCHANGED <<scene, colls, attached, metas, w>>
  BY DEF CollectDelete
<1>2. plan \in PartialFun(Nat, Obj)
  <2>1. rest \in [Index -> Obj \cup {Null}]
    BY CollTypes, BoundsAssumption DEF DeleteEntry, Index, Block
  <2>2. DOMAIN plan = Stored(rest) /\ \A j \in DOMAIN plan : j \in Index /\ plan[j] = rest[j]
    BY DEF Restrict, Stored
  <2>3. plan = [j \in DOMAIN plan |-> rest[j]]
    BY <2>2 DEF Restrict
  <2> HIDE DEF plan, rest
  <2>4. \A j \in DOMAIN plan : j \in Nat /\ rest[j] \in Obj
    BY <2>1, <2>2 DEF Stored, Index
  <2>5. DOMAIN plan \subseteq Nat /\ plan \in [DOMAIN plan -> Obj]
    BY <2>3, <2>4
  <2> QED
    BY <2>5, PartialFunDef
<1> HIDE DEF plan, rest
<1>4. /\ m' \in MaintainerRec /\ mutex' = TRUE /\ known
      /\ m'.op = "delete" /\ m'.pc = "clear" /\ m'.at = b /\ m'.edits = m.edits + 1
  BY <1>1, <1>2, BeginTypes
<1>5. \A o \in Obj : metas[o].version <= m.edits + 2
  <2>1. \A o \in Obj : metas[o].version \in Int
    BY StoreTypes DEF Meta
  <2> QED
    BY <2>1, StoreTypes
<1> QED
  BY <1>1, <1>4, <1>5, StoreTypes, EditTypes DEF known

LEMMA ReattachTypes ==
  ASSUME Types, NEW o, o \in {"remove", "add", "load"},
         NEW c, c \in [Index -> Obj \cup {Null}] \cup {Null}, Reattach(o, c)
  PROVE  Types'
<1>1. /\ m \in MaintainerRec /\ m.edits < MaxEdits /\ m.pc = "idle" /\ ~mutex
      /\ m' = [m EXCEPT !.op = o, !.edits = @ + 1, !.moves = @ + 1]
      /\ UNCHANGED <<scene, metas, mutex, w>> /\ mutex = FALSE
  BY StoreTypes DEF Reattach, MayEdit, Types, ShapeInv
<1>2. m' \in MaintainerRec /\ m'.pc = "idle" /\ m'.edits = m.edits + 1
  <2>1. m.edits + 1 \in 0..MaxEdits /\ m.moves + 1 \in Nat
    BY <1>1, BoundsAssumption DEF MaintainerRec
  <2> QED
    BY <1>1, <2>1 DEF MaintainerRec
<1>3. \A p \in Obj : metas[p].version <= m'.edits + 1
  <2>1. \A p \in Obj : metas[p].version \in Int
    BY StoreTypes DEF Meta
  <2> QED
    BY <1>2, <2>1, StoreTypes
<1>4. /\ colls' \in Seq([Index -> Obj \cup {Null}]) /\ DOMAIN colls \subseteq DOMAIN colls'
      /\ attached' \in 0..Len(colls')
  <2> DEFINE C == [Index -> Obj \cup {Null}]
  <2>1. CASE c = Null
    BY <2>1, StoreTypes DEF Reattach
  <2>2. CASE c # Null
    <3>1. c \in C /\ colls \in Seq(C)
      BY <2>2, StoreTypes
    <3>2. colls' = Append(colls, c) /\ attached' = Len(colls')
      BY <2>2 DEF Reattach
    <3> HIDE DEF C
    <3>3. colls' \in Seq(C) /\ Len(colls') = Len(colls) + 1
      BY <3>1, <3>2
    <3> QED
      BY <3>1, <3>2, <3>3 DEF C
  <2> QED
    BY <2>1, <2>2
<1> QED
  BY <1>1, <1>2, <1>3, <1>4, StoreTypes, EditTypes

LEMMA HoldingTypes ==
  ASSUME Types, NEW who, who \in {"prepared", "loaded"}
  PROVE  /\ Holding(who) \in [Index -> Obj \cup {Null}]
         /\ \A i \in Index : Holding(who)[i] = IF i + 1 \in scene.registered
                                               THEN <<who, i + 1>> ELSE Null
BY SceneTypes DEF Holding, Obj

LEMMA BumpTimestampTypes == ASSUME Types, BumpTimestamp PROVE Types'
<1> DEFINE o == m.plan[m.at - 1]
<1>1. /\ m.pc = "bump" /\ m \in MaintainerRec /\ m' = [m EXCEPT !.pc = "set"]
      /\ UNCHANGED <<scene, colls, attached, mutex, w>>
  BY StoreTypes DEF BumpTimestamp
<1>2. PICK now \in scene.times : metas' = [metas EXCEPT ![o].timestamp = now]
  BY DEF BumpTimestamp
<1>3. o \in Obj
  <2>1. m.plan \in [DOMAIN m.plan -> Obj] /\ DOMAIN m.plan = {m.at - 1}
    BY <1>1, PartialFunDef DEF MaintainerRec, Types, ShapeInv
  <2> QED
    BY <2>1
<1> HIDE DEF o
<1>4. /\ metas' \in [Obj -> Meta] /\ \A p \in Obj : metas'[p].version = metas[p].version
  <2>1. [metas[o] EXCEPT !.timestamp = now] \in Meta
    BY <1>3, StoreTypes DEF Meta
  <2>2. [metas[o] EXCEPT !.timestamp = now].version = metas[o].version
    BY <1>3, StoreTypes DEF Meta
  <2>3. metas' = [metas EXCEPT ![o] = [metas[o] EXCEPT !.timestamp = now]]
    BY <1>2, StoreTypes
  <2> QED
    BY <2>1, <2>2, <2>3, StoreTypes
<1>5. m' \in MaintainerRec /\ m'.pc = "set" /\ m'.edits = m.edits /\ m'.at = m.at
  BY <1>1 DEF MaintainerRec
<1>6. mutex \in BOOLEAN /\ mutex /\ known /\ m.at \in Block /\ m.edits > 0
  BY <1>1 DEF Types, ShapeInv
<1>7. mutex' \in BOOLEAN /\ (mutex' <=> m'.pc # "idle")
  BY <1>1, <1>5, <1>6
<1> QED
  BY <1>1, <1>4, <1>5, <1>6, <1>7, StoreTypes, EditTypes DEF known

(* Steps that only change what is to be set, or go on to the next phase.   *)
LEMMA PlanTypes ==
  ASSUME Types, NEW pc, pc \in {"clear", "set"}, NEW plan, plan \in PartialFun(Nat, Obj),
         m.pc # "idle", m' = [m EXCEPT !.pc = pc, !.plan = plan],
         colls' \in Seq([Index -> Obj \cup {Null}]), DOMAIN colls' = DOMAIN colls,
         UNCHANGED <<scene, attached, metas, mutex, w>>
  PROVE  Types'
<1>1. m' \in MaintainerRec /\ m'.pc = pc /\ m'.edits = m.edits /\ m'.at = m.at
  BY StoreTypes DEF MaintainerRec
<1>2. mutex \in BOOLEAN /\ mutex /\ known /\ m.at \in Block /\ m.edits > 0
  BY DEF Types, ShapeInv
<1>3. Len(colls') = Len(colls)
  BY StoreTypes
<1>4. mutex' \in BOOLEAN /\ (mutex' <=> m'.pc # "idle")
  BY <1>1, <1>2
<1> QED
  BY <1>1, <1>2, <1>3, <1>4, StoreTypes, EditTypes DEF known

LEMMA PlanIs ==
  ASSUME Types
  PROVE  DOMAIN m.plan \subseteq Nat /\ m.plan \in [DOMAIN m.plan -> Obj]
BY StoreTypes, PartialFunDef DEF MaintainerRec

LEMMA BelowPlan ==
  ASSUME Types
  PROVE  /\ DOMAIN Override(m.plan, Entries(0..(m.at - 2))) =
              DOMAIN m.plan \cup (Stored(coll) \cap 0..(m.at - 2))
         /\ Override(m.plan, Entries(0..(m.at - 2))) \in PartialFun(Nat, Obj)
<1> DEFINE e == Entries(0..(m.at - 2))
           p == Override(m.plan, e)
<1>1. DOMAIN e = Stored(coll) \cap 0..(m.at - 2) /\ \A i \in DOMAIN e : e[i] = coll[i]
  BY DEF Entries, Restrict
<1>2. \A i \in DOMAIN e : i \in Nat /\ coll[i] \in Obj
  BY <1>1, CollTypes DEF Stored, Index
<1> HIDE DEF e
<1>3. DOMAIN p = DOMAIN m.plan \cup DOMAIN e /\ p \in [DOMAIN p -> Obj] /\ DOMAIN p \subseteq Nat
  BY <1>1, <1>2, PlanIs DEF Override
<1> HIDE DEF p
<1>4. p \in PartialFun(Nat, Obj)
  BY <1>3, PartialFunDef
<1> QED
  BY <1>1, <1>3, <1>4 DEF p, e

LEMMA CollectBelowTypes == ASSUME Types, CollectBelow PROVE Types'
<1> DEFINE plan == Override(m.plan, Entries(0..(m.at - 2)))
<1>1. /\ m' = [m EXCEPT !.pc = "clear", !.plan = plan] /\ m.pc # "idle"
      /\ UNCHANGED <<scene, colls, attached, metas, mutex, w>>
  BY DEF CollectBelow
<1>2. plan \in PartialFun(Nat, Obj)
  BY BelowPlan
<1> HIDE DEF plan
<1> QED
  BY <1>1, <1>2, StoreTypes, PlanTypes

LEMMA ClearTypes == ASSUME Types, Clear PROVE Types'
<1>1. /\ m' = [m EXCEPT !.pc = "set"] /\ m.pc # "idle" /\ m \in MaintainerRec
      /\ UNCHANGED <<scene, attached, metas, mutex, w>>
      /\ colls' = [colls EXCEPT ![attached] = Empty]
  BY StoreTypes DEF Clear
<1>2. m' = [m EXCEPT !.pc = "set", !.plan = m.plan] /\ m.plan \in PartialFun(Nat, Obj)
  BY <1>1 DEF MaintainerRec
<1>3. known /\ attached \in DOMAIN colls
  BY <1>1, CollTypes DEF Types, ShapeInv
<1>4. colls' \in Seq([Index -> Obj \cup {Null}]) /\ DOMAIN colls' = DOMAIN colls
  BY <1>1, <1>3, StoreTypes, CollTypes
<1> QED
  BY <1>1, <1>2, <1>4, PlanTypes

(* The next entry that is to be set.                                       *)
LEMMA NextInPlan ==
  ASSUME Types, m.plan # << >>
  PROVE  Min(DOMAIN m.plan) \in DOMAIN m.plan /\ m.plan[Min(DOMAIN m.plan)] \in Obj
<1>1. DOMAIN m.plan # {}
  <2>1. ASSUME DOMAIN m.plan = {} PROVE FALSE
    <3>1. m.plan \in [{} -> Obj] /\ << >> \in [{} -> Obj]
      BY <2>1, PlanIs
    <3> QED
      BY <3>1
  <2> QED
    BY <2>1
<1>2. Min(DOMAIN m.plan) \in DOMAIN m.plan
  BY <1>1, PlanIs, MinOfNaturals
<1> QED
  BY <1>2, PlanIs

LEMMA SetNextTypes == ASSUME Types, SetNext PROVE Types'
<1> DEFINE j == Min(DOMAIN m.plan)
           plan == Restrict(m.plan, DOMAIN m.plan \ {j})
<1>1. /\ m.pc = "set" /\ m.plan # << >> /\ m' = [m EXCEPT !.plan = plan]
      /\ m \in MaintainerRec /\ UNCHANGED <<scene, attached, metas, mutex, w>>
      /\ colls' = [colls EXCEPT ![attached][j] = m.plan[j]]
  BY StoreTypes DEF SetNext
<1>2. m.plan[j] \in Obj
  BY <1>1, NextInPlan
<1>3. known
  BY <1>1 DEF Types, ShapeInv
<1>4. colls' \in Seq([Index -> Obj \cup {Null}]) /\ DOMAIN colls' = DOMAIN colls
  BY <1>1, <1>2, <1>3, SetTypes, CollTypes
<1>5. plan \in PartialFun(Nat, Obj)
  <2>1. DOMAIN plan \subseteq Nat /\ plan \in [DOMAIN plan -> Obj]
    BY PlanIs DEF Restrict
  <2> HIDE DEF plan
  <2> QED
    BY <2>1, PartialFunDef
<1> HIDE DEF plan
<1>6. m' = [m EXCEPT !.pc = "set", !.plan = plan]
  BY <1>1 DEF MaintainerRec
<1> QED
  BY <1>1, <1>4, <1>5, <1>6, PlanTypes

LEMMA FinishTypes == ASSUME Types, Finish PROVE Types'
<1> DEFINE o == <<"maintainer", m.edits>>
<1>1. /\ m.pc = "set" /\ m.plan = << >> /\ m' = [m EXCEPT !.pc = "idle"] /\ mutex' = FALSE
      /\ UNCHANGED <<scene, attached, w>> /\ m \in MaintainerRec
  BY StoreTypes DEF Finish, Release
<1>2. known /\ m.edits > 0 /\ o \in Obj
  <2>1. known /\ m.edits > 0 /\ m.edits \in 0..MaxEdits
    BY <1>1 DEF Types, ShapeInv, MaintainerRec
  <2> QED
    BY <2>1 DEF Obj
<1>3. m' \in MaintainerRec /\ m'.pc = "idle" /\ m'.edits = m.edits
  BY <1>1 DEF MaintainerRec
<1>4. /\ metas' \in [Obj -> Meta] /\ \A p \in Obj : metas'[p].version <= m.edits + 1
      /\ colls' \in Seq([Index -> Obj \cup {Null}]) /\ DOMAIN colls' = DOMAIN colls
  <2>1. CASE m.op = "insert"
    <3>1. colls' = [colls EXCEPT ![attached][m.at - 1] = o] /\ FreshMeta(o)
      BY <2>1 DEF Finish
    <3> HIDE DEF o
    <3> QED
      BY <1>2, <3>1, FreshMetaTypes, SetTypes, CollTypes
  <2>2. CASE m.op # "insert"
    BY <2>2, StoreTypes DEF Finish
  <2> QED
    BY <2>1, <2>2
<1>5. Len(colls') = Len(colls)
  BY <1>4, StoreTypes
<1> QED
  BY <1>1, <1>3, <1>4, <1>5, StoreTypes, EditTypes

LEMMA StepTypes == ASSUME Types, [CNext]_cvars PROVE Types'
<1>1. ASSUME NEW t \in Worker, WorkerStep(t) PROVE Types'
  BY <1>1, HasFileTypes, AddFileTypes, GetMetadataTypes, GetCollectionTypes, SetEntryTypes,
     CopyFieldTypes DEF WorkerStep
<1>2. ASSUME Edit PROVE Types'
  <2>1. ASSUME NEW b \in Block, BumpVersion(b) \/ CollectShifted(b) \/ CollectDelete(b)
        PROVE  Types'
    BY <2>1, BumpVersionTypes, CollectShiftedTypes, CollectDeleteTypes
  <2>2. CASE RemoveFile
    BY <2>2, ReattachTypes DEF RemoveFile
  <2>3. CASE AddEmptyFile
    BY <2>3, ReattachTypes, CollTypes DEF AddEmptyFile
  <2>4. CASE Load
    BY <2>4, ReattachTypes, HoldingTypes DEF Load
  <2> QED
    BY <1>2, <2>1, <2>2, <2>3, <2>4 DEF Edit
<1>3. ASSUME Rebuild PROVE Types'
  BY <1>3, BumpTimestampTypes, CollectBelowTypes, ClearTypes, SetNextTypes, FinishTypes
     DEF Rebuild
<1>4. ASSUME UNCHANGED cvars PROVE Types'
  BY <1>4 DEF cvars, Types, ShapeInv, LoopInv, LoopOf, AtBlock, Current, known, WorkerRec, Meta
<1> QED
  BY <1>1, <1>2, <1>3, <1>4 DEF CNext

LEMMA TypesImply == Types => CTypeOK
<1> SUFFICES ASSUME Types PROVE CTypeOK
  OBVIOUS
<1>1. ASSUME NEW t \in Worker
      PROVE  /\ w[t].todo \subseteq scene.window[t]
             /\ w[t].pc \in {"hasFile", "addFile", "getMetadata", "getCollection", "set",
                             "copy", "done", "failed"}
             /\ w[t].pc = "set" => w[t].coll \in DOMAIN colls
             /\ w[t].pc \in {"set", "copy"} => w[t].obj \in Obj
             /\ \A b \in Block : w[t].made[b] \in Meta \cup {Null}
  <2>1. w[t] \in WorkerRec /\ LoopOf(t)
    BY StoreTypes DEF LoopInv
  <2>2. w[t].pc = "set" => w[t].obj \in Obj
    BY <2>1, CurrentIn DEF LoopOf, AtBlock
  <2> QED
    BY <2>1, <2>2 DEF WorkerRec, LoopOf
<1>2. m.pc \in {"idle", "bump", "below", "clear", "set"}
  BY StoreTypes DEF MaintainerRec
<1> QED
  BY <1>1, <1>2 DEF CTypeOK, Types, ShapeInv

(***************************************************************************)
(* Types: every variable stays in its set, the mutex is held across steps  *)
(* exactly while a rebuild runs, and then the file is there; a thread that *)
(* is to set an entry holds a collection and an object.                    *)
(***************************************************************************)
THEOREM ConcTypeCorrect == CSpec => []CTypeOK
<1>1. CInit => Types
  BY InitTypes
<1>2. Types /\ [CNext]_cvars => Types'
  BY StepTypes
<1>3. Types => CTypeOK
  BY TypesImply
<1> QED
  BY <1>1, <1>2, <1>3, PTL DEF CSpec

-----------------------------------------------------------------------------
(***************************************************************************)
(* What a step of a thread does to the thread's own record.                *)
(***************************************************************************)
Others(t) == \A u \in Worker \ {t} : w'[u] = w[u]

LEMMA HasFileIs ==
  ASSUME Types, NEW t \in Worker, HasFile(t)
  PROVE  /\ Others(t) /\ ~mutex /\ w[t].pc = "hasFile" /\ MayStart(t)
         /\ w'[t].pc = IF known THEN NextTarget(w[t].todo)
                       ELSE IF scene.role[t] = "tags" THEN "addFile" ELSE "done"
         /\ w'[t].begun = Seen /\ w'[t].todo = w[t].todo /\ w'[t].obj = w[t].obj
         /\ w'[t].coll = w[t].coll /\ w'[t].copy = w[t].copy /\ w'[t].raced = w[t].raced
         /\ w'[t].made = w[t].made
         /\ UNCHANGED <<scene, colls, attached, metas, mutex, m>>
<1>1. w \in [Worker -> WorkerRec]
  BY StoreTypes
<1> QED
  BY <1>1 DEF HasFile, WorkerRec, Others

LEMMA AddFileIs ==
  ASSUME Types, NEW t \in Worker, AddFile(t)
  PROVE  /\ Others(t) /\ ~mutex /\ w[t].pc = "addFile"
         /\ w'[t].pc = IF known THEN "failed" ELSE NextTarget(w[t].todo)
         /\ w'[t].begun = w[t].begun /\ w'[t].todo = w[t].todo /\ w'[t].obj = w[t].obj
         /\ w'[t].coll = w[t].coll /\ w'[t].copy = w[t].copy /\ w'[t].raced = w[t].raced
         /\ w'[t].made = w[t].made
         /\ UNCHANGED <<scene, metas, mutex, m>>
         /\ known => UNCHANGED <<colls, attached>>
         /\ ~known => colls' = Append(colls, Empty) /\ attached' = Len(colls')
<1>1. w \in [Worker -> WorkerRec]
  BY StoreTypes
<1> QED
  BY <1>1 DEF AddFile, WorkerRec, Others

LEMMA GetMetadataIs ==
  ASSUME Types, NEW t \in Worker, GetMetadata(t)
  PROVE  /\ Others(t) /\ ~mutex /\ w[t].pc = "getMetadata" /\ AtBlock(t)
         /\ w'[t].pc = IF coll[Current(t) - 1] # Null THEN "copy"
                       ELSE IF scene.role[t] = "tags" THEN "getCollection" ELSE "failed"
         /\ w'[t].obj = coll[Current(t) - 1] /\ w'[t].raced = FALSE
         /\ w'[t].begun = w[t].begun /\ w'[t].todo = w[t].todo /\ w'[t].coll = w[t].coll
         /\ w'[t].copy = w[t].copy /\ w'[t].made = w[t].made
         /\ UNCHANGED <<scene, colls, attached, metas, mutex, m>>
<1>1. w \in [Worker -> WorkerRec]
  BY StoreTypes
<1> DEFINE o == coll[Current(t) - 1]
<1>2. /\ w[t].pc = "getMetadata" /\ ~mutex /\ w' = Found(t, o)
      /\ UNCHANGED <<scene, colls, attached, metas, mutex, m>>
  BY DEF GetMetadata
<1> HIDE DEF o
<1>3. /\ Others(t)
      /\ w'[t].pc = IF o # Null THEN "copy"
                    ELSE IF scene.role[t] = "tags" THEN "getCollection" ELSE "failed"
      /\ w'[t].obj = o /\ w'[t].raced = FALSE
      /\ w'[t].begun = w[t].begun /\ w'[t].todo = w[t].todo /\ w'[t].coll = w[t].coll
      /\ w'[t].copy = w[t].copy /\ w'[t].made = w[t].made
  BY <1>1, <1>2 DEF Found, WorkerRec, Others
<1> QED
  BY <1>2, <1>3 DEF o, AtBlock

LEMMA GetCollectionIs ==
  ASSUME Types, NEW t \in Worker, GetCollection(t)
  PROVE  /\ Others(t) /\ ~mutex /\ w[t].pc = "getCollection" /\ AtBlock(t)
         /\ w'[t].pc = IF known THEN "set" ELSE "failed"
         /\ w'[t].obj = <<t, Current(t)>> /\ w'[t].coll = attached
         /\ w'[t].begun = w[t].begun /\ w'[t].todo = w[t].todo /\ w'[t].raced = w[t].raced
         /\ w'[t].copy = w[t].copy /\ w'[t].made = w[t].made
         /\ UNCHANGED <<scene, colls, attached, mutex, m>>
         /\ \A p \in Obj \ {<<t, Current(t)>>} : metas'[p] = metas[p]
<1>1. w \in [Worker -> WorkerRec]
  BY StoreTypes
<1>2. w[t].pc = "getCollection" /\ AtBlock(t) /\ FreshMeta(<<t, Current(t)>>)
  BY DEF GetCollection, AtBlock
<1>3. \A p \in Obj \ {<<t, Current(t)>>} : metas'[p] = metas[p]
  BY <1>2, CurrentIn, FreshMetaTypes
<1> QED
  BY <1>1, <1>2, <1>3 DEF GetCollection, WorkerRec, Others

LEMMA SetEntryIs ==
  ASSUME Types, NEW t \in Worker, SetEntry(t)
  PROVE  /\ Others(t) /\ w[t].pc = "set" /\ w'[t].pc = "copy" /\ AtBlock(t)
         /\ w'[t].obj = w[t].obj /\ w'[t].coll = w[t].coll
         /\ w'[t].begun = w[t].begun /\ w'[t].todo = w[t].todo /\ w'[t].raced = w[t].raced
         /\ w'[t].copy = w[t].copy /\ w'[t].made = w[t].made
         /\ UNCHANGED <<scene, attached, metas, mutex, m>>
         /\ w[t].obj = <<t, Current(t)>> /\ w[t].coll \in DOMAIN colls
         /\ colls' = [colls EXCEPT ![w[t].coll][Current(t) - 1] = w[t].obj]
<1>1. w \in [Worker -> WorkerRec] /\ LoopOf(t)
  BY StoreTypes DEF LoopInv
<1> QED
  BY <1>1 DEF SetEntry, WorkerRec, Others, AtBlock, LoopOf

LEMMA CopyFieldIs ==
  ASSUME Types, NEW t \in Worker, CopyField(t)
  PROVE  /\ Others(t) /\ w[t].pc = "copy" /\ AtBlock(t)
         /\ UNCHANGED <<scene, colls, attached, metas, mutex, m>>
         /\ w'[t].obj = w[t].obj /\ w'[t].coll = w[t].coll
         /\ w'[t].begun = w[t].begun /\ w'[t].raced = w[t].raced
         /\ \E f \in Field \ DOMAIN w[t].copy :
              \/ /\ w'[t].pc = "copy" /\ w'[t].todo = w[t].todo /\ w'[t].made = w[t].made
                 /\ w'[t].copy = Copied(t, f)
              \/ /\ DOMAIN Copied(t, f) = Field
                 /\ w'[t].pc = NextTarget(w'[t].todo) /\ w'[t].todo = w[t].todo \ {Current(t)}
                 /\ w'[t].made = [w[t].made EXCEPT ![Current(t)] = Copied(t, f)]
<1>1. PICK f \in Field \ DOMAIN w[t].copy :
        w' = IF DOMAIN Copied(t, f) # Field
             THEN [w EXCEPT ![t].copy = Copied(t, f)]
             ELSE [w EXCEPT ![t].copy = << >>, ![t].made[Current(t)] = Copied(t, f),
                            ![t].pc = NextTarget(w[t].todo \ {Current(t)}),
                            ![t].todo = w[t].todo \ {Current(t)}]
  BY DEF CopyField, Copied
<1>2. /\ w \in [Worker -> WorkerRec] /\ w[t].pc = "copy" /\ AtBlock(t)
      /\ UNCHANGED <<scene, colls, attached, metas, mutex, m>>
  BY StoreTypes DEF CopyField, AtBlock
<1> DEFINE c == Copied(t, f)
           rest == w[t].todo \ {Current(t)}
<1>3. w' = IF DOMAIN c # Field THEN [w EXCEPT ![t].copy = c]
           ELSE [w EXCEPT ![t].copy = << >>, ![t].made[Current(t)] = c,
                          ![t].pc = NextTarget(rest), ![t].todo = rest]
  BY <1>1
<1> HIDE DEF c, rest
<1>4. /\ Others(t)
      /\ w'[t].obj = w[t].obj /\ w'[t].coll = w[t].coll
      /\ w'[t].begun = w[t].begun /\ w'[t].raced = w[t].raced
  BY <1>2, <1>3 DEF WorkerRec, Others
<1>5. \/ /\ w'[t].pc = "copy" /\ w'[t].todo = w[t].todo /\ w'[t].made = w[t].made
         /\ w'[t].copy = c
      \/ /\ DOMAIN c = Field /\ w'[t].pc = NextTarget(w'[t].todo) /\ w'[t].todo = rest
         /\ w'[t].made = [w[t].made EXCEPT ![Current(t)] = c]
  BY <1>2, <1>3 DEF WorkerRec
<1> QED
  BY <1>2, <1>4, <1>5 DEF c, rest

(* The entries that the maintaining thread collects.                       *)
LEMMA BumpVersionIs ==
  ASSUME Types, NEW b \in Block, BumpVersion(b)
  PROVE  /\ coll[b - 1] \in Obj /\ b - 1 \in Index /\ m.pc = "idle" /\ ~mutex /\ known
         /\ m'.pc = "bump" /\ m'.op = "modify" /\ m'.at = b /\ m'.edits = m.edits + 1
         /\ m'.moves = m.moves
         /\ DOMAIN m'.plan = {b - 1} /\ m'.plan[b - 1] = coll[b - 1]
         /\ UNCHANGED <<scene, colls, attached>>
         /\ \A p \in Obj \ {coll[b - 1]} : metas'[p] = metas[p]
         /\ \A t \in Worker : /\ w[t].obj # coll[b - 1] => w'[t] = w[t]
                              /\ w[t].obj = coll[b - 1] => w'[t] = [w[t] EXCEPT !.raced = TRUE]
<1> DEFINE o == coll[b - 1]
           plan == [j \in {b - 1} |-> o]
<1>1. /\ o # Null /\ Begin("modify", "bump", b, plan) /\ UNCHANGED <<scene, colls, attached>>
      /\ metas' = [metas EXCEPT ![o].version = @ + 1]
      /\ w' = [t \in Worker |-> IF w[t].obj = o THEN [w[t] EXCEPT !.raced = TRUE] ELSE w[t]]
  BY DEF BumpVersion
<1>2. o \in Obj /\ b - 1 \in Nat /\ b - 1 \in Index
  <2>1. b - 1 \in Index /\ b - 1 \in Nat
    BY BoundsAssumption DEF Block, Index
  <2> QED
    BY <1>1, <2>1, CollTypes
<1>3. DOMAIN plan = {b - 1} /\ plan[b - 1] = o /\ plan \in PartialFun(Nat, Obj)
  <2>1. DOMAIN plan = {b - 1} /\ plan[b - 1] = o /\ plan \in [{b - 1} -> Obj]
    BY <1>2
  <2> HIDE DEF plan
  <2> QED
    BY <1>2, <2>1, PartialFunDef
<1> HIDE DEF plan
<1>4. /\ m.pc = "idle" /\ ~mutex /\ known
      /\ m'.op = "modify" /\ m'.pc = "bump" /\ m'.at = b /\ m'.plan = plan
      /\ m'.edits = m.edits + 1 /\ m'.moves = m.moves
  BY <1>1, <1>3, BeginTypes
<1> HIDE DEF o
<1>5. \A p \in Obj \ {o} : metas'[p] = metas[p]
  BY <1>1, StoreTypes
<1>6. \A t \in Worker : /\ w[t].obj # o => w'[t] = w[t]
                        /\ w[t].obj = o => w'[t] = [w[t] EXCEPT !.raced = TRUE]
  BY <1>1
<1> QED
  BY <1>1, <1>2, <1>3, <1>4, <1>5, <1>6 DEF o

LEMMA CollectShiftedIs ==
  ASSUME Types, NEW b \in Block, CollectShifted(b)
  PROVE  /\ m.pc = "idle" /\ ~mutex /\ known /\ m'.pc \in {"set", "below"}
         /\ "insert" \in scene.edits
         /\ m'.op = "insert" /\ m'.at = b /\ m'.edits = m.edits + 1 /\ m'.moves = m.moves
         /\ UNCHANGED <<scene, colls, attached, metas, w>>
         /\ \A j : j \in DOMAIN m'.plan <=> j - 1 \in Stored(coll) /\ j - 1 >= b - 1 /\ j \in Int
         /\ \A j \in DOMAIN m'.plan : m'.plan[j] = coll[j - 1]
         /\ m'.pc = "set" <=> DOMAIN m'.plan = {}
<1> DEFINE shifted == [j \in {i + 1 : i \in Stored(coll) \cap (b - 1)..SizeMax} |-> coll[j - 1]]
           pc == IF shifted = << >> THEN "set" ELSE "below"
<1>1. Begin("insert", pc, b, shifted) /\ UNCHANGED <<scene, colls, attached, metas, w>>
  BY DEF CollectShifted
<1>2. \A j \in DOMAIN shifted : j \in Nat /\ j - 1 \in Stored(coll) /\ shifted[j] = coll[j - 1]
  BY BoundsAssumption DEF Stored, Index
<1>3. \A j : j \in DOMAIN shifted <=> j - 1 \in Stored(coll) /\ j - 1 >= b - 1 /\ j \in Int
  BY BoundsAssumption DEF Stored, Index, Block
<1>4. \A i \in Stored(coll) : coll[i] \in Obj
  BY CollTypes DEF Stored
<1>5. shifted = [j \in DOMAIN shifted |-> shifted[j]]
  OBVIOUS
<1> HIDE DEF shifted
<1>6. shifted \in PartialFun(Nat, Obj)
  <2>1. DOMAIN shifted \subseteq Nat /\ shifted \in [DOMAIN shifted -> Obj]
    BY <1>2, <1>4, <1>5
  <2> QED
    BY <2>1, PartialFunDef
<1>7. pc \in {"set", "below"} /\ (pc = "set" <=> DOMAIN shifted = {})
  <2>1. shifted = << >> <=> DOMAIN shifted = {}
    <3>1. DOMAIN << >> = {} /\ << >> = [j \in {} |-> << >>[j]]
      OBVIOUS
    <3> QED
      BY <1>5, <3>1
  <2> QED
    BY <2>1
<1> HIDE DEF pc
<1>8. /\ m.pc = "idle" /\ ~mutex /\ known /\ m'.pc = pc /\ m'.plan = shifted
      /\ "insert" \in scene.edits
      /\ m'.op = "insert" /\ m'.at = b /\ m'.edits = m.edits + 1 /\ m'.moves = m.moves
  BY <1>1, <1>6, <1>7, BeginTypes
<1> QED
  BY <1>1, <1>2, <1>3, <1>7, <1>8

LEMMA CollectDeleteIs ==
  ASSUME Types, NEW b \in Block, CollectDelete(b)
  PROVE  /\ m.pc = "idle" /\ ~mutex /\ known /\ m'.pc = "clear"
         /\ "delete" \in scene.edits
         /\ m'.op = "delete" /\ m'.at = b /\ m'.edits = m.edits + 1 /\ m'.moves = m.moves
         /\ UNCHANGED <<scene, colls, attached, metas, w>>
         /\ \A j \in Index : j < b - 1 /\ coll[j] # Null => j \in DOMAIN m'.plan
         /\ \A j \in Index : j >= b - 1 /\ j < SizeMax /\ coll[j + 1] # Null => j \in DOMAIN m'.plan
         /\ \A j \in DOMAIN m'.plan : \E i \in Index : m'.plan[j] = coll[i]
<1> DEFINE rest == DeleteEntry(coll, b - 1)
           plan == Restrict(rest, Stored(rest))
<1>1. Begin("delete", "clear", b, plan) /\ UNCHANGED <<scene, colls, attached, metas, w>>
  BY DEF CollectDelete
<1>2. /\ \A j \in Index : j < b - 1 => rest[j] = coll[j]
      /\ \A j \in Index : ~(j < b - 1) /\ j < SizeMax => rest[j] = coll[j + 1] /\ j + 1 \in Index
      /\ \A j \in Index : ~(j < b - 1) /\ ~(j < SizeMax) => rest[j] = Null
      /\ rest \in [Index -> Obj \cup {Null}]
  BY CollTypes, BoundsAssumption DEF DeleteEntry, Index, Block
<1>3. DOMAIN plan = Stored(rest) /\ plan = [j \in DOMAIN plan |-> rest[j]]
  BY DEF Restrict
<1> HIDE DEF plan, rest
<1>4. \A j : j \in DOMAIN plan <=> j \in Index /\ rest[j] # Null
  BY <1>3 DEF Stored
<1>5. plan \in PartialFun(Nat, Obj)
  <2>1. \A j \in DOMAIN plan : j \in Nat /\ rest[j] \in Obj
    BY <1>2, <1>4 DEF Index
  <2>2. DOMAIN plan \subseteq Nat /\ plan \in [DOMAIN plan -> Obj]
    BY <1>3, <2>1
  <2> QED
    BY <2>2, PartialFunDef
<1>6. /\ m.pc = "idle" /\ ~mutex /\ known /\ m'.pc = "clear" /\ m'.plan = plan
      /\ "delete" \in scene.edits
      /\ m'.op = "delete" /\ m'.at = b /\ m'.edits = m.edits + 1 /\ m'.moves = m.moves
  BY <1>1, <1>5, BeginTypes
<1>7. \A j \in DOMAIN plan : \E i \in Index : plan[j] = coll[i]
  <2> SUFFICES ASSUME NEW j \in DOMAIN plan PROVE \E i \in Index : plan[j] = coll[i]
    OBVIOUS
  <2>1. j \in Index /\ rest[j] # Null /\ plan[j] = rest[j]
    BY <1>3, <1>4
  <2> QED
    BY <1>2, <2>1
<1>8. \A j \in Index : j < b - 1 /\ coll[j] # Null => j \in DOMAIN plan
  BY <1>2, <1>4
<1>9. \A j \in Index : j >= b - 1 /\ j < SizeMax /\ coll[j + 1] # Null => j \in DOMAIN plan
  BY <1>2, <1>4, BoundsAssumption DEF Index, Block
<1> QED
  BY <1>1, <1>6, <1>7, <1>8, <1>9

LEMMA ReattachIs ==
  ASSUME Types, NEW o, NEW c, Reattach(o, c)
  PROVE  /\ m.pc = "idle" /\ m'.pc = "idle" /\ ~mutex /\ o \in scene.edits
         /\ m'.edits = m.edits + 1 /\ m'.moves = m.moves + 1 /\ m'.plan = m.plan
         /\ UNCHANGED <<scene, metas, mutex, w>>
         /\ c = Null => attached' = 0 /\ UNCHANGED colls
         /\ c # Null => colls' = Append(colls, c) /\ attached' = Len(colls')
BY StoreTypes DEF Reattach, MayEdit, MaintainerRec

LEMMA BumpTimestampIs ==
  ASSUME Types, BumpTimestamp
  PROVE  /\ m.pc = "bump" /\ m'.pc = "set" /\ m.op = "modify" /\ m'.plan = m.plan
         /\ m'.op = m.op /\ m'.at = m.at /\ m'.edits = m.edits /\ m'.moves = m.moves
         /\ UNCHANGED <<scene, colls, attached, mutex, w>>
         /\ \A p \in Obj \ {m.plan[m.at - 1]} : metas'[p] = metas[p]
BY StoreTypes DEF BumpTimestamp, MaintainerRec, Types, ShapeInv

LEMMA CollectBelowIs ==
  ASSUME Types, CollectBelow
  PROVE  /\ m.pc = "below" /\ m'.pc = "clear" /\ m.op = "insert"
         /\ m'.op = m.op /\ m'.at = m.at /\ m'.edits = m.edits /\ m'.moves = m.moves
         /\ UNCHANGED <<scene, colls, attached, metas, mutex, w>>
         /\ DOMAIN m'.plan = DOMAIN m.plan \cup (Stored(coll) \cap 0..(m.at - 2))
         /\ \A j \in DOMAIN m'.plan :
              \/ j \in DOMAIN m.plan /\ m'.plan[j] = m.plan[j]
              \/ j \in Index /\ m'.plan[j] = coll[j]
<1> DEFINE plan == Override(m.plan, Entries(0..(m.at - 2)))
<1>1. /\ m.pc = "below" /\ m' = [m EXCEPT !.pc = "clear", !.plan = plan]
      /\ UNCHANGED <<scene, colls, attached, metas, mutex, w>> /\ m \in MaintainerRec
      /\ m.op = "insert"
  BY StoreTypes DEF CollectBelow, Types, ShapeInv
<1>2. DOMAIN plan = DOMAIN m.plan \cup (Stored(coll) \cap 0..(m.at - 2))
  BY BelowPlan
<1>3. \A j \in DOMAIN plan : \/ j \in DOMAIN m.plan /\ plan[j] = m.plan[j]
                             \/ j \in Index /\ plan[j] = coll[j]
  BY DEF Override, Entries, Restrict, Stored
<1> HIDE DEF plan
<1>4. /\ m'.plan = plan /\ m'.pc = "clear"
      /\ m'.op = m.op /\ m'.at = m.at /\ m'.edits = m.edits /\ m'.moves = m.moves
  BY <1>1 DEF MaintainerRec
<1> QED
  BY <1>1, <1>2, <1>3, <1>4

LEMMA ClearIs ==
  ASSUME Types, Clear
  PROVE  /\ m.pc = "clear" /\ m'.pc = "set" /\ known
         /\ m'.op = m.op /\ m'.at = m.at /\ m'.edits = m.edits /\ m'.moves = m.moves
         /\ m'.plan = m.plan
         /\ UNCHANGED <<scene, attached, metas, mutex, w>>
         /\ colls' = [colls EXCEPT ![attached] = Empty]
BY StoreTypes DEF Clear, MaintainerRec, Types, ShapeInv

LEMMA SetNextIs ==
  ASSUME Types, SetNext
  PROVE  LET j == Min(DOMAIN m.plan) IN
         /\ m.pc = "set" /\ m'.pc = "set" /\ known
         /\ m'.op = m.op /\ m'.at = m.at /\ m'.edits = m.edits /\ m'.moves = m.moves
         /\ j \in DOMAIN m.plan /\ m.plan[j] \in Obj
         /\ DOMAIN m'.plan = DOMAIN m.plan \ {j}
         /\ \A i \in DOMAIN m'.plan : m'.plan[i] = m.plan[i]
         /\ UNCHANGED <<scene, attached, metas, mutex, w>>
         /\ colls' = [colls EXCEPT ![attached][j] = m.plan[j]]
<1> DEFINE j == Min(DOMAIN m.plan)
           plan == Restrict(m.plan, DOMAIN m.plan \ {j})
<1>1. /\ m.pc = "set" /\ m.plan # << >> /\ m' = [m EXCEPT !.plan = plan]
      /\ m \in MaintainerRec /\ UNCHANGED <<scene, attached, metas, mutex, w>>
      /\ colls' = [colls EXCEPT ![attached][j] = m.plan[j]] /\ known
  BY StoreTypes DEF SetNext, Types, ShapeInv
<1>2. j \in DOMAIN m.plan /\ m.plan[j] \in Obj
  BY <1>1, NextInPlan
<1>3. DOMAIN plan = DOMAIN m.plan \ {j} /\ \A i \in DOMAIN plan : plan[i] = m.plan[i]
  BY DEF Restrict
<1> HIDE DEF plan, j
<1>4. /\ m'.plan = plan /\ m'.pc = "set"
      /\ m'.op = m.op /\ m'.at = m.at /\ m'.edits = m.edits /\ m'.moves = m.moves
  BY <1>1 DEF MaintainerRec
<1> QED
  BY <1>1, <1>2, <1>3, <1>4 DEF j

LEMMA FinishIs ==
  ASSUME Types, Finish
  PROVE  /\ m.pc = "set" /\ m'.pc = "idle" /\ known /\ m.edits \in 1..MaxEdits
         /\ m.at \in Block /\ m.at - 1 \in Index
         /\ <<"maintainer", m.edits>> \in Obj
         /\ m'.op = m.op /\ m'.at = m.at /\ m'.edits = m.edits /\ m'.moves = m.moves
         /\ m'.plan = m.plan /\ m.plan = << >> /\ DOMAIN m.plan = {}
         /\ UNCHANGED <<scene, attached, w>>
         /\ m.op = "insert" =>
              /\ colls' = [colls EXCEPT ![attached][m.at - 1] = <<"maintainer", m.edits>>]
              /\ \A p \in Obj \ {<<"maintainer", m.edits>>} : metas'[p] = metas[p]
         /\ m.op # "insert" => UNCHANGED <<colls, metas>>
<1>1. /\ m.pc = "set" /\ m.plan = << >> /\ m' = [m EXCEPT !.pc = "idle"] /\ mutex' = FALSE
      /\ UNCHANGED <<scene, attached, w>> /\ m \in MaintainerRec
  BY StoreTypes DEF Finish, Release
<1>2. known /\ m.edits \in 1..MaxEdits /\ m.at \in Block /\ m.at - 1 \in Index
  <2>1. known /\ m.edits > 0 /\ m.edits \in 0..MaxEdits /\ m.at \in Block
    BY <1>1 DEF Types, ShapeInv, MaintainerRec
  <2> QED
    BY <2>1, BoundsAssumption DEF Block, Index
<1>3. <<"maintainer", m.edits>> \in Obj
  BY <1>2 DEF Obj
<1>4. m.op = "insert" =>
        /\ colls' = [colls EXCEPT ![attached][m.at - 1] = <<"maintainer", m.edits>>]
        /\ \A p \in Obj \ {<<"maintainer", m.edits>>} : metas'[p] = metas[p]
  BY <1>3, FreshMetaTypes DEF Finish
<1>5. m.op # "insert" => UNCHANGED <<colls, metas>>
  BY DEF Finish
<1>6. /\ m'.pc = "idle" /\ m'.plan = m.plan
      /\ m'.op = m.op /\ m'.at = m.at /\ m'.edits = m.edits /\ m'.moves = m.moves
  BY <1>1 DEF MaintainerRec
<1> QED
  BY <1>1, <1>2, <1>3, <1>4, <1>5, <1>6

-----------------------------------------------------------------------------
(***************************************************************************)
(* Objects that nobody knows stay so until they are made.                  *)
(***************************************************************************)
LEMMA InitFresh == CInit => FreshInv /\ CopyInv
<1> SUFFICES ASSUME CInit PROVE FreshInv /\ CopyInv
  OBVIOUS
<1>1. Types
  BY InitTypes
<1>2. /\ m.pc = "idle" /\ DOMAIN m.plan = {}
      /\ \A u \in Worker : w[u].obj = Null /\ w[u].pc = "hasFile"
  <2>1. \A u \in Worker : w[u] = [pc |-> "hasFile", todo |-> scene.window[u], obj |-> Null,
                coll |-> 0, copy |-> << >>, raced |-> FALSE, begun |-> Seen,
                made |-> [b \in Block |-> Null]]
    BY DEF CInit
  <2> QED
    BY <2>1, EmptyIsPartial DEF CInit
<1>3. ASSUME NEW o \in Obj, o[1] \in Worker \cup {"maintainer"}
      PROVE  Unknown(o)
  <2>1. o # Null
    BY NullAssumption
  <2>2. ASSUME NEW c \in DOMAIN colls, NEW j \in Index PROVE colls[c][j] # o
    <3>1. colls[c] = Holding("prepared")
      BY DEF CInit
    <3>2. colls[c][j] \in {Null, <<"prepared", j + 1>>}
      BY <1>1, <3>1, HoldingTypes
    <3>3. o[1] # "prepared"
      BY <1>3, ObjAssumption
    <3>4. <<"prepared", j + 1>>[1] = "prepared"
      OBVIOUS
    <3>5. o # <<"prepared", j + 1>>
      BY <3>3, <3>4
    <3> QED
      BY <2>1, <3>2, <3>5
  <2> QED
    BY <1>2, <2>1, <2>2 DEF Unknown
<1>4. \A t \in Worker : \A b \in Ahead(t) : <<t, b>> \in Obj /\ <<t, b>>[1] \in Worker
  <2>1. \A t \in Worker : w[t].todo \subseteq Block
    BY <1>1, StoreTypes DEF WorkerRec
  <2> QED
    BY <2>1 DEF Ahead, Obj
<1>5. \A e \in Coming : <<"maintainer", e>> \in Obj /\ <<"maintainer", e>>[1] = "maintainer"
  BY DEF Coming, Obj
<1>6. FreshInv
  BY <1>3, <1>4, <1>5 DEF FreshInv
<1>7. CopyInv
  BY <1>2 DEF CopyInv, CopyOf, RacedOf
<1> QED
  BY <1>6, <1>7

(* What is to be shown of a step that makes the objects of X known.        *)
LEMMA FreshStep ==
  ASSUME Types, FreshInv, NEW X,
         \A o \in Obj \ X : o[1] # "loaded" /\ Unknown(o) => Unknown(o)',
         \A t \in Worker : /\ \A b : b \in Ahead(t)' => b \in Ahead(t)
                           /\ \A b : b \in Ahead(t)' => <<t, b>> \notin X,
         \A e : e \in Coming' => e \in Coming /\ <<"maintainer", e>> \notin X
  PROVE  FreshInv'
<1>1. ASSUME NEW t \in Worker, NEW b, b \in Ahead(t)' PROVE Unknown(<<t, b>>)'
  <2>1. b \in Ahead(t) /\ <<t, b>> \notin X
    BY <1>1
  <2>2. b \in Block
    BY <2>1, StoreTypes DEF Ahead, WorkerRec
  <2>3. <<t, b>> \in Obj \ X /\ Unknown(<<t, b>>)
    BY <2>1, <2>2 DEF Obj, FreshInv
  <2>4. <<t, b>>[1] # "loaded"
    BY ObjAssumption
  <2> QED
    BY <2>3, <2>4
<1>2. ASSUME NEW e, e \in Coming' PROVE Unknown(<<"maintainer", e>>)'
  <2>1. e \in Coming /\ <<"maintainer", e>> \notin X
    BY <1>2
  <2>2. /\ <<"maintainer", e>> \in Obj \ X /\ Unknown(<<"maintainer", e>>)
        /\ <<"maintainer", e>>[1] # "loaded"
    BY <2>1 DEF Coming, Obj, FreshInv
  <2> QED
    BY <2>2
<1> QED
  BY <1>1, <1>2 DEF FreshInv

(* A step of a thread that is not about to register its block.             *)
LEMMA WorkerFresh ==
  ASSUME Types, FreshInv, NEW t \in Worker, Others(t), UNCHANGED m,
         \A o \in Obj : Unknown(o) =>
            /\ \A c \in DOMAIN colls' : \A j \in Index : colls'[c][j] # o
            /\ w'[t].obj # o,
         \A b : b \in Ahead(t)' => b \in Ahead(t)
  PROVE  FreshInv'
<1>1. \A u \in Worker \ {t} : \A b : b \in Ahead(u)' => b \in Ahead(u)
  BY DEF Others, Ahead, Current
<1>2. \A e : e \in Coming' => e \in Coming
  BY DEF Coming
<1>3. \A o \in Obj : Unknown(o) => Unknown(o)'
  BY DEF Unknown, Others
<1> DEFINE X == {}
<1>4. \A o \in Obj \ X : Unknown(o) => Unknown(o)'
  BY <1>3
<1>5. \A u \in Worker : \A b : b \in Ahead(u)' => b \in Ahead(u)
  BY <1>1
<1>6. \A y : y \notin X
  OBVIOUS
<1> HIDE DEF X
<1> QED
  BY <1>2, <1>4, <1>5, <1>6, FreshStep

LEMMA HasFileFresh == ASSUME Types, FreshInv, NEW t \in Worker, HasFile(t) PROVE FreshInv'
<1>1. \A b : b \in Ahead(t)' => b \in Ahead(t)
  BY HasFileIs DEF Ahead, Current
<1> QED
  BY <1>1, HasFileIs, WorkerFresh DEF Unknown

(* Where a collection is added, which has no unknown objects.              *)
LEMMA AppendKept ==
  ASSUME Types, NEW c \in [Index -> Obj \cup {Null}], colls' = Append(colls, c),
         NEW o, Unknown(o), \A j \in Index : c[j] # o
  PROVE  \A d \in DOMAIN colls' : \A j \in Index : colls'[d][j] # o
<1> DEFINE C == [Index -> Obj \cup {Null}]
<1>1. c \in C /\ colls \in Seq(C)
  BY StoreTypes
<1> HIDE DEF C
<1>2. \A d \in DOMAIN colls' :
        (d \in DOMAIN colls /\ colls'[d] = colls[d]) \/ colls'[d] = c
  BY <1>1
<1> QED
  BY <1>2 DEF Unknown

LEMMA AddFileFresh == ASSUME Types, FreshInv, NEW t \in Worker, AddFile(t) PROVE FreshInv'
<1>1. \A b : b \in Ahead(t)' => b \in Ahead(t)
  BY AddFileIs DEF Ahead, Current
<1>2. ASSUME NEW o \in Obj, Unknown(o)
      PROVE  \A c \in DOMAIN colls' : \A j \in Index : colls'[c][j] # o
  <2>1. CASE known
    BY <1>2, <2>1, AddFileIs DEF Unknown
  <2>2. CASE ~known
    <3>1. \A j \in Index : Empty[j] # o
      BY CollTypes
    <3> QED
      BY <1>2, <2>2, <3>1, AddFileIs, CollTypes, AppendKept
  <2> QED
    BY <2>1, <2>2
<1> QED
  BY <1>1, <1>2, AddFileIs, WorkerFresh DEF Unknown

LEMMA CollKnown ==
  ASSUME Types, NEW o \in Obj, Unknown(o), NEW i \in Index
  PROVE  coll[i] # o
BY CollTypes DEF Unknown

LEMMA GetMetadataFresh ==
  ASSUME Types, FreshInv, NEW t \in Worker, GetMetadata(t) PROVE FreshInv'
<1>1. \A b : b \in Ahead(t)' => b \in Ahead(t)
  BY GetMetadataIs DEF Ahead, Current
<1>2. Current(t) - 1 \in Index
  BY GetMetadataIs, CurrentIn
<1>3. \A o \in Obj : Unknown(o) => w'[t].obj # o
  BY <1>2, GetMetadataIs, CollKnown
<1>4. /\ Others(t) /\ UNCHANGED m
      /\ \A o \in Obj : Unknown(o) =>
            \A c \in DOMAIN colls' : \A j \in Index : colls'[c][j] # o
  <2>1. Others(t) /\ UNCHANGED <<m, colls>>
    BY GetMetadataIs
  <2> QED
    BY <2>1 DEF Unknown
<1> QED
  BY <1>1, <1>3, <1>4, WorkerFresh

LEMMA GetCollectionFresh ==
  ASSUME Types, FreshInv, NEW t \in Worker, GetCollection(t) PROVE FreshInv'
<1> DEFINE b0 == Current(t)
           X == {<<t, b0>>}
<1>1. /\ Others(t) /\ w'[t].pc \in {"set", "failed"} /\ w'[t].obj = <<t, b0>>
      /\ w'[t].todo = w[t].todo /\ UNCHANGED <<colls, m>> /\ w[t].pc = "getCollection"
  BY GetCollectionIs
<1>2. ASSUME NEW o \in Obj \ X, Unknown(o) PROVE Unknown(o)'
  BY <1>1, <1>2 DEF Unknown, Others
<1>3. \A b : b \in Ahead(t)' => b \in Ahead(t) /\ b # b0
  BY <1>1 DEF Ahead, Current
<1>4. \A u \in Worker \ {t} : \A b : b \in Ahead(u)' => b \in Ahead(u)
  BY <1>1 DEF Others, Ahead, Current
<1>5. \A e : e \in Coming' => e \in Coming /\ <<"maintainer", e>> \notin X
  BY <1>1, ObjAssumption DEF Coming
<1>6. \A u \in Worker : \A b : b \in Ahead(u)' => b \in Ahead(u) /\ <<u, b>> \notin X
  BY <1>3, <1>4
<1> HIDE DEF X
<1> QED
  BY <1>2, <1>5, <1>6, FreshStep

LEMMA SetEntryFresh == ASSUME Types, FreshInv, NEW t \in Worker, SetEntry(t) PROVE FreshInv'
<1>1. \A b : b \in Ahead(t)' => b \in Ahead(t)
  BY SetEntryIs DEF Ahead, Current
<1>2. ASSUME NEW o \in Obj, Unknown(o), NEW c \in DOMAIN colls', NEW j \in Index
      PROVE  colls'[c][j] # o
  <2> DEFINE i == Current(t) - 1
             d == w[t].coll
  <2>1. colls' = [colls EXCEPT ![d][i] = w[t].obj]
    BY SetEntryIs
  <2> HIDE DEF i, d
  <2>2. c \in DOMAIN colls
    BY <1>2, <2>1
  <2>3. w[t].obj # o /\ colls[c][j] # o
    BY <1>2, <2>2 DEF Unknown
  <2>4. colls'[c][j] \in {colls[c][j], w[t].obj}
    BY <2>1, <2>2, CollTypes
  <2> QED
    BY <2>3, <2>4
<1>3. /\ Others(t) /\ UNCHANGED m
      /\ \A o \in Obj : Unknown(o) => w'[t].obj # o
  <2>1. Others(t) /\ UNCHANGED m /\ w'[t].obj = w[t].obj
    BY SetEntryIs
  <2> QED
    BY <2>1 DEF Unknown
<1> QED
  BY <1>1, <1>2, <1>3, WorkerFresh

LEMMA CopyFieldFresh == ASSUME Types, FreshInv, NEW t \in Worker, CopyField(t) PROVE FreshInv'
<1>1. \A b : b \in Ahead(t)' => b \in Ahead(t)
  <2>1. CASE w'[t].todo = w[t].todo /\ w'[t].pc = "copy"
    BY <2>1, CopyFieldIs DEF Ahead, Current
  <2>2. CASE w'[t].todo = w[t].todo \ {Current(t)}
    BY <2>2, CopyFieldIs DEF Ahead, Current
  <2> QED
    BY <2>1, <2>2, CopyFieldIs
<1> QED
  BY <1>1, CopyFieldIs, WorkerFresh DEF Unknown

(* A step of the maintaining thread that makes no object.                  *)
LEMMA EditFresh ==
  ASSUME Types, FreshInv,
         \A t \in Worker : /\ w'[t].pc = w[t].pc /\ w'[t].todo = w[t].todo
                           /\ w'[t].obj = w[t].obj,
         \/ m'.edits = m.edits + 1
         \/ m'.edits = m.edits /\ m.pc # "idle",
         \A o \in Obj : o[1] # "loaded" /\ Unknown(o) =>
            /\ \A c \in DOMAIN colls' : \A j \in Index : colls'[c][j] # o
            /\ \A j \in DOMAIN m'.plan : m'.plan[j] # o
  PROVE  FreshInv'
<1> DEFINE X == {}
<1>1. \A o \in Obj \ X : o[1] # "loaded" /\ Unknown(o) => Unknown(o)'
  BY DEF Unknown
<1>2. \A t \in Worker : \A b : b \in Ahead(t)' => b \in Ahead(t)
  BY DEF Ahead, Current
<1>3. \A e : e \in Coming' => e \in Coming
  BY StoreTypes DEF Coming
<1>4. \A y : y \notin X
  OBVIOUS
<1> HIDE DEF X
<1> QED
  BY <1>1, <1>2, <1>3, <1>4, FreshStep

LEMMA BumpVersionFresh ==
  ASSUME Types, FreshInv, NEW b \in Block, BumpVersion(b) PROVE FreshInv'
<1>1. \A t \in Worker : w'[t].pc = w[t].pc /\ w'[t].todo = w[t].todo /\ w'[t].obj = w[t].obj
  <2> SUFFICES ASSUME NEW t \in Worker
      PROVE  w'[t].pc = w[t].pc /\ w'[t].todo = w[t].todo /\ w'[t].obj = w[t].obj
    OBVIOUS
  <2>1. w[t] \in WorkerRec
    BY StoreTypes
  <2>2. w'[t] = w[t] \/ w'[t] = [w[t] EXCEPT !.raced = TRUE]
    BY BumpVersionIs
  <2> QED
    BY <2>1, <2>2 DEF WorkerRec
<1>2. ASSUME NEW o \in Obj, Unknown(o), NEW j \in DOMAIN m'.plan PROVE m'.plan[j] # o
  BY <1>2, BumpVersionIs, CollKnown
<1> QED
  BY <1>1, <1>2, BumpVersionIs, EditFresh DEF Unknown

LEMMA CollectFresh ==
  ASSUME Types, FreshInv, NEW b \in Block, CollectShifted(b) \/ CollectDelete(b)
  PROVE  FreshInv'
<1>1. ASSUME CollectShifted(b) PROVE FreshInv'
  <2>1. ASSUME NEW o \in Obj, Unknown(o), NEW j \in DOMAIN m'.plan PROVE m'.plan[j] # o
    BY <1>1, <2>1, CollectShiftedIs, CollKnown DEF Stored
  <2> QED
    BY <1>1, <2>1, CollectShiftedIs, EditFresh DEF Unknown
<1>2. ASSUME CollectDelete(b) PROVE FreshInv'
  <2>1. ASSUME NEW o \in Obj, Unknown(o), NEW j \in DOMAIN m'.plan PROVE m'.plan[j] # o
    <3>1. PICK i \in Index : m'.plan[j] = coll[i]
      BY <1>2, <2>1, CollectDeleteIs
    <3> QED
      BY <2>1, <3>1, CollKnown
  <2> QED
    BY <1>2, <2>1, CollectDeleteIs, EditFresh DEF Unknown
<1> QED
  BY <1>1, <1>2

LEMMA RemoveFileFresh == ASSUME Types, FreshInv, RemoveFile PROVE FreshInv'
BY ReattachIs, EditFresh DEF RemoveFile, Unknown

LEMMA AddEmptyFileFresh == ASSUME Types, FreshInv, AddEmptyFile PROVE FreshInv'
<1>1. Reattach("add", Empty) /\ Empty # Null /\ colls' = Append(colls, Empty)
  <2>1. Empty # Null
    BY NullAssumption, CollTypes
  <2> QED
    BY <2>1, ReattachIs DEF AddEmptyFile
<1>2. ASSUME NEW o \in Obj, Unknown(o)
      PROVE  \A c \in DOMAIN colls' : \A j \in Index : colls'[c][j] # o
  <2>1. \A j \in Index : Empty[j] # o
    BY CollTypes
  <2> QED
    BY <1>1, <1>2, <2>1, CollTypes, AppendKept
<1> QED
  BY <1>1, <1>2, ReattachIs, EditFresh DEF Unknown

LEMMA LoadFresh == ASSUME Types, FreshInv, Load PROVE FreshInv'
<1> DEFINE c == Holding("loaded")
<1>1. c \in [Index -> Obj \cup {Null}] /\ \A i \in Index : c[i] \in {Null, <<"loaded", i + 1>>}
  BY HoldingTypes
<1>2. Reattach("load", c)
  BY DEF Load
<1> HIDE DEF c
<1>3. c # Null
  BY <1>1, NullAssumption
<1>4. ASSUME NEW o \in Obj, o[1] # "loaded", Unknown(o)
      PROVE  \A d \in DOMAIN colls' : \A j \in Index : colls'[d][j] # o
  <2>1. ASSUME NEW j \in Index PROVE c[j] # o
    <3>1. <<"loaded", j + 1>>[1] = "loaded"
      OBVIOUS
    <3>2. o # <<"loaded", j + 1>>
      BY <1>4, <3>1
    <3> QED
      BY <1>1, <3>2, CollTypes
  <2>2. colls' = Append(colls, c)
    BY <1>2, <1>3, ReattachIs
  <2> QED
    BY <1>1, <1>4, <2>1, <2>2, AppendKept
<1> QED
  BY <1>2, <1>4, ReattachIs, EditFresh DEF Unknown

LEMMA RebuildFresh == ASSUME Types, FreshInv, Rebuild PROVE FreshInv'
<1>1. CASE BumpTimestamp
  BY <1>1, BumpTimestampIs, EditFresh DEF Unknown
<1>2. CASE CollectBelow
  <2>1. ASSUME NEW o \in Obj, Unknown(o), NEW j \in DOMAIN m'.plan PROVE m'.plan[j] # o
    BY <1>2, <2>1, CollectBelowIs, CollKnown DEF Unknown
  <2> QED
    BY <1>2, <2>1, CollectBelowIs, EditFresh DEF Unknown
<1>3. CASE Clear
  <2>1. ASSUME NEW o \in Obj, Unknown(o), NEW c \in DOMAIN colls', NEW j \in Index
        PROVE  colls'[c][j] # o
    <3>1. c \in DOMAIN colls /\ colls[c][j] # o /\ colls'[c] \in {colls[c], Empty}
      BY <1>3, <2>1, ClearIs DEF Unknown
    <3> QED
      BY <3>1, CollTypes
  <2> QED
    BY <1>3, <2>1, ClearIs, EditFresh DEF Unknown
<1>4. CASE SetNext
  <2> DEFINE i == Min(DOMAIN m.plan)
  <2>1. ASSUME NEW o \in Obj, Unknown(o), NEW c \in DOMAIN colls', NEW j \in Index
        PROVE  colls'[c][j] # o
    <3>1. c \in DOMAIN colls /\ colls[c][j] # o /\ m.plan[i] # o
      BY <1>4, <2>1, SetNextIs DEF Unknown
    <3>2. colls' = [colls EXCEPT ![attached][i] = m.plan[i]]
      BY <1>4, SetNextIs
    <3> HIDE DEF i
    <3>3. colls'[c][j] \in {colls[c][j], m.plan[i]}
      BY <3>1, <3>2, CollTypes
    <3> QED
      BY <3>1, <3>3
  <2>2. ASSUME NEW o \in Obj, Unknown(o), NEW j \in DOMAIN m'.plan PROVE m'.plan[j] # o
    BY <1>4, <2>2, SetNextIs DEF Unknown
  <2> QED
    BY <1>4, <2>1, <2>2, SetNextIs, EditFresh
<1>5. CASE Finish
  <2> DEFINE n == <<"maintainer", m.edits>>
             X == {n}
  <2>1. ASSUME NEW o \in Obj \ X, Unknown(o) PROVE Unknown(o)'
    <3>1. ASSUME NEW c \in DOMAIN colls', NEW j \in Index PROVE colls'[c][j] # o
      <4>1. c \in DOMAIN colls /\ colls[c][j] # o
        BY <1>5, <2>1, <3>1, FinishIs DEF Unknown
      <4>2. colls' = [colls EXCEPT ![attached][m.at - 1] = n] \/ colls' = colls
        BY <1>5, FinishIs
      <4> HIDE DEF n
      <4>3. colls'[c][j] \in {colls[c][j], n}
        BY <4>1, <4>2, CollTypes
      <4> QED
        BY <2>1, <4>1, <4>3
    <3>2. \A j \in DOMAIN m'.plan : m'.plan[j] # o
      BY <1>5, <2>1, FinishIs DEF Unknown
    <3>3. \A u \in Worker : w'[u].obj # o
      BY <1>5, <2>1, FinishIs DEF Unknown
    <3> QED
      BY <3>1, <3>2, <3>3 DEF Unknown
  <2>2. \A t \in Worker : \A b : b \in Ahead(t)' => b \in Ahead(t) /\ <<t, b>> \notin X
    BY <1>5, FinishIs, ObjAssumption DEF Ahead, Current
  <2>3. \A e : e \in Coming' => e \in Coming /\ <<"maintainer", e>> \notin X
    BY <1>5, FinishIs, StoreTypes DEF Coming
  <2> HIDE DEF X
  <2> QED
    BY <2>1, <2>2, <2>3, FreshStep
<1> QED
  BY <1>1, <1>2, <1>3, <1>4, <1>5 DEF Rebuild

LEMMA StepFresh == ASSUME Types, FreshInv, [CNext]_cvars PROVE FreshInv'
<1>1. ASSUME NEW t \in Worker, WorkerStep(t) PROVE FreshInv'
  BY <1>1, HasFileFresh, AddFileFresh, GetMetadataFresh, GetCollectionFresh, SetEntryFresh,
     CopyFieldFresh DEF WorkerStep
<1>2. ASSUME Edit PROVE FreshInv'
  BY <1>2, BumpVersionFresh, CollectFresh, RemoveFileFresh, AddEmptyFileFresh, LoadFresh
     DEF Edit
<1>3. ASSUME UNCHANGED cvars PROVE FreshInv'
  BY <1>3 DEF cvars, FreshInv, Unknown, Ahead, Coming, Current
<1> QED
  BY <1>1, <1>2, <1>3, RebuildFresh DEF CNext

-----------------------------------------------------------------------------
(***************************************************************************)
(* Copies: nobody changes an object that another thread has in hand, but   *)
(* the bump that this thread is known to race with.                        *)
(***************************************************************************)
LEMMA CopyOthers ==
  ASSUME Types, CopyInv, NEW t \in Worker, Others(t), UNCHANGED m,
         \A p \in Obj : metas'[p] = metas[p] \/ \A u \in Worker \ {t} : w[u].obj # p,
         CopyOf(t)', RacedOf(t)'
  PROVE  CopyInv'
<1>1. ASSUME NEW u \in Worker \ {t} PROVE CopyOf(u)' /\ RacedOf(u)'
  <2>1. w'[u] = w[u] /\ CopyOf(u) /\ RacedOf(u)
    BY DEF Others, CopyInv
  <2>2. w[u].pc = "copy" => w[u].obj \in Obj
    BY StoreTypes DEF LoopInv, LoopOf
  <2>3. w[u].pc = "copy" => metas'[w[u].obj] = metas[w[u].obj]
    BY <2>2
  <2> QED
    BY <2>1, <2>3 DEF CopyOf, RacedOf
<1> QED
  BY <1>1 DEF CopyInv

(* No thread looks a block up or makes an object while a bump is under way.*)
LEMMA NoBump == ASSUME Types, ~mutex PROVE m.pc = "idle"
BY DEF Types, ShapeInv

LEMMA LoopEntry ==
  ASSUME Types, NEW t \in Worker, w[t].pc # "copy"
  PROVE  DOMAIN w[t].copy = {}
BY StoreTypes DEF LoopInv, LoopOf

LEMMA FreshInHand ==
  ASSUME Types, FreshInv, NEW t \in Worker, w[t].pc = "getCollection"
  PROVE  Unknown(<<t, Current(t)>>)
<1>1. AtBlock(t)
  BY DEF AtBlock
<1>2. Current(t) \in Ahead(t)
  BY <1>1, CurrentIn DEF Ahead
<1> QED
  BY <1>2 DEF FreshInv

LEMMA WorkerCopy ==
  ASSUME Types, FreshInv, CopyInv, NEW t \in Worker, WorkerStep(t)
  PROVE  CopyInv'
<1>1. CASE HasFile(t)
  <2>1. Others(t) /\ UNCHANGED <<m, metas>> /\ CopyOf(t)' /\ RacedOf(t)'
    BY <1>1, HasFileIs, NoBump DEF CopyOf, RacedOf, NextTarget
  <2> QED
    BY <2>1, CopyOthers
<1>2. CASE AddFile(t)
  <2>1. Others(t) /\ UNCHANGED <<m, metas>> /\ CopyOf(t)' /\ RacedOf(t)'
    BY <1>2, AddFileIs, NoBump DEF CopyOf, RacedOf, NextTarget
  <2> QED
    BY <2>1, CopyOthers
<1>3. CASE GetMetadata(t)
  <2>1. Others(t) /\ UNCHANGED <<m, metas>> /\ CopyOf(t)' /\ RacedOf(t)'
    BY <1>3, GetMetadataIs, NoBump, LoopEntry DEF CopyOf, RacedOf
  <2> QED
    BY <2>1, CopyOthers
<1>4. CASE GetCollection(t)
  <2>1. Others(t) /\ UNCHANGED m /\ CopyOf(t)' /\ RacedOf(t)'
    BY <1>4, GetCollectionIs, NoBump DEF CopyOf, RacedOf
  <2>2. Unknown(<<t, Current(t)>>)
    BY <1>4, GetCollectionIs, FreshInHand
  <2>3. \A u \in Worker : w[u].obj # <<t, Current(t)>>
    BY <2>2 DEF Unknown
  <2>4. \A p \in Obj : metas'[p] = metas[p] \/ p = <<t, Current(t)>>
    BY <1>4, GetCollectionIs
  <2> QED
    BY <2>1, <2>3, <2>4, CopyOthers
<1>5. CASE SetEntry(t)
  <2>1. Others(t) /\ UNCHANGED <<m, metas>>
    BY <1>5, SetEntryIs
  <2>2. CopyOf(t)'
    BY <1>5, SetEntryIs, LoopEntry DEF CopyOf
  <2>3. RacedOf(t)'
    BY <1>5, SetEntryIs DEF RacedOf, CopyInv
  <2> QED
    BY <2>1, <2>2, <2>3, CopyOthers
<1>6. CASE CopyField(t)
  <2>1. Others(t) /\ UNCHANGED <<m, metas>> /\ RacedOf(t)'
    BY <1>6, CopyFieldIs DEF RacedOf, CopyInv
  <2>2. CopyOf(t)'
    <3>1. CopyOf(t) /\ w[t].pc = "copy" /\ w'[t].raced = w[t].raced /\ w'[t].obj = w[t].obj
      BY <1>6, CopyFieldIs DEF CopyInv
    <3>2. PICK f \in Field \ DOMAIN w[t].copy :
             w'[t].pc = "copy" => w'[t].copy = Copied(t, f)
      BY <1>6, CopyFieldIs DEF NextTarget
    <3>3. /\ DOMAIN Copied(t, f) = DOMAIN w[t].copy \cup {f}
          /\ Copied(t, f)[f] = metas[w[t].obj][f]
          /\ \A g \in DOMAIN w[t].copy : Copied(t, f)[g] = w[t].copy[g]
      BY <3>1, CopiedTypes
    <3> QED
      BY <2>1, <3>1, <3>2, <3>3 DEF CopyOf
  <2> QED
    BY <2>1, <2>2, CopyOthers
<1> QED
  BY <1>1, <1>2, <1>3, <1>4, <1>5, <1>6 DEF WorkerStep

(* A step of the maintaining thread that bumps nothing.                    *)
LEMMA EditCopy ==
  ASSUME Types, CopyInv, UNCHANGED w, m'.pc # "bump",
         \A p \in Obj : metas'[p] = metas[p] \/ \A u \in Worker : w[u].obj # p \/ w[u].raced
  PROVE  CopyInv'
<1>1. ASSUME NEW u \in Worker PROVE CopyOf(u)'
  <2>1. w'[u] = w[u] /\ CopyOf(u)
    BY DEF CopyInv
  <2>2. w[u].pc = "copy" => w[u].obj \in Obj
    BY StoreTypes DEF LoopInv, LoopOf
  <2>3. w[u].pc = "copy" /\ ~w[u].raced => metas'[w[u].obj] = metas[w[u].obj]
    BY <2>2
  <2> QED
    BY <2>1, <2>3 DEF CopyOf
<1> QED
  BY <1>1 DEF CopyInv, RacedOf

LEMMA BumpVersionCopy ==
  ASSUME Types, CopyInv, NEW b \in Block, BumpVersion(b)
  PROVE  CopyInv'
<1> SUFFICES ASSUME NEW t \in Worker PROVE CopyOf(t)' /\ RacedOf(t)'
  BY DEF CopyInv
<1> DEFINE o == coll[b - 1]
<1>1. /\ CopyOf(t) /\ w[t] \in WorkerRec /\ (w[t].pc = "copy" => w[t].obj \in Obj)
      /\ w[t].obj # o => w'[t] = w[t]
      /\ w[t].obj = o => w'[t] = [w[t] EXCEPT !.raced = TRUE]
      /\ m'.plan[m'.at - 1] = o
      /\ \A p \in Obj \ {o} : metas'[p] = metas[p]
  BY BumpVersionIs, StoreTypes DEF CopyInv, LoopInv, LoopOf
<1> HIDE DEF o
<1>2. CASE w[t].obj # o
  BY <1>1, <1>2 DEF CopyOf, RacedOf
<1>3. CASE w[t].obj = o
  <2>1. w'[t].raced
    BY <1>1, <1>3 DEF WorkerRec
  <2> QED
    BY <2>1 DEF CopyOf, RacedOf
<1> QED
  BY <1>2, <1>3

LEMMA StepCopy == ASSUME Types, FreshInv, CopyInv, [CNext]_cvars PROVE CopyInv'
<1>1. ASSUME NEW t \in Worker, WorkerStep(t) PROVE CopyInv'
  BY <1>1, WorkerCopy
<1>2. ASSUME Edit PROVE CopyInv'
  <2>1. ASSUME NEW b \in Block, BumpVersion(b) PROVE CopyInv'
    BY <2>1, BumpVersionCopy
  <2>2. ASSUME NEW b \in Block, CollectShifted(b) PROVE CopyInv'
    BY <2>2, CollectShiftedIs, EditCopy
  <2>3. ASSUME NEW b \in Block, CollectDelete(b) PROVE CopyInv'
    BY <2>3, CollectDeleteIs, EditCopy
  <2>4. CASE RemoveFile \/ AddEmptyFile \/ Load
    BY <2>4, ReattachIs, EditCopy DEF RemoveFile, AddEmptyFile, Load
  <2> QED
    BY <1>2, <2>1, <2>2, <2>3, <2>4 DEF Edit
<1>3. ASSUME Rebuild PROVE CopyInv'
  <2>1. CASE BumpTimestamp
    <3>1. \A u \in Worker : w[u].obj = m.plan[m.at - 1] => w[u].raced
      BY <2>1, BumpTimestampIs DEF CopyInv, RacedOf
    <3>2. \A p \in Obj : metas'[p] = metas[p] \/ p = m.plan[m.at - 1]
      BY <2>1, BumpTimestampIs
    <3>3. m'.pc # "bump" /\ UNCHANGED w
      BY <2>1, BumpTimestampIs
    <3> QED
      BY <3>1, <3>2, <3>3, EditCopy
  <2>2. CASE CollectBelow
    BY <2>2, CollectBelowIs, EditCopy
  <2>3. CASE Clear
    BY <2>3, ClearIs, EditCopy
  <2>4. CASE SetNext
    BY <2>4, SetNextIs, EditCopy
  <2>5. CASE Finish
    <3> DEFINE n == <<"maintainer", m.edits>>
    <3>1. m.edits \in Coming /\ m'.pc # "bump" /\ UNCHANGED w
      BY <2>5, FinishIs DEF Coming
    <3>2. \A u \in Worker : w[u].obj # n
      BY <3>1 DEF FreshInv, Unknown
    <3>3. \A p \in Obj : metas'[p] = metas[p] \/ p = n
      BY <2>5, FinishIs
    <3> HIDE DEF n
    <3> QED
      BY <3>1, <3>2, <3>3, EditCopy
  <2> QED
    BY <1>3, <2>1, <2>2, <2>3, <2>4, <2>5 DEF Rebuild
<1>4. ASSUME UNCHANGED cvars PROVE CopyInv'
  BY <1>4 DEF cvars, CopyInv, CopyOf, RacedOf
<1> QED
  BY <1>1, <1>2, <1>3, <1>4 DEF CNext

(* What is made is a copy, and nobody but the thread itself makes it.      *)
LEMMA StepWhole ==
  ASSUME Types, CopyInv, [CNext]_cvars, NEW t \in Worker, NEW b \in Block,
         w'[t].made[b] # w[t].made[b], ~w[t].raced
  PROVE  w'[t].made[b] = metas[w[t].obj]
<1>1. ASSUME NEW u \in Worker, WorkerStep(u)
      PROVE  \/ w'[t].made = w[t].made
             \/ CopyField(t)
  <2>1. Others(u)
    BY <1>1, HasFileIs, AddFileIs, GetMetadataIs, GetCollectionIs, SetEntryIs, CopyFieldIs
       DEF WorkerStep
  <2>2. CopyField(u) \/ w'[u].made = w[u].made
    BY <1>1, HasFileIs, AddFileIs, GetMetadataIs, GetCollectionIs, SetEntryIs DEF WorkerStep
  <2> QED
    BY <2>1, <2>2 DEF Others
<1>2. ASSUME Edit PROVE w'[t].made = w[t].made
  <2>1. ASSUME NEW c \in Block, BumpVersion(c) PROVE w'[t].made = w[t].made
    <3>1. w'[t] = w[t] \/ w'[t] = [w[t] EXCEPT !.raced = TRUE]
      BY <2>1, BumpVersionIs
    <3>2. w[t] \in WorkerRec
      BY StoreTypes
    <3> QED
      BY <3>1, <3>2 DEF WorkerRec
  <2>2. ASSUME NEW c \in Block, CollectShifted(c) PROVE w'[t].made = w[t].made
    BY <2>2, CollectShiftedIs
  <2>3. ASSUME NEW c \in Block, CollectDelete(c) PROVE w'[t].made = w[t].made
    BY <2>3, CollectDeleteIs
  <2>4. CASE RemoveFile \/ AddEmptyFile \/ Load
    BY <2>4, ReattachIs DEF RemoveFile, AddEmptyFile, Load
  <2> QED
    BY <1>2, <2>1, <2>2, <2>3, <2>4 DEF Edit
<1>3. ASSUME Rebuild PROVE w'[t].made = w[t].made
  BY <1>3, BumpTimestampIs, CollectBelowIs, ClearIs, SetNextIs, FinishIs DEF Rebuild
<1>4. CopyField(t)
  BY <1>1, <1>2, <1>3 DEF CNext, cvars
<1>5. PICK f \in Field \ DOMAIN w[t].copy :
        /\ DOMAIN Copied(t, f) = Field
        /\ w'[t].made = [w[t].made EXCEPT ![Current(t)] = Copied(t, f)]
  BY <1>4, CopyFieldIs
<1> DEFINE c == Copied(t, f)
<1>6. /\ w[t].obj \in Obj /\ c \in Meta
      /\ DOMAIN c = DOMAIN w[t].copy \cup {f}
      /\ c[f] = metas[w[t].obj][f]
      /\ \A g \in DOMAIN w[t].copy : c[g] = w[t].copy[g]
  <2>1. w[t].pc = "copy"
    BY <1>4, CopyFieldIs
  <2>2. DOMAIN Copied(t, f) = Field
    BY <1>5
  <2>3. w[t].obj \in Obj /\ Copied(t, f) \in Meta
    BY <2>1, <2>2, CopiedTypes
  <2>4. /\ DOMAIN Copied(t, f) = DOMAIN w[t].copy \cup {f}
        /\ Copied(t, f)[f] = metas[w[t].obj][f]
        /\ \A g \in DOMAIN w[t].copy : Copied(t, f)[g] = w[t].copy[g]
    BY <2>1, CopiedTypes
  <2> QED
    BY <2>3, <2>4
<1>7. \A g \in DOMAIN w[t].copy : w[t].copy[g] = metas[w[t].obj][g]
  BY <1>4, CopyFieldIs DEF CopyInv, CopyOf
<1>8. w'[t].made[b] = c
  <2>1. w[t].made \in [Block -> Meta \cup {Null}]
    BY StoreTypes DEF WorkerRec
  <2> QED
    BY <1>5, <2>1
<1> HIDE DEF c
<1>9. c["version"] = metas[w[t].obj]["version"] /\ c["timestamp"] = metas[w[t].obj]["timestamp"]
  BY <1>5, <1>6, <1>7 DEF Field, c
<1>10. c = metas[w[t].obj]
  <2>1. metas[w[t].obj] \in Meta
    BY <1>6, StoreTypes
  <2> QED
    BY <1>6, <1>9, <2>1 DEF Meta
<1> QED
  BY <1>8, <1>10

(***************************************************************************)
(* CopiesAreWhole: the metadata that a tag or an item of a challenge is    *)
(* made from is that of one moment, unless the very object was bumped      *)
(* between its lookup and the end of the copy.                             *)
(***************************************************************************)
THEOREM ConcCopiesAreWhole == CSpec => CopiesAreWhole
<1> DEFINE I == Types /\ FreshInv /\ CopyInv
<1>1. CInit => I
  BY InitTypes, InitFresh
<1>2. I /\ [CNext]_cvars => I'
  BY StepTypes, StepFresh, StepCopy
<1>3. I /\ [CNext]_cvars =>
        [\A t \in Worker : \A b \in Block :
           w'[t].made[b] # w[t].made[b] => w[t].raced \/ w'[t].made[b] = metas[w[t].obj]]_cvars
  BY StepWhole
<1> HIDE DEF I
<1> QED
  BY <1>1, <1>2, <1>3, PTL DEF CSpec, CopiesAreWhole

-----------------------------------------------------------------------------
(***************************************************************************)
(* The blocks that last are found in the store.                            *)
(***************************************************************************)

(* The collection of the file after an entry of some collection is set.    *)
LEMMA CollAfterSet ==
  ASSUME Types, NEW c \in DOMAIN colls, NEW j, NEW o, UNCHANGED attached,
         colls' = [colls EXCEPT ![c][j] = o]
  PROVE  /\ known' = known
         /\ \A i \in Index : coll'[i] = IF known /\ c = attached /\ i = j THEN o ELSE coll[i]
<1>1. known' = known
  BY DEF known
<1>2. CASE known
  <2>1. coll' = colls'[attached] /\ coll = colls[attached] /\ attached \in DOMAIN colls
    BY <1>1, <1>2, CollTypes DEF coll
  <2>2. colls'[attached] = IF c = attached THEN [colls[c] EXCEPT ![j] = o] ELSE colls[attached]
    BY <2>1
  <2>3. colls[attached] \in [Index -> Obj \cup {Null}]
    BY <2>1, CollTypes
  <2> QED
    BY <1>1, <1>2, <2>1, <2>2, <2>3
<1>3. CASE ~known
  BY <1>1, <1>3 DEF coll
<1> QED
  BY <1>2, <1>3

LEMMA CollAfterAppend ==
  ASSUME Types, NEW c \in [Index -> Obj \cup {Null}],
         colls' = Append(colls, c), attached' = Len(colls')
  PROVE  known' /\ coll' = c
<1> DEFINE C == [Index -> Obj \cup {Null}]
<1>1. c \in C /\ colls \in Seq(C)
  BY StoreTypes
<1> HIDE DEF C
<1>2. attached' = Len(colls) + 1 /\ colls'[attached'] = c /\ Len(colls) \in Nat
  BY <1>1
<1> QED
  BY <1>2 DEF known, coll

LEMMA SameColl ==
  ASSUME UNCHANGED <<colls, attached>>
  PROVE  known' = known /\ coll' = coll
BY DEF known, coll

(* As edits are made, fewer blocks are sure to be there.                   *)
LEMMA PresentShrinks ==
  ASSUME Types, Dense, UNCHANGED scene, NEW k \in {0, 1}, m'.edits = m.edits + k,
         NEW b, b \in Present'
  PROVE  b \in Present /\ b \in Block /\ b - 1 \in Index
<1>1. b \in scene.registered /\ ("delete" \in scene.edits => b + m'.edits \in scene.registered)
  BY DEF Present
<1>2. b \in Block /\ b - 1 \in Index
  BY <1>1, SceneTypes, BoundsAssumption DEF Block, Index
<1>3. ASSUME "delete" \in scene.edits PROVE b + m.edits \in scene.registered
  <2>1. PICK n \in 0..MaxBlock : scene.registered = 1..n
    BY <1>3 DEF Types, ShapeInv, Dense, Rebuilt
  <2>2. n \in Nat /\ m.edits \in Nat /\ b \in 1..n /\ b + (m.edits + k) \in 1..n
    BY <1>1, <1>3, <2>1, StoreTypes, BoundsAssumption
  <2>3. b + m.edits \in 1..n
    BY <2>2
  <2> QED
    BY <2>1, <2>3
<1> QED
  BY <1>1, <1>2, <1>3 DEF Present

(* In a file without gaps the block before or after is there as well.      *)
LEMMA PresentBefore ==
  ASSUME Types, Dense, "insert" \in scene.edits, NEW b \in Present, b > 1
  PROVE  b - 1 \in Present
<1>1. PICK n \in 0..MaxBlock : scene.registered = 1..n
  BY DEF Types, ShapeInv, Dense, Rebuilt
<1>2. n \in Nat /\ m.edits \in Nat /\ b \in 1..n
  BY <1>1, StoreTypes, BoundsAssumption DEF Present
<1>3. b - 1 \in scene.registered
  BY <1>1, <1>2
<1>4. ASSUME "delete" \in scene.edits PROVE (b - 1) + m.edits \in scene.registered
  <2>1. b + m.edits \in 1..n
    BY <1>1, <1>4 DEF Present
  <2>2. (b - 1) + m.edits \in 1..n
    BY <1>2, <2>1
  <2> QED
    BY <1>1, <2>2
<1> QED
  BY <1>3, <1>4 DEF Present

LEMMA PresentAfter ==
  ASSUME Types, Dense, "delete" \in scene.edits, NEW b, b \in scene.registered,
         b + m.edits + 1 \in scene.registered
  PROVE  b \in Present /\ b + 1 \in Present
<1>1. PICK n \in 0..MaxBlock : scene.registered = 1..n
  BY DEF Types, ShapeInv, Dense, Rebuilt
<1>2. n \in Nat /\ m.edits \in Nat /\ b \in 1..n /\ b + m.edits + 1 \in 1..n
  BY <1>1, StoreTypes, BoundsAssumption
<1>3. b + 1 \in 1..n /\ b + m.edits \in 1..n /\ (b + 1) + m.edits \in 1..n
  BY <1>2
<1> QED
  BY <1>1, <1>2, <1>3 DEF Present

LEMMA LastingPresent ==
  ASSUME Types, Dense, NEW b \in Lasting
  PROVE  b \in Present /\ Kept
<1>1. b \in scene.registered /\ "remove" \notin scene.edits
  BY DEF Lasting
<1>2. ASSUME "delete" \in scene.edits PROVE b + m.edits \in scene.registered
  <2>1. PICK n \in 0..MaxBlock : scene.registered = 1..n
    BY <1>2 DEF Types, ShapeInv, Dense, Rebuilt
  <2>2. b + MaxEdits \in scene.registered /\ m.edits \in 0..MaxEdits
    BY <1>2, StoreTypes DEF Lasting, MaintainerRec
  <2> QED
    BY <1>1, <2>1, <2>2, BoundsAssumption
<1> QED
  BY <1>1, <1>2 DEF Present, Kept

LEMMA InitPresent == CInit => PresentInv /\ FileInv
<1> SUFFICES ASSUME CInit PROVE PresentInv /\ FileInv
  OBVIOUS
<1>1. Types /\ m.pc = "idle" /\ m.moves = 0
  BY InitTypes DEF CInit
<1>2. \A u \in Worker : w[u].pc = "hasFile" /\ w[u].begun.moves = 0
  BY <1>1 DEF CInit, Seen
<1>3. FileInv
  BY <1>1, <1>2 DEF FileInv, FileOf, AtBlock
<1>4. ASSUME Kept PROVE known /\ \A b \in Present : Safe(b)
  <2>1. attached = 1 /\ colls = <<Holding("prepared")>>
    BY <1>4 DEF CInit, Kept
  <2>2. known /\ coll = Holding("prepared")
    BY <2>1 DEF known, coll
  <2>3. ASSUME NEW b \in Present PROVE coll[b - 1] # Null
    <3>1. b \in scene.registered /\ b - 1 \in Index /\ (b - 1) + 1 = b
      BY <1>1, SceneTypes, BoundsAssumption DEF Present, Block, Index
    <3>2. coll[b - 1] = <<"prepared", b>>
      BY <1>1, <2>2, <3>1, HoldingTypes
    <3>3. <<"prepared", b>> \in Obj
      BY <1>1, <3>1, SceneTypes DEF Obj
    <3> QED
      BY <3>2, <3>3, NullAssumption
  <2> QED
    BY <1>1, <2>2, <2>3 DEF Safe
<1> QED
  BY <1>3, <1>4 DEF PresentInv

(* A step that drops no entry and does not touch the plan.                 *)
LEMMA PresentKept ==
  ASSUME Types, PresentInv, UNCHANGED <<scene, m>>, known => known',
         \A i \in Index : known /\ coll[i] # Null => coll'[i] # Null
  PROVE  PresentInv'
<1> SUFFICES ASSUME Kept PROVE known' /\ \A b \in Present : Safe(b)'
  BY DEF PresentInv, Kept, Present
<1>1. known /\ \A b \in Present : Safe(b) /\ b - 1 \in Index
  BY SceneTypes, BoundsAssumption DEF PresentInv, Present, Block, Index
<1> QED
  BY <1>1 DEF Safe

LEMMA WorkerPresent ==
  ASSUME Types, PresentInv, NEW t \in Worker, WorkerStep(t)
  PROVE  PresentInv'
<1>1. CASE HasFile(t)
  BY <1>1, HasFileIs, SameColl, PresentKept
<1>2. CASE AddFile(t)
  <2>1. CASE known
    BY <1>2, <2>1, AddFileIs, SameColl, PresentKept
  <2>2. CASE ~known
    <3>1. ~Kept /\ UNCHANGED scene
      BY <1>2, <2>2, AddFileIs DEF PresentInv
    <3> QED
      BY <3>1 DEF PresentInv, Kept
  <2> QED
    BY <2>1, <2>2
<1>3. CASE GetMetadata(t)
  <2>1. UNCHANGED <<scene, m, colls, attached>>
    BY <1>3, GetMetadataIs
  <2> QED
    BY <2>1, SameColl, PresentKept
<1>4. CASE GetCollection(t)
  BY <1>4, GetCollectionIs, SameColl, PresentKept
<1>5. CASE SetEntry(t)
  <2>1. known' = known /\ \A i \in Index : coll'[i] \in {w[t].obj, coll[i]}
    <3> DEFINE i0 == Current(t) - 1
               c0 == w[t].coll
               o0 == w[t].obj
    <3>1. /\ colls' = [colls EXCEPT ![c0][i0] = o0] /\ c0 \in DOMAIN colls
          /\ UNCHANGED attached
      BY <1>5, SetEntryIs
    <3>2. o0 = w[t].obj
      OBVIOUS
    <3> HIDE DEF i0, c0, o0
    <3>3. known' = known /\ \A i \in Index : coll'[i] \in {o0, coll[i]}
      BY <3>1, CollAfterSet
    <3> QED
      BY <3>2, <3>3
  <2>2. w[t].obj \in Obj /\ UNCHANGED <<scene, m>>
    BY <1>5, SetEntryIs, CurrentIn
  <2> QED
    BY <2>1, <2>2, CollTypes, PresentKept
<1>6. CASE CopyField(t)
  BY <1>6, CopyFieldIs, SameColl, PresentKept
<1> QED
  BY <1>1, <1>2, <1>3, <1>4, <1>5, <1>6 DEF WorkerStep

LEMMA BumpVersionPresent ==
  ASSUME Types, Dense, PresentInv, NEW b \in Block, BumpVersion(b)
  PROVE  PresentInv'
<1> SUFFICES ASSUME Kept, NEW c, c \in Present' PROVE known' /\ Safe(c)'
  BY BumpVersionIs, SameColl DEF PresentInv, Kept
<1>1. c \in Present /\ c - 1 \in Index
  BY BumpVersionIs, PresentShrinks
<1>2. coll[c - 1] # Null
  BY <1>1, BumpVersionIs DEF PresentInv, Safe
<1>3. known' /\ coll' = coll /\ m'.pc = "bump"
  BY BumpVersionIs, SameColl
<1> QED
  BY <1>2, <1>3 DEF Safe

LEMMA CollectShiftedPresent ==
  ASSUME Types, Dense, PresentInv, NEW b \in Block, CollectShifted(b)
  PROVE  PresentInv'
<1> SUFFICES ASSUME Kept, NEW c, c \in Present' PROVE known' /\ Safe(c)'
  BY CollectShiftedIs, SameColl DEF PresentInv, Kept
<1>1. c \in Present /\ c - 1 \in Index /\ c \in Block
  BY CollectShiftedIs, PresentShrinks
<1>2. \A d \in Present : coll[d - 1] # Null
  BY CollectShiftedIs DEF PresentInv, Safe
<1>3. ASSUME c > b PROVE c - 1 \in DOMAIN m'.plan
  <2>1. c \in Nat /\ b \in Nat /\ b >= 1
    BY <1>1, BoundsAssumption DEF Block
  <2>2. c - 1 \in Present
    BY <1>1, <1>3, <2>1, CollectShiftedIs, PresentBefore
  <2>3. (c - 1) - 1 \in Index
    BY <1>1, <1>3, <2>1, BoundsAssumption DEF Index
  <2>4. (c - 1) - 1 \in Stored(coll)
    BY <1>2, <2>2, <2>3 DEF Stored
  <2>5. (c - 1) - 1 >= b - 1 /\ c - 1 \in Int
    BY <1>3, <2>1
  <2> QED
    BY <2>4, <2>5, CollectShiftedIs
<1>4. /\ known' /\ coll' = coll /\ m'.pc \in {"below", "set"} /\ m'.at = b /\ m'.op = "insert"
      /\ m'.pc = "set" => DOMAIN m'.plan = {}
  BY CollectShiftedIs, SameColl
<1>5. c < b \/ c = b \/ c > b
  BY <1>1, BoundsAssumption DEF Block
<1> QED
  BY <1>1, <1>2, <1>3, <1>4, <1>5 DEF Safe

LEMMA CollectDeletePresent ==
  ASSUME Types, Dense, PresentInv, NEW b \in Block, CollectDelete(b)
  PROVE  PresentInv'
<1> SUFFICES ASSUME Kept, NEW c, c \in Present' PROVE known' /\ Safe(c)'
  BY CollectDeleteIs, SameColl DEF PresentInv, Kept
<1>1. c \in Present /\ c - 1 \in Index /\ c \in Block
  BY CollectDeleteIs, PresentShrinks
<1>2. \A d \in Present : coll[d - 1] # Null
  BY CollectDeleteIs DEF PresentInv, Safe
<1>3. c - 1 \in DOMAIN m'.plan
  <2>1. c \in Nat /\ b \in Nat /\ b >= 1 /\ m.edits \in Nat
    BY <1>1, BoundsAssumption, StoreTypes DEF Block
  <2>2. CASE c - 1 < b - 1
    BY <1>1, <1>2, <2>2, CollectDeleteIs
  <2>3. CASE c - 1 >= b - 1
    <3>1. c + m'.edits \in scene.registered /\ m'.edits = m.edits + 1
      BY CollectDeleteIs DEF Present
    <3>2. c + m.edits + 1 \in scene.registered
      BY <2>1, <3>1
    <3>3. c \in scene.registered /\ c + 1 \in Present
      BY <1>1, <3>2, CollectDeleteIs, PresentAfter DEF Present
    <3>4. coll[(c + 1) - 1] # Null /\ c + 1 \in Block
      BY <1>2, <3>3, SceneTypes DEF Present
    <3>5. (c + 1) - 1 = (c - 1) + 1 /\ c - 1 < SizeMax
      BY <2>1, <3>4, BoundsAssumption DEF Block
    <3>6. coll[(c - 1) + 1] # Null
      BY <3>4, <3>5
    <3> QED
      BY <1>1, <2>3, <3>5, <3>6, CollectDeleteIs
  <2> QED
    BY <2>1, <2>2, <2>3
<1>4. known' /\ m'.pc = "clear"
  BY CollectDeleteIs, SameColl
<1> QED
  BY <1>3, <1>4 DEF Safe

LEMMA ReattachPresent ==
  ASSUME Types, Dense, PresentInv, RemoveFile \/ AddEmptyFile \/ Load
  PROVE  PresentInv'
<1>1. CASE RemoveFile
  <2>1. ~Kept /\ UNCHANGED scene
    BY <1>1, ReattachIs DEF RemoveFile, Kept
  <2> QED
    BY <2>1 DEF PresentInv, Kept
<1>2. CASE AddEmptyFile
  <2>1. ~Kept /\ UNCHANGED scene
    BY <1>2, ReattachIs DEF AddEmptyFile, PresentInv
  <2> QED
    BY <2>1 DEF PresentInv, Kept
<1>3. CASE Load
  <2> DEFINE h == Holding("loaded")
  <2>1. h \in [Index -> Obj \cup {Null}] /\ h # Null
    BY HoldingTypes, NullAssumption
  <2>2. Reattach("load", h)
    BY <1>3 DEF Load
  <2> HIDE DEF h
  <2>3. UNCHANGED scene /\ known' /\ coll' = h /\ m'.pc = "idle" /\ m'.edits = m.edits + 1
    BY <2>1, <2>2, ReattachIs, CollAfterAppend
  <2>4. ASSUME NEW b, b \in Present' PROVE h[b - 1] # Null
    <3>1. b \in scene.registered /\ b \in Block
      <4>1. scene.registered \subseteq Block
        BY SceneTypes
      <4>2. b \in scene'.registered
        BY <2>4 DEF Present
      <4> QED
        BY <2>3, <4>1, <4>2
    <3>2. b - 1 \in Index /\ (b - 1) + 1 = b
      BY <3>1, BoundsAssumption DEF Block, Index
    <3>3. h[b - 1] = <<"loaded", b>>
      BY <3>1, <3>2, HoldingTypes DEF h
    <3>4. <<"loaded", b>> \in Obj
      BY <3>1 DEF Obj
    <3> QED
      BY <3>3, <3>4, NullAssumption
  <2> QED
    BY <2>3, <2>4 DEF PresentInv, Safe
<1> QED
  BY <1>1, <1>2, <1>3

LEMMA RebuildPresent ==
  ASSUME Types, Dense, PresentInv, Rebuild
  PROVE  PresentInv'
<1>0. UNCHANGED scene /\ m'.edits = m.edits /\ known' = known /\ m'.at = m.at /\ m'.op = m.op
  <2>1. UNCHANGED attached => known' = known
    BY DEF known
  <2> QED
    BY <2>1, BumpTimestampIs, CollectBelowIs, ClearIs, SetNextIs, FinishIs DEF Rebuild
<1> SUFFICES ASSUME Kept, NEW b \in Present PROVE known' /\ Safe(b)'
  BY <1>0 DEF PresentInv, Kept, Present
<1>1. known /\ Safe(b) /\ b \in Block /\ b - 1 \in Index
  BY SceneTypes, BoundsAssumption DEF PresentInv, Present, Block, Index
<1>2. CASE BumpTimestamp
  BY <1>0, <1>1, <1>2, BumpTimestampIs, SameColl DEF Safe
<1>3. CASE CollectBelow
  <2>1. b < m.at => b - 1 \in Stored(coll) /\ b - 1 \in 0..(m.at - 2)
    <3>1. m.at \in Nat /\ b \in Nat /\ b >= 1
      BY <1>1, BoundsAssumption, StoreTypes DEF Block, MaintainerRec
    <3>2. b < m.at => coll[b - 1] # Null
      BY <1>1, <1>3, CollectBelowIs DEF Safe
    <3> QED
      BY <1>1, <3>1, <3>2 DEF Stored
  <2>2. b < m.at \/ b = m.at \/ b > m.at
    BY <1>1, BoundsAssumption, StoreTypes DEF Block, MaintainerRec
  <2>3. b > m.at => b - 1 \in DOMAIN m.plan
    BY <1>1, <1>3, CollectBelowIs DEF Safe
  <2> QED
    BY <1>0, <1>1, <1>3, <2>1, <2>2, <2>3, CollectBelowIs DEF Safe
<1>4. CASE Clear
  <2>1. m.pc = "clear" /\ m'.pc = "set" /\ m'.plan = m.plan
    BY <1>4, ClearIs
  <2> QED
    BY <1>0, <1>1, <2>1 DEF Safe
<1>5. CASE SetNext
  <2> DEFINE i == Min(DOMAIN m.plan)
             o == m.plan[i]
  <2>1. /\ m.pc = "set" /\ m'.pc = "set" /\ o \in Obj /\ DOMAIN m'.plan = DOMAIN m.plan \ {i}
        /\ colls' = [colls EXCEPT ![attached][i] = o] /\ UNCHANGED attached
    BY <1>5, SetNextIs
  <2> HIDE DEF i, o
  <2>2. coll'[b - 1] = IF b - 1 = i THEN o ELSE coll[b - 1]
    <3>1. attached \in DOMAIN colls
      BY <1>1, CollTypes
    <3>2. \A k \in Index : coll'[k] = IF known /\ attached = attached /\ k = i THEN o ELSE coll[k]
      BY <2>1, <3>1, CollAfterSet
    <3> QED
      BY <1>1, <3>2
  <2> QED
    BY <1>0, <1>1, <2>1, <2>2, NullAssumption DEF Safe
<1>6. CASE Finish
  <2> DEFINE o == <<"maintainer", m.edits>>
  <2>1. m.pc = "set" /\ m'.pc = "idle" /\ DOMAIN m.plan = {} /\ UNCHANGED attached /\ o \in Obj
    BY <1>6, FinishIs
  <2>2. CASE m.op # "insert"
    <3>1. coll' = coll
      BY <1>6, <2>2, FinishIs, SameColl
    <3> QED
      BY <1>0, <1>1, <2>1, <2>2, <3>1 DEF Safe
  <2>3. CASE m.op = "insert"
    <3> DEFINE i == m.at - 1
    <3>0. UNCHANGED attached
      BY <2>1
    <3>1. colls' = [colls EXCEPT ![attached][i] = o]
      BY <1>6, <2>3, FinishIs
    <3>2. b = m.at => b - 1 = i
      OBVIOUS
    <3> HIDE DEF i, o
    <3>3. coll'[b - 1] = IF b - 1 = i THEN o ELSE coll[b - 1]
      <4>1. attached \in DOMAIN colls
        BY <1>1, CollTypes
      <4>2. \A k \in Index : coll'[k] = IF known /\ attached = attached /\ k = i THEN o ELSE coll[k]
        BY <3>0, <3>1, <4>1, CollAfterSet
      <4> QED
        BY <1>1, <4>2
    <3> QED
      BY <1>0, <1>1, <2>1, <2>3, <3>2, <3>3, NullAssumption DEF Safe
  <2> QED
    BY <2>2, <2>3
<1> QED
  BY <1>2, <1>3, <1>4, <1>5, <1>6 DEF Rebuild

LEMMA StepPresent == ASSUME Types, Dense, PresentInv, [CNext]_cvars PROVE PresentInv'
<1>1. ASSUME UNCHANGED cvars PROVE PresentInv'
  BY <1>1, SameColl, PresentKept DEF cvars
<1>2. ASSUME NEW t \in Worker, WorkerStep(t) PROVE PresentInv'
  BY <1>2, WorkerPresent
<1>3. ASSUME Edit PROVE PresentInv'
  BY <1>3, BumpVersionPresent, CollectShiftedPresent, CollectDeletePresent, ReattachPresent
     DEF Edit
<1> QED
  BY <1>1, <1>2, <1>3, RebuildPresent DEF CNext

-----------------------------------------------------------------------------
(***************************************************************************)
(* Who has the file, and who fails.                                        *)
(***************************************************************************)

(* The maintaining thread and the other threads leave a thread alone, but  *)
(* for the note that it races with a bump.                                 *)
LEMMA LeftAlone ==
  ASSUME Types, [CNext]_cvars, NEW t \in Worker
  PROVE  \/ WorkerStep(t)
         \/ /\ w'[t].pc = w[t].pc /\ w'[t].todo = w[t].todo /\ w'[t].begun = w[t].begun
            /\ w'[t].obj = w[t].obj /\ w'[t].coll = w[t].coll /\ w'[t].made = w[t].made
            /\ w'[t] = w[t] \/ \E b \in Block : BumpVersion(b)
<1>1. ASSUME NEW u \in Worker \ {t}, WorkerStep(u) PROVE w'[t] = w[t]
  <2>1. Others(u)
    BY <1>1, HasFileIs, AddFileIs, GetMetadataIs, GetCollectionIs, SetEntryIs, CopyFieldIs
       DEF WorkerStep
  <2> QED
    BY <2>1 DEF Others
<1>2. ASSUME NEW c \in Block, BumpVersion(c)
      PROVE  /\ w'[t].pc = w[t].pc /\ w'[t].todo = w[t].todo /\ w'[t].begun = w[t].begun
             /\ w'[t].obj = w[t].obj /\ w'[t].coll = w[t].coll /\ w'[t].made = w[t].made
  <2>1. w'[t] = w[t] \/ w'[t] = [w[t] EXCEPT !.raced = TRUE]
    BY <1>2, BumpVersionIs
  <2>2. w[t] \in WorkerRec
    BY StoreTypes
  <2> QED
    BY <2>1, <2>2 DEF WorkerRec
<1>3. ASSUME Edit, \A b \in Block : ~BumpVersion(b) PROVE w' = w
  <2>1. ASSUME NEW c \in Block, CollectShifted(c) PROVE w' = w
    BY <2>1, CollectShiftedIs
  <2>2. ASSUME NEW c \in Block, CollectDelete(c) PROVE w' = w
    BY <2>2, CollectDeleteIs
  <2>3. CASE RemoveFile \/ AddEmptyFile \/ Load
    BY <2>3, ReattachIs DEF RemoveFile, AddEmptyFile, Load
  <2> QED
    BY <1>3, <2>1, <2>2, <2>3 DEF Edit
<1>4. ASSUME Rebuild PROVE w' = w
  BY <1>4, BumpTimestampIs, CollectBelowIs, ClearIs, SetNextIs, FinishIs DEF Rebuild
<1>5. ASSUME UNCHANGED cvars PROVE w' = w
  BY <1>5 DEF cvars
<1> QED
  BY <1>1, <1>2, <1>3, <1>4, <1>5 DEF CNext

(* What a step does to the counters of the maintaining thread and to the   *)
(* file.                                                                   *)
LEMMA MovesGrow ==
  ASSUME Types, [CNext]_cvars
  PROVE  /\ UNCHANGED scene
         /\ m.moves \in Nat /\ m'.moves \in {m.moves, m.moves + 1}
         /\ m'.moves = m.moves /\ known => known'
         /\ m'.moves = m.moves /\ ~known =>
              known' = FALSE \/ \E t \in Worker : AddFile(t)
<1>1. m.moves \in Nat
  BY StoreTypes DEF MaintainerRec
<1>2. ASSUME NEW t \in Worker, WorkerStep(t)
      PROVE  UNCHANGED <<scene, m>> /\ (known => known') /\ (~known => known' = FALSE \/ AddFile(t))
  <2>1. CASE AddFile(t)
    <3>1. known => known'
      BY <2>1, AddFileIs DEF known
    <3> QED
      BY <2>1, <3>1, AddFileIs
  <2>2. CASE ~AddFile(t)
    <3>1. UNCHANGED <<scene, m, attached>>
      BY <1>2, <2>2, HasFileIs, GetMetadataIs, GetCollectionIs, SetEntryIs, CopyFieldIs
         DEF WorkerStep
    <3> QED
      BY <3>1 DEF known
  <2> QED
    BY <2>1, <2>2
<1>3. ASSUME Edit
      PROVE  /\ UNCHANGED scene
             /\ m'.moves = m.moves + 1 \/ (UNCHANGED attached /\ m'.moves = m.moves)
  <2>1. ASSUME NEW c \in Block, BumpVersion(c) PROVE UNCHANGED <<scene, attached>> /\ m'.moves = m.moves
    BY <2>1, BumpVersionIs
  <2>2. ASSUME NEW c \in Block, CollectShifted(c) PROVE UNCHANGED <<scene, attached>> /\ m'.moves = m.moves
    BY <2>2, CollectShiftedIs
  <2>3. ASSUME NEW c \in Block, CollectDelete(c) PROVE UNCHANGED <<scene, attached>> /\ m'.moves = m.moves
    BY <2>3, CollectDeleteIs
  <2>4. ASSUME RemoveFile \/ AddEmptyFile \/ Load PROVE UNCHANGED scene /\ m'.moves = m.moves + 1
    BY <2>4, ReattachIs DEF RemoveFile, AddEmptyFile, Load
  <2> QED
    BY <1>3, <2>1, <2>2, <2>3, <2>4 DEF Edit
<1>4. ASSUME Rebuild PROVE UNCHANGED <<scene, attached>> /\ m'.moves = m.moves
  BY <1>4, BumpTimestampIs, CollectBelowIs, ClearIs, SetNextIs, FinishIs DEF Rebuild
<1>5. ASSUME UNCHANGED cvars PROVE UNCHANGED <<scene, attached, m>>
  BY <1>5 DEF cvars
<1>6. UNCHANGED attached => (known => known') /\ (~known => known' = FALSE)
  BY DEF known
<1>7. CASE \E t \in Worker : WorkerStep(t)
  BY <1>1, <1>2, <1>7
<1>8. CASE Edit
  BY <1>1, <1>3, <1>6, <1>8
<1>9. CASE Rebuild \/ UNCHANGED cvars
  BY <1>1, <1>4, <1>5, <1>6, <1>9
<1> QED
  BY <1>7, <1>8, <1>9 DEF CNext

LEMMA StepFile ==
  ASSUME Types, OneAdds, FileInv, [CNext]_cvars
  PROVE  FileInv'
<1> SUFFICES ASSUME NEW t \in Worker PROVE FileOf(t)'
  BY DEF FileInv
<1>1. /\ w[t].begun.moves \in Nat /\ FileOf(t) /\ UNCHANGED scene
      /\ m.moves \in Nat /\ m'.moves \in {m.moves, m.moves + 1}
  BY StoreTypes, MovesGrow DEF FileInv, WorkerRec
<1>2. CASE WorkerStep(t)
  <2>1. CASE HasFile(t)
    <3>1. UNCHANGED <<m, attached>> /\ w'[t].begun.moves = m.moves
      BY <2>1, HasFileIs DEF Seen
    <3>2. known' = known /\ m'.moves = m.moves
      BY <3>1 DEF known
    <3>3. /\ w'[t].pc = "addFile" => ~known /\ scene.role[t] = "tags" /\ t \in scene.early
          /\ w'[t].pc \in {"getMetadata", "getCollection", "set", "copy"} => known
      BY <2>1, HasFileIs DEF NextTarget, MayStart
    <3> QED
      BY <1>1, <3>1, <3>2, <3>3 DEF FileOf, AtBlock
  <2>2. CASE AddFile(t)
    <3>1. UNCHANGED m /\ w'[t].begun = w[t].begun /\ w'[t].pc # "addFile"
      BY <2>2, AddFileIs DEF NextTarget
    <3>2. w'[t].pc = "failed" \/ known'
      <4>1. CASE known
        BY <2>2, <4>1, AddFileIs
      <4>2. CASE ~known
        BY <2>2, <4>2, AddFileIs, CollTypes, CollAfterAppend
      <4> QED
        BY <4>1, <4>2
    <3> QED
      BY <1>1, <3>1, <3>2 DEF FileOf, AtBlock
  <2>3. CASE ~HasFile(t) /\ ~AddFile(t)
    <3>1. UNCHANGED <<m, attached>> /\ w'[t].begun = w[t].begun /\ w'[t].pc # "addFile" /\ AtBlock(t)
      BY <1>2, <2>3, GetMetadataIs, GetCollectionIs, SetEntryIs, CopyFieldIs
         DEF WorkerStep, NextTarget
    <3>2. known' = known
      BY <3>1 DEF known
    <3> QED
      BY <1>1, <3>1, <3>2 DEF FileOf
  <2> QED
    BY <2>1, <2>2, <2>3
<1>3. CASE ~WorkerStep(t)
  <2>1. w'[t].pc = w[t].pc /\ w'[t].begun = w[t].begun
    BY <1>3, LeftAlone
  <2>2. CASE m'.moves = m.moves + 1
    BY <1>1, <2>1, <2>2 DEF FileOf, AtBlock
  <2>3. CASE m'.moves = m.moves
    <3>1. known => known'
      BY <2>3, MovesGrow
    <3>2. ASSUME w[t].pc = "addFile", ~known PROVE known' = FALSE
      <4>1. ASSUME NEW u \in Worker, AddFile(u) PROVE FALSE
        <5>1. w[u].pc = "addFile" /\ u # t
          BY <1>3, <4>1, AddFileIs DEF WorkerStep
        <5>2. /\ scene.role[t] = "tags" /\ t \in scene.early
              /\ scene.role[u] = "tags" /\ u \in scene.early
          BY <3>2, <5>1 DEF FileInv, FileOf
        <5> QED
          BY <5>1, <5>2 DEF OneAdds, Types, ShapeInv
      <4> QED
        BY <2>3, <3>2, <4>1, MovesGrow
    <3> QED
      BY <1>1, <2>1, <2>3, <3>1, <3>2 DEF FileOf, AtBlock
  <2> QED
    BY <1>1, <2>2, <2>3
<1> QED
  BY <1>2, <1>3

(* A lookup of a block that lasts finds it.                                *)
LEMMA LastingFound ==
  ASSUME Types, Dense, PresentInv, NEW t \in Worker, GetMetadata(t), Current(t) \in Lasting
  PROVE  coll[Current(t) - 1] # Null
<1>1. Current(t) \in Present /\ Kept
  BY LastingPresent
<1>2. m.pc = "idle"
  BY GetMetadataIs, NoBump
<1> QED
  BY <1>1, <1>2 DEF PresentInv, Safe

LEMMA StepRegisters ==
  ASSUME Types, Dense, PresentInv, [CNext]_cvars, NEW t \in Worker, RegistersOf(t)
  PROVE  RegistersOf(t)'
<1>1. Lasting' = Lasting
  BY MovesGrow DEF Lasting
<1>2. CASE WorkerStep(t)
  <2>1. CASE GetMetadata(t)
    <3>1. w'[t].todo = w[t].todo /\ Current(t) \in w[t].todo
          /\ (w'[t].pc = "getCollection" => coll[Current(t) - 1] = Null)
      BY <2>1, GetMetadataIs, CurrentIn
    <3> QED
      BY <1>1, <2>1, <3>1, LastingFound DEF RegistersOf
  <2>2. CASE ~GetMetadata(t)
    <3>1. w'[t].pc # "getCollection"
      BY <1>2, <2>2, HasFileIs, AddFileIs, GetCollectionIs, SetEntryIs, CopyFieldIs
         DEF WorkerStep, NextTarget
    <3> QED
      BY <3>1 DEF RegistersOf
  <2> QED
    BY <2>1, <2>2
<1>3. CASE ~WorkerStep(t)
  <2>1. w'[t].pc = w[t].pc /\ w'[t].todo = w[t].todo
    BY <1>3, LeftAlone
  <2> QED
    BY <1>1, <2>1 DEF RegistersOf
<1> QED
  BY <1>2, <1>3

LEMMA StepFails ==
  ASSUME Types, Dense, PresentInv, FileInv, [CNext]_cvars, NEW t \in Worker, FailsOf(t)
  PROVE  FailsOf(t)'
<1>1. Lasting' = Lasting /\ UNCHANGED scene
  BY MovesGrow DEF Lasting
<1>2. /\ m.moves \in Nat /\ m'.moves \in {m.moves, m.moves + 1} /\ w[t].begun.moves \in Nat
      /\ FileOf(t)
  BY MovesGrow, StoreTypes DEF WorkerRec, FileInv
<1>3. CASE WorkerStep(t)
  <2>1. CASE HasFile(t)
    <3>1. w'[t].pc # "failed"
      BY <2>1, HasFileIs DEF NextTarget
    <3> QED
      BY <3>1 DEF FailsOf
  <2>2. CASE AddFile(t)
    <3>1. w'[t].pc = "failed" => known /\ w[t].pc = "addFile"
      BY <2>2, AddFileIs DEF NextTarget
    <3>2. w'[t].begun = w[t].begun /\ m' = m
      BY <2>2, AddFileIs
    <3> QED
      BY <1>2, <3>1, <3>2 DEF FailsOf, FileOf
  <2>3. CASE GetMetadata(t)
    <3>1. w'[t].pc = "failed" => coll[Current(t) - 1] = Null /\ scene.role[t] # "tags"
      BY <2>3, GetMetadataIs
    <3>2. Current(t) \in scene.window[t] /\ scene.role[t] \in {"tags", "challenge"}
      BY <2>3, GetMetadataIs, CurrentIn, SceneTypes
    <3> QED
      BY <1>1, <2>3, <3>1, <3>2, LastingFound DEF FailsOf
  <2>4. CASE GetCollection(t)
    <3>1. w'[t].pc = "failed" => ~known
      BY <2>4, GetCollectionIs
    <3>2. w'[t].begun = w[t].begun /\ m' = m /\ AtBlock(t)
      BY <2>4, GetCollectionIs
    <3> QED
      BY <1>2, <3>1, <3>2 DEF FailsOf, FileOf
  <2>5. CASE SetEntry(t) \/ CopyField(t)
    <3>1. w'[t].pc # "failed"
      BY <2>5, SetEntryIs, CopyFieldIs DEF NextTarget
    <3> QED
      BY <3>1 DEF FailsOf
  <2> QED
    BY <1>3, <2>1, <2>2, <2>3, <2>4, <2>5 DEF WorkerStep
<1>4. CASE ~WorkerStep(t)
  <2>1. w'[t].pc = w[t].pc /\ w'[t].begun = w[t].begun
    BY <1>4, LeftAlone
  <2> QED
    BY <1>1, <1>2, <2>1 DEF FailsOf
<1> QED
  BY <1>3, <1>4

LEMMA InitFails == ASSUME CInit, NEW t \in Worker PROVE FailsOf(t) /\ RegistersOf(t)
<1>1. w[t].pc = "hasFile"
  BY DEF CInit
<1> QED
  BY <1>1 DEF FailsOf, RegistersOf

(***************************************************************************)
(* RegistersNothing: while a collection is rebuilt, or after it, no thread *)
(* takes a block that is in the file all the time for a new one, if the    *)
(* file has no gaps.                                                       *)
(***************************************************************************)
THEOREM ConcRegistersNothing == Dense /\ CSpec => []RegistersNothing
<1> DEFINE I == Dense /\ Types /\ PresentInv /\ \A t \in Worker : RegistersOf(t)
<1>1. Dense /\ CInit => I
  BY InitTypes, InitPresent, InitFails
<1>2. I /\ [CNext]_cvars => I'
  BY StepTypes, StepPresent, StepRegisters
<1>3. I => RegistersNothing
  BY DEF RegistersNothing, RegistersOf
<1> HIDE DEF I
<1> QED
  BY <1>1, <1>2, <1>3, PTL DEF CSpec

(***************************************************************************)
(* NoneFails: threads that tag and challenge, and one that maintains the   *)
(* file, make each other fail only by removing or replacing the file, or   *)
(* by deleting what is challenged, if the file has no gaps and one thread  *)
(* at most may find that there is no file.                                 *)
(***************************************************************************)
THEOREM ConcNoneFails == Dense /\ OneAdds /\ CSpec => []NoneFails
<1> DEFINE I == /\ Dense /\ OneAdds /\ Types /\ PresentInv /\ FileInv
                /\ \A t \in Worker : FailsOf(t)
<1>1. Dense /\ OneAdds /\ CInit => I
  BY InitTypes, InitPresent, InitFails
<1>2. I /\ [CNext]_cvars => I'
  BY StepTypes, StepPresent, StepFile, StepFails
<1>3. I => NoneFails
  BY DEF NoneFails, FailsOf
<1> HIDE DEF I
<1> QED
  BY <1>1, <1>2, <1>3, PTL DEF CSpec

-----------------------------------------------------------------------------
(***************************************************************************)
(* Tags and items made since the last edit agree with the store.           *)
(***************************************************************************)
LEMMA InitMatch == CInit => CalmInv /\ MatchInv
<1> SUFFICES ASSUME CInit PROVE CalmInv /\ MatchInv
  OBVIOUS
<1>1. Types /\ m.edits = 0 /\ m.pc = "idle"
  BY InitTypes DEF CInit
<1>2. ASSUME NEW t \in Worker
      PROVE  /\ w[t].pc = "hasFile" /\ \A b \in Block : w[t].made[b] = Null
             /\ w[t].begun.edits = 0
  <2>1. w[t] = [pc |-> "hasFile", todo |-> scene.window[t], obj |-> Null, coll |-> 0,
                copy |-> << >>, raced |-> FALSE, begun |-> Seen,
                made |-> [b \in Block |-> Null]]
    BY DEF CInit
  <2> QED
    BY <1>1, <2>1 DEF Seen
<1>3. CalmInv
  BY <1>1, <1>2 DEF CalmInv, CalmOf
<1>4. ASSUME NEW t \in Worker, NEW b \in scene.window[t] PROVE MatchOf(t, b)
  <2>1. b \in Block
    BY <1>1, SceneTypes
  <2> QED
    BY <1>2, <2>1 DEF MatchOf, AtBlock
<1> QED
  BY <1>3, <1>4 DEF MatchInv

(* No edit begins or goes on without the calm threads being at their start.*)
LEMMA EditBreaksCalm ==
  ASSUME Types, [CNext]_cvars,
         ~\E t \in Worker : WorkerStep(t), ~UNCHANGED cvars
  PROVE  /\ UNCHANGED scene
         /\ \/ m'.edits = m.edits + 1
            \/ m'.edits = m.edits /\ m.pc # "idle"
<1>1. ASSUME Edit PROVE UNCHANGED scene /\ m'.edits = m.edits + 1
  <2>1. ASSUME NEW c \in Block, BumpVersion(c) PROVE UNCHANGED scene /\ m'.edits = m.edits + 1
    BY <2>1, BumpVersionIs
  <2>2. ASSUME NEW c \in Block, CollectShifted(c) PROVE UNCHANGED scene /\ m'.edits = m.edits + 1
    BY <2>2, CollectShiftedIs
  <2>3. ASSUME NEW c \in Block, CollectDelete(c) PROVE UNCHANGED scene /\ m'.edits = m.edits + 1
    BY <2>3, CollectDeleteIs
  <2>4. ASSUME RemoveFile \/ AddEmptyFile \/ Load PROVE UNCHANGED scene /\ m'.edits = m.edits + 1
    BY <2>4, ReattachIs DEF RemoveFile, AddEmptyFile, Load
  <2> QED
    BY <1>1, <2>1, <2>2, <2>3, <2>4 DEF Edit
<1>2. ASSUME Rebuild PROVE UNCHANGED scene /\ m'.edits = m.edits /\ m.pc # "idle"
  BY <1>2, BumpTimestampIs, CollectBelowIs, ClearIs, SetNextIs, FinishIs DEF Rebuild
<1> QED
  BY <1>1, <1>2 DEF CNext

(* After such a step only threads at their start are calm.                 *)
LEMMA CalmAtStart ==
  ASSUME Types, CalmInv, [CNext]_cvars,
         ~\E t \in Worker : WorkerStep(t), ~UNCHANGED cvars, NEW u \in Worker
  PROVE  /\ CalmOf(u)' /\ UNCHANGED scene
         /\ Calm(u)' => w'[u].pc = "hasFile"
<1>1. /\ w'[u].pc = w[u].pc /\ w'[u].begun = w[u].begun /\ w'[u].made = w[u].made
  BY LeftAlone
<1>2. /\ UNCHANGED scene
      /\ m'.edits = m.edits + 1 \/ (m'.edits = m.edits /\ m.pc # "idle")
  BY EditBreaksCalm
<1>3. CalmOf(u) /\ m.edits \in Nat /\ w[u].begun.edits \in Nat
  BY StoreTypes, BoundsAssumption DEF CalmInv, WorkerRec
<1>4. Calm(u)' => w'[u].pc = "hasFile"
  BY <1>1, <1>2, <1>3 DEF Calm, CalmOf
<1>5. CalmOf(u)'
  BY <1>1, <1>2, <1>3, <1>4 DEF CalmOf
<1> QED
  BY <1>2, <1>4, <1>5

(* What a thread's step means for who is calm.                             *)
LEMMA WorkerCalm ==
  ASSUME Types, CalmInv, NEW t \in Worker, WorkerStep(t)
  PROVE  /\ UNCHANGED <<scene, m>> /\ Others(t) /\ CalmInv'
         /\ \A u \in Worker : Calm(u)' => Calm(u)
<1>1. UNCHANGED <<scene, m>> /\ Others(t)
  BY HasFileIs, AddFileIs, GetMetadataIs, GetCollectionIs, SetEntryIs, CopyFieldIs
     DEF WorkerStep
<1>2. \A u \in Worker \ {t} : CalmOf(u)' /\ (Calm(u)' => Calm(u))
  BY <1>1 DEF Others, CalmInv, CalmOf, Calm
<1>3. CASE HasFile(t)
  <2>1. w[t].pc = "hasFile" /\ w'[t].pc # "hasFile" /\ w'[t].begun = Seen /\ m.pc = "idle"
    BY <1>3, HasFileIs, NoBump DEF NextTarget
  <2>2. CalmOf(t)' /\ Calm(t)
    BY <1>1, <2>1, StoreTypes DEF CalmOf, Calm, Seen
  <2> QED
    BY <1>1, <1>2, <2>2 DEF CalmInv
<1>4. CASE ~HasFile(t)
  <2>1. w[t].pc # "hasFile" /\ w'[t].pc # "hasFile" /\ w'[t].begun = w[t].begun
    BY <1>4, AddFileIs, GetMetadataIs, GetCollectionIs, SetEntryIs, CopyFieldIs
       DEF WorkerStep, NextTarget
  <2>2. CalmOf(t)' /\ (Calm(t)' => Calm(t))
    BY <1>1, <2>1 DEF CalmOf, Calm, CalmInv
  <2> QED
    BY <1>1, <1>2, <2>2 DEF CalmInv
<1> QED
  BY <1>3, <1>4

(* If neither the collection nor what a thread has in hand changes, the    *)
(* thread matches as before.                                               *)
LEMMA MatchKept ==
  ASSUME Types, NEW t \in Worker, NEW b \in scene.window[t], MatchOf(t, b),
         w'[t] = w[t], coll'[b - 1] = coll[b - 1], known => UNCHANGED attached,
         coll[b - 1] # Null => metas'[coll[b - 1]] = metas[coll[b - 1]]
  PROVE  MatchOf(t, b)'
<1>1. w[t].pc = "set" => w[t].coll \in DOMAIN colls /\ DOMAIN colls = 1..Len(colls)
  BY StoreTypes DEF LoopInv, LoopOf
<1>2. ASSUME w[t].pc = "set", w[t].coll = attached PROVE known
  BY <1>1, <1>2, StoreTypes DEF known
<1> QED
  BY <1>2 DEF MatchOf, AtBlock, Current

LEMMA WorkerMatch ==
  ASSUME Apart, Types, FreshInv, CopyInv, CalmInv, MatchInv, NEW t \in Worker, WorkerStep(t)
  PROVE  MatchInv'
<1>1. UNCHANGED <<scene, m>> /\ Others(t) /\ \A u \in Worker : Calm(u)' => Calm(u)
  BY WorkerCalm
<1> SUFFICES ASSUME NEW v \in Worker, NEW b \in scene.window[v], AllCalm(v, b)'
             PROVE  MatchOf(v, b)'
  BY <1>1 DEF MatchInv
<1>2. AllCalm(v, b) /\ MatchOf(v, b) /\ b \in Block /\ b - 1 \in Index
  <2>1. Taggers(b)' = Taggers(b)
    BY <1>1 DEF Taggers
  <2>2. \A u \in {v} \cup Taggers(b) : u \in Worker /\ Calm(u)'
    BY <2>1 DEF AllCalm, Taggers
  <2>3. AllCalm(v, b)
    BY <1>1, <2>2 DEF AllCalm
  <2>4. b \in Block /\ b - 1 \in Index
    BY SceneTypes, BoundsAssumption DEF Block, Index
  <2> QED
    BY <2>3, <2>4 DEF MatchInv
<1>3. v # t => w'[v] = w[v]
  BY <1>1 DEF Others
<1>4. CASE HasFile(t)
  <2>1. UNCHANGED <<colls, attached, metas>> /\ coll' = coll
    BY <1>4, HasFileIs, SameColl
  <2>2. CASE v # t
    BY <1>2, <1>3, <2>1, <2>2, MatchKept
  <2>3. CASE v = t
    <3>1. w'[t].made = w[t].made /\ w'[t].pc \notin {"copy", "getCollection", "set"}
      BY <1>4, HasFileIs DEF NextTarget
    <3> QED
      BY <1>2, <2>1, <2>3, <3>1 DEF MatchOf
  <2> QED
    BY <2>2, <2>3
<1>5. CASE AddFile(t)
  <2>1. UNCHANGED metas /\ coll' = coll /\ (known => UNCHANGED attached)
    <3>1. CASE known
      BY <1>5, <3>1, AddFileIs, SameColl
    <3>2. CASE ~known
      BY <1>5, <3>2, AddFileIs, CollTypes, CollAfterAppend
    <3> QED
      BY <3>1, <3>2
  <2>2. CASE v # t
    BY <1>2, <1>3, <2>1, <2>2, MatchKept
  <2>3. CASE v = t
    <3>1. w'[t].made = w[t].made /\ w'[t].pc \notin {"copy", "getCollection", "set"}
      BY <1>5, AddFileIs DEF NextTarget
    <3> QED
      BY <1>2, <2>1, <2>3, <3>1 DEF MatchOf
  <2> QED
    BY <2>2, <2>3
<1>6. CASE GetMetadata(t)
  <2>1. UNCHANGED <<colls, attached, metas>> /\ coll' = coll
    BY <1>6, GetMetadataIs, SameColl
  <2>2. CASE v # t
    BY <1>2, <1>3, <2>1, <2>2, MatchKept
  <2>3. CASE v = t
    <3>1. /\ w'[t].made = w[t].made /\ w'[t].todo = w[t].todo
          /\ w'[t].obj = coll[Current(t) - 1] /\ ~w'[t].raced /\ w'[t].pc # "set"
          /\ w'[t].pc = "getCollection" => coll[Current(t) - 1] = Null
      BY <1>6, GetMetadataIs
    <3>2. Current(t)' = Current(t)
      BY <3>1 DEF Current
    <3> QED
      BY <1>2, <2>1, <2>3, <3>1, <3>2 DEF MatchOf
  <2> QED
    BY <2>2, <2>3
<1>7. CASE GetCollection(t)
  <2> DEFINE o == <<t, Current(t)>>
  <2>1. UNCHANGED <<colls, attached>> /\ coll' = coll /\ \A p \in Obj \ {o} : metas'[p] = metas[p]
    BY <1>7, GetCollectionIs, SameColl
  <2>2. coll[b - 1] # o
    <3>1. Unknown(o) /\ o \in Obj
      BY <1>7, GetCollectionIs, FreshInHand, CurrentIn
    <3> QED
      BY <1>2, <3>1, CollKnown
  <2> HIDE DEF o
  <2>3. coll[b - 1] # Null => metas'[coll[b - 1]] = metas[coll[b - 1]]
    BY <1>2, <2>1, <2>2, CollTypes
  <2>4. CASE v # t
    BY <1>2, <1>3, <2>1, <2>3, <2>4, MatchKept
  <2>5. CASE v = t
    <3>1. /\ w'[t].made = w[t].made /\ w'[t].todo = w[t].todo /\ w'[t].raced = w[t].raced
          /\ w'[t].coll = attached /\ w'[t].pc \in {"set", "failed"}
          /\ w[t].pc = "getCollection" /\ AtBlock(t)
      BY <1>7, GetCollectionIs
    <3>2. Current(t)' = Current(t)
      BY <3>1 DEF Current
    <3> QED
      BY <1>2, <2>1, <2>3, <2>5, <3>1, <3>2 DEF MatchOf
  <2> QED
    BY <2>4, <2>5
<1>8. CASE SetEntry(t)
  <2> DEFINE c == Current(t)
             o == w[t].obj
  <2>1. /\ UNCHANGED <<attached, metas>> /\ w[t].pc = "set" /\ w'[t].pc = "copy"
        /\ w[t].coll \in DOMAIN colls /\ AtBlock(t)
        /\ colls' = [colls EXCEPT ![w[t].coll][c - 1] = o]
        /\ w'[t].obj = o /\ w'[t].todo = w[t].todo /\ w'[t].raced = w[t].raced
        /\ w'[t].made = w[t].made
    BY <1>8, SetEntryIs
  <2>2. t \in Taggers(c) /\ c \in scene.window[t] /\ c \in Block /\ o \in Obj
    <3>1. scene.role[t] = "tags" /\ o = <<t, c>>
      BY <2>1, StoreTypes DEF LoopInv, LoopOf
    <3> QED
      BY <2>1, <3>1, CurrentIn DEF Taggers
  <2>3. \A i \in Index : coll'[i] = IF known /\ w[t].coll = attached /\ i = c - 1 THEN o
                                    ELSE coll[i]
    <3> DEFINE i0 == c - 1
               d == w[t].coll
    <3>1. colls' = [colls EXCEPT ![d][i0] = o] /\ d \in DOMAIN colls /\ UNCHANGED attached
      BY <2>1
    <3> HIDE DEF i0, d, o
    <3>2. \A i \in Index : coll'[i] = IF known /\ d = attached /\ i = i0 THEN o ELSE coll[i]
      BY <3>1, CollAfterSet
    <3> QED
      BY <3>2 DEF i0, d
  <2>4. Current(t)' = c
    BY <2>1 DEF Current
  <2> HIDE DEF c, o
  <2>5. CASE b # c
    <3>1. b - 1 # c - 1
      BY <1>2, <2>2, <2>5, BoundsAssumption DEF Block
    <3>2. coll'[b - 1] = coll[b - 1]
      BY <1>2, <2>3, <3>1
    <3>3. CASE v # t
      BY <1>2, <1>3, <2>1, <3>2, <3>3, MatchKept
    <3>4. CASE v = t
      BY <1>2, <2>1, <2>4, <2>5, <3>2, <3>4 DEF MatchOf
    <3> QED
      BY <3>3, <3>4
  <2>6. CASE b = c
    <3>1. MatchOf(t, b)
      <4>1. AllCalm(t, b)
        BY <1>2, <2>2, <2>6 DEF AllCalm
      <4> QED
        BY <2>2, <2>6, <4>1 DEF MatchInv
    <3>2. coll[b - 1] = Null /\ w[t].coll = attached /\ ~w[t].raced
      BY <2>1, <2>6, <3>1 DEF MatchOf, c
    <3>3. known
      BY <2>1, <3>2, StoreTypes DEF known
    <3>4. coll'[b - 1] = o
      BY <1>2, <2>3, <2>6, <3>2, <3>3
    <3>5. w[v].made[b] = Null
      BY <1>2, <3>2 DEF MatchOf
    <3>6. CASE v = t
      BY <2>1, <2>6, <3>2, <3>4, <3>5, <3>6 DEF MatchOf
    <3>7. CASE v # t
      <4>1. ASSUME AtBlock(v), b = Current(v), w[v].pc \in {"copy", "getCollection", "set"} PROVE FALSE
        <5>1. w[v].pc = "copy" => w[v].obj \in Obj
          BY StoreTypes DEF LoopInv, LoopOf
        <5>2. w[v].pc # "copy"
          BY <1>2, <3>2, <4>1, <5>1, NullAssumption DEF MatchOf
        <5>3. scene.role[v] = "tags"
          BY <4>1, <5>2, StoreTypes DEF LoopInv, LoopOf
        <5> QED
          BY <2>2, <2>6, <3>7, <5>3 DEF Apart, ApartIn, Taggers, Types, ShapeInv
      <4>2. w'[v] = w[v]
        BY <1>3, <3>7
      <4> QED
        BY <3>5, <4>1, <4>2 DEF MatchOf, AtBlock, Current
    <3> QED
      BY <3>6, <3>7
  <2> QED
    BY <2>5, <2>6
<1>9. CASE CopyField(t)
  <2>1. UNCHANGED <<colls, attached, metas>> /\ coll' = coll
    BY <1>9, CopyFieldIs, SameColl
  <2>2. CASE v # t
    BY <1>2, <1>3, <2>1, <2>2, MatchKept
  <2>3. CASE v = t
    <3>1. w[t].pc = "copy" /\ AtBlock(t) /\ w'[t].obj = w[t].obj /\ w'[t].raced = w[t].raced
      BY <1>9, CopyFieldIs
    <3>2. /\ w'[t].made[b] # w[t].made[b] => b = Current(t)
          /\ \/ w'[t].pc = "copy" /\ w'[t].todo = w[t].todo
             \/ w'[t].pc \in {"getMetadata", "done"}
      <4>1. w[t].made \in [Block -> Meta \cup {Null}]
        BY StoreTypes DEF WorkerRec
      <4> QED
        BY <1>2, <1>9, <4>1, CopyFieldIs DEF NextTarget
    <3>3. w'[t].made[b] # Null =>
            coll[b - 1] # Null /\ w'[t].made[b] = metas[coll[b - 1]]
      <4>1. CASE w'[t].made[b] = w[t].made[b]
        BY <1>2, <2>3, <4>1 DEF MatchOf
      <4>2. CASE w'[t].made[b] # w[t].made[b]
        <5>1. coll[b - 1] = w[t].obj /\ ~w[t].raced
          BY <1>2, <2>3, <3>1, <3>2, <4>2 DEF MatchOf
        <5>2. w'[t].made[b] = metas[w[t].obj]
          BY <1>2, <1>9, <4>2, <5>1, StepWhole DEF CNext, WorkerStep
        <5>3. w[t].obj \in Obj
          BY <3>1, StoreTypes DEF LoopInv, LoopOf
        <5> QED
          BY <5>1, <5>2, <5>3, NullAssumption
      <4> QED
        BY <4>1, <4>2
    <3>4. CASE w'[t].pc = "copy" /\ w'[t].todo = w[t].todo
      BY <1>2, <2>1, <2>3, <3>1, <3>3, <3>4 DEF MatchOf, Current
    <3>5. CASE w'[t].pc \in {"getMetadata", "done"}
      BY <2>1, <2>3, <3>3, <3>5 DEF MatchOf
    <3> QED
      BY <3>2, <3>4, <3>5
  <2> QED
    BY <2>2, <2>3
<1> QED
  BY <1>4, <1>5, <1>6, <1>7, <1>8, <1>9 DEF WorkerStep

LEMMA StepMatch ==
  ASSUME Apart, Types, FreshInv, CopyInv, CalmInv, MatchInv, [CNext]_cvars
  PROVE  CalmInv' /\ MatchInv'
<1>1. ASSUME NEW t \in Worker, WorkerStep(t) PROVE CalmInv' /\ MatchInv'
  BY <1>1, WorkerCalm, WorkerMatch
<1>2. ASSUME ~\E t \in Worker : WorkerStep(t), ~UNCHANGED cvars PROVE CalmInv' /\ MatchInv'
  <2>1. CalmInv'
    BY <1>2, CalmAtStart DEF CalmInv
  <2>2. ASSUME NEW t \in Worker, NEW b, b \in scene'.window[t], AllCalm(t, b)'
        PROVE  MatchOf(t, b)'
    <3>1. w'[t].pc = "hasFile" /\ UNCHANGED scene
      BY <1>2, <2>2, CalmAtStart DEF AllCalm
    <3>2. w'[t].made[b] = Null
      BY <2>1, <2>2, <3>1, SceneTypes DEF CalmInv, CalmOf
    <3> QED
      BY <3>1, <3>2 DEF MatchOf, AtBlock
  <2> QED
    BY <2>1, <2>2 DEF MatchInv
<1>3. ASSUME UNCHANGED cvars PROVE CalmInv' /\ MatchInv'
  <2>1. coll' = coll
    BY <1>3, SameColl DEF cvars
  <2> QED
    BY <1>3, <2>1 DEF cvars, CalmInv, CalmOf, Calm, MatchInv, MatchOf, AllCalm, Taggers, AtBlock, Current
<1> QED
  BY <1>1, <1>2, <1>3

LEMMA MatchImplies == Types /\ MatchInv => MatchStore
<1> SUFFICES ASSUME Types, MatchInv, NEW t \in Worker, NEW b \in scene.window[t],
                    w[t].made[b] # Null,
                    \A u \in {t} \cup Taggers(b) : w[u].begun.edits = m.edits
             PROVE  coll[b - 1] # Null /\ w[t].made[b] = metas[coll[b - 1]]
  BY DEF MatchStore
<1>1. AllCalm(t, b)
  BY DEF AllCalm, Calm
<1> QED
  BY <1>1 DEF MatchInv, MatchOf

(***************************************************************************)
(* MatchStore: when all is done, the tags and the items of challenges that *)
(* were made since the last edit were made from the metadata in the store, *)
(* if no two threads tag the same block.                                   *)
(***************************************************************************)
THEOREM ConcMatchStore == Apart /\ CSpec => []MatchStore
<1> DEFINE I == Apart /\ Types /\ FreshInv /\ CopyInv /\ CalmInv /\ MatchInv
<1>1. Apart /\ CInit => I
  BY InitTypes, InitFresh, InitMatch
<1>2. I /\ [CNext]_cvars => I'
  BY StepTypes, StepFresh, StepCopy, StepMatch
<1>3. I => MatchStore
  BY MatchImplies
<1> HIDE DEF I
<1> QED
  BY <1>1, <1>2, <1>3, PTL DEF CSpec

-----------------------------------------------------------------------------
(***************************************************************************)
(* The number of entries.                                                  *)
(***************************************************************************)
LEMMA StoredFinite ==
  ASSUME NEW c
  PROVE  IsFiniteSet(Stored(c)) /\ Stored(c) \subseteq Index /\ Cardinality(Stored(c)) \in Nat
<1>1. IsFiniteSet(Index)
  BY FS_Interval, BoundsAssumption DEF Index
<1>2. Stored(c) \subseteq Index
  BY DEF Stored
<1> QED
  BY <1>1, <1>2, FS_Subset, FS_CardinalityType

(* Sets that correspond one to one have the same number of elements.       *)
LEMMA SameCount ==
  ASSUME NEW S, NEW T, IsFiniteSet(S), NEW f \in [S -> T],
         \A x, y \in S : f[x] = f[y] => x = y,
         \A y \in T : \E x \in S : f[x] = y
  PROVE  IsFiniteSet(T) /\ Cardinality(T) = Cardinality(S)
<1>1. f \in Bijection(S, T)
  BY DEF Bijection, Injection, Surjection, IsInjective
<1>2. ExistsBijection(S, T)
  BY <1>1 DEF ExistsBijection
<1> QED
  BY <1>2, FS_Bijection

(* What is stored after a set().                                           *)
LEMMA StoredAfterSet ==
  ASSUME Types, NEW c \in DOMAIN colls, NEW j \in Index, NEW o \in Obj, UNCHANGED attached,
         colls' = [colls EXCEPT ![c][j] = o]
  PROVE  /\ known' = known
         /\ Stored(coll') = IF known /\ c = attached THEN Stored(coll) \cup {j}
                            ELSE Stored(coll)
<1>1. /\ known' = known
      /\ \A i \in Index : coll'[i] = IF known /\ c = attached /\ i = j THEN o ELSE coll[i]
  BY CollAfterSet
<1>2. o # Null
  BY NullAssumption
<1> QED
  BY <1>1, <1>2 DEF Stored

LEMMA StoredEmpty == Stored(Empty) = {} /\ Cardinality({}) = 0
  BY FS_EmptySet DEF Stored, Empty

(* What the caller has loaded, or what is there at first.                  *)
LEMMA StoredHolding ==
  ASSUME Types, NEW who \in {"prepared", "loaded"}
  PROVE  /\ \A i : i \in Stored(Holding(who)) <=> i \in Index /\ i + 1 \in scene.registered
         /\ Cardinality(Stored(Holding(who))) = Cardinality(scene.registered)
<1> DEFINE S == Stored(Holding(who))
           f == [i \in S |-> i + 1]
<1>1. \A i : i \in S <=> i \in Index /\ i + 1 \in scene.registered
  <2>1. \A b \in scene.registered : <<who, b>> \in Obj
    BY SceneTypes DEF Obj
  <2>2. \A i \in Index : Holding(who)[i] = IF i + 1 \in scene.registered
                                           THEN <<who, i + 1>> ELSE Null
    BY HoldingTypes
  <2>3. \A i \in Index : Holding(who)[i] # Null <=> i + 1 \in scene.registered
    <3> DEFINE h == Holding(who)
    <3> HIDE DEF h
    <3> QED
      BY <2>1, <2>2, NullAssumption DEF h
  <2> QED
    BY <2>3 DEF Stored
<1>2. scene.registered \subseteq 1..MaxBlock /\ IsFiniteSet(S)
  BY SceneTypes, StoredFinite DEF Block
<1> HIDE DEF S
<1>3. f \in [S -> scene.registered]
  BY <1>1
<1>4. \A x, y \in S : f[x] = f[y] => x = y
  BY <1>1, BoundsAssumption DEF Index
<1>5. ASSUME NEW b \in scene.registered PROVE \E x \in S : f[x] = b
  <2>1. b - 1 \in Index /\ (b - 1) + 1 = b
    BY <1>2, BoundsAssumption DEF Index
  <2>2. b - 1 \in S
    BY <1>1, <2>1
  <2> QED
    BY <2>1, <2>2
<1> HIDE DEF f
<1>6. Cardinality(scene.registered) = Cardinality(S)
  BY <1>2, <1>3, <1>4, <1>5, SameCount
<1> QED
  BY <1>1, <1>6 DEF S

LEMMA InitCount == CInit => CountInv /\ SettersInv
<1> SUFFICES ASSUME CInit PROVE CountInv /\ SettersInv
  OBVIOUS
<1>1. Types /\ m.pc = "idle" /\ m.edits = 0 /\ DOMAIN m.plan = {}
  BY InitTypes, EmptyIsPartial DEF CInit
<1>2. expected = Cardinality(scene.registered) /\ scene.registered \subseteq 1..MaxBlock
  BY <1>1, SceneTypes DEF CInit, Block
<1>3. /\ Cardinality(Stored(coll)) = expected
      /\ \A i \in Stored(coll) : i < MaxBlock
  <2>1. CASE attached = 0 /\ scene.registered = {}
    <3>1. coll = Empty
      BY <2>1 DEF coll, known
    <3> QED
      BY <1>2, <2>1, <3>1, StoredEmpty
  <2>2. CASE attached = 1 /\ colls = <<Holding("prepared")>>
    <3>1. coll = Holding("prepared")
      BY <2>2 DEF coll, known
    <3>2. ASSUME NEW i \in Stored(coll) PROVE i < MaxBlock
      <4>1. i \in Index /\ i + 1 \in 1..MaxBlock
        BY <1>1, <1>2, <3>1, <3>2, StoredHolding
      <4> QED
        BY <4>1, BoundsAssumption DEF Index
    <3> QED
      BY <1>1, <1>2, <3>1, <3>2, StoredHolding
  <2> QED
    BY <2>1, <2>2 DEF CInit
<1>4. expected \in Int
  BY <1>3, StoredFinite
<1>5. Due = Stored(coll) /\ \A i \in Due : i < MaxBlock + m.edits
  <2>1. Due = Stored(coll)
    BY <1>1 DEF Due
  <2>2. \A i \in Stored(coll) : i < MaxBlock
    BY <1>3
  <2>3. MaxBlock + m.edits = MaxBlock
    BY <1>1, BoundsAssumption
  <2> QED
    BY <2>1, <2>2, <2>3
<1> QED
  BY <1>1, <1>3, <1>4, <1>5 DEF CountInv, SettersInv, CInit

(* Nothing changes that is counted.                                        *)
LEMMA CountKept ==
  ASSUME CountInv, UNCHANGED <<scene, m, colls, attached, expected>>
  PROVE  CountInv'
<1>1. coll' = coll
  BY SameColl
<1> QED
  BY <1>1 DEF CountInv, Due, Rebuilding

LEMMA AddFileCount ==
  ASSUME Types, CountInv, NEW t \in Worker, AddFile(t)
  PROVE  CountInv'
<1>1. m.pc = "idle" /\ UNCHANGED <<scene, m>>
  BY AddFileIs, NoBump
<1>2. CASE known
  <2>1. UNCHANGED <<colls, attached, expected>>
    BY <1>2 DEF AddFile
  <2> QED
    BY <1>1, <2>1, CountKept
<1>3. CASE ~known
  <2>1. colls' = Append(colls, Empty) /\ attached' = Len(colls') /\ expected' = 0
    BY <1>3 DEF AddFile
  <2>2. coll' = Empty
    BY <2>1, CollTypes, CollAfterAppend
  <2>3. Stored(coll') = {} /\ Cardinality({}) = 0
    BY <2>2, StoredEmpty
  <2>4. \A i \in DOMAIN m.plan : i < MaxBlock + m.edits
    BY DEF CountInv, Due
  <2>5. Due' = DOMAIN m.plan
    BY <1>1, <2>3 DEF Due
  <2> QED
    BY <1>1, <2>1, <2>3, <2>4, <2>5 DEF CountInv
<1> QED
  BY <1>2, <1>3

(* A registration: never during an insertion or deletion.                  *)
LEMMA SetEntryCount ==
  ASSUME Types, CountInv, SettersInv, NEW t \in Worker, SetEntry(t)
  PROVE  CountInv'
<1>1. PICK j \in Index, c \in DOMAIN colls, o \in Obj :
         j = Current(t) - 1 /\ c = w[t].coll /\ o = w[t].obj
  BY SetEntryIs, CurrentIn
<1>2. /\ UNCHANGED <<scene, attached, m>> /\ w[t].pc = "set"
      /\ colls' = [colls EXCEPT ![c][j] = o]
      /\ expected' = IF c = attached /\ coll[j] = Null THEN expected + 1 ELSE expected
  BY <1>1 DEF SetEntry
<1>3. Stored(coll') = IF known /\ c = attached THEN Stored(coll) \cup {j} ELSE Stored(coll)
  BY <1>2, StoredAfterSet
<1>4. c = attached => known
  <2>1. c \in 1..Len(colls)
    BY StoreTypes
  <2> QED
    BY <2>1 DEF known
<1>5. m.pc \in {"idle", "bump", "set"} /\ (m.pc # "idle" => m.op = "modify")
  <2>1. ~Rebuilt(scene)
    BY <1>2 DEF SettersInv
  <2>2. m.pc # "idle" => m.op = "modify"
    BY <2>1 DEF CountInv, Rebuilt
  <2>3. m.pc \in {"idle", "bump", "below", "clear", "set"} /\ (m.pc = "below" => m.op = "insert")
    BY StoreTypes DEF MaintainerRec, Types, ShapeInv
  <2>4. m.pc # "clear"
    BY <2>2 DEF CountInv, Rebuilding
  <2> QED
    BY <2>2, <2>3, <2>4
<1>6. j < MaxBlock + m.edits
  <2>1. Current(t) \in 1..MaxBlock /\ m.edits \in Nat
    BY SetEntryIs, CurrentIn, StoreTypes DEF Block
  <2> QED
    BY <1>1, <2>1, BoundsAssumption
<1>7. expected \in Int /\ \A i \in Due : i < MaxBlock + m.edits
  BY DEF CountInv
<1>8. CASE c = attached
  <2>1. Stored(coll') = Stored(coll) \cup {j}
    BY <1>3, <1>4, <1>8
  <2>2. Cardinality(Stored(coll')) = IF coll[j] = Null THEN Cardinality(Stored(coll)) + 1
                                     ELSE Cardinality(Stored(coll))
    <3>1. j \in Stored(coll) <=> coll[j] # Null
      BY DEF Stored
    <3> QED
      BY <2>1, <3>1, StoredFinite, FS_AddElement
  <2>3. m.pc \in {"bump", "set"} => Due = Stored(coll) /\ DOMAIN m.plan \subseteq Stored(coll)
    BY <1>5 DEF CountInv, Due
  <2>4. Cardinality(Stored(coll)) = expected
    BY <1>5, <2>3 DEF CountInv
  <2>5. Cardinality(Stored(coll')) = expected' /\ expected' \in Int
    BY <1>2, <1>7, <1>8, <2>2, <2>4
  <2>6. Due' = Due \cup {j}
    BY <1>2, <2>1 DEF Due
  <2>7. m.pc \in {"bump", "set"} => Due' = Stored(coll') /\ DOMAIN m'.plan \subseteq Stored(coll')
    BY <1>2, <2>1, <2>3, <2>6
  <2>8. \A i \in Due' : i < MaxBlock + m'.edits
    BY <1>2, <1>6, <1>7, <2>6
  <2>9. m'.pc # "idle" => m'.op \in {"modify", "insert", "delete"} \cap scene'.edits
    BY <1>2 DEF CountInv
  <2> QED
    BY <1>2, <1>5, <2>5, <2>7, <2>8, <2>9 DEF CountInv
<1>9. CASE c # attached
  BY <1>2, <1>3, <1>9 DEF CountInv, Due, Rebuilding
<1> QED
  BY <1>8, <1>9

LEMMA WorkerCount ==
  ASSUME Types, CountInv, SettersInv, NEW t \in Worker, WorkerStep(t)
  PROVE  CountInv'
<1>1. CASE HasFile(t) \/ GetMetadata(t) \/ GetCollection(t) \/ CopyField(t)
  <2>1. UNCHANGED <<scene, m, colls, attached, expected>>
    BY <1>1 DEF HasFile, GetMetadata, GetCollection, CopyField
  <2> QED
    BY <2>1, CountKept
<1>2. CASE AddFile(t)
  BY <1>2, AddFileCount
<1>3. CASE SetEntry(t)
  BY <1>3, SetEntryCount
<1> QED
  BY <1>1, <1>2, <1>3 DEF WorkerStep

LEMMA BumpVersionCount ==
  ASSUME Types, CountInv, NEW b \in Block, BumpVersion(b)
  PROVE  CountInv'
<1>1. /\ b - 1 \in Stored(coll) /\ m.pc = "idle"
      /\ m'.pc = "bump" /\ m'.op = "modify" /\ m'.edits = m.edits + 1
      /\ DOMAIN m'.plan = {b - 1} /\ UNCHANGED <<scene, colls, attached>>
  BY BumpVersionIs, NullAssumption DEF Stored
<1>2. UNCHANGED expected /\ "modify" \in scene.edits
  BY DEF BumpVersion, Begin, MayEdit
<1>3. coll' = coll
  BY <1>1, SameColl
<1>4. Due' = Stored(coll)
  BY <1>1, <1>3 DEF Due
<1>5. \A i \in Stored(coll) : i < MaxBlock + (m.edits + 1)
  <2>1. \A i \in Stored(coll) : i < MaxBlock + m.edits /\ i \in Int
    BY StoredFinite DEF CountInv, Due, Index
  <2> QED
    BY <2>1, StoreTypes, BoundsAssumption
<1>6. \A i \in Due' : i < MaxBlock + m'.edits
  BY <1>1, <1>4, <1>5
<1>7. DOMAIN m'.plan \subseteq Stored(coll')
  BY <1>1, <1>3
<1>8. expected' \in Int /\ Cardinality(Stored(coll')) = expected'
  BY <1>1, <1>2, <1>3 DEF CountInv
<1> QED
  BY <1>1, <1>2, <1>6, <1>7, <1>8 DEF CountInv

LEMMA CollectShiftedCount ==
  ASSUME Types, CountInv, NEW b \in Block, CollectShifted(b)
  PROVE  CountInv'
<1>1. /\ m.pc = "idle" /\ m'.pc \in {"set", "below"} /\ "insert" \in scene.edits
      /\ m'.op = "insert" /\ m'.at = b /\ m'.edits = m.edits + 1
      /\ UNCHANGED <<scene, colls, attached>>
      /\ \A j : j \in DOMAIN m'.plan <=> j - 1 \in Stored(coll) /\ j - 1 >= b - 1 /\ j \in Int
      /\ m'.pc = "set" <=> DOMAIN m'.plan = {}
  BY CollectShiftedIs
<1>2. UNCHANGED expected
  BY DEF CollectShifted
<1>3. coll' = coll
  BY <1>1, SameColl
<1>4. expected' \in Int /\ Cardinality(Stored(coll')) = expected'
  BY <1>1, <1>2, <1>3 DEF CountInv
<1>5. /\ b \in Int /\ b >= 1 /\ m.edits \in Nat /\ MaxBlock \in Nat
      /\ \A i \in Stored(coll) : i \in Nat /\ i < MaxBlock + m.edits
  <2>1. \A i \in Stored(coll) : i < MaxBlock + m.edits
    BY DEF CountInv, Due
  <2> QED
    BY <2>1, StoredFinite, StoreTypes, BoundsAssumption DEF Block, Index
<1>6. ASSUME NEW i \in Due' PROVE i < MaxBlock + m'.edits
  <2>1. CASE i \in Stored(coll)
    BY <1>1, <1>5, <2>1
  <2>2. CASE i - 1 \in Stored(coll) /\ i \in Int
    BY <1>1, <1>5, <2>2
  <2> QED
    BY <1>1, <1>3, <2>1, <2>2 DEF Due
<1>7. DOMAIN m'.plan = {j \in Nat : j - 1 \in Stored(coll') /\ j >= b}
  <2>1. \A j : j \in DOMAIN m'.plan <=> j \in Nat /\ j - 1 \in Stored(coll) /\ j >= b
    BY <1>1, <1>5
  <2> QED
    BY <1>3, <2>1
<1>8. CASE m'.pc = "set"
  <2>1. Due' = Stored(coll')
    BY <1>1, <1>8 DEF Due
  <2>2. b - 1 \notin Stored(coll)
    <3>1. ASSUME b - 1 \in Stored(coll) PROVE b \in DOMAIN m'.plan
      BY <1>1, <1>5, <3>1
    <3> QED
      BY <1>1, <1>8, <3>1
  <2>3. Cardinality(Due') = expected' /\ b - 1 \notin Due'
    BY <1>3, <1>4, <2>1, <2>2
  <2> QED
    BY <1>1, <1>4, <1>6, <1>8, <2>3 DEF CountInv
<1>9. CASE m'.pc = "below"
  BY <1>1, <1>4, <1>6, <1>7, <1>9 DEF CountInv
<1> QED
  BY <1>1, <1>8, <1>9

(* What deleteBlock collects.                                              *)
LEMMA DeletePlan ==
  ASSUME Types, NEW b \in Block, CollectDelete(b)
  PROVE  /\ b - 1 \in Stored(coll) /\ UNCHANGED expected
         /\ \A j : j \in DOMAIN m'.plan <=>
                     /\ j \in Index
                     /\ \/ j < b - 1 /\ coll[j] # Null
                        \/ ~(j < b - 1) /\ j < SizeMax /\ coll[j + 1] # Null
<1> DEFINE rest == DeleteEntry(coll, b - 1)
           plan == Restrict(rest, Stored(rest))
<1>1. Begin("delete", "clear", b, plan) /\ coll[b - 1] # Null /\ UNCHANGED expected
  BY DEF CollectDelete
<1>2. /\ \A j \in Index : j < b - 1 => rest[j] = coll[j]
      /\ \A j \in Index : ~(j < b - 1) /\ j < SizeMax => rest[j] = coll[j + 1]
      /\ \A j \in Index : ~(j < b - 1) /\ ~(j < SizeMax) => rest[j] = Null
  BY DEF DeleteEntry
<1>3. DOMAIN plan = Stored(rest)
  BY DEF Restrict
<1>4. m' = [m EXCEPT !.op = "delete", !.pc = "clear", !.at = b, !.edits = @ + 1,
                     !.plan = plan]
  BY <1>1 DEF Begin
<1> HIDE DEF plan, rest
<1>5. m'.plan = plan
  BY <1>4, StoreTypes DEF MaintainerRec
<1>6. \A j : j \in DOMAIN plan <=> j \in Index /\ rest[j] # Null
  BY <1>3 DEF Stored
<1>7. b - 1 \in Index
  BY BoundsAssumption DEF Block, Index
<1> QED
  BY <1>1, <1>2, <1>5, <1>6, <1>7 DEF Stored

LEMMA CollectDeleteCount ==
  ASSUME Types, CountInv, NEW b \in Block, CollectDelete(b)
  PROVE  CountInv'
<1> DEFINE S == Stored(coll)
           R == S \ {b - 1}
           T == DOMAIN m'.plan
           f == [i \in R |-> IF i < b - 1 THEN i ELSE i - 1]
<1>1. /\ m.pc = "idle" /\ m'.pc = "clear" /\ "delete" \in scene.edits
      /\ m'.op = "delete" /\ m'.at = b /\ m'.edits = m.edits + 1
      /\ UNCHANGED <<scene, colls, attached>>
  BY CollectDeleteIs
<1>2. /\ b - 1 \in S /\ UNCHANGED expected
      /\ \A j : j \in T <=> /\ j \in Index
                            /\ \/ j < b - 1 /\ j \in S
                               \/ ~(j < b - 1) /\ j < SizeMax /\ j + 1 \in S
  <2>1. \A j \in Index : j < SizeMax => j + 1 \in Index
    BY BoundsAssumption DEF Index
  <2> QED
    BY <2>1, DeletePlan DEF Stored
<1>3. coll' = coll
  BY <1>1, SameColl
<1>4. expected \in Int /\ Cardinality(S) = expected /\ IsFiniteSet(S) /\ S \subseteq Index
  BY <1>1, StoredFinite DEF CountInv
<1>5. b \in Int /\ b >= 1 /\ m.edits \in Nat /\ MaxBlock \in Nat /\ SizeMax \in Nat
  BY StoreTypes, BoundsAssumption DEF Block
<1>6. \A i \in S : i < MaxBlock + m.edits
  BY DEF CountInv, Due
<1> HIDE DEF S, T
<1>7. Cardinality(R) = expected - 1 /\ IsFiniteSet(R)
  BY <1>2, <1>4, FS_RemoveElement
<1>8. f \in [R -> T]
  <2>1. ASSUME NEW i \in R, i < b - 1 PROVE i \in T
    BY <1>2, <1>4, <2>1
  <2>2. ASSUME NEW i \in R, ~(i < b - 1) PROVE i - 1 \in T
    <3>1. i \in 0..SizeMax /\ i \in S /\ i # b - 1
      BY <1>4 DEF Index
    <3>2. i - 1 \in 0..SizeMax /\ ~(i - 1 < b - 1) /\ i - 1 < SizeMax /\ (i - 1) + 1 = i
      BY <1>5, <2>2, <3>1
    <3>3. i - 1 \in Index /\ (i - 1) + 1 \in S
      BY <3>1, <3>2 DEF Index
    <3> QED
      BY <1>2, <3>2, <3>3
  <2> QED
    BY <2>1, <2>2
<1>9. ASSUME NEW x \in R, NEW y \in R, f[x] = f[y] PROVE x = y
  <2>1. x \in Int /\ y \in Int /\ x # b - 1 /\ y # b - 1
    BY <1>4, <1>5 DEF Index
  <2>2. (IF x < b - 1 THEN x ELSE x - 1) = (IF y < b - 1 THEN y ELSE y - 1)
    BY <1>9
  <2> QED
    BY ONLY <1>5, <2>1, <2>2
<1>10. ASSUME NEW y \in T PROVE \E x \in R : f[x] = y
  <2>1. y \in Int
    BY <1>2, <1>5 DEF Index
  <2>2. CASE y < b - 1 /\ y \in S
    <3>1. y \in R
      BY <1>5, <2>1, <2>2
    <3> QED
      BY <2>2, <3>1
  <2>3. CASE ~(y < b - 1) /\ y + 1 \in S
    <3>1. ~(y + 1 < b - 1) /\ y + 1 # b - 1 /\ (y + 1) - 1 = y
      BY <1>5, <2>1, <2>3
    <3>2. y + 1 \in R
      BY <2>3, <3>1
    <3> QED
      BY <3>1, <3>2
  <2> QED
    BY <1>2, <2>2, <2>3
<1> HIDE DEF f, R
<1>11. Cardinality(T) = expected - 1
  BY <1>7, <1>8, <1>9, <1>10, SameCount
<1>12. ASSUME NEW i \in Due' PROVE i < MaxBlock + m'.edits
  <2>1. i \in S \/ i \in T
    BY <1>3 DEF Due, S, T
  <2>2. CASE i \in S
    BY <1>1, <1>4, <1>5, <1>6, <2>2 DEF Index
  <2>3. CASE i \in T
    <3>1. i \in Int /\ (i \in S \/ i + 1 \in S)
      BY <1>2, <1>5, <2>3 DEF Index
    <3> QED
      BY <1>1, <1>5, <1>6, <3>1
  <2> QED
    BY <2>1, <2>2, <2>3
<1> QED
  BY <1>1, <1>2, <1>4, <1>11, <1>12 DEF CountInv, Rebuilding, T

LEMMA ReattachCount ==
  ASSUME Types, CountInv, RemoveFile \/ AddEmptyFile \/ Load
  PROVE  CountInv'
<1>1. /\ m.pc = "idle" /\ m'.pc = "idle" /\ m'.edits = m.edits + 1 /\ m'.plan = m.plan
      /\ UNCHANGED scene
  BY ReattachIs DEF RemoveFile, AddEmptyFile, Load
<1>2. /\ m.edits \in Nat /\ MaxBlock \in Nat
      /\ \A i \in DOMAIN m.plan : i \in Nat /\ i < MaxBlock + m.edits
  BY PlanIs, StoreTypes, BoundsAssumption DEF CountInv, Due
<1>3. /\ expected' \in Int /\ Cardinality(Stored(coll')) = expected'
      /\ \A i \in Stored(coll') : i < MaxBlock
  <2>1. CASE RemoveFile
    <3>1. attached' = 0 /\ expected' = 0
      BY <2>1 DEF RemoveFile, Reattach
    <3>2. coll' = Empty
      BY <3>1 DEF coll, known
    <3> QED
      BY <3>1, <3>2, StoredEmpty
  <2>2. CASE AddEmptyFile
    <3>1. Empty # Null /\ Empty \in [Index -> Obj \cup {Null}]
      BY CollTypes, NullAssumption
    <3>2. colls' = Append(colls, Empty) /\ attached' = Len(colls')
          /\ expected' = Cardinality(Stored(Empty))
      BY <2>2, <3>1 DEF AddEmptyFile, Reattach
    <3>3. coll' = Empty
      BY <3>1, <3>2, CollAfterAppend
    <3> QED
      BY <3>2, <3>3, StoredEmpty
  <2>3. CASE Load
    <3> DEFINE h == Holding("loaded")
    <3>1. h # Null /\ h \in [Index -> Obj \cup {Null}]
      BY HoldingTypes, NullAssumption
    <3>2. Reattach("load", h)
      BY <2>3 DEF Load
    <3>3. ASSUME NEW i \in Stored(h) PROVE i < MaxBlock
      <4>1. i \in Index /\ i + 1 \in Block
        BY <3>3, StoredHolding, SceneTypes
      <4> QED
        BY <1>2, <4>1, BoundsAssumption DEF Index, Block
    <3> HIDE DEF h
    <3>4. colls' = Append(colls, h) /\ attached' = Len(colls')
          /\ expected' = Cardinality(Stored(h))
      BY <3>1, <3>2 DEF Reattach
    <3>5. coll' = h
      BY <3>1, <3>4, CollAfterAppend
    <3> QED
      BY <3>3, <3>4, <3>5, StoredFinite
  <2> QED
    BY <2>1, <2>2, <2>3
<1>4. ASSUME NEW i \in Due' PROVE i < MaxBlock + m'.edits
  <2>1. i \in Stored(coll') \/ i \in DOMAIN m.plan
    BY <1>1 DEF Due
  <2>2. CASE i \in Stored(coll')
    <3>1. i \in Int /\ i < MaxBlock
      BY <1>3, <2>2, StoredFinite, BoundsAssumption DEF Index
    <3> QED
      BY <1>1, <1>2, <3>1
  <2>3. CASE i \in DOMAIN m.plan
    BY <1>1, <1>2, <2>3
  <2> QED
    BY <2>1, <2>2, <2>3
<1> QED
  BY <1>1, <1>3, <1>4 DEF CountInv

LEMMA CollectBelowCount ==
  ASSUME Types, CountInv, CollectBelow
  PROVE  CountInv'
<1> DEFINE S == Stored(coll)
           T == DOMAIN m'.plan
           a == m.at
           f == [i \in S |-> IF i < a - 1 THEN i ELSE i + 1]
<1>1. /\ m.pc = "below" /\ m'.pc = "clear" /\ m.op = "insert"
      /\ m'.op = m.op /\ m'.at = m.at /\ m'.edits = m.edits
      /\ UNCHANGED <<scene, colls, attached>>
      /\ T = DOMAIN m.plan \cup (S \cap 0..(a - 2))
  BY CollectBelowIs
<1>2. UNCHANGED expected /\ coll' = coll
  BY <1>1, SameColl DEF CollectBelow
<1>3. /\ expected \in Int /\ Cardinality(S) = expected /\ IsFiniteSet(S) /\ S \subseteq Index
      /\ DOMAIN m.plan = {j \in Nat : j - 1 \in S /\ j >= a}
  BY <1>1, StoredFinite DEF CountInv
<1>4. a \in Int /\ a >= 1 /\ SizeMax \in Nat
  <2>1. a \in Block
    BY <1>1 DEF Types, ShapeInv
  <2> QED
    BY <2>1, BoundsAssumption DEF Block
<1>5. Due' \subseteq Due
  BY <1>1, <1>2 DEF Due
<1> HIDE DEF S, T, a
<1>6. \A j : j \in T <=> \/ j \in Nat /\ j - 1 \in S /\ j >= a
                         \/ j \in S /\ j < a - 1
  <2>1. \A j \in S : j \in 0..(a - 2) <=> j < a - 1
    BY <1>3, <1>4 DEF Index
  <2> QED
    BY <1>1, <1>3, <2>1
<1>7. f \in [S -> T]
  <2>1. ASSUME NEW i \in S, ~(i < a - 1) PROVE i + 1 \in T
    <3>1. i + 1 \in Nat /\ (i + 1) - 1 = i /\ i + 1 >= a
      BY <1>3, <1>4, <2>1 DEF Index
    <3> QED
      BY <1>6, <3>1
  <2>2. ASSUME NEW i \in S, i < a - 1 PROVE i \in T
    BY <1>6, <2>2
  <2> QED
    BY <2>1, <2>2
<1>8. ASSUME NEW x \in S, NEW y \in S, f[x] = f[y] PROVE x = y
  <2>1. x \in Int /\ y \in Int
    BY <1>3, <1>4 DEF Index
  <2>2. (IF x < a - 1 THEN x ELSE x + 1) = (IF y < a - 1 THEN y ELSE y + 1)
    BY <1>8
  <2> QED
    BY ONLY <1>4, <2>1, <2>2
<1>9. ASSUME NEW y \in T PROVE \E x \in S : f[x] = y
  <2>1. CASE y \in Nat /\ y - 1 \in S /\ y >= a
    <3>1. ~(y - 1 < a - 1) /\ (y - 1) + 1 = y
      BY <1>4, <2>1
    <3> QED
      BY <2>1, <3>1
  <2>2. CASE y \in S /\ y < a - 1
    BY <2>2
  <2> QED
    BY <1>6, <2>1, <2>2
<1>10. a - 1 \notin T
  <2>1. ~(a - 1 >= a) /\ ~(a - 1 < a - 1)
    BY <1>4
  <2> QED
    BY <1>6, <2>1
<1> HIDE DEF f
<1>11. Cardinality(T) = expected
  BY <1>3, <1>7, <1>8, <1>9, SameCount
<1>12. \A i \in Due' : i < MaxBlock + m'.edits
  BY <1>1, <1>5 DEF CountInv
<1>13. "insert" \in scene.edits
  BY <1>1 DEF CountInv
<1> QED
  BY <1>1, <1>2, <1>3, <1>10, <1>11, <1>12, <1>13 DEF CountInv, Rebuilding, T, a

LEMMA ClearCount ==
  ASSUME Types, CountInv, Clear
  PROVE  CountInv'
<1>1. /\ m.pc = "clear" /\ m'.pc = "set" /\ known
      /\ m'.op = m.op /\ m'.at = m.at /\ m'.edits = m.edits /\ m'.plan = m.plan
      /\ UNCHANGED <<scene, attached>>
      /\ colls' = [colls EXCEPT ![attached] = Empty]
  BY ClearIs
<1>2. coll' = Empty
  <2>1. attached \in DOMAIN colls
    BY <1>1, CollTypes
  <2> QED
    BY <1>1, <2>1 DEF known, coll
<1>3. Stored(coll') = {}
  BY <1>2, StoredEmpty
<1>4. Due' = DOMAIN m.plan /\ DOMAIN m.plan \subseteq Due
  BY <1>1, <1>3 DEF Due
<1>5. UNCHANGED expected
  BY DEF Clear
<1>6. m.op \in {"insert", "delete"}
  BY <1>1 DEF CountInv, Rebuilding
<1> QED
  BY <1>1, <1>4, <1>5, <1>6 DEF CountInv

(* An entry is set; it was due before and after.                           *)
LEMMA SetNextCount ==
  ASSUME Types, Room, CountInv, SetNext
  PROVE  CountInv'
<1>1. PICK j \in DOMAIN m.plan, o \in Obj : j = Min(DOMAIN m.plan) /\ o = m.plan[j]
  BY SetNextIs
<1>2. /\ m.pc = "set" /\ m'.pc = "set" /\ known
      /\ m'.op = m.op /\ m'.at = m.at /\ m'.edits = m.edits
      /\ DOMAIN m'.plan = DOMAIN m.plan \ {j}
      /\ UNCHANGED <<scene, attached>>
      /\ colls' = [colls EXCEPT ![attached][j] = o]
  BY <1>1, SetNextIs
<1>3. UNCHANGED expected
  BY DEF SetNext
<1>4. j \in Index
  <2>1. j \in Nat /\ j < MaxBlock + m.edits
    BY PlanIs DEF CountInv, Due
  <2>2. m.edits \in 0..MaxEdits
    BY StoreTypes DEF MaintainerRec
  <2> QED
    BY <2>1, <2>2, BoundsAssumption DEF Room, Index
<1>5. PICK c \in DOMAIN colls : c = attached
  BY <1>2, CollTypes
<1>6. Stored(coll') = Stored(coll) \cup {j}
  <2>1. colls' = [colls EXCEPT ![c][j] = o]
    BY <1>2, <1>5
  <2> QED
    BY <1>2, <1>4, <1>5, <2>1, StoredAfterSet
<1>7. Due' = Due
  BY <1>2, <1>6 DEF Due
<1>8. m.op = "modify" => DOMAIN m'.plan \subseteq Stored(coll')
  BY <1>2, <1>6 DEF CountInv
<1> QED
  BY <1>2, <1>3, <1>7, <1>8 DEF CountInv

LEMMA FinishCount ==
  ASSUME Types, CountInv, Finish
  PROVE  CountInv'
<1>1. /\ m.pc = "set" /\ m'.pc = "idle" /\ known /\ m.at \in Block /\ m.at - 1 \in Index
      /\ <<"maintainer", m.edits>> \in Obj
      /\ m'.edits = m.edits /\ m'.plan = m.plan /\ DOMAIN m.plan = {}
      /\ UNCHANGED <<scene, attached>>
      /\ m.op = "insert" =>
           colls' = [colls EXCEPT ![attached][m.at - 1] = <<"maintainer", m.edits>>]
      /\ m.op # "insert" => UNCHANGED colls
  BY FinishIs
<1>2. /\ m.op \in {"modify", "insert", "delete"} /\ expected \in Int
      /\ Due = Stored(coll)
      /\ Cardinality(Stored(coll)) = IF m.op = "delete" THEN expected - 1 ELSE expected
      /\ m.op = "insert" => m.at - 1 \notin Stored(coll)
  <2>1. Due = Stored(coll)
    BY <1>1 DEF Due
  <2> QED
    BY <1>1, <2>1 DEF CountInv
<1>3. expected' = expected + (CASE m.op = "insert" -> 1 [] m.op = "delete" -> -1
                                [] OTHER -> 0)
  BY DEF Finish
<1>4. CASE m.op = "insert"
  <2>1. PICK j \in Index, o \in Obj, c \in DOMAIN colls :
           j = m.at - 1 /\ o = <<"maintainer", m.edits>> /\ c = attached
    BY <1>1, CollTypes
  <2>2. colls' = [colls EXCEPT ![c][j] = o]
    BY <1>1, <1>4, <2>1
  <2>3. Stored(coll') = Stored(coll) \cup {j}
    BY <1>1, <2>1, <2>2, StoredAfterSet
  <2>4. Cardinality(Stored(coll')) = expected + 1
    BY <1>2, <1>4, <2>1, <2>3, StoredFinite, FS_AddElement
  <2>5. expected' = expected + 1
    BY <1>3, <1>4
  <2>6. Due' = Due \cup {j}
    BY <1>1, <1>2, <2>3 DEF Due
  <2>7. j < MaxBlock + m.edits
    BY <1>1, <2>1, StoreTypes, BoundsAssumption DEF Block
  <2>8. \A i \in Due' : i < MaxBlock + m'.edits
    BY <1>1, <2>6, <2>7 DEF CountInv
  <2>9. expected' \in Int /\ Cardinality(Stored(coll')) = expected'
    BY <1>2, <2>4, <2>5
  <2> QED
    BY <1>1, <2>8, <2>9 DEF CountInv
<1>5. CASE m.op # "insert"
  <2>1. coll' = coll
    BY <1>1, <1>5, SameColl
  <2>2. Due' = Due
    BY <1>1, <2>1 DEF Due
  <2>3. expected' = IF m.op = "delete" THEN expected - 1 ELSE expected
    BY <1>2, <1>3, <1>5
  <2>4. expected' \in Int /\ Cardinality(Stored(coll')) = expected'
    BY <1>2, <2>1, <2>3
  <2>5. \A i \in Due' : i < MaxBlock + m'.edits
    BY <1>1, <2>2 DEF CountInv
  <2> QED
    BY <1>1, <2>4, <2>5 DEF CountInv
<1> QED
  BY <1>4, <1>5

LEMMA BumpTimestampCount ==
  ASSUME Types, CountInv, BumpTimestamp
  PROVE  CountInv'
<1>1. /\ m.pc = "bump" /\ m'.pc = "set" /\ m.op = "modify" /\ m'.plan = m.plan
      /\ m'.op = m.op /\ m'.at = m.at /\ m'.edits = m.edits
      /\ UNCHANGED <<scene, colls, attached>>
  BY BumpTimestampIs
<1>2. UNCHANGED expected /\ coll' = coll
  BY <1>1, SameColl DEF BumpTimestamp
<1>3. Due = Stored(coll) /\ Due' = Due
  BY <1>1, <1>2 DEF CountInv, Due
<1> QED
  BY <1>1, <1>2, <1>3 DEF CountInv

LEMMA StepCount ==
  ASSUME Types, Room, CountInv, SettersInv, [CNext]_cvars
  PROVE  CountInv'
<1>1. CASE \E t \in Worker : WorkerStep(t)
  BY <1>1, WorkerCount
<1>2. CASE Edit
  BY <1>2, BumpVersionCount, CollectShiftedCount, CollectDeleteCount, ReattachCount DEF Edit
<1>3. CASE Rebuild
  BY <1>3, BumpTimestampCount, CollectBelowCount, ClearCount, SetNextCount, FinishCount
     DEF Rebuild
<1>4. CASE UNCHANGED cvars
  BY <1>4, CountKept DEF cvars
<1> QED
  BY <1>1, <1>2, <1>3, <1>4 DEF CNext

(* Blocks that are there all the time are not registered.                  *)
LEMMA StepSetters ==
  ASSUME Types, Steady, SettersInv, \A t \in Worker : RegistersOf(t), [CNext]_cvars
  PROVE  SettersInv'
<1> SUFFICES ASSUME Rebuilt(scene'), NEW t \in Worker PROVE w'[t].pc # "set"
  BY DEF SettersInv
<1>1. Rebuilt(scene) /\ w[t].pc # "set"
  <2>1. scene' = scene
    BY MovesGrow
  <2> QED
    BY <2>1 DEF SettersInv
<1>2. ~GetCollection(t)
  <2> SUFFICES ASSUME GetCollection(t) PROVE FALSE
    OBVIOUS
  <2>1. w[t].pc = "getCollection" /\ scene.role[t] = "tags" /\ w[t].todo \subseteq scene.window[t]
    BY GetCollectionIs DEF Types, LoopInv, LoopOf
  <2>2. scene.window[t] \subseteq Lasting
    <3>1. scene \in Scenes /\ Lasting = LastingIn(scene)
      BY DEF Types, ShapeInv, Lasting, LastingIn
    <3> QED
      BY <1>1, <2>1, <3>1 DEF Steady
  <2> QED
    BY <2>1, <2>2 DEF RegistersOf
<1>3. CASE WorkerStep(t)
  BY <1>2, <1>3, HasFileIs, AddFileIs, GetMetadataIs, SetEntryIs, CopyFieldIs
     DEF WorkerStep, NextTarget
<1>4. CASE ~WorkerStep(t)
  BY <1>1, <1>4, LeftAlone
<1> QED
  BY <1>3, <1>4

(***************************************************************************)
(* NothingLost: registrations, insertions and deletions of any number of   *)
(* threads are all there in the end, if blocks of a file that is rebuilt   *)
(* are tagged only if they are there all the time, and no insertion moves  *)
(* a block past the largest index.                                         *)
(***************************************************************************)
THEOREM ConcNothingLost == Dense /\ Steady /\ Room /\ CSpec => []NothingLost
<1> DEFINE I == /\ Dense /\ Steady /\ Room /\ Types /\ PresentInv
                /\ (\A t \in Worker : RegistersOf(t)) /\ CountInv /\ SettersInv
<1>1. Dense /\ Steady /\ Room /\ CInit => I
  BY InitTypes, InitPresent, InitFails, InitCount
<1>2. I /\ [CNext]_cvars => I'
  BY StepTypes, StepPresent, StepRegisters, StepCount, StepSetters
<1>3. I => NothingLost
  BY DEF NothingLost, Quiescent, CountInv
<1> HIDE DEF I
<1> QED
  BY <1>1, <1>2, <1>3, PTL DEF CSpec

-----------------------------------------------------------------------------
(***************************************************************************)
(* The store's methods are atomic.  First the collection as it is seen     *)
(* through the store, now and after a step.                                *)
(***************************************************************************)
LEMMA OrderlySteady == ASSUME Orderly PROVE Steady
BY DEF Orderly, Steady, Changed, Rebuilt, AllLasting

LEMMA SameEntries ==
  ASSUME NEW S, NEW c \in [Index -> S], NEW d \in [Index -> S], \A i \in Index : c[i] = d[i]
  PROVE  c = d
OBVIOUS

LEMMA DeleteIs ==
  ASSUME NEW c \in [Index -> Obj \cup {Null}], NEW i \in Index
  PROVE  /\ DeleteEntry(c, i) \in [Index -> Obj \cup {Null}]
         /\ \A j \in Index : DeleteEntry(c, i)[j] = IF j < i THEN c[j]
                                                    ELSE IF j < SizeMax THEN c[j + 1] ELSE Null
         /\ \A j \in Index : j < SizeMax => j + 1 \in Index
BY BoundsAssumption DEF DeleteEntry, Index

LEMMA InsertIs ==
  ASSUME NEW c \in [Index -> Obj \cup {Null}], NEW i \in Index, NEW o \in Obj
  PROVE  /\ InsertEntry(c, i, o) \in [Index -> Obj \cup {Null}]
         /\ \A j \in Index : InsertEntry(c, i, o)[j] =
                               IF j = i THEN o ELSE IF j > i THEN c[j - 1]
                               ELSE IF j = 0 /\ c[SizeMax] # Null THEN c[SizeMax] ELSE c[j]
         /\ \A j \in Index : j > i => j - 1 \in Index
BY BoundsAssumption DEF InsertEntry, Index

LEMMA PlanEntries ==
  ASSUME Types
  PROVE  DOMAIN m.plan \subseteq Nat /\ \A j \in DOMAIN m.plan : m.plan[j] \in Obj
BY StoreTypes, PlanIs

LEMMA CompletedIs ==
  ASSUME Types
  PROVE  /\ Completed \in [Index -> Obj \cup {Null}]
         /\ \A i \in Index : Completed[i] = IF i \in DOMAIN m.plan THEN m.plan[i]
                                            ELSE IF m.pc = "clear" THEN Null ELSE coll[i]
BY CollTypes, PlanEntries DEF Completed

LEMMA AtIndex == ASSUME Types, m.pc # "idle" PROVE m.at - 1 \in Index /\ m.at \in Block /\ known
<1>1. m.at \in Block /\ known
  BY DEF Types, ShapeInv
<1> QED
  BY <1>1, BoundsAssumption DEF Block, Index

LEMMA ObservedIs ==
  ASSUME Types
  PROVE  /\ Observed \in [Index -> Obj \cup {Null}]
         /\ m.pc \notin {"clear", "set"} \/ m.op = "modify" => Observed = coll
         /\ m.pc \in {"clear", "set"} /\ m.op = "delete" => Observed = Completed
         /\ m.pc \in {"clear", "set"} /\ m.op \notin {"modify", "delete"} =>
              Observed = DeleteEntry(Completed, m.at - 1)
<1>1. /\ m.pc \notin {"clear", "set"} \/ m.op = "modify" => Observed = coll
      /\ m.pc \in {"clear", "set"} /\ m.op = "delete" => Observed = Completed
      /\ m.pc \in {"clear", "set"} /\ m.op \notin {"modify", "delete"} =>
              Observed = DeleteEntry(Completed, m.at - 1)
  BY DEF Observed
<1>2. m.pc \in {"clear", "set"} => DeleteEntry(Completed, m.at - 1) \in [Index -> Obj \cup {Null}]
  BY AtIndex, CompletedIs, DeleteIs
<1> QED
  BY <1>1, <1>2, CollTypes, CompletedIs

LEMMA ContentIs ==
  ASSUME Types
  PROVE  /\ \A o \in Obj : m.pc # "bump" \/ o # m.plan[m.at - 1] => Content[o] = metas[o]
         /\ m.pc = "bump" => LET o == m.plan[m.at - 1] IN
              Content[o] = [metas[o] EXCEPT !.version = @ - 1]
         /\ \A o \in Obj : Content[o] \in [version : Nat, timestamp : Nat]
<1>1. \A o \in Obj : m.pc # "bump" \/ o # m.plan[m.at - 1] => Content[o] = metas[o]
  BY DEF Content
<1>2. m.pc = "bump" => m.plan[m.at - 1] \in Obj
  BY PlanEntries DEF Types, ShapeInv
<1>3. ASSUME m.pc = "bump"
      PROVE  Content[m.plan[m.at - 1]] = [metas[m.plan[m.at - 1]] EXCEPT !.version = @ - 1]
  BY <1>2, <1>3 DEF Content
<1>4. \A o \in Obj : metas[o] \in [version : 1..(MaxEdits + 1), timestamp : Nat]
  BY StoreTypes, SceneTypes
<1>5. \A o \in Obj : Content[o] \in [version : Nat, timestamp : Nat]
  <2> SUFFICES ASSUME NEW o \in Obj PROVE Content[o] \in [version : Nat, timestamp : Nat]
    OBVIOUS
  <2>1. metas[o] \in [version : 1..(MaxEdits + 1), timestamp : Nat]
    BY <1>4
  <2>2. CASE m.pc # "bump" \/ o # m.plan[m.at - 1]
    BY <1>1, <2>1, <2>2
  <2>3. CASE m.pc = "bump" /\ o = m.plan[m.at - 1]
    <3>1. Content[o] = [metas[o] EXCEPT !.version = @ - 1]
      BY <1>3, <2>3
    <3>2. metas[o].version - 1 \in Nat
      BY <2>1
    <3> QED
      BY <2>1, <3>1, <3>2
  <2> QED
    BY <2>2, <2>3
<1> QED
  BY <1>1, <1>3, <1>5

LEMMA ViewIs ==
  /\ \A i \in Index : View[i] = IF Observed[i] = Null THEN Null ELSE Content[Observed[i]]
  /\ View = [i \in Index |-> View[i]]
BY DEF View

(* The same after a step.                                                  *)
CompletedShape ==
  /\ coll \in [Index -> Obj \cup {Null}] /\ Completed \in [Index -> Obj \cup {Null}]
  /\ \A i \in Index : Completed[i] = IF i \in DOMAIN m.plan THEN m.plan[i]
                                     ELSE IF m.pc = "clear" THEN Null ELSE coll[i]

ObservedShape ==
  /\ Observed \in [Index -> Obj \cup {Null}]
  /\ m.pc \notin {"clear", "set"} \/ m.op = "modify" => Observed = coll

ContentShape ==
  /\ \A o \in Obj : m.pc # "bump" \/ o # m.plan[m.at - 1] => Content[o] = metas[o]
  /\ m.pc = "bump" => LET o == m.plan[m.at - 1] IN
       Content[o] = [metas[o] EXCEPT !.version = @ - 1]
  /\ \A o \in Obj : Content[o] \in [version : Nat, timestamp : Nat]

ViewShape ==
  /\ \A i \in Index : View[i] = IF Observed[i] = Null THEN Null ELSE Content[Observed[i]]
  /\ View = [i \in Index |-> View[i]]

LEMMA ShapesNext ==
  Types' => CompletedShape' /\ ObservedShape' /\ ContentShape' /\ ViewShape'
<1>1. Types => CompletedShape /\ ObservedShape /\ ContentShape /\ ViewShape
  BY CollTypes, CompletedIs, ObservedIs, ContentIs, ViewIs
     DEF CompletedShape, ObservedShape, ContentShape, ViewShape
<1> QED
  BY <1>1, PTL

LEMMA CompletedNext ==
  ASSUME Types'
  PROVE  /\ coll' \in [Index -> Obj \cup {Null}] /\ Completed' \in [Index -> Obj \cup {Null}]
         /\ \A i \in Index : Completed'[i] = IF i \in DOMAIN m'.plan THEN m'.plan[i]
                                             ELSE IF m'.pc = "clear" THEN Null ELSE coll'[i]
BY ShapesNext DEF CompletedShape

LEMMA ObservedNextIs ==
  ASSUME Types'
  PROVE  /\ Observed' \in [Index -> Obj \cup {Null}]
         /\ m'.pc \notin {"clear", "set"} \/ m'.op = "modify" => Observed' = coll'
BY ShapesNext DEF ObservedShape

LEMMA ContentNext ==
  ASSUME Types'
  PROVE  /\ \A o \in Obj : m'.pc # "bump" \/ o # m'.plan[m'.at - 1] => Content'[o] = metas'[o]
         /\ m'.pc = "bump" => LET o == m'.plan[m'.at - 1] IN
              Content'[o] = [metas'[o] EXCEPT !.version = @ - 1]
         /\ \A o \in Obj : Content'[o] \in [version : Nat, timestamp : Nat]
BY ShapesNext DEF ContentShape

LEMMA ViewNextIs ==
  ASSUME Types'
  PROVE  /\ \A i \in Index : View'[i] = IF Observed'[i] = Null THEN Null ELSE Content'[Observed'[i]]
         /\ View' = [i \in Index |-> View'[i]]
BY ShapesNext DEF ViewShape

-----------------------------------------------------------------------------
(* Each step, seen through the store.                                      *)
LEMMA ObservedKept ==
  ASSUME UNCHANGED <<colls, attached, m>>
  PROVE  Observed' = Observed
BY SameColl DEF Observed, Completed

LEMMA ObservedSet ==
  ASSUME Types, Types', CountInv, SettersInv, NEW t \in Worker, SetEntry(t)
  PROVE  /\ Observed = coll /\ Observed' = coll' /\ Current(t) - 1 \in Index
         /\ \A i \in Index : coll'[i] = IF known /\ w[t].coll = attached /\ i = Current(t) - 1
                                        THEN w[t].obj ELSE coll[i]
<1>1. /\ AtBlock(t) /\ w[t].pc = "set" /\ UNCHANGED <<attached, m>>
      /\ w[t].coll \in DOMAIN colls
      /\ colls' = [colls EXCEPT ![w[t].coll][Current(t) - 1] = w[t].obj]
  BY SetEntryIs
<1>2. m.pc \notin {"clear", "set"} \/ m.op = "modify"
  BY <1>1 DEF CountInv, SettersInv, Rebuilt
<1> QED
  BY <1>1, <1>2, CurrentIn, CollAfterSet, ObservedIs, ObservedNextIs

LEMMA ObservedNone ==
  ASSUME Types', m'.pc = "idle", coll' = Empty
  PROVE  Observed' = Empty
BY DEF Observed

LEMMA ObservedBump ==
  ASSUME Types, Types', NEW b \in Block, BumpVersion(b)
  PROVE  Observed = coll /\ Observed' = coll
<1>1. m.pc = "idle" /\ m'.pc = "bump" /\ coll' = coll
  BY BumpVersionIs, SameColl
<1> QED
  BY <1>1 DEF Observed

LEMMA ObservedShifted ==
  ASSUME Types, Types', NEW b \in Block, CollectShifted(b)
  PROVE  Observed = coll /\ Observed' = coll
<1>1. /\ m.pc = "idle" /\ m'.pc \in {"set", "below"} /\ coll' = coll
      /\ m'.op = "insert" /\ m'.at = b /\ (m'.pc = "set" <=> DOMAIN m'.plan = {})
      /\ \A j : j \in DOMAIN m'.plan <=> j - 1 \in Stored(coll) /\ j - 1 >= b - 1 /\ j \in Int
  BY CollectShiftedIs, SameColl
<1>2. Observed = coll
  BY <1>1, ObservedIs
<1>3. CASE m'.pc = "below"
  BY <1>1, <1>2, <1>3 DEF Observed
<1>4. CASE m'.pc = "set"
  <2>1. Observed' = DeleteEntry(Completed', b - 1)
    BY <1>1, <1>4 DEF Observed
  <2>2. Completed' = coll
    <3>1. Completed' \in [Index -> Obj \cup {Null}] /\ \A i \in Index : Completed'[i] = coll[i]
      BY <1>1, <1>4, CompletedNext
    <3> QED
      BY <3>1, CollTypes, SameEntries
  <2>3. b - 1 \in Index
    BY BoundsAssumption DEF Block, Index
  <2>4. ASSUME NEW j \in Index, j >= b - 1 PROVE coll[j] = Null
    <3>1. j + 1 \notin DOMAIN m'.plan /\ j + 1 \in Int /\ (j + 1) - 1 = j
      BY <1>1, <1>4 DEF Index
    <3> QED
      BY <1>1, <2>4, <3>1 DEF Stored
  <2>5. \A j \in Index : DeleteEntry(coll, b - 1)[j] = coll[j]
    <3> SUFFICES ASSUME NEW j \in Index PROVE DeleteEntry(coll, b - 1)[j] = coll[j]
      OBVIOUS
    <3>1. DeleteEntry(coll, b - 1)[j] = IF j < b - 1 THEN coll[j]
                                        ELSE IF j < SizeMax THEN coll[j + 1] ELSE Null
      BY <2>3, CollTypes, DeleteIs
    <3>2. CASE j < b - 1
      BY <3>1, <3>2
    <3>3. CASE ~(j < b - 1)
      <4>1. coll[j] = Null /\ (j < SizeMax => j + 1 \in Index /\ j + 1 >= b - 1)
        BY <2>3, <2>4, <3>3, BoundsAssumption DEF Index
      <4> QED
        BY <2>4, <3>1, <3>3, <4>1
    <3> QED
      BY <3>2, <3>3
  <2> QED
    BY <1>2, <2>1, <2>2, <2>3, <2>5, CollTypes, DeleteIs, SameEntries
<1> QED
  BY <1>1, <1>2, <1>3, <1>4

(* What is to be set of a deletion.                                        *)
LEMMA DeleteSnapshot ==
  ASSUME Types, NEW b \in Block, CollectDelete(b)
  PROVE  /\ b - 1 \in Index /\ coll[b - 1] # Null
         /\ \A j : j \in DOMAIN m'.plan <=> j \in Index /\ DeleteEntry(coll, b - 1)[j] # Null
         /\ \A j \in DOMAIN m'.plan : m'.plan[j] = DeleteEntry(coll, b - 1)[j]
<1> DEFINE rest == DeleteEntry(coll, b - 1)
           plan == Restrict(rest, Stored(rest))
<1>1. Begin("delete", "clear", b, plan) /\ coll[b - 1] # Null
  BY DEF CollectDelete
<1>2. DOMAIN plan = Stored(rest) /\ \A j \in Stored(rest) : plan[j] = rest[j]
  BY DEF Restrict
<1>3. m' = [m EXCEPT !.op = "delete", !.pc = "clear", !.at = b, !.edits = @ + 1,
                     !.plan = plan]
  BY <1>1 DEF Begin
<1> HIDE DEF plan, rest
<1>4. m'.plan = plan
  BY <1>3, StoreTypes DEF MaintainerRec
<1>5. b - 1 \in Index
  BY BoundsAssumption DEF Block, Index
<1> QED
  BY <1>1, <1>2, <1>4, <1>5 DEF Stored, rest

LEMMA ObservedDelete ==
  ASSUME Types, Types', NEW b \in Block, CollectDelete(b)
  PROVE  /\ Observed = coll /\ Observed' = DeleteEntry(coll, b - 1)
         /\ b - 1 \in Index /\ coll[b - 1] # Null
<1>1. m.pc = "idle" /\ m'.pc = "clear" /\ m'.op = "delete" /\ coll' = coll
  BY CollectDeleteIs, SameColl
<1>2. Observed = coll /\ Observed' = Completed'
  BY <1>1, ObservedIs DEF Observed
<1>3. b - 1 \in Index /\ coll[b - 1] # Null
  BY DeleteSnapshot
<1> DEFINE rest == DeleteEntry(coll, b - 1)
<1>4. rest \in [Index -> Obj \cup {Null}]
  BY <1>3, CollTypes, DeleteIs
<1>5. /\ \A j : j \in DOMAIN m'.plan <=> j \in Index /\ rest[j] # Null
      /\ \A j \in DOMAIN m'.plan : m'.plan[j] = rest[j]
  BY DeleteSnapshot
<1> HIDE DEF rest
<1>6. Completed' \in [Index -> Obj \cup {Null}] /\ \A i \in Index : Completed'[i] = rest[i]
  BY <1>1, <1>5, CompletedNext
<1>7. Completed' = rest
  BY <1>4, <1>6, SameEntries
<1> QED
  BY <1>2, <1>3, <1>7 DEF rest

LEMMA ObservedTimestamp ==
  ASSUME Types, Types', BumpTimestamp
  PROVE  Observed = coll /\ Observed' = coll
<1>1. m.op = "modify" /\ m'.op = "modify" /\ coll' = coll
  BY BumpTimestampIs, SameColl
<1> QED
  BY <1>1 DEF Observed

LEMMA ObservedBelow ==
  ASSUME Types, Types', Room, CountInv, PlanInv, CollectBelow
  PROVE  Observed' = Observed
<1>1. /\ m.pc = "below" /\ m'.pc = "clear" /\ m.op = "insert" /\ m'.op = "insert"
      /\ m'.at = m.at /\ coll' = coll
      /\ DOMAIN m'.plan = DOMAIN m.plan \cup (Stored(coll) \cap 0..(m.at - 2))
      /\ \A j \in DOMAIN m'.plan :
           \/ j \in DOMAIN m.plan /\ m'.plan[j] = m.plan[j]
           \/ j \in Index /\ m'.plan[j] = coll[j]
  BY CollectBelowIs, SameColl
<1> DEFINE a == m.at - 1
<1>2. a \in Index /\ a \in Nat /\ a + 1 = m.at /\ m.at - 2 = a - 1
  BY <1>1, AtIndex DEF Index, Block
<1>3. Observed = coll /\ Observed' = DeleteEntry(Completed', a)
  BY <1>1 DEF Observed
<1>4. DOMAIN m.plan = {j \in Nat : j - 1 \in Stored(coll) /\ j >= m.at}
  BY <1>1 DEF CountInv
<1>5. \A j \in DOMAIN m.plan : m.plan[j] = coll[j - 1]
  BY <1>1 DEF PlanInv
<1>6. Completed' \in [Index -> Obj \cup {Null}]
      /\ \A i \in Index : Completed'[i] = IF i \in DOMAIN m'.plan THEN m'.plan[i] ELSE Null
  BY <1>1, CompletedNext
<1>7. DeleteEntry(Completed', a) \in [Index -> Obj \cup {Null}]
      /\ \A j \in Index : DeleteEntry(Completed', a)[j] =
                            IF j < a THEN Completed'[j]
                            ELSE IF j < SizeMax THEN Completed'[j + 1] ELSE Null
  BY <1>2, <1>6, DeleteIs
<1>8. coll[SizeMax] = Null
  <2>1. SizeMax \in Index /\ (coll[SizeMax] # Null => SizeMax \in Due)
    BY BoundsAssumption DEF Due, Stored, Index
  <2>2. SizeMax \in Due => SizeMax < MaxBlock + m.edits
    BY DEF CountInv
  <2>3. SizeMax \in DOMAIN m.plan \/ SizeMax \in Stored(coll) => SizeMax < MaxBlock + m.edits
    BY <2>2 DEF Due
  <2>4. SizeMax \in Stored(coll) => SizeMax + 1 \in Due /\ SizeMax + 1 < MaxBlock + m.edits
    <3>1. SizeMax \in Stored(coll) => SizeMax + 1 \in DOMAIN m.plan
      <4>1. SizeMax + 1 \in Nat /\ (SizeMax + 1) - 1 = SizeMax /\ SizeMax + 1 >= m.at
        BY <1>2, BoundsAssumption DEF Index
      <4> QED
        BY <1>4, <4>1
    <3> QED
      BY <3>1 DEF CountInv, Due
  <2>5. m.edits \in 0..MaxEdits /\ MaxBlock + MaxEdits <= SizeMax + 1
    BY StoreTypes DEF MaintainerRec, Room
  <2> QED
    BY <2>1, <2>4, <2>5, BoundsAssumption DEF Stored
<1> HIDE DEF a
<1>9. ASSUME NEW j \in Index PROVE DeleteEntry(Completed', a)[j] = coll[j]
  <2>1. j \in Nat /\ j <= SizeMax /\ SizeMax \in Nat
    BY BoundsAssumption DEF Index
  <2>2. CASE j < a
    <3>1. DeleteEntry(Completed', a)[j] = Completed'[j]
      BY <1>7, <2>2
    <3>2. j \notin DOMAIN m.plan /\ (j \in DOMAIN m'.plan <=> coll[j] # Null)
      BY <1>1, <1>2, <1>4, <2>1, <2>2 DEF Stored
    <3> QED
      BY <1>1, <1>6, <3>1, <3>2
  <2>3. CASE ~(j < a) /\ j < SizeMax
    <3>1. DeleteEntry(Completed', a)[j] = Completed'[j + 1] /\ j + 1 \in Index
      BY <1>7, <2>1, <2>3 DEF Index
    <3>2. /\ j + 1 \in DOMAIN m.plan <=> coll[j] # Null
          /\ j + 1 \notin 0..(m.at - 2)
      <4>1. j + 1 \in Nat /\ (j + 1) - 1 = j /\ j + 1 >= m.at /\ ~(j + 1 <= m.at - 2)
        BY <1>2, <2>1, <2>3
      <4> QED
        BY <1>4, <4>1 DEF Stored
    <3>3. j + 1 \in DOMAIN m'.plan <=> coll[j] # Null
      BY <1>1, <3>2
    <3>4. j + 1 \in DOMAIN m'.plan => m'.plan[j + 1] = coll[j]
      <4>1. j + 1 \in DOMAIN m'.plan => m'.plan[j + 1] = m.plan[j + 1] /\ j + 1 \in DOMAIN m.plan
        <5>1. j + 1 \in DOMAIN m'.plan => j + 1 \in DOMAIN m.plan
          BY <1>1, <3>2
        <5>2. m' = [m EXCEPT !.pc = "clear", !.plan = Override(@, Entries(0..(m.at - 2)))]
          BY DEF CollectBelow
        <5>3. m'.plan = Override(m.plan, Entries(0..(m.at - 2)))
          BY <5>2, StoreTypes DEF MaintainerRec
        <5> QED
          BY <5>1, <5>3 DEF Override
      <4>2. (j + 1) - 1 = j
        BY <2>1
      <4> QED
        BY <1>5, <4>1, <4>2
    <3> QED
      BY <1>6, <3>1, <3>3, <3>4
  <2>4. CASE ~(j < a) /\ ~(j < SizeMax)
    BY <1>7, <1>8, <2>1, <2>4
  <2> QED
    BY <2>2, <2>3, <2>4
<1> QED
  BY <1>3, <1>7, <1>9, CollTypes, SameEntries

LEMMA ObservedClear ==
  ASSUME Types, Types', CountInv, Clear
  PROVE  Observed' = Observed
<1>1. /\ m.pc = "clear" /\ m'.pc = "set" /\ m'.op = m.op /\ m'.at = m.at /\ m'.plan = m.plan
      /\ known /\ UNCHANGED attached /\ colls' = [colls EXCEPT ![attached] = Empty]
  BY ClearIs
<1>2. m.op \in {"insert", "delete"}
  BY <1>1 DEF CountInv, Rebuilding
<1>3. coll' = Empty
  <2>1. attached \in DOMAIN colls
    BY <1>1, CollTypes
  <2>2. colls'[attached] = Empty
    BY <1>1, <2>1
  <2> QED
    BY <1>1, <2>2 DEF coll, known
<1>4. Completed' = Completed
  <2>1. \A i \in Index : Completed'[i] = Completed[i]
    BY <1>1, <1>3, CompletedIs, CompletedNext, CollTypes
  <2> QED
    BY <2>1, CompletedIs, CompletedNext, SameEntries
<1> QED
  BY <1>1, <1>2, <1>4 DEF Observed

LEMMA ObservedNext ==
  ASSUME Types, Types', Room, CountInv, PlanInv, SetNext
  PROVE  Observed' = Observed
<1> DEFINE j == Min(DOMAIN m.plan)
<1>1. /\ m.pc = "set" /\ m'.pc = "set" /\ known /\ m'.op = m.op /\ m'.at = m.at
      /\ j \in DOMAIN m.plan
      /\ DOMAIN m'.plan = DOMAIN m.plan \ {j}
      /\ \A i \in DOMAIN m'.plan : m'.plan[i] = m.plan[i]
      /\ UNCHANGED attached /\ colls' = [colls EXCEPT ![attached][j] = m.plan[j]]
  BY SetNextIs
<1> HIDE DEF j
<1>2. /\ \A i \in Index : coll'[i] = IF i = j THEN m.plan[j] ELSE coll[i]
      /\ coll' \in [Index -> Obj \cup {Null}]
  <2> DEFINE o == m.plan[j]
  <2>1. /\ attached \in DOMAIN colls /\ UNCHANGED attached
        /\ colls' = [colls EXCEPT ![attached][j] = o]
    BY <1>1, CollTypes
  <2> HIDE DEF o
  <2>2. \A i \in Index : coll'[i] = IF known /\ attached = attached /\ i = j THEN o ELSE coll[i]
    BY <2>1, CollAfterSet
  <2> QED
    BY <1>1, <2>2, CompletedNext DEF o
<1>3. CASE m.op = "modify"
  <2>1. \A i \in Index : coll'[i] = coll[i]
    BY <1>1, <1>2, <1>3 DEF PlanInv
  <2>2. coll' = coll
    BY <1>2, <2>1, CollTypes, SameEntries
  <2> QED
    BY <1>1, <1>3, <2>2 DEF Observed
<1>4. CASE m.op # "modify"
  <2>1. \A i \in Index : Completed'[i] = Completed[i]
    BY <1>1, <1>2, CompletedIs, CompletedNext
  <2>2. Completed' = Completed
    BY <2>1, CompletedIs, CompletedNext, SameEntries
  <2> QED
    BY <1>1, <1>4, <2>2 DEF Observed
<1> QED
  BY <1>3, <1>4

LEMMA ObservedFinish ==
  ASSUME Types, Types', CountInv, Finish
  PROVE  /\ m.op # "insert" => Observed' = Observed
         /\ m.op = "insert" =>
              Observed' = InsertEntry(Observed, m.at - 1, <<"maintainer", m.edits>>)
<1> DEFINE o == <<"maintainer", m.edits>>
           a == m.at - 1
<1>1. /\ m.pc = "set" /\ m'.pc = "idle" /\ known /\ a \in Index /\ o \in Obj
      /\ DOMAIN m.plan = {} /\ UNCHANGED attached
      /\ m.op = "insert" => colls' = [colls EXCEPT ![attached][a] = o]
      /\ m.op # "insert" => UNCHANGED colls
  BY FinishIs
<1>2. Observed' = coll'
  BY <1>1, ObservedNextIs
<1> HIDE DEF o, a
<1>3. Completed = coll
  <2>1. \A i \in Index : Completed[i] = coll[i]
    BY <1>1, CompletedIs
  <2> QED
    BY <2>1, CompletedIs, CollTypes, SameEntries
<1>4. ASSUME m.op # "insert" PROVE Observed' = Observed
  <2>1. m.op \in {"modify", "delete"}
    BY <1>1, <1>4 DEF CountInv
  <2>2. coll' = coll
    BY <1>1, <1>4, SameColl
  <2> QED
    BY <1>1, <1>2, <1>3, <2>1, <2>2, ObservedIs
<1>5. ASSUME m.op = "insert" PROVE Observed' = InsertEntry(Observed, a, o)
  <2>1. Observed = DeleteEntry(coll, a)
    BY <1>1, <1>3, <1>5, ObservedIs DEF a
  <2>2. \A i \in Index : coll'[i] = IF i = a THEN o ELSE coll[i]
    <3>1. /\ attached \in DOMAIN colls /\ UNCHANGED attached
          /\ colls' = [colls EXCEPT ![attached][a] = o]
      BY <1>1, <1>5, CollTypes
    <3>2. \A i \in Index : coll'[i] = IF known /\ attached = attached /\ i = a THEN o ELSE coll[i]
      BY <3>1, CollAfterSet
    <3> QED
      BY <1>1, <3>2
  <2> DEFINE d == DeleteEntry(coll, a)
  <2>3. d \in [Index -> Obj \cup {Null}]
        /\ \A j \in Index : d[j] = IF j < a THEN coll[j]
                                   ELSE IF j < SizeMax THEN coll[j + 1] ELSE Null
    BY <1>1, CollTypes, DeleteIs
  <2> HIDE DEF d
  <2>4. InsertEntry(d, a, o) \in [Index -> Obj \cup {Null}]
        /\ \A j \in Index : InsertEntry(d, a, o)[j] =
                              IF j = a THEN o ELSE IF j > a THEN d[j - 1]
                              ELSE IF j = 0 /\ d[SizeMax] # Null THEN d[SizeMax] ELSE d[j]
    BY <1>1, <2>3, InsertIs
  <2>5. ASSUME NEW j \in Index PROVE InsertEntry(d, a, o)[j] = coll'[j]
    <3>1. j \in Nat /\ j <= SizeMax /\ a \in Nat /\ a <= SizeMax /\ SizeMax \in Nat
          /\ SizeMax \in Index
      BY <1>1, BoundsAssumption DEF Index
    <3>2. CASE j = a
      BY <2>2, <2>4, <3>2
    <3>3. CASE j > a
      <4>1. j - 1 \in Index /\ ~(j - 1 < a) /\ j - 1 < SizeMax /\ (j - 1) + 1 = j
        BY <3>1, <3>3 DEF Index
      <4>2. InsertEntry(d, a, o)[j] = d[j - 1] /\ d[j - 1] = coll[(j - 1) + 1]
        BY <2>3, <2>4, <3>1, <3>3, <4>1
      <4> QED
        BY <2>2, <3>1, <3>3, <4>1, <4>2
    <3>4. CASE j < a
      <4>1. d[SizeMax] = Null /\ d[j] = coll[j]
        BY <2>3, <3>1, <3>4
      <4> QED
        BY <2>2, <2>4, <3>1, <3>4, <4>1
    <3> QED
      BY <3>1, <3>2, <3>3, <3>4
  <2>6. coll' \in [Index -> Obj \cup {Null}]
    BY CompletedNext
  <2> QED
    BY <1>2, <2>1, <2>4, <2>5, <2>6, SameEntries DEF d
<1> QED
  BY <1>4, <1>5 DEF o, a

-----------------------------------------------------------------------------
(* Objects in hand stay private until they are set.                        *)
LEMMA PrivateAppend ==
  ASSUME Types, NEW c \in [Index -> Obj \cup {Null}], colls' = Append(colls, c),
         NEW o, \A d \in DOMAIN colls : \A j \in Index : colls[d][j] # o,
         \A j \in Index : c[j] # o
  PROVE  \A d \in DOMAIN colls' : \A j \in Index : colls'[d][j] # o
<1> DEFINE C == [Index -> Obj \cup {Null}]
<1>1. c \in C /\ colls \in Seq(C)
  BY StoreTypes
<1> HIDE DEF C
<1>2. \A d \in DOMAIN colls' :
        (d \in DOMAIN colls /\ colls'[d] = colls[d]) \/ colls'[d] = c
  BY <1>1
<1> QED
  BY <1>2

LEMMA PrivateSet ==
  ASSUME Types, NEW c \in DOMAIN colls, NEW i, NEW p, colls' = [colls EXCEPT ![c][i] = p],
         NEW o, \A d \in DOMAIN colls : \A j \in Index : colls[d][j] # o, p # o
  PROVE  \A d \in DOMAIN colls' : \A j \in Index : colls'[d][j] # o
<1> SUFFICES ASSUME NEW d \in DOMAIN colls', NEW j \in Index PROVE colls'[d][j] # o
  OBVIOUS
<1>1. d \in DOMAIN colls /\ colls'[d] = IF d = c THEN [colls[c] EXCEPT ![i] = p] ELSE colls[d]
  OBVIOUS
<1>2. colls[d] \in [Index -> Obj \cup {Null}]
  BY <1>1, CollTypes
<1>3. colls'[d][j] = p \/ colls'[d][j] = colls[d][j]
  BY <1>1, <1>2
<1> QED
  BY <1>1, <1>3

LEMMA PrivateColl ==
  ASSUME Types, NEW o \in Obj, Private(o), NEW i \in Index
  PROVE  coll[i] # o
BY CollTypes DEF Private

LEMMA PrivateByEdit ==
  ASSUME Types, Edit, NEW t \in Worker, NEW o \in Obj, o[1] = t, Private(o)
  PROVE  Private(o)' /\ metas'[o] = metas[o]
<1>1. \A i \in Index : coll[i] # o
  BY PrivateColl
<1>2. ASSUME NEW b \in Block, BumpVersion(b)
      PROVE  Private(o)' /\ metas'[o] = metas[o]
  BY <1>1, <1>2, BumpVersionIs DEF Private
<1>3. ASSUME NEW b \in Block, CollectShifted(b)
      PROVE  Private(o)' /\ metas'[o] = metas[o]
  <2>1. ASSUME NEW j \in DOMAIN m'.plan PROVE m'.plan[j] # o
    BY <1>1, <1>3, CollectShiftedIs DEF Stored
  <2> QED
    BY <1>3, <2>1, CollectShiftedIs DEF Private
<1>4. ASSUME NEW b \in Block, CollectDelete(b)
      PROVE  Private(o)' /\ metas'[o] = metas[o]
  <2>1. ASSUME NEW j \in DOMAIN m'.plan PROVE m'.plan[j] # o
    BY <1>1, <1>4, CollectDeleteIs
  <2> QED
    BY <1>4, <2>1, CollectDeleteIs DEF Private
<1>5. ASSUME NEW op, NEW c, Reattach(op, c),
             c = Null \/ (c \in [Index -> Obj \cup {Null}] /\ \A j \in Index : c[j] # o)
      PROVE  Private(o)' /\ metas'[o] = metas[o]
  <2>1. m'.plan = m.plan /\ UNCHANGED metas
    BY <1>5, ReattachIs
  <2>2. \A d \in DOMAIN colls' : \A j \in Index : colls'[d][j] # o
    BY <1>5, ReattachIs, PrivateAppend DEF Private
  <2> QED
    BY <2>1, <2>2 DEF Private
<1>6. CASE RemoveFile
  BY <1>5, <1>6 DEF RemoveFile
<1>7. CASE AddEmptyFile
  <2>1. Empty \in [Index -> Obj \cup {Null}] /\ \A j \in Index : Empty[j] # o
    BY CollTypes
  <2> QED
    BY <1>5, <1>7, <2>1 DEF AddEmptyFile
<1>8. CASE Load
  <2> DEFINE c == Holding("loaded")
  <2>1. /\ c \in [Index -> Obj \cup {Null}]
        /\ \A j \in Index : c[j] \in {Null, <<"loaded", j + 1>>}
    BY HoldingTypes
  <2>2. o # Null /\ o[1] # "loaded"
    BY NullAssumption, ObjAssumption
  <2>3. \A j \in Index : c[j] # o
    BY <2>1, <2>2
  <2>4. Reattach("load", c)
    BY <1>8 DEF Load
  <2> QED
    BY <1>5, <2>1, <2>3, <2>4
<1> QED
  BY <1>2, <1>3, <1>4, <1>6, <1>7, <1>8 DEF Edit

LEMMA PrivateByRebuild ==
  ASSUME Types, Rebuild, NEW t \in Worker, NEW o \in Obj, o[1] = t, Private(o)
  PROVE  Private(o)' /\ metas'[o] = metas[o]
<1>1. CASE BumpTimestamp
  <2>1. /\ m'.plan = m.plan /\ UNCHANGED colls /\ m.pc = "bump"
        /\ \A p \in Obj \ {m.plan[m.at - 1]} : metas'[p] = metas[p]
    BY <1>1, BumpTimestampIs
  <2>2. m.at - 1 \in DOMAIN m.plan
    BY <2>1 DEF Types, ShapeInv
  <2> QED
    BY <2>1, <2>2 DEF Private
<1>2. CASE CollectBelow
  BY <1>2, CollectBelowIs, PrivateColl DEF Private
<1>3. CASE Clear
  <2>1. /\ m'.plan = m.plan /\ UNCHANGED metas /\ known
        /\ colls' = [colls EXCEPT ![attached] = Empty]
    BY <1>3, ClearIs
  <2>2. \A d \in DOMAIN colls' : d \in DOMAIN colls /\ (colls'[d] = Empty \/ colls'[d] = colls[d])
    BY <2>1
  <2>3. \A j \in Index : Empty[j] # o
    BY CollTypes
  <2> QED
    BY <2>1, <2>2, <2>3 DEF Private
<1>4. CASE SetNext
  <2> DEFINE j == Min(DOMAIN m.plan)
             p == m.plan[j]
  <2>1. /\ known /\ j \in DOMAIN m.plan /\ DOMAIN m'.plan = DOMAIN m.plan \ {j}
        /\ \A i \in DOMAIN m'.plan : m'.plan[i] = m.plan[i]
        /\ UNCHANGED metas /\ colls' = [colls EXCEPT ![attached][j] = p]
    BY <1>4, SetNextIs
  <2>2. p # o /\ attached \in DOMAIN colls
    BY <2>1, CollTypes DEF Private
  <2> HIDE DEF j, p
  <2>3. \A d \in DOMAIN colls' : \A i \in Index : colls'[d][i] # o
    BY <2>1, <2>2, PrivateSet DEF Private
  <2> QED
    BY <2>1, <2>3 DEF Private
<1>5. CASE Finish
  <2> DEFINE p == <<"maintainer", m.edits>>
             i == m.at - 1
  <2>1. /\ known /\ m'.plan = m.plan
        /\ m.op = "insert" => /\ colls' = [colls EXCEPT ![attached][i] = p]
                              /\ \A q \in Obj \ {p} : metas'[q] = metas[q]
        /\ m.op # "insert" => UNCHANGED <<colls, metas>>
    BY <1>5, FinishIs
  <2>2. p # o /\ attached \in DOMAIN colls
    <3>1. p[1] = "maintainer" /\ o[1] # "maintainer"
      BY ObjAssumption
    <3> QED
      BY <2>1, <3>1, CollTypes
  <2> HIDE DEF p, i
  <2>3. CASE m.op = "insert"
    <3>1. colls' = [colls EXCEPT ![attached][i] = p] /\ metas'[o] = metas[o]
      BY <2>1, <2>2, <2>3
    <3>2. \A d \in DOMAIN colls' : \A j \in Index : colls'[d][j] # o
      BY <2>2, <3>1, PrivateSet DEF Private
    <3> QED
      BY <2>1, <3>1, <3>2 DEF Private
  <2>4. CASE m.op # "insert"
    BY <2>1, <2>4 DEF Private
  <2> QED
    BY <2>3, <2>4
<1> QED
  BY <1>1, <1>2, <1>3, <1>4, <1>5 DEF Rebuild

LEMMA PrivateByOther ==
  ASSUME Types, NEW t \in Worker, NEW o \in Obj, o[1] = t, Private(o),
         NEW u \in Worker \ {t}, WorkerStep(u)
  PROVE  Private(o)' /\ metas'[o] = metas[o]
<1>1. UNCHANGED m
  BY HasFileIs, AddFileIs, GetMetadataIs, GetCollectionIs, SetEntryIs, CopyFieldIs
     DEF WorkerStep
<1>2. <<u, Current(u)>> # o
  <2>1. <<u, Current(u)>>[1] = u
    OBVIOUS
  <2> QED
    BY <2>1
<1>3. CASE HasFile(u) \/ GetMetadata(u) \/ CopyField(u)
  <2>1. UNCHANGED <<colls, metas>>
    BY <1>3, HasFileIs, GetMetadataIs, CopyFieldIs
  <2> QED
    BY <1>1, <2>1 DEF Private
<1>4. CASE AddFile(u)
  <2>1. Empty \in [Index -> Obj \cup {Null}] /\ \A j \in Index : Empty[j] # o
    BY CollTypes
  <2>2. \A d \in DOMAIN colls' : \A j \in Index : colls'[d][j] # o
    BY <1>4, <2>1, AddFileIs, PrivateAppend DEF Private
  <2> QED
    BY <1>1, <1>4, <2>2, AddFileIs DEF Private
<1>5. CASE GetCollection(u)
  BY <1>1, <1>2, <1>5, GetCollectionIs DEF Private
<1>6. CASE SetEntry(u)
  <2> DEFINE p == w[u].obj
             c == w[u].coll
             i == Current(u) - 1
  <2>1. /\ p # o /\ c \in DOMAIN colls /\ UNCHANGED metas
        /\ colls' = [colls EXCEPT ![c][i] = p]
    BY <1>2, <1>6, SetEntryIs
  <2> HIDE DEF p, c, i
  <2>2. \A d \in DOMAIN colls' : \A j \in Index : colls'[d][j] # o
    BY <2>1, PrivateSet DEF Private
  <2> QED
    BY <1>1, <2>1, <2>2 DEF Private
<1> QED
  BY <1>3, <1>4, <1>5, <1>6 DEF WorkerStep

LEMMA StaysPrivate ==
  ASSUME Types, [CNext]_cvars, NEW t \in Worker, ~WorkerStep(t),
         NEW o \in Obj, o[1] = t, Private(o)
  PROVE  Private(o)' /\ metas'[o] = metas[o]
<1>1. CASE UNCHANGED cvars
  BY <1>1 DEF cvars, Private
<1>2. CASE \E u \in Worker : WorkerStep(u)
  BY <1>2, PrivateByOther
<1> QED
  BY <1>1, <1>2, PrivateByEdit, PrivateByRebuild DEF CNext

LEMMA InitAtomic == CInit => HandInv /\ PlanInv /\ DistinctInv
<1> SUFFICES ASSUME CInit PROVE HandInv /\ PlanInv /\ DistinctInv
  OBVIOUS
<1>1. Types /\ m.pc = "idle" /\ \A t \in Worker : w[t].pc = "hasFile"
  BY InitTypes DEF CInit
<1>2. HandInv /\ PlanInv
  BY <1>1 DEF HandInv, HandOf, PlanInv
<1>3. Distinct(coll)
  <2>1. CASE attached = 0
    BY <1>1, <2>1, CollTypes DEF Distinct, known
  <2>2. CASE attached # 0
    <3> DEFINE c == Holding("prepared")
    <3>1. coll = c
      BY <2>2 DEF CInit, coll, known
    <3>2. \A i \in Index : c[i] \in {Null, <<"prepared", i + 1>>}
      BY <1>1, HoldingTypes
    <3> HIDE DEF c
    <3>3. ASSUME NEW i \in Index, NEW j \in Index, c[i] # Null, c[i] = c[j] PROVE i = j
      <4>1. c[i] = <<"prepared", i + 1>> /\ c[j] = <<"prepared", j + 1>>
        BY <3>2, <3>3
      <4>2. <<"prepared", i + 1>>[2] = <<"prepared", j + 1>>[2]
        BY <3>3, <4>1
      <4> QED
        BY <4>2 DEF Index
    <3> QED
      BY <3>1, <3>3 DEF Distinct
  <2> QED
    BY <2>1, <2>2
<1> QED
  BY <1>1, <1>2, <1>3, ObservedIs DEF DistinctInv

(* In what scenes an entry may be set while blocks are edited.             *)
LEMMA OnlyUpdates ==
  ASSUME Types, Orderly, Changed(scene), ~AllLasting(scene)
  PROVE  scene.edits = {"modify"} /\ ApartIn(scene)
BY DEF Orderly, Types, ShapeInv

(* Where a thread that registers a block sees no entry, nobody puts one.   *)
LEMMA NoEntryKept ==
  ASSUME Types, Types', Orderly, CountInv, PlanInv, [CNext]_cvars, HandInv,
         Changed(scene), NEW t \in Worker, w[t].pc \in {"getCollection", "set"},
         ~WorkerStep(t)
  PROVE  coll'[Current(t) - 1] = Null
<1> DEFINE i == Current(t) - 1
<1>1. AtBlock(t) /\ scene.role[t] = "tags" /\ ~AllLasting(scene) /\ coll[i] = Null
  BY StoreTypes DEF AtBlock, LoopInv, LoopOf, HandInv, HandOf
<1>2. scene.edits = {"modify"} /\ ApartIn(scene)
  BY <1>1, OnlyUpdates
<1>3. i \in Index /\ Current(t) \in scene.window[t] /\ Current(t) \in Int
  <2>1. i \in Index /\ Current(t) \in scene.window[t] /\ Current(t) \in Block
    BY <1>1, CurrentIn
  <2> QED
    BY <2>1 DEF Block
<1> HIDE DEF i
<1>4. ASSUME UNCHANGED <<colls, attached>> PROVE coll'[i] = Null
  BY <1>1, <1>4, SameColl
<1>5. ASSUME coll' = Empty PROVE coll'[i] = Null
  BY <1>3, <1>5, CollTypes
<1>6. ASSUME NEW u \in Worker, WorkerStep(u) PROVE coll'[i] = Null
  <2>1. CASE HasFile(u) \/ GetMetadata(u) \/ GetCollection(u) \/ CopyField(u)
    BY <1>4, <2>1, HasFileIs, GetMetadataIs, GetCollectionIs, CopyFieldIs
  <2>2. CASE AddFile(u)
    BY <1>4, <1>5, <2>2, AddFileIs, CollTypes, CollAfterAppend
  <2>3. CASE SetEntry(u)
    <3>1. /\ AtBlock(u) /\ w[u].pc = "set" /\ w[u].coll \in DOMAIN colls /\ UNCHANGED attached
          /\ colls' = [colls EXCEPT ![w[u].coll][Current(u) - 1] = w[u].obj]
      BY <2>3, SetEntryIs
    <3>2. scene.role[u] = "tags" /\ Current(u) \in scene.window[u] /\ Current(u) \in Int
      <4>1. Current(u) \in scene.window[u] /\ Current(u) \in Block
        BY <3>1, CurrentIn
      <4>2. scene.role[u] = "tags"
        BY <3>1, StoreTypes DEF LoopInv, LoopOf
      <4> QED
        BY <4>1, <4>2 DEF Block
    <3>3. u # t
      BY <1>6
    <3>4. Current(u) # Current(t)
      BY <1>1, <1>2, <1>3, <3>2, <3>3 DEF ApartIn
    <3>5. i # Current(u) - 1
      BY <1>3, <3>2, <3>4 DEF i
    <3>6. coll'[i] = IF known /\ w[u].coll = attached /\ i = Current(u) - 1 THEN w[u].obj
                     ELSE coll[i]
      BY <1>3, <3>1, CollAfterSet
    <3> QED
      BY <1>1, <3>5, <3>6
  <2> QED
    BY <1>6, <2>1, <2>2, <2>3 DEF WorkerStep
<1>7. ASSUME Edit PROVE coll'[i] = Null
  <2>1. ASSUME NEW b \in Block, BumpVersion(b) \/ CollectShifted(b) \/ CollectDelete(b)
        PROVE  coll'[i] = Null
    BY <1>4, <2>1, BumpVersionIs, CollectShiftedIs, CollectDeleteIs
  <2>2. ~RemoveFile /\ ~AddEmptyFile /\ ~Load
    BY <1>2, ReattachIs DEF RemoveFile, AddEmptyFile, Load
  <2> QED
    BY <1>7, <2>1, <2>2 DEF Edit
<1>8. ASSUME Rebuild PROVE coll'[i] = Null
  <2>1. CASE BumpTimestamp \/ CollectBelow
    BY <1>4, <2>1, BumpTimestampIs, CollectBelowIs
  <2>2. m.pc # "idle" => m.op = "modify"
    BY <1>2 DEF CountInv
  <2>3. CASE Clear
    BY <2>2, <2>3, ClearIs DEF CountInv, Rebuilding
  <2>4. CASE SetNext
    <3> DEFINE j == Min(DOMAIN m.plan)
               o == m.plan[j]
    <3>1. /\ m.pc = "set" /\ known /\ j \in DOMAIN m.plan /\ UNCHANGED attached
          /\ colls' = [colls EXCEPT ![attached][j] = o] /\ attached \in DOMAIN colls
      BY <2>4, SetNextIs, CollTypes
    <3>2. j \in Stored(coll)
      BY <2>2, <3>1 DEF CountInv
    <3> HIDE DEF j, o
    <3>3. coll'[i] = IF known /\ attached = attached /\ i = j THEN o ELSE coll[i]
      BY <1>3, <3>1, CollAfterSet
    <3> QED
      BY <1>1, <3>2, <3>3 DEF Stored
  <2>5. CASE Finish
    BY <1>4, <2>2, <2>5, FinishIs
  <2> QED
    BY <1>8, <2>1, <2>3, <2>4, <2>5 DEF Rebuild
<1>9. ASSUME UNCHANGED cvars PROVE coll'[i] = Null
  BY <1>4, <1>9 DEF cvars
<1> QED
  BY <1>6, <1>7, <1>8, <1>9 DEF CNext, i

LEMMA StepHand ==
  ASSUME Types, Types', Dense, Orderly, FreshInv, PresentInv, CountInv, PlanInv, HandInv,
         [CNext]_cvars
  PROVE  HandInv'
<1> SUFFICES ASSUME NEW t \in Worker PROVE HandOf(t)'
  BY DEF HandInv
<1>1. UNCHANGED scene
  BY MovesGrow
<1>2. HandOf(t)
  BY DEF HandInv
<1>3. CASE GetMetadata(t)
  <2>1. /\ AtBlock(t) /\ w'[t].pc # "set" /\ w'[t].todo = w[t].todo /\ UNCHANGED <<colls, attached>>
        /\ w'[t].pc = "getCollection" => coll[Current(t) - 1] = Null /\ scene.role[t] = "tags"
    BY <1>3, GetMetadataIs
  <2>2. coll' = coll /\ Current(t)' = Current(t)
    BY <2>1, SameColl DEF Current
  <2>3. ASSUME w'[t].pc = "getCollection", AllLasting(scene) PROVE FALSE
    <3>1. Current(t) \in LastingIn(scene)
      BY <2>1, <2>3, CurrentIn DEF AllLasting
    <3>2. Current(t) \in Lasting
      BY <3>1 DEF Lasting, LastingIn
    <3> QED
      BY <1>3, <2>1, <2>3, <3>2, LastingFound
  <2> QED
    BY <1>1, <2>1, <2>2, <2>3 DEF HandOf, Changed, AllLasting, LastingIn
<1>4. CASE GetCollection(t)
  <2>0. <<t, Current(t)>> \in Obj
    BY <1>4, GetCollectionIs, CurrentIn
  <2> PICK o \in Obj : o = <<t, Current(t)>>
    BY <2>0
  <2>1. /\ AtBlock(t) /\ w[t].pc = "getCollection" /\ w'[t].todo = w[t].todo
        /\ w'[t].obj = o /\ UNCHANGED <<colls, attached, m>>
    BY <1>4, GetCollectionIs
  <2>2. Unknown(o)
    BY <2>1, FreshInHand
  <2>3. metas'[o].version = 1
    BY <1>4, StoreTypes DEF GetCollection, FreshMeta
  <2>4. Private(o)'
    BY <2>1, <2>2 DEF Private, Unknown
  <2>5. coll' = coll /\ Current(t)' = Current(t)
    BY <2>1, SameColl DEF Current
  <2>6. (w[t].pc = "getCollection" /\ Changed(scene)) =>
           ~AllLasting(scene) /\ coll[Current(t) - 1] = Null
    BY <1>2 DEF HandOf
  <2>7. Private(w[t].obj)' /\ metas'[w'[t].obj].version = 1
    BY <2>1, <2>3, <2>4 DEF Private
  <2> QED
    BY <1>1, <2>1, <2>5, <2>6, <2>7 DEF HandOf, Changed, AllLasting, LastingIn
<1>5. CASE WorkerStep(t) /\ ~GetMetadata(t) /\ ~GetCollection(t)
  <2>1. w'[t].pc \notin {"getCollection", "set"}
    BY <1>5, HasFileIs, AddFileIs, SetEntryIs, CopyFieldIs DEF WorkerStep, NextTarget
  <2> QED
    BY <2>1 DEF HandOf
<1>6. CASE ~WorkerStep(t)
  <2>1. w'[t].pc = w[t].pc /\ w'[t].todo = w[t].todo /\ w'[t].obj = w[t].obj
    BY <1>6, LeftAlone
  <2>2. Current(t)' = Current(t)
    BY <2>1 DEF Current
  <2>3. ASSUME w'[t].pc = "set"
        PROVE  Private(w[t].obj)' /\ metas'[w'[t].obj].version = 1
    <3>1. w[t].pc = "set" /\ AtBlock(t)
      BY <2>1, <2>3 DEF AtBlock
    <3>2. w[t].obj = <<t, Current(t)>> /\ w[t].obj \in Obj
      BY <3>1, CurrentIn, StoreTypes DEF LoopInv, LoopOf
    <3> PICK o \in Obj : o = w[t].obj
      BY <3>2
    <3>3. o[1] = t /\ Private(o) /\ metas[o].version = 1
      BY <1>2, <3>1, <3>2 DEF HandOf
    <3>4. Private(o)' /\ metas'[o] = metas[o]
      BY <1>6, <3>3, StaysPrivate
    <3> QED
      BY <2>1, <3>3, <3>4 DEF Private
  <2>4. ASSUME w'[t].pc \in {"getCollection", "set"}, Changed(scene)
        PROVE  ~AllLasting(scene) /\ coll'[Current(t) - 1] = Null
    BY <1>2, <1>6, <2>1, <2>4, NoEntryKept DEF HandOf
  <2> QED
    BY <1>1, <2>1, <2>2, <2>3, <2>4 DEF HandOf, Changed, AllLasting, LastingIn
<1> QED
  BY <1>3, <1>4, <1>5, <1>6

LEMMA PlanKept ==
  ASSUME PlanInv, UNCHANGED m, coll' = coll
  PROVE  PlanInv'
BY DEF PlanInv

LEMMA PlanDone ==
  ASSUME m'.pc = "idle" \/ (m'.pc # "below" /\ m'.op \in {"insert", "delete"})
  PROVE  PlanInv'
BY DEF PlanInv

LEMMA WorkerPlan ==
  ASSUME Types, Types', CountInv, SettersInv, HandInv, PlanInv, NEW t \in Worker, WorkerStep(t)
  PROVE  PlanInv'
<1>1. CASE HasFile(t) \/ GetMetadata(t) \/ GetCollection(t) \/ CopyField(t)
  <2>1. UNCHANGED <<m, colls, attached>>
    BY <1>1, HasFileIs, GetMetadataIs, GetCollectionIs, CopyFieldIs
  <2> QED
    BY <2>1, SameColl, PlanKept
<1>2. CASE AddFile(t)
  BY <1>2, AddFileIs, NoBump, PlanDone
<1>3. CASE SetEntry(t)
  <2>1. /\ AtBlock(t) /\ w[t].pc = "set" /\ UNCHANGED m
        /\ \A i \in Index : coll'[i] = IF known /\ w[t].coll = attached /\ i = Current(t) - 1
                                       THEN w[t].obj ELSE coll[i]
    BY <1>3, SetEntryIs, ObservedSet
  <2>2. CASE m.pc = "idle" \/ m.op \in {"insert", "delete"}
    <3>1. m.pc # "below"
      BY <2>1, <2>2 DEF CountInv, SettersInv, Rebuilt
    <3> QED
      BY <2>1, <2>2, <3>1, PlanDone
  <2>3. CASE m.pc # "idle" /\ m.op = "modify"
    <3>1. Changed(scene) /\ DOMAIN m.plan \subseteq Stored(coll) /\ m.pc # "below"
      BY <2>3 DEF CountInv, Changed, Types, ShapeInv
    <3>2. coll[Current(t) - 1] = Null
      BY <2>1, <3>1 DEF HandInv, HandOf
    <3>3. \A j \in DOMAIN m.plan : j \in Index /\ j # Current(t) - 1
      BY <3>1, <3>2 DEF Stored
    <3> QED
      BY <2>1, <2>3, <3>1, <3>3 DEF PlanInv
  <2> QED
    BY <2>2, <2>3 DEF CountInv
<1> QED
  BY <1>1, <1>2, <1>3 DEF WorkerStep

LEMMA EditPlan ==
  ASSUME Types, Types', Edit
  PROVE  PlanInv'
<1>1. ASSUME NEW b \in Block, BumpVersion(b) PROVE PlanInv'
  <2>1. /\ m'.pc = "bump" /\ m'.at = b /\ DOMAIN m'.plan = {b - 1}
        /\ m'.plan[b - 1] = coll[b - 1] /\ coll' = coll
    BY <1>1, BumpVersionIs, SameColl
  <2> QED
    BY <2>1 DEF PlanInv
<1>2. ASSUME NEW b \in Block, CollectShifted(b) PROVE PlanInv'
  <2>1. /\ m'.op = "insert" /\ \A j \in DOMAIN m'.plan : m'.plan[j] = coll[j - 1]
        /\ coll' = coll
    BY <1>2, CollectShiftedIs, SameColl
  <2> QED
    BY <2>1 DEF PlanInv
<1>3. ASSUME NEW b \in Block, CollectDelete(b) PROVE PlanInv'
  BY <1>3, CollectDeleteIs, PlanDone
<1>4. CASE RemoveFile \/ AddEmptyFile \/ Load
  BY <1>4, ReattachIs, PlanDone DEF RemoveFile, AddEmptyFile, Load
<1> QED
  BY <1>1, <1>2, <1>3, <1>4 DEF Edit

LEMMA RebuildPlan ==
  ASSUME Types, Types', CountInv, PlanInv, Rebuild
  PROVE  PlanInv'
<1>1. CASE BumpTimestamp
  <2>1. /\ m'.pc = "set" /\ m.pc = "bump" /\ m.op = "modify" /\ m'.plan = m.plan /\ m'.at = m.at
        /\ coll' = coll
    BY <1>1, BumpTimestampIs, SameColl
  <2> QED
    BY <2>1 DEF PlanInv
<1>2. CASE CollectBelow
  BY <1>2, CollectBelowIs, PlanDone
<1>3. CASE Clear
  <2>1. m'.pc = "set" /\ m'.op \in {"insert", "delete"}
    BY <1>3, ClearIs DEF CountInv, Rebuilding
  <2> QED
    BY <2>1, PlanDone
<1>4. CASE SetNext
  <2> DEFINE j == Min(DOMAIN m.plan)
             o == m.plan[j]
  <2>1. /\ m.pc = "set" /\ m'.pc = "set" /\ m'.op = m.op /\ m'.at = m.at
        /\ known /\ j \in DOMAIN m.plan /\ UNCHANGED attached
        /\ DOMAIN m'.plan = DOMAIN m.plan \ {j}
        /\ \A i \in DOMAIN m'.plan : m'.plan[i] = m.plan[i]
    BY <1>4, SetNextIs
  <2>0. /\ UNCHANGED attached /\ attached \in DOMAIN colls
        /\ colls' = [colls EXCEPT ![attached][j] = o]
    BY <1>4, SetNextIs, CollTypes
  <2> HIDE DEF j, o
  <2>2. \A i \in Index : coll'[i] = IF known /\ attached = attached /\ i = j THEN o ELSE coll[i]
    BY <2>0, CollAfterSet
  <2>3. m.op = "modify" => DOMAIN m.plan \subseteq Index
    BY <2>1 DEF CountInv, Stored
  <2> QED
    BY <2>1, <2>2, <2>3 DEF PlanInv
<1>5. CASE Finish
  BY <1>5, FinishIs, PlanDone
<1> QED
  BY <1>1, <1>2, <1>3, <1>4, <1>5 DEF Rebuild

LEMMA StepPlan ==
  ASSUME Types, Types', CountInv, SettersInv, HandInv, PlanInv, [CNext]_cvars
  PROVE  PlanInv'
<1>1. ASSUME UNCHANGED cvars PROVE PlanInv'
  BY <1>1, SameColl, PlanKept DEF cvars
<1> QED
  BY <1>1, WorkerPlan, EditPlan, RebuildPlan DEF CNext

-----------------------------------------------------------------------------
(***************************************************************************)
(* Each step is one of AtomicFile, or none there.                          *)
(***************************************************************************)
AtomicStep == DistinctInv' /\ (AF!Next \/ UNCHANGED <<attached, View>>)

(* The objects that are in the store do not change.                        *)
SameContent == \A i \in Index : Observed[i] # Null =>
                  Content'[Observed[i]] = Content[Observed[i]]

LEMMA Stutters ==
  ASSUME Types, Types', DistinctInv, UNCHANGED attached, Observed' = Observed, SameContent
  PROVE  AtomicStep
<1>1. DistinctInv'
  BY DEF DistinctInv, Distinct
<1>2. \A i \in Index : View'[i] = View[i]
  BY ViewIs, ViewNextIs DEF SameContent
<1>3. View' = View
  BY <1>2, ViewIs, ViewNextIs
<1> QED
  BY <1>1, <1>3 DEF AtomicStep

LEMMA InObj == ASSUME Types, NEW i \in Index, Observed[i] # Null PROVE Observed[i] \in Obj
BY ObservedIs

(* What is observed is in the collection, or about to be set.              *)
LEMMA ObservedFrom ==
  ASSUME Types, NEW i \in Index, Observed[i] # Null
  PROVE  (\E j \in Index : Observed[i] = coll[j]) \/ \E j \in DOMAIN m.plan : Observed[i] = m.plan[j]
<1>1. \A j \in Index : Completed[j] # Null =>
        (\E k \in Index : Completed[j] = coll[k]) \/ \E k \in DOMAIN m.plan : Completed[j] = m.plan[k]
  BY CompletedIs
<1>2. CASE m.pc \notin {"clear", "set"} \/ m.op = "modify"
  BY <1>2, ObservedIs
<1>3. CASE m.pc \in {"clear", "set"} /\ m.op = "delete"
  BY <1>1, <1>3, ObservedIs
<1>4. CASE m.pc \in {"clear", "set"} /\ m.op \notin {"modify", "delete"}
  <2>1. Observed = DeleteEntry(Completed, m.at - 1) /\ m.at - 1 \in Index
    BY <1>4, ObservedIs, AtIndex
  <2>2. \E j \in Index : Observed[i] = Completed[j]
    BY <2>1, CompletedIs, DeleteIs
  <2> QED
    BY <1>1, <2>2
<1> QED
  BY <1>2, <1>3, <1>4

LEMMA UnknownUnseen ==
  ASSUME Types, NEW o \in Obj, Unknown(o), NEW i \in Index, Observed[i] = o
  PROVE  FALSE
<1>1. Observed[i] # Null
  BY NullAssumption
<1> QED
  BY <1>1, ObservedFrom, CollKnown DEF Unknown

LEMMA AFIs ==
  /\ AF!Index = Index /\ AF!Empty = Empty /\ AF!Meta = [version : Nat, timestamp : Nat]
  /\ AF!Fresh = [version : {1}, timestamp : Nat]
  /\ \A M : AF!Entries(M) = [Index -> M \cup {Null}]
  /\ \A c, i : AF!DeleteEntry(c, i) = [j \in Index |-> IF j < i THEN c[j]
                                          ELSE IF j < SizeMax THEN c[j + 1] ELSE Null]
  /\ \A c, i, o : AF!InsertEntry(c, i, o) =
       [j \in Index |-> IF j = i THEN o ELSE IF j > i THEN c[j - 1]
                        ELSE IF j = 0 /\ c[SizeMax] # Null THEN c[SizeMax] ELSE c[j]]
BY DEF AF!Index, Index, AF!Empty, Empty, AF!Meta, AF!Fresh, AF!Entries, AF!DeleteEntry,
       AF!InsertEntry

LEMMA MetaNow ==
  ASSUME Types, NEW o \in Obj
  PROVE  metas[o] \in [version : Nat, timestamp : Nat]
BY StoreTypes, SceneTypes

LEMMA ContentFixed ==
  ASSUME UNCHANGED <<m, metas>>
  PROVE  Content' = Content
BY DEF Content

LEMMA QuietAtomic ==
  ASSUME Types, Types', DistinctInv, UNCHANGED <<colls, attached, m, metas>>
  PROVE  AtomicStep
BY ObservedKept, ContentFixed, Stutters DEF SameContent

LEMMA GetCollectionAtomic ==
  ASSUME Types, Types', FreshInv, DistinctInv, NEW t \in Worker, GetCollection(t)
  PROVE  AtomicStep
<1> DEFINE o == <<t, Current(t)>>
<1>1. /\ UNCHANGED <<colls, attached, m>> /\ m.pc = "idle" /\ Unknown(o) /\ o \in Obj
      /\ \A p \in Obj \ {o} : metas'[p] = metas[p]
  BY GetCollectionIs, NoBump, FreshInHand, CurrentIn
<1> HIDE DEF o
<1>2. ASSUME NEW i \in Index, Observed[i] # Null
      PROVE  Content'[Observed[i]] = Content[Observed[i]]
  <2>1. Observed[i] \in Obj /\ Observed[i] # o
    BY <1>1, <1>2, InObj, UnknownUnseen
  <2> QED
    BY <1>1, <2>1, ContentIs, ContentNext
<1> QED
  BY <1>1, <1>2, ObservedKept, Stutters DEF SameContent

(* The file gets blocks with new metadata, or none.                        *)
LEMMA AddAtomic ==
  ASSUME Types, Types', ~known, attached' # 0, m'.pc = "idle", coll' = Empty
  PROVE  AtomicStep
<1>1. Observed' = Empty
  BY ObservedNone
<1>2. DistinctInv'
  BY <1>1, CollTypes DEF DistinctInv, Distinct
<1>3. \A i \in Index : View'[i] = Null
  BY <1>1, CollTypes, ViewNextIs
<1>4. View' \in [Index -> AF!Fresh \cup {Null}]
  BY <1>3, ViewNextIs
<1>5. AF!Add
  BY <1>4, AFIs DEF AF!Add, known
<1> QED
  BY <1>2, <1>5 DEF AtomicStep, AF!Next

LEMMA AddFileAtomic ==
  ASSUME Types, Types', DistinctInv, NEW t \in Worker, AddFile(t)
  PROVE  AtomicStep
<1>1. UNCHANGED <<m, metas>> /\ m.pc = "idle"
  BY AddFileIs, NoBump
<1>2. CASE known
  BY <1>1, <1>2, AddFileIs, QuietAtomic
<1>3. CASE ~known
  <2>1. known' /\ coll' = Empty
    BY <1>3, AddFileIs, CollTypes, CollAfterAppend
  <2> QED
    BY <1>1, <1>3, <2>1, AddAtomic DEF known
<1> QED
  BY <1>2, <1>3

LEMMA SetEntryAtomic ==
  ASSUME Types, Types', CountInv, SettersInv, HandInv, DistinctInv,
         NEW t \in Worker, SetEntry(t)
  PROVE  AtomicStep
<1> DEFINE i == Current(t) - 1
           o == w[t].obj
<1>1. /\ Observed = coll /\ Observed' = coll' /\ i \in Index
      /\ \A j \in Index : coll'[j] = IF known /\ w[t].coll = attached /\ j = i THEN o ELSE coll[j]
  BY ObservedSet
<1>2. /\ AtBlock(t) /\ w[t].pc = "set" /\ UNCHANGED <<attached, metas, m>>
      /\ w[t].obj = <<t, Current(t)>>
  BY SetEntryIs
<1>3. o \in Obj /\ Private(o) /\ metas[o].version = 1 /\ metas[o] \in [version : Nat, timestamp : Nat]
  <2>1. o \in Obj
    BY <1>2, CurrentIn
  <2> QED
    BY <1>2, <2>1, MetaNow DEF HandInv, HandOf
<1>4. \A j \in Index : coll[j] # o
  BY <1>3, PrivateColl
<1>5. o # Null
  BY <1>3, NullAssumption
<1> HIDE DEF i, o
<1>6. Content' = Content
  BY <1>2, ContentFixed
<1>7. CASE known /\ w[t].coll = attached
  <2>1. DistinctInv'
    BY <1>1, <1>4, <1>7 DEF DistinctInv, Distinct
  <2>2. Content[o] = metas[o]
    <3>1. m.pc = "bump" => o # m.plan[m.at - 1]
      BY <1>3 DEF Private, Types, ShapeInv
    <3> QED
      BY <1>3, <3>1, ContentIs
  <2>3. View'[i] = metas[o] /\ \A j \in Index : j # i => View'[j] = View[j]
    BY <1>1, <1>5, <1>6, <1>7, <2>2, ViewIs, ViewNextIs
  <2>4. View' = [j \in Index |-> View'[j]]
    BY ViewNextIs
  <2>5. View'[i] \in AF!Fresh
    BY <1>3, <2>3, AFIs
  <2>6. AF!Register
    BY <2>3, <2>4, <2>5, AFIs DEF AF!Register
  <2> QED
    BY <1>1, <1>2, <1>7, <2>1, <2>6, AFIs DEF AtomicStep, AF!Next, known
<1>8. CASE ~(known /\ w[t].coll = attached)
  <2>1. Observed' = Observed
    BY <1>1, <1>8, ObservedIs, ObservedNextIs, SameEntries
  <2> QED
    BY <1>2, <1>6, <2>1, Stutters DEF SameContent
<1> QED
  BY <1>7, <1>8

LEMMA WorkerAtomic ==
  ASSUME Types, Types', FreshInv, CountInv, SettersInv, HandInv, DistinctInv,
         NEW t \in Worker, WorkerStep(t)
  PROVE  AtomicStep
<1>1. CASE HasFile(t) \/ GetMetadata(t) \/ CopyField(t)
  BY <1>1, HasFileIs, GetMetadataIs, CopyFieldIs, QuietAtomic
<1> QED
  BY <1>1, GetCollectionAtomic, AddFileAtomic, SetEntryAtomic DEF WorkerStep

(* Updates.                                                                *)
LEMMA BumpVersionAtomic ==
  ASSUME Types, Types', DistinctInv, NEW b \in Block, BumpVersion(b)
  PROVE  AtomicStep
<1> DEFINE o == coll[b - 1]
<1>1. /\ o \in Obj /\ m.pc = "idle" /\ m'.pc = "bump" /\ m'.plan[m'.at - 1] = o
      /\ UNCHANGED attached /\ \A p \in Obj \ {o} : metas'[p] = metas[p]
  BY BumpVersionIs
<1>2. metas' = [metas EXCEPT ![o].version = @ + 1]
  BY DEF BumpVersion
<1> HIDE DEF o
<1>3. metas[o] \in [version : Nat, timestamp : Nat] /\ metas \in [Obj -> Meta]
  BY <1>1, MetaNow, StoreTypes
<1>4. Content[o] = metas[o]
  BY <1>1, ContentIs
<1>5. Content'[o] = metas[o]
  <2>1. Content'[o] = [metas'[o] EXCEPT !.version = @ - 1]
    BY <1>1, ContentNext
  <2>2. metas'[o] = [metas[o] EXCEPT !.version = @ + 1]
    BY <1>1, <1>2, <1>3
  <2>3. metas'[o] = [version |-> metas[o].version + 1, timestamp |-> metas[o].timestamp]
    BY <1>3, <2>2
  <2>4. Content'[o] = [version |-> (metas[o].version + 1) - 1, timestamp |-> metas[o].timestamp]
    BY <2>1, <2>3
  <2> QED
    BY <1>3, <2>4
<1>6. ASSUME NEW i \in Index, Observed[i] # Null
      PROVE  Content'[Observed[i]] = Content[Observed[i]]
  <2>1. Observed[i] \in Obj
    BY <1>6, InObj
  <2>2. CASE Observed[i] = o
    BY <1>4, <1>5, <2>2
  <2>3. CASE Observed[i] # o
    BY <1>1, <2>1, <2>3, ContentIs, ContentNext
  <2> QED
    BY <2>2, <2>3
<1> QED
  BY <1>1, <1>6, ObservedBump, Stutters DEF SameContent

LEMMA BumpTimestampAtomic ==
  ASSUME Types, Types', PlanInv, DistinctInv, BumpTimestamp
  PROVE  AtomicStep
<1> DEFINE i == m.at - 1
           o == m.plan[m.at - 1]
<1>1. /\ m.pc = "bump" /\ m'.pc = "set" /\ m.op = "modify" /\ UNCHANGED attached
      /\ \A p \in Obj \ {o} : metas'[p] = metas[p]
  BY BumpTimestampIs
<1>2. /\ i \in Index /\ known /\ o \in Obj /\ i \in DOMAIN m.plan /\ o = coll[i]
  <2>1. i \in DOMAIN m.plan
    BY <1>1 DEF Types, ShapeInv
  <2>2. o = coll[i]
    BY <1>1, <2>1 DEF PlanInv
  <2> QED
    BY <1>1, <2>1, <2>2, AtIndex, PlanEntries
<1>3. Observed = coll /\ Observed' = coll
  BY ObservedTimestamp
<1>4. PICK now \in scene.times : metas' = [metas EXCEPT ![o].timestamp = now]
  BY DEF BumpTimestamp
<1>5. Content[o] = [metas[o] EXCEPT !.version = @ - 1]
  BY <1>1, ContentIs
<1>6. Content'[o] = metas'[o] /\ \A p \in Obj : p # o => Content'[p] = Content[p]
  BY <1>1, <1>2, ContentIs, ContentNext
<1> HIDE DEF i, o
<1>7. /\ metas[o] \in [version : Nat, timestamp : Nat] /\ now \in Nat
      /\ metas'[o] = [metas[o] EXCEPT !.timestamp = now]
  BY <1>2, <1>4, MetaNow, StoreTypes, SceneTypes
<1>8. /\ Content[o] = [version |-> metas[o].version - 1, timestamp |-> metas[o].timestamp]
      /\ Content'[o] = [version |-> metas[o].version, timestamp |-> now]
  BY <1>5, <1>6, <1>7
<1>9. Content'[o] \in [version : {Content[o].version + 1}, timestamp : Nat]
  <2>1. Content[o].version + 1 = metas[o].version
    BY <1>7, <1>8
  <2> QED
    BY <1>7, <1>8, <2>1
<1>10. o # Null
  BY <1>2, NullAssumption
<1>11. ASSUME NEW j \in Index, j # i PROVE View'[j] = View[j]
  <2>1. CASE coll[j] = Null
    BY <1>3, <2>1, ViewIs, ViewNextIs
  <2>2. CASE coll[j] # Null
    <3>1. coll[j] # o
      BY <1>2, <1>3, <1>11, <2>2 DEF DistinctInv, Distinct
    <3>2. coll[j] \in Obj
      BY <2>2, CollTypes
    <3> QED
      BY <1>3, <1>6, <2>2, <3>1, <3>2, ViewIs, ViewNextIs
  <2> QED
    BY <2>1, <2>2
<1>12. View[i] = Content[o] /\ View'[i] = Content'[o]
  BY <1>2, <1>3, <1>10, ViewIs, ViewNextIs
<1>13. View' = [View EXCEPT ![i] = View'[i]]
  BY <1>11, ViewIs, ViewNextIs
<1>14. View[i] # Null
  <2>1. Content[o] \in [version : Nat, timestamp : Nat]
    BY <1>2, ContentIs
  <2> QED
    BY <1>12, <2>1, NullAssumption
<1>15. AF!Modify(i)
  BY <1>9, <1>12, <1>13, <1>14 DEF AF!Modify
<1>16. DistinctInv'
  BY <1>3 DEF DistinctInv, Distinct
<1> QED
  BY <1>1, <1>2, <1>15, <1>16, AFIs DEF AtomicStep, AF!Next, known

(* Steps of a rebuild that do not show.                                    *)
LEMMA PassesUnseen ==
  ASSUME Types, Types', DistinctInv, UNCHANGED <<attached, metas>>, m.pc # "bump", m'.pc # "bump",
         Observed' = Observed
  PROVE  AtomicStep
<1>1. SameContent
  <2>1. \A o \in Obj : Content'[o] = Content[o]
    BY ContentIs, ContentNext
  <2> QED
    BY <2>1, InObj DEF SameContent
<1> QED
  BY <1>1, Stutters

LEMMA CollectShiftedAtomic ==
  ASSUME Types, Types', DistinctInv, NEW b \in Block, CollectShifted(b)
  PROVE  AtomicStep
<1>1. m.pc = "idle" /\ m'.pc \in {"set", "below"} /\ UNCHANGED <<attached, metas>>
  BY CollectShiftedIs
<1> QED
  BY <1>1, ObservedShifted, PassesUnseen

LEMMA CollectDeleteAtomic ==
  ASSUME Types, Types', DistinctInv, NEW b \in Block, CollectDelete(b)
  PROVE  AtomicStep
<1> DEFINE i == b - 1
<1>1. /\ m.pc = "idle" /\ m'.pc = "clear" /\ known /\ UNCHANGED <<attached, metas>>
  BY CollectDeleteIs
<1>2. Observed = coll /\ Observed' = DeleteEntry(coll, i) /\ i \in Index /\ coll[i] # Null
  BY ObservedDelete
<1> HIDE DEF i
<1>3. /\ \A j \in Index : Observed'[j] = IF j < i THEN Observed[j]
                                         ELSE IF j < SizeMax THEN Observed[j + 1] ELSE Null
      /\ \A j \in Index : j < SizeMax => j + 1 \in Index
  BY <1>2, CollTypes, DeleteIs
<1>4. \A o \in Obj : Content'[o] = Content[o]
  BY <1>1, ContentIs, ContentNext
<1>5. DistinctInv'
  <2> SUFFICES ASSUME NEW j \in Index, NEW k \in Index,
                      Observed'[j] # Null, Observed'[j] = Observed'[k]
               PROVE  j = k
    BY DEF DistinctInv, Distinct
  <2>1. j \in Int /\ k \in Int /\ i \in Int
    BY <1>2, BoundsAssumption DEF Index
  <2>2. ASSUME NEW x \in Index, NEW y \in Index, Observed[x] # Null, Observed[x] = Observed[y]
        PROVE  x = y
    BY <2>2 DEF DistinctInv, Distinct
  <2>3. CASE j < i /\ k < i
    BY <1>3, <2>2, <2>3
  <2>4. CASE j < i /\ ~(k < i)
    <3>1. k < SizeMax /\ k + 1 \in Index /\ Observed[j] = Observed[k + 1]
      BY <1>3, <2>4
    <3>2. j = k + 1
      BY <1>3, <2>2, <2>4, <3>1
    <3> QED
      BY <2>1, <2>4, <3>2
  <2>5. CASE ~(j < i) /\ k < i
    <3>1. j < SizeMax /\ j + 1 \in Index /\ Observed[j + 1] = Observed[k]
      BY <1>3, <2>5
    <3>2. j + 1 = k
      BY <1>3, <2>2, <2>5, <3>1
    <3> QED
      BY <2>1, <2>5, <3>2
  <2>6. CASE ~(j < i) /\ ~(k < i)
    <3>1. /\ j < SizeMax /\ k < SizeMax /\ j + 1 \in Index /\ k + 1 \in Index
          /\ Observed[j + 1] = Observed[k + 1] /\ Observed[j + 1] # Null
      BY <1>3, <2>6
    <3>2. j + 1 = k + 1
      BY <2>2, <3>1
    <3> QED
      BY <2>1, <3>2
  <2> QED
    BY <2>3, <2>4, <2>5, <2>6
<1>6. ASSUME NEW j \in Index
      PROVE  View'[j] = IF j < i THEN View[j] ELSE IF j < SizeMax THEN View[j + 1] ELSE Null
  <2>1. \A k \in Index : View[k] = IF Observed[k] = Null THEN Null ELSE Content'[Observed[k]]
    BY <1>4, ViewIs, InObj
  <2>2. View'[j] = IF Observed'[j] = Null THEN Null ELSE Content'[Observed'[j]]
    BY ViewNextIs
  <2> QED
    BY <1>3, <2>1, <2>2
<1>7. View' = AF!DeleteEntry(View, i)
  BY <1>6, AFIs, ViewNextIs
<1>8. View[i] # Null
  <2>1. View[i] = Content[coll[i]] /\ coll[i] \in Obj
    BY <1>2, ViewIs, CollTypes
  <2> QED
    BY <2>1, ContentIs, NullAssumption
<1>9. AF!Delete(i)
  BY <1>7, <1>8 DEF AF!Delete
<1> QED
  BY <1>1, <1>2, <1>5, <1>9, AFIs DEF AtomicStep, AF!Next, known

LEMMA FinishAtomic ==
  ASSUME Types, Types', FreshInv, CountInv, DistinctInv, Finish
  PROVE  AtomicStep
<1> DEFINE o == <<"maintainer", m.edits>>
           i == m.at - 1
<1>1. /\ m.pc = "set" /\ m'.pc = "idle" /\ known /\ m.edits \in 1..MaxEdits /\ i \in Index
      /\ o \in Obj /\ UNCHANGED attached
      /\ m.op = "insert" => \A p \in Obj \ {o} : metas'[p] = metas[p]
      /\ m.op # "insert" => UNCHANGED metas
  BY FinishIs
<1>2. CASE m.op # "insert"
  BY <1>1, <1>2, ObservedFinish, PassesUnseen
<1>3. CASE m.op = "insert"
  <2>1. Observed' = InsertEntry(Observed, i, o)
    BY <1>3, ObservedFinish
  <2>2. Unknown(o)
    <3>1. m.edits \in Coming
      BY <1>1 DEF Coming
    <3> QED
      BY <3>1 DEF FreshInv
  <2>3. FreshMeta(o)
    BY <1>3 DEF Finish
  <2> HIDE DEF o, i
  <2>4. o # Null /\ \A j \in Index : Observed[j] # o
    BY <1>1, <2>2, NullAssumption, UnknownUnseen
  <2>5. /\ \A j \in Index : Observed'[j] =
             IF j = i THEN o ELSE IF j > i THEN Observed[j - 1]
             ELSE IF j = 0 /\ Observed[SizeMax] # Null THEN Observed[SizeMax] ELSE Observed[j]
        /\ \A j \in Index : j > i => j - 1 \in Index
    BY <1>1, <2>1, ObservedIs, InsertIs
  <2>6. SizeMax \in Index /\ SizeMax \in Nat
    BY BoundsAssumption DEF Index
  <2>7. Observed[SizeMax] = Null
    <3>1. Observed = DeleteEntry(Completed, m.at - 1) /\ m.at - 1 \in Index
      BY <1>1, <1>3, ObservedIs, AtIndex
    <3>2. ~(SizeMax < m.at - 1) /\ ~(SizeMax < SizeMax)
      BY <3>1, <2>6 DEF Index
    <3> QED
      BY <2>6, <3>1, <3>2, CompletedIs, DeleteIs
  <2>8. \A p \in Obj : p # o => Content'[p] = Content[p]
    BY <1>1, <1>3, ContentIs, ContentNext
  <2>9. Content'[o] \in [version : {1}, timestamp : Nat]
    <3>1. Content'[o] = metas'[o]
      BY <1>1, ContentNext
    <3>2. PICK now \in scene.times : metas' = [metas EXCEPT ![o] = [version |-> 1, timestamp |-> now]]
      BY <2>3 DEF FreshMeta
    <3>3. metas'[o] = [version |-> 1, timestamp |-> now] /\ now \in Nat
      BY <1>1, <3>2, StoreTypes, SceneTypes
    <3> QED
      BY <3>1, <3>3
  <2>10. DistinctInv'
    <3> SUFFICES ASSUME NEW j \in Index, NEW k \in Index,
                        Observed'[j] # Null, Observed'[j] = Observed'[k]
                 PROVE  j = k
      BY DEF DistinctInv, Distinct
    <3>1. j \in Int /\ k \in Int /\ i \in Int
      BY <1>1, BoundsAssumption DEF Index
    <3>2. ASSUME NEW x \in Index, NEW y \in Index, Observed[x] # Null, Observed[x] = Observed[y]
          PROVE  x = y
      BY <3>2 DEF DistinctInv, Distinct
    <3>3. ASSUME NEW x \in Index
          PROVE  /\ x = i => Observed'[x] = o
                 /\ x > i => Observed'[x] = Observed[x - 1] /\ x - 1 \in Index
                 /\ x < i => Observed'[x] = Observed[x]
      <4>1. x \in Int
        BY DEF Index
      <4> QED
        BY <2>5, <2>7, <3>1, <4>1
    <3>4. CASE j = i \/ k = i
      <4>1. ASSUME NEW x \in Index, x # i PROVE Observed'[x] # o
        <5>1. x \in Int
          BY DEF Index
        <5> QED
          BY <2>4, <3>1, <3>3, <4>1, <5>1
      <4> QED
        BY <3>3, <3>4, <4>1
    <3>5. CASE j < i /\ k < i
      BY <3>2, <3>3, <3>5
    <3>6. CASE j < i /\ k > i
      <4>1. j = k - 1
        BY <3>2, <3>3, <3>6
      <4> QED
        BY <3>1, <3>6, <4>1
    <3>7. CASE j > i /\ k < i
      <4>1. j - 1 = k
        BY <3>2, <3>3, <3>7
      <4> QED
        BY <3>1, <3>7, <4>1
    <3>8. CASE j > i /\ k > i
      <4>1. j - 1 = k - 1
        BY <3>2, <3>3, <3>8
      <4> QED
        BY <3>1, <4>1
    <3> QED
      BY <3>1, <3>4, <3>5, <3>6, <3>7, <3>8
  <2>11. \A k \in Index : View[k] = IF Observed[k] = Null THEN Null ELSE Content'[Observed[k]]
    BY <2>4, <2>8, ViewIs, InObj
  <2>12. View[SizeMax] = Null
    BY <2>6, <2>7, ViewIs
  <2>13. ASSUME NEW j \in Index
         PROVE  View'[j] = IF j = i THEN Content'[o] ELSE IF j > i THEN View[j - 1]
                  ELSE IF j = 0 /\ View[SizeMax] # Null THEN View[SizeMax] ELSE View[j]
    <3>1. View'[j] = IF Observed'[j] = Null THEN Null ELSE Content'[Observed'[j]]
      BY ViewNextIs
    <3> QED
      BY <2>4, <2>5, <2>7, <2>11, <2>12, <3>1
  <2>14. View'[i] = Content'[o]
    BY <1>1, <2>13
  <2>15. View' = AF!InsertEntry(View, i, View'[i])
    BY <2>13, <2>14, AFIs, ViewNextIs
  <2>16. AF!Insert(i)
    BY <2>9, <2>14, <2>15, AFIs DEF AF!Insert
  <2> QED
    BY <1>1, <2>10, <2>16, AFIs DEF AtomicStep, AF!Next, known
<1> QED
  BY <1>2, <1>3

LEMMA RebuildAtomic ==
  ASSUME Types, Types', Room, FreshInv, CountInv, PlanInv, DistinctInv, Rebuild
  PROVE  AtomicStep
<1>1. CASE CollectBelow
  BY <1>1, CollectBelowIs, ObservedBelow, PassesUnseen
<1>2. CASE Clear
  BY <1>2, ClearIs, ObservedClear, PassesUnseen
<1>3. CASE SetNext
  <2>1. m.pc = "set" /\ m'.pc = "set" /\ UNCHANGED <<attached, metas>>
    BY <1>3, SetNextIs
  <2> QED
    BY <1>3, <2>1, ObservedNext, PassesUnseen
<1> QED
  BY <1>1, <1>2, <1>3, BumpTimestampAtomic, FinishAtomic DEF Rebuild

(* The file is removed, added or loaded.                                   *)
LEMMA RemoveAtomic ==
  ASSUME Types, Types', RemoveFile
  PROVE  AtomicStep
<1>1. known /\ m'.pc = "idle" /\ attached' = 0
  BY ReattachIs DEF RemoveFile
<1>2. coll' = Empty
  BY <1>1 DEF coll, known
<1>3. Observed' = Empty
  BY <1>1, <1>2, ObservedNone
<1>4. DistinctInv'
  BY <1>3, CollTypes DEF DistinctInv, Distinct
<1>5. \A i \in Index : View'[i] = Null
  BY <1>3, CollTypes, ViewNextIs
<1>6. View' = AF!Empty
  <2>1. Empty = [i \in Index |-> Null]
    BY DEF Empty
  <2> QED
    BY <1>5, <2>1, ViewNextIs, AFIs
<1>7. AF!Remove
  BY <1>1, <1>6 DEF AF!Remove, known
<1> QED
  BY <1>4, <1>7 DEF AtomicStep, AF!Next

LEMMA AddEmptyFileAtomic ==
  ASSUME Types, Types', AddEmptyFile
  PROVE  AtomicStep
<1>1. Empty \in [Index -> Obj \cup {Null}] /\ Empty # Null
  <2>1. Empty \in [Index -> Obj \cup {Null}]
    BY CollTypes
  <2> QED
    BY <2>1, NullAssumption
<1>2. ~known /\ m'.pc = "idle" /\ colls' = Append(colls, Empty) /\ attached' = Len(colls')
  BY <1>1, ReattachIs DEF AddEmptyFile
<1>3. known' /\ coll' = Empty
  BY <1>1, <1>2, CollAfterAppend
<1> QED
  BY <1>2, <1>3, AddAtomic DEF known

LEMMA LoadAtomic ==
  ASSUME Types, Types', Load
  PROVE  AtomicStep
<1> DEFINE c == Holding("loaded")
<1>1. c \in [Index -> Obj \cup {Null}] /\ \A i \in Index : c[i] \in {Null, <<"loaded", i + 1>>}
  BY HoldingTypes
<1>2. c # Null
  BY <1>1, NullAssumption
<1>3. known /\ Reattach("load", c)
  BY DEF Load
<1> HIDE DEF c
<1>4. m'.pc = "idle" /\ colls' = Append(colls, c) /\ attached' = Len(colls')
  BY <1>2, <1>3, ReattachIs
<1>5. coll' = c /\ Observed' = c
  BY <1>1, <1>4, CollAfterAppend, ObservedNextIs
<1>6. attached' \notin {attached, 0}
  <2> DEFINE C == [Index -> Obj \cup {Null}]
  <2>1. c \in C /\ colls \in Seq(C) /\ attached \in 0..Len(colls)
    BY <1>1, StoreTypes
  <2> HIDE DEF C
  <2> QED
    BY <1>4, <2>1
<1>7. DistinctInv'
  <2> SUFFICES ASSUME NEW i \in Index, NEW j \in Index, c[i] # Null, c[i] = c[j]
               PROVE  i = j
    BY <1>5 DEF DistinctInv, Distinct
  <2>1. <<"loaded", i + 1>>[2] = <<"loaded", j + 1>>[2]
    BY <1>1
  <2> QED
    BY <2>1 DEF Index
<1>8. View' \in [Index -> AF!Meta \cup {Null}]
  <2>1. \A i \in Index : View'[i] \in AF!Meta \cup {Null}
    BY <1>1, <1>5, ViewNextIs, ContentNext, AFIs
  <2> QED
    BY <2>1, ViewNextIs
<1>9. AF!Load
  BY <1>3, <1>6, <1>8, AFIs DEF AF!Load, known
<1> QED
  BY <1>7, <1>9 DEF AtomicStep, AF!Next

LEMMA StepAtomic ==
  ASSUME Types, Types', Room, FreshInv, CountInv, SettersInv, HandInv, PlanInv, DistinctInv,
         [CNext]_cvars
  PROVE  AtomicStep
<1>1. CASE Edit
  BY <1>1, BumpVersionAtomic, CollectShiftedAtomic, CollectDeleteAtomic, RemoveAtomic,
     AddEmptyFileAtomic, LoadAtomic DEF Edit
<1>2. CASE UNCHANGED cvars
  BY <1>2, QuietAtomic DEF cvars
<1> QED
  BY <1>1, <1>2, WorkerAtomic, RebuildAtomic DEF CNext

LEMMA InitAtomicFile == CInit => AF!Init
<1> SUFFICES ASSUME CInit PROVE AF!Init
  OBVIOUS
<1>1. Types /\ m.pc = "idle"
  BY InitTypes DEF CInit
<1>2. Observed = coll /\ \A o \in Obj : Content[o] = metas[o]
  BY <1>1, ObservedIs, ContentIs
<1>3. \A o \in Obj : metas[o] \in [version : {1}, timestamp : Nat]
  <2>1. PICK now \in scene.times : metas = [o \in Obj |-> [version |-> 1, timestamp |-> now]]
    BY DEF CInit
  <2>2. now \in Nat
    BY <1>1, SceneTypes
  <2> QED
    BY <2>1, <2>2
<1>4. \A i \in Index : coll[i] # Null => coll[i] \in Obj
  BY <1>1, CollTypes
<1>5. View \in [Index -> AF!Fresh \cup {Null}]
  <2>1. \A i \in Index : View[i] \in AF!Fresh \cup {Null}
    BY <1>2, <1>3, <1>4, ViewIs, AFIs
  <2> QED
    BY <2>1, ViewIs
<1>6. ASSUME attached = 0 PROVE View = AF!Empty
  <2>1. \A i \in Index : View[i] = Null
    BY <1>1, <1>2, <1>6, CollTypes, ViewIs DEF known
  <2>2. Empty = [i \in Index |-> Null]
    BY DEF Empty
  <2> QED
    BY <2>1, <2>2, ViewIs, AFIs
<1> QED
  BY <1>5, <1>6, AFIs DEF AF!Init

(***************************************************************************)
(* MethodsAreAtomic: seen through the store, the calls of any number of    *)
(* threads and rebuilds of any length happen at once and one after the     *)
(* other, as in AtomicFile, if the blocks that are tagged while others are *)
(* edited are there all the time, or the edits are updates and each block  *)
(* is tagged by one thread.                                                *)
(***************************************************************************)
THEOREM ConcMethodsAreAtomic == Dense /\ Orderly /\ Room /\ CSpec => MethodsAreAtomic
<1> DEFINE I == /\ Dense /\ Orderly /\ Room /\ Types /\ FreshInv /\ PresentInv
                /\ (\A t \in Worker : RegistersOf(t)) /\ CountInv /\ SettersInv
                /\ HandInv /\ PlanInv /\ DistinctInv
<1>1. Dense /\ Orderly /\ Room /\ CInit => I /\ AF!Init
  BY InitTypes, InitFresh, InitPresent, InitFails, InitCount, InitAtomic, InitAtomicFile
<1>2. ASSUME I, [CNext]_cvars PROVE I' /\ [AF!Next]_<<attached, View>>
  <2>1. Types' /\ FreshInv' /\ PresentInv' /\ CountInv' /\ \A t \in Worker : RegistersOf(t)'
    BY <1>2, StepTypes, StepFresh, StepPresent, StepRegisters, StepCount
  <2>2. SettersInv'
    BY <1>2, OrderlySteady, StepSetters
  <2>3. HandInv' /\ PlanInv'
    BY <1>2, <2>1, StepHand, StepPlan
  <2>4. AtomicStep
    BY <1>2, <2>1, StepAtomic
  <2> QED
    BY <1>2, <2>1, <2>2, <2>3, <2>4 DEF AtomicStep
<1> HIDE DEF I
<1> QED
  BY <1>1, <1>2, PTL DEF CSpec, MethodsAreAtomic, AF!Spec
=============================================================================
