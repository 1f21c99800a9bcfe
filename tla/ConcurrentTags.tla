--------------------------- MODULE ConcurrentTags ---------------------------
(***************************************************************************)
(* Threads in generateTags() and generateChallenges() on one file of one   *)
(* state store, next to a thread that maintains, removes, adds or loads    *)
(* the file.  The store's methods hold its mutex; but generateTags()       *)
(* registers a missing block through the collection pointer, with only the *)
(* collection's own lock, and both read a metadata object with no lock at  *)
(* all, while insertBlock and deleteBlock rebuild the collection by many   *)
(* calls on it, bump() writes two fields, and the store may by then have   *)
(* another collection for the file.  A step here is one call on the        *)
(* collection or one access to a field.                                    *)
(***************************************************************************)
EXTENDS BlockMap, FiniteSetsExt, Functions, Sequences, TLC

CONSTANTS Worker,    \* threads in generateTags() or generateChallenges()
          Scenes,    \* who does what in a run, see Scene
          MaxEdits,  \* bound: calls of the maintaining thread
          MaxBlock   \* bound: the largest block index

Block == 1..MaxBlock

Scene == [role       : [Worker -> {"tags", "challenge"}],
          window     : [Worker -> SUBSET Block],  \* their target block indices
          registered : SUBSET Block,    \* blocks with metadata from the start
          early      : SUBSET Worker,   \* they do not wait for the file
          edits      : SUBSET {"modify", "insert", "delete", "remove", "add", "load"},
          times      : SUBSET Nat]      \* what system_clock may report

ASSUME BoundsAssumption == /\ MaxEdits \in Nat /\ MaxBlock \in Nat /\ SizeMax \in Nat
                           /\ MaxBlock <= SizeMax

ASSUME ScenesAssumption == \A s \in Scenes : s \in Scene

VARIABLES scene,    \* the scene that is played
          colls,    \* all collections the file ever had
          attached, \* the one that files_ has, or 0
          metas,    \* the contents of the metadata objects
          mutex,    \* whether the store's mutex is held across steps
          w,        \* the worker threads
          m,        \* the maintaining thread
          expected  \* history: how many entries the collection should have

cvars == <<scene, colls, attached, metas, mutex, w, m, expected>>

known == attached # 0
coll == IF known THEN colls[attached] ELSE Empty

(* A metadata object, named by who made it and for which block or edit.    *)
Obj == (Worker \cup {"prepared", "loaded", "maintainer"}) \X (Block \cup 1..MaxEdits)

ASSUME ObjAssumption == Worker \cap {"prepared", "loaded", "maintainer"} = {}

ASSUME NullAssumption == /\ Null \notin Obj /\ Null \notin [Index -> Obj \cup {Null}]
                         /\ Null \notin [version : Nat, timestamp : Nat]

Field == {"version", "timestamp"}

FreshMeta(o) == \E now \in scene.times :
                   metas' = [metas EXCEPT ![o] = [version |-> 1, timestamp |-> now]]

Current(t) == Min(w[t].todo)

-----------------------------------------------------------------------------
(* The loops of generateTags() and generateChallenges().                   *)

(* History: what the maintaining thread had done when a thread began.      *)
Seen == [edits |-> m.edits, moves |-> m.moves]

NextTarget(rest) == IF rest = {} THEN "done" ELSE "getMetadata"

(* Whoever starts the threads waits for the file, but for the early ones.  *)
MayStart(t) == known \/ t \in scene.early

(* Mutant: the file is added without a look whether it is there.           *)
HasFileNot(t) ==
  /\ w[t].pc = "hasFile" /\ ~mutex /\ MayStart(t)
  /\ w' = [w EXCEPT ![t].pc = "addFile", ![t].begun = Seen]
  /\ UNCHANGED <<scene, colls, attached, metas, mutex, m, expected>>

(* Without the file a challenge has no items.                              *)
HasFile(t) ==
  /\ w[t].pc = "hasFile" /\ ~mutex /\ MayStart(t)
  /\ w' = [w EXCEPT ![t].pc = IF known THEN NextTarget(w[t].todo)
                              ELSE IF scene.role[t] = "tags" THEN "addFile" ELSE "done",
                    ![t].begun = Seen]
  /\ UNCHANGED <<scene, colls, attached, metas, mutex, m, expected>>

(* Mutant: addFile does not look whether the file is there by now.         *)
AddFileAgain(t) ==
  /\ w[t].pc = "addFile" /\ ~mutex
  /\ w' = [w EXCEPT ![t].pc = NextTarget(w[t].todo)]
  /\ colls' = Append(colls, Empty) /\ attached' = Len(colls')
  /\ expected' = IF known THEN expected ELSE 0
  /\ UNCHANGED <<scene, metas, mutex, m>>

(* addFile throws if another thread has added the file meanwhile.          *)
AddFile(t) ==
  /\ w[t].pc = "addFile" /\ ~mutex
  /\ IF known
     THEN /\ w' = [w EXCEPT ![t].pc = "failed"]
          /\ UNCHANGED <<colls, attached, expected>>
     ELSE /\ w' = [w EXCEPT ![t].pc = NextTarget(w[t].todo)]
          /\ colls' = Append(colls, Empty) /\ attached' = Len(colls')
          /\ expected' = 0
  /\ UNCHANGED <<scene, metas, mutex, m>>

(* What follows a lookup that found o.                                     *)
Found(t, o) == [w EXCEPT ![t].pc = IF o # Null THEN "copy"
                                   ELSE IF scene.role[t] = "tags" THEN "getCollection"
                                   ELSE "failed",
                         ![t].obj = o, ![t].raced = FALSE]

(* Mutants: the lookup does not wait for the mutex; a null entry is not    *)
(* noticed.                                                                *)
GetMetadataUnlocked(t) ==
  /\ w[t].pc = "getMetadata"
  /\ w' = Found(t, coll[Current(t) - 1])
  /\ UNCHANGED <<scene, colls, attached, metas, mutex, m, expected>>

GetMetadataUnchecked(t) ==
  /\ w[t].pc = "getMetadata" /\ ~mutex
  /\ w' = [w EXCEPT ![t].pc = "copy", ![t].obj = coll[Current(t) - 1]]
  /\ UNCHANGED <<scene, colls, attached, metas, mutex, m, expected>>

(* getBlockMetadata throws if there is no such block, or no file.  To      *)
(* generateTags the block is new then; generateChallenges throws.          *)
GetMetadata(t) ==
  /\ w[t].pc = "getMetadata" /\ ~mutex
  /\ w' = Found(t, coll[Current(t) - 1])
  /\ UNCHANGED <<scene, colls, attached, metas, mutex, m, expected>>

(* make_shared with version 1, then getBlockMetadataCollection, which      *)
(* throws if there is no file.                                             *)
GetCollection(t) ==
  LET o == <<t, Current(t)>> IN
  /\ w[t].pc = "getCollection" /\ ~mutex
  /\ w' = [w EXCEPT ![t].pc = IF known THEN "set" ELSE "failed",
                    ![t].obj = o, ![t].coll = attached]
  /\ FreshMeta(o)
  /\ UNCHANGED <<scene, colls, attached, mutex, m, expected>>

(* Mutant: the 1-based index is used.                                      *)
SetAtBlockIndex(t) ==
  /\ w[t].pc = "set"
  /\ colls' = [colls EXCEPT ![w[t].coll][Current(t)] = w[t].obj]
  /\ w' = [w EXCEPT ![t].pc = "copy"]
  /\ UNCHANGED <<scene, attached, metas, mutex, m, expected>>

(* collection->set(), which does not take the store's mutex and goes to    *)
(* the collection of the lookup, even if the store has another one by now. *)
SetEntry(t) ==
  /\ w[t].pc = "set"
  /\ colls' = [colls EXCEPT ![w[t].coll][Current(t) - 1] = w[t].obj]
  /\ w' = [w EXCEPT ![t].pc = "copy"]
  /\ expected' = IF w[t].coll = attached /\ coll[Current(t) - 1] = Null
                 THEN expected + 1 ELSE expected
  /\ UNCHANGED <<scene, attached, metas, mutex, m>>

(* metadata = *dynMeta, field by field, in either order.  The tag or the   *)
(* item of the challenge is made from the copy.                            *)
CopyField(t) ==
  /\ w[t].pc = "copy"
  /\ \E f \in Field \ DOMAIN w[t].copy :
       LET copy == Override([g \in {f} |-> metas[w[t].obj][f]], w[t].copy)
           rest == w[t].todo \ {Current(t)}
       IN w' = IF DOMAIN copy # Field
               THEN [w EXCEPT ![t].copy = copy]
               ELSE [w EXCEPT ![t].copy = << >>, ![t].made[Current(t)] = copy,
                              ![t].pc = NextTarget(rest), ![t].todo = rest]
  /\ UNCHANGED <<scene, colls, attached, metas, mutex, m, expected>>

WorkerStep(t) == \/ HasFile(t) \/ AddFile(t) \/ GetMetadata(t) \/ GetCollection(t)
                 \/ SetEntry(t) \/ CopyField(t)

-----------------------------------------------------------------------------
(* The maintaining thread: modifyBlock, insertBlock, deleteBlock, and the  *)
(* methods that give the file another collection, or none.                 *)

MayEdit(op) == /\ m.pc = "idle" /\ m.edits < MaxEdits /\ ~mutex
               /\ op \in scene.edits

(* The store's method op is called for block at and goes on with pc; plan  *)
(* holds the entries that are to be set.                                   *)
Begin(op, pc, at, plan) ==
  /\ MayEdit(op) /\ known
  /\ mutex' = TRUE
  /\ m' = [m EXCEPT !.op = op, !.pc = pc, !.at = at, !.edits = @ + 1, !.plan = plan]

(* Mutant: the mutex stays locked.                                         *)
NoRelease == mutex' = mutex /\ m' = [m EXCEPT !.pc = "idle"]

Release == mutex' = FALSE /\ m' = [m EXCEPT !.pc = "idle"]

(* bump() on the object in place, and set() of the same pointer.           *)
BumpVersion(b) ==
  LET o == coll[b - 1] IN
  /\ o # Null
  /\ Begin("modify", "bump", b, [j \in {b - 1} |-> o])
  /\ metas' = [metas EXCEPT ![o].version = @ + 1]
  /\ w' = [t \in Worker |-> IF w[t].obj = o THEN [w[t] EXCEPT !.raced = TRUE] ELSE w[t]]
  /\ UNCHANGED <<scene, colls, attached, expected>>

BumpTimestamp ==
  /\ m.pc = "bump"
  /\ \E now \in scene.times : metas' = [metas EXCEPT ![m.plan[m.at - 1]].timestamp = now]
  /\ m' = [m EXCEPT !.pc = "set"]
  /\ UNCHANGED <<scene, colls, attached, mutex, w, expected>>

Entries(S) == Restrict(coll, Stored(coll) \cap S)

(* The first snapshot of insertBlock: what is to shift.                    *)
CollectShifted(b) ==
  LET shifted == [j \in {i + 1 : i \in Stored(coll) \cap (b - 1)..SizeMax} |-> coll[j - 1]]
  IN /\ Cardinality(Stored(coll)) < MaxBlock
     /\ Begin("insert", IF shifted = << >> THEN "set" ELSE "below", b, shifted)
     /\ UNCHANGED <<scene, colls, attached, metas, w, expected>>

(* Mutant: what does not shift is not set again.                           *)
CollectNothing ==
  /\ m.pc = "below"
  /\ m' = [m EXCEPT !.pc = "clear"]
  /\ UNCHANGED <<scene, colls, attached, metas, mutex, w, expected>>

(* The second one: what stays, if anything shifts at all.                  *)
CollectBelow ==
  /\ m.pc = "below"
  /\ m' = [m EXCEPT !.pc = "clear", !.plan = Override(@, Entries(0..(m.at - 2)))]
  /\ UNCHANGED <<scene, colls, attached, metas, mutex, w, expected>>

(* The snapshot of deleteBlock: what stays and what moves down.            *)
CollectDelete(b) ==
  LET rest == DeleteEntry(coll, b - 1)
  IN /\ coll[b - 1] # Null
     /\ Begin("delete", "clear", b, Restrict(rest, Stored(rest)))
     /\ UNCHANGED <<scene, colls, attached, metas, w, expected>>

Clear == /\ m.pc = "clear"
         /\ colls' = [colls EXCEPT ![attached] = Empty]
         /\ m' = [m EXCEPT !.pc = "set"]
         /\ UNCHANGED <<scene, attached, metas, mutex, w, expected>>

SetNext == LET j == Min(DOMAIN m.plan) IN
           /\ m.pc = "set" /\ m.plan # << >>
           /\ colls' = [colls EXCEPT ![attached][j] = m.plan[j]]
           /\ m' = [m EXCEPT !.plan = Restrict(@, DOMAIN @ \ {j})]
           /\ UNCHANGED <<scene, attached, metas, mutex, w, expected>>

(* insertBlock sets its new entry last.                                    *)
Finish ==
  /\ m.pc = "set" /\ m.plan = << >>
  /\ IF m.op = "insert"
     THEN LET o == <<"maintainer", m.edits>>
          IN colls' = [colls EXCEPT ![attached][m.at - 1] = o] /\ FreshMeta(o)
     ELSE UNCHANGED <<colls, metas>>
  /\ expected' = expected + (CASE m.op = "insert" -> 1 [] m.op = "delete" -> -1
                                [] OTHER -> 0)
  /\ Release
  /\ UNCHANGED <<scene, attached, w>>

(* removeFile, addFile, or setBlockMetadataCollection with a collection    *)
(* that the caller has loaded (once): the file's collection becomes c.     *)
Reattach(op, c) ==
  /\ MayEdit(op)
  /\ m' = [m EXCEPT !.op = op, !.edits = @ + 1, !.moves = @ + 1]
  /\ IF c = Null THEN attached' = 0 /\ UNCHANGED colls
     ELSE colls' = Append(colls, c) /\ attached' = Len(colls')
  /\ expected' = IF c = Null THEN 0 ELSE Cardinality(Stored(c))
  /\ UNCHANGED <<scene, metas, mutex, w>>

RemoveFile == known /\ Reattach("remove", Null)

AddEmptyFile == ~known /\ Reattach("add", Empty)

Holding(who) == [i \in Index |-> IF i + 1 \in scene.registered THEN <<who, i + 1>> ELSE Null]

Load == /\ known /\ \A c \in DOMAIN colls : colls[c] # Holding("loaded")
        /\ Reattach("load", Holding("loaded"))

Edit == \/ \E b \in Block : BumpVersion(b) \/ CollectShifted(b) \/ CollectDelete(b)
        \/ RemoveFile \/ AddEmptyFile \/ Load

Rebuild == BumpTimestamp \/ CollectBelow \/ Clear \/ SetNext \/ Finish

-----------------------------------------------------------------------------
CInit ==
  /\ scene \in Scenes
  /\ \/ attached = 0 /\ colls = << >> /\ scene.registered = {} /\ scene.early # {}
     \/ attached = 1 /\ colls = <<Holding("prepared")>>
  /\ \E now \in scene.times : metas = [o \in Obj |-> [version |-> 1, timestamp |-> now]]
  /\ mutex = FALSE
  /\ m = [op |-> "none", pc |-> "idle", at |-> 0, edits |-> 0, moves |-> 0, plan |-> << >>]
  /\ w = [t \in Worker |->
            [pc |-> "hasFile", todo |-> scene.window[t], obj |-> Null, coll |-> 0,
             copy |-> << >>, raced |-> FALSE, begun |-> Seen, made |-> [b \in Block |-> Null]]]
  /\ expected = Cardinality(scene.registered)

CNext == (\E t \in Worker : WorkerStep(t)) \/ Edit \/ Rebuild

(* Threads are scheduled, and the mutex is held for finitely many steps    *)
(* and taken finitely often.  Edits need not happen.                       *)
CSpec == /\ CInit /\ [][CNext]_cvars
         /\ \A t \in Worker : WF_cvars(WorkerStep(t))
         /\ WF_cvars(Rebuild)

-----------------------------------------------------------------------------
Meta == [version : 1..(MaxEdits + 1), timestamp : scene.times]

CTypeOK ==
  /\ scene \in Scenes /\ mutex \in BOOLEAN
  /\ colls \in Seq([Index -> Obj \cup {Null}]) /\ attached \in 0..Len(colls)
  /\ metas \in [Obj -> Meta]
  /\ m.pc \in {"idle", "bump", "below", "clear", "set"}
  /\ mutex <=> m.pc # "idle"
  /\ mutex => known
  /\ \A t \in Worker :
       /\ w[t].todo \subseteq scene.window[t]
       /\ w[t].pc \in {"hasFile", "addFile", "getMetadata", "getCollection", "set",
                       "copy", "done", "failed"}
       /\ w[t].pc = "set" => w[t].coll \in DOMAIN colls
       /\ w[t].pc \in {"set", "copy"} => w[t].obj \in Obj
       /\ \A b \in Block : w[t].made[b] \in Meta \cup {Null}

Quiescent == m.pc = "idle" /\ \A t \in Worker : w[t].pc \in {"done", "failed"}

(* Blocks that are there whatever the maintaining thread deletes.          *)
Lasting == {b \in scene.registered :
              /\ "delete" \in scene.edits => b + MaxEdits \in scene.registered
              /\ "remove" \notin scene.edits}

(***************************************************************************)
(* No thread fails because of what another one does, short of removing or  *)
(* replacing the file while it runs.                                       *)
(***************************************************************************)
NoneFails == \A t \in Worker :
               w[t].pc = "failed" => \/ m.moves > w[t].begun.moves
                                     \/ /\ scene.role[t] = "challenge"
                                        /\ ~(scene.window[t] \subseteq Lasting)

(* Those who may register a block.                                         *)
Taggers(b) == {t \in Worker : scene.role[t] = "tags" /\ b \in scene.window[t]}

(***************************************************************************)
(* When all is done, each tag or item of a challenge that was made since   *)
(* the last edit was made from the metadata that the store has for its     *)
(* block: a challenge will find them in agreement.  (Unless somebody was   *)
(* tagging the block during the edit, who may have missed it before and    *)
(* registers it after, over the entry of a loaded collection.)             *)
(***************************************************************************)
MatchStore ==
  Quiescent => \A t \in Worker : \A b \in scene.window[t] :
    /\ w[t].made[b] # Null
    /\ \A u \in {t} \cup Taggers(b) : w[u].begun.edits = m.edits
    => coll[b - 1] # Null /\ w[t].made[b] = metas[coll[b - 1]]

(***************************************************************************)
(* No registration, insertion or deletion is lost, no entry comes back or  *)
(* is dropped by a rebuild that ran at the same time, and what is written  *)
(* through the pointer of a removed or replaced file does not show in the  *)
(* new one.                                                                *)
(***************************************************************************)
NothingLost == Quiescent => Cardinality(Stored(coll)) = expected

(***************************************************************************)
(* A block that is in the file all the time is not registered anew: a half *)
(* rebuilt collection, in which it is missing for a while, is not seen     *)
(* through the store.                                                      *)
(***************************************************************************)
RegistersNothing ==
  \A t \in Worker : w[t].todo \subseteq Lasting => w[t].pc # "getCollection"

(***************************************************************************)
(* A copy of metadata is whole, unless the very object is bumped between   *)
(* its lookup and the end of the copy: never because a bump() was under    *)
(* way at the lookup, or because of an edit of another block.              *)
(***************************************************************************)
CopiesAreWhole ==
  [][\A t \in Worker : \A b \in Block :
       w'[t].made[b] # w[t].made[b] => w[t].raced \/ w'[t].made[b] = metas[w[t].obj]]_cvars

(***************************************************************************)
(* The store's methods are atomic, although insertBlock and deleteBlock    *)
(* rebuild the collection by many calls on it, bump() writes two fields,   *)
(* and threads may hold pointers of collections of before: seen through    *)
(* the store, all happens as in AtomicFile, where a deletion takes effect  *)
(* when it has taken its snapshot, an insertion when its new entry is set, *)
(* and an update when it has written the timestamp.                        *)
(***************************************************************************)
(* The collection with what the rebuild has still to set.                  *)
Completed == [i \in Index |-> IF i \in DOMAIN m.plan THEN m.plan[i]
                              ELSE IF m.pc = "clear" THEN Null ELSE coll[i]]

(* The blocks that are there, for who waits for the mutex.                 *)
Observed == IF m.pc \notin {"clear", "set"} \/ m.op = "modify" THEN coll
            ELSE IF m.op = "delete" THEN Completed
            ELSE DeleteEntry(Completed, m.at - 1)

(* An object that is being bumped is as it was before.                     *)
Content == [o \in Obj |-> IF m.pc = "bump" /\ o = m.plan[m.at - 1]
                          THEN [metas[o] EXCEPT !.version = @ - 1] ELSE metas[o]]

View == [i \in Index |-> IF Observed[i] = Null THEN Null ELSE Content[Observed[i]]]

AF == INSTANCE AtomicFile WITH Time <- Nat, NoHandle <- 0, handle <- attached, view <- View

MethodsAreAtomic == AF!Spec

(***************************************************************************)
(* Every thread comes to an end.                                           *)
(***************************************************************************)
Terminates == <>Quiescent
=============================================================================
