----------------------------- MODULE StateStore -----------------------------
(***************************************************************************)
(* DynamicHashTableStateStore: for every registered file a collection that *)
(* maps 0-based indices to shared metadata objects.  Callers address       *)
(* blocks from 1; the conversion blockIndex - 1 is done in size_t.  Every  *)
(* method holds the store's mutex from its first line to its last, so each *)
(* is one action.  A call that throws changes nothing: its conditions are  *)
(* the guard of the action, and the failing call is a stuttering step.     *)
(***************************************************************************)
EXTENDS BlockMap, Sequences, Functions

CONSTANTS File,        \* file identifiers
          Coll,        \* identities of block metadata collections
          Obj,         \* identities of metadata objects
          Time,        \* epoch seconds that system_clock may report
          MaxVersion,  \* bound: no block is bumped beyond this version
          MaxBlocks    \* bound: how many blocks a well-behaved client stores

ASSUME SizeAssumption == /\ SizeMax \in Nat
                         /\ MaxBlocks \in 0..SizeMax
                         /\ MaxVersion \in Nat \ {0}
ASSUME NullAssumption == Null \notin Coll \cup Obj

VARIABLES files,   \* files_ : the collection of each file; Null if not there
          colls,   \* the entries of each collection; Null where there is none
          metas    \* the contents of each metadata object

vars == <<files, colls, metas>>

Meta == [version : 1..MaxVersion, timestamp : Time]

(* A null pointer is not metadata, nor a list of them.                     *)
ASSUME NullNoMeta == Null \notin Meta \cup Seq(Meta)

-----------------------------------------------------------------------------
(***************************************************************************)
(* Reading the store.                                                      *)
(***************************************************************************)
hasFile(f) == files[f] # Null

(* getByIndex on the collection of a registered file; Null when absent.    *)
Entry(f, b) == colls[files[f]][CollIdx(b)]

(* totalSize(): the number of entries, whatever their indices are.         *)
getBlockCount(f) == Cardinality(Stored(colls[files[f]]))

Attached == {c \in Coll : \E f \in File : files[f] = c}

Reachable == {o \in Obj : \E c \in Attached, i \in Index : colls[c][i] = o}

(* What make_shared may return: memory nothing in the store points to.     *)
FreshColl == Coll \ Attached
FreshObj  == Obj \ Reachable

-----------------------------------------------------------------------------
(***************************************************************************)
(* Attach a new collection with the entries os, whose contents are ms, to  *)
(* f.  The collection f had before is destroyed with its last reference.   *)
(***************************************************************************)
Attach(f, c, os, ms) ==
  /\ files' = [files EXCEPT ![f] = c]
  /\ colls' = [d \in Coll |-> IF d = c THEN [i \in Index |-> IF i \in DOMAIN os
                                                             THEN os[i] ELSE Null]
                              ELSE IF d = files[f] THEN Empty ELSE colls[d]]
  /\ metas' = [o \in Obj |-> IF o \in DOMAIN ms THEN ms[o] ELSE metas[o]]

(* metadataFactory_(): version 1 and the current time.                     *)
(* (Mutant: versions start at 0.)                                          *)
ZeroMeta  == [version : {0}, timestamp : Time]
FreshMeta == [version : {1}, timestamp : Time]

(* A collection with one new metadata object at each index of S.           *)
AttachNew(f, S, M) ==
  \E c \in FreshColl, os \in Injection(S, FreshObj) :
     \E ms \in [Range(os) -> M] : Attach(f, c, os, ms)

AddEmptyFile(f) == /\ ~hasFile(f)
                   /\ AttachNew(f, {}, FreshMeta)

AddFile(f, n) == /\ ~hasFile(f)
                 /\ n > 0
                 /\ AttachNew(f, 0..(n - 1), FreshMeta)

(* Mutant: files_ is cleared.                                              *)
RemoveAllFiles(f) == /\ hasFile(f)
                     /\ files' = [g \in File |-> Null]
                     /\ colls' = [c \in Coll |-> Empty]
                     /\ UNCHANGED metas

RemoveFile(f) == /\ hasFile(f)
                 /\ files' = [files EXCEPT ![f] = Null]
                 /\ colls' = [colls EXCEPT ![files[f]] = Empty]
                 /\ UNCHANGED metas

(* Mutant: the block gets new metadata instead of a higher version.        *)
ModifyBlockRenews(f, b) ==
  /\ hasFile(f)
  /\ Entry(f, b) # Null
  /\ \E m \in FreshMeta : metas' = [metas EXCEPT ![Entry(f, b)] = m]
  /\ UNCHANGED <<files, colls>>

(* existing->bump() in place, then set() of the same pointer.              *)
ModifyBlock(f, b) ==
  /\ hasFile(f)
  /\ Entry(f, b) # Null
  /\ metas[Entry(f, b)].version < MaxVersion
  /\ \E now \in Time :
        metas' = [metas EXCEPT ![Entry(f, b)] =
                    [version |-> @.version + 1, timestamp |-> now]]
  /\ UNCHANGED <<files, colls>>

(* The new object o is set into the collection of f, which becomes c.      *)
SetNew(f, o, c) == /\ colls' = [colls EXCEPT ![files[f]] = c]
                   /\ \E m \in FreshMeta : metas' = [metas EXCEPT ![o] = m]
                   /\ UNCHANGED files

InsertBlock(f, b) ==
  /\ hasFile(f)
  /\ \E o \in FreshObj : SetNew(f, o, InsertEntry(colls[files[f]], CollIdx(b), o))

(* Mutant: the blocks behind are not moved.                                *)
DeleteBlockInPlace(f, b) ==
  /\ hasFile(f)
  /\ Entry(f, b) # Null
  /\ colls' = [colls EXCEPT ![files[f]][CollIdx(b)] = Null]
  /\ UNCHANGED <<files, metas>>

DeleteBlock(f, b) ==
  /\ hasFile(f)
  /\ Entry(f, b) # Null
  /\ colls' = [colls EXCEPT ![files[f]] = DeleteEntry(@, CollIdx(b))]
  /\ UNCHANGED <<files, metas>>

(* A caller hands over a collection it built anew with entries at S, for   *)
(* instance one restored from a repository.  (The code would take any      *)
(* pointer: null, or a collection that another file has already.)          *)
SetBlockMetadataCollection(f, S) == /\ hasFile(f)
                                    /\ AttachNew(f, S, Meta)

(* generateTags registers a missing block through the collection that      *)
(* getBlockMetadataCollection returned: set() at the index, no shift.      *)
RegisterBlock(f, b) ==
  /\ hasFile(f)
  /\ Entry(f, b) = Null
  /\ \E o \in FreshObj : SetNew(f, o, [colls[files[f]] EXCEPT ![CollIdx(b)] = o])

-----------------------------------------------------------------------------
Init == /\ files = [f \in File |-> Null]
        /\ colls = [c \in Coll |-> Empty]
        /\ metas \in [Obj -> FreshMeta]

(* Any calls on f with any size_t indices.                                 *)
FileNext(f) == \/ AddEmptyFile(f)
               \/ RemoveFile(f)
               \/ \E n \in 1..MaxBlocks : AddFile(f, n)
               \/ \E S \in SUBSET Index : SetBlockMetadataCollection(f, S)
               \/ \E b \in Index : \/ ModifyBlock(f, b)
                                   \/ InsertBlock(f, b)
                                   \/ DeleteBlock(f, b)
               \/ \E b \in Index \ {0} : RegisterBlock(f, b)

Next == \E f \in File : FileNext(f)

Spec == Init /\ [][Next]_vars

(***************************************************************************)
(* Calls as the 1-based interface means them: blocks are inserted between  *)
(* or behind the existing ones, registered in order from the first, and a  *)
(* collection is injected into a file that has no blocks yet.              *)
(***************************************************************************)
HasRoom(f) == hasFile(f) /\ getBlockCount(f) < MaxBlocks

ListFileNext(f) ==
  \/ AddEmptyFile(f)
  \/ RemoveFile(f)
  \/ \E n \in 1..MaxBlocks : AddFile(f, n)
  \/ /\ hasFile(f) /\ getBlockCount(f) = 0
     /\ \E n \in 0..MaxBlocks : SetBlockMetadataCollection(f, 0..(n - 1))
  \/ \E b \in Index : ModifyBlock(f, b) \/ DeleteBlock(f, b)
  \/ /\ HasRoom(f)
     /\ \/ \E b \in 1..(getBlockCount(f) + 1) : InsertBlock(f, b)
        \/ RegisterBlock(f, getBlockCount(f) + 1)

ListNext == \E f \in File : ListFileNext(f)

ListSpec == Init /\ [][ListNext]_vars

-----------------------------------------------------------------------------
TypeOK == /\ files \in [File -> Coll \cup {Null}]
          /\ colls \in [Coll -> [Index -> Obj \cup {Null}]]
          /\ metas \in [Obj -> Meta]

(***************************************************************************)
(* No two files share a collection, and no metadata object is in two       *)
(* slots.  Sharing would make the in-place bump() of one block change      *)
(* another one; the hazard is the shifting by re-setting shared pointers.  *)
(***************************************************************************)
NoSharing ==
  /\ \A f, g \in File : files[f] # Null /\ files[f] = files[g] => f = g
  /\ \A c, d \in Attached, i, j \in Index :
        colls[c][i] # Null /\ colls[c][i] = colls[d][j] => c = d /\ i = j

(* What a caller sees of a file: the metadata behind every index.          *)
View(f) == IF files[f] = Null THEN Null
           ELSE [i \in Index |-> IF colls[files[f]][i] = Null THEN Null
                                 ELSE metas[colls[files[f]][i]]]

(***************************************************************************)
(* Maintenance of one file never shows in another: a step changes the view *)
(* of at most one file.                                                    *)
(***************************************************************************)
Isolation == [][\A f, g \in File :
                   View(f)' # View(f) /\ View(g)' # View(g) => f = g]_vars

(***************************************************************************)
(* While a block stays in the store, shifted or not, its version only      *)
(* grows: bump() is never undone by the rebuild of insertBlock or          *)
(* deleteBlock.                                                            *)
(***************************************************************************)
VersionsGrow == [][\A o \in Reachable \cap Reachable' :
                      metas[o].version <= metas'[o].version]_vars

(***************************************************************************)
(* Any calls, with any indices, are for each file the operations on        *)
(* metadata of AtomicFile: the shared pointers and the file's collection,  *)
(* destroyed and allocated anew, do not show.                              *)
(***************************************************************************)
Blocks(f) == IF files[f] = Null THEN Empty ELSE View(f)

AF(f) == INSTANCE AtomicFile WITH
           NoHandle <- Null, handle <- files[f], view <- Blocks(f)

FilesAreAtomic ==
  /\ \A f \in File : AF(f)!Init
  /\ [][\A f \in File : AF(f)!Next \/ UNCHANGED <<files[f], Blocks(f)>>]_vars

(***************************************************************************)
(* The blocks of a file are numbered without gaps, so that every index in  *)
(* [1, getBlockCount] that generateChallenges draws has metadata.          *)
(***************************************************************************)
Dense == \A c \in Attached : \E n \in 0..MaxBlocks :
            \A i \in Index : (colls[c][i] # Null) <=> (i < n)

(***************************************************************************)
(* The store implements the list of BlockList.                             *)
(***************************************************************************)
Listing(f) == IF files[f] = Null THEN Null
              ELSE [k \in 1..getBlockCount(f) |-> metas[colls[files[f]][k - 1]]]

BL == INSTANCE BlockList WITH list <- [f \in File |-> Listing(f)]

Refinement == BL!Spec
=============================================================================
