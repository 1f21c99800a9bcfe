# DHTDynamicAuditStrategy: a formal model

The repository is a C++ plugin that implements a *dynamic provable data
possession* audit.  An **Admin** splits a file into blocks, makes one homomorphic
tag per block, and hands blocks and tags to a **Storage**.  An auditor (**TPA**)
challenges a sample of blocks, Storage answers with an aggregated proof, the TPA
verifies it.  What makes the scheme *dynamic* is a **state store** (the "DHT")
with a version and a timestamp per block: tags commit to them, challenges carry
them, and `maintenance()` changes them when a block is updated, inserted or
deleted.  Keys, file contents and messages are caller data; the state store is
the only state the plugin keeps, and it is shared by all operations and threads.

## 1. Inventory

| Component | Source | State | Operations |
|---|---|---|---|
| `DynamicHashTableStateStore` | `source/state_stores/dynamic_hash_table_state_store.cpp`, its header | `files_`: file id → collection of `shared_ptr<metadata>` at 0-based indices; one mutex, held in every method from first line to last | `addFile` (empty / n blocks), `removeFile`, `hasFile`, `getBlockMetadata`, `getBlockCount`, `getBlockMetadataCollection`, `setBlockMetadataCollection`, `modifyBlock`, `insertBlock`, `deleteBlock`, `listFiles` |
| `VersionedBlockMetadata` | `versioned_block_metadata.h/.cpp` | `version_`, `timestamp_` | `bump()`, accessors, serialization |
| Maintenance | `source/maintain.cpp`, `maintain_types.h` | none of its own | `maintenance()` → `handleUpdate` / `handleInsert` / `handleDelete`: a loop of store calls over `blockIndices` |
| Tag generation | `source/generate_tags.cpp` | none; registers missing files and blocks in the store | `generateTags()`, `resolveTargetBlockIndices()` |
| Challenge generation | `source/generate_challenges.cpp` | none; reads the store | `generateChallenges()` |
| Proofs | `source/generate_proofs.cpp`, `source/common.cpp` | none | `generateProofs()`, `verifyProofs()`, `accumulateBlockSegmentsScalar()`, `computeBlockHash()` |
| Request building | `source/strategy.cpp` | reads the `AuditOperationContext` (results of earlier stages) | `createRequest()` for each operation |
| Keys, initialization | `source/generate_keys.cpp`, `source/initialize_algorithm.cpp` | none | `generateKeys()`, `initializeAlgorithm()` |
| Artifacts and their archives | `artifact_factory.cpp`, `tags.cpp`, `challenges.cpp`, `proves.cpp`, `params.cpp`, `versioned_block_metadata.cpp` | the fields of the object that is read into | `createArtifact()`, `do_serialize()`, `do_deserialize()`, the operators of tags |
| Plugin entry points | `strategy.cpp`, `strategy.h` | none | create, destroy, capabilities |
| CoreLib (engine, collections, SM9 BLS) | git submodule, not in the repository | `InMemoryBlockMetadataCollection` (own lock per call), operation context | external |

**Interaction.**  The engine calls `createRequest()`, which takes what the caller
gave and what earlier stages left in the context, then the stage's handler with
the request.  `generateTags`, `generateChallenges` and `maintenance` reach the
same state store through the request.  There are no callbacks and no messages:
the coupling is (1) the shared store, (2) results in the context, (3) tags and
blocks the caller moves from Admin to Storage.

**What is hard.**

* *Index arithmetic.*  The store is 1-based outside, 0-based and sparse inside;
  `insertBlock` and `deleteBlock` rebuild the map by re-setting shared pointers,
  and `blockIndex - 1` is computed in `size_t`.
* *Loops of atomic calls.*  `maintenance()` is not atomic; the calls shift the
  blocks that later indices of the same request mean, other threads come in
  between, and an exception leaves the earlier calls done.
* *Order of the protocol.*  A tag is bound to index, version, timestamp and
  content; an audit succeeds only when store, tags and blocks agree, and an
  audit may start at any moment of an edit.
* *Past the mutex.*  `generateTags` registers a missing block by `set()` on the
  collection pointer, outside the store's mutex, and copies `*dynMeta` with no
  lock, while a rebuild or `bump()` may be running.
* *Left-over results.*  The context holds results of different rounds, keys,
  files and versions; nothing forces an order of the stages.

* *One equation for all scalars.*  `Θ^r = Λ · e(H, R)` joins what three parties
  computed; tags that are missing, at infinity or stale, and zero coefficients,
  go through skips and retries that tests with random scalars never reach.
* *Half-read objects.*  `do_deserialize()` writes into an existing object field by
  field; an archive that ends early leaves it partly new, and it may be used again.

There is no persistence, no network and no timer in this code, so crashes, lost
messages and timeouts do not occur in it.

**What makes each part correct.**  The store is a list of blocks per file, in
which versions never go back and files do not influence each other (`Refinement`,
`Dense`, `NoSharing`, `Isolation`, `VersionsGrow`, and for callers with any indices
`FilesAreAtomic`).  A maintenance request does
what its list names, or a prefix of it, and an update bumps the block it looked up
(`DoesWhatItNames`, `FailsOnPrefix`, `InsertLands`, `BumpsWhatItFound`).  A completed edit leaves an
auditable file and an accepted audit means fresh content (`IdleAuditable`,
`QuietAudit`, `AcceptedIsFresh`, `EditSettles`), and treats the store as any other caller
does (`StoreIsAtomicFile`).  Threads that tag and threads
that maintain do not lose each other's work and copy whole metadata (`NoneFails`,
`MatchStore`, `NothingLost`, `RegistersNothing`, `CopiesAreWhole`, `Terminates`), and all
they see through the store is as if its methods were atomic (`MethodsAreAtomic`).
Stages in order succeed, left-over results are rejected, and a proof is accepted for one
file at most (`InOrderAccepted`, `NoMixing`, `VerdictStands`).  The equation accepts intact blocks and never a single faulty one,
and tags add up as the pairings do (`Complete`, `SingleFaultRejected`,
`AggregateAgrees`).  Archives give back what was written, and a failed read mixes
nothing but new fields before old ones (`ReadsWhatWasWritten`, `OldOrNew`).
`PROJECT.json` lists the hazards line by line with the properties that cover them.

## 2. Modules

    BlockMap            the rebuilds of one collection (pure operators)
      StateStore        the store; each method is one action
        BlockList         abstract specification: a list of blocks per file
        AtomicFile        abstract specification: one file, with any calls
        StateStoreProofs  theorems
        Maintenance       maintenance() by several clients, composed with the store
          MaintenanceProofs   theorems
      AuditProtocol     one file: edits, tags, delivery, challenge, proof, verdict;
                        its store implements AtomicFile
        AuditProtocolProofs   theorems
      ConcurrentTags    threads in generateTags() and generateChallenges() next to a
                        maintaining thread; implements AtomicFile
        ConcurrentTagsProofs  theorems
    Pipeline            createRequest() and the stages on one context
      PipelineProofs    theorems
    PairingAlgebra      keys, tags, challenge, proof and verdict in exponents
      PairingAlgebraProofs  theorems
    Artifacts           objects that are written to and read from archives
      ArtifactsProofs   theorems
    ListLemmas          what the library's sequence operators compute, for the proofs
    MC*                 instances for TLC

**BlockMap.**  A collection is a function on `Index == 0..SizeMax`, `Null` where
nothing is stored.  `SizeMax` stands for the largest `size_t`, so that `CollIdx(0)`
wraps to it and an entry at `SizeMax` wraps to slot 0 in `InsertEntry`, as in
the code.

**StateStore.**  `files`, `colls` and `metas` are `files_`, the collections and
the metadata objects.  Collections and objects have identities because
the code shares pointers: `bump()` works in place.  Freshness of `make_shared`
is "not reachable".  Each method is one action, because it holds the mutex
throughout; a call that throws changes nothing, so its conditions are the
guard and the failing call is a stuttering step.  `Spec` allows every call with every
index and with any collection that the caller built anew (see the contracts in section 3);
`ListSpec` the calls that the 1-based interface means: insertion between or
behind existing blocks, registration in order, injection of a collection into an
empty file.  `RegisterBlock` is the `set()` that `generateTags` does.

**BlockList.**  What a caller may rely on: per file a sequence, with `Insert`,
`Delete`, `Bump`, `Create`, `Load`, `Drop`.  `StateStore!Refinement` is this
specification under the mapping `list[f] = the metadata of blocks 1, 2, ...`.

**AtomicFile.**  What a caller may rely on who passes any indices, and next to other
threads: one file as metadata at indices, gaps allowed, without pointers, and every method one
step on it: the rebuilds as one, a bump with its version and its time together, and the
registration by `generateTags` of any number of blocks.  `StateStore!FilesAreAtomic` says this of
each file, `ConcurrentTags!MethodsAreAtomic` of the file whose methods are taken apart, and
`AuditProtocol!StoreIsAtomicFile` of the metadata the protocol works on: one specification joins
the store as its methods leave it, as threads see it, and as audits use it.

**Maintenance.**  A request is a record with a program counter; every store
call of the loop is a step that conjoins the store's action.  `named` (the
objects its indices meant when the request was made), `touched` (the objects it
worked on), `calm` (nobody else has moved blocks since) and `found` (the object that
`handleUpdate` has looked up, forgotten when another request changes the file at or before
its index) are history variables.

**AuditProtocol.**  One file.  The Admin edits, then calls `maintenance()`,
`generateTags()`, and delivers tags and blocks, in any order that the calls
allow; an audit may begin and proceed at any moment, reading metadata item by
item (each `getBlockMetadata` locks anew).  A tag is the record of what went into it.
The verification equation is linear in the coefficients ν_j; they are taken as
generic, hashing as injective, so that the equation is agreement item by item.
(That this is what the equation amounts to for an item is the subject of
`PairingAlgebra`.)  Segment sums are taken modulo the group order.  The file is read
in windows of `WindowSize` blocks; `generateTags()` is called for each window that
has a block to tag, counts `block(localIndex)` in the window and all else in the
file.  `GenerateTagsThrows` is a call whose block source throws for some block: it
and those before it are registered, there are no tags, and the Admin calls again.
An insertion or deletion
is followed by new tags for all blocks from there on, because tags commit to the index.
`MaintainFirst` is the question on which the repository's texts disagree: whether
`maintenance()` or `generateTags()` comes first.

**ConcurrentTags.**  One file, and every collection it ever had.  A step is one call on
the collection or one access to a field, so that what the store's mutex does not cover
is interleaved; `mutex` is held across the steps of a rebuild.  A worker keeps the
collection pointer it has looked up, which `removeFile`, `addFile` and
`setBlockMetadataCollection` may make stale, and copies an object's version and
timestamp in two steps, between which `bump()` may write.  A *scene* says who tags or
challenges which blocks, what is registered from the start, who may begin before the file
is known (`early`: the concurrency test prepares the file first,
`tests/test_dht_dynamic_full_integration.cpp`, 1420 ff.), what the maintaining thread
does and how the clock runs; one run plays several scenes.  `MatchStore` speaks of a block
only if nobody was tagging it during the last edit (`Taggers`): a thread that looked for the
block before a removal or a load registers it afterwards, over the loaded entry.
`MethodsAreAtomic` is linearizability: what the store shows (`View`) changes as in `AtomicFile`.
During a deletion the view has the file as it will be from the moment of the snapshot; during
an insertion the file as it was until the new entry is set; during a bump the old
metadata until the timestamp is written (`Completed`, `Observed`, `Content`).

**Pipeline.**  One `AuditOperationContext`.  Every operation may be called at any
time with any fileId, present or not; each either throws, with the conditions
of `createRequest()` and the handler, or replaces its result in the context.
Tags, challenges and proofs record the keys, file, version and challenge
they come from.  Maintenance is an update here: it gives the file metadata it
never had before.  `generateKeys()` may fail for want of random numbers; its result in
the context then has no parameters.

**PairingAlgebra.**  A group element is its exponent over a generator, an integer taken
modulo `GroupOrder`; points add, scalars multiply, the pairing multiplies exponents, and fails
for a point at infinity.  The steps are `generateKeys`, `generateTags` (each tag made
from some metadata and some content, or missing), `generateChallenges`, one step per item of
the loops of `generateProofs` and `verifyProofs`, and what follows the loops.  `made`, `hashSum`
and `aggregate` are history: what each tag was made from, the hash sum of the
items so far, and the sum of the weighted tags by the operators of `DHTDynamicTag`.

**Artifacts.**  One artifact of any kind.  Another object of the kind is written, a prefix
of its archive arrives, and `do_deserialize()` reads it value by value into the artifact,
which keeps what was read when the archive ends.  The items lie in the archive one after the
other, four values each (`ItemValues`).  A value is the field's name with a
stamp of the object it was written from.  Whether `SM9GTElement::deserialize` has
changed the element when it refuses (CoreLib) is left open, as is whether a value
that is read in place is torn.

## 3. What is checked

| Run | Question | Instance | Result |
|---|---|---|---|
| `store_raw` | any calls, any indices, new collections: types, sharing, isolation, versions; is each file an `AtomicFile`? | 2 files, 3 collections, 4 objects, indices 0..2, versions ≤ 2 | holds |
| `store_list` | is the store the list it promises? | the same with indices 0..3, up to 3 blocks, 2 timestamps | holds |
| `maintain` | do requests do what they name, and updates bump what they looked up? | one client with up to two indices, another with two requests of one index, file removal and re-registration | holds |
| `audit_edits` | does every edit settle, is every quiet audit accepted, every accepted one fresh? is the store used as an `AtomicFile`? | up to 3 blocks, 2 edits of all kinds, windows of 2, failing block sources, audits of any sample at any time | holds |
| `conc_kept` | do threads that tag, challenge, edit and move the file keep out of each other's way, and are the store's methods atomic? | 2 workers and a maintaining thread with 2 calls, in four scenes: disjoint windows of a new file; updates, insertions and deletions of 4 blocks; updates of one block next to a new one, under a moving clock; removal, addition and loading | holds |
| `conc_race` | two threads find the file missing: is anything of the first lost when the second adds it? | 2 workers with disjoint windows of a new file, no edits | holds |
| `pairing` | does the equation accept and reject what it should, for all scalars? | 2 blocks with 2 metadata and 2 contents, tags missing or stale, group of order 5, one hash at infinity | holds |
| `artifacts` | what does reading leave, in a fresh or a used object? | 4 objects of all kinds, up to 2 challenge items, archives cut anywhere | holds |
| `pipe_order` | any calls in any order on a context: what is accepted, and does the verdict on a proof stand? | 2 files, 8 calls | holds |
| `audit_tags_first` | tags before maintenance | 1 update | violated |
| `conc_rebuild` | registration during an insertion or deletion | 1 thread, 1 edit | violated |
| `pipe_file_id` | fileId from the context at verification | 5 calls | violated |

**Bounds.**  A rebuild treats entries below, at and above one position: three
slots show each with a neighbour, a fourth the growth.  Two files and three collections allow
a replaced collection next to another file's.  `SizeMax` is small so that the
wrap of index 0 happens in `store_raw`; in the other runs it leaves room for every
insertion, so that no insertion wraps.  Two indices per request are the least with
shifting inside a request; a second client with two calls may come before, between and after
them and makes the file longer than the two indices.  Two edits make every
ordered pair of kinds, and an audit needs one challenge to span them.  One timestamp
in `audit_edits` is the hard case: versions alone must tell metadata apart.  Two threads are
enough for each race found, and show each its absence under the contract.  Eight calls on a
context are one full round (keys, tags, challenges, proof, verification) and three
stages repeated.  Windows of two blocks in
files of three give a second window that does not start at 0.  Two blocks are the least for
which coefficients may cancel out, five the smallest prime order in which two
coefficients, two blinds and their negatives are distinct.  Four objects are enough for a good read after a failed
one after a good one.  Versions are bounded only so that the state space is
finite; nothing depends on the bound.

**Fairness.**  `AuditProtocol`: weak fairness of the calls that an edit under way has still to make: the
Admin completes an edit it began; every call returns and waits for nobody, and
`generateTags()` is called again until its block source does not throw.
Edits and audits need not happen.  `ConcurrentTags`: weak fairness of each worker thread
and of a rebuild that has begun: threads are scheduled, and the mutex is released
by each method's end; weak fairness is enough because there are finitely many edits.
Deadlock is checked but where threads, requests or calls come to their end.

**What the violations say.**

* `audit_tags_first`: `generate_tags.cpp:32` asks for new tags *before*
  maintenance.  The tag is made from the metadata in the store, so that the block never passes an
  audit again.  The integration test has the other order.
* `conc_rebuild`: an entry that is `set()` between the snapshot of a rebuild and its
  `clear()` is lost.  The header calls returned collections safe for concurrent use.
* `pipe_file_id`: `createRequest` takes a missing fileId from
  `generateTagsResult->ext`, which `generateTags` leaves null; the fallback never works.

**Contracts that the passing runs rely on**, seen while modelling:

* Lists of a Delete must descend and of an Insert ascend (`Order = "safe"`);
  with {1, 2} a Delete removes what were blocks 1 and 3.
* An insertion or deletion moves the blocks behind it, and tags commit to the index: all blocks
  from there on need new tags.  `maintain.cpp:40-55` lists per operation what the caller does, and
  for a deletion only that tags are removed; the tests insert and delete at the end, where nothing
  moves.
* `setBlockMetadataCollection` must be given a collection of its own, with distinct objects.  It
  takes any pointer: null, after which the next call on the file dereferences it, or the collection
  of another file, after which the two share their blocks.  The theorems about `Spec` and the
  run `store_raw` are about new collections.
* No request that moves blocks may overlap an update of the file: an insertion or deletion at or
  before the block between the two calls of `handleUpdate` makes it bump another block or throw
  (`BumpsWhatItFound` names this exception and no other).
* A caller's `blockCount` must not exceed the store's: a challenge that draws an index without metadata
  throws.
* Block 0 is rejected only because nothing is stored at the largest index.
* `AcceptedIsFresh` excludes files in which blocks have moved: timestamps are in
  seconds, two blocks tagged in one second have equal metadata, and the stale tag
  of a neighbour then fits.  It is also about segment sums, not contents: the
  segments of a block are added up before they enter a tag.
* Two threads must not register one block: lookup and registration are two steps, and
  the tag of the thread that registered first is then made from metadata that was
  replaced (`generate_tags.cpp:224` says that tag and store match exactly).  Two threads
  that register one *file* do not disturb each other but for the second `addFile()`, which throws
  (`conc_race`).
* Files must not be removed or loaded while a thread is in `generateTags()`: a thread that
  found a block missing registers it after the load, and its entry replaces the loaded one,
  from which another thread may have made a tag (TLC finds this when `MatchStore` is asked of the
  last edit of the tagging thread alone).
* A tag or a challenge made while its own block is bumped may have the old version with
  the new timestamp (`CopiesAreWhole` says: only then).
* The block source of `generateProofs` starts at global block 0: `block(idx)` is called with
  the index in the file, while `generateTags` counts from the start of its window.
* The caller discards an object whose `deserialize()` returned false: it may be partly new.
* Coefficients and blinds are checked for zero bytes, not for a multiple of the group order;
  `pairing` takes them below the order, where the two are the same.
* A tag at infinity is skipped, so that its block is never verified; and two
  faulty blocks are accepted if the coefficients happen to make them cancel out.
* `verifyProofs` does not compare its fileId with the file the challenge was made for; only the
  hash ties a proof to a file, and `VerdictStands` says that it does: one file at most is accepted.

## 4. What is proved

The safety properties of the passing runs are theorems: TLC checks them
on the instances above, `tlapm` for every value of the constants that meets the named
assumptions.  Where a theorem has a hypothesis of its own, the hypothesis holds in the instance
of the run, so that TLC checks the same statement.

**The store** (`StateStoreProofs`), for all files, collections, objects, sizes, times and version
bounds.  Assumed: a client stores fewer blocks than there are indices (`SizeAssumption`); a null
pointer is no object, no metadata and no list (`NullAssumption`, `NullNoMeta`).

| Theorem | Statement |
|---|---|
| `TypeCorrect` | `Spec => []TypeOK` |
| `NeverShared` | `Spec => []NoSharing` |
| `VersionsNeverDecrease` | `Spec => VersionsGrow` |
| `FilesAreIsolated` | `Spec => Isolation` |
| `FilesStayAtomic` | `Spec => FilesAreAtomic` |
| `AlwaysDense` | `ListSpec => [](TypeOK /\ NoSharing /\ Dense)` |
| `StoreImplementsList` | `ListSpec => Refinement` |

**Maintenance** (`MaintenanceProofs`), for any number of clients, requests, indices per request
and width of `size_t`.  Assumed: the indices that clients list are values of `size_t`
(`IndicesAssumption`).

| Theorem | Statement |
|---|---|
| `MaintenanceTypeCorrect` | `MSpec => []MTypeOK` |
| `RequestsDoWhatTheyName` | `Order = "safe" /\ MSpec => []DoesWhatItNames` |
| `RequestsFailOnPrefix` | `Order = "safe" /\ MSpec => []FailsOnPrefix` |
| `InsertionsAlwaysLand` | `EnoughSlots /\ Order = "safe" /\ MSpec => InsertLands` |
| `UpdatesBumpWhatTheyFound` | `EnoughSlots /\ Order = "safe" /\ MSpec => BumpsWhatItFound` |
| `StoreSafeUnderMaintenance` | `MSpec => []NoSharing /\ Isolation /\ VersionsGrow /\ FilesAreAtomic` |

`Order = "safe"` is the caller's contract of section 3: a Delete descends, an Insert
ascends.  `EnoughSlots` says that files are shorter than the index space by the number of calls
that clients can make: an entry in the last slot would wrap to slot 0 in `insertBlock` and move a
block that was inserted before.

**The protocol** (`AuditProtocolProofs`), for any blocks, segments, file lengths, edits and window
sizes.  Assumed: the group order and the window are positive, segments are unsigned, so that
their sum is a natural number (`SegmentsAssumption`, the one fact about a fold that is
needed), null is no metadata.

| Theorem | Statement |
|---|---|
| `AuditTypeCorrect` | `MaintainFirst /\ PSpec => []PTypeOK` |
| `EditsLeaveAuditable` | `MaintainFirst /\ PSpec => []IdleAuditable` |
| `QuietAuditsSucceed` | `MaintainFirst /\ PSpec => []QuietAudit` |
| `AcceptedAuditsAreFresh` | `MaintainFirst /\ PSpec => []AcceptedIsFresh` |
| `StoreStaysAtomic` | `MaintainFirst /\ PSpec => StoreIsAtomicFile` |

The hypothesis is the answer to the question that `audit_tags_first` asks, and shows to be
necessary.

**Threads** (`ConcurrentTagsProofs`), for any number of threads, windows, blocks, edits and
scenes.

| Theorem | Statement |
|---|---|
| `ConcTypeCorrect` | `CSpec => []CTypeOK` |
| `ConcCopiesAreWhole` | `CSpec => CopiesAreWhole` |
| `ConcRegistersNothing` | `Dense /\ CSpec => []RegistersNothing` |
| `ConcNoneFails` | `Dense /\ OneAdds /\ CSpec => []NoneFails` |
| `ConcMatchStore` | `Apart /\ CSpec => []MatchStore` |
| `ConcNothingLost` | `Dense /\ Steady /\ Room /\ CSpec => []NothingLost` |
| `ConcMethodsAreAtomic` | `Dense /\ Orderly /\ Room /\ CSpec => MethodsAreAtomic` |

The hypotheses are about scenes.  `Dense`: a file in which blocks are inserted and deleted
starts without gaps, which `AlwaysDense` shows of list callers.  `OneAdds`: at most one thread can
find the file missing (of two, the second `addFile()` throws).  `Apart`: no two threads tag one block.
`Steady`: a file that is being rebuilt has no blocks to register; this is exactly what
`conc_rebuild` breaks, and what it loses then is the finding.  `Room`: no insertion passes the
largest index.  `Orderly`: while blocks are inserted, deleted or updated, threads tag only blocks
that are in the file all the time, or else there are only updates and no two threads tag one
block.  TLC shows why: `modifyBlock` sets the object it found again, over the one that a second thread
has registered meanwhile, and a rebuild drops what was registered after its snapshot.

**Archives** (`ArtifactsProofs`), for challenges of any length, any number of objects and
archives that end anywhere.

| Theorem | Statement |
|---|---|
| `ArtifactsTyped` | `ASpec => []ATypeOK` |
| `ReadsAreExact` | `ASpec => []ReadsWhatWasWritten` |
| `OldOrNewAlways` | `ASpec => []OldOrNew` |

**The equation** (`PairingAlgebraProofs`), for every group order, file, hash function, set of
contents, keys, coefficients, blinds and number of items.  Assumed: the order is positive, the file
finite, scalars are naturals, hashes integers.

| Theorem | Statement |
|---|---|
| `AuditTypes` | `Spec => []TypeOK` |
| `PairingsAggregate` | `Spec => []AggregateAgrees` |
| `HonestAccepted` | `Spec => []Complete` |
| `SingleFaultNeverHidden` | `Spec => []SingleFaultRejected` |

Only the last needs two more assumptions: the order is prime (`PrimeAssumption`: two numbers
below it that are not zero do not multiply to zero), and `isZero()`, which is CoreLib's, tells
the zeros of the group among the random values (`ZeroAssumption`); the loops in `generateKeys`
and `generateChallenges` draw again on nothing else.

**The context** (`PipelineProofs`), for any files and any number of calls, with and without a
store.  Assumed: the absent fileId is no file (`NullNoFile`), and the bound of calls is a natural
number (`CallsAssumption`).

| Theorem | Statement |
|---|---|
| `ContextTypes` | `LSpec => []LTypeOK` |
| `InOrder` | `LSpec => []InOrderAccepted` |
| `LeftOversRejected` | `LSpec => []NoMixing` |
| `VerdictsStand` | `LSpec => VerdictStands` |

*Argument for the store.*  `TypeOK` is inductive.  `TypeOK /\ NoSharing` is inductive: the two
rebuilds keep entries distinct (`InsertDistinct`, `DeleteDistinct`), one
collection changes at a time (`RebuildSharing`), and an attached collection is
fresh with fresh, injectively placed objects (`AttachSharing`).  Isolation and growing
versions are action properties that need sharing excluded: `bump()` writes through a pointer, and shows in
another block or file unless no other slot has it (`OthersMetas`, `MetaFrame`).  So does
`FilesAreAtomic`: moving the pointers moves the metadata because a new object is none of those that
are moved (`SetNewBlocks`), and a bump shows at one index because the pointer is there only (`ModifyBlocks`).  For list callers
`TypeOK /\ NoSharing /\ Dense` is inductive, `Dense` in the form "filled exactly below n"
(`Fills`, `InsertFills`, `DeleteFills`).  The refinement proof computes what each call does to the
list, point by point (`InsertListing`, `DeleteListing`, `BumpListing`), and shows that it is what
`InsertAt`, `RemoveAt` and `ReplaceAt` do (`InsertAtPoints`, `RemoveAtPoints`); the lists
of other files stay (`OthersListing`).

*Argument for maintenance.*  That a finished request touched the blocks it named is not
inductive.  The invariant says of a request under way, while nobody else moves blocks, that what it
has touched is a prefix of what it named (`Prefix`), and that the indices to come still lead to the
blocks they named (`Ahead`).  The second survives the request's own calls because of the order: a
deletion moves only the blocks behind it, whose indices have been dealt with.  Index 0 is the
exception: it means the last slot, and a deletion may empty that slot, so that `Ahead` allows for null, on which the
call throws.  For insertions the invariant is that the blocks inserted so far are where they were put
(`Landed`), which needs the last slot to be free (`EndFree`); that it stays free is a counting
argument, in which each call still to come may lift the highest entry by one slot
(`EndStaysFree`).  The same free slot keeps a
block in place that an update has looked up, while blocks behind it come and go (`FoundInv`);
what other files go through does not reach it because nothing is shared (`NoSharing`).
Every step of a request is a call of the store or leaves it alone
(`MaintenanceCallsStore`: `MSpec => Spec`), from which the store's theorems carry over, for lists
in any order.

*Argument for the protocol.*  An edit goes through phases (`PhaseInv`): until `maintenance()` the
store is that of the old file, until the new tags are delivered so is the tag collection, until the
blocks are delivered so are the blocks.  The invariant says for each what it agrees with in each
phase (`StoreInv`, `VouchedInv`, `TagsInv`, `BlocksInv`), that the new tags made so far fit, and that
those missing are in a window still to come (`NewTagsInv`).  When nothing is left to do all
agree with the file, which is `IdleAuditable`.  An audit of a file at rest reads and is answered from
what fits (`QuietInv`).  Freshness has a different invariant, for audits at any moment: versions
only grow, so that metadata that are equal to the store's stand for the content that the store's
vouch for, and this relation is kept between the store and the tags, the store and the challenge, the
tags and the challenge, and at last the proof and the challenge (`FreshInv`).  All of it was
checked by TLC on the instance of `audit_edits` before it was proved.  For `StoreIsAtomicFile`
one has to know in addition that the file is in the store before anything but the tag generation of
its upload happens to it (`KnownInv`).

*Argument for the threads.*  Copies: an object is unknown to all others until its maker has set
it (`FreshInv`), and every thread that has an object in hand when it is bumped is marked
(`CopyInv`).  Registering and failing: a block that cannot have been deleted so far is in the collection
or in the plan of the rebuild, in each of its phases (`PresentInv`), and a lookup sees the
collection only between rebuilds, because it waits for the mutex.  A thread loses its file only by a
removal that it can name (`FileInv`).  Agreement: while there is no edit, what a thread has found, set
or copied is what the store has (`MatchInv`), for a block that nobody else is tagging.  Nothing lost: the
entries that are there and those the rebuild will still set are as many as expected, in each
phase (`CountInv`), and no thread is about to set one while there are rebuilds (`SettersInv`).
Atomicity: the refinement mapping of each phase is fixed above; that the steps in between leave the view
alone needs to know what the plan of the rebuild still holds (`PlanInv`: the entries of the
snapshot, shifted, less those set), that no object is at two indices or in the plan and at another index
(`DistinctInv`), so that a bump is a bump of one block, and that an object which a thread is about to set is
in nobody else's hands (`HandInv`).

*Argument for archives.*  What arrived is the beginning of the archive (`ArchiveInv`); the place of
reading says which fields are new (`FieldsInv`), and, with the count that was read, how many items and
how many values of the next (`ItemsInv`).  A read ends with the archive used up, and so with
the object that was written; when it throws, the place of reading is the witness of `OldOrNew`.

*Argument for the equation.*  The loop of `generateProofs` is summed up by an invariant:
`hashSum` has one entry per item passed, and while every item so far is honest,
`Θ = a · g · (hashSum + u · M)`, exactly and not only modulo the order, because Θ, M
and the hash sum grow by the same coefficient.  `Λ = u · R · M` with `R = r · a · g` follows when the proof
is sealed, and the loop of `verifyProofs` rebuilds the same sum, `H = hashSum[k]`; so the two sides of the
equation are the same integer.  `AggregateAgrees` needs no honesty: both sums are
bilinear.  For faulty items the same sum carries a deviation: `Θ = a · g · (hashSum + d + u · M)`,
where each item adds its coefficient times its discrepancy to d, used or skipped.  Modulo the
order d is zero while no item was faulty and the one weighted discrepancy while one was
(`Deviates`, `DeviationStep`).  The two sides of the equation differ by `d · a · g · r`, which is not
zero in a group of prime order, for none of the factors is (`NoZeroDivisors`).

*Argument for the context.*  The properties compare a verdict with the numbers of the last
calls, and are not inductive.  The invariant says, for each result in the context, which calls its parts come
from: tags are of the keys of now unless keys came later, and of their file's version unless
maintenance came later; challenges and proofs likewise (`TagsResult`, `ChallengesAgree`,
`ProvesAgree`).  For left-over tags it needs a fact about files rather than results: if the last
maintenance is later than the last tags, there is a file all of whose tags, those the caller
kept included, are older than it (`Maintained`).  A verdict stands because it is always that of the
challenge and the proof still in the context (`Standing`), whichever later calls replaced keys or tags:
the equation reads neither.

*Only model-checked.*  The liveness properties `EditSettles` and `Terminates`, which are not
within the prover's reach.  What a fold computes for every input
(`accumulateBlockSegmentsScalar`: the sum of the segments modulo the order) would need induction over
data; the proofs use only that it is a function of the block and, by assumption, that the sum is a
natural number.

## 5. What is not modelled

* Plugin entry points and capability queries: allocation and constants.
* CoreLib: not in the repository; external, as the strategy uses it.
* Elliptic-curve arithmetic, hashing and random numbers below the level of exponents;
  bytes and lengths within a field of an archive.
* `initializeAlgorithm`: keeps no state, and nothing reads its parameters.
* Parsing of request inputs in `createRequest` beyond present or absent; seeds.
* `generateTags` throws for a target outside its window or listed twice
  (`resolveTargetBlockIndices`): the modelled Admin lists neither.
* `generateProofs` is one step: it reads blocks and tags that only a delivery changes.
* `generateChallenges` calls `getBlockCount` before its lookups: in `ConcurrentTags` a challenge is
  of given blocks, in `AuditProtocol` the count is read in the step that samples.
* On a context (`Pipeline`) a challenge is of existing blocks, and handlers throw only for what is
  absent or failed in the context.
* `reserve()` for a challenge's items may throw; what it leaves is what a failed read of the first
  item leaves (`Artifacts!ReadCount`).
* `PairingAlgebra!Sigma` uses the operators of tags where `generateTags` uses those of points: they
  compute the same.
* A collection that loads its entries from a repository on demand is a plain one here.

## 6. What is left

* *Composition.*  `AuditProtocol`'s item-by-item equation as a consequence of
  `PairingAlgebra`'s, which would need the freshness of coefficients in probability or over
  all draws.  (That the two stores agree is settled by `AtomicFile`.)
* *Proof.*  The other half of freshness, for files in which blocks move but no two blocks
  have the same timestamp.  `EditSettles` and `Terminates` stay with TLC.
