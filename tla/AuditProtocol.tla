--------------------------- MODULE AuditProtocol ---------------------------
(***************************************************************************)
(* One file under audit, from its first tags to its last edit.  The Admin  *)
(* edits the file and, for each edit, calls maintenance(), then            *)
(* generateTags(), and sends blocks and tags to Storage.  The auditor      *)
(* (TPA) calls generateChallenges() and verifyProofs() at any time,        *)
(* Storage answers with generateProofs().  The state store holds the       *)
(* metadata that tags are made from and challenges carry.                  *)
(*                                                                         *)
(* Group elements are symbolic.  A tag sigma_i = [a](H_i + [m_i]u) is the   *)
(* record of what it was made from; hashToCurve is injective and the       *)
(* coefficients nu_j are generic, so that the equation of verifyProofs,    *)
(* linear in them, holds iff it holds for each challenged block.           *)
(***************************************************************************)
EXTENDS BlockMap, SequencesExt

CONSTANTS Block,          \* block contents: sequences of 32-byte segments
          GroupOrder,     \* n, the order of the curve: scalars are modulo n
          Time,           \* epoch seconds that system_clock may report
          Ops,            \* the edits the Admin makes
          MaxBlocks,      \* bound: blocks in the file
          MaxEdits,       \* bound: edits of the file
          WindowSize,     \* blocks in a source window of generateTags()
          MaintainFirst   \* maintenance() comes before generateTags()

ASSUME GroupOrderAssumption == GroupOrder \in Nat \ {0}
ASSUME WindowAssumption == WindowSize \in Nat \ {0}
ASSUME BoundsAssumption == /\ SizeMax \in Nat /\ MaxEdits \in Nat
                           /\ MaxBlocks \in 0..SizeMax
(* Segments are unsigned numbers.                                          *)
ASSUME SegmentsAssumption == \A b \in Block : FoldFunction(+, 0, b) \in Nat

VARIABLES file,      \* the Admin's file
          op, at,    \* the Admin's last edit
          todo,      \* what is left to do about it
          edits,     \* edits so far
          windows,   \* where the windows start that are still to be tagged
          newTags,   \* the tags that generateTags() has returned for them
          known,     \* whether the state store has the file
          store,     \* its metadata in the state store, at 0-based indices
          blocks,    \* the file as Storage has it
          tags,      \* the tag collection of Storage, at 0-based indices
          audit,     \* the audit in progress
          vouched,   \* history: the content each metadata entry stands for
          moved,     \* history: an edit has moved blocks to other positions
          quiet      \* history: the audit is of existing blocks, in a file
                     \* that has been at rest since the audit began

admin   == <<file, op, at, todo, edits, windows, newTags>>
dht     == <<known, store, vouched, moved>>
storage == <<blocks, tags>>
pvars   == <<admin, dht, storage, audit, quiet>>

-----------------------------------------------------------------------------
(* What tags, proofs and verification are made of.                         *)

(* (Mutant: the sum is not reduced.)                                       *)
SegmentSumUnreduced(b) == FoldFunction(+, 0, b)
accumulateBlockSegmentsScalar(b) == FoldFunction(+, 0, b) % GroupOrder

(* generateTags for one block: sigma commits to the block's index, its     *)
(* metadata and the sum of its segments.                                   *)
Tag(i, m, b) == [blockIndex |-> i, metadata |-> m,
                 scalar |-> accumulateBlockSegmentsScalar(b)]

(* generateProofs: items whose tag is not there are skipped, the others    *)
(* add their tag to Theta and their block to M.                            *)
(* (Mutant: the tag collection is addressed from 1.)                       *)
AccumulatedFromOne(items, ts) == {i \in DOMAIN items : ts[i] # Null}
Accumulated(items, ts) == {i \in DOMAIN items : ts[i - 1] # Null}

Proof(items, ts, bs) ==
  [i \in Accumulated(items, ts) |->
     [tag |-> ts[i - 1], scalar |-> accumulateBlockSegmentsScalar(bs[i])]]

(* verifyProofs: Theta^r = Lambda * e(H, R).  Theta brings, with the       *)
(* coefficient of its item, the hash and the scalar of each accumulated    *)
(* tag; the right side brings the hash of each item and the scalar of each *)
(* accumulated block.                                                      *)
Equation(items, proof) ==
  /\ DOMAIN proof = DOMAIN items
  /\ \A i \in DOMAIN items : /\ proof[i].tag.blockIndex = i
                             /\ proof[i].tag.metadata = items[i]
                             /\ proof[i].tag.scalar = proof[i].scalar

-----------------------------------------------------------------------------
(* The Admin.                                                              *)

Idle == todo = {}

UpdateFile == /\ at' \in 1..Len(file)
              /\ \E b \in Block : file' = ReplaceAt(file, at', b)

InsertInFile == /\ Len(file) < MaxBlocks
                /\ at' \in 1..(Len(file) + 1)
                /\ \E b \in Block : file' = InsertAt(file, at', b)

DeleteInFile == /\ at' \in 1..Len(file)
                /\ file' = RemoveAt(file, at')

(* The windows in which the file is read, by their global 0-based starts.  *)
WindowStarts(f) == {0} \cup {s \in 0..(Len(f) - 1) : s % WindowSize = 0}
Window(f, start) == [k \in 1..Min({WindowSize, Len(f) - start}) |-> f[start + k]]
InWindow(f, start) == {start + k : k \in DOMAIN Window(f, start)}

(* The blocks that an edit is to give new tags, the shifted ones among     *)
(* them; none means every block.                                           *)
Wanted(o, i, f) == CASE o = "Upload" -> {}
                     [] o = "Update" -> {i}
                     [] o \in {"Insert", "Delete"} -> i..Len(f)

PlanTags(o, i, f) ==
  LET wanted == Wanted(o, i, f)
      starts == {s \in WindowStarts(f) : wanted = {} \/ wanted \cap InWindow(f, s) # {}}
  IN /\ windows' = starts
     /\ todo' = {"sendTags", "sendBlocks"}
                   \cup (IF o = "Upload" THEN {} ELSE {"maintain"})
                   \cup (IF starts = {} THEN {} ELSE {"generateTags"})

(* The file is new and gets its first tags.                                *)
Upload == /\ op = "none"
          /\ op' = "Upload" /\ at' = 0
          /\ file' \in BoundedSeq(Block, MaxBlocks) \ {<< >>}
          /\ PlanTags(op', at', file')
          /\ quiet' = FALSE
          /\ UNCHANGED <<edits, newTags, dht, storage, audit>>

Edit == /\ Idle /\ op # "none"
        /\ edits < MaxEdits
        /\ edits' = edits + 1
        /\ \/ op' = "Update" /\ UpdateFile
           \/ op' = "Insert" /\ InsertInFile
           \/ op' = "Delete" /\ DeleteInFile
        /\ op' \in Ops
        /\ PlanTags(op', at', file')
        /\ quiet' = FALSE
        /\ UNCHANGED <<newTags, dht, storage, audit>>

(* Mutant: an update refreshes the timestamp but not the version.          *)
MaintainNoBump ==
  /\ "maintain" \in todo /\ op = "Update"
  /\ todo' = todo \ {"maintain"}
  /\ \E now \in Time : store' = [store EXCEPT ![at - 1].timestamp = now]
  /\ vouched' = ReplaceAt(vouched, at, file[at])
  /\ UNCHANGED <<file, op, at, edits, windows, newTags, known, moved,
                 storage, audit, quiet>>

(* Mutant: a deletion leaves a gap.                                        *)
MaintainGap ==
  /\ "maintain" \in todo /\ op = "Delete"
  /\ todo' = todo \ {"maintain"}
  /\ store' = [store EXCEPT ![at - 1] = Null]
  /\ vouched' = RemoveAt(vouched, at)
  /\ moved' = TRUE
  /\ UNCHANGED <<file, op, at, edits, windows, newTags, known,
                 storage, audit, quiet>>

(* maintenance() with one index, on the store: see StateStore.             *)
Maintain ==
  /\ "maintain" \in todo
  /\ MaintainFirst \/ "generateTags" \notin todo
  /\ todo' = todo \ {"maintain"}
  /\ \E now \in Time :
       \/ /\ op = "Update"
          /\ store' = [store EXCEPT ![at - 1] =
                         [version |-> @.version + 1, timestamp |-> now]]
          /\ vouched' = ReplaceAt(vouched, at, file[at])
       \/ /\ op = "Insert"
          /\ store' = InsertEntry(store, at - 1, [version |-> 1, timestamp |-> now])
          /\ vouched' = InsertAt(vouched, at, file[at])
       \/ /\ op = "Delete"
          /\ store' = DeleteEntry(store, at - 1)
          /\ vouched' = RemoveAt(vouched, at)
  /\ moved' = (moved \/ op # "Update")
  /\ UNCHANGED <<file, op, at, edits, windows, newTags, known,
                 storage, audit, quiet>>

(* (Mutant: only the first index of the list is taken.)                    *)
FirstTargetIndex(selector, windowStart, blockCount) ==
  IF selector = {} THEN (windowStart + 1)..(windowStart + blockCount) ELSE {Min(selector)}
resolveTargetBlockIndices(selector, windowStart, blockCount) ==
  IF selector = {} THEN (windowStart + 1)..(windowStart + blockCount) ELSE selector

Start == Min(windows)
Source == Window(file, Start)
Targets == resolveTargetBlockIndices(
             Wanted(op, at, file) \cap InWindow(file, Start), Start, Len(Source))

(* The file and those of the targets that are missing get metadata.        *)
Register(targets) ==
  LET missing == {i \in targets : store[i - 1] = Null}
  IN /\ known' = TRUE
     /\ \E now \in [missing -> Time] :
          store' = [j \in Index |->
                      IF j + 1 \in missing
                      THEN [version |-> 1, timestamp |-> now[j + 1]]
                      ELSE store[j]]
     /\ vouched' = IF missing = {} THEN vouched ELSE file
     /\ UNCHANGED moved

MayTag == /\ "generateTags" \in todo
          /\ ~MaintainFirst \/ "maintain" \notin todo

(* block(localIndex) is counted in the window, all else in the file.       *)
GenerateTags ==
  LET targets == Targets
      blockSource == Source
      localIndex(i) == i - 1 - Start
  IN /\ MayTag
     /\ windows' = windows \ {Start}
     /\ todo' = IF windows' = {} THEN todo \ {"generateTags"} ELSE todo
     /\ Register(targets)
     /\ newTags' = Override([i \in targets |-> Tag(i, store'[i - 1],
                                                    blockSource[localIndex(i) + 1])],
                            newTags)
     /\ UNCHANGED <<file, op, at, edits, storage, audit, quiet>>

(* Mutant: the block that cannot be read goes without a tag.               *)
GenerateTagsSkips ==
  LET targets == Targets
      blockSource == Source
  IN /\ MayTag
     /\ windows' = windows \ {Start}
     /\ todo' = IF windows' = {} THEN todo \ {"generateTags"} ELSE todo
     /\ Register(targets)
     /\ \E i \in targets :
          newTags' = Override([j \in targets \ {i} |-> Tag(j, store'[j - 1],
                                                          blockSource[j - Start])],
                              newTags)
     /\ UNCHANGED <<file, op, at, edits, storage, audit, quiet>>

(* block() throws for block i, which like those before it is registered by *)
(* then.  There are no tags for the window, and the Admin will try again.  *)
(* (If nothing was missing, this is a step that changes nothing.)          *)
GenerateTagsThrows ==
  /\ MayTag
  /\ \E i \in Targets :
       /\ \E j \in Targets : j <= i /\ store[j - 1] = Null
       /\ Register({j \in Targets : j <= i})
  /\ UNCHANGED <<file, op, at, todo, edits, windows, newTags, storage, audit, quiet>>

(* When nothing is left to do, the last edit does not matter any more.     *)
Sent(what) ==
  /\ what \in todo
  /\ todo' = todo \ {what}
  /\ IF todo' = {} THEN op' = "done" /\ at' = 0 ELSE UNCHANGED <<op, at>>

(* allTags->set() of the new tags.  After a deletion the last tag, which   *)
(* no block has any more, is removed.                                      *)
SendTags ==
  LET dropped == IF op = "Delete" THEN {Len(file) + 1} ELSE {}
  IN /\ Sent("sendTags") /\ "generateTags" \notin todo
     /\ tags' = [j \in Index |-> IF j + 1 \in DOMAIN newTags THEN newTags[j + 1]
                                 ELSE IF j + 1 \in dropped THEN Null ELSE tags[j]]
     /\ newTags' = << >>
     /\ UNCHANGED <<file, edits, windows, dht, blocks, audit, quiet>>

SendBlocks == /\ Sent("sendBlocks")
              /\ blocks' = file
              /\ UNCHANGED <<file, edits, windows, newTags, dht, tags,
                              audit, quiet>>

-----------------------------------------------------------------------------
(* The audit.  Items that are not read yet are Null.  Two fields are       *)
(* history: want, what the metadata of an item vouched for when it was     *)
(* read, and served, the blocks that went into the proof.                  *)

NoAudit == [pc |-> "none", items |-> << >>, want |-> << >>,
            proof |-> << >>, served |-> << >>, verdict |-> "none"]

Done(verdict) == [NoAudit EXCEPT !.pc = "done", !.verdict = verdict]

(* generateChallenges() up to the sampling, with the caller's blockCount   *)
(* (0: that of the store) and any challengeCount.                          *)
Challenge ==
  /\ audit.pc \in {"none", "done"}
  /\ \E ext \in 0..MaxBlocks :
       LET blockCount == IF ext # 0 THEN ext ELSE Cardinality(Stored(store))
       IN \E picked \in (IF known THEN SUBSET (1..blockCount) ELSE {{}}) :
            /\ known /\ blockCount > 0 => picked # {}
            /\ audit' = [NoAudit EXCEPT !.pc = "read",
                                        !.items = [i \in picked |-> Null]]
            /\ quiet' = (Idle /\ picked # {} /\ picked \subseteq DOMAIN file)
  /\ UNCHANGED <<admin, dht, storage>>

Unread == {i \in DOMAIN audit.items : audit.items[i] = Null}

(* Each getBlockMetadata() locks the store anew.  It throws for a block    *)
(* that is not there.                                                      *)
ReadMetadata ==
  /\ audit.pc = "read"
  /\ \E i \in Unread :
       audit' = IF store[i - 1] = Null
                THEN Done("error")
                ELSE [audit EXCEPT !.items[i] = store[i - 1],
                                   !.want = Override([j \in {i} |-> vouched[i]], @)]
  /\ UNCHANGED <<admin, dht, storage, quiet>>

(* generateProofs().  block(idx) throws for a block Storage does not have. *)
(* Without items, or with none accumulated, there is no proof.             *)
Prove ==
  LET acc == Accumulated(audit.items, tags) IN
  /\ audit.pc = "read" /\ Unread = {}
  /\ audit' = IF acc \subseteq DOMAIN blocks
              THEN [audit EXCEPT !.pc = "verify",
                                 !.proof = Proof(audit.items, tags, blocks),
                                 !.served = [i \in acc |-> blocks[i]]]
              ELSE Done("error")
  /\ UNCHANGED <<admin, dht, storage, quiet>>

Accepted == /\ audit.pc = "verify"
            /\ DOMAIN audit.items # {} /\ DOMAIN audit.proof # {}
            /\ Equation(audit.items, audit.proof)

Verify ==
  /\ audit.pc = "verify"
  /\ audit' = Done(IF Accepted THEN "ok" ELSE "rejected")
  /\ UNCHANGED <<admin, dht, storage, quiet>>

-----------------------------------------------------------------------------
PInit == /\ file = << >> /\ op = "none" /\ at = 0 /\ todo = {} /\ edits = 0
         /\ windows = {} /\ newTags = << >>
         /\ known = FALSE /\ store = Empty /\ vouched = << >> /\ moved = FALSE
         /\ blocks = << >> /\ tags = Empty
         /\ audit = NoAudit /\ quiet = TRUE

Settle == Maintain \/ GenerateTags \/ SendTags \/ SendBlocks

Answer == ReadMetadata \/ Prove \/ Verify

PNext == Upload \/ Edit \/ Settle \/ GenerateTagsThrows \/ Challenge \/ Answer

(* The Admin completes an edit it has begun: each call returns, waits for  *)
(* no other, and is repeated until it does not throw.  Edits and audits    *)
(* need not happen.                                                        *)
PSpec == PInit /\ [][PNext]_pvars /\ WF_pvars(Settle)

-----------------------------------------------------------------------------
Metadata == [version : 1..(MaxEdits + 1), timestamp : Time]

TagSet == [blockIndex : 1..MaxBlocks, metadata : Metadata, scalar : 0..(GroupOrder - 1)]

ASSUME NullAssumption == Null \notin Metadata \cup TagSet

PTypeOK ==
  /\ {file, blocks, vouched} \subseteq BoundedSeq(Block, MaxBlocks)
  /\ op \in Ops \cup {"none", "Upload", "done"} /\ at \in 0..MaxBlocks /\ edits \in 0..MaxEdits
  /\ todo \subseteq {"maintain", "generateTags", "sendTags", "sendBlocks"}
  /\ windows \subseteq WindowStarts(file)
  /\ windows = {} <=> "generateTags" \notin todo
  /\ DOMAIN newTags \subseteq 1..MaxBlocks /\ Range(newTags) \subseteq TagSet
  /\ {known, moved, quiet} \subseteq BOOLEAN
  /\ store \in [Index -> Metadata \cup {Null}]
  /\ tags \in [Index -> TagSet \cup {Null}]
  /\ audit.pc \in {"none", "read", "verify", "done"}
  /\ audit.verdict \in {"none", "ok", "rejected", "error"}
  /\ DOMAIN audit.items \subseteq 1..MaxBlocks
  /\ Range(audit.items) \subseteq Metadata \cup {Null}
  /\ DOMAIN audit.want \cup DOMAIN audit.served \subseteq DOMAIN audit.items

(***************************************************************************)
(* The state in which every audit of any blocks succeeds: metadata, tags   *)
(* and blocks are there for the same positions, and each tag was made for  *)
(* its position, the metadata of now and the content of now.               *)
(***************************************************************************)
Auditable == /\ blocks = file
             /\ Stored(store) = 0..(Len(file) - 1)
             /\ Stored(tags) = Stored(store)
             /\ \A i \in DOMAIN file : tags[i - 1] = Tag(i, store[i - 1], file[i])

(***************************************************************************)
(* When the Admin has done all that an edit takes, the file is auditable,  *)
(* whatever edits came before and wherever they were made.                 *)
(***************************************************************************)
IdleAuditable == Idle /\ op # "none" => Auditable

(***************************************************************************)
(* An audit during which the file was at rest succeeds, for any sample of  *)
(* existing blocks, whatever blockCount it was drawn with.                 *)
(***************************************************************************)
QuietAudit == audit.pc = "done" /\ quiet => audit.verdict = "ok"

(***************************************************************************)
(* While blocks are only updated in place, an accepted audit, even one     *)
(* that ran while an edit was under way, was answered from the content     *)
(* that the metadata of the challenge stood for: stale tags and stale      *)
(* blocks are detected.  (Blocks that move to another position may have    *)
(* the version and timestamp of the block that was there, and its stale    *)
(* tag then fits; and the content counts as far as its segment sum.)       *)
(***************************************************************************)
AcceptedIsFresh ==
  Accepted /\ ~moved =>
    \A i \in DOMAIN audit.items :
       accumulateBlockSegmentsScalar(audit.served[i]) =
       accumulateBlockSegmentsScalar(audit.want[i])

(***************************************************************************)
(* All that the protocol does to the store, and all it relies on, are the  *)
(* operations of AtomicFile: those that the store offers to any caller,    *)
(* and to several threads.                                                 *)
(***************************************************************************)
AF == INSTANCE AtomicFile WITH NoHandle <- FALSE, handle <- known, view <- store

StoreIsAtomicFile == AF!Spec

(***************************************************************************)
(* Every edit leads to an auditable file.                                  *)
(***************************************************************************)
EditSettles == ~Idle ~> Idle /\ Auditable
=============================================================================
