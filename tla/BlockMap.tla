------------------------------ MODULE BlockMap ------------------------------
(***************************************************************************)
(* The collection behind one file, InMemoryBlockMetadataCollection: a      *)
(* sparse map from 0-based size_t indices to entries, and the two rebuilds *)
(* that DynamicHashTableStateStore makes of it.  The collection class      *)
(* itself is external; it is modelled from how the store uses it: a        *)
(* function on all indices that is Null where there is no entry, which is  *)
(* what getByIndex returns there.                                          *)
(***************************************************************************)
EXTENDS Integers, FiniteSets

CONSTANTS Null,      \* a null shared_ptr
          SizeMax    \* the largest size_t

(* f where it is defined and g elsewhere: f @@ g of module TLC, which is   *)
(* not known to the provers.                                               *)
Override(f, g) ==
  [x \in DOMAIN f \cup DOMAIN g |-> IF x \in DOMAIN f THEN f[x] ELSE g[x]]

Index == 0..SizeMax

Empty == [i \in Index |-> Null]

Stored(c) == {i \in Index : c[i] # Null}

(* const std::size_t collIdx = blockIndex - 1, which wraps for 0.          *)
CollIdx(b) == IF b = 0 THEN SizeMax ELSE b - 1

(* Mutants: insertBlock overwrites, or loses the entry before; deleteBlock *)
(* leaves a gap, or moves the entries down without clearing the last one.  *)
InsertEntryOverwrites(c, i, o) == [c EXCEPT ![i] = o]

InsertEntryFromBelow(c, i, o) ==
  [j \in Index |-> IF j = i THEN o
                   ELSE IF j > i THEN c[j - 1]
                   ELSE IF j = i - 1 THEN Null ELSE c[j]]

DeleteEntryLeavesGap(c, i) == [c EXCEPT ![i] = Null]

DeleteEntryKeepsLast(c, i) ==
  [j \in Index |-> IF j < i \/ j = SizeMax \/ c[j + 1] = Null THEN c[j] ELSE c[j + 1]]

(***************************************************************************)
(* insertBlock: the entries from i on move up by one, the last of them     *)
(* into slot 0 if it was at SizeMax (idx + 1 wraps, and it is re-set after *)
(* all others); the new entry is set last.                                 *)
(***************************************************************************)
InsertEntry(c, i, o) ==
  [j \in Index |-> IF j = i THEN o
                   ELSE IF j > i THEN c[j - 1]
                   ELSE IF j = 0 /\ c[SizeMax] # Null THEN c[SizeMax]
                   ELSE c[j]]

(***************************************************************************)
(* deleteBlock: the entries above i move down by one, over the one at i.   *)
(***************************************************************************)
DeleteEntry(c, i) ==
  [j \in Index |-> IF j < i THEN c[j]
                   ELSE IF j < SizeMax THEN c[j + 1] ELSE Null]
=============================================================================
