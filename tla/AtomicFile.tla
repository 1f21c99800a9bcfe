----------------------------- MODULE AtomicFile -----------------------------
(***************************************************************************)
(* One file of the state store as its callers may think of it: every       *)
(* method takes effect at once, on the metadata themselves.  There are no  *)
(* shared pointers, no mutex and no half rebuilt collections here; the     *)
(* methods that replace the collection are told from those that change the *)
(* blocks in it by its identity.                                           *)
(***************************************************************************)
EXTENDS BlockMap

CONSTANTS Time,      \* epoch seconds
          NoHandle   \* a null collection pointer

VARIABLES handle,    \* the collection of the file, NoHandle if there is none
          view       \* the metadata at each index, Null where there is none

Meta  == [version : Nat, timestamp : Time]
Fresh == [version : {1}, timestamp : Time]

Entries(M) == [Index -> M \cup {Null}]

(* addFile, with blocks or without.                                        *)
Add == /\ handle = NoHandle /\ handle' # NoHandle
       /\ view' \in Entries(Fresh)

(* removeFile.                                                             *)
Remove == /\ handle # NoHandle /\ handle' = NoHandle
          /\ view' = Empty

(* setBlockMetadataCollection.                                             *)
Load == /\ handle # NoHandle /\ handle' \notin {handle, NoHandle}
        /\ view' \in Entries(Meta)

(* What generateTags does for blocks that have no metadata; a thread may   *)
(* be late and replace what is there by then.                              *)
Register == /\ view' = [i \in Index |-> view'[i]]
            /\ \A i \in Index : view'[i] \in Fresh \cup {view[i]}

(* modifyBlock: one version more, and the time of now.                     *)
Modify(i) == /\ view[i] # Null
             /\ view'[i] \in [version : {view[i].version + 1}, timestamp : Time]
             /\ view' = [view EXCEPT ![i] = view'[i]]

(* insertBlock.                                                            *)
Insert(i) == view'[i] \in Fresh /\ view' = InsertEntry(view, i, view'[i])

(* deleteBlock.                                                            *)
Delete(i) == view[i] # Null /\ view' = DeleteEntry(view, i)

(* The file may have been added before.                                    *)
Init == view \in Entries(Fresh) /\ (handle = NoHandle => view = Empty)

Next == \/ Add \/ Remove \/ Load
        \/ /\ handle # NoHandle /\ UNCHANGED handle
           /\ Register \/ \E i \in Index : Modify(i) \/ Insert(i) \/ Delete(i)

Spec == Init /\ [][Next]_<<handle, view>>
=============================================================================
