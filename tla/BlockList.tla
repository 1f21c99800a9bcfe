----------------------------- MODULE BlockList -----------------------------
(***************************************************************************)
(* What the dynamic PDP state store promises its callers: for every file   *)
(* an ordered list of block metadata, addressed from 1, in which an        *)
(* insertion or a deletion moves the blocks behind it by one position and  *)
(* changes nothing else.  StateStore implements this specification with a  *)
(* sparse, 0-based, shared-pointer map.                                    *)
(***************************************************************************)
EXTENDS Integers, SequencesExt

CONSTANTS File,   \* file identifiers
          Null,   \* the list of a file that is not registered
          Meta    \* what a metadata object can hold: [version, timestamp]

VARIABLE list     \* the list of each file

(***************************************************************************)
(* A file is registered with fresh blocks only (version 1), or empty.      *)
(***************************************************************************)
Create(f) == /\ list[f] = Null
             /\ list'[f] \in Seq(Meta)
             /\ \A i \in DOMAIN list'[f] : list'[f][i].version = 1
             /\ list' = [list EXCEPT ![f] = list'[f]]

(***************************************************************************)
(* A persisted list is loaded into an empty file.                          *)
(***************************************************************************)
Load(f) == /\ list[f] = << >>
           /\ list'[f] \in Seq(Meta)
           /\ list' = [list EXCEPT ![f] = list'[f]]

Drop(f) == /\ list[f] # Null
           /\ list' = [list EXCEPT ![f] = Null]

Insert(f, i, m) == /\ m.version = 1
                   /\ list' = [list EXCEPT ![f] = InsertAt(list[f], i, m)]

Delete(f, i) == list' = [list EXCEPT ![f] = RemoveAt(list[f], i)]

(***************************************************************************)
(* The only change of a block in place: its version goes up by one and its *)
(* timestamp is refreshed.                                                 *)
(***************************************************************************)
Bump(f, i, m) == /\ m.version = list[f][i].version + 1
                 /\ list' = [list EXCEPT ![f] = ReplaceAt(list[f], i, m)]

Init == list = [f \in File |-> Null]

Next == \E f \in File :
          \/ Create(f) \/ Load(f) \/ Drop(f)
          \/ /\ list[f] # Null
             /\ \/ \E i \in 1..(Len(list[f]) + 1), m \in Meta : Insert(f, i, m)
                \/ \E i \in 1..Len(list[f]) : Delete(f, i)
                \/ \E i \in 1..Len(list[f]), m \in Meta : Bump(f, i, m)

Spec == Init /\ [][Next]_list
=============================================================================
