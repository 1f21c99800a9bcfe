------------------------------ MODULE Artifacts ------------------------------
(***************************************************************************)
(* Artifacts that travel: do_serialize() writes the fields of a parameter, *)
(* tag, challenge, proof or metadata object one after the other, and       *)
(* do_deserialize() reads them into an object that already exists.  The    *)
(* archive may end too early, anywhere; reading then throws, deserialize() *)
(* returns false, and the object, which keeps what was read so far, may be *)
(* used again.                                                             *)
(*                                                                         *)
(* A value is <<stamp, field>>: which object it was written from, or 0 for *)
(* a default constructed one.                                              *)
(***************************************************************************)
EXTENDS Naturals, SequencesExt

CONSTANTS MaxItems,  \* items of a challenge
          MaxStamp,  \* objects that are written
          Torn       \* a value of which only some bytes were read

ASSUME BoundsAssumption == MaxItems \in Nat /\ MaxStamp \in Nat

VARIABLES kind,     \* of the artifact
          object,   \* its fields and items
          archive,  \* the values that arrived
          at,       \* where the archive is read next
          count,    \* itemCount
          item,     \* the values of the item that is being read
          pc,
          answer,   \* of the last deserialize()
          stamp,
          sent,     \* history: the object that was written
          before    \* history: the object when reading it began

vars == <<kind, object, archive, at, count, item, pc, answer, stamp, sent, before>>

-----------------------------------------------------------------------------
(* The fields of each class in the order of the archive.                   *)
AlgoParams      == <<"emptyMarker">>  \* public ones and private ones
PublicParams    == <<"pk", "g", "y", "u">>
PrivateParams   == <<"sk", "a">>
TagFields       == <<"sigma">>
ChallengeFields == <<"R", "r", "blockCount">>
ProvesFields    == <<"theta", "lambda">>
VersionedBlockMetadata == <<"version", "timestamp">>

Layout == [AlgorithmParams      |-> AlgoParams,
           UserPublicParams     |-> PublicParams,
           UserPrivateParams    |-> PrivateParams,
           Tag                  |-> TagFields,
           Challenges           |-> ChallengeFields,
           Proves               |-> ProvesFields,
           DynamicBlockMetadata |-> VersionedBlockMetadata]

ChallengeItem == <<"blockIndex", "nu", "itemVersion", "itemTimestamp">>

(* Fields that are read into the object itself, not by way of a local.     *)
InPlace == {"sk", "a", "r", "blockCount", "version", "timestamp"}

(* SM9GTElement::deserialize may refuse what it is given.                  *)
GTElement == {"theta", "lambda"}

Fields == Range(Layout[kind])
HasItems == kind = "Challenges"

(* The marker is a constant of the class.                                  *)
Value(s, f) == IF f = "emptyMarker" THEN <<0, f>> ELSE <<s, f>>

Written(k, s, n) ==
  [fields |-> [f \in Range(Layout[k]) |-> Value(s, f)],
   items  |-> [j \in 1..n |-> [i \in DOMAIN ChallengeItem |-> <<s, j, ChallengeItem[i]>>]]]

Default(k) == Written(k, 0, 0)

(* The values of the items one after the other: FlattenSeq, where all the  *)
(* sequences have the same length.                                         *)
ItemValues(items) ==
  LET width == Len(ChallengeItem)
  IN  [p \in 1..(width * Len(items)) |->
         items[((p - 1) \div width) + 1][((p - 1) % width) + 1]]

serialize(o) ==
  [i \in DOMAIN Layout[kind] |-> o.fields[Layout[kind][i]]]
    \o (IF HasItems THEN <<Len(o.items)>> \o ItemValues(o.items) ELSE << >>)

-----------------------------------------------------------------------------
createArtifact ==
  /\ pc = "ready"
  /\ kind' \in DOMAIN Layout
  /\ object' = Default(kind') /\ before' = object' /\ sent' = object'
  /\ answer' = "none"
  /\ UNCHANGED <<archive, at, count, item, pc, stamp>>

(* DHTDynamicTag::assign, from a tag that was made elsewhere.              *)
assign ==
  /\ pc = "ready" /\ kind = "Tag" /\ stamp < MaxStamp
  /\ stamp' = stamp + 1
  /\ object' = Written(kind, stamp', 0) /\ before' = object' /\ sent' = object'
  /\ answer' = "none"
  /\ UNCHANGED <<kind, archive, at, count, item, pc>>

(* Another object of the kind is written, some of it arrives, and          *)
(* deserialize() is called.                                                *)
Arrive(o) ==
  /\ pc = "ready" /\ stamp < MaxStamp
  /\ stamp' = stamp + 1
  /\ \E n \in 0..(IF HasItems THEN MaxItems ELSE 0) : sent' = Written(kind, stamp', n)
  /\ \E cut \in 0..Len(serialize(sent')) : archive' = SubSeq(serialize(sent'), 1, cut)
  /\ object' = o /\ before' = object
  /\ at' = 1 /\ count' = 0 /\ item' = << >>
  /\ pc' = "fields" /\ answer' = "none"
  /\ UNCHANGED kind

(* Mutant: the items are cleared before anything is read.                  *)
BeginClears == Arrive([object EXCEPT !.items = << >>])

Begin == Arrive(object)

AtField == pc = "fields" /\ at <= Len(Layout[kind])
Field == Layout[kind][at]
Available == at <= Len(archive)

ReadField ==
  /\ AtField /\ Available
  /\ object' = [object EXCEPT !.fields[Field] = archive[at]]
  /\ at' = at + 1
  /\ UNCHANGED <<kind, archive, count, item, pc, answer, stamp, sent, before>>

(* Mutant: the items of before stay.                                       *)
ReadCountKeeps ==
  /\ HasItems /\ pc = "fields" /\ at > Len(Layout[kind]) /\ Available
  /\ count' = archive[at] + Len(object.items)
  /\ at' = at + 1 /\ pc' = "items"
  /\ UNCHANGED <<kind, object, archive, item, answer, stamp, sent, before>>

(* itemCount, items_.clear().                                              *)
ReadCount ==
  /\ HasItems /\ pc = "fields" /\ at > Len(Layout[kind]) /\ Available
  /\ count' = archive[at]
  /\ object' = [object EXCEPT !.items = << >>]
  /\ at' = at + 1 /\ pc' = "items"
  /\ UNCHANGED <<kind, archive, item, answer, stamp, sent, before>>

(* One value of an item; items_.push_back() after the last one.            *)
ReadItem ==
  /\ pc = "items" /\ Len(object.items) < count /\ Available
  /\ LET read == Append(item, archive[at])
     IN IF Len(read) = Len(ChallengeItem)
        THEN /\ object' = [object EXCEPT !.items = Append(@, read)] /\ item' = << >>
        ELSE item' = read /\ UNCHANGED object
  /\ at' = at + 1
  /\ UNCHANGED <<kind, archive, count, pc, answer, stamp, sent, before>>

Return ==
  /\ \/ ~HasItems /\ pc = "fields" /\ at > Len(Layout[kind])
     \/ pc = "items" /\ Len(object.items) = count
  /\ pc' = "ready" /\ answer' = "true"
  /\ UNCHANGED <<kind, object, archive, at, count, item, stamp, sent, before>>

Throw(o) ==
  /\ object' = o
  /\ pc' = "ready" /\ answer' = "false"
  /\ UNCHANGED <<kind, archive, at, count, item, stamp, sent, before>>

(* Mutant: the item that is incomplete is kept.                            *)
TruncatedKeepsItem ==
  /\ pc = "items" /\ Len(object.items) < count /\ ~Available
  /\ Throw([object EXCEPT !.items = Append(@, item)])

(* The archive ends.  A value that is read in place may be torn then.      *)
Truncated ==
  /\ pc # "ready" /\ ~Available
  /\ \/ AtField /\ Field \in InPlace /\ Throw([object EXCEPT !.fields[Field] = Torn])
     \/ AtField /\ Throw(object)
     \/ HasItems /\ pc = "fields" /\ ~AtField /\ Throw(object)
     \/ pc = "items" /\ Len(object.items) < count /\ Throw(object)

Refused ==
  /\ AtField /\ Available /\ Field \in GTElement
  /\ \E v \in {Torn, object.fields[Field]} : Throw([object EXCEPT !.fields[Field] = v])

-----------------------------------------------------------------------------
AInit == /\ kind \in DOMAIN Layout
         /\ object = Default(kind) /\ sent = object /\ before = object
         /\ archive = << >> /\ at = 1 /\ count = 0 /\ item = << >>
         /\ pc = "ready" /\ answer = "none" /\ stamp = 0

deserialize == Begin \/ ReadField \/ ReadCount \/ ReadItem \/ Return \/ Truncated \/ Refused

ANext == createArtifact \/ assign \/ deserialize

ASpec == AInit /\ [][ANext]_vars

-----------------------------------------------------------------------------
(* Types; items have all their values at any time.                         *)
ATypeOK ==
  /\ kind \in DOMAIN Layout /\ DOMAIN object.fields = Fields
  /\ \A f \in Fields : object.fields[f] \in ((0..MaxStamp) \X {f}) \cup {Torn}
  /\ \A j \in DOMAIN object.items : DOMAIN object.items[j] = DOMAIN ChallengeItem
  /\ at \in 1..(Len(archive) + 1) /\ Len(item) < Len(ChallengeItem)
  /\ pc \in {"ready", "fields", "items"} /\ answer \in {"none", "true", "false"}

(***************************************************************************)
(* deserialize() that returns true leaves exactly the object that was      *)
(* written, whatever earlier and failed calls left in the artifact.        *)
(***************************************************************************)
ReadsWhatWasWritten == answer = "true" => object = sent

(***************************************************************************)
(* At any time, and after deserialize() has failed, the first fields are   *)
(* the new ones and the others the old ones, with at most one torn between *)
(* them; the items are the old ones, or, with all other fields new, the    *)
(* first of the new ones.  Items of two challenges are never mixed.        *)
(***************************************************************************)
OldOrNew ==
  \E n \in 0..Len(Layout[kind]) :
    /\ \A i \in DOMAIN Layout[kind] :
         LET f == Layout[kind][i]
         IN \/ i <= n /\ object.fields[f] = sent.fields[f]
            \/ i > n /\ object.fields[f] = before.fields[f]
            \/ i = n + 1 /\ object.fields[f] = Torn
    /\ \/ object.items = before.items
       \/ n = Len(Layout[kind]) /\ IsPrefix(object.items, sent.items)
=============================================================================
