------------------------------ MODULE Pipeline ------------------------------
(***************************************************************************)
(* One AuditOperationContext through the stages of the strategy.  For each *)
(* operation createRequest() fills a request from the caller's input and   *)
(* from earlier results in the context, or throws; the stage handler       *)
(* answers it; the engine (external) puts the answer into the context.     *)
(* Nothing makes the caller keep to an order: stages are repeated, left    *)
(* out, and called with results that belong to different keys, files or    *)
(* versions of a file.                                                     *)
(*                                                                         *)
(* Tags, challenges and proofs are records of what went into them.  Null   *)
(* stands for an absent result, an absent input and a null pointer.        *)
(* Malformed inputs throw like absent ones.                                *)
(***************************************************************************)
EXTENDS Integers

CONSTANTS File,      \* file identifiers
          Null,
          HasStore,  \* whether the context carries a state store
          MaxCalls   \* bound: calls on the context

ASSUME NullNoFile == Null \notin File
ASSUME CallsAssumption == MaxCalls \in Nat

VARIABLES versions,  \* the state store: 0 for a file that is not registered
          ctx,       \* the results in the context
          made,      \* every tag collection the caller has got
          calls,     \* calls so far; the number of a call identifies it
          last,      \* history: the last call of each operation to succeed
          threw      \* history: the operation whose last call threw, if any

lvars == <<versions, ctx, made, calls, last, threw>>

Operation == {"keys", "tags", "challenges", "proofs", "verify", "maintain"}

Input == File \cup {Null}

-----------------------------------------------------------------------------
(* What a call does to the context.                                        *)

Call == calls < MaxCalls /\ calls' = calls + 1

Throws(operation) == /\ Call
                     /\ threw' = operation
                     /\ UNCHANGED <<versions, ctx, made, last>>

Returns(operation) == /\ Call
                      /\ threw' = Null
                      /\ last' = [last EXCEPT ![operation] = calls']

(* context.generateTagsResult->ext, from which createRequest fills in a    *)
(* missing fileId: generateTags leaves it null.                            *)
FileIdOrFromContext(f) ==
  IF f = Null /\ ctx.tags # Null THEN ctx.tags.ext ELSE f

(* When the random source fails, the result in the context has no params.  *)
GenerateKeys == /\ Returns("keys")
                /\ \E k \in {calls', Null} : ctx' = [ctx EXCEPT !.keys = k]
                /\ UNCHANGED <<versions, made>>

(* Mutant: the file's version is read before it is registered.             *)
GenerateTagsUnregistered(f) ==
  IF ctx.keys = Null \/ f = Null \/ ~HasStore
  THEN Throws("tags")
  ELSE /\ Returns("tags")
       /\ UNCHANGED versions
       /\ LET tags == [key |-> ctx.keys, file |-> f, version |-> versions[f]]
          IN /\ ctx' = [ctx EXCEPT !.tags = [tags |-> tags, ext |-> Null]]
             /\ made' = made \cup {tags}

(* Needs keys, a fileId and a state store, where it registers the file.    *)
GenerateTags(f) ==
  IF ctx.keys = Null \/ f = Null \/ ~HasStore
  THEN Throws("tags")
  ELSE /\ Returns("tags")
       /\ versions' = [versions EXCEPT ![f] = IF @ = 0 THEN 1 ELSE @]
       /\ LET tags == [key |-> ctx.keys, file |-> f, version |-> versions'[f]]
          IN /\ ctx' = [ctx EXCEPT !.tags = [tags |-> tags, ext |-> Null]]
             /\ made' = made \cup {tags}

(* createRequest only insists on a blockCount or on earlier tags.  The     *)
(* handler answers with no challenges when it cannot make any, and with    *)
(* challenges of no items for an unknown file.                             *)
GenerateChallenges(input, hasBlockCount) ==
  LET f == FileIdOrFromContext(input) IN
  IF ~hasBlockCount /\ ctx.tags = Null
  THEN Throws("challenges")
  ELSE /\ Returns("challenges")
       /\ ctx' = [ctx EXCEPT !.challenges =
            [challenges |-> IF f = Null \/ ctx.keys = Null \/ ~HasStore THEN Null
                            ELSE [id |-> calls', key |-> ctx.keys, file |-> f,
                                  version |-> versions[f]]]]
       /\ UNCHANGED <<versions, made>>

NoItems(c) == c.version = 0

(* Mutant: the keys of the proof are not those of the context.             *)
GenerateProofsOldKeys(tags) ==
  IF ctx.challenges = Null \/ ctx.keys = Null
  THEN Throws("proofs")
  ELSE IF ctx.challenges.challenges = Null
  THEN Throws("proofs")
  ELSE /\ Returns("proofs")
       /\ LET c == ctx.challenges.challenges
          IN ctx' = [ctx EXCEPT !.proofs =
                       [proves |-> IF NoItems(c) THEN Null
                                   ELSE [challenge |-> c.id, key |-> 0, tags |-> tags]]]
       /\ UNCHANGED <<versions, made>>

(* Needs challenges and keys in the context, and tags from the caller.  No *)
(* items, no proof.                                                        *)
GenerateProofs(tags) ==
  IF ctx.challenges = Null \/ ctx.keys = Null
  THEN Throws("proofs")
  ELSE IF ctx.challenges.challenges = Null
  THEN Throws("proofs")
  ELSE /\ Returns("proofs")
       /\ LET c == ctx.challenges.challenges
          IN ctx' = [ctx EXCEPT !.proofs =
                       [proves |-> IF NoItems(c) THEN Null
                                   ELSE [challenge |-> c.id, key |-> ctx.keys,
                                         tags |-> tags]]]
       /\ UNCHANGED <<versions, made>>

(* Mutant: the equation does not depend on the challenge's R and r.        *)
EquationAnyChallenge(f, c, p) ==
  /\ p.tags.key = p.key
  /\ p.tags.file = f /\ p.tags.version = c.version

(* Mutant: the hash leaves the fileId out.                                 *)
EquationAnyFile(f, c, p) ==
  /\ p.challenge = c.id
  /\ p.tags.key = p.key /\ p.key = c.key
  /\ p.tags.version = c.version

(* Theta^r = Lambda * e(H, R).  Theta is made with the tags' a and u and   *)
(* the prover's g, Lambda with the prover's u, R with the y of the         *)
(* challenge, H with the verifier's fileId and the challenge's metadata.   *)
Equation(f, c, p) ==
  /\ p.challenge = c.id
  /\ p.tags.key = p.key /\ p.key = c.key
  /\ p.tags.file = f /\ p.tags.version = c.version

(* Needs both results, keys and a fileId.  Null challenges or proves in    *)
(* them, and challenges without items, are a negative answer.              *)
VerifyProofs(input) ==
  LET f == FileIdOrFromContext(input) IN
  IF Null \in {ctx.challenges, ctx.proofs, ctx.keys, f}
  THEN Throws("verify")
  ELSE LET c == ctx.challenges.challenges
           p == ctx.proofs.proves
       IN /\ Returns("verify")
          /\ ctx' = [ctx EXCEPT !.verify =
               [file |-> f, ok |-> /\ c # Null /\ p # Null
                                   /\ ~NoItems(c) /\ Equation(f, c, p)]]
          /\ UNCHANGED <<versions, made>>

Maintain(f) ==
  IF f = Null \/ ~HasStore
  THEN Throws("maintain")
  ELSE IF versions[f] = 0
  THEN Throws("maintain")
  ELSE /\ Returns("maintain")
       /\ versions' = [versions EXCEPT ![f] = @ + 1]
       /\ UNCHANGED <<ctx, made>>

-----------------------------------------------------------------------------
LInit == /\ versions = [f \in File |-> 0]
         /\ ctx = [r \in Operation \ {"maintain"} |-> Null]
         /\ made = {}
         /\ calls = 0
         /\ last = [o \in Operation |-> 0]
         /\ threw = Null

LNext == \/ GenerateKeys
         \/ \E f \in Input : \/ GenerateTags(f)
                             \/ \E has \in BOOLEAN : GenerateChallenges(f, has)
                             \/ VerifyProofs(f)
                             \/ Maintain(f)
         \/ \E t \in made : GenerateProofs(t)

LSpec == LInit /\ [][LNext]_lvars

-----------------------------------------------------------------------------
LTypeOK == /\ versions \in [File -> 0..MaxCalls]
           /\ calls \in 0..MaxCalls
           /\ last \in [Operation -> 0..calls]
           /\ threw \in Operation \cup {Null}
           /\ ctx.keys \in 1..calls \cup {Null}
           /\ \A t \in made : t.key \in 1..calls /\ t.file \in File /\ t.version > 0

JustVerified == calls > 0 /\ last.verify = calls

(***************************************************************************)
(* The stages in their order succeed: if the last maintenance, keys, tags, *)
(* challenges and proof came in this order, for one file, and the proof    *)
(* was made from those tags, then it is accepted for this file, whatever   *)
(* happened on this context before.                                        *)
(***************************************************************************)
InOrderAccepted ==
  /\ JustVerified
  /\ 0 < last.keys /\ last.keys < last.tags /\ last.maintain < last.tags
  /\ last.tags < last.challenges /\ last.challenges < last.proofs
  /\ ctx.challenges.challenges # Null /\ ctx.proofs.proves # Null
  /\ ctx.challenges.challenges.file = ctx.tags.tags.file
  /\ ctx.proofs.proves.tags = ctx.tags.tags
  => (ctx.verify.ok <=> ctx.verify.file = ctx.tags.tags.file)

(***************************************************************************)
(* Left-over results are never accepted: an accepted proof answers the     *)
(* latest challenges, and neither were the keys changed between challenges *)
(* and proof nor, if the challenges are for the verified file (nothing in  *)
(* verifyProofs checks that) and no other file was maintained, the file    *)
(* maintained between its tags and the challenges.                         *)
(***************************************************************************)
NoMixing ==
  JustVerified /\ ctx.verify.ok =>
    /\ last.challenges < last.proofs
    /\ ~(last.challenges < last.keys /\ last.keys < last.proofs)
    /\ (/\ ctx.challenges.challenges.file = ctx.verify.file
        /\ \A f \in File \ {ctx.verify.file} : versions[f] <= 1
        => ~(last.tags < last.maintain /\ last.maintain < last.challenges))

(***************************************************************************)
(* verifyProofs takes any fileId, whatever file the challenges are for:    *)
(* still one proof is accepted for one file at most, and asking again      *)
(* about a file gives the same verdict, even when keys, tags or the file   *)
(* itself were renewed in between.                                         *)
(***************************************************************************)
SameProof == last.challenges < last.verify /\ last.proofs < last.verify

VerdictStands ==
  [][last.verify # last'.verify /\ SameProof =>
       /\ ctx.verify.ok /\ ctx'.verify.ok => ctx.verify.file = ctx'.verify.file
       /\ ctx.verify.file = ctx'.verify.file => (ctx.verify.ok <=> ctx'.verify.ok)]_lvars

(***************************************************************************)
(* createRequest takes a fileId that the caller leaves out from the        *)
(* context: with earlier tags in the context, verification does not throw  *)
(* for want of a fileId.                                                   *)
(***************************************************************************)
FileIdFromContext ==
  threw = "verify" => Null \in {ctx.challenges, ctx.proofs, ctx.keys, ctx.tags}
=============================================================================
