--------------------------- MODULE PipelineProofs ---------------------------
(***************************************************************************)
(* Theorems about Pipeline: types, stages in their order succeed, and      *)
(* left-over results are rejected, for any files and any number of calls;  *)
(* and a verdict stands however often it is asked for.                     *)
(***************************************************************************)
EXTENDS Pipeline, TLAPS

Results == Operation \ {"maintain"}

Tags == ctx.tags.tags
Challenges == ctx.challenges.challenges
Proves == ctx.proofs.proves

-----------------------------------------------------------------------------
(* The inductive invariant.                                                *)

Types == /\ versions \in [File -> Nat] /\ \A f \in File : versions[f] <= calls
         /\ calls \in Nat /\ calls <= MaxCalls
         /\ last \in [Operation -> Nat] /\ \A o \in Operation : last[o] <= calls
         /\ threw \in Operation \cup {Null}
         /\ ctx = [r \in Results |-> ctx[r]]

KeysResult == ctx.keys = Null \/ (ctx.keys = last.keys /\ last.keys > 0)

(* No tags are newer than their file.                                      *)
TagsMade == \A t \in made : /\ t.key \in 1..calls /\ t.file \in File
                            /\ t.version \in Nat /\ t.version > 0
                            /\ t.version <= versions[t.file]

(* Tags are of the keys and the version of now, unless those came later.   *)
TagsResult ==
  /\ ctx.tags = Null \/ last.tags > 0
  /\ last.tags > 0 => /\ ctx.tags.ext = Null /\ Tags \in made
                      /\ last.keys < last.tags => Tags.key = last.keys
                      /\ last.maintain < last.tags => Tags.version = versions[Tags.file]

ChallengesAgree(c) ==
  /\ c.id = last.challenges /\ c.key \in Nat /\ c.key < last.challenges
  /\ c.file \in File /\ c.version \in Nat
  /\ last.keys < last.challenges => c.key = last.keys
  /\ last.maintain < last.challenges => c.version = 0 \/ c.version = versions[c.file]
  /\ last.tags > 0 /\ last.tags < last.challenges /\ c.file = Tags.file => c.version # 0

ChallengesResult ==
  /\ ctx.challenges = Null \/ last.challenges > 0
  /\ last.challenges > 0 => Challenges = Null \/ ChallengesAgree(Challenges)

ProvesAgree(p) ==
  /\ p.tags \in made
  /\ p.challenge \in Nat /\ p.challenge < last.proofs
  /\ last.keys < last.proofs => p.key = last.keys
  /\ last.challenges < last.proofs => p.challenge = last.challenges

ProofsResult ==
  /\ ctx.proofs = Null \/ last.proofs > 0
  /\ last.proofs > 0 => Proves = Null \/ ProvesAgree(Proves)

(* Maintenance after the last tags leaves a file all tags of which are old.*)
Outdated(f) == /\ versions[f] >= 2
               /\ \A t \in made : t.file = f => t.version < versions[f]

Maintained == last.tags < last.maintain => \E f \in File : Outdated(f)

Right(f, c, p) == c # Null /\ p # Null /\ ~NoItems(c) /\ Equation(f, c, p)

Verdict ==
  JustVerified => /\ last.challenges > 0 /\ last.proofs > 0
                  /\ ctx.verify.ok <=> Right(ctx.verify.file, Challenges, Proves)

IInv == /\ Types /\ KeysResult /\ TagsMade /\ TagsResult /\ ChallengesResult
        /\ ProofsResult /\ Maintained /\ Verdict

-----------------------------------------------------------------------------
LEMMA InitOK == LInit => IInv
<1> SUFFICES ASSUME LInit PROVE IInv
    OBVIOUS
<1>1. ctx = [r \in Results |-> Null] /\ last = [o \in Operation |-> 0]
  BY DEF LInit, Results
<1>2. /\ ctx.keys = Null /\ ctx.tags = Null /\ ctx.challenges = Null /\ ctx.proofs = Null
      /\ \A o \in Operation : last[o] = 0
  BY <1>1 DEF Results, Operation
<1>3. last.keys = 0 /\ last.tags = 0 /\ last.challenges = 0 /\ last.proofs = 0 /\ last.maintain = 0
  BY <1>2 DEF Operation
<1>4. Types
  BY <1>1, <1>2, CallsAssumption DEF LInit, Types
<1>5. KeysResult /\ TagsResult /\ ChallengesResult /\ ProofsResult /\ Maintained
  BY <1>2, <1>3 DEF KeysResult, TagsResult, ChallengesResult, ProofsResult, Maintained
<1>6. TagsMade /\ Verdict
  BY DEF LInit, TagsMade, Verdict, JustVerified
<1> QED
  BY <1>4, <1>5, <1>6 DEF IInv

(* What a call does to the numbers of the last calls.                      *)
LEMMA CallStep ==
  ASSUME Types, Call
  PROVE  /\ calls' \in Nat /\ calls' = calls + 1 /\ calls' <= MaxCalls
         /\ \A o \in Operation : last[o] \in Nat /\ last[o] < calls'
  BY CallsAssumption DEF Types, Call

LEMMA ReturnStep ==
  ASSUME Types, NEW o \in Operation, Returns(o)
  PROVE  /\ last' \in [Operation -> Nat]
         /\ last'[o] = calls'
         /\ \A q \in Operation : q # o => last'[q] = last[q]
         /\ \A q \in Operation : last'[q] <= calls'
         /\ threw' \in Operation \cup {Null}
         /\ calls' \in Nat /\ calls' = calls + 1 /\ calls' <= MaxCalls
<1>1. Call /\ last' = [last EXCEPT ![o] = calls'] /\ threw' = Null
  BY DEF Returns
<1> QED
  BY <1>1, CallStep DEF Types

LEMMA ContextStep ==
  ASSUME Types, NEW o \in Results, NEW x, ctx' = [ctx EXCEPT ![o] = x]
  PROVE  /\ ctx' = [r \in Results |-> ctx'[r]]
         /\ ctx'[o] = x
         /\ \A r \in Results : r # o => ctx'[r] = ctx[r]
  BY DEF Types

LEMMA ThrowStep ==
  ASSUME IInv, NEW o \in Operation, Throws(o)
  PROVE  IInv'
<1> USE DEF IInv
<1>1. Call /\ threw' = o /\ UNCHANGED <<versions, ctx, made, last>>
  BY DEF Throws
<1>2. /\ calls' \in Nat /\ calls' = calls + 1 /\ calls' <= MaxCalls
      /\ \A q \in Operation : last[q] \in Nat /\ last[q] < calls'
  BY <1>1, CallStep
<1>3. Types'
  <2>1. \A f \in File : versions[f] <= calls'
    BY <1>2 DEF Types
  <2> QED
    BY <1>1, <1>2, <2>1 DEF Types
<1>4. KeysResult' /\ TagsResult' /\ ChallengesResult' /\ ProofsResult' /\ Maintained'
  BY <1>1 DEF KeysResult, TagsResult, Tags, ChallengesResult, Challenges, ChallengesAgree,
              ProofsResult, Proves, ProvesAgree, Maintained, Outdated
<1>5. TagsMade'
  BY <1>1, <1>2 DEF TagsMade, Types
<1>6. Verdict'
  BY <1>1, <1>2 DEF Verdict, JustVerified, Operation
<1> QED
  BY <1>3, <1>4, <1>5, <1>6

-----------------------------------------------------------------------------
LEMMA KeysStep == IInv /\ GenerateKeys => IInv'
<1> SUFFICES ASSUME IInv, GenerateKeys PROVE IInv'
    OBVIOUS
<1> USE DEF IInv
<1>1. /\ Returns("keys") /\ UNCHANGED <<versions, made>>
      /\ \E k \in {calls', Null} : ctx' = [ctx EXCEPT !.keys = k]
  BY DEF GenerateKeys
<1>2. PICK k \in {calls', Null} : ctx' = [ctx EXCEPT !.keys = k]
  BY <1>1
<1>3. /\ \A q \in Operation : last[q] \in Nat /\ last[q] < calls'
      /\ calls' \in Nat /\ calls' = calls + 1 /\ calls' <= MaxCalls
  BY <1>1, CallStep DEF Returns
<1>4. /\ last' \in [Operation -> Nat] /\ last'.keys = calls'
      /\ \A q \in Operation : last'[q] <= calls'
      /\ threw' \in Operation \cup {Null}
      /\ last'.tags = last.tags /\ last'.challenges = last.challenges
      /\ last'.proofs = last.proofs /\ last'.maintain = last.maintain
      /\ last'.verify = last.verify
  BY <1>1, ReturnStep DEF Operation
<1>5. /\ ctx' = [r \in Results |-> ctx'[r]] /\ ctx'.keys = k
      /\ ctx'.tags = ctx.tags /\ ctx'.challenges = ctx.challenges
      /\ ctx'.proofs = ctx.proofs /\ ctx'.verify = ctx.verify
  BY <1>2, ContextStep DEF Results, Operation
<1>6. /\ last.tags < calls' /\ last.challenges < calls' /\ last.proofs < calls'
      /\ last.verify < calls'
  BY <1>3 DEF Operation
<1>7. Types'
  <2>1. \A f \in File : versions[f] <= calls'
    BY <1>3 DEF Types
  <2> QED
    BY <1>1, <1>3, <1>4, <1>5, <2>1 DEF Types
<1>8. KeysResult'
  BY <1>2, <1>3, <1>4, <1>5 DEF KeysResult, Types
<1>9. TagsMade'
  BY <1>1, <1>3 DEF TagsMade, Types
<1>10. TagsResult' /\ ProofsResult' /\ Maintained'
  BY <1>1, <1>3, <1>4, <1>5, <1>6
  DEF TagsResult, Tags, ProofsResult, Proves, ProvesAgree, Maintained, Outdated, Types, Operation
<1>11. ChallengesResult'
  BY <1>1, <1>3, <1>4, <1>5, <1>6
  DEF ChallengesResult, Challenges, ChallengesAgree, Tags, Types, Operation
<1>12. Verdict'
  BY <1>4, <1>6 DEF Verdict, JustVerified, Types, Operation
<1> QED
  BY <1>7, <1>8, <1>9, <1>10, <1>11, <1>12

LEMMA TagsStep ==
  ASSUME IInv, NEW f \in Input, GenerateTags(f)
  PROVE  IInv'
<1> USE DEF IInv
<1>1. CASE ctx.keys = Null \/ f = Null \/ ~HasStore
  BY <1>1, ThrowStep DEF GenerateTags, Operation
<1>2. CASE ~(ctx.keys = Null \/ f = Null \/ ~HasStore)
  <2> DEFINE t == [key |-> ctx.keys, file |-> f, version |-> versions'[f]]
  <2>1. /\ Returns("tags") /\ f \in File /\ ctx.keys = last.keys /\ last.keys > 0
        /\ versions' = [versions EXCEPT ![f] = IF @ = 0 THEN 1 ELSE @]
        /\ ctx' = [ctx EXCEPT !.tags = [tags |-> t, ext |-> Null]]
        /\ made' = made \cup {t}
    BY <1>2 DEF GenerateTags, Input, KeysResult
  <2>2. /\ \A q \in Operation : last[q] \in Nat /\ last[q] < calls'
        /\ calls' \in Nat /\ calls' = calls + 1 /\ calls' <= MaxCalls
    BY <2>1, CallStep DEF Returns
  <2>3. /\ last' \in [Operation -> Nat] /\ last'.tags = calls'
        /\ \A q \in Operation : last'[q] <= calls'
        /\ threw' \in Operation \cup {Null}
        /\ last'.keys = last.keys /\ last'.challenges = last.challenges
        /\ last'.proofs = last.proofs /\ last'.maintain = last.maintain
        /\ last'.verify = last.verify
    BY <2>1, ReturnStep DEF Operation
  <2>4. /\ ctx' = [r \in Results |-> ctx'[r]] /\ ctx'.tags = [tags |-> t, ext |-> Null]
        /\ ctx'.keys = ctx.keys /\ ctx'.challenges = ctx.challenges
        /\ ctx'.proofs = ctx.proofs /\ ctx'.verify = ctx.verify
    BY <2>1, ContextStep DEF Results, Operation
  <2>5. /\ last.keys < calls' /\ last.challenges < calls' /\ last.proofs < calls'
        /\ last.verify < calls' /\ last.maintain < calls'
        /\ last.keys \in Nat /\ last.challenges \in Nat
    BY <2>2 DEF Operation
  <2>6. /\ versions' \in [File -> Nat] /\ versions'[f] > 0
        /\ \A g \in File : /\ versions'[g] <= calls' /\ versions[g] <= versions'[g]
                           /\ versions[g] # 0 => versions'[g] = versions[g]
    BY <2>1, <2>2 DEF Types
  <2>7. /\ ctx'.tags.tags = t /\ ctx'.tags.ext = Null
        /\ t.key = last.keys /\ t.file = f /\ t.version = versions'[f]
    BY <2>1, <2>4
  <2>8. Types'
    BY <2>2, <2>3, <2>4, <2>6 DEF Types
  <2>9. KeysResult'
    BY <2>3, <2>4 DEF KeysResult
  <2>10. TagsMade'
    <3>1. SUFFICES ASSUME NEW x \in made'
                   PROVE  /\ x.key \in 1..calls' /\ x.file \in File
                          /\ x.version \in Nat /\ x.version > 0
                          /\ x.version <= versions'[x.file]
      BY DEF TagsMade
    <3>2. CASE x = t
      <4>1. last.keys \in 1..calls'
        BY <2>1, <2>2, <2>5
      <4> QED
        BY <3>2, <4>1, <2>1, <2>6, <2>7
    <3>3. CASE x \in made
      <4>1. /\ x.key \in 1..calls /\ x.file \in File /\ x.version \in Nat
            /\ x.version > 0 /\ x.version <= versions[x.file]
        BY <3>3 DEF TagsMade
      <4>2. versions[x.file] <= versions'[x.file] /\ versions[x.file] \in Nat /\ versions'[x.file] \in Nat
        BY <4>1, <2>6 DEF Types
      <4> QED
        BY <4>1, <4>2, <2>2 DEF Types
    <3> QED
      BY <3>1, <3>2, <3>3, <2>1
  <2>11. TagsResult'
    BY <2>1, <2>2, <2>3, <2>4, <2>5, <2>7 DEF TagsResult, Tags
  <2>12. ChallengesResult'
    <3>1. ASSUME NEW c, ChallengesAgree(c) PROVE ChallengesAgree(c)'
      <4>1. c.file \in File /\ c.version \in Nat
        BY <3>1 DEF ChallengesAgree
      <4>2. versions[c.file] \in Nat /\ (versions[c.file] # 0 => versions'[c.file] = versions[c.file])
        BY <4>1, <2>6 DEF Types
      <4> QED
        BY <3>1, <4>1, <4>2, <2>2, <2>3, <2>5 DEF ChallengesAgree
    <3> QED
      BY <3>1, <2>3, <2>4 DEF ChallengesResult, Challenges, ChallengesAgree
  <2>13. ProofsResult'
    BY <2>1, <2>3, <2>4 DEF ProofsResult, Proves, ProvesAgree
  <2>14. Maintained' /\ Verdict'
    BY <2>2, <2>3, <2>5 DEF Maintained, Verdict, JustVerified, Operation
  <2> QED
    BY <2>8, <2>9, <2>10, <2>11, <2>12, <2>13, <2>14
<1> QED
  BY <1>1, <1>2

LEMMA FileIdType ==
  ASSUME IInv, NEW f \in Input
  PROVE  FileIdOrFromContext(f) \in Input
  BY DEF IInv, TagsResult, FileIdOrFromContext, Input

LEMMA ChallengesStep ==
  ASSUME IInv, NEW input \in Input, NEW has \in BOOLEAN, GenerateChallenges(input, has)
  PROVE  IInv'
<1> USE DEF IInv
<1> DEFINE f == FileIdOrFromContext(input)
<1>1. CASE ~has /\ ctx.tags = Null
  BY <1>1, ThrowStep DEF GenerateChallenges, Operation
<1>2. CASE ~(~has /\ ctx.tags = Null)
  <2> DEFINE none == f = Null \/ ctx.keys = Null \/ ~HasStore
             c == [id |-> calls', key |-> ctx.keys, file |-> f, version |-> versions[f]]
             answer == IF none THEN Null ELSE c
  <2>1. /\ Returns("challenges") /\ UNCHANGED <<versions, made>>
        /\ ctx' = [ctx EXCEPT !.challenges = [challenges |-> answer]]
    BY <1>2 DEF GenerateChallenges
  <2>2. /\ \A q \in Operation : last[q] \in Nat /\ last[q] < calls'
        /\ calls' \in Nat /\ calls' = calls + 1 /\ calls' <= MaxCalls
    BY <2>1, CallStep DEF Returns
  <2>3. /\ last' \in [Operation -> Nat] /\ last'.challenges = calls'
        /\ \A q \in Operation : last'[q] <= calls'
        /\ threw' \in Operation \cup {Null}
        /\ last'.keys = last.keys /\ last'.tags = last.tags
        /\ last'.proofs = last.proofs /\ last'.maintain = last.maintain
        /\ last'.verify = last.verify
    BY <2>1, ReturnStep DEF Operation
  <2>4. /\ ctx' = [r \in Results |-> ctx'[r]]
        /\ ctx'.challenges = [challenges |-> answer]
        /\ ctx'.keys = ctx.keys /\ ctx'.tags = ctx.tags
        /\ ctx'.proofs = ctx.proofs /\ ctx'.verify = ctx.verify
    BY <2>1, ContextStep DEF Results, Operation
  <2>5. /\ last.keys < calls' /\ last.tags < calls' /\ last.proofs < calls'
        /\ last.verify < calls' /\ last.maintain < calls'
        /\ last.keys \in Nat /\ last.tags \in Nat
    BY <2>2 DEF Operation
  <2>6. Types'
    <3>1. \A g \in File : versions[g] <= calls'
      BY <2>2 DEF Types
    <3> QED
      BY <2>1, <2>2, <2>3, <2>4, <3>1 DEF Types
  <2>7. KeysResult' /\ TagsResult' /\ Maintained'
    BY <2>1, <2>3, <2>4 DEF KeysResult, TagsResult, Tags, Maintained, Outdated
  <2>8. TagsMade'
    BY <2>1, <2>2 DEF TagsMade, Types
  <2>9. ASSUME ~none, NEW x, x = c PROVE ChallengesAgree(x)'
    <3>1. /\ x.id = calls' /\ x.key = ctx.keys /\ x.file = f /\ x.version = versions[f]
      BY <2>9
    <3>2. f \in File /\ ctx.keys = last.keys /\ last.keys > 0
      BY <2>9, FileIdType DEF Input, KeysResult
    <3>3. versions[f] \in Nat
      BY <3>2 DEF Types
    <3>4. ASSUME last.tags > 0, f = Tags.file PROVE versions[f] # 0
      <4>1. Tags \in made
        BY <3>4 DEF TagsResult
      <4>2. Tags.version \in Nat /\ Tags.version > 0 /\ Tags.version <= versions[Tags.file]
        BY <4>1 DEF TagsMade
      <4> QED
        BY <3>3, <3>4, <4>2
    <3>5. Tags' = Tags /\ versions' = versions
      BY <2>1, <2>4 DEF Tags
    <3> HIDE DEF c, f
    <3> QED
      BY <2>2, <2>3, <2>5, <3>1, <3>2, <3>3, <3>4, <3>5 DEF ChallengesAgree
  <2>10. ChallengesResult'
    <3>1. ctx'.challenges.challenges = answer /\ last'.challenges > 0
      BY <2>2, <2>3, <2>4 DEF Types
    <3>2. CASE none
      BY <3>1, <3>2 DEF ChallengesResult, Challenges
    <3>3. CASE ~none
      <4>1. PICK x : x = c
        OBVIOUS
      <4>2. ctx'.challenges.challenges = x
        BY <3>1, <3>3, <4>1
      <4>3. ChallengesAgree(x)'
        BY <3>3, <4>1, <2>9
      <4> QED
        BY <3>1, <4>2, <4>3 DEF ChallengesResult, Challenges, ChallengesAgree
    <3> QED
      BY <3>2, <3>3
  <2>11. ProofsResult'
    BY <2>1, <2>3, <2>4, <2>5 DEF ProofsResult, Proves, ProvesAgree, Types, Operation
  <2>12. Verdict'
    BY <2>2, <2>3, <2>5 DEF Verdict, JustVerified
  <2> QED
    BY <2>6, <2>7, <2>8, <2>10, <2>11, <2>12
<1> QED
  BY <1>1, <1>2

LEMMA ProofsStep ==
  ASSUME IInv, NEW tags \in made, GenerateProofs(tags)
  PROVE  IInv'
<1> USE DEF IInv
<1>1. CASE ctx.challenges = Null \/ ctx.keys = Null \/ Challenges = Null
  BY <1>1, ThrowStep DEF GenerateProofs, Operation, Challenges
<1>2. CASE ~(ctx.challenges = Null \/ ctx.keys = Null \/ Challenges = Null)
  <2> DEFINE p == [challenge |-> Challenges.id, key |-> ctx.keys, tags |-> tags]
             answer == IF NoItems(Challenges) THEN Null ELSE p
  <2>1. /\ Returns("proofs") /\ UNCHANGED <<versions, made>>
        /\ ctx' = [ctx EXCEPT !.proofs = [proves |-> answer]]
    BY <1>2 DEF GenerateProofs, Challenges
  <2>2. /\ \A q \in Operation : last[q] \in Nat /\ last[q] < calls'
        /\ calls' \in Nat /\ calls' = calls + 1 /\ calls' <= MaxCalls
    BY <2>1, CallStep DEF Returns
  <2>3. /\ last' \in [Operation -> Nat] /\ last'.proofs = calls'
        /\ \A q \in Operation : last'[q] <= calls'
        /\ threw' \in Operation \cup {Null}
        /\ last'.keys = last.keys /\ last'.tags = last.tags
        /\ last'.challenges = last.challenges /\ last'.maintain = last.maintain
        /\ last'.verify = last.verify
    BY <2>1, ReturnStep DEF Operation
  <2>4. /\ ctx' = [r \in Results |-> ctx'[r]]
        /\ ctx'.proofs = [proves |-> answer]
        /\ ctx'.keys = ctx.keys /\ ctx'.tags = ctx.tags
        /\ ctx'.challenges = ctx.challenges /\ ctx'.verify = ctx.verify
    BY <2>1, ContextStep DEF Results, Operation
  <2>5. /\ last.keys < calls' /\ last.challenges < calls' /\ last.verify < calls'
        /\ last.challenges \in Nat
    BY <2>2 DEF Operation
  <2>6. Types'
    <3>1. \A g \in File : versions[g] <= calls'
      BY <2>2 DEF Types
    <3> QED
      BY <2>1, <2>2, <2>3, <2>4, <3>1 DEF Types
  <2>7. KeysResult' /\ TagsResult' /\ Maintained'
    BY <2>1, <2>3, <2>4 DEF KeysResult, TagsResult, Tags, Maintained, Outdated
  <2>8. TagsMade'
    BY <2>1, <2>2 DEF TagsMade, Types
  <2>9. ChallengesResult'
    BY <2>1, <2>3, <2>4 DEF ChallengesResult, Challenges, ChallengesAgree, Tags
  <2>10. ASSUME NEW x, x = p PROVE ProvesAgree(x)'
    <3>1. ctx.keys = last.keys /\ Challenges.id = last.challenges
      BY <1>2 DEF KeysResult, ChallengesResult, ChallengesAgree
    <3>2. x.challenge = last.challenges /\ x.key = last.keys /\ x.tags = tags
      BY <2>10, <3>1
    <3> HIDE DEF p
    <3> QED
      BY <2>1, <2>3, <2>5, <3>2 DEF ProvesAgree
  <2>11. ProofsResult'
    <3>1. ctx'.proofs.proves = answer /\ last'.proofs > 0
      BY <2>2, <2>3, <2>4 DEF Types
    <3>2. CASE NoItems(Challenges)
      BY <3>1, <3>2 DEF ProofsResult, Proves
    <3>3. CASE ~NoItems(Challenges)
      <4>1. PICK x : x = p
        OBVIOUS
      <4>2. ctx'.proofs.proves = x
        BY <3>1, <3>3, <4>1
      <4>3. ProvesAgree(x)'
        BY <4>1, <2>10
      <4> QED
        BY <3>1, <4>2, <4>3 DEF ProofsResult, Proves, ProvesAgree
    <3> QED
      BY <3>2, <3>3
  <2>12. Verdict'
    BY <2>2, <2>3, <2>5 DEF Verdict, JustVerified
  <2> QED
    BY <2>6, <2>7, <2>8, <2>9, <2>11, <2>12
<1> QED
  BY <1>1, <1>2

LEMMA VerifyStep ==
  ASSUME IInv, NEW input \in Input, VerifyProofs(input)
  PROVE  IInv'
<1> USE DEF IInv
<1> DEFINE f == FileIdOrFromContext(input)
           missing == Null \in {ctx.challenges, ctx.proofs, ctx.keys, f}
<1>1. CASE missing
  BY <1>1, ThrowStep DEF VerifyProofs, Operation
<1>2. CASE ~missing
  <2> DEFINE verdict == [file |-> f, ok |-> Right(f, Challenges, Proves)]
  <2>1. /\ Returns("verify") /\ UNCHANGED <<versions, made>>
        /\ ctx' = [ctx EXCEPT !.verify = verdict]
    BY <1>2, Zenon DEF VerifyProofs, Challenges, Proves, Right
  <2> HIDE DEF verdict
  <2>2. /\ \A q \in Operation : last[q] \in Nat /\ last[q] < calls'
        /\ calls' \in Nat /\ calls' = calls + 1 /\ calls' <= MaxCalls
    BY <2>1, CallStep DEF Returns
  <2>3. /\ last' \in [Operation -> Nat] /\ last'.verify = calls'
        /\ \A q \in Operation : last'[q] <= calls'
        /\ threw' \in Operation \cup {Null}
        /\ last'.keys = last.keys /\ last'.tags = last.tags
        /\ last'.challenges = last.challenges /\ last'.maintain = last.maintain
        /\ last'.proofs = last.proofs
    BY <2>1, ReturnStep DEF Operation
  <2>4. /\ ctx' = [r \in Results |-> ctx'[r]] /\ ctx'.verify = verdict
        /\ ctx'.keys = ctx.keys /\ ctx'.tags = ctx.tags
        /\ ctx'.challenges = ctx.challenges /\ ctx'.proofs = ctx.proofs
    BY <2>1, ContextStep DEF Results, Operation
  <2>5. Types'
    <3>1. \A g \in File : versions[g] <= calls'
      BY <2>2 DEF Types
    <3> QED
      BY <2>1, <2>2, <2>3, <2>4, <3>1 DEF Types
  <2>6. KeysResult' /\ TagsResult' /\ Maintained'
    BY <2>1, <2>3, <2>4 DEF KeysResult, TagsResult, Tags, Maintained, Outdated
  <2>7. TagsMade'
    BY <2>1, <2>2 DEF TagsMade, Types
  <2>8. ChallengesResult'
    BY <2>1, <2>3, <2>4 DEF ChallengesResult, Challenges, ChallengesAgree, Tags
  <2>9. ProofsResult'
    BY <2>1, <2>3, <2>4 DEF ProofsResult, Proves, ProvesAgree
  <2>10. Verdict'
    <3>1. last.challenges > 0 /\ last.proofs > 0
      BY <1>2 DEF ChallengesResult, ProofsResult
    <3>2. Challenges' = Challenges /\ Proves' = Proves
      BY <2>4 DEF Challenges, Proves
    <3>3. ctx'.verify.file = f /\ (ctx'.verify.ok <=> Right(f, Challenges, Proves))
      BY <2>4 DEF verdict
    <3>4. ctx'.verify.ok <=> Right(ctx'.verify.file, Challenges', Proves')
      BY <3>2, <3>3 DEF Right
    <3> QED
      BY <3>1, <3>4, <2>3 DEF Verdict, Right, Equation, NoItems
  <2> QED
    BY <2>5, <2>6, <2>7, <2>8, <2>9, <2>10
<1> QED
  BY <1>1, <1>2

LEMMA MaintainStep ==
  ASSUME IInv, NEW f \in Input, Maintain(f)
  PROVE  IInv'
<1> USE DEF IInv
<1>1. CASE f = Null \/ ~HasStore \/ versions[f] = 0
  BY <1>1, ThrowStep DEF Maintain, Operation
<1>2. CASE ~(f = Null \/ ~HasStore \/ versions[f] = 0)
  <2>1. /\ Returns("maintain") /\ f \in File /\ UNCHANGED <<ctx, made>>
        /\ versions' = [versions EXCEPT ![f] = @ + 1]
    BY <1>2 DEF Maintain, Input
  <2>2. /\ \A q \in Operation : last[q] \in Nat /\ last[q] < calls'
        /\ calls' \in Nat /\ calls' = calls + 1 /\ calls' <= MaxCalls
    BY <2>1, CallStep DEF Returns
  <2>3. /\ last' \in [Operation -> Nat] /\ last'.maintain = calls'
        /\ \A q \in Operation : last'[q] <= calls'
        /\ threw' \in Operation \cup {Null}
        /\ last'.keys = last.keys /\ last'.tags = last.tags
        /\ last'.challenges = last.challenges /\ last'.proofs = last.proofs
        /\ last'.verify = last.verify
    BY <2>1, ReturnStep DEF Operation
  <2>4. /\ last.tags < calls' /\ last.challenges < calls' /\ last.verify < calls'
        /\ last.tags \in Nat /\ last.challenges \in Nat
    BY <2>2 DEF Operation
  <2>5. /\ versions' \in [File -> Nat] /\ versions'[f] = versions[f] + 1
        /\ \A g \in File : /\ versions'[g] <= calls' /\ versions[g] <= versions'[g]
                           /\ versions[g] \in Nat /\ versions'[g] \in Nat
    BY <2>1, <2>2 DEF Types
  <2>6. Types'
    BY <2>1, <2>2, <2>3, <2>5 DEF Types
  <2>7. KeysResult'
    BY <2>1, <2>3 DEF KeysResult
  <2>8. TagsMade'
    <3>1. ASSUME NEW t \in made
          PROVE  t.file \in File /\ t.version \in Nat /\ t.version <= versions'[t.file]
      <4>1. t.file \in File /\ t.version \in Nat /\ t.version <= versions[t.file]
        BY DEF TagsMade
      <4> QED
        BY <4>1, <2>5
    <3> QED
      BY <3>1, <2>1, <2>2 DEF TagsMade, Types
  <2>9. TagsResult'
    BY <2>1, <2>2, <2>3, <2>4 DEF TagsResult, Tags
  <2>10. ChallengesResult'
    BY <2>1, <2>2, <2>3, <2>4 DEF ChallengesResult, Challenges, ChallengesAgree, Tags
  <2>11. ProofsResult'
    BY <2>1, <2>3 DEF ProofsResult, Proves, ProvesAgree
  <2>12. Maintained'
    <3>1. versions[f] >= 1 /\ versions'[f] >= 2
      BY <1>2, <2>1, <2>5
    <3>2. \A t \in made : t.file = f => t.version < versions'[f]
      BY <2>1, <2>5 DEF TagsMade
    <3>3. Outdated(f)'
      BY <3>1, <3>2, <2>1 DEF Outdated
    <3> QED
      BY <3>3, <2>1 DEF Maintained
  <2>13. Verdict'
    BY <2>2, <2>3, <2>4 DEF Verdict, JustVerified
  <2> QED
    BY <2>6, <2>7, <2>8, <2>9, <2>10, <2>11, <2>12, <2>13
<1> QED
  BY <1>1, <1>2

LEMMA Inductive == IInv /\ [LNext]_lvars => IInv'
<1> SUFFICES ASSUME IInv, [LNext]_lvars PROVE IInv'
    OBVIOUS
<1>1. CASE GenerateKeys
  BY <1>1, KeysStep
<1>2. CASE \E f \in Input : GenerateTags(f)
  BY <1>2, TagsStep
<1>3. CASE \E f \in Input : \E has \in BOOLEAN : GenerateChallenges(f, has)
  BY <1>3, ChallengesStep
<1>4. CASE \E t \in made : GenerateProofs(t)
  BY <1>4, ProofsStep
<1>5. CASE \E f \in Input : VerifyProofs(f)
  BY <1>5, VerifyStep
<1>6. CASE \E f \in Input : Maintain(f)
  BY <1>6, MaintainStep
<1>7. CASE UNCHANGED lvars
  BY <1>7 DEF lvars, IInv, Types, KeysResult, TagsMade, TagsResult, Tags, ChallengesResult,
              Challenges, ChallengesAgree, ProofsResult, Proves, ProvesAgree, Maintained,
              Outdated, Verdict, JustVerified, Right, Equation, NoItems
<1> QED
  BY <1>1, <1>2, <1>3, <1>4, <1>5, <1>6, <1>7 DEF LNext

(***************************************************************************)
(* The invariant holds of every context.                                   *)
(***************************************************************************)
THEOREM Invariance == LSpec => []IInv
<1> QED
  BY InitOK, Inductive, PTL DEF LSpec

-----------------------------------------------------------------------------
(***************************************************************************)
(* Results, versions and the numbers of calls have their types.            *)
(***************************************************************************)
THEOREM ContextTypes == LSpec => []LTypeOK
<1>1. IInv => LTypeOK
  <2> SUFFICES ASSUME IInv PROVE LTypeOK
      OBVIOUS
  <2>1. /\ \A f \in File : versions[f] \in 0..MaxCalls
        /\ \A o \in Operation : last[o] \in 0..calls
        /\ calls \in 0..MaxCalls
    BY CallsAssumption DEF IInv, Types
  <2>2. ctx.keys \in 1..calls \cup {Null}
    BY <2>1 DEF IInv, KeysResult, Types, Operation
  <2> QED
    BY <2>1, <2>2 DEF LTypeOK, IInv, Types, TagsMade
<1> QED
  BY <1>1, Invariance, PTL

(***************************************************************************)
(* Keys, tags, challenges and a proof that were made in this order, with   *)
(* no maintenance in between, are accepted for their file and no other.    *)
(***************************************************************************)
THEOREM InOrder == LSpec => []InOrderAccepted
<1>1. IInv => InOrderAccepted
  <2> SUFFICES ASSUME IInv, JustVerified,
                      0 < last.keys, last.keys < last.tags, last.maintain < last.tags,
                      last.tags < last.challenges, last.challenges < last.proofs,
                      Challenges # Null, Proves # Null,
                      Challenges.file = Tags.file, Proves.tags = Tags
               PROVE  ctx.verify.ok <=> ctx.verify.file = Tags.file
      BY DEF InOrderAccepted, Challenges, Proves, Tags
  <2> USE DEF IInv
  <2>1. /\ last.keys \in Nat /\ last.tags \in Nat /\ last.maintain \in Nat
        /\ last.challenges \in Nat /\ last.proofs \in Nat
    BY DEF Types, Operation
  <2>2. /\ last.keys < last.challenges /\ last.keys < last.proofs /\ last.tags > 0
        /\ last.maintain < last.challenges /\ last.challenges > 0 /\ last.proofs > 0
    BY <2>1
  <2>3. Tags.key = last.keys /\ Tags.version = versions[Tags.file]
    BY <2>2 DEF TagsResult
  <2>4. /\ Challenges.id = last.challenges /\ Challenges.key = last.keys
        /\ Challenges.version # 0 /\ Challenges.version = versions[Challenges.file]
    BY <2>2 DEF ChallengesResult, ChallengesAgree
  <2>5. Proves.challenge = last.challenges /\ Proves.key = last.keys
    BY <2>2 DEF ProofsResult, ProvesAgree
  <2>6. Right(ctx.verify.file, Challenges, Proves) <=> ctx.verify.file = Tags.file
    BY <2>3, <2>4, <2>5 DEF Right, Equation, NoItems
  <2> QED
    BY <2>6 DEF Verdict
<1> QED
  BY <1>1, Invariance, PTL

(***************************************************************************)
(* Left-over results are not accepted.                                     *)
(***************************************************************************)
THEOREM LeftOversRejected == LSpec => []NoMixing
<1>1. IInv => NoMixing
  <2> SUFFICES ASSUME IInv, JustVerified, ctx.verify.ok
               PROVE  /\ last.challenges < last.proofs
                      /\ ~(last.challenges < last.keys /\ last.keys < last.proofs)
                      /\ (/\ Challenges.file = ctx.verify.file
                          /\ \A f \in File \ {ctx.verify.file} : versions[f] <= 1
                          => ~(last.tags < last.maintain /\ last.maintain < last.challenges))
      BY DEF NoMixing, Challenges
  <2> USE DEF IInv
  <2>1. /\ last.keys \in Nat /\ last.tags \in Nat /\ last.maintain \in Nat
        /\ last.challenges \in Nat /\ last.proofs \in Nat
    BY DEF Types, Operation
  <2>2. /\ last.challenges > 0 /\ last.proofs > 0
        /\ Right(ctx.verify.file, Challenges, Proves)
    BY DEF Verdict
  <2>3. /\ Challenges # Null /\ Proves # Null /\ Challenges.version # 0
        /\ Proves.challenge = Challenges.id /\ Proves.tags.key = Proves.key
        /\ Proves.key = Challenges.key /\ Proves.tags.file = ctx.verify.file
        /\ Proves.tags.version = Challenges.version
    BY <2>2 DEF Right, Equation, NoItems
  <2>4. ChallengesAgree(Challenges) /\ ProvesAgree(Proves)
    BY <2>2, <2>3 DEF ChallengesResult, ProofsResult
  <2>5. last.challenges < last.proofs
    BY <2>3, <2>4 DEF ChallengesAgree, ProvesAgree
  <2>6. ~(last.challenges < last.keys /\ last.keys < last.proofs)
    BY <2>1, <2>3, <2>4 DEF ChallengesAgree, ProvesAgree
  <2>7. ASSUME Challenges.file = ctx.verify.file,
               \A f \in File \ {ctx.verify.file} : versions[f] <= 1,
               last.tags < last.maintain, last.maintain < last.challenges
        PROVE  FALSE
    <3>1. PICK f \in File : Outdated(f)
      BY <2>7 DEF Maintained
    <3>2. f = ctx.verify.file
      BY <2>7, <3>1 DEF Outdated, Types
    <3>3. Proves.tags \in made /\ Challenges.version = versions[f]
      BY <2>3, <2>4, <2>7, <3>2 DEF ProvesAgree, ChallengesAgree
    <3>4. Proves.tags.version < versions[f] /\ versions[f] \in Nat
      BY <2>3, <3>1, <3>2, <3>3 DEF Outdated, Types
    <3> QED
      BY <2>3, <3>3, <3>4
  <2> QED
    BY <2>5, <2>6, <2>7
<1> QED
  BY <1>1, Invariance, PTL

-----------------------------------------------------------------------------
(***************************************************************************)
(* Verdicts that are asked for again.                                      *)
(***************************************************************************)
(* What a verdict was about is still in the context.                       *)
Standing == SameProof => (ctx.verify.ok <=> Right(ctx.verify.file, Challenges, Proves))

Same(o) == last'[o] = last[o] /\ ctx'[o] = ctx[o]

(* A call leaves the verdict and what it is about alone, or renews what it *)
(* is about, or is verification.                                           *)
LEMMA CallCases ==
  ASSUME IInv, LNext
  PROVE  /\ calls' = calls + 1 /\ \A o \in Operation : last[o] \in Nat /\ last[o] < calls'
         /\ \/ Same("verify") /\ Same("challenges") /\ Same("proofs")
            \/ /\ last'.verify = last.verify
               /\ last'.challenges = calls' \/ last'.proofs = calls'
            \/ last'.verify = calls' /\ Same("challenges") /\ Same("proofs")
<1> USE DEF IInv
<1>a. Call
  BY DEF LNext, GenerateKeys, GenerateTags, GenerateChallenges, GenerateProofs,
         VerifyProofs, Maintain, Throws, Returns
<1>b. calls' = calls + 1 /\ \A o \in Operation : last[o] \in Nat /\ last[o] < calls'
  BY <1>a, CallStep
<1>c. ASSUME NEW o \in Operation, Throws(o)
      PROVE  Same("verify") /\ Same("challenges") /\ Same("proofs")
  BY <1>c DEF Throws, Same
<1>d. ASSUME NEW o \in {"keys", "tags", "maintain"}, Returns(o),
             UNCHANGED ctx \/ \E x : ctx' = [ctx EXCEPT ![o] = x]
      PROVE  Same("verify") /\ Same("challenges") /\ Same("proofs")
  <2>1. \A q \in {"verify", "challenges", "proofs"} : last'[q] = last[q]
    BY <1>d, ReturnStep DEF Operation
  <2>2. \A q \in {"verify", "challenges", "proofs"} : ctx'[q] = ctx[q]
    <3>1. CASE UNCHANGED ctx
      BY <3>1
    <3>2. CASE \E x : ctx' = [ctx EXCEPT ![o] = x]
      BY <3>2 DEF Types, Results, Operation
    <3> QED
      BY <1>d, <3>1, <3>2
  <2> QED
    BY <2>1, <2>2 DEF Same
<1>1. CASE GenerateKeys
  <2>1. Returns("keys") /\ \E x : ctx' = [ctx EXCEPT !["keys"] = x]
    BY <1>1 DEF GenerateKeys
  <2> QED
    BY <1>b, <1>d, <2>1
<1>2. CASE \E f \in Input : GenerateTags(f)
  <2>1. \/ Throws("tags")
        \/ Returns("tags") /\ \E x : ctx' = [ctx EXCEPT !["tags"] = x]
    BY <1>2 DEF GenerateTags
  <2> QED
    BY <1>b, <1>c, <1>d, <2>1 DEF Operation
<1>3. CASE \E f \in Input : \E has \in BOOLEAN : GenerateChallenges(f, has)
  <2>1. Throws("challenges") \/ Returns("challenges")
    BY <1>3 DEF GenerateChallenges
  <2> QED
    BY <1>b, <1>c, <2>1, ReturnStep DEF Operation
<1>4. CASE \E t \in made : GenerateProofs(t)
  <2>1. Throws("proofs") \/ Returns("proofs")
    BY <1>4 DEF GenerateProofs
  <2> QED
    BY <1>b, <1>c, <2>1, ReturnStep DEF Operation
<1>5. CASE \E f \in Input : VerifyProofs(f)
  <2>1. \/ Throws("verify")
        \/ Returns("verify") /\ \E x : ctx' = [ctx EXCEPT !["verify"] = x]
    BY <1>5 DEF VerifyProofs
  <2>2. CASE Returns("verify") /\ \E x : ctx' = [ctx EXCEPT !["verify"] = x]
    <3>1. \A q \in {"challenges", "proofs"} : last'[q] = last[q] /\ last'["verify"] = calls'
      BY <2>2, ReturnStep DEF Operation
    <3>2. \A q \in {"challenges", "proofs"} : ctx'[q] = ctx[q]
      BY <2>2 DEF Types
    <3> QED
      BY <1>b, <3>1, <3>2 DEF Same
  <2> QED
    BY <1>b, <1>c, <2>1, <2>2 DEF Operation
<1>6. CASE \E f \in Input : Maintain(f)
  <2>1. Throws("maintain") \/ (Returns("maintain") /\ UNCHANGED ctx)
    BY <1>6 DEF Maintain
  <2> QED
    BY <1>b, <1>c, <1>d, <2>1 DEF Operation
<1> QED
  BY <1>1, <1>2, <1>3, <1>4, <1>5, <1>6 DEF LNext

LEMMA StandingStep == ASSUME IInv, IInv', Standing, [LNext]_lvars PROVE Standing'
<1>1. CASE UNCHANGED lvars
  BY <1>1 DEF lvars, Standing, SameProof, Right, Challenges, Proves, Equation, NoItems
<1>2. CASE LNext
  <2>1. /\ calls' = calls + 1 /\ calls \in Nat
        /\ last.verify \in Nat /\ last.verify < calls'
    BY <1>2, CallCases DEF Operation, IInv, Types
  <2>2. CASE Same("verify") /\ Same("challenges") /\ Same("proofs")
    BY <2>2 DEF Same, Standing, SameProof, Right, Challenges, Proves, Equation, NoItems
  <2>3. CASE last'.verify = last.verify /\ (last'.challenges = calls' \/ last'.proofs = calls')
    BY <2>1, <2>3 DEF Standing, SameProof
  <2>4. CASE last'.verify = calls'
    BY <2>1, <2>4 DEF IInv, Verdict, JustVerified, Standing
  <2> QED
    BY <1>2, <2>2, <2>3, <2>4, CallCases
<1> QED
  BY <1>1, <1>2

(***************************************************************************)
(* Verification of one proof again and again, under any fileIds and with   *)
(* whatever happens in between, never accepts it for two files, and gives  *)
(* one verdict for each.                                                   *)
(***************************************************************************)
THEOREM VerdictsStand == LSpec => VerdictStands
<1>1. LInit => Standing
  BY DEF LInit, Standing, SameProof, Operation
<1>2. ASSUME IInv, IInv', Standing, Standing', [LNext]_lvars
      PROVE  [last.verify # last'.verify /\ SameProof =>
       /\ ctx.verify.ok /\ ctx'.verify.ok => ctx.verify.file = ctx'.verify.file
       /\ ctx.verify.file = ctx'.verify.file => (ctx.verify.ok <=> ctx'.verify.ok)]_lvars
  <2> SUFFICES ASSUME LNext, last.verify # last'.verify, SameProof
               PROVE  /\ ctx.verify.ok /\ ctx'.verify.ok => ctx.verify.file = ctx'.verify.file
                      /\ ctx.verify.file = ctx'.verify.file => (ctx.verify.ok <=> ctx'.verify.ok)
    BY <1>2 DEF lvars
  <2>1. /\ last'.verify = calls' /\ Same("challenges") /\ Same("proofs")
        /\ calls' = calls + 1 /\ calls \in Nat
    BY <1>2, CallCases DEF Same, IInv, Types
  <2>2. Challenges' = Challenges /\ Proves' = Proves
    BY <2>1 DEF Same, Challenges, Proves
  <2>3. ctx.verify.ok <=> Right(ctx.verify.file, Challenges, Proves)
    BY <1>2 DEF Standing
  <2>4. ctx'.verify.ok <=> Right(ctx'.verify.file, Challenges, Proves)
    BY <1>2, <2>1, <2>2 DEF IInv, Verdict, JustVerified, Right, Equation, NoItems
  <2> QED
    BY <2>3, <2>4 DEF Right, Equation
<1>3. IInv /\ IInv' /\ Standing /\ [LNext]_lvars => Standing'
  BY StandingStep
<1> QED
  BY <1>1, <1>2, <1>3, Invariance, PTL DEF LSpec, VerdictStands
=============================================================================
