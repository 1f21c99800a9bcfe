------------------------- MODULE MaintenanceProofs -------------------------
(***************************************************************************)
(* Proofs about Maintenance, for every number of clients, requests and     *)
(* indices and every width of size_t: what a request of several indices    *)
(* has done, when it returns and when it throws.                           *)
(***************************************************************************)
EXTENDS Maintenance, StateStoreProofs

(***************************************************************************)
(* The inductive invariant.  What a request is while it is worked through: *)
(* it still has an index to come, and its list obeys the order.            *)
(***************************************************************************)
Shape(c) ==
  /\ req[c] \in Request
  /\ req[c].blockIndices \in Seq(Index)
  /\ named[c] \in Seq(Obj \cup {Null})
  /\ touched[c] \in Seq(Obj)
  /\ req[c].pc \in Running =>
       /\ Len(touched[c]) < Len(req[c].blockIndices)
       /\ Len(named[c]) = Len(req[c].blockIndices)
       /\ Listed(req[c].op, req[c].blockIndices)

(* The calls made so far worked on the first of the named blocks.          *)
Prefix(c) ==
  /\ Len(touched[c]) <= Len(named[c])
  /\ \A k \in 1..Len(touched[c]) : touched[c][k] = named[c][k]
  /\ req[c].pc = "ok" => Len(touched[c]) = Len(named[c])

(* The indices to come still lead to the blocks they named.  The exception *)
(* is index 0, which means the last slot: a deletion empties it.           *)
Ahead(c) ==
  \A k \in 1..Len(named[c]) : k > Len(touched[c]) =>
     Entry(req[c].file, req[c].blockIndices[k]) \in {named[c][k], Null}

(* The blocks inserted so far are where they were inserted.                *)
Landed(c) ==
  \A k \in 1..Len(touched[c]) :
     Entry(req[c].file, req[c].blockIndices[k]) = touched[c][k]

Edits == {"Update", "Delete"}

Progress(c) ==
  calm[c] => /\ req[c].op \in Edits => Prefix(c)
             /\ req[c].op \in Edits /\ req[c].pc \in Running => Ahead(c)

InsertProgress(c) ==
  calm[c] /\ req[c].op = "Insert" /\ req[c].pc \in Running => Landed(c)

Types == /\ TypeOK
         /\ req \in [Client -> Request]
         /\ named \in [Client -> Seq(Obj \cup {Null})]
         /\ touched \in [Client -> Seq(Obj)]
         /\ left \in [Client -> Nat]
         /\ \A c \in Client : left[c] <= MaxRequests[c]
         /\ calm \in [Client -> BOOLEAN]
         /\ found \in [Client -> Obj \cup {Null}]
         /\ \A c \in Client : Shape(c)

IInv == Order = "safe" /\ Types /\ \A c \in Client : Progress(c)

-----------------------------------------------------------------------------
(***************************************************************************)
(* What each action does to the client that takes it.                      *)
(***************************************************************************)
(* Clients other than c are where they were.                               *)
Others(c) == \A d \in Client \ {c} :
   req'[d] = req[d] /\ named'[d] = named[d] /\ touched'[d] = touched[d]

(* The index whose turn it is is one of size_t.                            *)
LEMMA CurrentType ==
  ASSUME Types, NEW c \in Client, req[c].pc \in Running
  PROVE  /\ Len(touched[c]) \in Nat
         /\ Len(touched[c]) + 1 \in 1..Len(req[c].blockIndices)
         /\ Current(c) \in Index
         /\ Current(c) = req[c].blockIndices[Len(touched[c]) + 1]
         /\ req[c].file \in File
<1>1. Shape(c) /\ req[c] \in Request
  BY DEF Types
<1>2. Len(touched[c]) \in Nat /\ Len(req[c].blockIndices) \in Nat
  BY <1>1 DEF Shape
<1>3. Len(touched[c]) + 1 \in 1..Len(req[c].blockIndices)
  BY <1>1, <1>2 DEF Shape
<1>4. Current(c) \in Index
  BY <1>1, <1>3 DEF Shape, Current
<1> QED
  BY <1>1, <1>2, <1>3, <1>4 DEF Current, Request

(* The slot of an index holds an object or nothing.                        *)
LEMMA EntryType ==
  ASSUME TypeOK, NEW f \in File, NEW b \in Index, hasFile(f)
  PROVE  Entry(f, b) \in Obj \cup {Null}
  BY CollIdxType DEF TypeOK, Entry, hasFile

(* Lists of indices are made of size_t values.                             *)
LEMMA ListType ==
  ASSUME NEW c \in Client, NEW s \in IndexLists(c)
  PROVE  /\ s \in Seq(Index) /\ s \in Seq(Nat)
         /\ DOMAIN s = 1..Len(s) /\ Len(s) \in Nat
         /\ Len(s) <= MaxIndices[c]
<1>1. PICK n \in 0..MaxIndices[c] : s \in [1..n -> 0..(MaxBlocks + 1)]
  BY DEF IndexLists
<1>2. n \in Nat
  BY ClientsAssumption
<1>3. 0..(MaxBlocks + 1) \subseteq Index
  BY IndicesAssumption, SizeAssumption DEF Index
<1>4. s \in [1..n -> Index]
  BY <1>1, <1>3
<1>5. s \in Seq(Index) /\ Len(s) = n
  BY <1>2, <1>4
<1>6. s \in [1..n -> Nat]
  BY <1>1, SizeAssumption
<1> QED
  BY <1>1, <1>2, <1>5, <1>6

(* The objects at the indices of a list.                                   *)
LEMMA NamedType ==
  ASSUME TypeOK, NEW f \in File, hasFile(f), NEW s \in Seq(Index)
  PROVE  LET n == [k \in DOMAIN s |-> Entry(f, s[k])] IN
           n \in Seq(Obj \cup {Null}) /\ Len(n) = Len(s)
<1>1. \A k \in DOMAIN s : Entry(f, s[k]) \in Obj \cup {Null}
  BY EntryType
<1> QED
  BY <1>1

(* A request is accepted: nothing is done and everything lies ahead.       *)
Started(c, f, op, s) ==
  /\ UNCHANGED vars /\ Others(c)
  /\ hasFile(f) /\ Listed(op, s) /\ Len(s) \in Nat /\ Len(s) > 0
  /\ s \in Seq(Index)
  /\ req \in [Client -> Request] /\ req' \in [Client -> Request]
  /\ req'[c] = [pc |-> FirstPc(op), op |-> op, file |-> f, blockIndices |-> s]
  /\ req'[c].pc \in Running
  /\ named' \in [Client -> Seq(Obj \cup {Null})]
  /\ named'[c] = [k \in DOMAIN s |-> Entry(f, s[k])]
  /\ Len(named'[c]) = Len(s)
  /\ touched' \in [Client -> Seq(Obj)]
  /\ touched'[c] = << >>
  /\ left' = [left EXCEPT ![c] = @ - 1] /\ left[c] > 0
  /\ calm' = [calm EXCEPT ![c] = TRUE]

LEMMA StartIs ==
  ASSUME Types, NEW c \in Client, NEW f \in File, NEW op \in OpType,
         NEW s \in IndexLists(c), Start(c, f, op, s)
  PROVE  Started(c, f, op, s)
<1>1. /\ UNCHANGED vars
      /\ req' = [req EXCEPT ![c] =
                   [pc |-> FirstPc(op), op |-> op, file |-> f, blockIndices |-> s]]
      /\ named' = [named EXCEPT ![c] = [k \in DOMAIN s |-> Entry(f, s[k])]]
      /\ touched' = [touched EXCEPT ![c] = << >>]
      /\ left' = [left EXCEPT ![c] = @ - 1] /\ left[c] > 0
      /\ calm' = [calm EXCEPT ![c] = TRUE]
      /\ hasFile(f) /\ Listed(op, s) /\ s # << >>
  BY DEF Start, Valid
<1>2. /\ s \in Seq(Index) /\ s \in Seq(Nat) /\ Len(s) \in Nat
      /\ DOMAIN s = 1..Len(s)
  BY ListType
<1>3. Len(s) > 0
  BY <1>1, <1>2
<1>4. FirstPc(op) \in Running
  BY DEF FirstPc, Running
<1>5. [pc |-> FirstPc(op), op |-> op, file |-> f, blockIndices |-> s] \in Request
  BY <1>2, <1>4 DEF Request
<1>6. /\ req' \in [Client -> Request]
      /\ req'[c] = [pc |-> FirstPc(op), op |-> op, file |-> f, blockIndices |-> s]
      /\ \A d \in Client \ {c} : req'[d] = req[d]
  BY <1>1, <1>5 DEF Types
<1> DEFINE n == [k \in DOMAIN s |-> Entry(f, s[k])]
<1>7. n \in Seq(Obj \cup {Null}) /\ Len(n) = Len(s)
  BY <1>1, <1>2, NamedType DEF Types
<1> HIDE DEF n
<1>8. named' = [named EXCEPT ![c] = n]
  BY <1>1 DEF n
<1>9. /\ named' \in [Client -> Seq(Obj \cup {Null})]
      /\ named'[c] = n
      /\ \A d \in Client \ {c} : named'[d] = named[d]
  BY <1>7, <1>8 DEF Types
<1>10. /\ touched' \in [Client -> Seq(Obj)]
       /\ touched'[c] = << >>
       /\ \A d \in Client \ {c} : touched'[d] = touched[d]
  BY <1>1 DEF Types
<1> QED
  BY <1>1, <1>2, <1>3, <1>4, <1>6, <1>7, <1>9, <1>10 DEF Started, Others, Types, n

LEMMA RefuseIs ==
  ASSUME Types, NEW c \in Client, NEW f \in File, NEW op \in OpType,
         NEW s \in IndexLists(c), Refuse(c, f, op, s)
  PROVE  /\ UNCHANGED vars /\ UNCHANGED calm /\ Others(c)
         /\ req' \in [Client -> Request]
         /\ req'[c].pc = "failed" /\ req'[c].op = req[c].op
         /\ req'[c].blockIndices = req[c].blockIndices
         /\ named' \in [Client -> Seq(Obj \cup {Null})] /\ named'[c] = << >>
         /\ touched' \in [Client -> Seq(Obj)] /\ touched'[c] = << >>
         /\ left' = [left EXCEPT ![c] = @ - 1] /\ left[c] > 0
<1>1. /\ UNCHANGED vars /\ UNCHANGED calm
      /\ req' = [req EXCEPT ![c].pc = "failed"]
      /\ named' = [named EXCEPT ![c] = << >>]
      /\ touched' = [touched EXCEPT ![c] = << >>]
      /\ left' = [left EXCEPT ![c] = @ - 1] /\ left[c] > 0
  BY DEF Refuse
<1>2. req[c] \in Request
  BY DEF Types
<1>3. [req[c] EXCEPT !.pc = "failed"] \in Request
  BY <1>2 DEF Request
<1>4. /\ req' \in [Client -> Request]
      /\ req'[c] = [req[c] EXCEPT !.pc = "failed"]
      /\ \A d \in Client \ {c} : req'[d] = req[d]
  BY <1>1, <1>3 DEF Types
<1>5. /\ req'[c].pc = "failed" /\ req'[c].op = req[c].op
      /\ req'[c].blockIndices = req[c].blockIndices
  BY <1>2, <1>4 DEF Request
<1>6. /\ named' \in [Client -> Seq(Obj \cup {Null})] /\ named'[c] = << >>
      /\ touched' \in [Client -> Seq(Obj)] /\ touched'[c] = << >>
      /\ \A d \in Client \ {c} : named'[d] = named[d] /\ touched'[d] = touched[d]
  BY <1>1 DEF Types
<1> QED
  BY <1>1, <1>4, <1>5, <1>6 DEF Others

(* Get and Fail only move the program counter.                             *)
PcMoves(c) ==
  /\ UNCHANGED vars /\ UNCHANGED calm /\ UNCHANGED left /\ UNCHANGED named
  /\ UNCHANGED touched /\ Others(c)
  /\ req' \in [Client -> Request]
  /\ req[c].pc \in Running
  /\ req'[c].pc \in {"call", "failed"}
  /\ req'[c].op = req[c].op /\ req'[c].file = req[c].file
  /\ req'[c].blockIndices = req[c].blockIndices

LEMMA PcMovesIs ==
  ASSUME Types, NEW c \in Client, Get(c) \/ Fail(c)
  PROVE  PcMoves(c)
<1>1. /\ UNCHANGED vars /\ UNCHANGED calm /\ UNCHANGED left /\ UNCHANGED named
      /\ UNCHANGED touched
  BY DEF Get, Fail
<1>2. req[c].pc \in Running
  BY DEF Get, Fail, Running
<1>3. PICK p \in {"call", "failed"} : req' = [req EXCEPT ![c].pc = p]
  BY DEF Get, Fail
<1>4. req[c] \in Request
  BY DEF Types
<1>5. [req[c] EXCEPT !.pc = p] \in Request
  BY <1>4 DEF Request, Running
<1>6. /\ req' \in [Client -> Request]
      /\ req'[c] = [req[c] EXCEPT !.pc = p]
      /\ \A d \in Client \ {c} : req'[d] = req[d]
  BY <1>3, <1>5 DEF Types
<1>7. /\ req'[c].pc = p /\ req'[c].op = req[c].op /\ req'[c].file = req[c].file
      /\ req'[c].blockIndices = req[c].blockIndices
  BY <1>4, <1>6 DEF Request
<1> QED
  BY <1>1, <1>2, <1>6, <1>7 DEF PcMoves, Others

(* A call that returned has appended the object it worked on.              *)
LEMMA AdvanceIs ==
  ASSUME Types, NEW c \in Client, NEW o \in Obj, req[c].pc = "call", Advance(c, o)
  PROVE  /\ req' \in [Client -> Request]
         /\ touched' \in [Client -> Seq(Obj)]
         /\ req'[c].op = req[c].op /\ req'[c].file = req[c].file
         /\ req'[c].blockIndices = req[c].blockIndices
         /\ req'[c].pc \in Running \cup {"ok"}
         /\ req'[c].pc = "ok" <=> Len(touched[c]) + 1 = Len(req[c].blockIndices)
         /\ Len(touched'[c]) = Len(touched[c]) + 1
         /\ \A k \in 1..(Len(touched[c]) + 1) :
               touched'[c][k] = IF k = Len(touched[c]) + 1 THEN o ELSE touched[c][k]
         /\ \A d \in Client \ {c} : req'[d] = req[d] /\ touched'[d] = touched[d]
<1> DEFINE p == IF Len(touched[c]) + 1 = Len(req[c].blockIndices)
                THEN "ok" ELSE FirstPc(req[c].op)
           t == Append(touched[c], o)
<1>1. req[c] \in Request /\ touched[c] \in Seq(Obj)
  BY DEF Types
<1>2. p \in Running \cup {"ok"}
      /\ (p = "ok" <=> Len(touched[c]) + 1 = Len(req[c].blockIndices))
  BY DEF FirstPc, Running
<1>3. /\ t \in Seq(Obj) /\ Len(t) = Len(touched[c]) + 1
      /\ \A k \in 1..(Len(touched[c]) + 1) :
            t[k] = IF k = Len(touched[c]) + 1 THEN o ELSE touched[c][k]
  BY <1>1
<1>4. req' = [req EXCEPT ![c].pc = p] /\ touched' = [touched EXCEPT ![c] = t]
  BY DEF Advance
<1> HIDE DEF p, t
<1>5. [req[c] EXCEPT !.pc = p] \in Request
  BY <1>1, <1>2 DEF Request, Running
<1>6. /\ req' \in [Client -> Request]
      /\ req'[c] = [req[c] EXCEPT !.pc = p]
      /\ \A d \in Client \ {c} : req'[d] = req[d]
  BY <1>4, <1>5 DEF Types
<1>7. /\ req'[c].pc = p /\ req'[c].op = req[c].op /\ req'[c].file = req[c].file
      /\ req'[c].blockIndices = req[c].blockIndices
  BY <1>1, <1>6 DEF Request
<1>8. /\ touched' \in [Client -> Seq(Obj)] /\ touched'[c] = t
      /\ \A d \in Client \ {c} : touched'[d] = touched[d]
  BY <1>3, <1>4 DEF Types
<1> QED
  BY <1>2, <1>3, <1>6, <1>7, <1>8

(* The call for the current index, which worked on object o.               *)
CallOn(c, o) ==
  LET r == req[c] b == Current(c) IN
  /\ r.pc = "call" /\ hasFile(r.file) /\ Advance(c, o)
  /\ UNCHANGED left /\ UNCHANGED named /\ UNCHANGED files
  /\ r.op \in {"Update", "Insert", "Delete"}
  /\ r.op = "Update" => /\ ModifyBlock(r.file, b) /\ o = Entry(r.file, b)
                        /\ UNCHANGED colls /\ UNCHANGED calm
  /\ r.op = "Insert" => /\ InsertBlock(r.file, b) /\ o \in FreshObj /\ Disturb(c)
                        /\ colls' = [colls EXCEPT ![files[r.file]] =
                              InsertEntry(colls[files[r.file]], CollIdx(b), o)]
  /\ r.op = "Delete" => /\ DeleteBlock(r.file, b) /\ o = Entry(r.file, b) /\ Disturb(c)
                        /\ colls' = [colls EXCEPT ![files[r.file]] =
                              DeleteEntry(colls[files[r.file]], CollIdx(b))]

LEMMA CallIs ==
  ASSUME Types, NEW c \in Client, Call(c)
  PROVE  \E o \in Obj : CallOn(c, o)
<1> DEFINE f == req[c].file
           b == Current(c)
<1>1. req[c].pc = "call" /\ UNCHANGED left /\ UNCHANGED named
  BY DEF Call
<1>2. b \in Index /\ f \in File /\ TypeOK
  BY <1>1, CurrentType DEF Running, Types
<1>3. CASE req[c].op = "Update"
  <2>1. ModifyBlock(f, b) /\ Advance(c, Entry(f, b)) /\ UNCHANGED calm
    BY <1>3 DEF Call
  <2>2. hasFile(f) /\ Entry(f, b) # Null /\ UNCHANGED files /\ UNCHANGED colls
    BY <2>1 DEF ModifyBlock
  <2>3. Entry(f, b) \in Obj
    BY <1>2, <2>2, EntryType
  <2>4. CallOn(c, Entry(f, b))
    BY <1>1, <1>3, <2>1, <2>2 DEF CallOn
  <2> QED
    BY <2>3, <2>4
<1>4. CASE req[c].op = "Delete"
  <2>1. DeleteBlock(f, b) /\ Advance(c, Entry(f, b)) /\ Disturb(c)
    BY <1>4 DEF Call
  <2>2. /\ hasFile(f) /\ Entry(f, b) # Null /\ UNCHANGED files
        /\ colls' = [colls EXCEPT ![files[f]] =
                       DeleteEntry(colls[files[f]], CollIdx(b))]
    BY <2>1 DEF DeleteBlock
  <2>3. Entry(f, b) \in Obj
    BY <1>2, <2>2, EntryType
  <2>4. CallOn(c, Entry(f, b))
    BY <1>1, <1>4, <2>1, <2>2 DEF CallOn
  <2> QED
    BY <2>3, <2>4
<1>5. CASE req[c].op = "Insert"
  <2>1. /\ InsertBlock(f, b) /\ Disturb(c)
        /\ Advance(c, colls'[files[f]][CollIdx(b)])
    BY <1>5 DEF Call
  <2>2. hasFile(f)
    BY <2>1 DEF InsertBlock
  <2> DEFINE i == CollIdx(b)
  <2>3. PICK o \in FreshObj : SetNew(f, o, InsertEntry(colls[files[f]], i, o))
    BY <2>1 DEF InsertBlock
  <2>4. UNCHANGED files /\ colls' = [colls EXCEPT ![files[f]] =
                                       InsertEntry(colls[files[f]], i, o)]
    BY <2>3 DEF SetNew
  <2>5. files[f] \in Coll /\ i \in Index
    BY <1>2, <2>2, CollIdxType DEF hasFile, TypeOK
  <2>6. colls'[files[f]] = InsertEntry(colls[files[f]], i, o)
    BY <1>2, <2>4, <2>5 DEF TypeOK
  <2>7. colls'[files[f]][i] = o
    BY <2>5, <2>6 DEF InsertEntry
  <2>8. CallOn(c, o)
    BY <1>1, <1>5, <2>1, <2>2, <2>3, <2>4, <2>7 DEF CallOn
  <2> QED
    BY <2>3, <2>8 DEF FreshObj
<1> QED
  BY <1>3, <1>4, <1>5 DEF Call

-----------------------------------------------------------------------------
(***************************************************************************)
(* The steps of the clients are calls to the store: what StateStore's      *)
(* invariants say holds while maintenance is at work.                      *)
(***************************************************************************)
LEMMA StoreStep == Types /\ [MNext]_mvars => [Next]_vars
<1> SUFFICES ASSUME Types, [MNext]_mvars PROVE [Next]_vars
  OBVIOUS
<1>1. CASE UNCHANGED mvars
  BY <1>1 DEF mvars
<1>2. CASE Manage
  BY <1>2 DEF Manage, Next, FileNext
<1>3. ASSUME NEW c \in Client, NEW f \in File, NEW op \in OpType,
             NEW s \in IndexLists(c), Start(c, f, op, s) \/ Refuse(c, f, op, s)
      PROVE  UNCHANGED vars
  BY <1>3 DEF Start, Refuse
<1>4. ASSUME NEW c \in Client, Get(c) \/ Fail(c) PROVE UNCHANGED vars
  BY <1>4 DEF Get, Fail
<1>5. ASSUME NEW c \in Client, Call(c) PROVE Next
  <2>1. PICK o \in Obj : CallOn(c, o)
    BY <1>5, CallIs
  <2> DEFINE f == req[c].file
             b == Current(c)
  <2>2. f \in File /\ b \in Index
    BY <2>1, CurrentType DEF CallOn, Running
  <2>3. ModifyBlock(f, b) \/ InsertBlock(f, b) \/ DeleteBlock(f, b)
    BY <2>1 DEF CallOn
  <2> HIDE DEF f, b
  <2> QED
    BY <2>2, <2>3 DEF Next, FileNext
<1> QED
  BY <1>1, <1>2, <1>3, <1>4, <1>5 DEF MNext

-----------------------------------------------------------------------------
(***************************************************************************)
(* The types are kept.                                                     *)
(***************************************************************************)
(* A client that did nothing keeps its shape.                              *)
LEMMA ShapeFrame ==
  ASSUME Types, NEW d \in Client, req'[d] = req[d], named'[d] = named[d],
         touched'[d] = touched[d]
  PROVE  Shape(d)'
<1>1. Shape(d)
  BY DEF Types
<1> QED
  BY <1>1 DEF Shape

(* Only the shape of the client that acts is to be shown.                  *)
LEMMA TypesFrom ==
  ASSUME Types, TypeOK', NEW c \in Client, Others(c), Shape(c)',
         req' \in [Client -> Request],
         named' \in [Client -> Seq(Obj \cup {Null})],
         touched' \in [Client -> Seq(Obj)],
         left' = left \/ (left' = [left EXCEPT ![c] = @ - 1] /\ left[c] > 0),
         calm' \in [Client -> BOOLEAN],
         found' \in [Client -> Obj \cup {Null}]
  PROVE  Types'
<1>1. left \in [Client -> Nat] /\ \A d \in Client : left[d] <= MaxRequests[d]
  BY DEF Types
<1>2. left' \in [Client -> Nat] /\ \A d \in Client : left'[d] <= MaxRequests[d]
  <2>1. CASE left' = left
    BY <1>1, <2>1
  <2>2. CASE left' = [left EXCEPT ![c] = @ - 1] /\ left[c] > 0
    <3>0. /\ left[c] \in Nat /\ left[c] > 0 /\ left[c] <= MaxRequests[c]
          /\ MaxRequests[c] \in Nat
      BY <1>1, <2>2, ClientsAssumption
    <3>1. left[c] - 1 \in Nat /\ left[c] - 1 <= MaxRequests[c]
      BY <3>0
    <3>2. left' \in [Client -> Nat]
      BY <1>1, <2>2, <3>1
    <3>3. \A d \in Client : left'[d] = IF d = c THEN left[c] - 1 ELSE left[d]
      BY <1>1, <2>2
    <3> QED
      BY <1>1, <3>1, <3>2, <3>3
  <2> QED
    BY <2>1, <2>2
<1>3. \A d \in Client : Shape(d)'
  <2> SUFFICES ASSUME NEW d \in Client PROVE Shape(d)'
    OBVIOUS
  <2>1. CASE d = c
    BY <2>1
  <2>2. CASE d # c
    <3>1. req'[d] = req[d] /\ named'[d] = named[d] /\ touched'[d] = touched[d]
      BY <2>2 DEF Others
    <3> QED
      BY <3>1, ShapeFrame
  <2> QED
    BY <2>1, <2>2
<1> QED
  BY <1>2, <1>3 DEF Types

(* What was looked up is an object of the store or nothing.                *)
LEMMA FoundType ==
  Types /\ [MNext]_mvars => found' \in [Client -> Obj \cup {Null}]
<1> SUFFICES ASSUME Types, [MNext]_mvars
             PROVE  found' \in [Client -> Obj \cup {Null}]
  OBVIOUS
<1>0. found \in [Client -> Obj \cup {Null}]
  BY DEF Types
<1>1. CASE UNCHANGED mvars
  BY <1>0, <1>1 DEF mvars
<1>2. CASE Manage
  BY <1>0, <1>2 DEF Manage
<1>3. ASSUME NEW c \in Client, NEW f \in File, NEW op \in OpType,
             NEW s \in IndexLists(c), Start(c, f, op, s) \/ Refuse(c, f, op, s)
      PROVE  found' = found
  BY <1>3 DEF Start, Refuse
<1>4. ASSUME NEW c \in Client, Get(c)
      PROVE  found' \in [Client -> Obj \cup {Null}]
  <2>1. req[c].pc \in Running /\ TypeOK
    BY <1>4 DEF Get, Running, Types
  <2>2. Current(c) \in Index /\ req[c].file \in File
    BY <2>1, CurrentType
  <2>3. hasFile(req[c].file) => Entry(req[c].file, Current(c)) \in Obj \cup {Null}
    BY <2>1, <2>2, EntryType
  <2>4. found' = [found EXCEPT ![c] = IF hasFile(req[c].file)
                                     THEN Entry(req[c].file, Current(c)) ELSE Null]
    BY <1>4 DEF Get
  <2> QED
    BY <1>0, <2>3, <2>4
<1>5. ASSUME NEW c \in Client, Call(c) \/ Fail(c)
      PROVE  found' \in [Client -> Obj \cup {Null}]
  BY <1>0, <1>5 DEF Call, Fail
<1> QED
  BY <1>0, <1>1, <1>2, <1>3, <1>4, <1>5 DEF MNext

LEMMA TypesStep == Types /\ [MNext]_mvars => Types'
<1> SUFFICES ASSUME Types, [MNext]_mvars PROVE Types'
  OBVIOUS
<1>0. TypeOK' /\ found' \in [Client -> Obj \cup {Null}]
  BY StoreStep, TypeStep, FoundType DEF Types
<1>1. CASE UNCHANGED mvars
  <2>1. req' = req /\ left' = left /\ named' = named /\ touched' = touched
        /\ calm' = calm
    BY <1>1 DEF mvars
  <2>2. \A d \in Client : Shape(d)'
    BY <2>1, ShapeFrame
  <2> QED
    BY <1>0, <2>1, <2>2 DEF Types
<1>2. CASE Manage
  <2>1. /\ req' = req /\ left' = left /\ named' = named /\ touched' = touched
        /\ calm' = [d \in Client |-> FALSE]
    BY <1>2 DEF Manage
  <2>2. \A d \in Client : Shape(d)'
    BY <2>1, ShapeFrame
  <2> QED
    BY <1>0, <2>1, <2>2 DEF Types
<1>3. ASSUME NEW c \in Client, NEW f \in File, NEW op \in OpType,
             NEW s \in IndexLists(c), Start(c, f, op, s)
      PROVE  Types'
  <2>0. Started(c, f, op, s)
    BY <1>3, StartIs
  <2>1. /\ Others(c) /\ Listed(op, s) /\ Len(s) \in Nat /\ Len(s) > 0
        /\ s \in Seq(Index)
        /\ req' \in [Client -> Request]
        /\ req'[c] = [pc |-> FirstPc(op), op |-> op, file |-> f, blockIndices |-> s]
        /\ named' \in [Client -> Seq(Obj \cup {Null})]
        /\ Len(named'[c]) = Len(s)
        /\ touched' \in [Client -> Seq(Obj)] /\ touched'[c] = << >>
        /\ left' = [left EXCEPT ![c] = @ - 1] /\ left[c] > 0
        /\ calm' = [calm EXCEPT ![c] = TRUE]
    BY <2>0 DEF Started
  <2>2. calm' \in [Client -> BOOLEAN]
    BY <2>1 DEF Types
  <2>3. Shape(c)'
    BY <2>1 DEF Shape
  <2> QED
    BY <1>0, <2>1, <2>2, <2>3, TypesFrom
<1>4. ASSUME NEW c \in Client, NEW f \in File, NEW op \in OpType,
             NEW s \in IndexLists(c), Refuse(c, f, op, s)
      PROVE  Types'
  <2>1. /\ UNCHANGED calm /\ Others(c)
        /\ req' \in [Client -> Request]
        /\ req'[c].pc = "failed"
        /\ req'[c].blockIndices = req[c].blockIndices
        /\ named' \in [Client -> Seq(Obj \cup {Null})]
        /\ touched' \in [Client -> Seq(Obj)]
        /\ left' = [left EXCEPT ![c] = @ - 1] /\ left[c] > 0
    BY <1>4, RefuseIs
  <2>2. Shape(c)'
    BY <2>1 DEF Types, Shape, Running
  <2>3. calm' \in [Client -> BOOLEAN]
    BY <2>1 DEF Types
  <2> QED
    BY <1>0, <2>1, <2>2, <2>3, TypesFrom
<1>5. ASSUME NEW c \in Client, Get(c) \/ Fail(c) PROVE Types'
  <2>1. /\ UNCHANGED calm /\ UNCHANGED left /\ UNCHANGED named /\ UNCHANGED touched
        /\ Others(c) /\ req' \in [Client -> Request]
        /\ req[c].pc \in Running
        /\ req'[c].op = req[c].op
        /\ req'[c].blockIndices = req[c].blockIndices
    BY <1>5, PcMovesIs DEF PcMoves
  <2>2. Shape(c)
    BY DEF Types
  <2>3. Shape(c)'
    BY <2>1, <2>2 DEF Shape
  <2>4. /\ calm' \in [Client -> BOOLEAN]
        /\ named' \in [Client -> Seq(Obj \cup {Null})]
        /\ touched' \in [Client -> Seq(Obj)]
    BY <2>1 DEF Types
  <2> QED
    BY <1>0, <2>1, <2>3, <2>4, TypesFrom
<1>6. ASSUME NEW c \in Client, Call(c) PROVE Types'
  <2>1. PICK o \in Obj : CallOn(c, o)
    BY <1>6, CallIs
  <2>2. /\ req[c].pc = "call" /\ Advance(c, o) /\ UNCHANGED left /\ UNCHANGED named
        /\ (UNCHANGED calm \/ Disturb(c))
    BY <2>1 DEF CallOn
  <2>3. /\ req' \in [Client -> Request]
        /\ touched' \in [Client -> Seq(Obj)]
        /\ req'[c].op = req[c].op
        /\ req'[c].blockIndices = req[c].blockIndices
        /\ req'[c].pc \in Running \cup {"ok"}
        /\ req'[c].pc = "ok" <=> Len(touched[c]) + 1 = Len(req[c].blockIndices)
        /\ Len(touched'[c]) = Len(touched[c]) + 1
        /\ \A d \in Client \ {c} : req'[d] = req[d] /\ touched'[d] = touched[d]
    BY <2>2, AdvanceIs
  <2>4. Others(c)
    BY <2>2, <2>3 DEF Others
  <2>5. calm' \in [Client -> BOOLEAN]
    BY <2>2 DEF Types, Disturb
  <2>6. /\ Shape(c) /\ req[c].pc \in Running
        /\ Len(touched[c]) + 1 \in 1..Len(req[c].blockIndices)
        /\ Len(touched[c]) \in Nat
    BY <2>2, CurrentType DEF Types, Running
  <2>7. req'[c].pc \in Running => Len(touched'[c]) < Len(req[c].blockIndices)
    <3>1. "ok" \notin Running
      BY DEF Running
    <3> QED
      BY <2>3, <2>6, <3>1
  <2>8. named' \in [Client -> Seq(Obj \cup {Null})]
    BY <2>2 DEF Types
  <2>9. Shape(c)'
    BY <2>2, <2>3, <2>6, <2>7, <2>8 DEF Shape
  <2> QED
    BY <1>0, <2>2, <2>3, <2>4, <2>5, <2>8, <2>9, TypesFrom
<1> QED
  BY <1>1, <1>2, <1>3, <1>4, <1>5, <1>6 DEF MNext

LEMMA TypesInit == MInit => Types
<1> SUFFICES ASSUME MInit PROVE Types
  OBVIOUS
<1>1. TypeOK
  BY MetaType DEF MInit, Init, TypeOK, Empty
<1>2. PICK f \in File : req = [c \in Client |->
          [pc |-> "idle", op |-> "Other", file |-> f, blockIndices |-> << >>]]
  BY DEF MInit
<1>3. /\ left = MaxRequests
      /\ named = [c \in Client |-> << >>]
      /\ touched = [c \in Client |-> << >>]
      /\ calm = [c \in Client |-> TRUE]
      /\ found = [c \in Client |-> Null]
  BY DEF MInit
<1>4. [pc |-> "idle", op |-> "Other", file |-> f, blockIndices |-> << >>] \in Request
  BY DEF Request, OpType
<1>5. req \in [Client -> Request]
  BY <1>2, <1>4
<1>6. /\ left \in [Client -> Nat]
      /\ \A c \in Client : left[c] <= MaxRequests[c]
      /\ named \in [Client -> Seq(Obj \cup {Null})]
      /\ touched \in [Client -> Seq(Obj)]
      /\ calm \in [Client -> BOOLEAN]
      /\ found \in [Client -> Obj \cup {Null}]
  BY <1>3, ClientsAssumption
<1>7. ASSUME NEW c \in Client PROVE Shape(c)
  <2>1. req[c].pc \notin Running /\ req[c].blockIndices = << >>
    BY <1>2 DEF Running
  <2>2. req[c].blockIndices \in Seq(Index)
    BY <2>1
  <2> QED
    BY <1>5, <1>6, <2>1, <2>2 DEF Shape
<1> QED
  BY <1>1, <1>5, <1>6, <1>7 DEF Types

THEOREM RequestsTyped == MSpec => []Types
BY TypesInit, TypesStep, PTL DEF MSpec

(***************************************************************************)
(* Whatever the clients ask for and in whatever order their calls fall,    *)
(* the store, the requests and what is recorded of them hold values of     *)
(* their types; in particular every call that returned has worked on a     *)
(* metadata object, never on an empty slot.                                *)
(***************************************************************************)
THEOREM MaintenanceTypeCorrect == MSpec => []MTypeOK
<1>1. Types => MTypeOK
  <2> SUFFICES ASSUME Types PROVE MTypeOK
    OBVIOUS
  <2>1. \A c \in Client : left[c] \in 0..MaxRequests[c]
    BY ClientsAssumption DEF Types
  <2>2. \A c \in Client : \A k \in DOMAIN named[c] : named[c][k] \in Obj \cup {Null}
    BY DEF Types
  <2>3. \A c \in Client : \A k \in DOMAIN touched[c] : touched[c][k] \in Obj
    BY DEF Types
  <2> QED
    BY <2>1, <2>2, <2>3 DEF Types, MTypeOK
<1> QED
  BY <1>1, RequestsTyped, PTL

-----------------------------------------------------------------------------
(***************************************************************************)
(* Whatever the clients of maintenance() do and however their calls        *)
(* interleave, the store sees calls of its own methods only.  What is      *)
(* proved of any calls with any indices is therefore true under            *)
(* maintenance: blocks and files share nothing, a request shows in its own *)
(* file alone, versions do not go back, and every file is an AtomicFile.   *)
(***************************************************************************)
THEOREM MaintenanceCallsStore == MSpec => Spec
<1>1. MInit => Init
  BY DEF MInit
<1>2. Types /\ [MNext]_mvars => [Next]_vars
  BY StoreStep
<1> QED
  BY <1>1, <1>2, RequestsTyped, PTL DEF MSpec, Spec

THEOREM StoreSafeUnderMaintenance ==
  MSpec => []NoSharing /\ Isolation /\ VersionsGrow /\ FilesAreAtomic
  BY MaintenanceCallsStore, NeverShared, FilesAreIsolated, VersionsNeverDecrease,
     FilesStayAtomic, PTL

-----------------------------------------------------------------------------
(***************************************************************************)
(* Updates and deletions.                                                  *)
(***************************************************************************)
(* What the safe order means for two indices of a list.                    *)
LEMMA SafeOrder ==
  ASSUME Order = "safe", NEW op, NEW s, Listed(op, s)
  PROVE  /\ op = "Insert" => Ascending(s) /\ \A k \in DOMAIN s : s[k] > 0
         /\ op = "Delete" => Descending(s)
BY DEF Listed

(* Deleting a block leaves those of smaller indices where they are, but    *)
(* index 0 means the last slot, which a deletion leaves empty.             *)
LEMMA DeleteBelow ==
  ASSUME NEW e \in [Index -> Obj \cup {Null}], NEW a \in Index, NEW b \in Index, a < b
  PROVE  DeleteEntry(e, CollIdx(b))[CollIdx(a)] \in {e[CollIdx(a)], Null}
<1>1. CollIdx(a) \in Index /\ CollIdx(b) \in Index
  BY CollIdxType
<1>2. CASE a = 0
  <2>1. CollIdx(a) = SizeMax
    BY <1>2 DEF CollIdx
  <2> QED
    BY <1>1, <2>1, SizeAssumption DEF DeleteEntry, Index
<1>3. CASE a # 0
  <2>1. CollIdx(a) < CollIdx(b)
    BY <1>3, SizeAssumption DEF CollIdx, Index
  <2> QED
    BY <1>1, <2>1 DEF DeleteEntry
<1> QED
  BY <1>2, <1>3

(* A client that did nothing keeps its progress, unless it was disturbed.  *)
LEMMA ProgressFrame ==
  ASSUME NEW d \in Client, Progress(d), req'[d] = req[d], named'[d] = named[d],
         touched'[d] = touched[d],
         calm'[d] => calm[d] /\ files' = files /\ colls' = colls
  PROVE  Progress(d)'
BY DEF Progress, Prefix, Ahead, Entry

LEMMA StartProgress ==
  ASSUME Types, NEW c \in Client, NEW f \in File, NEW op \in OpType,
         NEW s \in IndexLists(c), Started(c, f, op, s)
  PROVE  Progress(c)'
<1>1. /\ req'[c].op = op /\ req'[c].file = f /\ req'[c].blockIndices = s
      /\ req'[c].pc \in Running
      /\ touched'[c] = << >>
      /\ named'[c] = [k \in DOMAIN s |-> Entry(f, s[k])]
      /\ Len(named'[c]) = Len(s) /\ Len(s) \in Nat
      /\ s \in Seq(Index)
  BY DEF Started
<1>2. files' = files /\ colls' = colls
  BY DEF Started, vars
<1>3. Prefix(c)'
  BY <1>1 DEF Prefix, Running
<1>4. ASSUME NEW k \in 1..Len(s)
      PROVE  Entry(f, s[k])' = named'[c][k]
  BY <1>1, <1>2 DEF Entry
<1>5. Ahead(c)'
  BY <1>1, <1>4 DEF Ahead
<1> QED
  BY <1>3, <1>5 DEF Progress

LEMMA RefuseProgress ==
  ASSUME NEW c \in Client, req'[c].pc = "failed", named'[c] = << >>,
         touched'[c] = << >>
  PROVE  Progress(c)'
BY DEF Progress, Prefix, Running

LEMMA PcProgress ==
  ASSUME NEW c \in Client, Progress(c), PcMoves(c)
  PROVE  Progress(c)'
<1>1. /\ files' = files /\ colls' = colls /\ calm' = calm /\ named' = named
      /\ touched' = touched
      /\ req[c].pc \in Running
      /\ req'[c].pc # "ok"
      /\ req'[c].op = req[c].op /\ req'[c].file = req[c].file
      /\ req'[c].blockIndices = req[c].blockIndices
  BY DEF PcMoves, vars
<1> QED
  BY <1>1 DEF Progress, Prefix, Ahead, Entry

(* A call works on the block whose turn it is, and does not make the       *)
(* indices after it lead to other blocks.                                  *)
LEMMA CallProgress ==
  ASSUME Order = "safe", Types, NEW c \in Client, Progress(c),
         NEW o \in Obj, CallOn(c, o)
  PROVE  Progress(c)'
<1> DEFINE r == req[c]
           n == Len(touched[c])
           f == r.file
           s == r.blockIndices
           m == Len(named[c])
<1>1. /\ r.pc = "call" /\ hasFile(f) /\ Advance(c, o) /\ named' = named
      /\ files' = files
      /\ r.op \in {"Update", "Insert", "Delete"}
  BY DEF CallOn
<1>2. /\ Shape(c) /\ r.pc \in Running
      /\ n \in Nat /\ n + 1 \in 1..Len(s)
      /\ Current(c) \in Index /\ Current(c) = s[n + 1]
      /\ f \in File
  BY <1>1, CurrentType DEF Types, Running
<1>3. /\ s \in Seq(Index) /\ m = Len(s) /\ Listed(r.op, s) /\ m \in Nat
  BY <1>2 DEF Shape
<1>4. /\ req'[c].op = r.op /\ req'[c].file = f /\ req'[c].blockIndices = s
      /\ req'[c].pc \in Running \cup {"ok"}
      /\ req'[c].pc = "ok" <=> n + 1 = m
      /\ Len(touched'[c]) = n + 1
      /\ \A k \in 1..(n + 1) : touched'[c][k] = IF k = n + 1 THEN o ELSE touched[c][k]
  BY <1>1, <1>3, AdvanceIs
<1>5. calm'[c] => calm[c]
  BY DEF CallOn, Disturb
<1> HIDE DEF r, n, f, s, m
<1>6. CASE r.op \in Edits /\ calm[c]
  <2>1. Prefix(c) /\ Ahead(c)
    BY <1>2, <1>6 DEF Progress, r
  <2>2. \A k \in 1..m : k > n => Entry(f, s[k]) \in {named[c][k], Null}
    BY <2>1 DEF Ahead, r, n, f, s, m
  <2>3. o = Entry(f, s[n + 1])
    BY <1>2, <1>6 DEF CallOn, Edits, r, f
  <2>4. o # Null
    BY NullAssumption
  <2>5. o = named[c][n + 1]
    BY <1>2, <1>3, <2>2, <2>3, <2>4
  <2>6. \A k \in 1..n : touched[c][k] = named[c][k]
    BY <2>1 DEF Prefix, n
  <2>7. \A k \in 1..(n + 1) : touched'[c][k] = named[c][k]
    BY <1>2, <1>4, <2>5, <2>6
  <2>8. n + 1 <= m
    BY <1>2, <1>3
  <2>9. Prefix(c)'
    BY <1>1, <1>4, <2>7, <2>8 DEF Prefix, m
  <2>10. ASSUME NEW k \in 1..m, k > n + 1
         PROVE  colls'[files'[f]][CollIdx(s[k])] \in {Entry(f, s[k]), Null}
    <3>1. CASE r.op = "Update"
      <4>1. colls' = colls
        BY <3>1 DEF CallOn, r
      <4> QED
        BY <1>1, <4>1 DEF Entry
    <3>2. CASE r.op = "Delete"
      <4> DEFINE e == colls[files[f]]
                 i == CollIdx(s[n + 1])
      <4>1. colls' = [colls EXCEPT ![files[f]] = DeleteEntry(e, i)]
        BY <1>2, <3>2 DEF CallOn, r, f
      <4>2. files[f] \in Coll /\ e \in [Index -> Obj \cup {Null}]
        BY <1>1, <1>2 DEF Types, TypeOK, hasFile
      <4>3. colls'[files[f]] = DeleteEntry(e, i)
        BY <4>1, <4>2 DEF Types, TypeOK
      <4>4. k \in 1..Len(s) /\ n + 1 < k /\ s[k] \in Index /\ s[n + 1] \in Index
        BY <1>2, <1>3, <2>10
      <4>5. s[k] < s[n + 1]
        BY <1>2, <1>3, <3>2, <4>4, SafeOrder DEF Descending
      <4>6. DeleteEntry(e, i)[CollIdx(s[k])] \in {e[CollIdx(s[k])], Null}
        BY <4>2, <4>4, <4>5, DeleteBelow
      <4> HIDE DEF i
      <4>7. colls'[files'[f]][CollIdx(s[k])] = DeleteEntry(e, i)[CollIdx(s[k])]
        BY <1>1, <4>3
      <4> QED
        BY <4>6, <4>7 DEF Entry
    <3> QED
      BY <1>6, <3>1, <3>2 DEF Edits
  <2>11. ASSUME NEW k \in 1..m, k > n + 1
         PROVE  colls'[files'[f]][CollIdx(s[k])] \in {named[c][k], Null}
    BY <1>2, <2>2, <2>10, <2>11
  <2>12. Ahead(c)'
    <3>1. \A k \in 1..m : k > n + 1 =>
             colls'[files'[f]][CollIdx(s[k])] \in {named[c][k], Null}
      BY <2>11
    <3>2. named'[c] = named[c] /\ Len(named'[c]) = m
      BY <1>1 DEF m
    <3>3. \A k \in 1..m : Entry(req[c].file, req[c].blockIndices[k])'
                            = colls'[files'[f]][CollIdx(s[k])]
      BY <1>4 DEF Entry
    <3> QED
      BY <1>4, <3>1, <3>2, <3>3 DEF Ahead
  <2> QED
    BY <2>9, <2>12 DEF Progress
<1>7. CASE ~(r.op \in Edits /\ calm[c])
  BY <1>4, <1>5, <1>7 DEF Progress
<1> QED
  BY <1>6, <1>7

LEMMA ProgressStep == IInv /\ [MNext]_mvars => IInv'
<1> SUFFICES ASSUME IInv, [MNext]_mvars PROVE IInv'
  OBVIOUS
<1>0. Order = "safe" /\ Types /\ Types' /\ \A d \in Client : Progress(d)
  BY TypesStep DEF IInv
<1>a. ASSUME NEW c \in Client, Others(c), Progress(c)',
             \A d \in Client \ {c} :
                calm'[d] => calm[d] /\ files' = files /\ colls' = colls
      PROVE  \A d \in Client : Progress(d)'
  <2> SUFFICES ASSUME NEW d \in Client PROVE Progress(d)'
    OBVIOUS
  <2>1. CASE d = c
    BY <1>a, <2>1
  <2>2. CASE d # c
    <3>1. req'[d] = req[d] /\ named'[d] = named[d] /\ touched'[d] = touched[d]
      BY <1>a, <2>2 DEF Others
    <3>2. calm'[d] => calm[d] /\ files' = files /\ colls' = colls
      BY <1>a, <2>2
    <3> QED
      BY <1>0, <3>1, <3>2, ProgressFrame
  <2> QED
    BY <2>1, <2>2
<1>1. CASE UNCHANGED mvars
  <2>1. /\ req' = req /\ named' = named /\ touched' = touched /\ calm' = calm
        /\ files' = files /\ colls' = colls
    BY <1>1 DEF mvars, vars
  <2>2. \A d \in Client : Progress(d)'
    BY <1>0, <2>1, ProgressFrame
  <2> QED
    BY <1>0, <2>2 DEF IInv
<1>2. CASE Manage
  <2>1. /\ req' = req /\ named' = named /\ touched' = touched
        /\ \A d \in Client : ~calm'[d]
    BY <1>2 DEF Manage
  <2>2. \A d \in Client : Progress(d)'
    BY <1>0, <2>1, ProgressFrame
  <2> QED
    BY <1>0, <2>2 DEF IInv
<1>3. ASSUME NEW c \in Client, NEW f \in File, NEW op \in OpType,
             NEW s \in IndexLists(c), Start(c, f, op, s)
      PROVE  IInv'
  <2>1. Started(c, f, op, s)
    BY <1>0, <1>3, StartIs
  <2>2. Others(c) /\ files' = files /\ colls' = colls /\ calm' = [calm EXCEPT ![c] = TRUE]
    BY <2>1 DEF Started, vars
  <2>3. \A d \in Client \ {c} : calm'[d] = calm[d]
    BY <1>0, <2>2 DEF Types
  <2>4. Progress(c)'
    BY <1>0, <2>1, StartProgress
  <2>5. \A d \in Client : Progress(d)'
    BY <2>2, <2>3, <2>4, <1>a
  <2> QED
    BY <1>0, <2>5 DEF IInv
<1>4. ASSUME NEW c \in Client, NEW f \in File, NEW op \in OpType,
             NEW s \in IndexLists(c), Refuse(c, f, op, s)
      PROVE  IInv'
  <2>1. /\ UNCHANGED vars /\ calm' = calm /\ Others(c)
        /\ req'[c].pc = "failed"
        /\ named'[c] = << >>
        /\ touched'[c] = << >>
    BY <1>0, <1>4, RefuseIs
  <2>2. files' = files /\ colls' = colls
    BY <2>1 DEF vars
  <2>3. Progress(c)'
    BY <2>1, RefuseProgress
  <2>4. \A d \in Client : Progress(d)'
    BY <2>1, <2>2, <2>3, <1>a
  <2> QED
    BY <1>0, <2>4 DEF IInv
<1>5. ASSUME NEW c \in Client, Get(c) \/ Fail(c) PROVE IInv'
  <2>1. PcMoves(c)
    BY <1>0, <1>5, PcMovesIs
  <2>2. Others(c) /\ files' = files /\ colls' = colls /\ calm' = calm
    BY <2>1 DEF PcMoves, vars
  <2>3. Progress(c)'
    BY <1>0, <2>1, PcProgress
  <2>4. \A d \in Client : Progress(d)'
    BY <2>2, <2>3, <1>a
  <2> QED
    BY <1>0, <2>4 DEF IInv
<1>6. ASSUME NEW c \in Client, Call(c) PROVE IInv'
  <2>1. PICK o \in Obj : CallOn(c, o)
    BY <1>0, <1>6, CallIs
  <2>2. Others(c)
    <3>1. req[c].pc = "call" /\ Advance(c, o) /\ named' = named
      BY <2>1 DEF CallOn
    <3> QED
      BY <1>0, <3>1, AdvanceIs DEF Others
  <2>3. Progress(c)'
    BY <1>0, <2>1, CallProgress
  <2>4. \A d \in Client \ {c} :
           calm'[d] => calm[d] /\ files' = files /\ colls' = colls
    BY <2>1 DEF CallOn, Disturb
  <2>5. \A d \in Client : Progress(d)'
    BY <2>2, <2>3, <2>4, <1>a
  <2> QED
    BY <1>0, <2>5 DEF IInv
<1> QED
  BY <1>1, <1>2, <1>3, <1>4, <1>5, <1>6 DEF MNext

LEMMA ProgressInit == Order = "safe" /\ MInit => IInv
<1> SUFFICES ASSUME Order = "safe", MInit PROVE IInv
  OBVIOUS
<1>1. \A c \in Client : req[c].op = "Other"
  BY DEF MInit
<1> QED
  BY <1>1, TypesInit DEF IInv, Progress, Edits

THEOREM ProgressMade == Order = "safe" /\ MSpec => []IInv
  BY ProgressInit, ProgressStep, PTL DEF MSpec

(***************************************************************************)
(* A request of any length does what its list says: when it returns, an    *)
(* Update or Delete has worked on exactly the blocks that its indices      *)
(* named when it was made.  Clients list the indices to delete from the    *)
(* largest to the smallest, and nobody else has moved blocks.              *)
(***************************************************************************)
THEOREM RequestsDoWhatTheyName == Order = "safe" /\ MSpec => []DoesWhatItNames
<1>1. IInv => DoesWhatItNames
  <2> SUFFICES ASSUME IInv, NEW c \in Client, req[c].pc = "ok", req[c].op \in Edits,
                      calm[c]
               PROVE  touched[c] = named[c]
    BY DEF DoesWhatItNames, Edits
  <2>1. Prefix(c)
    BY DEF IInv, Progress
  <2>2. touched[c] \in Seq(Obj) /\ named[c] \in Seq(Obj \cup {Null})
    BY DEF IInv, Types
  <2>3. Len(touched[c]) = Len(named[c]) /\ \A k \in 1..Len(touched[c]) :
           touched[c][k] = named[c][k]
    BY <2>1 DEF Prefix
  <2>4. touched[c] = [k \in 1..Len(touched[c]) |-> touched[c][k]]
    BY <2>2
  <2>5. named[c] = [k \in 1..Len(named[c]) |-> named[c][k]]
    BY <2>2
  <2> QED
    BY <2>3, <2>4, <2>5
<1> QED
  BY <1>1, ProgressMade, PTL

(***************************************************************************)
(* A request of any length that failed has worked on the first blocks of   *)
(* its list and on no other, under the same conditions.                    *)
(***************************************************************************)
THEOREM RequestsFailOnPrefix == Order = "safe" /\ MSpec => []FailsOnPrefix
<1>1. IInv => FailsOnPrefix
  <2> SUFFICES ASSUME IInv, NEW c \in Client, req[c].op \in Edits, calm[c]
               PROVE  touched[c] = SubSeq(named[c], 1, Len(touched[c]))
    BY DEF FailsOnPrefix, Edits
  <2> DEFINE n == Len(touched[c])
             u == SubSeq(named[c], 1, n)
  <2>1. n <= Len(named[c]) /\ \A k \in 1..n : touched[c][k] = named[c][k]
    BY DEF IInv, Progress, Prefix
  <2>2. touched[c] \in Seq(Obj) /\ named[c] \in Seq(Obj \cup {Null}) /\ n \in Nat
    BY DEF IInv, Types
  <2>3. /\ u \in Seq(Obj \cup {Null}) /\ Len(u) = n
        /\ \A k \in 1..n : u[k] = named[c][k]
    BY <2>1, <2>2
  <2>4. touched[c] = [k \in 1..n |-> touched[c][k]]
    BY <2>2
  <2> HIDE DEF u
  <2>5. u = [k \in 1..n |-> u[k]]
    BY <2>3
  <2>6. touched[c] = u
    BY <2>1, <2>3, <2>4, <2>5
  <2> QED
    BY <2>6 DEF u
<1> QED
  BY <1>1, ProgressMade, PTL

-----------------------------------------------------------------------------
(***************************************************************************)
(* Insertions.                                                             *)
(***************************************************************************)
(* No file has a block in the last slot, which index 0 leads to.           *)
EndFree == \A f \in File : hasFile(f) => colls[files[f]][SizeMax] = Null

(* Inserting a block leaves those of smaller indices where they are, as    *)
(* long as none wraps from the last slot to the first.                     *)
LEMMA InsertBelow ==
  ASSUME NEW e \in [Index -> Obj \cup {Null}], e[SizeMax] = Null, NEW o,
         NEW a \in Index, NEW b \in Index, 0 < a, a < b
  PROVE  InsertEntry(e, CollIdx(b), o)[CollIdx(a)] = e[CollIdx(a)]
<1>1. CollIdx(a) \in Index /\ CollIdx(b) \in Index
  BY CollIdxType
<1>2. CollIdx(a) < CollIdx(b)
  BY SizeAssumption DEF CollIdx, Index
<1> QED
  BY <1>1, <1>2 DEF InsertEntry, Index

LEMMA InsertFrame ==
  ASSUME NEW d \in Client, InsertProgress(d), req'[d] = req[d], touched'[d] = touched[d],
         calm'[d] => calm[d] /\ files' = files /\ colls' = colls
  PROVE  InsertProgress(d)'
BY DEF InsertProgress, Landed, Entry

(* An inserting call puts its block at its index and leaves those that the *)
(* request has inserted before where they are.                             *)
LEMMA CallLands ==
  ASSUME Order = "safe", Types, EndFree, NEW c \in Client, InsertProgress(c), calm[c],
         NEW o \in Obj, CallOn(c, o), req[c].op = "Insert"
  PROVE  Landed(c)'
<1> DEFINE r == req[c]
           n == Len(touched[c])
           f == r.file
           s == r.blockIndices
           e == colls[files[f]]
           i == CollIdx(s[n + 1])
<1>1. /\ r.pc = "call" /\ hasFile(f) /\ Advance(c, o) /\ files' = files
      /\ r.op = "Insert"
  BY DEF CallOn
<1>2. /\ Shape(c) /\ r.pc \in Running
      /\ n \in Nat /\ n + 1 \in 1..Len(s)
      /\ Current(c) \in Index /\ Current(c) = s[n + 1]
      /\ f \in File
  BY <1>1, CurrentType DEF Types, Running
<1>3. s \in Seq(Index) /\ Listed("Insert", s)
  BY <1>1, <1>2 DEF Shape
<1>4. /\ req'[c].file = f /\ req'[c].blockIndices = s
      /\ Len(touched'[c]) = n + 1
      /\ \A k \in 1..(n + 1) : touched'[c][k] = IF k = n + 1 THEN o ELSE touched[c][k]
  BY <1>1, AdvanceIs
<1>5. files[f] \in Coll /\ e \in [Index -> Obj \cup {Null}] /\ e[SizeMax] = Null
  BY <1>1, <1>2 DEF Types, TypeOK, hasFile, EndFree
<1>6. colls' = [colls EXCEPT ![files[f]] = InsertEntry(e, i, o)]
  BY <1>1, <1>2 DEF CallOn
<1>7. colls'[files'[f]] = InsertEntry(e, i, o)
  BY <1>1, <1>5, <1>6 DEF Types, TypeOK
<1>8. Landed(c)
  BY <1>1, <1>2 DEF InsertProgress
<1>9. \A k \in 1..n : e[CollIdx(s[k])] = touched[c][k]
  BY <1>8 DEF Landed, Entry
<1>10. /\ \A k \in 1..(n + 1) : s[k] \in Index /\ s[k] > 0
       /\ \A k \in 1..n : s[k] < s[n + 1]
  <2>1. Ascending(s) /\ \A k \in DOMAIN s : s[k] > 0
    BY <1>3, SafeOrder
  <2>2. \A k \in 1..(n + 1) : k \in 1..Len(s)
    BY <1>2, <1>3
  <2>3. DOMAIN s = 1..Len(s)
    BY <1>3
  <2> HIDE DEF n, s
  <2>4. \A k \in 1..n : k \in 1..(n + 1) /\ k < n + 1
    BY <1>2
  <2>5. \A k \in 1..n : s[k] < s[n + 1]
    BY <1>2, <2>1, <2>2, <2>3, <2>4 DEF Ascending
  <2> QED
    BY <1>3, <2>1, <2>2, <2>3, <2>5
<1> HIDE DEF r, n, f, s, e
<1>11. ASSUME NEW k \in 1..(n + 1)
       PROVE  colls'[files'[f]][CollIdx(s[k])] = touched'[c][k]
  <2>1. CASE k = n + 1
    <3>1. i \in Index
      BY <1>10, <2>1, CollIdxType
    <3>2. InsertEntry(e, i, o)[i] = o
      BY <3>1 DEF InsertEntry
    <3> QED
      BY <1>4, <1>7, <2>1, <3>2
  <2>2. CASE k # n + 1
    <3>1. k \in 1..n /\ n + 1 \in 1..(n + 1)
      BY <1>2, <2>2
    <3>2. InsertEntry(e, i, o)[CollIdx(s[k])] = e[CollIdx(s[k])]
      BY <1>5, <1>10, <3>1, InsertBelow
    <3> QED
      BY <1>4, <1>7, <1>9, <2>2, <3>1, <3>2
  <2> QED
    BY <2>1, <2>2
<1> QED
  BY <1>4, <1>11 DEF Landed, Entry

(* The invariant for insertions.                                           *)
JInv == Order = "safe" /\ Types /\ \A c \in Client : InsertProgress(c)

LEMMA InsertStep == JInv /\ EndFree /\ [MNext]_mvars => JInv'
<1> SUFFICES ASSUME JInv, EndFree, [MNext]_mvars PROVE JInv'
  OBVIOUS
<1>0. Order = "safe" /\ Types /\ Types' /\ \A d \in Client : InsertProgress(d)
  BY TypesStep DEF JInv
<1>a. ASSUME NEW c \in Client, Others(c), InsertProgress(c)',
             \A d \in Client \ {c} :
                calm'[d] => calm[d] /\ files' = files /\ colls' = colls
      PROVE  JInv'
  <2> SUFFICES ASSUME NEW d \in Client PROVE InsertProgress(d)'
    BY <1>0 DEF JInv
  <2>1. CASE d = c
    BY <1>a, <2>1
  <2>2. CASE d # c
    <3>1. req'[d] = req[d] /\ touched'[d] = touched[d]
      BY <1>a, <2>2 DEF Others
    <3>2. calm'[d] => calm[d] /\ files' = files /\ colls' = colls
      BY <1>a, <2>2
    <3> QED
      BY <1>0, <3>1, <3>2, InsertFrame
  <2> QED
    BY <2>1, <2>2
<1>1. CASE UNCHANGED mvars
  <2>1. /\ req' = req /\ touched' = touched /\ calm' = calm
        /\ files' = files /\ colls' = colls
    BY <1>1 DEF mvars, vars
  <2>2. \A d \in Client : InsertProgress(d)'
    BY <1>0, <2>1, InsertFrame
  <2> QED
    BY <1>0, <2>2 DEF JInv
<1>2. CASE Manage
  <2>1. /\ req' = req /\ touched' = touched
        /\ \A d \in Client : ~calm'[d]
    BY <1>2 DEF Manage
  <2>2. \A d \in Client : InsertProgress(d)'
    BY <1>0, <2>1, InsertFrame
  <2> QED
    BY <1>0, <2>2 DEF JInv
<1>3. ASSUME NEW c \in Client, NEW f \in File, NEW op \in OpType,
             NEW s \in IndexLists(c), Start(c, f, op, s)
      PROVE  JInv'
  <2>1. Started(c, f, op, s)
    BY <1>0, <1>3, StartIs
  <2>2. Others(c) /\ files' = files /\ colls' = colls /\ calm' = [calm EXCEPT ![c] = TRUE]
        /\ touched'[c] = << >>
    BY <2>1 DEF Started, vars
  <2>3. \A d \in Client \ {c} : calm'[d] = calm[d]
    BY <1>0, <2>2 DEF Types
  <2>4. InsertProgress(c)'
    BY <2>2 DEF InsertProgress, Landed
  <2> QED
    BY <2>2, <2>3, <2>4, <1>a
<1>4. ASSUME NEW c \in Client, NEW f \in File, NEW op \in OpType,
             NEW s \in IndexLists(c), Refuse(c, f, op, s)
      PROVE  JInv'
  <2>1. /\ UNCHANGED vars /\ calm' = calm /\ Others(c)
        /\ req'[c].pc = "failed"
    BY <1>0, <1>4, RefuseIs
  <2>2. files' = files /\ colls' = colls
    BY <2>1 DEF vars
  <2>3. InsertProgress(c)'
    BY <2>1 DEF InsertProgress, Running
  <2> QED
    BY <2>1, <2>2, <2>3, <1>a
<1>5. ASSUME NEW c \in Client, Get(c) \/ Fail(c) PROVE JInv'
  <2>1. PcMoves(c)
    BY <1>0, <1>5, PcMovesIs
  <2>2. /\ Others(c) /\ files' = files /\ colls' = colls /\ calm' = calm
        /\ touched' = touched /\ req[c].pc \in Running
        /\ req'[c].op = req[c].op /\ req'[c].file = req[c].file
        /\ req'[c].blockIndices = req[c].blockIndices
    BY <2>1 DEF PcMoves, vars
  <2>3. InsertProgress(c)'
    <3> SUFFICES ASSUME calm'[c], req'[c].op = "Insert" PROVE Landed(c)'
      BY DEF InsertProgress
    <3>1. Landed(c)
      BY <1>0, <2>2 DEF InsertProgress
    <3> QED
      BY <2>2, <3>1 DEF Landed, Entry
  <2> QED
    BY <2>2, <2>3, <1>a
<1>6. ASSUME NEW c \in Client, Call(c) PROVE JInv'
  <2>1. PICK o \in Obj : CallOn(c, o)
    BY <1>0, <1>6, CallIs
  <2>2. req[c].pc = "call" /\ Advance(c, o) /\ named' = named
    BY <2>1 DEF CallOn
  <2>3. Others(c) /\ req'[c].op = req[c].op
    BY <1>0, <2>2, AdvanceIs DEF Others
  <2>4. \A d \in Client : d # c =>
           (calm'[d] => calm[d] /\ files' = files /\ colls' = colls)
    BY <2>1 DEF CallOn, Disturb
  <2>5. calm'[c] => calm[c]
    BY <2>1 DEF CallOn, Disturb
  <2>6. InsertProgress(c)'
    <3> SUFFICES ASSUME calm'[c], req'[c].op = "Insert" PROVE Landed(c)'
      BY DEF InsertProgress
    <3> QED
      BY <1>0, <2>1, <2>3, <2>5, CallLands
  <2> QED
    BY <2>3, <2>4, <2>6, <1>a
<1> QED
  BY <1>1, <1>2, <1>3, <1>4, <1>5, <1>6 DEF MNext

LEMMA InsertInit == Order = "safe" /\ MInit => JInv
<1> SUFFICES ASSUME Order = "safe", MInit PROVE JInv
  OBVIOUS
<1>1. \A c \in Client : req[c].op = "Other"
  BY DEF MInit
<1> QED
  BY <1>1, TypesInit DEF JInv, InsertProgress

(* The step of InsertLands.                                                *)
LandsAction == \A c \in Client :
   req[c].pc \in Running /\ req'[c].pc = "ok" /\ req[c].op = "Insert" /\ calm[c] =>
     \A k \in DOMAIN touched'[c] :
        colls'[files'[req[c].file]][CollIdx(req[c].blockIndices[k])] = touched'[c][k]

LEMMA InsertReturns == JInv /\ EndFree /\ [MNext]_mvars => LandsAction
<1> SUFFICES ASSUME JInv, EndFree, [MNext]_mvars, NEW c \in Client,
                    req[c].pc \in Running, req'[c].pc = "ok", req[c].op = "Insert", calm[c],
                    NEW k \in DOMAIN touched'[c]
             PROVE  colls'[files'[req[c].file]][CollIdx(req[c].blockIndices[k])]
                       = touched'[c][k]
  BY DEF LandsAction
<1>0. Order = "safe" /\ Types /\ InsertProgress(c)
  BY DEF JInv
<1>1. req'[c] # req[c]
  BY DEF Running
<1>a. ASSUME NEW d \in Client, Others(d) PROVE d = c
  BY <1>1, <1>a DEF Others
<1>2. ~(UNCHANGED mvars) /\ ~Manage
  BY <1>1 DEF mvars, Manage
<1>3. ASSUME NEW d \in Client, NEW f \in File, NEW op \in OpType,
             NEW s \in IndexLists(d), Start(d, f, op, s)
      PROVE  FALSE
  <2>1. Started(d, f, op, s)
    BY <1>0, <1>3, StartIs
  <2>2. Others(d) /\ req'[d].pc \in Running
    BY <2>1 DEF Started
  <2> QED
    BY <1>a, <2>2 DEF Running
<1>4. ASSUME NEW d \in Client, NEW f \in File, NEW op \in OpType,
             NEW s \in IndexLists(d), Refuse(d, f, op, s)
      PROVE  FALSE
  <2>1. Others(d) /\ req'[d].pc = "failed"
    BY <1>0, <1>4, RefuseIs
  <2> QED
    BY <1>a, <2>1
<1>5. ASSUME NEW d \in Client, Get(d) \/ Fail(d) PROVE FALSE
  <2>1. PcMoves(d)
    BY <1>0, <1>5, PcMovesIs
  <2> QED
    BY <1>a, <2>1 DEF PcMoves
<1>6. PICK d \in Client : Call(d)
  BY <1>2, <1>3, <1>4, <1>5 DEF MNext
<1>7. PICK o \in Obj : CallOn(d, o)
  BY <1>0, <1>6, CallIs
<1>8. req[d].pc = "call" /\ Advance(d, o) /\ named' = named
  BY <1>7 DEF CallOn
<1>9. Others(d)
  BY <1>0, <1>8, AdvanceIs DEF Others
<1>10. d = c
  BY <1>a, <1>9
<1>11. /\ req'[c].file = req[c].file /\ req'[c].blockIndices = req[c].blockIndices
       /\ touched' \in [Client -> Seq(Obj)]
  BY <1>0, <1>8, <1>10, AdvanceIs
<1>12. Landed(c)'
  BY <1>0, <1>7, <1>10, CallLands
<1>13. k \in 1..Len(touched'[c])
  BY <1>11
<1> QED
  BY <1>11, <1>12, <1>13 DEF Landed, Entry

(***************************************************************************)
(* A request of any length that inserts, in ascending order, has its new   *)
(* blocks at the indices it named when it returns, if nobody else moved    *)
(* blocks and as long as no file reaches the last slot.                    *)
(***************************************************************************)
THEOREM InsertionsLand == Order = "safe" /\ MSpec /\ []EndFree => InsertLands
<1>1. [][LandsAction]_mvars <=> InsertLands
  BY DEF LandsAction, InsertLands
<1> QED
  BY <1>1, InsertInit, InsertStep, InsertReturns, PTL DEF MSpec

-----------------------------------------------------------------------------
(***************************************************************************)
(* No file reaches the last slot when there is a slot for every call: the  *)
(* largest stored index grows by at most one with every call that returns. *)
(***************************************************************************)
(* The calls that the clients may make: the k-th index of the request that *)
(* leaves a client r - 1 requests.                                         *)
Calls == {x \in Client \X Nat \X Nat :
            x[2] \in 1..MaxRequests[x[1]] /\ x[3] \in 1..MaxIndices[x[1]]}

ToCome == {x \in Calls :
   \/ x[2] <= left[x[1]]
   \/ /\ req[x[1]].pc \in Running
      /\ x[2] = left[x[1]] + 1
      /\ x[3] > Len(touched[x[1]])}

Made == Calls \ ToCome

(* There is a slot for every block and for every call.                     *)
EnoughSlots == IsFiniteSet(Calls) /\ MaxBlocks + Cardinality(Calls) <= SizeMax

(* A request that runs is one of those that its client may make.           *)
Counted(c) == req[c].pc \in Running =>
   /\ left[c] < MaxRequests[c]
   /\ Len(req[c].blockIndices) <= MaxIndices[c]
   /\ \A k \in 1..Len(req[c].blockIndices) : req[c].blockIndices[k] <= MaxBlocks + 1

BelowInv(n) == \A f \in File : hasFile(f) => \A i \in Index :
   colls[files[f]][i] # Null => i < MaxBlocks + n

CountInv == /\ EnoughSlots /\ Order = "safe" /\ Types
            /\ \A c \in Client : Counted(c)
            /\ BelowInv(Cardinality(Made))

LEMMA CallsPoints ==
  /\ \A c \in Client : \A r \in 1..MaxRequests[c], k \in 1..MaxIndices[c] :
        <<c, r, k>> \in Calls
  /\ \A x \in Calls : \E c \in Client :
        \E r \in 1..MaxRequests[c], k \in 1..MaxIndices[c] : x = <<c, r, k>>
<1>1. \A c \in Client : MaxRequests[c] \in Nat /\ MaxIndices[c] \in Nat
  BY ClientsAssumption
<1>2. ASSUME NEW c \in Client, NEW r \in 1..MaxRequests[c], NEW k \in 1..MaxIndices[c]
      PROVE  <<c, r, k>> \in Calls
  <2>1. r \in Nat /\ k \in Nat
    BY <1>1
  <2> QED
    BY <2>1 DEF Calls
<1> QED
  BY <1>2 DEF Calls

(* How many calls have been made only grows, and never beyond the bound.   *)
LEMMA MadeCounts ==
  ASSUME EnoughSlots
  PROVE  /\ IsFiniteSet(Made) /\ Cardinality(Made) \in Nat
         /\ MaxBlocks + Cardinality(Made) <= SizeMax
<1>1. Made \in SUBSET Calls
  BY DEF Made
<1>2. IsFiniteSet(Made) /\ Cardinality(Made) <= Cardinality(Calls)
  BY <1>1, FS_Subset DEF EnoughSlots
<1>3. Cardinality(Made) \in Nat /\ Cardinality(Calls) \in Nat
  BY <1>2, FS_CardinalityType DEF EnoughSlots
<1> QED
  BY <1>2, <1>3, SizeAssumption DEF EnoughSlots

LEMMA MadeGrows ==
  ASSUME EnoughSlots, ToCome' \subseteq ToCome
  PROVE  /\ Cardinality(Made) <= Cardinality(Made')
         /\ \A x \in ToCome \ ToCome' : Cardinality(Made) + 1 <= Cardinality(Made')
<1>1. Made \subseteq Made' /\ IsFiniteSet(Made) /\ IsFiniteSet(Made')
  <2>1. Made \in SUBSET Calls /\ Made' \in SUBSET Calls /\ Made \subseteq Made'
    BY DEF Made, Calls
  <2> QED
    BY <2>1, FS_Subset DEF EnoughSlots
<1>2. Cardinality(Made) <= Cardinality(Made')
  BY <1>1, FS_Subset
<1>3. ASSUME NEW x \in ToCome \ ToCome'
      PROVE  Cardinality(Made) + 1 <= Cardinality(Made')
  <2>1. x \notin Made /\ Made \cup {x} \subseteq Made'
    BY <1>1, <1>3 DEF Made, ToCome
  <2>2. Cardinality(Made \cup {x}) = Cardinality(Made) + 1
    BY <1>1, <2>1, FS_AddElement
  <2>3. Cardinality(Made \cup {x}) <= Cardinality(Made')
    BY <1>1, <2>1, FS_Subset
  <2> QED
    BY <2>2, <2>3
<1> QED
  BY <1>2, <1>3

(* Calls are not taken back.                                               *)
LEMMA ToComeFrom ==
  ASSUME NEW c \in Client, Types, Types',
         \A d \in Client \ {c} : req'[d] = req[d] /\ touched'[d] = touched[d]
                                  /\ left'[d] = left[d],
         \/ left'[c] = left[c] - 1
         \/ /\ left'[c] = left[c]
            /\ req'[c].pc \in Running => req[c].pc \in Running
            /\ Len(touched'[c]) >= Len(touched[c])
  PROVE  ToCome' \subseteq ToCome
<1> SUFFICES ASSUME NEW d \in Client, NEW r \in 1..MaxRequests[d],
                    NEW k \in 1..MaxIndices[d],
                    \/ r <= left'[d]
                    \/ req'[d].pc \in Running /\ r = left'[d] + 1 /\ k > Len(touched'[d])
             PROVE  \/ r <= left[d]
                    \/ req[d].pc \in Running /\ r = left[d] + 1 /\ k > Len(touched[d])
  BY CallsPoints DEF ToCome
<1>1. /\ left[d] \in Nat /\ left'[d] \in Nat /\ r \in Int /\ k \in Int
      /\ Len(touched[d]) \in Nat /\ Len(touched'[d]) \in Nat
  <2>1. left[d] \in Nat /\ left'[d] \in Nat
    BY DEF Types
  <2>2. touched[d] \in Seq(Obj) /\ touched'[d] \in Seq(Obj)
    BY DEF Types
  <2>3. r \in Int /\ k \in Int
    BY ClientsAssumption
  <2> QED
    BY <2>1, <2>2, <2>3
<1>2. CASE d = c
  BY <1>1, <1>2
<1>3. CASE d # c
  BY <1>1, <1>3
<1> QED
  BY <1>2, <1>3

(* Steps that leave the store alone.                                       *)
LEMMA BelowFrame ==
  ASSUME EnoughSlots, BelowInv(Cardinality(Made)), ToCome' \subseteq ToCome,
         files' = files, colls' = colls
  PROVE  BelowInv(Cardinality(Made))'
<1>1. /\ Cardinality(Made) \in Nat /\ Cardinality(Made') \in Nat
      /\ Cardinality(Made) <= Cardinality(Made')
  <2>1. Made' \in SUBSET Calls
    BY DEF Made, Calls
  <2>2. IsFiniteSet(Made')
    BY <2>1, FS_Subset DEF EnoughSlots
  <2> QED
    BY <2>2, MadeCounts, MadeGrows, FS_CardinalityType
<1>2. MaxBlocks \in Nat
  BY SizeAssumption
<1> SUFFICES ASSUME NEW f \in File, hasFile(f), NEW i \in Index, colls[files[f]][i] # Null
             PROVE  i < MaxBlocks + Cardinality(Made')
  BY DEF BelowInv, hasFile
<1>3. i < MaxBlocks + Cardinality(Made)
  BY DEF BelowInv
<1>4. i \in Int
  BY DEF Index
<1> QED
  BY <1>1, <1>2, <1>3, <1>4

(* A new file has its blocks below the bound.                              *)
LEMMA BelowManage ==
  ASSUME Types, NEW n \in Nat, BelowInv(n), Manage
  PROVE  \A f \in File : hasFile(f)' => \A i \in Index :
            colls'[files'[f]][i] # Null => i < MaxBlocks + n
<1> SUFFICES ASSUME NEW g \in File, hasFile(g)', NEW i \in Index,
                    colls'[files'[g]][i] # Null
             PROVE  i < MaxBlocks + n
  OBVIOUS
<1>1. TypeOK /\ MaxBlocks \in Nat
  BY SizeAssumption DEF Types
<1>2. ASSUME NEW f \in File, RemoveFile(f)
      PROVE  hasFile(g) /\ colls[files[g]][i] # Null
  <2>1. files'[g] = files[g] /\ files[g] # Null /\ files[g] \in Coll
    BY <1>1, <1>2 DEF RemoveFile, TypeOK, hasFile
  <2>2. colls'[files[g]] = colls[files[g]] \/ colls'[files[g]] = Empty
    BY <1>1, <1>2, <2>1 DEF RemoveFile, TypeOK
  <2> QED
    BY <2>1, <2>2 DEF Empty, hasFile
<1>3. ASSUME NEW f \in File, NEW m \in 1..MaxBlocks, AddFile(f, m)
      PROVE  i < MaxBlocks \/ (hasFile(g) /\ colls[files[g]][i] # Null)
  <2>1. PICK c \in FreshColl, os \in Injection(0..(m - 1), FreshObj) :
               \E ms \in [Range(os) -> FreshMeta] : Attach(f, c, os, ms)
    BY <1>3 DEF AddFile, AttachNew
  <2>2. /\ files' = [files EXCEPT ![f] = c]
        /\ colls' = [d \in Coll |-> IF d = c THEN [j \in Index |->
                          IF j \in DOMAIN os THEN os[j] ELSE Null]
                        ELSE IF d = files[f] THEN Empty ELSE colls[d]]
    BY <2>1 DEF Attach
  <2>3. c \in Coll /\ c \notin Attached /\ DOMAIN os = 0..(m - 1)
    BY <2>1 DEF FreshColl, Injection
  <2>4. CASE g = f
    <3>1. files'[g] = c
      BY <1>1, <2>2, <2>4 DEF TypeOK
    <3>2. colls'[c][i] = IF i \in 0..(m - 1) THEN os[i] ELSE Null
      BY <2>2, <2>3
    <3>3. i \in 0..(m - 1)
      BY <3>1, <3>2
    <3> QED
      BY <1>1, <3>3
  <2>5. CASE g # f
    <3>1. files'[g] = files[g] /\ files[g] # Null /\ files[g] \in Coll
      BY <1>1, <2>2, <2>5 DEF TypeOK, hasFile
    <3>2. files[g] # c
      BY <2>3, <3>1 DEF Attached
    <3>3. colls'[files[g]] = colls[files[g]] \/ colls'[files[g]] = Empty
      BY <2>2, <3>1, <3>2
    <3> QED
      BY <3>1, <3>3 DEF Empty, hasFile
  <2> QED
    BY <2>4, <2>5
<1>4. i < MaxBlocks \/ (hasFile(g) /\ colls[files[g]][i] # Null)
  BY <1>2, <1>3 DEF Manage
<1>5. i < MaxBlocks \/ i < MaxBlocks + n
  BY <1>4 DEF BelowInv
<1>6. i \in Int
  BY DEF Index
<1> QED
  BY <1>1, <1>5, <1>6

(* A call moves blocks up by one at most.                                  *)
LEMMA BelowCall ==
  ASSUME Order = "safe", Types, NEW n \in Nat, BelowInv(n), NEW c \in Client, Counted(c),
         NEW o \in Obj, CallOn(c, o)
  PROVE  \A g \in File : hasFile(g)' => \A j \in Index :
            colls'[files'[g]][j] # Null => j < MaxBlocks + (n + 1)
<1> SUFFICES ASSUME NEW g \in File, hasFile(g)', NEW j \in Index,
                    colls'[files'[g]][j] # Null
             PROVE  j < MaxBlocks + (n + 1)
  OBVIOUS
<1> DEFINE f == req[c].file
           b == Current(c)
           e == colls[files[f]]
           i == CollIdx(b)
<1>1. /\ TypeOK /\ MaxBlocks \in Nat /\ j \in Int /\ SizeMax \in Nat
  BY SizeAssumption DEF Types, Index
<1>2. /\ hasFile(f) /\ req[c].pc = "call" /\ files' = files
      /\ req[c].op \in {"Update", "Insert", "Delete"}
  BY DEF CallOn
<1>3. /\ Shape(c) /\ req[c].pc \in Running /\ f \in File /\ b \in Index
      /\ Len(touched[c]) + 1 \in 1..Len(req[c].blockIndices)
      /\ b = req[c].blockIndices[Len(touched[c]) + 1]
  BY <1>2, CurrentType DEF Types, Running
<1>4. b <= MaxBlocks + 1
  BY <1>3 DEF Counted
<1>5. files[f] \in Coll /\ e \in [Index -> Obj \cup {Null}] /\ i \in Index
  BY <1>1, <1>2, <1>3, CollIdxType DEF TypeOK, hasFile
<1>6. files'[g] = files[g] /\ hasFile(g) /\ files[g] \in Coll
  BY <1>1, <1>2 DEF TypeOK, hasFile
<1>7. \A k \in Index : colls[files[g]][k] # Null => k < MaxBlocks + n
  BY <1>6 DEF BelowInv
<1>8. \A k \in Index : e[k] # Null => k < MaxBlocks + n
  BY <1>2, <1>3 DEF BelowInv
<1>9. CASE colls'[files[g]] = colls[files[g]]
  BY <1>1, <1>6, <1>7, <1>9
<1>10. CASE req[c].op = "Insert" /\ colls'[files[g]] # colls[files[g]]
  <2>1. colls' = [colls EXCEPT ![files[f]] = InsertEntry(e, i, o)]
    BY <1>10 DEF CallOn
  <2>2. colls'[files[g]] = InsertEntry(e, i, o)
    BY <1>1, <1>5, <1>6, <1>10, <2>1 DEF TypeOK
  <2>3. b > 0
    <3>1. Listed("Insert", req[c].blockIndices)
      BY <1>3, <1>10 DEF Shape
    <3>2. \A k \in DOMAIN req[c].blockIndices : req[c].blockIndices[k] > 0
      BY <3>1, SafeOrder
    <3>3. DOMAIN req[c].blockIndices = 1..Len(req[c].blockIndices)
      BY <1>3 DEF Shape
    <3> QED
      BY <1>3, <3>2, <3>3
  <2>4. i <= MaxBlocks
    BY <1>1, <1>3, <1>4, <2>3 DEF CollIdx, Index
  <2>5. InsertEntry(e, i, o)[j] # Null
    BY <1>6, <2>2
  <2>6. \/ j = i
        \/ j > i /\ e[j - 1] # Null
        \/ j = 0
        \/ e[j] # Null
    BY <2>5 DEF InsertEntry
  <2>7. i \in Int /\ i >= 0
    BY <1>5 DEF Index
  <2>8. j > i => j - 1 \in Index
    BY <1>1, <2>7 DEF Index
  <2> HIDE DEF e, i
  <2> QED
    BY <1>1, <1>8, <2>4, <2>6, <2>7, <2>8
<1>11. CASE req[c].op = "Delete" /\ colls'[files[g]] # colls[files[g]]
  <2>1. colls' = [colls EXCEPT ![files[f]] = DeleteEntry(e, i)]
    BY <1>11 DEF CallOn
  <2>2. colls'[files[g]] = DeleteEntry(e, i)
    BY <1>1, <1>5, <1>6, <1>11, <2>1 DEF TypeOK
  <2>3. DeleteEntry(e, i)[j] # Null
    BY <1>6, <2>2
  <2>4. e[j] # Null \/ (j < SizeMax /\ e[j + 1] # Null)
    BY <2>3 DEF DeleteEntry
  <2>5. j < SizeMax => j + 1 \in Index
    BY <1>1 DEF Index
  <2> HIDE DEF e, i
  <2> QED
    BY <1>1, <1>8, <2>4, <2>5
<1>12. CASE req[c].op = "Update"
  <2>1. colls' = colls
    BY <1>12 DEF CallOn
  <2> QED
    BY <1>9, <2>1
<1> QED
  BY <1>2, <1>9, <1>10, <1>11, <1>12

LEMMA CountFrame ==
  ASSUME NEW d \in Client, Counted(d), req'[d] = req[d], left'[d] = left[d]
  PROVE  Counted(d)'
BY DEF Counted

LEMMA CountStep == CountInv /\ [MNext]_mvars => CountInv'
<1> SUFFICES ASSUME CountInv, [MNext]_mvars PROVE CountInv'
  OBVIOUS
<1> DEFINE n == Cardinality(Made)
<1>0. /\ EnoughSlots /\ EnoughSlots' /\ Order = "safe" /\ Types /\ Types'
      /\ BelowInv(n) /\ n \in Nat
      /\ \A d \in Client : Counted(d)
  BY TypesStep, MadeCounts DEF CountInv, EnoughSlots, Calls
<1> HIDE DEF n
<1>a. ASSUME NEW c \in Client, Others(c), Counted(c)', ToCome' \subseteq ToCome,
             \A d \in Client \ {c} : left'[d] = left[d], files' = files, colls' = colls
      PROVE  CountInv'
  <2>1. \A d \in Client \ {c} : req'[d] = req[d]
    BY <1>a DEF Others
  <2>2. \A d \in Client : Counted(d)'
    BY <1>0, <1>a, <2>1, CountFrame
  <2>3. BelowInv(Cardinality(Made))'
    BY <1>0, <1>a, BelowFrame DEF n
  <2> QED
    BY <1>0, <2>2, <2>3 DEF CountInv
<1>1. CASE UNCHANGED mvars
  <2>1. /\ req' = req /\ touched' = touched /\ left' = left
        /\ files' = files /\ colls' = colls
    BY <1>1 DEF mvars, vars
  <2>2. ToCome' \subseteq ToCome
    BY <2>1 DEF ToCome, Calls
  <2>3. \A d \in Client : Counted(d)'
    BY <1>0, <2>1, CountFrame
  <2>4. BelowInv(Cardinality(Made))'
    BY <1>0, <2>1, <2>2, BelowFrame DEF n
  <2> QED
    BY <1>0, <2>3, <2>4 DEF CountInv
<1>2. CASE Manage
  <2>1. /\ req' = req /\ touched' = touched /\ left' = left
    BY <1>2 DEF Manage
  <2>2. Cardinality(Made') = n
    BY <2>1 DEF Made, ToCome, Calls, n
  <2>3. \A d \in Client : Counted(d)'
    BY <1>0, <2>1, CountFrame
  <2>4. \A f \in File : hasFile(f)' => \A i \in Index :
           colls'[files'[f]][i] # Null => i < MaxBlocks + n
    BY <1>0, <1>2, BelowManage
  <2>5. BelowInv(Cardinality(Made))'
    BY <2>2, <2>4 DEF BelowInv
  <2> QED
    BY <1>0, <2>3, <2>5 DEF CountInv
<1>3. ASSUME NEW c \in Client, NEW f \in File, NEW op \in OpType,
             NEW s \in IndexLists(c), Start(c, f, op, s)
      PROVE  CountInv'
  <2>1. Started(c, f, op, s)
    BY <1>0, <1>3, StartIs
  <2>2. /\ Others(c) /\ files' = files /\ colls' = colls
        /\ req'[c].blockIndices = s
        /\ left' = [left EXCEPT ![c] = @ - 1] /\ left[c] > 0
    BY <2>1 DEF Started, vars
  <2>3. left \in [Client -> Nat] /\ left[c] <= MaxRequests[c] /\ MaxRequests[c] \in Nat
    BY <1>0, ClientsAssumption DEF Types
  <2>4. left'[c] = left[c] - 1 /\ \A d \in Client \ {c} : left'[d] = left[d]
    BY <2>2, <2>3
  <2>5. ToCome' \subseteq ToCome
    <3>1. \A d \in Client \ {c} : req'[d] = req[d] /\ touched'[d] = touched[d]
                                   /\ left'[d] = left[d]
      BY <2>2, <2>4 DEF Others
    <3> QED
      BY <1>0, <2>4, <3>1, ToComeFrom
  <2>6. left'[c] < MaxRequests[c]
    BY <2>2, <2>3, <2>4
  <2>7. Len(s) <= MaxIndices[c] /\ \A k \in 1..Len(s) : s[k] <= MaxBlocks + 1
    <3>1. PICK m \in 0..MaxIndices[c] : s \in [1..m -> 0..(MaxBlocks + 1)]
      BY DEF IndexLists
    <3>2. m \in Nat /\ m <= MaxIndices[c] /\ MaxBlocks \in Nat
      BY ClientsAssumption, SizeAssumption
    <3>3. Len(s) = m /\ \A k \in 1..m : s[k] \in 0..(MaxBlocks + 1)
      BY <3>1, <3>2
    <3> QED
      BY <3>2, <3>3
  <2>8. Counted(c)'
    BY <2>2, <2>6, <2>7 DEF Counted
  <2> QED
    BY <2>2, <2>4, <2>5, <2>8, <1>a
<1>4. ASSUME NEW c \in Client, NEW f \in File, NEW op \in OpType,
             NEW s \in IndexLists(c), Refuse(c, f, op, s)
      PROVE  CountInv'
  <2>1. /\ UNCHANGED vars /\ Others(c)
        /\ req'[c].pc = "failed"
        /\ left' = [left EXCEPT ![c] = @ - 1] /\ left[c] > 0
    BY <1>0, <1>4, RefuseIs
  <2>2. files' = files /\ colls' = colls
    BY <2>1 DEF vars
  <2>3. left'[c] = left[c] - 1 /\ \A d \in Client \ {c} : left'[d] = left[d]
    BY <1>0, <2>1 DEF Types
  <2>4. ToCome' \subseteq ToCome
    <3>1. \A d \in Client \ {c} : req'[d] = req[d] /\ touched'[d] = touched[d]
                                   /\ left'[d] = left[d]
      BY <2>1, <2>3 DEF Others
    <3> QED
      BY <1>0, <2>3, <3>1, ToComeFrom
  <2>5. Counted(c)'
    BY <2>1 DEF Counted, Running
  <2> QED
    BY <2>1, <2>2, <2>3, <2>4, <2>5, <1>a
<1>5. ASSUME NEW c \in Client, Get(c) \/ Fail(c) PROVE CountInv'
  <2>1. PcMoves(c)
    BY <1>0, <1>5, PcMovesIs
  <2>2. /\ Others(c) /\ files' = files /\ colls' = colls /\ left' = left
        /\ touched' = touched /\ req[c].pc \in Running
        /\ req'[c].blockIndices = req[c].blockIndices
    BY <2>1 DEF PcMoves, vars
  <2>3. ToCome' \subseteq ToCome
    <3>1. \A d \in Client \ {c} : req'[d] = req[d] /\ touched'[d] = touched[d]
                                   /\ left'[d] = left[d]
      BY <2>2 DEF Others
    <3>2. left'[c] = left[c] /\ Len(touched'[c]) = Len(touched[c])
          /\ Len(touched[c]) \in Nat
      BY <1>0, <2>2 DEF Types
    <3>3. Len(touched'[c]) >= Len(touched[c])
      BY <3>2
    <3> QED
      BY <1>0, <2>2, <3>1, <3>2, <3>3, ToComeFrom
  <2>4. Counted(c)'
    BY <1>0, <2>2 DEF Counted
  <2> QED
    BY <2>2, <2>3, <2>4, <1>a
<1>6. ASSUME NEW c \in Client, Call(c) PROVE CountInv'
  <2>1. PICK o \in Obj : CallOn(c, o)
    BY <1>0, <1>6, CallIs
  <2>2. req[c].pc = "call" /\ Advance(c, o) /\ left' = left /\ named' = named
    BY <2>1 DEF CallOn
  <2>3. /\ req'[c].blockIndices = req[c].blockIndices
        /\ Len(touched'[c]) = Len(touched[c]) + 1
        /\ Others(c)
    BY <1>0, <2>2, AdvanceIs DEF Others
  <2>4. /\ Len(touched[c]) \in Nat /\ req[c].pc \in Running
        /\ Len(touched[c]) + 1 \in 1..Len(req[c].blockIndices)
        /\ req[c].blockIndices \in Seq(Index)
    BY <1>0, <2>2, CurrentType DEF Running, Types, Shape
  <2>5. left[c] \in Nat /\ MaxRequests[c] \in Nat /\ MaxIndices[c] \in Nat
    BY <1>0, ClientsAssumption DEF Types
  <2>6. left[c] < MaxRequests[c] /\ Len(req[c].blockIndices) <= MaxIndices[c]
    BY <1>0, <2>4 DEF Counted
  <2>7. ToCome' \subseteq ToCome
    <3>1. \A d \in Client \ {c} : req'[d] = req[d] /\ touched'[d] = touched[d]
                                   /\ left'[d] = left[d]
      BY <2>2, <2>3 DEF Others
    <3>2. left'[c] = left[c] /\ Len(touched'[c]) >= Len(touched[c])
      BY <2>2, <2>3, <2>4
    <3> QED
      BY <1>0, <2>4, <3>1, <3>2, ToComeFrom
  <2> DEFINE x == <<c, left[c] + 1, Len(touched[c]) + 1>>
  <2>8. x \in ToCome /\ x \notin ToCome'
    <3>1. left[c] + 1 \in 1..MaxRequests[c]
      BY <2>5, <2>6
    <3>2. Len(touched[c]) + 1 \in 1..MaxIndices[c]
      BY <2>4, <2>5, <2>6
    <3>3. x \in Calls
      BY <3>1, <3>2, CallsPoints
    <3>4. ~(left[c] + 1 <= left[c]) /\ ~(Len(touched[c]) + 1 > Len(touched[c]) + 1)
          /\ Len(touched[c]) + 1 > Len(touched[c])
      BY <2>4, <2>5
    <3>5. x[1] = c /\ x[2] = left[c] + 1 /\ x[3] = Len(touched[c]) + 1
      OBVIOUS
    <3> HIDE DEF x
    <3>6. x \in ToCome
      BY <2>4, <3>3, <3>4, <3>5 DEF ToCome
    <3>7. x \notin ToCome'
      BY <2>2, <2>3, <3>4, <3>5 DEF ToCome
    <3> QED
      BY <3>6, <3>7
  <2> HIDE DEF x
  <2>9. n + 1 <= Cardinality(Made')
    BY <1>0, <2>7, <2>8, MadeGrows DEF n
  <2>10. Cardinality(Made') \in Nat
    <3>1. Made' \in SUBSET Calls
      BY DEF Made, Calls
    <3> QED
      BY <1>0, <3>1, FS_Subset, FS_CardinalityType DEF EnoughSlots
  <2>11. \A g \in File : hasFile(g)' => \A j \in Index :
            colls'[files'[g]][j] # Null => j < MaxBlocks + (n + 1)
    BY <1>0, <2>1, BelowCall
  <2>12. \A g \in File : hasFile(g)' => \A j \in Index :
            colls'[files'[g]][j] # Null => j < MaxBlocks + Cardinality(Made')
    <3>1. MaxBlocks \in Nat /\ \A j \in Index : j \in Int
      BY SizeAssumption DEF Index
    <3>2. \A j \in Index : j < MaxBlocks + (n + 1) => j < MaxBlocks + Cardinality(Made')
      BY <1>0, <2>9, <2>10, <3>1
    <3> QED
      BY <2>11, <3>2
  <2>13. BelowInv(Cardinality(Made))'
    BY <2>12 DEF BelowInv
  <2>14. Counted(c)'
    BY <1>0, <2>2, <2>3, <2>4 DEF Counted
  <2>15. \A d \in Client : Counted(d)'
    <3>1. \A d \in Client \ {c} : req'[d] = req[d] /\ left'[d] = left[d]
      BY <2>2, <2>3 DEF Others
    <3> QED
      BY <1>0, <2>14, <3>1, CountFrame
  <2> QED
    BY <1>0, <2>13, <2>15 DEF CountInv
<1> QED
  BY <1>1, <1>2, <1>3, <1>4, <1>5, <1>6 DEF MNext

LEMMA CountInit == EnoughSlots /\ Order = "safe" /\ MInit => CountInv
<1> SUFFICES ASSUME EnoughSlots, Order = "safe", MInit PROVE CountInv
  OBVIOUS
<1>1. \A c \in Client : Counted(c)
  BY DEF MInit, Counted, Running
<1>2. BelowInv(Cardinality(Made))
  BY DEF MInit, Init, BelowInv, hasFile
<1> QED
  BY <1>1, <1>2, TypesInit DEF CountInv

(***************************************************************************)
(* With a slot for every block of a fresh file and for every call that the *)
(* clients may make, no file ever reaches the last slot.                   *)
(***************************************************************************)
THEOREM EndStaysFree == EnoughSlots /\ Order = "safe" /\ MSpec => []EndFree
<1>1. CountInv => EndFree
  <2> SUFFICES ASSUME CountInv, NEW f \in File, hasFile(f),
                      colls[files[f]][SizeMax] # Null
               PROVE  FALSE
    BY DEF EndFree
  <2>1. SizeMax \in Index /\ SizeMax \in Nat /\ MaxBlocks \in Nat
    BY SizeAssumption DEF Index
  <2>2. SizeMax < MaxBlocks + Cardinality(Made)
    BY <2>1 DEF CountInv, BelowInv
  <2>3. Cardinality(Made) \in Nat /\ MaxBlocks + Cardinality(Made) <= SizeMax
    BY MadeCounts DEF CountInv
  <2> QED
    BY <2>1, <2>2, <2>3
<1> QED
  BY <1>1, CountInit, CountStep, PTL DEF MSpec

(***************************************************************************)
(* Therefore insertions land wherever there is a slot for every call, as   *)
(* there is for every store that fits into memory.                         *)
(***************************************************************************)
THEOREM InsertionsAlwaysLand == EnoughSlots /\ Order = "safe" /\ MSpec => InsertLands
  BY InsertionsLand, EndStaysFree, PTL
-----------------------------------------------------------------------------
(***************************************************************************)
(* Updates take two calls.                                                 *)
(***************************************************************************)
(* A client that has looked a block up and has not been overtaken is about *)
(* to modify that block.                                                   *)
Found(c) ==
  /\ req[c].pc = "get" => req[c].op = "Update"
  /\ found[c] # Null => /\ req[c].pc = "call" /\ req[c].op = "Update"
                        /\ hasFile(req[c].file)
                        /\ Entry(req[c].file, Current(c)) = found[c]

FoundInv == \A c \in Client : Found(c)

(* A change behind a block leaves it where it is, as long as none wraps    *)
(* from the last slot to the first.                                        *)
LEMMA ChangeBehind ==
  ASSUME NEW e \in [Index -> Obj \cup {Null}], e[SizeMax] = Null, NEW o,
         NEW i \in Index, NEW j \in Index, ~(i <= j)
  PROVE  InsertEntry(e, i, o)[j] = e[j] /\ DeleteEntry(e, i)[j] = e[j]
<1>1. j < i
  BY SizeAssumption DEF Index
<1> QED
  BY <1>1, SizeAssumption DEF InsertEntry, DeleteEntry, Index

(* Another client's step that leaves the slot alone.                       *)
LEMMA FoundFrame ==
  ASSUME NEW d \in Client, Found(d), found'[d] \in {found[d], Null},
         req'[d] = req[d], touched'[d] = touched[d],
         found'[d] # Null =>
            LET f == req[d].file IN
              /\ files'[f] = files[f]
              /\ Entry(f, Current(d))' = Entry(f, Current(d))
  PROVE  Found(d)'
BY DEF Found, hasFile, Current

(* A call of c that does not overtake d leaves the block d found in place. *)
LEMMA CallLeaves ==
  ASSUME Types, NoSharing, EndFree, NEW c \in Client, NEW o \in Obj, CallOn(c, o),
         NEW d \in Client \ {c}, Found(d), found[d] # Null, ~Overtakes(c, d),
         req'[d] = req[d], touched'[d] = touched[d]
  PROVE  LET f == req[d].file IN
           /\ files'[f] = files[f]
           /\ Entry(f, Current(d))' = Entry(f, Current(d))
<1> DEFINE f == req[d].file
           g == req[c].file
           i == CollIdx(Current(c))
           j == CollIdx(Current(d))
           e == colls[files[f]]
<1>1. /\ TypeOK /\ req[c].pc = "call" /\ hasFile(g) /\ files' = files
      /\ req[c].op \in {"Update", "Insert", "Delete"}
  BY DEF CallOn, Types
<1>2. /\ req[d].pc = "call" /\ hasFile(f)
  BY DEF Found
<1>3. /\ Current(c) \in Index /\ Current(d) \in Index /\ f \in File /\ g \in File
  BY <1>1, <1>2, CurrentType DEF Running
<1>4. i \in Index /\ j \in Index
  BY <1>3, CollIdxType
<1>5. /\ files[f] \in Coll /\ files[g] \in Coll
      /\ e \in [Index -> Obj \cup {Null}] /\ e[SizeMax] = Null
  BY <1>1, <1>2, <1>3 DEF TypeOK, hasFile, EndFree
<1>6. Current(d)' = Current(d)
  BY DEF Current
<1>7. colls'[files[f]][j] = e[j]
  <2>1. CASE req[c].op = "Update"
    BY <2>1 DEF CallOn
  <2>2. CASE req[c].op # "Update" /\ f # g
    <3>1. files[f] # files[g]
      BY <1>1, <1>2, <1>3, <2>2 DEF NoSharing, hasFile
    <3>2. \/ colls' = [colls EXCEPT ![files[g]] = InsertEntry(colls[files[g]], i, o)]
          \/ colls' = [colls EXCEPT ![files[g]] = DeleteEntry(colls[files[g]], i)]
      BY <1>1, <2>2 DEF CallOn
    <3> QED
      BY <1>1, <1>5, <3>1, <3>2 DEF TypeOK
  <2>3. CASE req[c].op # "Update" /\ f = g
    <3>1. ~(i <= j)
      BY <2>3 DEF Overtakes
    <3>2. InsertEntry(e, i, o)[j] = e[j] /\ DeleteEntry(e, i)[j] = e[j]
      BY <1>4, <1>5, <3>1, ChangeBehind
    <3>3. \/ colls' = [colls EXCEPT ![files[f]] = InsertEntry(e, i, o)]
          \/ colls' = [colls EXCEPT ![files[f]] = DeleteEntry(e, i)]
      BY <1>1, <2>3 DEF CallOn
    <3>4. colls'[files[f]] \in {InsertEntry(e, i, o), DeleteEntry(e, i)}
      BY <1>1, <1>5, <3>3 DEF TypeOK
    <3> QED
      BY <3>2, <3>4
  <2> QED
    BY <2>1, <2>2, <2>3
<1> QED
  BY <1>1, <1>6, <1>7 DEF Entry

LEMMA FoundStep ==
  Types /\ NoSharing /\ EndFree /\ FoundInv /\ [MNext]_mvars => FoundInv'
<1> SUFFICES ASSUME Types, NoSharing, EndFree, FoundInv, [MNext]_mvars, NEW d \in Client
             PROVE  Found(d)'
  BY DEF FoundInv
<1>0. Found(d) /\ req[d] \in Request /\ found \in [Client -> Obj \cup {Null}] /\ TypeOK
  BY DEF FoundInv, Types
<1>1. CASE UNCHANGED mvars
  <2>1. /\ found' = found /\ req' = req /\ touched' = touched
        /\ files' = files /\ colls' = colls
    BY <1>1 DEF mvars, vars
  <2> QED
    BY <1>0, <2>1, FoundFrame DEF Entry, Current
<1>2. CASE Manage
  <2>1. PICK f \in File :
          /\ (Removals /\ RemoveFile(f)) \/ \E n \in 1..MaxBlocks : AddFile(f, n)
          /\ found' = [c \in Client |-> IF req[c].file = f THEN Null ELSE found[c]]
    BY <1>2 DEF Manage
  <2>2. FileNext(f) /\ req' = req /\ touched' = touched
    BY <1>2, <2>1 DEF FileNext, Manage
  <2> DEFINE g == req[d].file
  <2>3. g \in File /\ found'[d] \in {found[d], Null} /\ (found'[d] # Null => g # f)
    BY <1>0, <2>1 DEF Request
  <2>4. ASSUME found'[d] # Null
        PROVE  files'[g] = files[g] /\ Entry(g, Current(d))' = Entry(g, Current(d))
    <3>1. hasFile(g)
      BY <1>0, <2>3, <2>4 DEF Found
    <3>2. files'[g] = files[g] /\ colls'[files[g]] = colls[files[g]]
      BY <1>0, <2>2, <2>3, <2>4, <3>1, CollFrame DEF hasFile
    <3> QED
      BY <2>2, <3>2 DEF Entry, Current
  <2> HIDE DEF g
  <2> QED
    BY <1>0, <2>2, <2>3, <2>4, FoundFrame DEF g
<1>3. ASSUME NEW c \in Client, NEW f \in File, NEW op \in OpType,
             NEW s \in IndexLists(c), Start(c, f, op, s)
      PROVE  Found(d)'
  <2>1. Started(c, f, op, s) /\ found' = found /\ req[c].pc \notin Running
    BY <1>3, StartIs DEF Start
  <2>2. /\ files' = files /\ colls' = colls /\ Others(c)
        /\ req'[c].pc = FirstPc(op) /\ req'[c].op = op
    BY <2>1 DEF Started, vars
  <2>3. CASE d = c
    <3>1. found[c] = Null
      BY <1>0, <2>1, <2>3 DEF Found, Running
    <3> QED
      BY <2>1, <2>2, <2>3, <3>1 DEF Found, FirstPc
  <2>4. CASE d # c
    <3>1. req'[d] = req[d] /\ touched'[d] = touched[d]
      BY <2>2, <2>4 DEF Others
    <3> QED
      BY <1>0, <2>1, <2>2, <3>1, FoundFrame DEF Entry, Current
  <2> QED
    BY <2>3, <2>4
<1>4. ASSUME NEW c \in Client, NEW f \in File, NEW op \in OpType,
             NEW s \in IndexLists(c), Refuse(c, f, op, s)
      PROVE  Found(d)'
  <2>1. /\ files' = files /\ colls' = colls /\ Others(c) /\ req'[c].pc = "failed"
        /\ found' = found /\ req[c].pc \notin Running
    BY <1>4, RefuseIs DEF Refuse, vars
  <2>2. CASE d = c
    <3>1. found[c] = Null
      BY <1>0, <2>1, <2>2 DEF Found, Running
    <3> QED
      BY <2>1, <2>2, <3>1 DEF Found
  <2>3. CASE d # c
    <3>1. req'[d] = req[d] /\ touched'[d] = touched[d]
      BY <2>1, <2>3 DEF Others
    <3> QED
      BY <1>0, <2>1, <3>1, FoundFrame DEF Entry, Current
  <2> QED
    BY <2>2, <2>3
<1>5. ASSUME NEW c \in Client, Get(c) \/ Fail(c)
      PROVE  Found(d)'
  <2>1. PcMoves(c)
    BY <1>5, PcMovesIs
  <2>2. /\ files' = files /\ colls' = colls /\ Others(c) /\ touched' = touched
        /\ req'[c].op = req[c].op /\ req'[c].file = req[c].file
        /\ req'[c].blockIndices = req[c].blockIndices
        /\ req'[c].pc \in {"call", "failed"}
    BY <2>1 DEF PcMoves, vars
  <2>3. CASE d # c
    <3>1. req'[d] = req[d] /\ touched'[d] = touched[d]
      BY <2>2, <2>3 DEF Others
    <3>2. found'[d] = found[d]
      BY <1>0, <1>5, <2>3 DEF Get, Fail
    <3> QED
      BY <1>0, <2>2, <3>1, <3>2, FoundFrame DEF Entry, Current
  <2>4. CASE d = c /\ found'[c] = Null
    BY <2>2, <2>4 DEF Found
  <2>5. CASE d = c /\ found'[c] # Null
    <3>1. Get(c)
      BY <1>0, <1>5, <2>5 DEF Fail
    <3>2. req[c].pc = "get" /\ req[c].op = "Update"
      BY <1>0, <2>5, <3>1 DEF Get, Found
    <3>3. hasFile(req[c].file) /\ found'[c] = Entry(req[c].file, Current(c))
      BY <1>0, <2>5, <3>1 DEF Get
    <3>4. req' = [req EXCEPT ![c].pc = "call"]
      BY <2>5, <3>1, <3>3 DEF Get
    <3>5. req'[c].pc = "call"
      BY <1>0, <2>5, <3>4 DEF Types, Request
    <3> QED
      BY <2>2, <2>5, <3>2, <3>3, <3>5 DEF Found, Entry, Current, hasFile
  <2> QED
    BY <2>3, <2>4, <2>5
<1>6. ASSUME NEW c \in Client, Call(c)
      PROVE  Found(d)'
  <2>1. PICK o \in Obj : CallOn(c, o)
    BY <1>6, CallIs
  <2>2. /\ req[c].pc = "call" /\ Advance(c, o)
        /\ found' = [a \in Client |-> IF a = c \/ Overtakes(c, a) THEN Null ELSE found[a]]
    BY <1>6, <2>1 DEF Call, CallOn
  <2>3. CASE d = c
    <3>1. found'[d] = Null
      BY <2>2, <2>3
    <3>2. req'[c].pc \in {"ok", FirstPc(req[c].op)} /\ req'[c].op = req[c].op
      BY <1>0, <2>2, <2>3, AdvanceIs DEF Advance, Types, Request
    <3> QED
      BY <2>3, <3>1, <3>2 DEF Found, FirstPc
  <2>4. CASE d # c
    <3>1. req'[d] = req[d] /\ touched'[d] = touched[d]
      BY <2>2, <2>4, AdvanceIs
    <3>2. found'[d] \in {found[d], Null} /\ (found'[d] # Null => ~Overtakes(c, d))
      BY <2>2
    <3> DEFINE f == req[d].file
    <3>3. ASSUME found'[d] # Null
          PROVE  files'[f] = files[f] /\ Entry(f, Current(d))' = Entry(f, Current(d))
      <4>1. found[d] # Null /\ ~Overtakes(c, d)
        BY <3>2, <3>3
      <4> QED
        BY <1>0, <2>1, <2>4, <3>1, <4>1, CallLeaves
    <3> HIDE DEF f
    <3> QED
      BY <1>0, <3>1, <3>2, <3>3, FoundFrame DEF f
  <2> QED
    BY <2>3, <2>4
<1> QED
  BY <1>1, <1>2, <1>3, <1>4, <1>5, <1>6 DEF MNext

LEMMA FoundInit == MInit => FoundInv
<1> SUFFICES ASSUME MInit, NEW c \in Client PROVE Found(c)
  BY DEF FoundInv
<1> QED
  BY DEF MInit, Found

(* The step of BumpsWhatItFound.                                           *)
BumpsAction ==
  \A c \in Client :
    found[c] # Null /\ req'[c] # req[c] =>
      /\ touched'[c] = Append(touched[c], found[c])
      /\ metas'[found[c]].version = metas[found[c]].version + 1

LEMMA FoundBumps == Types /\ FoundInv /\ [MNext]_mvars => BumpsAction
<1> SUFFICES ASSUME Types, FoundInv, [MNext]_mvars, NEW c \in Client,
                    found[c] # Null, req'[c] # req[c]
             PROVE  /\ touched'[c] = Append(touched[c], found[c])
                    /\ metas'[found[c]].version = metas[found[c]].version + 1
  BY DEF BumpsAction
<1>0. /\ req[c].pc = "call" /\ req[c].op = "Update" /\ hasFile(req[c].file)
      /\ Entry(req[c].file, Current(c)) = found[c]
      /\ found[c] \in Obj /\ TypeOK
  BY DEF FoundInv, Found, Types
<1>a. ASSUME NEW d \in Client, Others(d) PROVE d = c
  BY <1>a DEF Others
<1>1. ~(UNCHANGED mvars) /\ ~Manage
  BY DEF mvars, Manage
<1>2. ASSUME NEW d \in Client, NEW f \in File, NEW op \in OpType,
             NEW s \in IndexLists(d), Start(d, f, op, s) \/ Refuse(d, f, op, s)
      PROVE  FALSE
  <2>1. Others(d)
    BY <1>2, StartIs, RefuseIs DEF Started
  <2>2. req[d].pc \notin Running
    BY <1>2 DEF Start, Refuse
  <2> QED
    BY <1>0, <1>a, <2>1, <2>2 DEF Running
<1>3. ASSUME NEW d \in Client, Get(d) \/ Fail(d) PROVE FALSE
  <2>1. d = c
    BY <1>3, <1>a, PcMovesIs DEF PcMoves
  <2> QED
    BY <1>0, <1>3, <2>1 DEF Get, Fail
<1>4. PICK d \in Client : Call(d)
  BY <1>1, <1>2, <1>3 DEF MNext
<1>5. d = c
  <2>1. PICK o \in Obj : CallOn(d, o)
    BY <1>4, CallIs
  <2>2. req[d].pc = "call" /\ Advance(d, o) /\ named' = named
    BY <2>1 DEF CallOn
  <2>3. Others(d)
    BY <2>2, AdvanceIs DEF Others
  <2> QED
    BY <1>a, <2>3
<1>6. ModifyBlock(req[c].file, Current(c)) /\ Advance(c, found[c])
  BY <1>0, <1>4, <1>5 DEF Call
<1>7. touched'[c] = Append(touched[c], found[c])
  BY <1>6 DEF Advance, Types
<1>8. PICK now \in Time : metas' = [metas EXCEPT ![found[c]] =
                                      [version |-> @.version + 1, timestamp |-> now]]
  BY <1>0, <1>6 DEF ModifyBlock
<1>9. metas'[found[c]].version = metas[found[c]].version + 1
  BY <1>0, <1>8 DEF TypeOK
<1> QED
  BY <1>7, <1>9

(***************************************************************************)
(* The second call of handleUpdate bumps the object that the first one     *)
(* looked up, however many clients work on however many files and blocks   *)
(* between the two, unless one of them changed this file at or before the  *)
(* block.                                                                  *)
(***************************************************************************)
THEOREM UpdatesBumpWhatTheyFound ==
  EnoughSlots /\ Order = "safe" /\ MSpec => BumpsWhatItFound
<1>1. [][BumpsAction]_mvars <=> BumpsWhatItFound
  BY DEF BumpsAction, BumpsWhatItFound
<1>2. MSpec => []NoSharing
  BY StoreSafeUnderMaintenance
<1> QED
  BY <1>1, <1>2, FoundInit, FoundStep, FoundBumps, RequestsTyped, EndStaysFree, PTL DEF MSpec
=============================================================================
