---------------------------- MODULE Maintenance ----------------------------
(***************************************************************************)
(* DHTDynamicAuditStrategy::maintenance(): requests that name a file, an   *)
(* operation and a list of block indices.  A request is a loop of calls to *)
(* the state store, one or two per index.  Each call is atomic, the loop   *)
(* is not: the calls of other clients come in between, and a call that     *)
(* throws ends the request with the earlier calls done.  The state store   *)
(* is the one of StateStore, whose actions are the calls.                  *)
(***************************************************************************)
EXTENDS StateStore

CONSTANTS Client,       \* threads that call maintenance()
          MaxIndices,   \* bound: indices in one request of each client
          MaxRequests,  \* bound: requests of each client
          Removals,     \* whether files are removed while clients are at work
          Order         \* how clients list indices: "any", or "safe", which
                        \* allows for the shifting

ASSUME ClientsAssumption == /\ MaxIndices \in [Client -> Nat]
                            /\ MaxRequests \in [Client -> Nat]
\* The indices that clients list are values of size_t.
ASSUME IndicesAssumption == MaxBlocks < SizeMax

VARIABLES req,     \* the request each client is executing
          left,    \* how many requests each client may still make
          named,   \* history: the objects at the request's indices when made
          touched, \* history: the objects its calls bumped, inserted, deleted
          calm,    \* history: nobody else has moved blocks since it was made
          found    \* history: the object that handleUpdate has looked up, until
                   \* something else happens to the file at or before its index

mvars == <<vars, req, left, named, touched, calm, found>>

(* Another value stands for an enumerator the dispatch does not know.      *)
OpType == {"Update", "Insert", "Delete", "Other"}

Running == {"get", "call"}

Request == [pc : Running \cup {"idle", "ok", "failed"},
            op : OpType, file : File, blockIndices : Seq(Nat)]

(* What a client puts into one request: indices from 0 to one past the     *)
(* blocks of a fresh file.                                                 *)
IndexLists(c) == UNION {[1..n -> 0..(MaxBlocks + 1)] : n \in 0..MaxIndices[c]}

Ascending(s)  == \A i, j \in DOMAIN s : i < j => s[i] < s[j]
Descending(s) == \A i, j \in DOMAIN s : i < j => s[i] > s[j]

Listed(op, s) == CASE Order = "any"       -> TRUE
                   [] Order = "safe"      ->
                        /\ op = "Insert" => Ascending(s) /\ \A k \in DOMAIN s : s[k] > 0
                        /\ op = "Delete" => Descending(s)

-----------------------------------------------------------------------------
(* Mutant: the list is worked through from its end.                        *)
CurrentReversed(c) == req[c].blockIndices[Len(req[c].blockIndices) - Len(touched[c])]

(* The index whose turn it is.                                             *)
Current(c) == req[c].blockIndices[Len(touched[c]) + 1]

(* handleUpdate looks a block up before it modifies it, the others do not. *)
FirstPc(op) == IF op = "Update" THEN "get" ELSE "call"

(***************************************************************************)
(* maintenance() up to the dispatch and the check of the handlers that     *)
(* there are indices.                                                      *)
(***************************************************************************)
Valid(f, op, s) == hasFile(f) /\ op # "Other" /\ s # << >>

Start(c, f, op, s) ==
  /\ req[c].pc \notin Running /\ left[c] > 0
  /\ Valid(f, op, s) /\ Listed(op, s)
  /\ left' = [left EXCEPT ![c] = @ - 1]
  /\ req' = [req EXCEPT ![c] =
               [pc |-> FirstPc(op), op |-> op, file |-> f, blockIndices |-> s]]
  /\ named' = [named EXCEPT ![c] = [k \in DOMAIN s |-> Entry(f, s[k])]]
  /\ touched' = [touched EXCEPT ![c] = << >>]
  /\ calm' = [calm EXCEPT ![c] = TRUE]
  /\ UNCHANGED <<vars, found>>

(* It throws.  What the request was does not matter any more.              *)
Refuse(c, f, op, s) ==
  /\ req[c].pc \notin Running /\ left[c] > 0
  /\ ~Valid(f, op, s)
  /\ left' = [left EXCEPT ![c] = @ - 1]
  /\ req' = [req EXCEPT ![c].pc = "failed"]
  /\ named' = [named EXCEPT ![c] = << >>]
  /\ touched' = [touched EXCEPT ![c] = << >>]
  /\ UNCHANGED <<vars, calm, found>>

(* getBlockMetadata in handleUpdate.                                       *)
Get(c) ==
  LET r == req[c] IN
  /\ r.pc = "get"
  /\ req' = [req EXCEPT ![c].pc =
               IF hasFile(r.file) /\ Entry(r.file, Current(c)) # Null
               THEN "call" ELSE "failed"]
  /\ found' = [found EXCEPT ![c] = IF hasFile(r.file) THEN Entry(r.file, Current(c))
                                   ELSE Null]
  /\ UNCHANGED <<vars, left, named, touched, calm>>

(* The call for the current index returned, having worked on object o.     *)
Advance(c, o) ==
  /\ touched' = [touched EXCEPT ![c] = Append(@, o)]
  /\ req' = [req EXCEPT ![c].pc = IF Len(touched[c]) + 1 = Len(req[c].blockIndices)
                                  THEN "ok" ELSE FirstPc(req[c].op)]

(* A client has moved blocks under the requests of the others.             *)
Disturb(c) == calm' = [d \in Client |-> calm[d] /\ d = c]

(* The insertion or deletion of c is at or before the block that d found.  *)
Overtakes(c, d) == /\ req[c].op # "Update" /\ req[c].file = req[d].file
                   /\ found[d] # Null /\ CollIdx(Current(c)) <= CollIdx(Current(d))

Call(c) ==
  LET r == req[c] IN
  /\ r.pc = "call"
  /\ \/ /\ r.op = "Update"
        /\ ModifyBlock(r.file, Current(c))
        /\ Advance(c, Entry(r.file, Current(c)))
        /\ UNCHANGED calm
     \/ /\ r.op = "Insert"
        /\ InsertBlock(r.file, Current(c))
        /\ Advance(c, colls'[files[r.file]][CollIdx(Current(c))])
        /\ Disturb(c)
     \/ /\ r.op = "Delete"
        /\ DeleteBlock(r.file, Current(c))
        /\ Advance(c, Entry(r.file, Current(c)))
        /\ Disturb(c)
  /\ found' = [d \in Client |-> IF d = c \/ Overtakes(c, d) THEN Null ELSE found[d]]
  /\ UNCHANGED <<left, named>>

(* The store throws: the file is gone, or there is no such block.          *)
Fail(c) ==
  LET r == req[c] IN
  /\ r.pc = "call"
  /\ \/ ~hasFile(r.file)
     \/ hasFile(r.file) /\ r.op # "Insert" /\ Entry(r.file, Current(c)) = Null
  /\ req' = [req EXCEPT ![c].pc = "failed"]
  /\ found' = [found EXCEPT ![c] = Null]
  /\ UNCHANGED <<vars, left, named, touched, calm>>

(* Files are registered and removed independently of maintenance.          *)
Manage == /\ \E f \in File :
               /\ \/ Removals /\ RemoveFile(f)
                  \/ \E n \in 1..MaxBlocks : AddFile(f, n)
               /\ found' = [c \in Client |-> IF req[c].file = f THEN Null ELSE found[c]]
          /\ calm' = [c \in Client |-> FALSE]
          /\ UNCHANGED <<req, left, named, touched>>

-----------------------------------------------------------------------------
MInit == /\ Init
         /\ \E f \in File : req = [c \in Client |->
              [pc |-> "idle", op |-> "Other", file |-> f, blockIndices |-> << >>]]
         /\ left = MaxRequests
         /\ named = [c \in Client |-> << >>]
         /\ touched = [c \in Client |-> << >>]
         /\ calm = [c \in Client |-> TRUE]
         /\ found = [c \in Client |-> Null]

MNext == \/ Manage
         \/ \E c \in Client :
              \/ \E f \in File, op \in OpType, s \in IndexLists(c) :
                   Start(c, f, op, s) \/ Refuse(c, f, op, s)
              \/ Get(c) \/ Call(c) \/ Fail(c)

MSpec == MInit /\ [][MNext]_mvars

-----------------------------------------------------------------------------
MTypeOK == /\ TypeOK
           /\ req \in [Client -> Request]
           /\ DOMAIN left = Client /\ \A c \in Client : left[c] \in 0..MaxRequests[c]
           /\ calm \in [Client -> BOOLEAN]
           /\ found \in [Client -> Obj \cup {Null}]
           /\ \A c \in Client : \A k \in DOMAIN named[c] : named[c][k] \in Obj \cup {Null}
           /\ \A c \in Client : \A k \in DOMAIN touched[c] : touched[c][k] \in Obj

(***************************************************************************)
(* A request does what its list says: a successful Update or Delete worked *)
(* on exactly the blocks its indices named when it was made, in spite of   *)
(* the shifting between its calls, provided that its order is safe and     *)
(* that nobody else moved blocks meanwhile.                                *)
(***************************************************************************)
DoesWhatItNames == \A c \in Client :
   req[c].pc = "ok" /\ req[c].op \in {"Update", "Delete"} /\ calm[c] =>
      touched[c] = named[c]

(***************************************************************************)
(* A successful Insert has put its new blocks at the indices it named: a   *)
(* later insertion of the request does not move an earlier one away.       *)
(***************************************************************************)
InsertLands == [][\A c \in Client :
   req[c].pc \in Running /\ req'[c].pc = "ok" /\ req[c].op = "Insert" /\ calm[c] =>
     \A k \in DOMAIN touched'[c] :
        colls'[files'[req[c].file]][CollIdx(req[c].blockIndices[k])] = touched'[c][k]]_mvars

(***************************************************************************)
(* A failed Update or Delete has worked on the first blocks of its list    *)
(* and on no other: what a caller must know to continue after a throw.     *)
(***************************************************************************)
FailsOnPrefix == \A c \in Client :
   req[c].pc = "failed" /\ req[c].op \in {"Update", "Delete"} /\ calm[c] =>
      touched[c] = SubSeq(named[c], 1, Len(touched[c]))

(***************************************************************************)
(* handleUpdate looks a block up and modifies it in two calls, whatever    *)
(* other requests do between them.  The second call returns and bumps the  *)
(* very object that the first one found, if nothing but updates and        *)
(* changes behind the block came in between: only an insertion or deletion *)
(* at or before it, or the removal of its file, makes the call throw or    *)
(* bump another block.                                                     *)
(***************************************************************************)
BumpsWhatItFound ==
  [][\A c \in Client :
       found[c] # Null /\ req'[c] # req[c] =>
         /\ touched'[c] = Append(touched[c], found[c])
         /\ metas'[found[c]].version = metas[found[c]].version + 1]_mvars
=============================================================================
