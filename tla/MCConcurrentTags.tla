-------------------------- MODULE MCConcurrentTags --------------------------
(***************************************************************************)
(* Small instances of ConcurrentTags for TLC.                              *)
(***************************************************************************)
EXTENDS ConcurrentTags

CONSTANTS t1, t2

(* Two threads tag disjoint windows, and one of them may add the file.     *)
Disjoint == [role |-> t1 :> "tags" @@ t2 :> "tags",
             window |-> t1 :> {1, 3} @@ t2 :> {2},
             registered |-> {}, early |-> {t1}, edits |-> {}, times |-> {0, 1}]

(* Registered blocks are tagged and challenged while blocks are edited.    *)
Edited == [role |-> t1 :> "tags" @@ t2 :> "challenge",
           window |-> t1 :> {1, 2} @@ t2 :> {2},
           registered |-> {1, 2, 3, 4}, early |-> {},
           edits |-> {"modify", "insert", "delete"}, times |-> {0}]

(* The same with a clock that moves on, and only updates, while a block is *)
(* registered.                                                             *)
Updated == [Edited EXCEPT !.edits = {"modify"}, !.registered = {1}, !.times = {0, 1},
                          !.window = t1 :> {1, 2} @@ t2 :> {1}]

(* The file is removed, added and loaded meanwhile.                        *)
Removed == [Edited EXCEPT !.edits = {"remove", "add", "load"}, !.registered = {1},
                          !.window = t1 :> {1, 2} @@ t2 :> {1},
                          !.early = {t1, t2}, !.times = {0, 1}]

Kept == {Disjoint, Edited, Updated, Removed}

(* Both threads find no file and go on to add it.                          *)
Racing == {[Disjoint EXCEPT !.early = {t1, t2}]}

(* A block is registered while another is inserted or deleted.             *)
Registering == {[Disjoint EXCEPT !.window = t1 :> {2} @@ t2 :> {},
                                 !.registered = {1}, !.early = {},
                                 !.edits = {"insert", "delete"}, !.times = {0}]}
=============================================================================
