--------------------------- MODULE MCMaintenance ---------------------------
(***************************************************************************)
(* Small instances of Maintenance for TLC.                                 *)
(***************************************************************************)
EXTENDS Maintenance, TLC

CONSTANTS t1, t2

(* One client makes one request, of up to two indices; another one         *)
(* interferes with two requests of one index.                              *)
Indices  == t1 :> 2 @@ t2 :> 1
Requests == t1 :> 1 @@ t2 :> 2

Symmetry == Permutations(Obj)
=============================================================================
