---------------------------- MODULE MCStateStore ----------------------------
(***************************************************************************)
(* Small instances of StateStore for TLC.  Files, collections and objects  *)
(* are interchangeable model values.                                       *)
(***************************************************************************)
EXTENDS StateStore, TLC

Symmetry == Permutations(File) \cup Permutations(Coll) \cup Permutations(Obj)
=============================================================================
