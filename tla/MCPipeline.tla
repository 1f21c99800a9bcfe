---------------------------- MODULE MCPipeline ----------------------------
(***************************************************************************)
(* Small instances of Pipeline for TLC.  The files are interchangeable.    *)
(***************************************************************************)
EXTENDS Pipeline, TLC

Symmetry == Permutations(File)
=============================================================================
