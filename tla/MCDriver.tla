------------------------------ MODULE MCDriver ------------------------------
(***************************************************************************)
(* Two paths for four options, so that some share a path, and up to three  *)
(* sources.                                                                *)
(***************************************************************************)
EXTENDS Driver, TLC

Symmetry == Permutations(Path)
=============================================================================
