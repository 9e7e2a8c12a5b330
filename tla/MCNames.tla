------------------------------ MODULE MCNames ------------------------------
(***************************************************************************)
(* Translation units of up to MaxDecls declarations; identifiers are       *)
(* interchangeable.                                                        *)
(***************************************************************************)
EXTENDS Names, TLC

CONSTANTS a, b

Identifiers == Permutations(Ident)
=============================================================================
