------------------------------ MODULE MCToken ------------------------------
(***************************************************************************)
(* Instances of TokenServer for TLC.                                       *)
(***************************************************************************)
EXTENDS TokenProperties, TLC

TagSymmetry == Permutations(Tags)
============================================================================
