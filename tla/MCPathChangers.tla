--------------------------- MODULE MCPathChangers ---------------------------
(***************************************************************************)
(* Instances of PathChangers for TLC: the contents of files are             *)
(* interchangeable.                                                         *)
(***************************************************************************)
EXTENDS PathChangers, TLC

Symmetry == Permutations(Content)
=============================================================================
