----------------------------- MODULE MCHandleIds -----------------------------
(***************************************************************************)
(* Instances of HandleIds for TLC: few addresses, so that they are reused,  *)
(* and interchangeable changers.                                            *)
(***************************************************************************)
EXTENDS HandleIds, TLC

\* Changers and handles are only compared and used as keys.
Symmetry == Permutations(Changer) \cup Permutations(Handle)
=============================================================================
