----------------------------- MODULE MCGitClone -----------------------------
(***************************************************************************)
(* Parameters of GitClone for TLC: every kind of ref, shallow or not, with  *)
(* and without update_existing.                                             *)
(***************************************************************************)
EXTENDS GitClone

RefAt(k) == [kind |-> k, commit |-> 1]

AllParams ==
  {[ref |-> RefAt(k), shallow |-> s, update |-> u] :
     k \in {"branch", "tag", "annotated", "commit"}, s \in BOOLEAN, u \in BOOLEAN}

TagParams == {p \in AllParams : p.ref.kind \in {"tag", "annotated"}}
=============================================================================
