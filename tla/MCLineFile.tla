----------------------------- MODULE MCLineFile -----------------------------
(***************************************************************************)
(* Instances of LineFile for TLC: every placement of the lines "a" and "b"  *)
(* in short files over three lines; anchors that match one line, two lines, *)
(* or the line that is inserted.                                            *)
(***************************************************************************)
EXTENDS LineFile

Placements ==
  [at : {"start", "end"}, matches : {{}}] \cup
  [at : {"after", "before"}, matches : {{"a"}, {"b"}, {"c"}, {"a", "b"}}]

AllParams == [line : {"a", "b"}, placement : Placements, strict : BOOLEAN]

ShortFiles == UNION {[1 .. j -> {"a", "b", "c"}] : j \in 0 .. 3}
=============================================================================
