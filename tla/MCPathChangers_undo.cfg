SPECIFICATION Spec
CONSTANTS
  Node = {"node"}
  Content = {c1, c2, c3}
  Mode = {"0600", "0644"}
  NewMode = "0644"
  MaxDrift = 0
  MaxRuns = 1
SYMMETRY Symmetry
INVARIANTS UndoRestores
CHECK_DEADLOCK FALSE
