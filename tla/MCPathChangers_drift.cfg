SPECIFICATION Spec
CONSTANTS
  Node = {"node"}
  Content = {c1, c2, c3}
  Mode = {"0600", "0644"}
  NewMode = "0644"
  MaxDrift = 2
  MaxRuns = 2
SYMMETRY Symmetry
INVARIANTS TypeOK MismatchRestored FreshPathRemoved ForeignKept EffectConfirmed
CHECK_DEADLOCK FALSE
