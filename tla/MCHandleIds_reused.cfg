SPECIFICATION Spec
CONSTANTS
  Changer = {c1, c2, c3}
  Handle = {h1, h2}
  Addr = {1, 2, 3, 4}
  MaxDeps = 1
SYMMETRY Symmetry
INVARIANTS DependenciesResolved
CHECK_DEADLOCK FALSE
