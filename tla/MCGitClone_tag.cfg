SPECIFICATION Spec
CONSTANTS
  Node = {"git"}
  MaxTip = 3
  MaxEdits = 0
  Faults = {FALSE}
  Params <- TagParams
INVARIANTS TagRecognised
CHECK_DEADLOCK FALSE
