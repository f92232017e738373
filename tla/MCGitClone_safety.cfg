SPECIFICATION Spec
CONSTANTS
  Node = {"git"}
  MaxTip = 3
  MaxEdits = 1
  Faults = {FALSE, TRUE}
  Params <- AllParams
INVARIANTS TypeOK SuccessIsFresh ForeignKept UncommittedKept CloneLostForCause
CHECK_DEADLOCK FALSE
