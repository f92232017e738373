SPECIFICATION Spec
CONSTANTS
  Node = {"git"}
  MaxTip = 3
  MaxEdits = 1
  Faults = {FALSE}
  Params <- AllParams
PROPERTIES DirtyNeverDeleted
CHECK_DEADLOCK FALSE
