SPECIFICATION Spec
CONSTANTS
  Node = {1, 2}
  Line = {"a", "b", "c"}
  Params <- AllParams
  Files <- ShortFiles
INVARIANTS TypeOK NoSilentLoss SucceededLinePresent LineOnce PositionsAgree
CHECK_DEADLOCK FALSE
