SPECIFICATION MCSpec
CONSTANTS
  Node = {"node"}
  MaxCrashes = 1
  MaxRuns = 2
INVARIANTS HostTypeOK EffectAsReported NothingLeft UpdateReaches OthersKept FoundRestored SecondRunQuiet
CHECK_DEADLOCK FALSE
