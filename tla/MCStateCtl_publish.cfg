SPECIFICATION Spec
CONSTANTS
  MaxNodes = 3
  MaxDeps = 1
  MaxStarts = 2
  Workers = 2
  Var = {"x", "y"}
  PublishLists <- PublishYX
  ReadSets <- ReadX
INVARIANTS QuietAfterStart PublishedByOwner MissingVarExplained DuplicateExplained
PROPERTY ImplementsDagRun
CHECK_DEADLOCK FALSE
