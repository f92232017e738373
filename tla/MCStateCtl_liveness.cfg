SPECIFICATION FairSpec
CONSTANTS
  MaxNodes = 3
  MaxDeps = 1
  MaxStarts = 1
  Workers = 1
  Var = {"x"}
  PublishLists <- PublishXOnly
  ReadSets <- NoReads
PROPERTIES StartEnds SubmittedRuns ImplementsFairDagRun
CHECK_DEADLOCK FALSE
