SPECIFICATION Spec
CONSTANTS
  MaxNodes = 4
  MaxDeps = 2
  MaxStarts = 1
  Workers = 2
  Var = {}
  PublishLists <- NoPublish
  ReadSets <- NoReads
INVARIANTS TypeOK UpstreamsProceeded BlockedByFailure EveryNodeSettled
PROPERTIES SettledOnce SubmittedOnce
CHECK_DEADLOCK FALSE
