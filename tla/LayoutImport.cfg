SPECIFICATION FairSpec
CONSTANTS
  Requests <- MCRequests
  Concurrency = 2
INVARIANTS TypeOK SlotsAreCounted AbortIsAnswered
PROPERTIES EveryImportEnds
CHECK_DEADLOCK FALSE
