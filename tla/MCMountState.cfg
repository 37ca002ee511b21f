CONSTANTS
  MaxChanges = 3
  SyncFirst = TRUE
SPECIFICATION FairSpec
INVARIANTS TypeOK CleanMeansConsistent ChangeIsTracked
PROPERTY ChangeIsWritten
