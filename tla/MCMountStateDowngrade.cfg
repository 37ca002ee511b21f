CONSTANTS
  MaxChanges = 2
  SyncFirst = FALSE
SPECIFICATION Spec
INVARIANT CleanMeansConsistent
