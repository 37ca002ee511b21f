CONSTANTS
  MaxChanges = 2
  SyncFirst = TRUE
SPECIFICATION ReloadSpec
PROPERTY ReloadLosesNothing
