CONSTANTS
  t1 = t1
  t2 = t2
  f1 = f1
  f2 = f2
  NoFile = NoFile
  NoThread = NoThread
  Threads = {t1, t2}
  FirstDataBlock = 1
  BlocksCount = 7
  BlocksPerGroup = 6
  GroupsCount = 1
  ByteBits = 2
  GoalAlign = 2
  PreallocGoal = 2
  Meta <- MCMeta
  Files = {f1}
  Regular = {f1}
  NDADDR = 2
  MaxSize <- MCMaxSize
  Reserved = 3
  Prefs <- MCPrefs
  Garbage <- MCGarbage
  Exclusive = TRUE
  IOFails = FALSE
SPECIFICATION Spec
SYMMETRY Perms
INVARIANT FreedAfterUpdate
