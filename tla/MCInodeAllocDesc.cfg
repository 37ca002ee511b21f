CONSTANTS
  Threads = {t1, t2}
  NoThread = NoThread
  GroupsCount = 3
  InodesPerGroup = 2
  FirstIno = 4
  DescPerBlock = 1
  RootIno = 2
SPECIFICATION Spec
INVARIANT AllTracked
