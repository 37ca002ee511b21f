CONSTANTS
  Threads = {t1, t2}
  NoThread = NoThread
  GroupsCount = 3
  InodesPerGroup = 2
  FirstIno = 4
  DescPerBlock = 2
  RootIno = 2
SPECIFICATION FairSpec
INVARIANTS TypeOK InodePartition InodeCountsExact DescriptorsTracked
PROPERTIES FullMeansFull NeverCorrupted SomeCallReturns
VIEW Unmarked
