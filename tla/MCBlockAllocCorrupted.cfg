CONSTANTS
  Threads = {t1, t2}
  NoThread = NoThread
  FirstDataBlock = 1
  BlocksCount = 8
  BlocksPerGroup = 4
  GroupsCount = 2
  ByteBits = 2
  GoalAlign = 2
  PreallocGoal = 3
  Meta <- MCMeta
  Goals <- MCGoals
SPECIFICATION Spec
PROPERTY CorruptedMeansCorrupted

