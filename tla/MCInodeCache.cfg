CONSTANTS
  t1 = t1
  t2 = t2
  t3 = t3
  o1 = o1
  o2 = o2
  o3 = o3
  None = None
  Threads = {t1, t2, t3}
  Objs = {o1, o2, o3}
SPECIFICATION Spec
SYMMETRY Perms
INVARIANTS TypeOK ReturnedIsReady SleeperKeepsInode ChainIsLive
CHECK_DEADLOCK FALSE
