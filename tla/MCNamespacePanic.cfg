SPECIFICATION Spec
CONSTANTS
  r = r
  i1 = i1
  i2 = i2
  i3 = i3
  a = a
  b = b
  t1 = t1
  t2 = t2
  None = None
  Root = r
  Inodes <- MCPair
  Names <- MCNames
  Threads <- MCThreads
  LINK_MAX = 4
  Async = FALSE
  Separate = FALSE
INVARIANT TargetUnlinked
SYMMETRY MCSymmetry
CHECK_DEADLOCK FALSE
VIEW Unwritten
CONSTRAINT OneApart
ACTION_CONSTRAINT Copied
