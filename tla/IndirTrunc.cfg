SPECIFICATION TruncSpec
CONSTANTS
  NDADDR = 1
  NIADDR = 2
  NINDIR = 4
  NBlocks = 4
  Targets = {1, 20}
PROPERTY PastEndReleased
