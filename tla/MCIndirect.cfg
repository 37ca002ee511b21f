SPECIFICATION Spec
CONSTANTS
  NDADDR = 1
  NIADDR = 3
  NINDIR = 3
  NBlocks = 5
  Targets <- MCTargets
INVARIANTS TypeOK OwnedOnce BmapAgrees NeverGarbage
