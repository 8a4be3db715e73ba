CONSTANTS
  k1 = k1
  k2 = k2
  d1 = d1
  d2 = d2
  Nobody = Nobody
  Commands = {k1, k2}
  Docs = {d1, d2}
  MaxEvents = 3
SPECIFICATION FilesSpec
SYMMETRY CommandSymmetry
INVARIANTS
  NothingOutlives
  NothingUnseenIsLost
CHECK_DEADLOCK FALSE
