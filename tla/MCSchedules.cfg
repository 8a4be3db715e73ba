CONSTANTS
  f1 = f1
  f2 = f2
  d1 = d1
  d2 = d2
  g1 = g1
  n1 = n1
  General = General
  Other = Other
  Gone = Gone
  Nobody = Nobody
  Families = {f1, f2}
  Primary = {f1}
  Msgs = {d1, d2, g1}
  Media = {d1, d2}
  News = {n1}
  InGroup <- MCInGroup
  NumSlots = 1
  MaxConvs = 4
  MaxEvents = 5

SPECIFICATION SSpec

SYMMETRY DirectSymmetry

INVARIANTS
  RotatesOnce
  OneSessionPerMessage
  NothingLeftOpen
  SlotsAsRecorded

CHECK_DEADLOCK FALSE
