CONSTANTS
  u1 = u1
  u2 = u2
  f1 = f1
  f2 = f2
  e1 = e1
  c1 = c1
  p1 = p1
  i1 = i1
  NoOne = NoOne
  Users = {u1, u2}
  Families = {f1, f2}
  Extra = {e1}
  Conversations = {c1}
  PlatformInvites = {p1}
  FamilyInvites = {i1}
SPECIFICATION Spec
SYMMETRY AccessSymmetry
INVARIANTS
  EveryFamilyIsGranted
  DoorsAgree
  PromisedReach
CHECK_DEADLOCK FALSE
