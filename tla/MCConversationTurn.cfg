CONSTANTS
  s1 = s1
  s2 = s2
  x1 = x1
  c1 = c1
  NoOne = NoOne
  Streams = {s1, s2}
  Others = {x1}
  Askers = {x1}
  Cancels = {c1}
  MaxEvents = 2
SPECIFICATION Spec
SYMMETRY TurnSymmetry
INVARIANTS
  TranscriptIsTurns
  RegistryIsTruth
  RunTellsOutcome
  ContextIsWhole
CHECK_DEADLOCK FALSE
