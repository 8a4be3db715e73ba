CONSTANTS
  r1 = r1
  r2 = r2
  a1 = a1
  Nothing = Nothing
  NoPart = NoPart
  Rows = {r1, r2}
  Approvals = {a1}
  RowOf <- AllAskedByFirst
  MaxTexts = 1
  MaxFiles = 1
  MaxCrashes = 1
SPECIFICATION FairSpec
INVARIANTS
  OnlyCurrentIsSending
  ResultFollowsPrompt
PROPERTIES
  InOrder
  EachGetsItsAttempt
CHECK_DEADLOCK FALSE
