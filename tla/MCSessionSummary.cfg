CONSTANTS
  c1 = c1
  c2 = c2
  NoJob = NoJob
  Conversations = {c1, c2}
  MaxMessages <- Messages
  MaxEvents = 3
SPECIFICATION FairSpec
INVARIANT
  SummaryIsWhole
PROPERTY
  SummariesCatchUp
CHECK_DEADLOCK FALSE
