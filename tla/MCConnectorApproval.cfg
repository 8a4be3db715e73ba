CONSTANTS
  a1 = a1
  a2 = a2
  wa1 = wa1
  web1 = web1
  NoApproval = NoApproval
  Approvals = {a1, a2}
  Deciders = {wa1, web1}
  Chat = {wa1}
  MaxCrashes = 1
SPECIFICATION FairSpec
INVARIANTS
  TriedAtMostOnce
  RowsAgree
  ResultIsTrue
PROPERTIES
  KeepsConsent
  ApprovedEnds
CHECK_DEADLOCK FALSE
