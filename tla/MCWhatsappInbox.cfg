SPECIFICATION Spec
CONSTANTS
  c1 = c1
  t1 = t1
  p1 = p1
  Messages = {t1, p1}
  Conversations = {c1}
  Workers = {w1, w2}
  ConvOf <- OneConversation
  Required = {t1}
  Media = {p1}
  Scheduled = {}
  NoWorker = NoWorker
  NoMessage = NoMessage
  MaxRedeliveries = 1
  MaxCrashes = 1
SYMMETRY WorkerSymmetry
INVARIANTS
  
  AnswerIsCanonical
  TurnIsReachable
PROPERTIES
  SettledIsFinal
  ClaimsInArrivalOrder
  KeepsPromise
CHECK_DEADLOCK FALSE
