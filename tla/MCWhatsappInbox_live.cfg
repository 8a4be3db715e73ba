SPECIFICATION FairSpec
CONSTANTS
  c1 = c1  t1 = t1  p1 = p1
  Messages = {p1, s1}
  Conversations = {c1}
  Workers = {w1, w2}
  ConvOf <- OneConversation
  Required = {s1}
  Media = {p1}
  Scheduled = {s1}
  NoWorker = NoWorker
  NoMessage = NoMessage
  MaxRedeliveries = 0
  MaxCrashes = 1
PROPERTIES
  QueuedIsSettled
CHECK_DEADLOCK FALSE
