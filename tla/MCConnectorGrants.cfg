CONSTANTS
  c1 = c1
  c2 = c2
  f1 = f1
  f2 = f2
  NoConn = NoConn
  Conns <- MCConns
  Calls <- MCCalls
  MaxTokens = 3
  MaxEvents = 4

SPECIFICATION Spec

SYMMETRY Symmetry

INVARIANTS
  OnlyWhatWasAsked
  KnownIsRemembered
  GrantsAreExact

CHECK_DEADLOCK FALSE
