CONSTANTS
  r1 = r1
  Runs = {r1}
  MaxSessions = 2
  MaxCommands = 2
  None = None

SPECIFICATION BrowserSpec

INVARIANTS
  NothingLeftBehind
  CapturesAreRead

PROPERTIES
  ClosesEnd

\* Every run gets over, and then nothing happens any more.
CHECK_DEADLOCK FALSE
