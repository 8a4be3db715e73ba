CONSTANTS
  c1 = c1
  c2 = c2
  own = own
  other = other
  NoOne = NoOne
  Convs = {c1, c2}
  Mine = own
  Others = {other}
  MaxEvents = 2
SPECIFICATION Spec
SYMMETRY Conversations
INVARIANTS
  DraftIsOfView
  StoredFilesStay
  AnswerIsShown
