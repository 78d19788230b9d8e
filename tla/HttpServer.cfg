SPECIFICATION Spec
CONSTANTS
  c1 = c1
  MaxSocks = 1
  Conns = {c1}
  Threads = 1
  MaxFails = 0
  MaxStarts = 1
  MaxStops = 0
  Uris <- AllUris
  Servlets = {"v1"}
  NotFound = "NotFound"
  MaxEdits = 1
  Methods <- AllMethods
  ContentLength <- NameL
  Connection <- NameN
  CloseWord <- WordC
  Script <- TwoRequests
  BufSize = 40
  MaxSends <- ThreePieces
  CutChars <- WordEnds
  MaxLate = 1
  AnswerPieces = 2
  SendRoom = 2
INVARIANTS HandledIsSent ErrorNeedsCause BodyAsSent
PROPERTY SessionEnds
CHECK_DEADLOCK FALSE
