SPECIFICATION Spec
CONSTANTS
  c1 = c1
  c2 = c2
  Callers = {c1, c2}
  Links = {1, 2}
  Forms <- FormsFor
  Urls <- AllUrls
  NameOf <- ShortNames
  WordOf <- ShortWords
  Slow = {c1}
  MaxRequest = 1
  MaxCalls = 3
  MaxCuts = 1
  CutChars <- WordEnds
  BufSize = 24
  MaxLate = 1
  RequestPieces = 2

PROPERTY EveryRequestReturns
CHECK_DEADLOCK FALSE
