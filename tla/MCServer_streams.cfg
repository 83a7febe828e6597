SPECIFICATION Spec
CONSTANTS
  n1 = n1
  a = a
  b = b
  Nodes = {n1}
  Arrays <- TwoArrays
  Unreadable = Unreadable
  Nothing = Nothing
  LogCap = 1
  MaxPublished <- OneAndTwo
  MaxTrouble = 1
  Faults = {"est", "database", "broker", "listen", "query", "break", "session"}
CHECK_DEADLOCK FALSE
INVARIANT TypeOK
INVARIANT InOrder
INVARIANT StopInOrder
PROPERTY HelloSurvives
PROPERTY Settles
