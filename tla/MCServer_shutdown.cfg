SPECIFICATION Spec
CONSTANTS
  n1 = n1
  a = a
  b = b
  Nodes = {n1}
  Arrays <- TwoArrays
  Unreadable = Unreadable
  Nothing = Nothing
  LogCap = 1
  MaxPublished <- OneAndTwo
  MaxTrouble = 1
  Faults = {}
CHECK_DEADLOCK FALSE
PROPERTY ShutdownCompletes
