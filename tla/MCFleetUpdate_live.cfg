SPECIFICATION FairSpec
CONSTANTS
  n1 = n1
  s1 = s1
  NoNode = NoNode
  Nodes = {n1}
  Strangers = {s1}
  BufPerNode = 1
  MaxNoise = 3
  Faults = {"subscribe", "reconnect", "publish", "timeout", "hangup", "reject"}
PROPERTY HandlerReturns
PROPERTY ProcessorExits
