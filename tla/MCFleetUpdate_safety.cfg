SPECIFICATION Spec
CONSTANTS
  n1 = n1
  n2 = n2
  s1 = s1
  NoNode = NoNode
  Nodes = {n1, n2}
  Strangers = {s1}
  BufPerNode = 1
  MaxNoise = 1
  Faults = {"connect", "subscribe", "reconnect", "publish", "timeout", "hangup", "reject"}
SYMMETRY Symmetry
INVARIANT TypeOK
INVARIANT ApplyGate
INVARIANT NewsIsTrue
INVARIANT SuccessMeansConfirmed
PROPERTY FinalOrders
PROPERTY KeepsPromise
