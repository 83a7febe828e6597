SPECIFICATION CooperativeSpec
CONSTANTS
  n1 = n1
  n2 = n2
  s1 = s1
  NoNode = NoNode
  Nodes = {n1, n2}
  Strangers = {}
  BufPerNode = 1
  MaxNoise = 4
  Faults = {"hangup", "reject"}
PROPERTY AllOrNothing
INVARIANT RollbackComplete
