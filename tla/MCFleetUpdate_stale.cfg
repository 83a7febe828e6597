SPECIFICATION Spec
CONSTANTS
  n1 = n1
  n2 = n2
  NoNode = NoNode
  Nodes = {n1, n2}
  Strangers = {}
  BufPerNode = 4
  MaxNoise = 0
  Faults = {"stale"}
INVARIANT ApplyGate
