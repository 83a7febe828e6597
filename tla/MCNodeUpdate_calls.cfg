SPECIFICATION Spec
CONSTANTS
  n1 = n1
  u1 = u1
  u2 = u2
  c1 = c1
  Null = Null
  Updates = {u1}
  Certs = {c1}
  NodeOf <- OneNode
  Scripts <- Lives
  MaxDrops = 1
  Faults = {"connect", "subscribe", "publish", "hangup"}
CHECK_DEADLOCK FALSE
INVARIANT TypeOK
INVARIANT ToldFollowsSeen
INVARIANT AppliedIsReported
INVARIANT IdleIsClean
INVARIANT OkMeansEnded
PROPERTY HandlerReturns
