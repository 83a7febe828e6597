SPECIFICATION FairSpec
CONSTANTS
  VersionCalls = {}
  GroupCalls = {g}
  NodeCalls = {n}
  Base = base
  None = none
  Faults = {"update", "deadline"}
INVARIANT SuccessIsBacked
PROPERTY EveryCallAnswered
PROPERTY ReceiversEnd
