SPECIFICATION Spec
CONSTANTS
  VersionCalls = {v1, v2}
  GroupCalls = {}
  NodeCalls = {}
  Base = base
  None = none
  Faults = {"db", "connect", "update", "deadline", "cancel", "kill", "overlap"}
SYMMETRY CallSymmetry
INVARIANT TypeOK
INVARIANT ActiveMeansDeployed
INVARIANT RevokedOnlyByDeployed
INVARIANT GapMeansUnrecorded
INVARIANT OneActiveInOrder
PROPERTY StatusMoves
