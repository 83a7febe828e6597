SPECIFICATION Spec
CONSTANTS
  c1 = c1
  c2 = c2
  c3 = c3
  Cmds = {c1, c2, c3}
  Tables = {"nodes", "proxies", "groups", "endpoint_configs", "hardware_configs", "version_sets"}
  MaxGiven <- OneOrTwo
SYMMETRY Symmetry
CHECK_DEADLOCK FALSE
INVARIANT AnswerIsTrue
PROPERTY GivenOnly
PROPERTY CrashIsExplained
