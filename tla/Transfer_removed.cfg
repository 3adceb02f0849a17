\* A download whose client cannot rename a file.
SPECIFICATION Spec
CONSTANTS
  File = {1, 2}
  Size <- TwoSizes
  Env = {"rename"}
  Window = 2
  Sessions = 1
  NameLen = 1  RuleLen = 1  PathLen = 1
INVARIANT RemovedWasReceived
CHECK_DEADLOCK FALSE
