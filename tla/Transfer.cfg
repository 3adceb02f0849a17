\* Two files, two sessions and every failure.
SPECIFICATION FairSpec
CONSTANTS
  File = {1, 2}
  Size <- TwoSizes
  Env = {"break", "vanish", "shrink", "fopen", "rename"}
  Window = 2
  Sessions = 2
  NameLen = 4  RuleLen = 4  PathLen = 3
INVARIANTS NoPartialFile RemovedWasAnswered  DelayedExact  StoredAsAsked
 
\* The last session ends.
CHECK_DEADLOCK FALSE
