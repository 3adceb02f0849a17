\* Two clients on one loop, both of which merge videos.
SPECIFICATION FairSpec
CONSTANTS
  c1 = c1  c2 = c2  l1 = l1  l2 = l2
  Client = {c1, c2}
  Loop = {l1}
  LoopOf <- OneLoop
  Editor = {c1, c2}
  Window = 2
  Env = {"join", "split", "nofork", "exit"}
INVARIANTS PostIsAnswer DownloadAfterMerge
PROPERTIES LoginHonoured WaitsEnd
\* Clients exit.
CHECK_DEADLOCK FALSE
