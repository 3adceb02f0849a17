\* Two clients on two loops, both of which merge videos.
SPECIFICATION Spec
CONSTANTS
  c1 = c1  c2 = c2  l1 = l1  l2 = l2
  Client = {c1, c2}
  Loop = {l1, l2}
  LoopOf <- TwoLoops
  Editor = {c1, c2}
  Window = 2
  Env = {}
INVARIANT DownloadAfterMerge
\* Clients exit.
CHECK_DEADLOCK FALSE
