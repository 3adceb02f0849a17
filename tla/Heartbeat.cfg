\* Two processes with two objects each, two slots, and three pids.
SPECIFICATION FairSpec
CONSTANTS
  Proc = {p, q}
  Pid = {i, j, k}
  NoPid = NoPid
  Object = {put, get}
  MaxNump = 2
INVARIANT OwnSlot
PROPERTY AddEnds
