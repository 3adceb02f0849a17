\* One to three callers, two initial connections and at most three.
SPECIFICATION FairSpec
CONSTANTS
  Worker = {w1, w2, w3}
  MySQL = {d1, d2, d3}
  NoMySQL = NoMySQL
  InitSize = 2
  MaxSize = 3
  MaxIdleTime = 2
  CpuLimit = 1
  CpuRate = 1
  MaxWall = 2
INVARIANTS TypeOK NoAlias CountRight SortedIdle FewCallers GrowsWithDemand
PROPERTY CallsEndWithinMax
