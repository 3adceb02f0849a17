\* Two IO threads scheduled fairly, and clients that leave and come back.
SPECIFICATION FairSpec
CONSTANTS
  c1 = c1  c2 = c2  c3 = c3  t1 = t1  t2 = t2
  User = {u1, u2}
  Conn = {c1, c2}
  Msg = {m1, m2}
  Thread = {t1, t2}
  LoopOf <- TwoLoops
  Capacity = 2
  Registered = {u1, u2}
  Founders = {u1, u2}
  Env = {"group", "leave"}
  NoUser = NoUser  NoConn = NoConn  NoMsg = NoMsg  NoThread = NoThread
  Dummy = Dummy  Dangling = Dangling
INVARIANTS CacheSafe NoMisdelivery NeverDropped OnlineHasClient
PROPERTIES HandlersFinish LeaverGoesOffline
\* The clients may stop asking for anything.
CHECK_DEADLOCK FALSE
