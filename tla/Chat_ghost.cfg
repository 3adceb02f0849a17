\* One client leaves, another one writes to its user.
SPECIFICATION Spec
CONSTANTS
  c1 = c1  c2 = c2  c3 = c3  t1 = t1  t2 = t2
  User = {u1, u2}
  Conn = {c1, c2}
  Msg = {m1}
  Thread = {t1}
  LoopOf <- OneLoop
  Capacity = 2
  Registered = {u1, u2}
  Founders = {}
  Env = {"leave"}
  NoUser = NoUser  NoConn = NoConn  NoMsg = NoMsg  NoThread = NoThread
  Dummy = Dummy  Dangling = Dangling
PROPERTY OfflineIsStored
\* The clients may stop asking for anything.
CHECK_DEADLOCK FALSE
