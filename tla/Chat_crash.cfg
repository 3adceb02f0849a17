\* A cache too small for the users, and every failure.
SPECIFICATION Spec
CONSTANTS
  c1 = c1  c2 = c2  c3 = c3  t1 = t1  t2 = t2
  User = {u1, u2}
  Conn = {c1, c2}
  Msg = {m1, m2}
  Thread = {t1, t2}
  LoopOf <- TwoLoops
  Capacity = 1
  Registered = {u1, u2}
  Founders = {u1, u2}
  Env = {"group", "crash", "sigint", "loginout", "dbfail"}
  NoUser = NoUser  NoConn = NoConn  NoMsg = NoMsg  NoThread = NoThread
  Dummy = Dummy  Dangling = Dangling
SYMMETRY Symmetry
INVARIANTS TypeOK MutexHeld RowsAccounted
\* The clients may stop asking for anything.
CHECK_DEADLOCK FALSE
