\* One IO thread, room for every user, and nobody leaves.
SPECIFICATION FairSpec
CONSTANTS
  c1 = c1  c2 = c2  c3 = c3  t1 = t1  t2 = t2
  User = {u1, u2}
  Conn = {c1, c2}
  Msg = {m1, m2}
  Thread = {t1}
  LoopOf <- OneLoop
  Capacity = 2
  Registered = {u1}
  Founders = {}
  Env = {"group"}
  NoUser = NoUser  NoConn = NoConn  NoMsg = NoMsg  NoThread = NoThread
  Dummy = Dummy  Dangling = Dangling
 
PROPERTY ImplementsMailbox
\* The clients may stop asking for anything.
CHECK_DEADLOCK FALSE
