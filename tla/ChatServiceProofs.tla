-------------------------- MODULE ChatServiceProofs --------------------------
(***************************************************************************)
(* Theorems of ChatService, for any number of users, connections, messages *)
(* and IO threads: the types, the mutex, the OfflineMessage rows, the      *)
(* pointers of the cache, and, in environments that say so, that messages  *)
(* reach no other user, that group messages are not dropped, that a user   *)
(* who is online has a client, that a user is logged in once, and that the *)
(* steps of the service are those of ChatMailbox. The cache's lemmas are   *)
(* those of LRUHeapProofs, whose operators are, name by name, those        *)
(* ChatService instantiates.                                               *)
(***************************************************************************)
EXTENDS ChatProperties, FiniteSetTheorems, TLAPS

Facts == INSTANCE LRUHeapProofs WITH Key <- User, Value <- Conn, NoValue <- NoConn

\* The heaps of LRUHeapProofs are those of ChatService.
LEMMA SameBase ==
  /\ Cache!Node = Facts!Node
  /\ Cache!Heap = Facts!Heap
  /\ Cache!EmptyHeap = Facts!EmptyHeap
  /\ \A h : Cache!Sound(h) = Facts!Sound(h)
  /\ \A h, why : Cache!Broken(h, why) = Facts!Broken(h, why)
BY DEF Cache!Node, Facts!Node, Cache!Heap, Facts!Heap, Cache!Pointer,
   Facts!Pointer, Cache!Fault, Facts!Fault, Cache!EmptyHeap, Facts!EmptyHeap,
   Cache!Sound, Facts!Sound, Cache!Broken, Facts!Broken

\* So is remove(Node *).
LEMMA SameUnlink == \A h, x : Cache!Unlink(h, x) = Facts!Unlink(h, x)
BY SameBase DEF Cache!Unlink, Facts!Unlink

\* So is push_front.
LEMMA SamePushFront == \A h, x : Cache!PushFront(h, x) = Facts!PushFront(h, x)
BY SameBase DEF Cache!PushFront, Facts!PushFront

\* So is get_node.
LEMMA SameGetNode == \A h, k : Cache!GetNode(h, k) = Facts!GetNode(h, k)
BY SameUnlink, SamePushFront DEF Cache!GetNode, Facts!GetNode

\* So is the eviction.
LEMMA SameEvict == \A h : Cache!Evict(h) = Facts!Evict(h)
<1>1. \A h, x : Cache!Delete(h, x) = Facts!Delete(h, x)
  BY SameBase DEF Cache!Delete, Facts!Delete
<1> QED
  BY <1>1, SameBase, SameUnlink DEF Cache!Evict, Facts!Evict

\* So are the finite sets and their sizes.
LEMMA SameCardinality ==
  \A S : /\ Cache!Cardinality(S) = Facts!Cardinality(S)
         /\ Facts!Cardinality(S) = Cardinality(S)
         /\ Facts!IsFiniteSet(S) = IsFiniteSet(S)
BY DEF Cache!Cardinality, Facts!Cardinality, Cardinality, IsFiniteSet,
   Facts!IsFiniteSet

\* So is put.
LEMMA SamePut == \A h, k, v : Cache!Put(h, k, v) = Facts!Put(h, k, v)
<1>1. \A h, k, v : Cache!NewNode(h, k, v) = Facts!NewNode(h, k, v)
  BY DEF Cache!NewNode, Facts!NewNode
<1> QED
  BY <1>1, SameBase, SameCardinality, SameGetNode, SamePushFront, SameEvict
     DEF Cache!Put, Facts!Put

\* And remove(int).
LEMMA SameRemoveKey == \A h, k : Cache!RemoveKey(h, k) = Facts!RemoveKey(h, k)
BY SameBase, SameUnlink, SameGetNode DEF Cache!RemoveKey, Facts!RemoveKey

-----------------------------------------------------------------------------
(* Types.                                                                  *)

GoodHeap(h) == Facts!WellFormed(h) /\ Facts!Bounded(h)

\* The cache starts well formed and within its capacity.
LEMMA EmptyHeapGood == GoodHeap(Cache!EmptyHeap)
<1>1. Facts!WellFormed(Facts!EmptyHeap) /\ Facts!EmptyHeap.mapped = {}
  BY Facts!EmptyWellFormed, ChatAssumption
<1>2. IsFiniteSet({}) /\ Cardinality({}) = 0
  BY FS_EmptySet
<1> QED
  BY <1>1, <1>2, SameBase, SameCardinality, ChatAssumption DEF GoodHeap,
     Facts!Bounded

\* A good heap has the type of the cache.
LEMMA GoodHeapIsHeap == ASSUME NEW h, GoodHeap(h) PROVE h \in Cache!Heap
BY SameBase DEF GoodHeap, Facts!WellFormed

\* get keeps the map, the values and the shape of the list.
LEMMA GetGood ==
  ASSUME NEW h, GoodHeap(h), Cache!Sound(h), NEW k
  PROVE  /\ GoodHeap(Cache!Get(h, k))
         /\ Cache!Get(h, k).mapped = h.mapped
         /\ Cache!Get(h, k).value = h.value
<1>1. Cache!Get(h, k) = Facts!GetNode(h, k)
  BY SameGetNode DEF Cache!Get
<1>2. /\ Facts!WellFormed(Facts!GetNode(h, k))
      /\ Facts!GetNode(h, k).mapped = h.mapped
      /\ Facts!GetNode(h, k).value = h.value
  BY Facts!GetNodeWellFormed, Facts!GetNodeValue, ChatAssumption DEF GoodHeap
<1> QED
  BY <1>1, <1>2, SameBase DEF GoodHeap, Facts!Bounded

\* put keeps the shape, and binds no key but its own.
LEMMA PutIsGood ==
  ASSUME NEW h, GoodHeap(h), NEW u \in User, NEW c \in Conn
  PROVE  /\ GoodHeap(Cache!Put(h, u, c))
         /\ \A v \in User : Cache!Put(h, u, c).value[v] \in
              {h.value[v], NoConn} \cup (IF v = u THEN {c} ELSE {})
<1>1. Cache!Put(h, u, c) = Facts!Put(h, u, c)
  BY SamePut
<1>2. Facts!WellFormed(Facts!Put(h, u, c)) /\ Facts!Bounded(Facts!Put(h, u, c))
  BY Facts!PutGood, ChatAssumption DEF GoodHeap
<1>3. \A v \in User : Facts!Put(h, u, c).value[v] \in
        {h.value[v], NoConn} \cup (IF v = u THEN {c} ELSE {})
  BY Facts!PutValue, ChatAssumption DEF GoodHeap
<1> QED
  BY <1>1, <1>2, <1>3 DEF GoodHeap

\* remove(int) keeps the shape, the map and the values.
LEMMA RemoveIsGood ==
  ASSUME NEW h, GoodHeap(h), NEW u \in User
  PROVE  /\ GoodHeap(Cache!RemoveKey(h, u))
         /\ Cache!RemoveKey(h, u).mapped = h.mapped
         /\ Cache!RemoveKey(h, u).value = h.value
<1>1. Cache!RemoveKey(h, u) = Facts!RemoveKey(h, u)
  BY SameRemoveKey
<1> QED
  BY <1>1, Facts!RemoveKeyGood, Facts!RemoveKeyValue, ChatAssumption
     DEF GoodHeap

\* What a handler has been given when it is at a program point.
Given(j) ==
  /\ j.pc \in LoginSteps \cup {"close.remove"} => j.conn \in Conn
  /\ j.pc \in LoginSteps \cup {"one.forward", "one.store", "create.member",
                               "group.members", "group.store", "close.offline"}
       => j.user \in User
  /\ j.pc \in {"one.forward", "one.store", "group.members", "group.lock",
               "group.each", "group.store"} => j.msg \in Msg

Jobs == job \in [Thread -> Job] /\ \A t \in Thread : Given(job[t])

Types == TypeOK /\ Jobs /\ GoodHeap(heap)

\* A handler starts, goes on, or ends.
LEMMA JobSet ==
  ASSUME Jobs, NEW t \in Thread, NEW j \in Job, Given(j),
         job' = [job EXCEPT ![t] = j]
  PROVE  Jobs'
BY DEF Jobs

\* It goes to a program point where it has what it needs.
LEMMA JobGoto ==
  ASSUME Jobs, NEW t \in Thread, NEW pc \in PC,
         Given([job[t] EXCEPT !.pc = pc]), Goto(t, pc)
  PROVE  Jobs'
<1>1. [job[t] EXCEPT !.pc = pc] \in Job
  BY DEF Jobs, Job
<1>2. job' = [job EXCEPT ![t] = [job[t] EXCEPT !.pc = pc]]
  BY DEF Goto
<1> QED
  BY <1>1, <1>2, JobSet

\* It ends.
LEMMA JobFinish ==
  ASSUME Jobs, NEW t \in Thread, Finish(t)
  PROVE  Jobs'
<1>1. Idle \in Job /\ Given(Idle)
  BY DEF Idle, Job, PC, Given, LoginSteps
<1> QED
  BY <1>1, JobSet DEF Finish

\* What became of a message is noted, and an OfflineMessage row inserted.
LEMMA FateSet ==
  ASSUME TypeOK, NEW m \in Msg, NEW u \in User, NEW f \in Fate,
         fate' = [fate EXCEPT ![m][u] = f]
  PROVE  fate' \in [Msg -> [User -> Fate]]
BY DEF TypeOK

\* An insertion into OfflineMessage keeps the types, failed or not.
LEMMA InsertTyped ==
  ASSUME TypeOK, NEW m \in Msg, NEW u \in User, Insert(u, m)
  PROVE  /\ offline' \in [User -> SUBSET Msg]
         /\ fate' \in [Msg -> [User -> Fate]]
<1>1. PICK ok \in Outcome :
        /\ offline' = IF ok THEN [offline EXCEPT ![u] = @ \cup {m}] ELSE offline
        /\ fate' = [fate EXCEPT ![m][u] = IF ok THEN "stored" ELSE "failed"]
  BY DEF Insert
<1>2. (IF ok THEN "stored" ELSE "failed") \in Fate
  BY DEF Fate
<1> QED
  BY <1>1, <1>2, FateSet DEF TypeOK

\* A message that is sent is forwarded, lost or misdelivered.
LEMMA SentIsFate == ASSUME NEW c, NEW u PROVE Sent(c, u) \in Fate
BY DEF Sent, Fate

\* A dead process has no handlers, and an empty cache when it starts again.
LEMMA DieTyped ==
  ASSUME Types, NEW how \in {"stopped", "crashed"}, Die(how)
  PROVE  Types'
<1>1. Idle \in Job /\ Given(Idle)
  BY DEF Idle, Job, PC, Given, LoginSteps
<1>2. Jobs'
  BY <1>1 DEF Die, Jobs
<1>3. GoodHeap(heap') /\ heap' \in Cache!Heap
  BY EmptyHeapGood, GoodHeapIsHeap DEF Die
<1>4. /\ fate' \in [Msg -> [User -> Fate]]
      /\ link' \in [Conn -> {"unused", "open", "gone", "dead"}]
  BY DEF Die, Types, TypeOK, Fate
<1> QED
  BY <1>2, <1>3, <1>4 DEF Die, tables, Types, TypeOK, Jobs

\* Every step of the server and of its clients keeps the types.
LEMMA TypesStep == Types /\ [Next]_vars => Types'
<1> SUFFICES ASSUME Types, [Next]_vars PROVE Types'
  OBVIOUS
<1>1. ASSUME NEW c \in Conn, Connect(c) PROVE Types'
  BY <1>1 DEF Connect, tables, memory, world, Types, TypeOK, Jobs
<1>2. ASSUME NEW c \in Conn, Leave(c) PROVE Types'
  BY <1>2 DEF Leave, tables, memory, world, Types, TypeOK, Jobs
<1>3. ASSUME NEW c \in Conn, LoginOut(c) PROVE Types'
  BY <1>3 DEF LoginOut, tables, memory, world, Types, TypeOK, Jobs
<1>4. ASSUME NEW c \in Conn, Reg(c) PROVE Types'
  BY <1>4 DEF Reg, tables, memory, world, Types, TypeOK, Jobs
<1>5. ASSUME NEW c \in Conn, CreateGroup(c) PROVE Types'
  <2> DEFINE j == [Idle EXCEPT !.pc = "create.member", !.user = session[c]]
  <2>1. j \in Job /\ Given(j)
    BY <1>5, ChatAssumption DEF CreateGroup, Types, TypeOK, Job, PC, Idle,
       Given, LoginSteps
  <2>2. job' = [job EXCEPT ![LoopOf[c]] = j] /\ LoopOf[c] \in Thread
    BY <1>5, ChatAssumption DEF CreateGroup, Receive
  <2>3. Jobs'
    BY <2>1, <2>2, JobSet DEF Types
  <2> QED
    BY <1>5, <2>3 DEF CreateGroup, tables, memory, world, Types, TypeOK, Jobs
<1>6. ASSUME NEW c \in Conn, AddGroup(c) PROVE Types'
  BY <1>6 DEF AddGroup, tables, memory, world, Types, TypeOK, Jobs
<1>7. ASSUME NEW c \in Conn, NEW u \in User, Login(c, u) PROVE Types'
  <2> DEFINE j == [Idle EXCEPT !.pc = "login.query", !.conn = c, !.user = u]
  <2>1. j \in Job /\ Given(j)
    BY <1>7, ChatAssumption DEF Login, Types, TypeOK, Job, PC, Idle, Given,
       LoginSteps
  <2>2. job' = [job EXCEPT ![LoopOf[c]] = j] /\ LoopOf[c] \in Thread
    BY <1>7, ChatAssumption DEF Login, Receive
  <2>3. Jobs'
    BY <2>1, <2>2, JobSet DEF Types
  <2> QED
    BY <1>7, <2>3 DEF Login, tables, memory, world, Types, TypeOK, Jobs
<1>8. ASSUME NEW c \in Conn, NEW u \in User, NEW m \in Msg, OneChat(c, u, m) PROVE Types'
  <2> DEFINE j == [Idle EXCEPT !.pc = "one.forward", !.user = u, !.msg = m]
  <2>1. j \in Job /\ Given(j)
    BY <1>8, ChatAssumption DEF OneChat, Types, TypeOK, Job, PC, Idle, Given,
       LoginSteps
  <2>2. job' = [job EXCEPT ![LoopOf[c]] = j] /\ LoopOf[c] \in Thread
    BY <1>8, ChatAssumption DEF OneChat, Receive
  <2>3. Jobs'
    BY <2>1, <2>2, JobSet DEF Types
  <2> QED
    BY <1>8, <2>3 DEF OneChat, tables, memory, world, Types, TypeOK, Jobs
<1>9. ASSUME NEW c \in Conn, NEW m \in Msg, GroupChat(c, m) PROVE Types'
  <2> DEFINE j == [Idle EXCEPT !.pc = "group.members", !.user = session[c], !.msg = m]
  <2>1. j \in Job /\ Given(j)
    BY <1>9, ChatAssumption DEF GroupChat, Types, TypeOK, Job, PC, Idle, Given,
       LoginSteps
  <2>2. job' = [job EXCEPT ![LoopOf[c]] = j] /\ LoopOf[c] \in Thread
    BY <1>9, ChatAssumption DEF GroupChat, Receive
  <2>3. Jobs'
    BY <2>1, <2>2, JobSet DEF Types
  <2> QED
    BY <1>9, <2>3 DEF GroupChat, tables, memory, world, Types, TypeOK, Jobs
<1>10. ASSUME NEW c \in Conn, Close(c) PROVE Types'
  <2> DEFINE j == [Idle EXCEPT !.pc = "close.remove", !.conn = c]
  <2>1. j \in Job /\ Given(j)
    BY DEF Job, PC, Idle, Given, LoginSteps
  <2>2. Jobs'
    BY <1>10, <2>1, JobSet, ChatAssumption DEF Close, Types
  <2> QED
    BY <1>10, <2>2 DEF Close, tables, memory, world, Types, TypeOK, Jobs
<1>11. ASSUME NEW t \in Thread, LoginQuery(t) PROVE Types'
  <2>1. ASSUME Goto(t, "login.put") PROVE Jobs'
    <3>1. Given([job[t] EXCEPT !.pc = "login.put"])
      BY <1>11 DEF LoginQuery, At, Types, Given, Jobs, Job, PC, LoginSteps
    <3> QED
      BY <2>1, <3>1, JobGoto DEF Types, PC
  <2>2. ASSUME Finish(t) PROVE Jobs'
    BY <2>2, JobFinish DEF Types
  <2>3. Jobs'
    BY <1>11, <2>1, <2>2 DEF LoginQuery, At, Types, TypeOK, Given, Jobs, Job,
       PC, LoginSteps
  <2> QED
    BY <1>11, <2>3 DEF LoginQuery, tables, memory, world, Types, TypeOK, Jobs
<1>12. ASSUME NEW t \in Thread, LoginPut(t) PROVE Types'
  <2>1. ASSUME Goto(t, "login.online") PROVE Jobs'
    <3>1. Given([job[t] EXCEPT !.pc = "login.online"])
      BY <1>12 DEF LoginPut, At, Types, Given, Jobs, Job, PC, LoginSteps
    <3> QED
      BY <2>1, <3>1, JobGoto DEF Types, PC
  <2>2. Jobs'
    BY <1>12, <2>1 DEF LoginPut, At, Types, TypeOK, Given, Jobs, Job, PC,
       LoginSteps
  <2>3. GoodHeap(heap')
    BY <1>12, PutIsGood DEF LoginPut, At, Running, Types, TypeOK, Jobs, Given,
       LoginSteps
  <2> QED
    BY <1>12, <2>2, <2>3, GoodHeapIsHeap DEF LoginPut, At, Given, LoginSteps,
       tables, memory, world, Types, TypeOK, Jobs
<1>13. ASSUME NEW t \in Thread, LoginOnline(t) PROVE Types'
  <2>1. ASSUME Goto(t, "login.read") PROVE Jobs'
    <3>1. Given([job[t] EXCEPT !.pc = "login.read"])
      BY <1>13 DEF LoginOnline, At, Types, Given, Jobs, Job, PC, LoginSteps
    <3> QED
      BY <2>1, <3>1, JobGoto DEF Types, PC
  <2>2. Jobs'
    BY <1>13, <2>1 DEF LoginOnline, At, Types, TypeOK, Given, Jobs, Job, PC,
       LoginSteps
  <2> QED
    BY <1>13, <2>2 DEF LoginOnline, tables, memory, world, Types, TypeOK, Jobs
<1>14. ASSUME NEW t \in Thread, LoginRead(t) PROVE Types'
  <2>1. ASSUME NEW vec \in SUBSET Msg, 
               job' = [job EXCEPT ![t] =
                 [job[t] EXCEPT !.seen = vec,
                                !.pc = IF vec = {} THEN "login.send" ELSE "login.delete"]]
        PROVE  Jobs'
    <3> DEFINE next == IF vec = {} THEN "login.send" ELSE "login.delete"
               j == [job[t] EXCEPT !.seen = vec, !.pc = next]
    <3>1. job[t] \in Job /\ job[t].conn \in Conn /\ job[t].user \in User
      BY <1>14 DEF LoginRead, At, Types, Given, Jobs, LoginSteps
    <3>2. next \in {"login.send", "login.delete"}
      OBVIOUS
    <3>3. job' = [job EXCEPT ![t] = j]
      BY <2>1
    <3> HIDE DEF next
    <3>4. j \in Job
      BY <3>1, <3>2 DEF Job, PC
    <3>5. Given(j)
      BY <3>1, <3>2 DEF Given, Job
    <3> QED
      BY <3>3, <3>4, <3>5, JobSet DEF Types
  <2>2. Jobs'
    <3>1. PICK ok \in Outcome :
            LET vec == IF ok THEN offline[job[t].user] ELSE {}
            IN job' = [job EXCEPT
                  ![t].seen = vec,
                  ![t].pc = IF vec = {} THEN "login.send" ELSE "login.delete"]
      BY <1>14 DEF LoginRead
    <3>2. offline[job[t].user] \in SUBSET Msg
      BY <1>14 DEF LoginRead, At, Types, TypeOK, Jobs, Given, LoginSteps
    <3> QED
      BY <2>1, <3>1, <3>2
  <2> QED
    BY <1>14, <2>2 DEF LoginRead, tables, memory, world, Types, TypeOK, Jobs
<1>15. ASSUME NEW t \in Thread, LoginDelete(t) PROVE Types'
  <2>1. ASSUME Goto(t, "login.send") PROVE Jobs'
    <3>1. Given([job[t] EXCEPT !.pc = "login.send"])
      BY <1>15 DEF LoginDelete, At, Types, Given, Jobs, Job, PC, LoginSteps
    <3> QED
      BY <2>1, <3>1, JobGoto DEF Types, PC
  <2>2. Jobs'
    BY <1>15, <2>1 DEF LoginDelete, At, Types, TypeOK, Given, Jobs, Job, PC,
       LoginSteps
  <2> QED
    <3>1. PICK ok \in Outcome :
            IF ok
            THEN /\ offline' = [offline EXCEPT ![job[t].user] = {}]
                 /\ fate' = [m \in Msg |->
                      IF m \in offline[job[t].user] \ job[t].seen
                      THEN [fate[m] EXCEPT ![job[t].user] = "deleted"] ELSE fate[m]]
            ELSE UNCHANGED <<offline, fate>>
      BY <1>15 DEF LoginDelete
    <3>2. offline' \in [User -> SUBSET Msg]
      BY <3>1 DEF Types, TypeOK
    <3>3. fate' \in [Msg -> [User -> Fate]]
      <4>1. fate \in [Msg -> [User -> Fate]] /\ "deleted" \in Fate
        BY DEF Types, TypeOK, Fate
      <4>2. \A m \in Msg : [fate[m] EXCEPT ![job[t].user] = "deleted"] \in [User -> Fate]
        BY <4>1
      <4> QED
        BY <3>1, <4>1, <4>2
    <3> QED
      BY <1>15, <2>2, <3>2, <3>3 DEF LoginDelete, memory, world, Types, TypeOK,
         Jobs
<1>16. ASSUME NEW t \in Thread, LoginSend(t) PROVE Types'
  <2>1. ASSUME Finish(t) PROVE Jobs'
    BY <2>1, JobFinish DEF Types
  <2>2. Jobs'
    BY <1>16, <2>1 DEF LoginSend, At, Types, TypeOK, Given, Jobs, Job, PC,
       LoginSteps
  <2> QED
    BY <1>16, <2>2 DEF LoginSend, Answered, Fate, At, Given, LoginSteps,
       tables, memory, world, Types, TypeOK, Jobs
<1>17. ASSUME NEW t \in Thread, OneForward(t) PROVE Types'
  <2>1. ASSUME Goto(t, "one.store") PROVE Jobs'
    <3>1. Given([job[t] EXCEPT !.pc = "one.store"])
      BY <1>17 DEF OneForward, At, Types, Given, Jobs, Job, PC, LoginSteps
    <3> QED
      BY <2>1, <3>1, JobGoto DEF Types, PC
  <2>2. ASSUME Finish(t) PROVE Jobs'
    BY <2>2, JobFinish DEF Types
  <2>3. Jobs'
    BY <1>17, <2>1, <2>2 DEF OneForward, At, Types, TypeOK, Given, Jobs, Job,
       PC, LoginSteps
  <2>4. GoodHeap(heap')
    BY <1>17, GetGood DEF OneForward, At, Running, Types, TypeOK, Jobs, Given,
       LoginSteps
  <2> QED
    <3>1. job[t].msg \in Msg /\ job[t].user \in User
      BY <1>17 DEF OneForward, At, Types, Jobs, Given
    <3>2. fate' \in [Msg -> [User -> Fate]]
      BY <1>17, <3>1, SentIsFate, FateSet DEF OneForward, Types, TypeOK, Jobs,
         Job
    <3> QED
      BY <1>17, <2>3, <2>4, <3>2, GoodHeapIsHeap DEF OneForward, tables, world,
         Types, TypeOK, Jobs
<1>18. ASSUME NEW t \in Thread, OneStore(t) PROVE Types'
  <2>1. ASSUME Finish(t) PROVE Jobs'
    BY <2>1, JobFinish DEF Types
  <2>2. Jobs'
    BY <1>18, <2>1 DEF OneStore, At, Types, TypeOK, Given, Jobs, Job, PC,
       LoginSteps
  <2> QED
    <3>1. job[t].msg \in Msg /\ job[t].user \in User
      BY <1>18 DEF OneStore, At, Types, Jobs, Given
    <3> QED
      BY <1>18, <2>2, <3>1, InsertTyped DEF OneStore, memory, world, Types,
         TypeOK, Jobs
<1>19. ASSUME NEW t \in Thread, CreateMember(t) PROVE Types'
  <2>1. ASSUME Finish(t) PROVE Jobs'
    BY <2>1, JobFinish DEF Types
  <2>2. Jobs'
    BY <1>19, <2>1 DEF CreateMember, At, Types, TypeOK, Given, Jobs, Job, PC,
       LoginSteps
  <2> QED
    BY <1>19, <2>2 DEF CreateMember, At, Given, LoginSteps, tables, memory,
       world, Types, TypeOK, Jobs
<1>20. ASSUME NEW t \in Thread, GroupMembers(t) PROVE Types'
  <2>1. ASSUME NEW who \in SUBSET User, 
               job' = [job EXCEPT ![t] =
                 [job[t] EXCEPT !.todo = who, !.pc = "group.lock"]]
        PROVE  Jobs'
    <3> DEFINE j == [job[t] EXCEPT !.todo = who, !.pc = "group.lock"]
    <3>1. j \in Job /\ Given(j)
      BY <1>20 DEF GroupMembers, At, Types, Given, Jobs, Job, PC, LoginSteps
    <3> QED
      BY <2>1, <3>1, JobSet DEF Types
  <2>2. Jobs'
    <3>1. PICK ok \in Outcome :
            job' = [job EXCEPT ![t].todo = IF ok THEN member \ {job[t].user} ELSE {},
                               ![t].pc = "group.lock"]
      BY <1>20 DEF GroupMembers
    <3>2. (IF ok THEN member \ {job[t].user} ELSE {}) \in SUBSET User
      BY DEF Types, TypeOK
    <3> QED
      BY <2>1, <3>1, <3>2
  <2> QED
    BY <1>20, <2>2 DEF GroupMembers, tables, memory, world, Types, TypeOK, Jobs
<1>21. ASSUME NEW t \in Thread, GroupLock(t) PROVE Types'
  <2>1. ASSUME Goto(t, "group.each") PROVE Jobs'
    <3>1. Given([job[t] EXCEPT !.pc = "group.each"])
      BY <1>21 DEF GroupLock, At, Types, Given, Jobs, Job, PC, LoginSteps
    <3> QED
      BY <2>1, <3>1, JobGoto DEF Types, PC
  <2>2. Jobs'
    BY <1>21, <2>1 DEF GroupLock, At, Types, TypeOK, Given, Jobs, Job, PC,
       LoginSteps
  <2> QED
    BY <1>21, <2>2 DEF GroupLock, tables, memory, world, Types, TypeOK, Jobs
<1>22. ASSUME NEW t \in Thread, GroupForward(t) PROVE Types'
  <2>1. ASSUME NEW u \in User, 
               job' = [job EXCEPT ![t] =
                 [job[t] EXCEPT !.todo = @ \ {u}]]
        PROVE  Jobs'
    <3> DEFINE j == [job[t] EXCEPT !.todo = @ \ {u}]
    <3>1. j \in Job /\ Given(j)
      BY <1>22 DEF GroupForward, At, Types, Given, Jobs, Job, PC, LoginSteps
    <3> QED
      BY <2>1, <3>1, JobSet DEF Types
  <2>2. Jobs'
    BY <1>22, <2>1 DEF GroupForward, At, Types, TypeOK, Given, Jobs, Job, PC,
       LoginSteps
  <2>3. GoodHeap(heap')
    BY <1>22, GetGood DEF GroupForward, At, Running, Types, TypeOK, Jobs,
       Given, LoginSteps
  <2> QED
    <3>1. job[t].msg \in Msg
      BY <1>22 DEF GroupForward, At, Types, Jobs, Given
    <3>2. fate' \in [Msg -> [User -> Fate]]
      BY <1>22, <3>1, SentIsFate, FateSet DEF GroupForward, Types, TypeOK,
         Jobs, Job
    <3> QED
      BY <1>22, <2>2, <2>3, <3>2, GoodHeapIsHeap DEF GroupForward, tables,
         world, Types, TypeOK, Jobs
<1>23. ASSUME NEW t \in Thread, GroupQuery(t) PROVE Types'
  <2>1. ASSUME NEW u \in User, job' = [job EXCEPT ![t] = [job[t] EXCEPT !.todo = @ \ {u}]]
        PROVE  Jobs'
    <3> DEFINE j == [job[t] EXCEPT !.todo = @ \ {u}]
    <3>1. j \in Job /\ Given(j)
      <4>1. job[t] \in Job /\ job[t].msg \in Msg /\ job[t].pc = "group.each"
        BY <1>23 DEF GroupQuery, At, Types, Given, Jobs
      <4> QED
        BY <4>1 DEF Job, Given, LoginSteps
    <3> QED
      BY <2>1, <3>1, JobSet DEF Types
  <2>2. ASSUME NEW u \in User,
               job' = [job EXCEPT ![t] =
                 [job[t] EXCEPT !.user = u, !.pc = "group.store"]]
        PROVE  Jobs'
    <3> DEFINE j == [job[t] EXCEPT !.user = u, !.pc = "group.store"]
    <3>1. j \in Job /\ Given(j)
      <4>1. job[t] \in Job /\ job[t].msg \in Msg
        BY <1>23 DEF GroupQuery, At, Types, Given, Jobs
      <4> QED
        BY <4>1 DEF Job, PC, Given, LoginSteps
    <3> QED
      BY <2>2, <3>1, JobSet DEF Types
  <2>3. Jobs'
    <3>1. PICK u \in job[t].todo :
            \/ job' = [job EXCEPT ![t].todo = @ \ {u}]
            \/ job' = [job EXCEPT ![t].user = u, ![t].pc = "group.store"]
      BY <1>23 DEF GroupQuery
    <3>2. u \in User
      BY DEF Types, Jobs, Job
    <3> QED
      BY <2>1, <2>2, <3>1, <3>2
  <2> QED
    <3>1. job[t].msg \in Msg /\ job[t].todo \subseteq User /\ "dropped" \in Fate
      BY <1>23 DEF GroupQuery, At, Types, Jobs, Given, Job, Fate
    <3>2. fate' \in [Msg -> [User -> Fate]]
      BY <1>23, <3>1, FateSet DEF GroupQuery, Types, TypeOK
    <3> QED
      BY <1>23, <2>3, <3>2 DEF GroupQuery, tables, memory, world, Types,
         TypeOK, Jobs
<1>24. ASSUME NEW t \in Thread, GroupStore(t) PROVE Types'
  <2>1. ASSUME 
               job' = [job EXCEPT ![t] =
                 [job[t] EXCEPT !.todo = @ \ {job[t].user}, !.pc = "group.each"]]
        PROVE  Jobs'
    <3> DEFINE j == [job[t] EXCEPT !.todo = @ \ {job[t].user}, !.pc = "group.each"]
    <3>1. j \in Job /\ Given(j)
      BY <1>24 DEF GroupStore, At, Types, Given, Jobs, Job, PC, LoginSteps
    <3> QED
      BY <2>1, <3>1, JobSet DEF Types
  <2>2. Jobs'
    BY <1>24, <2>1 DEF GroupStore, At, Types, TypeOK, Given, Jobs, Job, PC,
       LoginSteps
  <2> QED
    <3>1. job[t].msg \in Msg /\ job[t].user \in User
      BY <1>24 DEF GroupStore, At, Types, Jobs, Given
    <3> QED
      BY <1>24, <2>2, <3>1, InsertTyped DEF GroupStore, memory, world, Types,
         TypeOK, Jobs
<1>25. ASSUME NEW t \in Thread, GroupUnlock(t) PROVE Types'
  <2>1. ASSUME Finish(t) PROVE Jobs'
    BY <2>1, JobFinish DEF Types
  <2>2. Jobs'
    BY <1>25, <2>1 DEF GroupUnlock, At, Types, TypeOK, Given, Jobs, Job, PC,
       LoginSteps
  <2> QED
    BY <1>25, <2>2 DEF GroupUnlock, tables, memory, world, Types, TypeOK, Jobs
<1>26. ASSUME NEW t \in Thread, CloseRemove(t) PROVE Types'
  <2>1. ASSUME Finish(t) PROVE Jobs'
    BY <2>1, JobFinish DEF Types
  <2>2. ASSUME connUser[job[t].conn] \in User, 
               job' = [job EXCEPT ![t] =
                 [job[t] EXCEPT !.user = connUser[job[t].conn], !.pc = "close.offline"]]
        PROVE  Jobs'
    <3> DEFINE j == [job[t] EXCEPT !.user = connUser[job[t].conn], !.pc = "close.offline"]
    <3>1. j \in Job /\ Given(j)
      BY <1>26, <2>2 DEF CloseRemove, At, Types, Given, Jobs, Job, PC,
         LoginSteps
    <3> QED
      BY <2>2, <3>1, JobSet DEF Types
  <2>3. Jobs'
    BY <1>26, <2>1, <2>2 DEF CloseRemove, At, Types, TypeOK, Given, Jobs, Job,
       PC, LoginSteps
  <2>4. GoodHeap(heap')
    BY <1>26, RemoveIsGood DEF CloseRemove, At, Running, Types, TypeOK, Jobs,
       Given, LoginSteps
  <2> QED
    BY <1>26, <2>3, <2>4, GoodHeapIsHeap DEF CloseRemove, tables, memory,
       world, Types, TypeOK, Jobs
<1>27. ASSUME NEW t \in Thread, CloseOffline(t) PROVE Types'
  <2>1. ASSUME Finish(t) PROVE Jobs'
    BY <2>1, JobFinish DEF Types
  <2>2. Jobs'
    BY <1>27, <2>1 DEF CloseOffline, At, Types, TypeOK, Given, Jobs, Job, PC,
       LoginSteps
  <2> QED
    BY <1>27, <2>2 DEF CloseOffline, tables, memory, world, Types, TypeOK, Jobs
<1>28. CASE SigInt
  BY <1>28 DEF SigInt, tables, memory, world, Types, TypeOK, Jobs
<1>29. CASE Exit
  BY <1>29, DieTyped DEF Exit
<1>30. CASE Crash
  BY <1>30, DieTyped DEF Crash
<1>31. CASE Restart
  BY <1>31 DEF Restart, tables, memory, world, Types, TypeOK, Jobs
<1>32. CASE UNCHANGED vars
  BY <1>32 DEF vars, tables, memory, world, Types, TypeOK, Jobs
<1> QED
  BY <1>1, <1>2, <1>3, <1>4, <1>5, <1>6, <1>7, <1>8, <1>9, <1>10, <1>11, <1>12,
     <1>13, <1>14, <1>15, <1>16, <1>17, <1>18, <1>19, <1>20, <1>21, <1>22,
     <1>23, <1>24, <1>25, <1>26, <1>27, <1>28, <1>29, <1>30, <1>31, <1>32
     DEF Next, Client, Handler, Process

\* The types hold when the server starts.
LEMMA TypesInit == Init => Types
<1> SUFFICES ASSUME Init PROVE Types
  OBVIOUS
<1>1. Idle \in Job /\ Given(Idle)
  BY DEF Idle, Job, PC, Given, LoginSteps
<1>2. GoodHeap(heap) /\ heap \in Cache!Heap
  BY EmptyHeapGood, GoodHeapIsHeap DEF Init
<1>3. Founders \in SUBSET User
  BY ChatAssumption
<1> QED
  BY <1>1, <1>2, <1>3 DEF Init, Types, TypeOK, Jobs, Fate

\* They always hold.
LEMMA TypesAlways == Spec => []Types
BY TypesInit, TypesStep, PTL DEF Spec

\* The variables have their types, whatever the clients, the tables and the
\* process do.
THEOREM ChatTypes == Spec => []TypeOK
<1>1. Types => TypeOK
  BY DEF Types
<1> QED
  BY <1>1, TypesAlways, PTL

-----------------------------------------------------------------------------
(* The mutex.                                                              *)

\* Only the steps of groupChat's loop move the owner of _connMutex.
LEMMA MutexStep == Types /\ MutexHeld /\ [Next]_vars => MutexHeld'
<1> SUFFICES ASSUME Types /\ MutexHeld, [Next]_vars PROVE MutexHeld'
  OBVIOUS
<1>1. ASSUME NEW c \in Conn, Connect(c) PROVE MutexHeld'
  BY <1>1, ChatAssumption DEF Connect, tables, memory, world, MutexHeld,
     InMutex, Types, TypeOK, Jobs, Job, Idle
<1>2. ASSUME NEW c \in Conn, Leave(c) PROVE MutexHeld'
  BY <1>2, ChatAssumption DEF Leave, tables, memory, world, MutexHeld,
     InMutex, Types, TypeOK, Jobs, Job, Idle
<1>3. ASSUME NEW c \in Conn, LoginOut(c) PROVE MutexHeld'
  BY <1>3, ChatAssumption DEF LoginOut, tables, memory, world, MutexHeld,
     InMutex, Types, TypeOK, Jobs, Job, Idle
<1>4. ASSUME NEW c \in Conn, Reg(c) PROVE MutexHeld'
  BY <1>4, ChatAssumption DEF Reg, tables, memory, world, MutexHeld, InMutex,
     Types, TypeOK, Jobs, Job, Idle
<1>5. ASSUME NEW c \in Conn, CreateGroup(c) PROVE MutexHeld'
  BY <1>5, ChatAssumption DEF CreateGroup, Receive, tables, memory, world,
     MutexHeld, InMutex, Types, TypeOK, Jobs, Job, Idle
<1>6. ASSUME NEW c \in Conn, AddGroup(c) PROVE MutexHeld'
  BY <1>6, ChatAssumption DEF AddGroup, tables, memory, world, MutexHeld,
     InMutex, Types, TypeOK, Jobs, Job, Idle
<1>7. ASSUME NEW c \in Conn, NEW u \in User, Login(c, u) PROVE MutexHeld'
  BY <1>7, ChatAssumption DEF Login, Receive, tables, memory, world,
     MutexHeld, InMutex, Types, TypeOK, Jobs, Job, Idle
<1>8. ASSUME NEW c \in Conn, NEW u \in User, NEW m \in Msg, OneChat(c, u, m) PROVE MutexHeld'
  BY <1>8, ChatAssumption DEF OneChat, Receive, tables, memory, world,
     MutexHeld, InMutex, Types, TypeOK, Jobs, Job, Idle
<1>9. ASSUME NEW c \in Conn, NEW m \in Msg, GroupChat(c, m) PROVE MutexHeld'
  BY <1>9, ChatAssumption DEF GroupChat, Receive, tables, memory, world,
     MutexHeld, InMutex, Types, TypeOK, Jobs, Job, Idle
<1>10. ASSUME NEW c \in Conn, Close(c) PROVE MutexHeld'
  BY <1>10, ChatAssumption DEF Close, tables, memory, world, MutexHeld,
     InMutex, Types, TypeOK, Jobs, Job, Idle
<1>11. ASSUME NEW t \in Thread, LoginQuery(t) PROVE MutexHeld'
  <2>1. lock' = lock /\ job[t].pc = "login.query" /\ (Finish(t) \/ Goto(t, "login.put"))
    BY <1>11 DEF LoginQuery, At
  <2> QED
    BY <2>1 DEF Goto, Finish, MutexHeld, InMutex, Types, Jobs, Job, Idle
<1>12. ASSUME NEW t \in Thread, LoginPut(t) PROVE MutexHeld'
  BY <1>12, ChatAssumption DEF LoginPut, At, Goto, Finish, tables, memory,
     world, MutexHeld, InMutex, Types, TypeOK, Jobs, Job, Idle
<1>13. ASSUME NEW t \in Thread, LoginOnline(t) PROVE MutexHeld'
  BY <1>13, ChatAssumption DEF LoginOnline, At, Goto, Finish, tables, memory,
     world, MutexHeld, InMutex, Types, TypeOK, Jobs, Job, Idle
<1>14. ASSUME NEW t \in Thread, LoginRead(t) PROVE MutexHeld'
  BY <1>14, ChatAssumption DEF LoginRead, At, Goto, Finish, tables, memory,
     world, MutexHeld, InMutex, Types, TypeOK, Jobs, Job, Idle
<1>15. ASSUME NEW t \in Thread, LoginDelete(t) PROVE MutexHeld'
  BY <1>15, ChatAssumption DEF LoginDelete, At, Goto, Finish, tables, memory,
     world, MutexHeld, InMutex, Types, TypeOK, Jobs, Job, Idle
<1>16. ASSUME NEW t \in Thread, LoginSend(t) PROVE MutexHeld'
  BY <1>16, ChatAssumption DEF LoginSend, Answered, At, Goto, Finish, tables,
     memory, world, MutexHeld, InMutex, Types, TypeOK, Jobs, Job, Idle
<1>17. ASSUME NEW t \in Thread, OneForward(t) PROVE MutexHeld'
  <2>1. lock' = lock /\ job[t].pc = "one.forward" /\ (Finish(t) \/ Goto(t, "one.store"))
    BY <1>17 DEF OneForward, At
  <2>2. \A s \in Thread : job'[s].pc \in InMutex <=> job[s].pc \in InMutex
    BY <2>1 DEF Goto, Finish, Idle, InMutex, Types, Jobs, Job
  <2> QED
    BY <2>1, <2>2 DEF MutexHeld
<1>18. ASSUME NEW t \in Thread, OneStore(t) PROVE MutexHeld'
  BY <1>18, ChatAssumption DEF OneStore, Insert, At, Goto, Finish, tables,
     memory, world, MutexHeld, InMutex, Types, TypeOK, Jobs, Job, Idle
<1>19. ASSUME NEW t \in Thread, CreateMember(t) PROVE MutexHeld'
  BY <1>19, ChatAssumption DEF CreateMember, At, Goto, Finish, tables, memory,
     world, MutexHeld, InMutex, Types, TypeOK, Jobs, Job, Idle
<1>20. ASSUME NEW t \in Thread, GroupMembers(t) PROVE MutexHeld'
  BY <1>20, ChatAssumption DEF GroupMembers, At, Goto, Finish, tables, memory,
     world, MutexHeld, InMutex, Types, TypeOK, Jobs, Job, Idle
<1>21. ASSUME NEW t \in Thread, GroupLock(t) PROVE MutexHeld'
  BY <1>21, ChatAssumption DEF GroupLock, At, Goto, Finish, tables, memory,
     world, MutexHeld, InMutex, Types, TypeOK, Jobs, Job, Idle
<1>22. ASSUME NEW t \in Thread, GroupForward(t) PROVE MutexHeld'
  BY <1>22, ChatAssumption DEF GroupForward, Sent, At, Goto, Finish, tables,
     memory, world, MutexHeld, InMutex, Types, TypeOK, Jobs, Job, Idle
<1>23. ASSUME NEW t \in Thread, GroupQuery(t) PROVE MutexHeld'
  BY <1>23, ChatAssumption DEF GroupQuery, At, Goto, Finish, tables, memory,
     world, MutexHeld, InMutex, Types, TypeOK, Jobs, Job, Idle
<1>24. ASSUME NEW t \in Thread, GroupStore(t) PROVE MutexHeld'
  BY <1>24, ChatAssumption DEF GroupStore, Insert, At, Goto, Finish, tables,
     memory, world, MutexHeld, InMutex, Types, TypeOK, Jobs, Job, Idle
<1>25. ASSUME NEW t \in Thread, GroupUnlock(t) PROVE MutexHeld'
  BY <1>25, ChatAssumption DEF GroupUnlock, At, Goto, Finish, tables, memory,
     world, MutexHeld, InMutex, Types, TypeOK, Jobs, Job, Idle
<1>26. ASSUME NEW t \in Thread, CloseRemove(t) PROVE MutexHeld'
  <2>1. /\ lock' = lock /\ job[t].pc = "close.remove"
        /\ \/ Finish(t)
           \/ job' = [job EXCEPT ![t].user = connUser[job[t].conn], ![t].pc = "close.offline"]
    BY <1>26 DEF CloseRemove, At
  <2>2. \A s \in Thread : job'[s].pc \in InMutex <=> job[s].pc \in InMutex
    BY <2>1 DEF Goto, Finish, Idle, InMutex, Types, Jobs, Job
  <2> QED
    BY <2>1, <2>2 DEF MutexHeld
<1>27. ASSUME NEW t \in Thread, CloseOffline(t) PROVE MutexHeld'
  BY <1>27, ChatAssumption DEF CloseOffline, At, Goto, Finish, tables, memory,
     world, MutexHeld, InMutex, Types, TypeOK, Jobs, Job, Idle
<1>28. CASE SigInt
  BY <1>28, ChatAssumption DEF SigInt, tables, memory, world, MutexHeld,
     InMutex, Types, TypeOK, Jobs, Job, Idle
<1>29. CASE Exit
  BY <1>29, ChatAssumption DEF Exit, Die, tables, memory, world, MutexHeld,
     InMutex, Types, TypeOK, Jobs, Job, Idle
<1>30. CASE Crash
  BY <1>30, ChatAssumption DEF Crash, Die, tables, memory, world, MutexHeld,
     InMutex, Types, TypeOK, Jobs, Job, Idle
<1>31. CASE Restart
  BY <1>31, ChatAssumption DEF Restart, tables, memory, world, MutexHeld,
     InMutex, Types, TypeOK, Jobs, Job, Idle
<1>32. CASE UNCHANGED vars
  BY <1>32 DEF vars, tables, memory, world, MutexHeld, InMutex, Types, TypeOK,
     Jobs, Job, Idle
<1> QED
  BY <1>1, <1>2, <1>3, <1>4, <1>5, <1>6, <1>7, <1>8, <1>9, <1>10, <1>11,
     <1>12, <1>13, <1>14, <1>15, <1>16, <1>17, <1>18, <1>19, <1>20, <1>21,
     <1>22, <1>23, <1>24, <1>25, <1>26, <1>27, <1>28, <1>29, <1>30, <1>31,
     <1>32 DEF Next, Client, Handler, Process

\* A thread is in _connMutex between two steps just when it is in groupChat's
\* loop: no return path leaves it locked (chatservice.cpp:303-327).
THEOREM ChatMutex == Spec => []MutexHeld
<1>1. Init => MutexHeld
  BY ChatAssumption DEF Init, MutexHeld, InMutex, Idle
<1> QED
  BY <1>1, MutexStep, TypesAlways, PTL DEF Spec

-----------------------------------------------------------------------------
(* The OfflineMessage table.                                               *)

\* A step that stores nothing, deletes nothing and answers no login keeps every
\* row accounted for.
LEMMA RowsKept ==
  ASSUME RowsAccounted, offline' = offline,
         \A m \in Msg, u \in User : fate'[m][u] = "stored" => fate[m][u] = "stored",
         \A s \in Thread : job[s].pc = "login.send" => job'[s] = job[s]
  PROVE  RowsAccounted'
BY DEF RowsAccounted

\* A message that is forwarded is not counted as stored.
LEMMA NotStored == \A c, u : Sent(c, u) # "stored"
BY DEF Sent

\* Every step keeps the rows accounted for: the inserts, the query and the
\* deletion of a login are the ones that matter.
LEMMA RowsStep == Types /\ RowsAccounted /\ [Next]_vars => RowsAccounted'
<1> SUFFICES ASSUME Types /\ RowsAccounted, [Next]_vars PROVE RowsAccounted'
  OBVIOUS
<1>1. ASSUME NEW c \in Conn, Connect(c) PROVE RowsAccounted'
  BY <1>1, ChatAssumption DEF Connect, tables, memory, world, RowsAccounted,
     Types, TypeOK, Jobs, Job, Idle
<1>2. ASSUME NEW c \in Conn, Leave(c) PROVE RowsAccounted'
  BY <1>2, ChatAssumption DEF Leave, tables, memory, world, RowsAccounted,
     Types, TypeOK, Jobs, Job, Idle
<1>3. ASSUME NEW c \in Conn, LoginOut(c) PROVE RowsAccounted'
  BY <1>3, ChatAssumption DEF LoginOut, tables, memory, world, RowsAccounted,
     Types, TypeOK, Jobs, Job, Idle
<1>4. ASSUME NEW c \in Conn, Reg(c) PROVE RowsAccounted'
  BY <1>4, ChatAssumption DEF Reg, tables, memory, world, RowsAccounted,
     Types, TypeOK, Jobs, Job, Idle
<1>5. ASSUME NEW c \in Conn, CreateGroup(c) PROVE RowsAccounted'
  BY <1>5, ChatAssumption DEF CreateGroup, Receive, tables, memory, world,
     RowsAccounted, Types, TypeOK, Jobs, Job, Idle
<1>6. ASSUME NEW c \in Conn, AddGroup(c) PROVE RowsAccounted'
  BY <1>6, ChatAssumption DEF AddGroup, tables, memory, world, RowsAccounted,
     Types, TypeOK, Jobs, Job, Idle
<1>7. ASSUME NEW c \in Conn, NEW u \in User, Login(c, u) PROVE RowsAccounted'
  BY <1>7, ChatAssumption DEF Login, Receive, tables, memory, world,
     RowsAccounted, Types, TypeOK, Jobs, Job, Idle
<1>8. ASSUME NEW c \in Conn, NEW u \in User, NEW m \in Msg, OneChat(c, u, m) PROVE RowsAccounted'
  BY <1>8, ChatAssumption DEF OneChat, Receive, tables, memory, world,
     RowsAccounted, Types, TypeOK, Jobs, Job, Idle
<1>9. ASSUME NEW c \in Conn, NEW m \in Msg, GroupChat(c, m) PROVE RowsAccounted'
  BY <1>9, ChatAssumption DEF GroupChat, Receive, tables, memory, world,
     RowsAccounted, Types, TypeOK, Jobs, Job, Idle
<1>10. ASSUME NEW c \in Conn, Close(c) PROVE RowsAccounted'
  BY <1>10, ChatAssumption DEF Close, tables, memory, world, RowsAccounted,
     Types, TypeOK, Jobs, Job, Idle
<1>11. ASSUME NEW t \in Thread, LoginQuery(t) PROVE RowsAccounted'
  <2>1. /\ \A s \in Thread : s # t => job'[s] = job[s]
        /\ job[t].pc # "login.send" /\ offline' = offline
    BY <1>11 DEF LoginQuery, At, Goto, Finish, tables, Types, Jobs
  <2>2. \A m \in Msg, u \in User : fate'[m][u] = "stored" => fate[m][u] = "stored"
    BY <1>11 DEF LoginQuery, Goto
  <2> QED
    BY <2>1, <2>2, RowsKept
<1>12. ASSUME NEW t \in Thread, LoginPut(t) PROVE RowsAccounted'
  BY <1>12, ChatAssumption DEF LoginPut, At, Goto, Finish, tables, memory,
     world, RowsAccounted, Types, TypeOK, Jobs, Job, Idle
<1>13. ASSUME NEW t \in Thread, LoginOnline(t) PROVE RowsAccounted'
  BY <1>13, ChatAssumption DEF LoginOnline, At, Goto, Finish, tables, memory,
     world, RowsAccounted, Types, TypeOK, Jobs, Job, Idle
<1>14. ASSUME NEW t \in Thread, LoginRead(t) PROVE RowsAccounted'
  <2>1. /\ \A s \in Thread : s # t => job'[s] = job[s]
        /\ job[t].pc # "login.send" /\ offline' = offline /\ fate' = fate
    BY <1>14 DEF LoginRead, At, tables, Types, Jobs
  <2> QED
    BY <2>1, RowsKept
<1>15. ASSUME NEW t \in Thread, LoginDelete(t) PROVE RowsAccounted'
  <2> DEFINE v == job[t].user
  <2>1. PICK ok \in Outcome :
          IF ok
          THEN /\ offline' = [offline EXCEPT ![v] = {}]
               /\ fate' = [m \in Msg |->
                    IF m \in offline[v] \ job[t].seen
                    THEN [fate[m] EXCEPT ![v] = "deleted"] ELSE fate[m]]
          ELSE UNCHANGED <<offline, fate>>
    BY <1>15 DEF LoginDelete
  <2>2. /\ \A s \in Thread : s # t => job'[s] = job[s]
        /\ job[t].pc = "login.delete" /\ job'[t].pc = "login.send"
        /\ job'[t].user = v /\ job'[t].seen = job[t].seen
    BY <1>15 DEF LoginDelete, At, Goto, Types, Jobs, Job
  <2>3. CASE ok
    <3>1. SUFFICES ASSUME NEW m \in Msg, NEW u \in User, fate'[m][u] = "stored"
                   PROVE  \/ m \in offline'[u]
                          \/ \E s \in Thread : /\ job'[s].pc = "login.send"
                                             /\ job'[s].user = u /\ m \in job'[s].seen
      BY DEF RowsAccounted
    <3>2. fate[m][u] = "stored" /\ (u = v => m \notin offline[u] \ job[t].seen)
      BY <2>1, <2>3, <3>1 DEF Types, TypeOK
    <3>3. CASE u # v
      <4>1. offline'[u] = offline[u]
        BY <2>1, <2>3, <3>3 DEF Types, TypeOK
      <4>2. \A s \in Thread : job[s].pc = "login.send" => job'[s] = job[s]
        BY <2>2
      <4> QED
        BY <3>2, <4>1, <4>2 DEF RowsAccounted
    <3>4. CASE u = v
      BY <2>2, <3>2, <3>4 DEF RowsAccounted
    <3> QED
      BY <3>3, <3>4
  <2>4. CASE ~ ok
    BY <2>1, <2>2, <2>4, RowsKept
  <2> QED
    BY <2>3, <2>4
<1>16. ASSUME NEW t \in Thread, LoginSend(t) PROVE RowsAccounted'
  BY <1>16, ChatAssumption DEF LoginSend, Answered, At, Goto, Finish, tables,
     memory, world, RowsAccounted, Types, TypeOK, Jobs, Job, Idle
<1>17. ASSUME NEW t \in Thread, OneForward(t) PROVE RowsAccounted'
  <2>1. /\ \A s \in Thread : s # t => job'[s] = job[s]
        /\ job[t].pc # "login.send" /\ offline' = offline
    BY <1>17 DEF OneForward, At, Goto, Finish, tables, Types, Jobs
  <2>2. \A m \in Msg, u \in User : fate'[m][u] = "stored" => fate[m][u] = "stored"
    BY <1>17, NotStored DEF OneForward, Types, TypeOK
  <2> QED
    BY <2>1, <2>2, RowsKept
<1>18. ASSUME NEW t \in Thread, OneStore(t) PROVE RowsAccounted'
  BY <1>18, ChatAssumption DEF OneStore, Insert, At, Goto, Finish, tables,
     memory, world, RowsAccounted, Types, TypeOK, Jobs, Job, Idle
<1>19. ASSUME NEW t \in Thread, CreateMember(t) PROVE RowsAccounted'
  BY <1>19, ChatAssumption DEF CreateMember, At, Goto, Finish, tables, memory,
     world, RowsAccounted, Types, TypeOK, Jobs, Job, Idle
<1>20. ASSUME NEW t \in Thread, GroupMembers(t) PROVE RowsAccounted'
  <2>1. /\ \A s \in Thread : s # t => job'[s] = job[s]
        /\ job[t].pc # "login.send" /\ offline' = offline
    BY <1>20 DEF GroupMembers, At, Goto, Finish, tables, Types, Jobs
  <2>2. \A m \in Msg, u \in User : fate'[m][u] = "stored" => fate[m][u] = "stored"
    BY <1>20 DEF GroupMembers, Types, TypeOK
  <2> QED
    BY <2>1, <2>2, RowsKept
<1>21. ASSUME NEW t \in Thread, GroupLock(t) PROVE RowsAccounted'
  BY <1>21, ChatAssumption DEF GroupLock, At, Goto, Finish, tables, memory,
     world, RowsAccounted, Types, TypeOK, Jobs, Job, Idle
<1>22. ASSUME NEW t \in Thread, GroupForward(t) PROVE RowsAccounted'
  <2>1. /\ \A s \in Thread : s # t => job'[s] = job[s]
        /\ job[t].pc # "login.send" /\ offline' = offline
    BY <1>22 DEF GroupForward, At, Goto, Finish, tables, Types, Jobs
  <2>2. \A m \in Msg, u \in User : fate'[m][u] = "stored" => fate[m][u] = "stored"
    BY <1>22, NotStored DEF GroupForward, Types, TypeOK
  <2> QED
    BY <2>1, <2>2, RowsKept
<1>23. ASSUME NEW t \in Thread, GroupQuery(t) PROVE RowsAccounted'
  <2>1. /\ \A s \in Thread : s # t => job'[s] = job[s]
        /\ job[t].pc # "login.send" /\ offline' = offline
    BY <1>23 DEF GroupQuery, At, Goto, Finish, tables, Types, Jobs
  <2>2. PICK w : fate' = fate \/ fate' = [fate EXCEPT ![job[t].msg][w] = "dropped"]
    BY <1>23 DEF GroupQuery
  <2>3. \A m \in Msg, u \in User : fate'[m][u] = "stored" => fate[m][u] = "stored"
    <3>1. fate \in [Msg -> [User -> Fate]]
      BY DEF Types, TypeOK
    <3> QED
      BY <2>2, <3>1
  <2> QED
    BY <2>1, <2>3, RowsKept
<1>24. ASSUME NEW t \in Thread, GroupStore(t) PROVE RowsAccounted'
  BY <1>24, ChatAssumption DEF GroupStore, Insert, At, Goto, Finish, tables,
     memory, world, RowsAccounted, Types, TypeOK, Jobs, Job, Idle
<1>25. ASSUME NEW t \in Thread, GroupUnlock(t) PROVE RowsAccounted'
  BY <1>25, ChatAssumption DEF GroupUnlock, At, Goto, Finish, tables, memory,
     world, RowsAccounted, Types, TypeOK, Jobs, Job, Idle
<1>26. ASSUME NEW t \in Thread, CloseRemove(t) PROVE RowsAccounted'
  <2>1. /\ \A s \in Thread : s # t => job'[s] = job[s]
        /\ job[t].pc # "login.send" /\ offline' = offline
    BY <1>26 DEF CloseRemove, At, Goto, Finish, tables, Types, Jobs
  <2>2. \A m \in Msg, u \in User : fate'[m][u] = "stored" => fate[m][u] = "stored"
    BY <1>26 DEF CloseRemove, Types, TypeOK
  <2> QED
    BY <2>1, <2>2, RowsKept
<1>27. ASSUME NEW t \in Thread, CloseOffline(t) PROVE RowsAccounted'
  BY <1>27, ChatAssumption DEF CloseOffline, At, Goto, Finish, tables, memory,
     world, RowsAccounted, Types, TypeOK, Jobs, Job, Idle
<1>28. CASE SigInt
  BY <1>28, ChatAssumption DEF SigInt, tables, memory, world, RowsAccounted,
     Types, TypeOK, Jobs, Job, Idle
<1>29. CASE Exit
  BY <1>29, ChatAssumption DEF Exit, Die, tables, memory, world,
     RowsAccounted, Types, TypeOK, Jobs, Job, Idle
<1>30. CASE Crash
  BY <1>30, ChatAssumption DEF Crash, Die, tables, memory, world,
     RowsAccounted, Types, TypeOK, Jobs, Job, Idle
<1>31. CASE Restart
  BY <1>31, ChatAssumption DEF Restart, tables, memory, world, RowsAccounted,
     Types, TypeOK, Jobs, Job, Idle
<1>32. CASE UNCHANGED vars
  BY <1>32 DEF vars, tables, memory, world, RowsAccounted, Types, TypeOK,
     Jobs, Job, Idle
<1> QED
  BY <1>1, <1>2, <1>3, <1>4, <1>5, <1>6, <1>7, <1>8, <1>9, <1>10, <1>11,
     <1>12, <1>13, <1>14, <1>15, <1>16, <1>17, <1>18, <1>19, <1>20, <1>21,
     <1>22, <1>23, <1>24, <1>25, <1>26, <1>27, <1>28, <1>29, <1>30, <1>31,
     <1>32 DEF Next, Client, Handler, Process

\* A message counted as kept is in the table, or in the hands of the login
\* that has deleted its row, through every failure of a statement, crash and
\* restart (chatservice.cpp:114-120, 253, 263, 322).
THEOREM ChatRows == Spec => []RowsAccounted
<1>1. Init => RowsAccounted
  BY DEF Init, RowsAccounted
<1> QED
  BY <1>1, RowsStep, TypesAlways, PTL DEF Spec

-----------------------------------------------------------------------------
(* The cache under the handlers, while nothing is evicted.                 *)

\* The handlers that touch the cache, and the ends of the process.
LEMMA MemoryFrame ==
  ASSUME [Next]_vars
  PROVE  \/ UNCHANGED memory
         \/ \E t \in Thread : LoginPut(t) \/ OneForward(t) \/ GroupForward(t) \/ CloseRemove(t)
         \/ \E how \in {"stopped", "crashed"} : Die(how)
<1>1. ASSUME NEW c \in Conn, Client(c) \/ Close(c) PROVE UNCHANGED memory
  BY <1>1 DEF Client, Connect, Leave, LoginOut, Reg, CreateGroup, AddGroup,
     Login, OneChat, GroupChat, Close
<1>2. ASSUME NEW t \in Thread,
             \/ LoginQuery(t) \/ LoginOnline(t) \/ LoginRead(t) \/ LoginDelete(t)
             \/ LoginSend(t) \/ OneStore(t) \/ CreateMember(t) \/ GroupMembers(t)
             \/ GroupLock(t) \/ GroupQuery(t) \/ GroupStore(t) \/ GroupUnlock(t)
             \/ CloseOffline(t)
      PROVE  UNCHANGED memory
  BY <1>2 DEF LoginQuery, LoginOnline, LoginRead, LoginDelete, LoginSend,
     OneStore, CreateMember, GroupMembers, GroupLock, GroupQuery, GroupStore,
     GroupUnlock, CloseOffline
<1>3. ASSUME Process
      PROVE  UNCHANGED memory \/ \E how \in {"stopped", "crashed"} : Die(how)
  BY <1>3 DEF Process, SigInt, Restart, Exit, Crash
<1>4. CASE UNCHANGED vars
  BY <1>4 DEF vars
<1> QED
  BY <1>1, <1>2, <1>3, <1>4 DEF Next, Handler

\* Room for everyone.
Roomy == IsFiniteSet(User) /\ Cardinality(User) <= Capacity

\* No pointer of the cache dangles, and every connection that was ever bound
\* to a user is bound to one whose key is in the map: ghosts are never erased.
SafeInv ==
  /\ Facts!Safe(heap)
  /\ \A c \in Conn : connUser[c] # NoUser => connUser[c] \in heap.mapped

\* get meets no bad pointer.
LEMMA GetIsSafe ==
  ASSUME NEW h, GoodHeap(h), Facts!Safe(h), NEW k
  PROVE  /\ Facts!Safe(Cache!Get(h, k))
         /\ Cache!Get(h, k).mapped = h.mapped
<1>1. Cache!Get(h, k) = Facts!GetNode(h, k)
  BY SameGetNode DEF Cache!Get
<1> QED
  BY <1>1, Facts!GetNodeSafe, Facts!GetNodeWellFormed, ChatAssumption
     DEF GoodHeap

\* Neither does put, when every user has a place.
LEMMA PutIsSafe ==
  ASSUME Roomy, NEW h, GoodHeap(h), Facts!Safe(h), NEW u \in User, NEW c \in Conn
  PROVE  /\ Facts!Safe(Cache!Put(h, u, c))
         /\ Cache!Put(h, u, c).mapped = h.mapped \cup {u}
         /\ Cache!Put(h, u, c).value = [h.value EXCEPT ![u] = c]
<1>1. h.mapped \in SUBSET User
  BY GoodHeapIsHeap DEF Cache!Heap
<1>2. /\ IsFiniteSet(h.mapped)
      /\ Cardinality(h.mapped \cup {u}) <= Capacity
  <2>1. /\ IsFiniteSet(h.mapped \cup {u}) /\ IsFiniteSet(h.mapped)
        /\ Cardinality(h.mapped \cup {u}) <= Cardinality(User)
    BY <1>1, FS_Subset DEF Roomy
  <2>2. Cardinality(h.mapped \cup {u}) \in Nat /\ Cardinality(User) \in Nat
    BY <2>1, FS_CardinalityType DEF Roomy
  <2> QED
    BY <2>1, <2>2, ChatAssumption DEF Roomy
<1>3. /\ Facts!IsFiniteSet(h.mapped)
      /\ Facts!Cardinality(h.mapped \cup {u}) <= Capacity
  BY <1>2, SameCardinality
<1> QED
  BY <1>3, SamePut, Facts!PutSafe, ChatAssumption DEF GoodHeap

\* Neither does remove(int), for a key that was put once.
LEMMA RemoveIsSafe ==
  ASSUME NEW h, GoodHeap(h), Facts!Safe(h), NEW u \in h.mapped
  PROVE  /\ Facts!Safe(Cache!RemoveKey(h, u))
         /\ Cache!RemoveKey(h, u).mapped = h.mapped
<1>1. u \in User
  BY GoodHeapIsHeap DEF Cache!Heap
<1> QED
  BY <1>1, SameRemoveKey, Facts!RemoveKeySafe, RemoveIsGood, ChatAssumption
     DEF GoodHeap

\* The cache of a new process has no bad pointer.
LEMMA EmptyHeapSafe == Facts!Safe(Cache!EmptyHeap)
BY SameBase, Facts!EmptySafe, ChatAssumption

\* No handler makes the cache unsafe, or forgets a user it was given.
LEMMA SafeStep == ASSUME Roomy, Types, SafeInv, [Next]_vars PROVE SafeInv'
<1>1. CASE UNCHANGED memory
  BY <1>1 DEF memory, SafeInv
<1>2. ASSUME NEW t \in Thread, LoginPut(t) PROVE SafeInv'
  <2>1. job[t].user \in User /\ job[t].conn \in Conn
    BY <1>2 DEF LoginPut, At, Types, Jobs, Given, LoginSteps
  <2>2. /\ Facts!Safe(heap')
        /\ heap'.mapped = heap.mapped \cup {job[t].user}
    BY <1>2, <2>1, PutIsSafe DEF LoginPut, SafeInv, Types
  <2>3. \A c \in Conn : connUser'[c] \in {connUser[c], job[t].user}
    BY <1>2 DEF LoginPut, Types, TypeOK
  <2> QED
    BY <2>1, <2>2, <2>3 DEF SafeInv
<1>3. ASSUME NEW t \in Thread, OneForward(t) PROVE SafeInv'
  <2>1. Facts!Safe(heap') /\ heap'.mapped = heap.mapped
    BY <1>3, GetIsSafe DEF OneForward, SafeInv, Types
  <2> QED
    BY <1>3, <2>1 DEF OneForward, SafeInv
<1>4. ASSUME NEW t \in Thread, GroupForward(t) PROVE SafeInv'
  <2>1. Facts!Safe(heap') /\ heap'.mapped = heap.mapped
    BY <1>4, GetIsSafe DEF GroupForward, SafeInv, Types
  <2> QED
    BY <1>4, <2>1 DEF GroupForward, SafeInv
<1>5. ASSUME NEW t \in Thread, CloseRemove(t) PROVE SafeInv'
  <2>1. job[t].conn \in Conn
    BY <1>5 DEF CloseRemove, At, Types, Jobs, Given, LoginSteps
  <2>2. Facts!Safe(heap') /\ heap'.mapped = heap.mapped
    BY <1>5, <2>1, RemoveIsSafe DEF CloseRemove, SafeInv, Types
  <2> QED
    BY <1>5, <2>2 DEF CloseRemove, SafeInv
<1>6. ASSUME NEW how \in {"stopped", "crashed"}, Die(how) PROVE SafeInv'
  BY <1>6, EmptyHeapSafe DEF Die, SafeInv
<1> QED
  BY <1>1, <1>2, <1>3, <1>4, <1>5, <1>6, MemoryFrame

\* The cache is always safe when every user has a place.
LEMMA SafeAlways == ASSUME Roomy PROVE Spec => []SafeInv
<1>1. Init => SafeInv
  BY EmptyHeapSafe DEF Init, SafeInv
<1>2. Types /\ SafeInv /\ [Next]_vars => SafeInv'
  BY SafeStep
<1> QED
  BY <1>1, <1>2, TypesAlways, PTL DEF Spec

\* While there are no more users than places, no sequence of logins, lookups
\* and disconnections makes the cache dereference a bad pointer
\* (chatservice.cpp:98-102, 222, LRUCache.hpp:40-66).
THEOREM ChatCacheSafe ==
  ASSUME IsFiniteSet(User)
  PROVE  Spec => []CacheSafe
<1>1. CASE Roomy
  <2>1. SafeInv => CacheSafe
    BY SameBase DEF SafeInv, CacheSafe, Facts!Safe
  <2> QED
    BY <1>1, <2>1, SafeAlways, PTL
<1>2. CASE ~ Roomy
  <2>1. CacheSafe
    BY <1>2 DEF CacheSafe, Roomy
  <2> QED
    BY <2>1, PTL
<1> QED
  BY <1>1, <1>2

-----------------------------------------------------------------------------
(* The offline box. *)

-----------------------------------------------------------------------------
(* The handlers the clients start.                                         *)

\* A handler that works for a user and not on a connection.
LEMMA ChatStarted ==
  ASSUME NEW c \in Conn,
         \/ CreateGroup(c)
         \/ \E u \in User, m \in Msg : OneChat(c, u, m)
         \/ \E m \in Msg : GroupChat(c, m)
  PROVE  /\ job[LoopOf[c]] = Idle
         /\ \E j : /\ job' = [job EXCEPT ![LoopOf[c]] = j] /\ j.conn = NoConn
                  /\ j.pc \in {"create.member", "one.forward", "group.members"}
<1>1. ASSUME CreateGroup(c)
      PROVE  \E j : /\ job' = [job EXCEPT ![LoopOf[c]] = j]
                    /\ j.pc = "create.member" /\ j.conn = NoConn
  <2> DEFINE k == [Idle EXCEPT !.pc = "create.member", !.user = session[c]]
  <2>1. k.pc = "create.member" /\ k.conn = NoConn
    BY DEF Idle
  <2>2. job' = [job EXCEPT ![LoopOf[c]] = k]
    BY <1>1 DEF CreateGroup, Receive
  <2> HIDE DEF k
  <2> QED
    BY <2>1, <2>2
<1>2. ASSUME NEW u \in User, NEW m \in Msg, OneChat(c, u, m)
      PROVE  \E j : /\ job' = [job EXCEPT ![LoopOf[c]] = j]
                    /\ j.pc = "one.forward" /\ j.conn = NoConn
  <2> DEFINE k == [Idle EXCEPT !.pc = "one.forward", !.user = u, !.msg = m]
  <2>1. k.pc = "one.forward" /\ k.conn = NoConn
    BY DEF Idle
  <2>2. job' = [job EXCEPT ![LoopOf[c]] = k]
    BY <1>2 DEF OneChat, Receive
  <2> HIDE DEF k
  <2> QED
    BY <2>1, <2>2
<1>3. ASSUME NEW m \in Msg, GroupChat(c, m)
      PROVE  \E j : /\ job' = [job EXCEPT ![LoopOf[c]] = j]
                    /\ j.pc = "group.members" /\ j.conn = NoConn
  <2> DEFINE k == [Idle EXCEPT !.pc = "group.members", !.user = session[c], !.msg = m]
  <2>1. k.pc = "group.members" /\ k.conn = NoConn
    BY DEF Idle
  <2>2. job' = [job EXCEPT ![LoopOf[c]] = k]
    BY <1>3 DEF GroupChat, Receive
  <2> HIDE DEF k
  <2> QED
    BY <2>1, <2>2
<1>4. job[LoopOf[c]] = Idle
  BY DEF CreateGroup, OneChat, GroupChat, Receive
<1> QED
  BY <1>1, <1>2, <1>3, <1>4

\* login, on the connection it came by.
LEMMA LoginStarted ==
  ASSUME NEW c \in Conn, NEW u \in User, Login(c, u)
  PROVE  /\ job[LoopOf[c]] = Idle
         /\ \E j : /\ job' = [job EXCEPT ![LoopOf[c]] = j]
                  /\ j.pc = "login.query" /\ j.conn = c
<1> DEFINE k == [Idle EXCEPT !.pc = "login.query", !.conn = c, !.user = u]
<1>1. k.pc = "login.query" /\ k.conn = c
  BY DEF Idle
<1>2. job' = [job EXCEPT ![LoopOf[c]] = k] /\ job[LoopOf[c]] = Idle
  BY DEF Login, Receive
<1> HIDE DEF k
<1> QED
  BY <1>1, <1>2

\* clientCloseException, on the connection that has closed.
LEMMA CloseStarted ==
  ASSUME NEW c \in Conn, Close(c)
  PROVE  /\ job[LoopOf[c]] = Idle
         /\ \E j : /\ job' = [job EXCEPT ![LoopOf[c]] = j]
                  /\ j.pc = "close.remove" /\ j.conn = c
<1> DEFINE k == [Idle EXCEPT !.pc = "close.remove", !.conn = c]
<1>1. k.pc = "close.remove" /\ k.conn = c
  BY DEF Idle
<1>2. job' = [job EXCEPT ![LoopOf[c]] = k] /\ job[LoopOf[c]] = Idle
  BY DEF Close
<1> HIDE DEF k
<1> QED
  BY <1>1, <1>2

-----------------------------------------------------------------------------
(* NoMisdelivery: a message is written to no other user's client.          *)

Early == {"login.query", "login.put"}
Later == {"login.online", "login.read", "login.delete", "login.send"}

\* A handler of a connection runs in the connection's loop, so that no two
\* threads ever serve the same one.
OwnLoop ==
  \A t \in Thread : job[t].conn # NoConn =>
    LoopOf[job[t].conn] = t /\ link[job[t].conn] # "unused"

\* A login that has not reached the cache has a connection nobody logged in on.
NotYetBound ==
  \A t \in Thread : job[t].pc \in Early => connUser[job[t].conn] = NoUser

\* One that has reached it has bound the connection to its user.
NowBound ==
  \A t \in Thread : job[t].pc \in Later => connUser[job[t].conn] = job[t].user

UnusedIsFree == \A c \in Conn : link[c] = "unused" => connUser[c] = NoUser

\* An open connection that is bound to a user is that user's: the user's
\* client has been told so, or will be by the login under way.
BoundIsServed ==
  \A c \in Conn : connUser[c] # NoUser /\ link[c] = "open" =>
    \/ session[c] = connUser[c]
    \/ \E t \in Thread : /\ job[t].conn = c /\ job[t].user = connUser[c]
                         /\ job[t].pc \in Later

DeliveryInv ==
  /\ OwnLoop /\ NotYetBound /\ NowBound /\ UnusedIsFree /\ BoundIsServed
  /\ CachedIsBound /\ NoMisdelivery

\* A handler that is no login stays none; a login stays one, or ends before it
\* has reached the cache.
QuietJob(t) ==
  /\ job'[t].conn \in {job[t].conn, NoConn}
  /\ job'[t].pc \in Early => job[t].pc \in Early /\ job'[t].conn = job[t].conn
  /\ job[t].pc \in Later \/ job'[t].pc \in Later =>
       /\ job[t].pc \in Later /\ job'[t].pc \in Later
       /\ job'[t].conn = job[t].conn /\ job'[t].user = job[t].user

\* A step that starts no login, binds no connection, and ends none.
Quiet ==
  /\ UNCHANGED <<connUser, link, session>>
  /\ \A u \in User : heap'.value[u] = heap.value[u]
  /\ \A t \in Thread : QuietJob(t)
  /\ \A m \in Msg, u \in User : fate'[m][u] = "wrong" => fate[m][u] = "wrong"

\* Such a step keeps the invariant.
LEMMA QuietStep == ASSUME DeliveryInv, Quiet PROVE DeliveryInv'
<1>1. OwnLoop' /\ NotYetBound' /\ NowBound' /\ UnusedIsFree'
  BY DEF DeliveryInv, Quiet, QuietJob, OwnLoop, NotYetBound, NowBound,
     UnusedIsFree
<1>2. BoundIsServed'
  BY DEF DeliveryInv, Quiet, QuietJob, BoundIsServed
<1>3. CachedIsBound' /\ NoMisdelivery'
  BY DEF DeliveryInv, Quiet, CachedIsBound, NoMisdelivery
<1> QED
  BY <1>1, <1>2, <1>3 DEF DeliveryInv

\* The connection the cache gives for u serves u.
LEMMA CachedServes ==
  ASSUME Types, DeliveryInv, NEW u \in User, Cache!Found(heap, u) # NoConn
  PROVE  Sent(Cache!Found(heap, u), u) # "wrong"
<1> DEFINE it == Cache!Found(heap, u)
<1>1. it \in Conn /\ it = heap.value[u]
  BY DEF Types, TypeOK, Cache!Heap, Cache!Found
<1>2. connUser[it] = u /\ u # NoUser
  BY <1>1, ChatAssumption DEF DeliveryInv, CachedIsBound
<1>3. link[it] = "open" => Serves(it, u)
  BY <1>1, <1>2 DEF DeliveryInv, BoundIsServed, Serves, Later, LoginSteps
<1> QED
  BY <1>3 DEF Sent

\* The steps of the handlers are quiet but for a login's put and its answer.
LEMMA QuietHandler ==
  ASSUME Types, DeliveryInv, NEW t \in Thread,
         \/ LoginQuery(t) \/ LoginOnline(t) \/ LoginRead(t) \/ LoginDelete(t)
         \/ OneForward(t) \/ OneStore(t) \/ CreateMember(t) \/ GroupMembers(t)
         \/ GroupLock(t) \/ GroupForward(t) \/ GroupQuery(t) \/ GroupStore(t)
         \/ GroupUnlock(t) \/ CloseRemove(t) \/ CloseOffline(t)
  PROVE  Quiet
<1>1. CASE LoginQuery(t)
  BY <1>1 DEF LoginQuery, Quiet, tables, memory, world, QuietJob, Early,
     Later, At, Goto, Finish, Idle, Types, Jobs, Job
<1>2. CASE LoginOnline(t)
  BY <1>2 DEF LoginOnline, Quiet, tables, memory, world, QuietJob, Early,
     Later, At, Goto, Finish, Idle, Types, Jobs, Job
<1>3. CASE LoginRead(t)
  <2>1. \A s \in Thread : QuietJob(s)
    <3>1. PICK ok \in Outcome :
            LET vec == IF ok THEN offline[job[t].user] ELSE {}
            IN job' = [job EXCEPT
                  ![t].seen = vec,
                  ![t].pc = IF vec = {} THEN "login.send" ELSE "login.delete"]
      BY <1>3 DEF LoginRead
    <3> DEFINE vec == IF ok THEN offline[job[t].user] ELSE {}
               pc == IF vec = {} THEN "login.send" ELSE "login.delete"
    <3>a. job' = [job EXCEPT ![t] = [job[t] EXCEPT !.seen = vec, !.pc = pc]]
      BY <3>1
    <3>b. pc \in Later
      BY DEF Later
    <3> HIDE DEF vec, pc
    <3>0. job[t].pc = "login.read" /\ job \in [Thread -> Job]
      BY <1>3 DEF LoginRead, At, Types, Jobs
    <3>2. /\ \A s \in Thread : s # t => job'[s] = job[s]
          /\ job'[t].pc \in Later
          /\ job'[t].conn = job[t].conn /\ job'[t].user = job[t].user
      BY <3>0, <3>a, <3>b DEF Job
    <3> QED
      BY <3>0, <3>2 DEF QuietJob, Early, Later
  <2> QED
    BY <1>3, <2>1 DEF LoginRead, Quiet, tables, memory, world
<1>4. CASE LoginDelete(t)
  <2>1. \A s \in Thread : QuietJob(s)
    BY <1>4 DEF LoginDelete, QuietJob, Early, Later, At, Goto, Types, Jobs, Job
  <2>2. \A m \in Msg, u \in User : fate'[m][u] = "wrong" => fate[m][u] = "wrong"
    <3>1. fate \in [Msg -> [User -> Fate]]
      BY DEF Types, TypeOK
    <3> QED
      BY <1>4, <3>1 DEF LoginDelete
  <2> QED
    BY <1>4, <2>1, <2>2 DEF LoginDelete, Quiet, memory, world
<1>5. CASE OneForward(t)
  <2>1. \A s \in Thread : QuietJob(s)
    <3>1. /\ \A s \in Thread : s # t => job'[s] = job[s]
          /\ job[t].pc = "one.forward"
          /\ job'[t].pc \in PC \ (Early \cup Later)
          /\ job'[t].conn \in {job[t].conn, NoConn}
      BY <1>5 DEF OneForward, At, Goto, Finish, Idle, PC, Early, Later,
         Types, Jobs, Job
    <3> QED
      BY <3>1 DEF QuietJob, Early, Later
  <2>2. \A u \in User : heap'.value[u] = heap.value[u]
    BY <1>5, GetGood DEF OneForward, At, Running, Types, TypeOK, Jobs,
       Given
  <2>3. \A m \in Msg, u \in User : fate'[m][u] = "wrong" => fate[m][u] = "wrong"
    BY <1>5, CachedServes DEF OneForward, Types, TypeOK, At, Jobs, Given
  <2> QED
    BY <1>5, <2>1, <2>2, <2>3 DEF OneForward, Quiet, tables, memory, world
<1>6. CASE OneStore(t)
  BY <1>6 DEF OneStore, Insert, TypeOK, Quiet, tables, memory, world,
     QuietJob, Early, Later, At, Goto, Finish, Idle, Types, Jobs, Job
<1>7. CASE CreateMember(t)
  BY <1>7 DEF CreateMember, Quiet, tables, memory, world, QuietJob, Early,
     Later, At, Goto, Finish, Idle, Types, Jobs, Job
<1>8. CASE GroupMembers(t)
  <2>1. \A s \in Thread : QuietJob(s)
    <3>1. PICK who : job' = [job EXCEPT ![t].todo = who, ![t].pc = "group.lock"]
      BY <1>8 DEF GroupMembers
    <3>0. job[t].pc = "group.members" /\ job \in [Thread -> Job]
      BY <1>8 DEF GroupMembers, At, Types, Jobs
    <3>2. /\ \A s \in Thread : s # t => job'[s] = job[s]
          /\ job'[t].pc = "group.lock"
          /\ job'[t].conn = job[t].conn
      BY <3>0, <3>1 DEF Job
    <3> QED
      BY <3>0, <3>2 DEF QuietJob, Early, Later
  <2> QED
    BY <1>8, <2>1 DEF GroupMembers, Quiet, tables, memory, world
<1>9. CASE GroupLock(t)
  BY <1>9 DEF GroupLock, Quiet, tables, memory, world, QuietJob, Early,
     Later, At, Goto, Finish, Idle, Types, Jobs, Job
<1>10. CASE GroupForward(t)
  <2>1. \A s \in Thread : QuietJob(s)
    <3>1. /\ \A s \in Thread : s # t => job'[s] = job[s]
          /\ job[t].pc = "group.each"
          /\ job'[t].pc \in PC \ (Early \cup Later)
          /\ job'[t].conn \in {job[t].conn, NoConn}
      BY <1>10 DEF GroupForward, At, Goto, Finish, Idle, PC, Early,
         Later, Types, Jobs, Job
    <3> QED
      BY <3>1 DEF QuietJob, Early, Later
  <2>2. \A u \in User : heap'.value[u] = heap.value[u]
    BY <1>10, GetGood DEF GroupForward, At, Running, Types, TypeOK, Jobs,
       Given
  <2>3. \A m \in Msg, u \in User : fate'[m][u] = "wrong" => fate[m][u] = "wrong"
    BY <1>10, CachedServes DEF GroupForward, Types, TypeOK, Job, Jobs
  <2> QED
    BY <1>10, <2>1, <2>2, <2>3 DEF GroupForward, Quiet, tables, memory,
       world
<1>11. CASE GroupQuery(t)
  <2>1. \A s \in Thread : QuietJob(s)
    <3>1. /\ \A s \in Thread : s # t => job'[s] = job[s]
          /\ job[t].pc = "group.each"
          /\ job'[t].pc \in PC \ (Early \cup Later)
          /\ job'[t].conn \in {job[t].conn, NoConn}
      BY <1>11 DEF GroupQuery, At, Goto, Finish, Idle, PC, Early, Later,
         Types, Jobs, Job
    <3> QED
      BY <3>1 DEF QuietJob, Early, Later
  <2>2. \A m \in Msg, u \in User : fate'[m][u] = "wrong" => fate[m][u] = "wrong"
    <3>1. PICK w : fate' = fate \/ fate' = [fate EXCEPT ![job[t].msg][w] = "dropped"]
      BY <1>11 DEF GroupQuery
    <3> QED
      BY <3>1 DEF Types, TypeOK
  <2> QED
    BY <1>11, <2>1, <2>2 DEF GroupQuery, Quiet, tables, memory, world
<1>12. CASE GroupStore(t)
  BY <1>12 DEF GroupStore, Insert, TypeOK, Quiet, tables, memory, world,
     QuietJob, Early, Later, At, Goto, Finish, Idle, Types, Jobs, Job
<1>13. CASE GroupUnlock(t)
  BY <1>13 DEF GroupUnlock, Quiet, tables, memory, world, QuietJob, Early,
     Later, At, Goto, Finish, Idle, Types, Jobs, Job
<1>14. CASE CloseRemove(t)
  <2>1. \A s \in Thread : QuietJob(s)
    <3>1. /\ \A s \in Thread : s # t => job'[s] = job[s]
          /\ job[t].pc = "close.remove"
          /\ job'[t].pc \in PC \ (Early \cup Later)
          /\ job'[t].conn \in {job[t].conn, NoConn}
      BY <1>14 DEF CloseRemove, At, Goto, Finish, Idle, PC, Early, Later,
         Types, Jobs, Job
    <3> QED
      BY <3>1 DEF QuietJob, Early, Later
  <2>2. \A u \in User : heap'.value[u] = heap.value[u]
    BY <1>14, RemoveIsGood DEF CloseRemove, At, Running, Types, TypeOK,
       Jobs, Given
  <2> QED
    BY <1>14, <2>1, <2>2 DEF CloseRemove, Quiet, tables, memory, world
<1>15. CASE CloseOffline(t)
  BY <1>15 DEF CloseOffline, Quiet, tables, memory, world, QuietJob, Early,
     Later, At, Goto, Finish, Idle, Types, Jobs, Job
<1> QED
  BY <1>1, <1>2, <1>3, <1>4, <1>5, <1>6, <1>7, <1>8, <1>9, <1>10, <1>11,
     <1>12, <1>13, <1>14, <1>15

\* So are the other requests of a client, SIGINT and the restart.
LEMMA QuietOther ==
  ASSUME Types,
         \/ \E c \in Conn : \/ Reg(c) \/ CreateGroup(c) \/ AddGroup(c)
                            \/ \E u \in User, m \in Msg : OneChat(c, u, m)
                            \/ \E m \in Msg : GroupChat(c, m)
         \/ SigInt \/ Restart \/ UNCHANGED vars
  PROVE  Quiet
<1>1. ASSUME NEW c \in Conn, Reg(c) \/ AddGroup(c) PROVE Quiet
  <2>1. UNCHANGED <<job, fate, link, session, memory>>
    BY <1>1 DEF Reg, AddGroup, world
  <2> QED
    BY <2>1 DEF Quiet, QuietJob, memory
<1>2. ASSUME NEW c \in Conn,
             \/ CreateGroup(c)
             \/ \E u \in User, m \in Msg : OneChat(c, u, m)
             \/ \E m \in Msg : GroupChat(c, m)
      PROVE  Quiet
  <2>1. PICK j : /\ job' = [job EXCEPT ![LoopOf[c]] = j] /\ j.conn = NoConn
                 /\ j.pc \in {"create.member", "one.forward", "group.members"}
    BY <1>2, ChatStarted
  <2>2. job[LoopOf[c]] = Idle
    BY <1>2, ChatStarted
  <2>3. \A s \in Thread : QuietJob(s)
    BY <2>1, <2>2 DEF QuietJob, Types, Jobs, Idle, Early, Later
  <2> QED
    <3>1. UNCHANGED <<fate, link, session, memory>>
      BY <1>2 DEF CreateGroup, OneChat, GroupChat, world
    <3>2. heap' = heap /\ connUser' = connUser
      BY <3>1 DEF memory
    <3> QED
      BY ONLY <2>3, <3>1, <3>2, ZenonT(60) DEF Quiet
<1>3. CASE SigInt \/ Restart
  BY <1>3 DEF SigInt, Restart, Quiet, QuietJob, memory, world
<1>4. CASE UNCHANGED vars
  BY <1>4 DEF vars, Quiet, QuietJob, memory, world
<1> QED
  BY <1>1, <1>2, <1>3, <1>4

\* A connection is opened, or its client goes.
LEMMA LinkStep ==
  ASSUME Types, DeliveryInv, NEW c \in Conn, Connect(c) \/ Leave(c)
  PROVE  DeliveryInv'
<1>1. /\ UNCHANGED <<heap, connUser, job, fate>>
      /\ link \in [Conn -> {"unused", "open", "gone", "dead"}]
      /\ session \in [Conn -> User \cup {NoUser}]
  BY DEF Connect, Leave, memory, Types, TypeOK
<1>2. OwnLoop' /\ NotYetBound' /\ NowBound' /\ CachedIsBound' /\ NoMisdelivery'
  <2>1. \A d \in Conn : link[d] # "unused" => link'[d] # "unused"
    BY <1>1 DEF Connect, Leave
  <2>2. \A t \in Thread : job[t].conn \in Conn \cup {NoConn}
    BY DEF Types, Jobs, Job
  <2> QED
    BY <1>1, <2>1, <2>2 DEF DeliveryInv, OwnLoop, NotYetBound, NowBound,
       CachedIsBound, NoMisdelivery
<1>3. UnusedIsFree' /\ BoundIsServed'
  BY <1>1 DEF Connect, Leave, DeliveryInv, UnusedIsFree, BoundIsServed
<1> QED
  BY <1>2, <1>3 DEF DeliveryInv

\* A handler starts on an open or closed connection nobody is served on.
LEMMA StartStep ==
  ASSUME Types, DeliveryInv, NEW c \in Conn,
         Close(c) \/ \E u \in User : Login(c, u)
  PROVE  DeliveryInv'
<1> DEFINE t == LoopOf[c]
<1>1. /\ t \in Thread /\ job[t] = Idle /\ link[c] # "unused"
      /\ UNCHANGED <<heap, connUser, session, fate>>
  BY ChatAssumption DEF Close, Login, Receive, memory, world
<1>2. PICK j :
        /\ job' = [job EXCEPT ![t] = j] /\ j.conn = c
        /\ \/ /\ j.pc = "login.query"
              /\ link[c] = "open" /\ session[c] = NoUser /\ link' = link
           \/ j.pc = "close.remove" /\ link' = [link EXCEPT ![c] = "dead"]
  <2>1. CASE Close(c)
    BY <2>1, CloseStarted DEF Close
  <2>2. CASE \E u \in User : Login(c, u)
    <3>1. PICK u \in User : Login(c, u)
      BY <2>2
    <3>2. link[c] = "open" /\ session[c] = NoUser /\ link' = link
      BY <3>1 DEF Login, Receive, world
    <3> QED
      BY <3>1, <3>2, LoginStarted
  <2> QED
    BY <2>1, <2>2
<1> HIDE DEF t
<1>3. /\ \A s \in Thread : s # t => job'[s] = job[s]
      /\ job'[t] = j
  BY <1>1, <1>2 DEF Types, Jobs
<1>4. \A s \in Thread : job[s].conn # c
  BY <1>1, ChatAssumption DEF DeliveryInv, OwnLoop, Idle, t
<1>5. \A d \in Conn : link[d] # "unused" => link'[d] # "unused"
  BY <1>2 DEF Types, TypeOK
<1>6. OwnLoop'
  BY <1>1, <1>2, <1>3, <1>5 DEF DeliveryInv, OwnLoop, Types, Jobs, Job, t
<1>7. NotYetBound'
  <2>1. ASSUME j.pc = "login.query" PROVE connUser[c] = NoUser
    <3>1. \A s \in Thread : ~ (job[s].conn = c)
      BY <1>4
    <3> QED
      BY <1>2, <2>1, <3>1 DEF DeliveryInv, BoundIsServed, Types, TypeOK
  <2> QED
    BY <1>1, <1>2, <1>3, <2>1 DEF DeliveryInv, NotYetBound, Early
<1>8. NowBound'
  BY <1>1, <1>2, <1>3 DEF DeliveryInv, NowBound, Later
<1>9. UnusedIsFree' /\ CachedIsBound' /\ NoMisdelivery'
  BY <1>1, <1>2 DEF DeliveryInv, UnusedIsFree, CachedIsBound, NoMisdelivery,
     Types, TypeOK
<1>10. BoundIsServed'
  BY <1>1, <1>2, <1>3, <1>4 DEF DeliveryInv, BoundIsServed, Types, TypeOK,
     Idle, Later
<1> QED
  BY <1>6, <1>7, <1>8, <1>9, <1>10 DEF DeliveryInv

\* The connection is bound: nobody was logged in on it.
LEMMA PutStep ==
  ASSUME Types, DeliveryInv, NEW t \in Thread, LoginPut(t)
  PROVE  DeliveryInv'
<1> DEFINE c == job[t].conn
           u == job[t].user
<1>1. /\ c \in Conn /\ u \in User /\ job[t].pc = "login.put"
      /\ connUser[c] = NoUser /\ u # NoUser
  BY ChatAssumption DEF LoginPut, At, Types, Jobs, Given, LoginSteps,
     DeliveryInv, NotYetBound, Early
<1>2. /\ connUser' = [connUser EXCEPT ![c] = u]
      /\ job' = [job EXCEPT ![t].pc = "login.online"]
      /\ heap' = Cache!Put(heap, u, c)
      /\ UNCHANGED <<link, session, fate>>
  BY <1>1 DEF LoginPut, Goto, world
<1>3. /\ \A s \in Thread : s # t => job'[s] = job[s]
      /\ job'[t].pc = "login.online" /\ job'[t].conn = c /\ job'[t].user = u
  BY <1>2 DEF Types, Jobs, Job
<1>4. /\ \A d \in Conn : d # c => connUser'[d] = connUser[d]
      /\ connUser'[c] = u
  BY <1>1, <1>2 DEF Types, TypeOK
<1>5. c # NoConn /\ \A s \in Thread : s # t => job[s].conn # c
  BY <1>1, ChatAssumption DEF DeliveryInv, OwnLoop
<1>6. \A v \in User :
        heap'.value[v] \in {heap.value[v], NoConn} \cup (IF v = u THEN {c} ELSE {})
  BY <1>1, <1>2, PutIsGood DEF Types
<1> HIDE DEF c, u
<1>7. \A s \in Thread : job[s].pc \in Early \cup Later => job[s].conn \in Conn
  BY DEF Types, Jobs, Given, LoginSteps, Early, Later
<1>8. OwnLoop'
  BY <1>2, <1>3 DEF DeliveryInv, OwnLoop, c
<1>9. NotYetBound'
  BY <1>3, <1>4, <1>5, <1>7 DEF DeliveryInv, NotYetBound, Early
<1>10. NowBound'
  BY <1>3, <1>4, <1>5, <1>7 DEF DeliveryInv, NowBound
<1>11. UnusedIsFree'
  BY <1>1, <1>2, <1>4, <1>5 DEF DeliveryInv, UnusedIsFree, OwnLoop, c
<1>12. BoundIsServed'
  <2>1. ASSUME NEW d \in Conn, connUser'[d] # NoUser, link'[d] = "open"
        PROVE  \/ session'[d] = connUser'[d]
               \/ \E s \in Thread : /\ job'[s].conn = d /\ job'[s].user = connUser'[d]
                                    /\ job'[s].pc \in Later
    <3>1. CASE d = c
      BY <1>3, <1>4, <3>1 DEF Later
    <3>2. CASE d # c
      BY <1>2, <1>3, <1>4, <2>1, <3>2 DEF DeliveryInv, BoundIsServed, c
    <3> QED
      BY <3>1, <3>2
  <2> QED
    BY <2>1 DEF BoundIsServed
<1>13. CachedIsBound'
  <2>1. ASSUME NEW v \in User, heap'.value[v] # NoConn
        PROVE  connUser'[heap'.value[v]] = v
    <3>1. CASE heap'.value[v] = c /\ v = u
      BY <1>4, <3>1
    <3>2. CASE heap'.value[v] = heap.value[v] /\ heap.value[v] # NoConn
      <4>1. heap.value[v] \in Conn /\ connUser[heap.value[v]] = v /\ v # NoUser
        BY <3>2, ChatAssumption DEF Types, TypeOK, Cache!Heap, DeliveryInv,
           CachedIsBound
      <4> QED
        BY <1>1, <1>4, <3>2, <4>1
    <3> QED
      BY <1>6, <2>1, <3>1, <3>2
  <2> QED
    BY <2>1 DEF CachedIsBound
<1>14. NoMisdelivery'
  BY <1>2 DEF DeliveryInv, NoMisdelivery
<1> QED
  BY <1>8, <1>9, <1>10, <1>11, <1>12, <1>13, <1>14 DEF DeliveryInv

\* The login is answered: the connection's client is its user's.
LEMMA AnswerStep ==
  ASSUME Types, DeliveryInv, NEW t \in Thread, LoginSend(t)
  PROVE  DeliveryInv'
<1> DEFINE c == job[t].conn
           u == job[t].user
<1>1. c \in Conn /\ u \in User /\ connUser[c] = u
  BY DEF LoginSend, At, Types, Jobs, Given, LoginSteps, DeliveryInv, NowBound,
     Later
<1>2. /\ session' = [session EXCEPT ![c] = IF link[c] = "open" THEN u ELSE @]
      /\ job' = [job EXCEPT ![t] = Idle]
      /\ UNCHANGED <<heap, connUser, link>>
  BY DEF LoginSend, Finish, memory
<1>3. /\ \A s \in Thread : s # t => job'[s] = job[s]
      /\ job'[t] = Idle
  BY <1>2 DEF Types, Jobs
<1>4. \A m \in Msg, v \in User : fate'[m][v] = "wrong" => fate[m][v] = "wrong"
  BY DEF LoginSend, Answered, Types, TypeOK
<1> HIDE DEF c, u
<1>5. OwnLoop' /\ NotYetBound' /\ NowBound' /\ UnusedIsFree'
  BY <1>2, <1>3 DEF DeliveryInv, OwnLoop, NotYetBound, NowBound, UnusedIsFree,
                    Idle, Early, Later
<1>6. BoundIsServed'
  <2>1. ASSUME NEW d \in Conn, connUser[d] # NoUser, link[d] = "open"
        PROVE  \/ session'[d] = connUser[d]
               \/ \E s \in Thread : /\ job'[s].conn = d /\ job'[s].user = connUser[d]
                                    /\ job'[s].pc \in Later
    <3>1. CASE d = c
      BY <1>1, <1>2, <2>1, <3>1 DEF Types, TypeOK
    <3>2. CASE d # c
      BY <1>1, <1>2, <1>3, <2>1, <3>2 DEF DeliveryInv, BoundIsServed, Types,
         TypeOK, c
    <3> QED
      BY <3>1, <3>2
  <2> QED
    BY <1>2, <2>1 DEF BoundIsServed
<1>7. CachedIsBound' /\ NoMisdelivery'
  BY <1>2, <1>4 DEF DeliveryInv, CachedIsBound, NoMisdelivery
<1> QED
  BY <1>5, <1>6, <1>7 DEF DeliveryInv

\* A process that dies forgets every binding.
LEMMA DieStep ==
  ASSUME Types, DeliveryInv, NEW how, Die(how)
  PROVE  DeliveryInv'
<1>1. /\ \A t \in Thread : job'[t] = Idle
      /\ \A c \in Conn : connUser'[c] = NoUser
      /\ \A u \in User : heap'.value[u] = NoConn
  BY DEF Die, Cache!EmptyHeap
<1>2. \A m \in Msg, v \in User : fate'[m][v] = "wrong" => fate[m][v] = "wrong"
  BY DEF Die
<1> QED
  BY <1>1, <1>2 DEF DeliveryInv, OwnLoop, NotYetBound, NowBound, UnusedIsFree,
     BoundIsServed, CachedIsBound, NoMisdelivery, Idle, Early, Later

\* Every step keeps the invariant.
LEMMA DeliveryStep ==
  ASSUME "loginout" \notin Env, Types, DeliveryInv, [Next]_vars
  PROVE  DeliveryInv'
<1>1. ASSUME NEW c \in Conn, Client(c) \/ Close(c) PROVE DeliveryInv'
  <2>1. ~ LoginOut(c)
    BY DEF LoginOut
  <2> QED
    BY <1>1, <2>1, LinkStep, StartStep, QuietOther, QuietStep DEF Client
<1>2. ASSUME NEW t \in Thread, Handler(t) PROVE DeliveryInv'
  BY <1>2, PutStep, AnswerStep, QuietHandler, QuietStep DEF Handler
<1>3. CASE Process
  BY <1>3, DieStep, QuietOther, QuietStep DEF Process, Exit, Crash
<1>4. CASE UNCHANGED vars
  BY <1>4, QuietOther, QuietStep
<1> QED
  BY <1>1, <1>2, <1>3, <1>4 DEF Next

\* It holds when the server starts.
LEMMA DeliveryInit == Init => DeliveryInv
BY DEF Init, Cache!EmptyHeap, DeliveryInv, OwnLoop, NotYetBound, NowBound,
   UnusedIsFree, BoundIsServed, CachedIsBound, NoMisdelivery, Idle, Early,
   Later

\* So it always holds.
LEMMA DeliveryAlways ==
  ASSUME "loginout" \notin Env
  PROVE  Spec => []DeliveryInv
<1>1. Init => DeliveryInv
  BY DeliveryInit
<1>2. Types /\ DeliveryInv /\ [Next]_vars => DeliveryInv'
  BY DeliveryStep
<1> QED
  BY <1>1, <1>2, TypesAlways, PTL DEF Spec

\* Where LOGINOUT_MSG is not sent, a message is written only to a client that
\* is its user's or is being logged in as that user, whatever stale entries of
\* closed connections, evictions, failed statements and crashes have left in
\* the cache (chatservice.cpp:98-102, 216-225, 242-247, 306-310).
THEOREM ChatDelivery ==
  ASSUME "loginout" \notin Env
  PROVE  Spec => []NoMisdelivery
<1>1. DeliveryInv => NoMisdelivery
  BY DEF DeliveryInv
<1>2. Spec => []DeliveryInv
  BY DeliveryAlways
<1> QED
  BY <1>1, <1>2, PTL

-----------------------------------------------------------------------------
(* NeverDropped: groupChat finds every member cached or offline.           *)

\* With room for everyone and a process that does not restart, a user whose
\* row is or is about to be online is cached, with a connection.
OnlineIsCached ==
  /\ phase = "up"
  /\ \A u \in heap.mapped : heap.value[u] # NoConn
  /\ \A u \in User : row[u] = "online" => u \in heap.mapped
  /\ \A t \in Thread : job[t].pc = "login.online" => job[t].user \in heap.mapped

DropInv == OnlineIsCached /\ \A m \in Msg, u \in User : fate[m][u] # "dropped"

Lasting == {"crash", "sigint"} \cap Env = {}

\* Nothing ends the process.
LEMMA StaysUp ==
  ASSUME Lasting, SafeInv, phase = "up", [Next]_vars
  PROVE  /\ phase' = "up"
         /\ \/ \E c \in Conn : Client(c) \/ Close(c)
            \/ \E t \in Thread : Handler(t)
            \/ UNCHANGED vars
<1>1. ~ Process
  BY SameBase DEF Process, SigInt, Exit, Crash, Restart, Lasting, SafeInv,
     Facts!Safe
<1>2. ASSUME NEW c \in Conn, Client(c) \/ Close(c) PROVE phase' = phase
  <2>1. CASE Close(c) \/ Connect(c) \/ Leave(c) \/ LoginOut(c) \/ Reg(c)
    BY <2>1 DEF Close, Connect, Leave, LoginOut, Reg
  <2>2. CASE CreateGroup(c) \/ AddGroup(c) \/ (\E u \in User : Login(c, u))
    BY <2>2 DEF CreateGroup, AddGroup, Login
  <2>3. CASE \/ \E u \in User, m \in Msg : OneChat(c, u, m)
             \/ \E m \in Msg : GroupChat(c, m)
    <3>1. CASE \E u \in User, m \in Msg : OneChat(c, u, m)
      BY <3>1 DEF OneChat
    <3>2. CASE \E m \in Msg : GroupChat(c, m)
      BY <3>2, ZenonT(60) DEF GroupChat
    <3> QED
      BY <2>3, <3>1, <3>2
  <2> QED
    BY <1>2, <2>1, <2>2, <2>3 DEF Client
<1>3. ASSUME NEW t \in Thread, Handler(t) PROVE phase' = phase
  BY <1>3 DEF Handler, LoginQuery, LoginPut, LoginOnline, LoginRead,
     LoginDelete, LoginSend, OneForward, OneStore, CreateMember, GroupMembers,
     GroupLock, GroupForward, GroupQuery, GroupStore, GroupUnlock, CloseRemove,
     CloseOffline
<1> QED
  BY <1>1, <1>2, <1>3 DEF Next, vars

\* No key leaves the cache, and none loses its connection.
LEMMA CacheGrows ==
  ASSUME Roomy, Lasting, Types, SafeInv, OnlineIsCached, [Next]_vars
  PROVE  /\ heap.mapped \subseteq heap'.mapped
         /\ \A u \in heap'.mapped : heap'.value[u] # NoConn
         /\ \A t \in Thread : LoginPut(t) => job[t].user \in heap'.mapped
<1>1. \A how \in {"stopped", "crashed"} : ~ Die(how)
  BY StaysUp DEF Die, OnlineIsCached
<1>2. ASSUME NEW t \in Thread, LoginPut(t)
      PROVE  /\ heap'.mapped = heap.mapped \cup {job[t].user}
             /\ \A u \in heap'.mapped : heap'.value[u] # NoConn
  <2> DEFINE c == job[t].conn
             u == job[t].user
  <2>1. u \in User /\ c \in Conn /\ c # NoConn
    BY <1>2, ChatAssumption DEF LoginPut, At, Types, Jobs, Given, LoginSteps
  <2>2. /\ heap'.mapped = heap.mapped \cup {u}
        /\ heap'.value = [heap.value EXCEPT ![u] = c]
    BY <1>2, <2>1, PutIsSafe DEF LoginPut, SafeInv, Types
  <2>3. heap.value \in [User -> Conn \cup {NoConn}]
    BY DEF Types, TypeOK, Cache!Heap
  <2> HIDE DEF c, u
  <2>4. \A v \in heap'.mapped : heap'.value[v] # NoConn
    BY <2>1, <2>2, <2>3 DEF OnlineIsCached
  <2> QED
    BY <2>2, <2>4 DEF u
<1>3. ASSUME NEW t \in Thread, OneForward(t) \/ GroupForward(t) \/ CloseRemove(t)
      PROVE  heap'.mapped = heap.mapped /\ heap'.value = heap.value
  <2>1. Cache!Sound(heap) /\ GoodHeap(heap)
    BY SameBase DEF SafeInv, Facts!Safe, Types
  <2>2. CASE OneForward(t) \/ GroupForward(t)
    <3>1. PICK u : heap' = Cache!Get(heap, u)
      BY <2>2 DEF OneForward, GroupForward
    <3> QED
      BY <2>1, <3>1, GetGood
  <2>3. CASE CloseRemove(t)
    <3>1. job[t].conn \in Conn
      BY <2>3 DEF CloseRemove, At, Types, Jobs, Given
    <3> QED
      BY <2>1, <2>3, <3>1, RemoveIsGood DEF CloseRemove, Types, TypeOK
  <2> QED
    BY <1>3, <2>2, <2>3
<1>4. ASSUME UNCHANGED memory PROVE heap' = heap
  BY <1>4 DEF memory
<1>5. ASSUME UNCHANGED memory, NEW t \in Thread, LoginPut(t)
      PROVE  job[t].user \in heap'.mapped
  BY <1>2, <1>5
<1> QED
  BY <1>1, <1>2, <1>3, <1>4, <1>5, MemoryFrame DEF OnlineIsCached

\* Only a login sets a row online.
LEMMA RowFrame ==
  ASSUME Types, [Next]_vars, NEW u \in User, row'[u] = "online", row[u] # "online"
  PROVE  \E t \in Thread : LoginOnline(t) /\ job[t].pc = "login.online" /\ job[t].user = u
<1>1. ASSUME NEW c \in Conn, Client(c) \/ Close(c) PROVE row'[u] # "online"
  <2>1. CASE Reg(c)
    <3>1. row \in [User -> {"none", "offline", "online"}]
      BY DEF Types, TypeOK
    <3> QED
      BY <2>1, <3>1 DEF Reg
  <2>2. CASE (Client(c) \/ Close(c)) /\ ~ Reg(c)
    <3>1. CASE Close(c) \/ Connect(c) \/ Leave(c) \/ LoginOut(c) \/ CreateGroup(c) \/ AddGroup(c)
      BY <3>1 DEF Close, Connect, Leave, LoginOut, CreateGroup, AddGroup, tables
    <3>2. CASE \E v \in User : Login(c, v)
      BY <3>2 DEF Login, tables
    <3>3. CASE \E v \in User, m \in Msg : OneChat(c, v, m)
      BY <3>3 DEF OneChat, tables
    <3>4. CASE \E m \in Msg : GroupChat(c, m)
      BY <3>4, ZenonT(60) DEF GroupChat, tables
    <3> QED
      BY <2>2, <3>1, <3>2, <3>3, <3>4 DEF Client
  <2> QED
    BY <1>1, <2>1, <2>2
<1>2. ASSUME NEW t \in Thread, Handler(t)
      PROVE  \/ row'[u] # "online"
             \/ LoginOnline(t) /\ job[t].pc = "login.online" /\ job[t].user = u
  <2>1. CASE LoginOnline(t)
    BY <2>1 DEF LoginOnline, At, Types, TypeOK
  <2>2. CASE CloseOffline(t)
    BY <2>2 DEF CloseOffline, Types, TypeOK
  <2>3. CASE row' = row
    BY <2>3
  <2> QED
    BY <1>2, <2>1, <2>2, <2>3 DEF Handler, LoginQuery, LoginPut, LoginRead,
       LoginDelete, LoginSend, OneForward, OneStore, CreateMember,
       GroupMembers, GroupLock, GroupForward, GroupQuery, GroupStore,
       GroupUnlock, CloseRemove, tables
<1>3. CASE Process
  BY <1>3 DEF Process, SigInt, Exit, Crash, Restart, Die, tables, Types, TypeOK
<1> QED
  BY <1>1, <1>2, <1>3 DEF Next, vars, tables

\* A fate that is written is not "dropped" unless that is what is written.
LEMMA FateOther ==
  ASSUME TypeOK, NEW n, NEW v, NEW f, f # "dropped", fate' = [fate EXCEPT ![n][v] = f],
         NEW m \in Msg, NEW u \in User, fate'[m][u] = "dropped"
  PROVE  fate[m][u] = "dropped"
BY DEF TypeOK

\* A message is dropped where groupChat finds a member online and not cached.
LEMMA DropFrame ==
  ASSUME Types, [Next]_vars, NEW m \in Msg, NEW u \in User,
         fate'[m][u] = "dropped", fate[m][u] # "dropped"
  PROVE  Cache!Found(heap, u) = NoConn /\ row[u] = "online"
<1>1. ASSUME NEW c \in Conn, Client(c) \/ Close(c) PROVE fate' = fate
  BY <1>1 DEF Client, Close, Connect, Leave, LoginOut, Reg, CreateGroup,
     AddGroup, Login, OneChat, GroupChat
<1>2. ASSUME NEW t \in Thread, OneForward(t) \/ GroupForward(t)
      PROVE  FALSE
  <2>1. \A c, v : Sent(c, v) # "dropped"
    BY DEF Sent
  <2>2. CASE OneForward(t)
    <3>1. \/ fate' = fate
          \/ \E f : f # "dropped" /\ fate' = [fate EXCEPT ![job[t].msg][job[t].user] = f]
      BY <2>1, <2>2 DEF OneForward
    <3> QED
      BY <3>1, FateOther DEF Types
  <2>3. CASE GroupForward(t)
    <3>1. \E f, v : f # "dropped" /\ fate' = [fate EXCEPT ![job[t].msg][v] = f]
      BY <2>1, <2>3 DEF GroupForward
    <3> QED
      BY <3>1, FateOther DEF Types
  <2> QED
    BY <1>2, <2>2, <2>3
<1>3. ASSUME NEW t \in Thread, OneStore(t) \/ GroupStore(t)
      PROVE  FALSE
  <2>1. \E f : f # "dropped" /\ fate' = [fate EXCEPT ![job[t].msg][job[t].user] = f]
    BY <1>3 DEF OneStore, GroupStore, Insert
  <2> QED
    BY <2>1, FateOther DEF Types
<1>4. ASSUME NEW t \in Thread, LoginDelete(t)
      PROVE  FALSE
  BY <1>4 DEF LoginDelete, Types, TypeOK
<1>5. ASSUME NEW t \in Thread, LoginSend(t)
      PROVE  FALSE
  BY <1>5 DEF LoginSend, Answered, Types, TypeOK
<1>6. ASSUME NEW t \in Thread, GroupQuery(t)
      PROVE  Cache!Found(heap, u) = NoConn /\ row[u] = "online"
  <2>1. PICK w \in job[t].todo :
          /\ Cache!Found(heap, w) = NoConn
          /\ \/ row[w] = "online" /\ fate' = [fate EXCEPT ![job[t].msg][w] = "dropped"]
             \/ fate' = fate
    BY <1>6 DEF GroupQuery
  <2>2. fate \in [Msg -> [User -> Fate]]
    BY DEF Types, TypeOK
  <2> QED
    BY <2>1, <2>2
<1>7. ASSUME NEW t \in Thread,
             \/ LoginQuery(t) \/ LoginPut(t) \/ LoginOnline(t) \/ LoginRead(t)
             \/ CreateMember(t) \/ GroupMembers(t) \/ GroupLock(t) \/ GroupUnlock(t)
             \/ CloseRemove(t) \/ CloseOffline(t)
      PROVE  fate' = fate
  BY <1>7 DEF LoginQuery, LoginPut, LoginOnline, LoginRead, CreateMember,
     GroupMembers, GroupLock, GroupUnlock, CloseRemove, CloseOffline
<1>8. CASE Process
  BY <1>8 DEF Process, SigInt, Exit, Crash, Restart, Die
<1> QED
  BY <1>1, <1>2, <1>3, <1>4, <1>5, <1>6, <1>7, <1>8 DEF Next, Handler, vars

\* Only LoginPut brings a handler to the update of the row.
LEMMA OnlineFrame ==
  ASSUME Types, [Next]_vars, NEW t \in Thread, job'[t].pc = "login.online"
  PROVE  /\ job'[t].user = job[t].user
         /\ job[t].pc = "login.online" \/ LoginPut(t)
<1>1. ASSUME NEW c \in Conn, Client(c) \/ Close(c)
      PROVE  job'[t] = job[t]
  <2>1. ASSUME \/ Connect(c) \/ Leave(c) \/ LoginOut(c) \/ Reg(c) \/ AddGroup(c)
        PROVE  job' = job
    BY <2>1 DEF Connect, Leave, LoginOut, Reg, AddGroup
  <2>2. ASSUME NEW j, job' = [job EXCEPT ![LoopOf[c]] = j], j.pc # "login.online"
        PROVE  job'[t] = job[t]
    BY <2>2 DEF Types, Jobs
  <2> QED
    BY <1>1, <2>1, <2>2, ChatStarted, LoginStarted, CloseStarted DEF Client
<1>2. ASSUME NEW s \in Thread, Handler(s)
      PROVE  /\ job'[t].user = job[t].user
             /\ job[t].pc = "login.online" \/ LoginPut(t)
  <2>1. CASE LoginQuery(s) \/ LoginOnline(s) \/ LoginDelete(s) \/ LoginSend(s)
             \/ OneStore(s) \/ CreateMember(s) \/ GroupLock(s) \/ GroupStore(s)
             \/ GroupUnlock(s) \/ CloseOffline(s)
    BY <2>1 DEF LoginQuery, LoginOnline, LoginDelete, LoginSend, OneStore,
       CreateMember, GroupLock, GroupStore, GroupUnlock, CloseOffline, At,
       Goto, Finish, Idle, Types, Jobs, Job
  <2>2. CASE LoginPut(s)
    BY <2>2 DEF LoginPut, At, Goto, Types, Jobs, Job
  <2>3. CASE LoginRead(s)
    BY <2>3 DEF LoginRead, At, Types, Jobs, Job
  <2>4. CASE OneForward(s)
    BY <2>4 DEF OneForward, At, Goto, Finish, Idle, Types, Jobs, Job
  <2>5. CASE GroupMembers(s)
    BY <2>5 DEF GroupMembers, At, Types, Jobs, Job
  <2>6. CASE GroupForward(s)
    BY <2>6 DEF GroupForward, At, Types, Jobs, Job
  <2>7. CASE GroupQuery(s)
    BY <2>7 DEF GroupQuery, At, Types, Jobs, Job
  <2>8. CASE CloseRemove(s)
    BY <2>8 DEF CloseRemove, At, Finish, Idle, Types, Jobs, Job
  <2> QED
    BY <1>2, <2>1, <2>2, <2>3, <2>4, <2>5, <2>6, <2>7, <2>8 DEF Handler
<1>3. CASE Process
  BY <1>3 DEF Process, SigInt, Exit, Crash, Restart, Die, Idle
<1> QED
  BY <1>1, <1>2, <1>3 DEF Next, vars

\* Every step keeps the users who are online in the cache.
LEMMA DropStep ==
  ASSUME Roomy, Lasting, Types, SafeInv, DropInv, [Next]_vars
  PROVE  DropInv'
<1>1. phase' = "up"
  BY StaysUp DEF DropInv, OnlineIsCached
<1>2. /\ heap.mapped \subseteq heap'.mapped
      /\ \A u \in heap'.mapped : heap'.value[u] # NoConn
      /\ \A t \in Thread : LoginPut(t) => job[t].user \in heap'.mapped
  BY CacheGrows DEF DropInv
<1>3. ASSUME NEW u \in User, row'[u] = "online" PROVE u \in heap'.mapped
  BY <1>2, <1>3, RowFrame DEF DropInv, OnlineIsCached
<1>4. ASSUME NEW t \in Thread, job'[t].pc = "login.online"
      PROVE  job'[t].user \in heap'.mapped
  BY <1>2, <1>4, OnlineFrame DEF DropInv, OnlineIsCached
<1>5. ASSUME NEW m \in Msg, NEW u \in User PROVE fate'[m][u] # "dropped"
  BY <1>5, DropFrame DEF DropInv, OnlineIsCached, Cache!Found
<1> QED
  BY <1>1, <1>2, <1>3, <1>4, <1>5 DEF DropInv, OnlineIsCached

\* So they always are.
LEMMA DropAlways ==
  ASSUME Roomy, Lasting
  PROVE  Spec => []DropInv
<1>1. Init => DropInv
  BY DEF Init, DropInv, OnlineIsCached, Idle, Cache!EmptyHeap
<1>2. Types /\ SafeInv /\ DropInv /\ [Next]_vars => DropInv'
  BY DropStep
<1>3. Spec => []SafeInv
  BY SafeAlways
<1> QED
  BY <1>1, <1>2, <1>3, TypesAlways, PTL DEF Spec

\* With room in the cache for every user and a process that does not restart,
\* no member of a group is found online and not cached, however the handlers of
\* any number of IO threads interleave (chatservice.cpp:98-106, 312-318).
THEOREM ChatNeverDrops ==
  ASSUME IsFiniteSet(User), {"crash", "sigint"} \cap Env = {}
  PROVE  Spec => []NeverDropped
<1>1. CASE Roomy
  <2>1. Lasting
    BY DEF Lasting
  <2>2. DropInv => NeverDropped
    BY DEF DropInv, NeverDropped
  <2>3. Spec => []DropInv
    BY <1>1, <2>1, DropAlways
  <2> QED
    BY <2>2, <2>3, PTL
<1>2. CASE ~ Roomy
  <2>1. NeverDropped
    BY <1>2 DEF NeverDropped, Roomy
  <2> QED
    BY <2>1, PTL
<1> QED
  BY <1>1, <1>2

-----------------------------------------------------------------------------
(* Sessions. *)

\* Neither the process nor a client's session ends early, and no statement
\* fails.
Orderly == {"crash", "sigint", "loginout", "dbfail"} \cap Env = {}

\* A client that is logged in has an open connection, bound to its user.
SessionIsBound ==
  \A c \in Conn : session[c] # NoUser => link[c] = "open" /\ connUser[c] = session[c]

\* A connection is not closed under a login: its loop is busy with it.
LoginIsLinked ==
  \A t \in Thread : job[t].pc \in LoginSteps => link[job[t].conn] \in {"open", "gone"}

SessionInv ==
  /\ phase = "up" /\ SessionIsBound /\ LoginIsLinked
  /\ \A u \in User : row[u] = "online" => Served(u)

\* What such an environment leaves out.
LEMMA OrderlyLasts == Orderly => Lasting /\ "loginout" \notin Env /\ Outcome = {TRUE}
BY DEF Orderly, Lasting, Outcome

\* A handler under way is disturbed by nobody.
LEMMA JobFrame ==
  ASSUME Types, phase' = "up", [Next]_vars, NEW t \in Thread, job[t] # Idle
  PROVE  job'[t] = job[t] \/ Handler(t)
<1>1. ASSUME NEW c \in Conn, Client(c) \/ Close(c) PROVE job'[t] = job[t]
  <2>1. CASE job' = job
    BY <2>1
  <2>2. ASSUME NEW j, job[LoopOf[c]] = Idle, job' = [job EXCEPT ![LoopOf[c]] = j]
        PROVE  job'[t] = job[t]
    BY <2>2 DEF Types, Jobs
  <2> QED
    BY <1>1, <2>1, <2>2 DEF Client, Close, Connect, Leave, LoginOut, Reg,
       CreateGroup, AddGroup, Login, OneChat, GroupChat, Receive
<1>2. ASSUME NEW s \in Thread, Handler(s), s # t PROVE job'[t] = job[t]
  BY <1>2 DEF Handler, LoginQuery, LoginPut, LoginOnline, LoginRead,
     LoginDelete, LoginSend, OneForward, OneStore, CreateMember, GroupMembers,
     GroupLock, GroupForward, GroupQuery, GroupStore, GroupUnlock, CloseRemove,
     CloseOffline, Goto, Finish, Types, Jobs
<1>3. CASE Process
  BY <1>3 DEF Process, SigInt, Exit, Crash, Restart, Die
<1> QED
  BY <1>1, <1>2, <1>3 DEF Next, vars

\* What can become of a connection, and of its client's session.
LEMMA LinkFrame ==
  ASSUME Types, SessionInv, "loginout" \notin Env, phase' = "up", [Next]_vars,
         NEW c \in Conn
  PROVE  /\ \/ link'[c] = link[c] \/ Connect(c) \/ Leave(c) \/ Close(c)
         /\ \/ session'[c] = session[c] \/ Leave(c)
            \/ \E t \in Thread : LoginSend(t) /\ job[t].conn = c
<1>1. ASSUME NEW d \in Conn, Client(d) \/ Close(d)
      PROVE  /\ link'[c] = link[c] \/ Connect(c) \/ Leave(c) \/ Close(c)
             /\ session'[c] = session[c] \/ Leave(c)
  <2>1. CASE Connect(d) \/ Leave(d) \/ Close(d)
    BY <2>1 DEF Connect, Leave, Close, Types, TypeOK
  <2>2. CASE UNCHANGED <<link, session>>
    BY <2>2
  <2>3. ~ LoginOut(d)
    BY DEF LoginOut
  <2> QED
    BY <1>1, <2>1, <2>2, <2>3 DEF Client, Reg, CreateGroup, AddGroup, Login,
       OneChat, GroupChat, world
<1>2. ASSUME NEW t \in Thread, Handler(t)
      PROVE  /\ link'[c] = link[c]
             /\ session'[c] = session[c] \/ (LoginSend(t) /\ job[t].conn = c)
  <2>1. CASE LoginSend(t)
    BY <2>1 DEF LoginSend, Types, TypeOK
  <2>2. CASE UNCHANGED <<link, session>>
    BY <2>2
  <2> QED
    BY <1>2, <2>1, <2>2 DEF Handler, LoginQuery, LoginPut, LoginOnline,
       LoginRead, LoginDelete, OneForward, OneStore, CreateMember,
       GroupMembers, GroupLock, GroupForward, GroupQuery, GroupStore,
       GroupUnlock, CloseRemove, CloseOffline, world
<1>3. CASE Process
  BY <1>3 DEF Process, SigInt, Exit, Crash, Restart, Die, SessionInv, world
<1> QED
  BY <1>1, <1>2, <1>3 DEF Next, vars, world

\* A connection is bound once.
LEMMA BindFrame ==
  ASSUME Types, phase' = "up", [Next]_vars, NEW c \in Conn, connUser[c] # NoUser
  PROVE  connUser'[c] = connUser[c]
<1>1. ASSUME NEW t \in Thread, LoginPut(t) PROVE connUser'[c] = connUser[c]
  BY <1>1 DEF LoginPut, Types, TypeOK
<1>2. \A how \in {"stopped", "crashed"} : ~ Die(how)
  BY DEF Die
<1> QED
  BY <1>1, <1>2, MemoryFrame DEF memory, OneForward, GroupForward, CloseRemove

\* A login under way was under way, or has just been received.
LEMMA LoginFrame ==
  ASSUME Types, DeliveryInv, phase' = "up", [Next]_vars,
         NEW t \in Thread, job'[t].pc \in LoginSteps
  PROVE  \/ job[t].pc \in LoginSteps /\ job'[t].conn = job[t].conn
         \/ \E c \in Conn : job'[t].conn = c /\ link'[c] = "open"
<1>1. LoginSteps = Early \cup Later
  BY DEF LoginSteps, Early, Later
<1>2. ASSUME NEW s \in Thread, Handler(s)
      PROVE  job[t].pc \in LoginSteps /\ job'[t].conn = job[t].conn
  <2>1. CASE LoginPut(s)
    BY <2>1 DEF LoginPut, At, Goto, Types, Jobs, Job, LoginSteps
  <2>2. CASE LoginSend(s)
    BY <2>2 DEF LoginSend, Finish, Idle, LoginSteps, Types, Jobs
  <2>3. CASE Quiet
    BY <1>1, <2>3 DEF Quiet, QuietJob
  <2> QED
    BY <1>2, <2>1, <2>2, <2>3, QuietHandler DEF Handler
<1>3. ASSUME NEW c \in Conn, NEW u \in User, Login(c, u)
      PROVE  \/ job'[t] = job[t]
             \/ job'[t].conn = c /\ link'[c] = "open"
  BY <1>3, LoginStarted DEF Login, Receive, world, Types, Jobs
<1>4. ASSUME NEW c \in Conn, Close(c)
      PROVE  job'[t] = job[t]
  BY <1>4, CloseStarted DEF Types, Jobs, LoginSteps
<1>5. ASSUME NEW c \in Conn,
             \/ CreateGroup(c)
             \/ \E u \in User, m \in Msg : OneChat(c, u, m)
             \/ \E m \in Msg : GroupChat(c, m)
      PROVE  job'[t] = job[t]
  BY <1>5, ChatStarted DEF Types, Jobs, LoginSteps
<1>6. ASSUME NEW c \in Conn, Connect(c) \/ Leave(c) \/ LoginOut(c) \/ Reg(c) \/ AddGroup(c)
      PROVE  job' = job
  BY <1>6 DEF Connect, Leave, LoginOut, Reg, AddGroup
<1>7. CASE Process
  BY <1>7 DEF Process, SigInt, Exit, Crash, Restart, Die
<1> QED
  BY <1>2, <1>3, <1>4, <1>5, <1>6, <1>7 DEF Next, Client, vars

\* A session is opened on the connection its login bound, and ends before it.
LEMMA SessionIsBoundStep ==
  ASSUME Types, DeliveryInv, SessionInv, "loginout" \notin Env, phase' = "up", [Next]_vars
  PROVE  SessionIsBound'
<1> SUFFICES ASSUME NEW c \in Conn, session'[c] # NoUser
             PROVE  link'[c] = "open" /\ connUser'[c] = session'[c]
  BY DEF SessionIsBound
<1>1. ~ Leave(c)
  BY DEF Leave, Types, TypeOK
<1>2. CASE session'[c] = session[c]
  <2>1. link[c] = "open" /\ connUser[c] = session[c]
    BY <1>2 DEF SessionInv, SessionIsBound
  <2>2. link'[c] = "open"
    BY <1>1, <2>1, LinkFrame DEF Connect, Close
  <2> QED
    BY <1>2, <2>1, <2>2, BindFrame
<1>3. ASSUME NEW t \in Thread, LoginSend(t), job[t].conn = c, session'[c] # session[c]
      PROVE  link'[c] = "open" /\ connUser'[c] = session'[c]
  <2>1. connUser[c] = job[t].user
    BY <1>3 DEF LoginSend, At, DeliveryInv, NowBound, Later
  <2> QED
    BY <1>3, <2>1 DEF LoginSend, memory, Types, TypeOK
<1> QED
  BY <1>1, <1>2, <1>3, LinkFrame

\* A login starts on an open connection, and its loop closes none meanwhile.
LEMMA LoginIsLinkedStep ==
  ASSUME Types, DeliveryInv, SessionInv, "loginout" \notin Env, phase' = "up", [Next]_vars
  PROVE  LoginIsLinked'
<1> SUFFICES ASSUME NEW t \in Thread, job'[t].pc \in LoginSteps
             PROVE  link'[job'[t].conn] \in {"open", "gone"}
  BY DEF LoginIsLinked
<1>1. CASE job[t].pc \in LoginSteps /\ job'[t].conn = job[t].conn
  <2> DEFINE c == job[t].conn
  <2>1. c \in Conn /\ link[c] \in {"open", "gone"} /\ LoopOf[c] = t
    BY <1>1, ChatAssumption
       DEF Types, Jobs, Given, SessionInv, LoginIsLinked, DeliveryInv, OwnLoop
  <2>2. ~ Close(c)
    BY <1>1, <2>1 DEF Close, Idle, LoginSteps
  <2>3. Leave(c) => link'[c] = "gone"
    BY <2>1 DEF Leave, Types, TypeOK
  <2>4. ~ Connect(c)
    BY <2>1 DEF Connect
  <2> QED
    BY <1>1, <2>1, <2>2, <2>3, <2>4, LinkFrame
<1>2. CASE \E c \in Conn : job'[t].conn = c /\ link'[c] = "open"
  BY <1>2
<1> QED
  BY <1>1, <1>2, LoginFrame

\* Who serves a user goes on doing so, or hands over, until the row is offline.
LEMMA ServedStep ==
  ASSUME Types, DeliveryInv, SessionInv, Orderly, phase' = "up", [Next]_vars,
         NEW u \in User, Served(u), row'[u] = "online"
  PROVE  Served(u)'
<1>0. "loginout" \notin Env /\ Outcome = {TRUE}
  BY OrderlyLasts
<1>1. ASSUME NEW c \in Conn, session[c] = u PROVE Served(u)'
  <2>1. u # NoUser /\ link[c] = "open" /\ connUser[c] = u
    BY <1>1, ChatAssumption DEF SessionInv, SessionIsBound
  <2>2. connUser'[c] = u
    BY <2>1, BindFrame
  <2>3. CASE Leave(c)
    BY <2>2, <2>3 DEF Leave, Served, Types, TypeOK
  <2>4. ASSUME NEW t \in Thread, LoginSend(t), job[t].conn = c
        PROVE  session'[c] = u
    BY <2>1, <2>4 DEF LoginSend, At, DeliveryInv, NowBound, Later, Types, TypeOK
  <2>5. CASE session'[c] = u
    BY <2>5 DEF Served
  <2> QED
    BY <1>0, <1>1, <2>3, <2>4, <2>5, LinkFrame
<1>2. ASSUME NEW c \in Conn, connUser[c] = u, link[c] = "gone" PROVE Served(u)'
  <2>1. connUser'[c] = u
    BY <1>2, BindFrame, ChatAssumption
  <2>2. CASE link'[c] = "gone"
    BY <2>1, <2>2 DEF Served
  <2>3. CASE Close(c)
    <3>1. LoopOf[c] \in Thread
      BY ChatAssumption
    <3>2. job'[LoopOf[c]].pc = "close.remove" /\ job'[LoopOf[c]].conn = c
      BY <2>3, <3>1, CloseStarted DEF Types, Jobs
    <3> QED
      BY <2>1, <3>1, <3>2 DEF Served
  <2> QED
    BY <1>0, <1>2, <2>2, <2>3, LinkFrame DEF Connect, Leave
<1>3. ASSUME NEW t \in Thread, job[t].user = u,
             job[t].pc \in {"login.read", "login.delete", "login.send", "close.offline"}
      PROVE  Served(u)'
  <2>1. job[t] # Idle
    BY <1>3 DEF Idle
  <2>2. CASE job'[t] = job[t]
    BY <1>3, <2>2 DEF Served
  <2>3. CASE Handler(t)
    <3>1. CASE job[t].pc \in {"login.read", "login.delete"}
      <4>1. LoginRead(t) \/ LoginDelete(t)
        BY <2>3, <3>1 DEF Handler, At, LoginQuery, LoginPut, LoginOnline,
           LoginSend, OneForward, OneStore, CreateMember, GroupMembers,
           GroupLock, GroupForward, GroupQuery, GroupStore, GroupUnlock,
           CloseRemove, CloseOffline
      <4>2. job'[t].pc \in Later /\ job'[t].user = u
        BY <1>3, <3>1, <4>1, QuietHandler DEF Quiet, QuietJob, Later
      <4>3. job'[t].pc # "login.online"
        BY <3>1, <4>1, OnlineFrame DEF LoginPut, At
      <4> QED
        BY <4>2, <4>3 DEF Served, Later
    <3>2. CASE job[t].pc = "login.send"
      <4> DEFINE c == job[t].conn
      <4>1. LoginSend(t)
        BY <2>3, <3>2 DEF Handler, At, LoginQuery, LoginPut, LoginOnline,
           LoginRead, LoginDelete, OneForward, OneStore, CreateMember,
           GroupMembers, GroupLock, GroupForward, GroupQuery, GroupStore,
           GroupUnlock, CloseRemove, CloseOffline
      <4>2. /\ c \in Conn /\ link[c] \in {"open", "gone"} /\ connUser[c] = u
        BY <1>3, <3>2 DEF Types, Jobs, Given, LoginSteps, SessionInv,
           LoginIsLinked, DeliveryInv, NowBound, Later
      <4>3. connUser' = connUser /\ link' = link
        BY <4>1 DEF LoginSend, memory
      <4>4. link[c] = "open" => session'[c] = u
        BY <1>3, <4>1, <4>2 DEF LoginSend, Types, TypeOK
      <4> QED
        BY <4>2, <4>3, <4>4 DEF Served
    <3>3. CASE job[t].pc = "close.offline"
      <4>1. CloseOffline(t)
        BY <2>3, <3>3 DEF Handler, At, LoginQuery, LoginPut, LoginOnline,
           LoginRead, LoginDelete, LoginSend, OneForward, OneStore,
           CreateMember, GroupMembers, GroupLock, GroupForward, GroupQuery,
           GroupStore, GroupUnlock, CloseRemove
      <4>2. row'[u] = "offline"
        BY <1>0, <1>3, <4>1 DEF CloseOffline, Types, TypeOK
      <4> QED
        BY <4>2
    <3> QED
      BY <1>3, <3>1, <3>2, <3>3
  <2> QED
    BY <2>1, <2>2, <2>3, JobFrame
<1>4. ASSUME NEW t \in Thread, job[t].pc = "close.remove", connUser[job[t].conn] = u
      PROVE  Served(u)'
  <2>1. job[t] # Idle /\ job[t].conn \in Conn
    BY <1>4 DEF Idle, Types, Jobs, Given
  <2>2. CASE job'[t] = job[t]
    <3>1. connUser'[job[t].conn] = u
      BY <1>4, <2>1, BindFrame, ChatAssumption
    <3> QED
      BY <1>4, <2>2, <3>1 DEF Served
  <2>3. CASE Handler(t)
    <3>1. CloseRemove(t)
      BY <1>4, <2>3 DEF Handler, At, LoginQuery, LoginPut, LoginOnline,
         LoginRead, LoginDelete, LoginSend, OneForward, OneStore, CreateMember,
         GroupMembers, GroupLock, GroupForward, GroupQuery, GroupStore,
         GroupUnlock, CloseOffline
    <3>2. job' = [job EXCEPT ![t].user = u, ![t].pc = "close.offline"]
      BY <1>4, <3>1, ChatAssumption DEF CloseRemove
    <3>3. job'[t].user = u /\ job'[t].pc = "close.offline"
      BY <3>2 DEF Types, Jobs, Job
    <3> QED
      BY <3>3 DEF Served
  <2> QED
    BY <2>1, <2>2, <2>3, JobFrame
<1> QED
  BY <1>1, <1>2, <1>3, <1>4 DEF Served

\* A row is set online by a login that goes on to read the messages.
LEMMA OnlineIsServed ==
  ASSUME Types, [Next]_vars, NEW u \in User, row'[u] = "online", row[u] # "online",
         phase' = "up"
  PROVE  Served(u)'
<1>1. PICK t \in Thread : LoginOnline(t) /\ job[t].user = u
  BY RowFrame
<1>2. job'[t].pc = "login.read" /\ job'[t].user = u
  BY <1>1 DEF LoginOnline, Goto, Types, Jobs, Job
<1> QED
  BY <1>2 DEF Served

\* Every step keeps somebody behind each row that says online.
LEMMA SessionStep ==
  ASSUME Roomy, Orderly, Types, SafeInv, DeliveryInv, SessionInv, [Next]_vars
  PROVE  SessionInv'
<1>1. phase' = "up"
  BY OrderlyLasts, StaysUp DEF SessionInv
<1>2. SessionIsBound' /\ LoginIsLinked'
  BY <1>1, OrderlyLasts, SessionIsBoundStep, LoginIsLinkedStep
<1>3. ASSUME NEW u \in User, row'[u] = "online" PROVE Served(u)'
  BY <1>1, <1>3, ServedStep, OnlineIsServed DEF SessionInv
<1> QED
  BY <1>1, <1>2, <1>3 DEF SessionInv

\* With room in the cache for every user, and an environment in which neither
\* the process nor a session ends early and no statement fails, a row that says
\* online has somebody behind it, or somebody about to set it offline: the
\* login of a user is never refused for good (chatservice.cpp:88, 105-106,
\* 212-233).
THEOREM ChatOnlineHasClient ==
  ASSUME IsFiniteSet(User), Cardinality(User) <= Capacity,
         {"crash", "sigint", "loginout", "dbfail"} \cap Env = {}
  PROVE  Spec => []OnlineHasClient
<1>1. Roomy /\ Orderly
  BY DEF Roomy, Orderly
<1>2. Init => DeliveryInv /\ SessionInv
  <2>1. Init => DeliveryInv
    BY DeliveryInit
  <2>2. Init => SessionInv
    BY DEF Init, SessionInv, SessionIsBound, LoginIsLinked, Idle, LoginSteps
  <2> QED
    BY <2>1, <2>2
<1>3. Types /\ DeliveryInv /\ [Next]_vars => DeliveryInv'
  BY <1>1, OrderlyLasts, DeliveryStep
<1>4. Types /\ SafeInv /\ DeliveryInv /\ SessionInv /\ [Next]_vars => SessionInv'
  BY <1>1, SessionStep
<1>5. SessionInv => OnlineHasClient
  BY DEF SessionInv, OnlineHasClient
<1>6. Spec => []SafeInv
  BY <1>1, SafeAlways
<1> QED
  BY <1>2, <1>3, <1>4, <1>5, <1>6, TypesAlways, PTL DEF Spec

-----------------------------------------------------------------------------
(* SingleSession: a user is logged in once.                               *)

\* One IO loop, and neither SIGINT nor failing statements: clients may leave
\* or log out, and the process may crash.
OneLoop == \A c, d \in Conn : LoopOf[c] = LoopOf[d]
Steady == {"sigint", "dbfail"} \cap Env = {}

\* The handler of t logs u in on c, and has found the user offline.
Accepted == {"login.put", "login.online", "login.read", "login.delete", "login.send"}
LogsIn(t, c, u) == job[t].conn = c /\ job[t].user = u /\ job[t].pc \in Accepted

\* The handler of t sets the user of c offline.
Closing == {"close.remove", "close.offline"}
Closes(t, c) == job[t].conn = c /\ job[t].pc \in Closing

\* A connection has a claim on a user from the query that accepts its login
\* until the user's row is set offline for its sake.
Claim(c, u) ==
  \/ session[c] = u
  \/ \E t \in Thread : LogsIn(t, c, u)
  \/ /\ connUser[c] = u
     /\ link[c] \in {"open", "gone"} \/ \E t \in Thread : Closes(t, c)

\* The row does not show the claim yet.
Pending(c, u) ==
  \E t \in Thread : LogsIn(t, c, u) /\ job[t].pc \in {"login.put", "login.online"}

OneClaim == \A c, d \in Conn, u \in User : Claim(c, u) /\ Claim(d, u) => c = d

ClaimShown ==
  \A c \in Conn, u \in User : Claim(c, u) =>
    row[u] = "online" \/ (row[u] = "offline" /\ Pending(c, u))

\* No two handlers run at a time.
Alone == \A t \in Thread : job[t] # Idle => \E c \in Conn : LoopOf[c] = t

\* Who is logged in is connected.
SessionOpen == \A c \in Conn : session[c] # NoUser => link[c] = "open"

\* A connection is closed before its user is set offline.
CloserDead ==
  \A t \in Thread :
    /\ job[t].pc \in Closing => job[t].conn \in Conn /\ link[job[t].conn] = "dead"
    /\ job[t].pc = "close.offline" => job[t].user = connUser[job[t].conn]

ApartInv ==
  /\ phase # "exiting"
  /\ Alone /\ SessionOpen /\ CloserDead /\ LoginIsLinked /\ UnusedIsFree
  /\ OneClaim /\ ClaimShown

\* While a handler runs, the other threads are idle.
LEMMA OthersIdle ==
  ASSUME OneLoop, Alone, NEW t \in Thread, job[t] # Idle
  PROVE  \A s \in Thread : s # t => job[s] = Idle
BY DEF Alone, OneLoop

\* So are all of them when a handler starts.
LEMMA AllIdle ==
  ASSUME OneLoop, Alone, NEW c \in Conn, job[LoopOf[c]] = Idle
  PROVE  \A s \in Thread : job[s] = Idle
BY DEF Alone, OneLoop

\* What has a claim in the end had it before.
LEMMA Inherited ==
  ASSUME OneClaim, ClaimShown,
         \A c \in Conn, u \in User : Claim(c, u)' =>
           /\ Claim(c, u)
           /\ row'[u] = "online" \/ (row'[u] = "offline" /\ Pending(c, u)')
  PROVE  OneClaim' /\ ClaimShown'
<1>1. OneClaim'
  BY DEF OneClaim
<1>2. ClaimShown'
  BY DEF ClaimShown
<1> QED
  BY <1>1, <1>2

\* A handler that works on no connection starts.
LEMMA ApartStarted ==
  ASSUME OneLoop, Types, ApartInv, NEW c \in Conn, NEW j,
         job[LoopOf[c]] = Idle, job' = [job EXCEPT ![LoopOf[c]] = j],
         j.pc \notin Accepted \cup Closing,
         j.pc \in LoginSteps => link[j.conn] = "open",
         UNCHANGED <<row, connUser, link, session, phase>>
  PROVE  ApartInv'
<1>1. LoopOf[c] \in Thread /\ \A s \in Thread : job[s] = Idle
  BY AllIdle, ChatAssumption DEF ApartInv
<1>2. \A s \in Thread : job'[s] = IF s = LoopOf[c] THEN j ELSE Idle
  BY <1>1 DEF Types, Jobs
<1>3. \A s \in Thread : job'[s].pc \notin Accepted \cup Closing
  BY <1>2 DEF Idle, Accepted, Closing
<1>4. Alone' /\ SessionOpen' /\ CloserDead' /\ UnusedIsFree' /\ phase' # "exiting"
  BY <1>2, <1>3 DEF ApartInv, Alone, SessionOpen, CloserDead, UnusedIsFree,
     Closing
<1>5. LoginIsLinked'
  BY <1>2 DEF LoginIsLinked, Idle, LoginSteps
<1>6. ASSUME NEW d \in Conn, NEW u \in User, Claim(d, u)'
      PROVE  Claim(d, u) /\ row'[u] = "online"
  <2>1. Claim(d, u)
    BY <1>3, <1>6 DEF Claim, LogsIn, Closes
  <2>2. ~ Pending(d, u)
    BY <1>1 DEF Pending, LogsIn, Idle
  <2> QED
    BY <2>1, <2>2 DEF ApartInv, ClaimShown
<1>7. OneClaim' /\ ClaimShown'
  BY <1>6, Inherited DEF ApartInv
<1> QED
  BY <1>4, <1>5, <1>7 DEF ApartInv

\* The clients, other than by starting a handler.
LEMMA ApartClient ==
  ASSUME OneLoop, Types, ApartInv, NEW c \in Conn,
         Connect(c) \/ Leave(c) \/ LoginOut(c) \/ Reg(c) \/ AddGroup(c)
  PROVE  ApartInv'
<1>1. job' = job /\ phase' = phase /\ connUser' = connUser
  BY DEF Connect, Leave, LoginOut, Reg, AddGroup, memory
<1>2. \A d \in Conn :
        /\ session'[d] \in {session[d], NoUser}
        /\ session'[d] # NoUser => link'[d] = link[d]
        /\ link'[d] \in {"open", "gone"} =>
             \/ link[d] \in {"open", "gone"}
             \/ connUser[d] = NoUser
        /\ link[d] = "dead" => link'[d] = "dead"
        /\ link[d] \in {"open", "gone"} => link'[d] \in {"open", "gone"}
        /\ link'[d] = "unused" => link[d] = "unused"
  <2>1. CASE Connect(c)
    BY <2>1 DEF Connect, Types, TypeOK, ApartInv, UnusedIsFree, SessionOpen
  <2>2. CASE Leave(c)
    BY <2>2 DEF Leave, Types, TypeOK
  <2>3. CASE LoginOut(c)
    BY <2>3 DEF LoginOut, Types, TypeOK
  <2>4. CASE Reg(c) \/ AddGroup(c)
    BY <2>4 DEF Reg, AddGroup, world
  <2> QED
    BY <2>1, <2>2, <2>3, <2>4
<1>3. \A u \in User : /\ row[u] = "online" => row'[u] = "online"
                      /\ row[u] = "offline" => row'[u] = "offline"
  BY DEF Connect, Leave, LoginOut, Reg, AddGroup, tables, Types, TypeOK
<1>4. Alone' /\ SessionOpen' /\ UnusedIsFree' /\ phase' # "exiting"
  BY <1>1, <1>2 DEF ApartInv, Alone, SessionOpen, UnusedIsFree
<1>5. CloserDead'
  BY <1>1, <1>2 DEF ApartInv, CloserDead
<1>6. LoginIsLinked'
  <2>1. \A t \in Thread : job[t].pc \in LoginSteps => job[t].conn \in Conn
    BY DEF Types, Jobs, Given
  <2> QED
    BY <1>1, <1>2, <2>1 DEF ApartInv, LoginIsLinked
<1>7. ASSUME NEW d \in Conn, NEW u \in User, Claim(d, u)'
      PROVE  /\ Claim(d, u)
             /\ row'[u] = "online" \/ (row'[u] = "offline" /\ Pending(d, u)')
  <2>1. u # NoUser
    BY ChatAssumption
  <2>2. Claim(d, u)
    BY <1>1, <1>2, <1>7, <2>1 DEF Claim, LogsIn, Closes
  <2>3. Pending(d, u)' <=> Pending(d, u)
    BY <1>1 DEF Pending, LogsIn
  <2> QED
    BY <1>3, <2>2, <2>3 DEF ApartInv, ClaimShown
<1>8. OneClaim' /\ ClaimShown'
  BY <1>7, Inherited DEF ApartInv
<1> QED
  BY <1>4, <1>5, <1>6, <1>8 DEF ApartInv

\* Nothing changes, or the process ends or starts.
LEMMA ApartProcess ==
  ASSUME Steady, Types, ApartInv, Process \/ UNCHANGED vars
  PROVE  ApartInv'
<1>1. CASE Restart \/ UNCHANGED vars
  <2>1. UNCHANGED <<row, connUser, link, session, job>> /\ phase' # "exiting"
    BY <1>1 DEF Restart, vars, tables, memory, world, ApartInv
  <2> QED
    BY <2>1 DEF ApartInv, Alone, SessionOpen, CloserDead, LoginIsLinked,
       UnusedIsFree, OneClaim, ClaimShown, Claim, Pending, LogsIn, Closes
<1>2. ASSUME NEW how \in {"stopped", "crashed"}, Die(how) PROVE ApartInv'
  <2>1. /\ phase' # "exiting"
        /\ \A t \in Thread : job'[t] = Idle
        /\ \A c \in Conn : connUser'[c] = NoUser /\ session'[c] = NoUser
    BY <1>2 DEF Die
  <2>2. \A c \in Conn, u \in User : ~ Claim(c, u)'
    BY <2>1, ChatAssumption DEF Claim, LogsIn, Closes, Idle, Accepted, Closing
  <2>3. Alone' /\ SessionOpen' /\ CloserDead' /\ LoginIsLinked' /\ UnusedIsFree'
    BY <2>1 DEF Alone, SessionOpen, CloserDead, LoginIsLinked, UnusedIsFree,
       Idle, Closing, LoginSteps
  <2>4. OneClaim' /\ ClaimShown'
    BY <2>2 DEF OneClaim, ClaimShown
  <2> QED
    BY <2>1, <2>3, <2>4 DEF ApartInv
<1>3. ~ SigInt /\ ~ Exit
  BY DEF Steady, SigInt, Exit, ApartInv
<1> QED
  BY <1>1, <1>2, <1>3 DEF Process, Crash

\* A connection is closed: its claim is now that of the handler.
LEMMA ApartClose ==
  ASSUME OneLoop, Types, ApartInv, NEW c \in Conn, Close(c)
  PROVE  ApartInv'
<1>1. LoopOf[c] \in Thread /\ \A s \in Thread : job[s] = Idle
  BY AllIdle, ChatAssumption DEF ApartInv, Close
<1>2. PICK j : /\ job' = [job EXCEPT ![LoopOf[c]] = j]
               /\ j.pc = "close.remove" /\ j.conn = c
  BY CloseStarted
<1>3. \A s \in Thread : job'[s] = IF s = LoopOf[c] THEN j ELSE Idle
  BY <1>1, <1>2 DEF Types, Jobs
<1>4. /\ UNCHANGED <<row, connUser, session, phase>>
      /\ link[c] = "gone" /\ link' = [link EXCEPT ![c] = "dead"]
      /\ link'[c] = "dead" /\ \A d \in Conn : d # c => link'[d] = link[d]
  BY DEF Close, tables, memory, Types, TypeOK
<1>5. Alone' /\ SessionOpen' /\ UnusedIsFree' /\ phase' # "exiting"
  BY <1>3, <1>4 DEF ApartInv, Alone, SessionOpen, UnusedIsFree
<1>6. CloserDead' /\ LoginIsLinked'
  BY <1>2, <1>3, <1>4 DEF CloserDead, LoginIsLinked, Idle, Closing, LoginSteps
<1>7. ASSUME NEW d \in Conn, NEW u \in User, Claim(d, u)'
      PROVE  Claim(d, u) /\ row'[u] = "online"
  <2>1. \A s \in Thread : ~ LogsIn(s, d, u)'
    BY <1>2, <1>3 DEF LogsIn, Idle, Accepted
  <2>2. \A s \in Thread : Closes(s, d)' => d = c
    BY <1>2, <1>3 DEF Closes, Idle, Closing
  <2>3. Claim(d, u)
    BY <1>4, <1>7, <2>1, <2>2 DEF Claim
  <2>4. ~ Pending(d, u)
    BY <1>1 DEF Pending, LogsIn, Idle
  <2> QED
    BY <1>4, <2>3, <2>4 DEF ApartInv, ClaimShown
<1>8. OneClaim' /\ ClaimShown'
  BY <1>7, Inherited DEF ApartInv
<1> QED
  BY <1>5, <1>6, <1>8 DEF ApartInv

\* A handler goes on or ends, and neither starts nor ends a claim.
LEMMA ApartQuiet ==
  ASSUME OneLoop, Types, ApartInv, NEW t \in Thread, job[t] # Idle,
         \A s \in Thread : s # t => job'[s] = job[s],
         UNCHANGED <<row, connUser, link, session, phase>>,
         job[t].pc \notin {"login.put", "login.online"},
         job'[t].pc \notin Closing \cup {"login.query", "login.put", "login.online"},
         job'[t].pc \in LoginSteps =>
           /\ job[t].pc \in Accepted
           /\ job'[t].conn = job[t].conn /\ job'[t].user = job[t].user
  PROVE  ApartInv'
<1>1. \A s \in Thread : s # t => job[s] = Idle
  BY OthersIdle DEF ApartInv
<1>2. Alone' /\ SessionOpen' /\ UnusedIsFree' /\ phase' # "exiting"
  BY DEF ApartInv, Alone, SessionOpen, UnusedIsFree
<1>3. CloserDead'
  BY <1>1 DEF CloserDead, Idle, Closing
<1>4. LoginIsLinked'
  BY <1>1 DEF ApartInv, LoginIsLinked, Idle, Accepted, LoginSteps
<1>5. ASSUME NEW d \in Conn, NEW u \in User, Claim(d, u)'
      PROVE  Claim(d, u) /\ row'[u] = "online"
  <2>1. \A s \in Thread : LogsIn(s, d, u)' => LogsIn(s, d, u)
    BY DEF LogsIn, Accepted, LoginSteps
  <2>2. \A s \in Thread : Closes(s, d)' => Closes(s, d)
    BY DEF Closes
  <2>3. Claim(d, u)
    BY <1>5, <2>1, <2>2 DEF Claim
  <2>4. ~ Pending(d, u)
    BY <1>1 DEF Pending, LogsIn, Idle
  <2> QED
    BY <2>3, <2>4 DEF ApartInv, ClaimShown
<1>6. OneClaim' /\ ClaimShown'
  BY <1>5, Inherited DEF ApartInv
<1> QED
  BY <1>2, <1>3, <1>4, <1>6 DEF ApartInv

\* Most steps of the handlers are such steps.
LEMMA ApartQuietHandler ==
  ASSUME OneLoop, Types, ApartInv, NEW t \in Thread,
         \/ LoginRead(t) \/ LoginDelete(t)
         \/ OneForward(t) \/ OneStore(t) \/ CreateMember(t) \/ GroupMembers(t)
         \/ GroupLock(t) \/ GroupForward(t) \/ GroupQuery(t) \/ GroupStore(t)
         \/ GroupUnlock(t)
  PROVE  ApartInv'
<1>1. UNCHANGED <<row, connUser, link, session, phase>>
  BY DEF LoginRead, LoginDelete, OneForward, OneStore, CreateMember,
     GroupMembers, GroupLock, GroupForward, GroupQuery, GroupStore,
     GroupUnlock, tables, memory, world
<1>2. \A s \in Thread : s # t => job'[s] = job[s]
  BY DEF LoginRead, LoginDelete, OneForward, OneStore, CreateMember,
     GroupMembers, GroupLock, GroupForward, GroupQuery, GroupStore,
     GroupUnlock, Goto, Finish, Types, Jobs
<1>3. /\ job[t] # Idle
      /\ job[t].pc \notin {"login.put", "login.online"}
  BY DEF LoginRead, LoginDelete, OneForward, OneStore, CreateMember,
     GroupMembers, GroupLock, GroupForward, GroupQuery, GroupStore,
     GroupUnlock, At, Idle
<1>4. /\ job'[t].pc \notin Closing \cup {"login.query", "login.put", "login.online"}
      /\ job'[t].pc \in LoginSteps =>
           /\ job[t].pc \in Accepted
           /\ job'[t].conn = job[t].conn /\ job'[t].user = job[t].user
  <2>1. CASE LoginRead(t)
    <3>1. PICK ok \in Outcome :
            LET vec == IF ok THEN offline[job[t].user] ELSE {}
            IN job' = [job EXCEPT
                  ![t].seen = vec,
                  ![t].pc = IF vec = {} THEN "login.send" ELSE "login.delete"]
      BY <2>1 DEF LoginRead
    <3> DEFINE vec == IF ok THEN offline[job[t].user] ELSE {}
               pc == IF vec = {} THEN "login.send" ELSE "login.delete"
    <3>2. /\ job' = [job EXCEPT ![t] = [job[t] EXCEPT !.seen = vec, !.pc = pc]]
          /\ pc \in {"login.send", "login.delete"}
      BY <3>1
    <3> HIDE DEF vec, pc
    <3>3. job[t].pc = "login.read" /\ job \in [Thread -> Job]
      BY <2>1 DEF LoginRead, At, Types, Jobs
    <3>4. /\ job'[t].pc \in {"login.send", "login.delete"}
          /\ job'[t].conn = job[t].conn /\ job'[t].user = job[t].user
      BY <3>2, <3>3 DEF Job
    <3> QED
      BY <3>3, <3>4 DEF Accepted, Closing
  <2>2. CASE LoginDelete(t)
    BY <2>2 DEF LoginDelete, At, Goto, Types, Jobs, Job, Accepted, Closing
  <2>3. CASE GroupMembers(t)
    <3>1. PICK who : job' = [job EXCEPT ![t].todo = who, ![t].pc = "group.lock"]
      BY <2>3 DEF GroupMembers
    <3>2. job'[t].pc = "group.lock"
      BY <3>1 DEF Types, Jobs, Job
    <3> QED
      BY <3>2 DEF LoginSteps, Closing
  <2>4. CASE GroupLock(t) \/ GroupForward(t) \/ GroupStore(t)
    BY <2>4 DEF GroupLock, GroupForward, GroupStore, At, Goto,
       Types, Jobs, Job, LoginSteps, Closing
  <2>5. CASE GroupQuery(t)
    BY <2>5 DEF GroupQuery, At, Types, Jobs, Job, LoginSteps, Closing
  <2>6. CASE OneForward(t)
    BY <2>6 DEF OneForward, At, Goto, Finish, Idle, Types, Jobs, Job,
       LoginSteps, Closing
  <2>7. CASE OneStore(t) \/ CreateMember(t) \/ GroupUnlock(t)
    BY <2>7 DEF OneStore, CreateMember, GroupUnlock, Finish, Idle, Types, Jobs,
       LoginSteps, Closing
  <2> QED
    BY <2>1, <2>2, <2>3, <2>4, <2>5, <2>6, <2>7
<1> QED
  BY <1>1, <1>2, <1>3, <1>4, ApartQuiet

\* A login is accepted: its user was offline, and so nobody's.
LEMMA ApartQuery ==
  ASSUME OneLoop, Types, ApartInv, NEW t \in Thread, LoginQuery(t)
  PROVE  ApartInv'
<1> DEFINE c == job[t].conn
           u == job[t].user
<1>1. /\ job[t] # Idle /\ job[t].pc = "login.query"
      /\ UNCHANGED <<row, connUser, link, session, phase>>
      /\ \A s \in Thread : s # t => job'[s] = job[s]
  BY DEF LoginQuery, At, Idle, tables, memory, world, Goto, Finish, Types, Jobs
<1>2. CASE Finish(t)
  <2>1. job'[t] = Idle
    BY <1>2 DEF Finish, Types, Jobs
  <2> QED
    BY <1>1, <2>1, ApartQuiet DEF Idle, Closing, LoginSteps
<1>3. ASSUME Goto(t, "login.put"), row[u] = "offline" PROVE ApartInv'
  <2>1. \A s \in Thread : s # t => job[s] = Idle
    BY <1>1, OthersIdle DEF ApartInv
  <2>2. /\ job'[t].pc = "login.put" /\ job'[t].conn = c /\ job'[t].user = u
        /\ c \in Conn /\ u \in User
    BY <1>1, <1>3 DEF Goto, Types, Jobs, Job, Given, LoginSteps
  <2>3. Alone' /\ SessionOpen' /\ UnusedIsFree' /\ phase' # "exiting"
    BY <1>1, <2>1 DEF ApartInv, Alone, SessionOpen, UnusedIsFree
  <2>4. CloserDead' /\ LoginIsLinked'
    BY <1>1, <2>1, <2>2 DEF ApartInv, CloserDead, LoginIsLinked, Idle, Closing,
       LoginSteps
  <2>5. \A d \in Conn, v \in User : ~ Pending(d, v)
    BY <1>1, <2>1 DEF Pending, LogsIn, Idle
  <2>6. \A d \in Conn : ~ Claim(d, u)
    BY <1>3, <2>2, <2>5 DEF ApartInv, ClaimShown
  <2>7. \A d \in Conn, v \in User :
          Claim(d, v)' => Claim(d, v) \/ (d = c /\ v = u)
    <3>1. ASSUME NEW d \in Conn, NEW v \in User, NEW s \in Thread, LogsIn(s, d, v)'
          PROVE  d = c /\ v = u
      BY <1>1, <2>1, <2>2, <3>1 DEF LogsIn, Idle, Accepted
    <3>2. ASSUME NEW d \in Conn, NEW s \in Thread, Closes(s, d)'
          PROVE  Closes(s, d)
      BY <1>1, <2>2, <3>2 DEF Closes, Closing
    <3> QED
      BY <1>1, <3>1, <3>2 DEF Claim
  <2> HIDE DEF c, u
  <2>8. OneClaim'
    BY <2>6, <2>7 DEF ApartInv, OneClaim
  <2>9. ClaimShown'
    <3>1. ASSUME NEW d \in Conn, NEW v \in User, d = c, v = u
          PROVE  row'[v] = "offline" /\ Pending(d, v)'
      BY <1>1, <1>3, <2>2, <3>1 DEF Pending, LogsIn, Accepted
    <3>2. ASSUME NEW d \in Conn, NEW v \in User, Claim(d, v) PROVE row'[v] = "online"
      BY <1>1, <2>5, <3>2 DEF ApartInv, ClaimShown
    <3> QED
      BY <2>7, <3>1, <3>2 DEF ClaimShown
  <2> QED
    BY <2>3, <2>4, <2>8, <2>9 DEF ApartInv
<1> QED
  BY <1>2, <1>3 DEF LoginQuery

\* The login binds its connection, and sets its row online.
LEMMA ApartPut ==
  ASSUME OneLoop, Steady, Types, ApartInv, NEW t \in Thread,
         LoginPut(t) \/ LoginOnline(t)
  PROVE  ApartInv'
<1> DEFINE c == job[t].conn
           u == job[t].user
<1>1. /\ job[t] # Idle /\ job[t].pc \in {"login.put", "login.online"}
      /\ UNCHANGED <<link, session, phase>>
      /\ \A s \in Thread : s # t => job'[s] = job[s]
  BY DEF LoginPut, LoginOnline, At, Idle, world, Goto, Types, Jobs
<1>2. /\ job'[t].conn = c /\ job'[t].user = u
      /\ job[t].pc = "login.put" => job'[t].pc = "login.online"
      /\ job[t].pc = "login.online" => job'[t].pc = "login.read"
      /\ c \in Conn /\ u \in User
  BY DEF LoginPut, LoginOnline, At, Goto, Types, Jobs, Job, Given, LoginSteps
<1>3. /\ \A d \in Conn : connUser'[d] # connUser[d] => d = c /\ connUser'[d] = u
      /\ job[t].pc = "login.put" => row' = row
      /\ job[t].pc = "login.online" => row'[u] = "online"
      /\ \A v \in User : v # u => row'[v] = row[v]
  <2>1. CASE LoginPut(t)
    BY <2>1 DEF LoginPut, At, tables, Types, TypeOK
  <2>2. CASE LoginOnline(t)
    <3>1. row' = [row EXCEPT ![u] = "online"]
      BY <2>2 DEF LoginOnline, Steady, Outcome
    <3>2. row'[u] = "online" /\ \A v \in User : v # u => row'[v] = row[v]
      BY <1>2, <3>1 DEF Types, TypeOK
    <3> QED
      BY <2>2, <3>2 DEF LoginOnline, At, memory
  <2> QED
    BY <2>1, <2>2
<1>4. link[c] \in {"open", "gone"}
  BY <1>1 DEF ApartInv, LoginIsLinked, LoginSteps
<1>5. \A s \in Thread : s # t => job[s] = Idle
  BY <1>1, OthersIdle DEF ApartInv
<1> HIDE DEF c, u
<1>6. Alone' /\ SessionOpen' /\ UnusedIsFree' /\ phase' # "exiting"
  BY <1>1, <1>3, <1>4, <1>5 DEF ApartInv, Alone, SessionOpen, UnusedIsFree
<1>7. CloserDead' /\ LoginIsLinked'
  BY <1>1, <1>2, <1>4, <1>5 DEF CloserDead, LoginIsLinked, Idle, Closing,
     LoginSteps
<1>8. ASSUME NEW d \in Conn, NEW v \in User, Claim(d, v)'
      PROVE  /\ Claim(d, v)
             /\ row'[v] = "online" \/ (row'[v] = "offline" /\ Pending(d, v)')
  <2>1. LogsIn(t, c, u)
    BY <1>1 DEF LogsIn, Accepted, c, u
  <2>2. \A s \in Thread : LogsIn(s, d, v)' => s = t /\ d = c /\ v = u
    BY <1>1, <1>2, <1>5 DEF LogsIn, Idle, Accepted
  <2>3. \A s \in Thread : Closes(s, d)' => Closes(s, d)
    BY <1>1, <1>2 DEF Closes, Closing
  <2>4. Claim(d, v)
    BY <1>1, <1>3, <1>8, <2>1, <2>2, <2>3 DEF Claim
  <2>5. ASSUME NEW s \in Thread, LogsIn(s, d, v) PROVE d = c /\ v = u
    BY <1>5, <2>5 DEF LogsIn, Idle, Accepted, c, u
  <2>6. CASE v # u
    BY <1>3, <2>4, <2>5, <2>6 DEF ApartInv, ClaimShown, Pending
  <2>7. CASE v = u /\ job[t].pc = "login.online"
    BY <1>3, <2>4, <2>7
  <2>8. CASE v = u /\ job[t].pc = "login.put"
    <3>1. d = c
      BY <1>2, <2>1, <2>4, <2>8 DEF ApartInv, OneClaim, Claim
    <3>2. Pending(d, v)'
      BY <1>2, <2>8, <3>1 DEF Pending, LogsIn, Accepted
    <3>3. row'[u] \in {"online", "offline"}
      BY <1>2, <1>3, <2>4, <2>8 DEF ApartInv, ClaimShown
    <3> QED
      BY <2>4, <2>8, <3>2, <3>3
  <2> QED
    BY <1>1, <2>4, <2>6, <2>7, <2>8
<1>9. OneClaim' /\ ClaimShown'
  BY <1>8, Inherited DEF ApartInv
<1> QED
  BY <1>6, <1>7, <1>9 DEF ApartInv

\* The answer hands the claim of the login to the client.
LEMMA ApartSend ==
  ASSUME OneLoop, Types, ApartInv, NEW t \in Thread, LoginSend(t)
  PROVE  ApartInv'
<1> DEFINE c == job[t].conn
           u == job[t].user
<1>1. /\ job[t] # Idle /\ job[t].pc = "login.send" /\ job'[t] = Idle
      /\ UNCHANGED <<row, connUser, link, phase>>
      /\ \A s \in Thread : s # t => job'[s] = job[s]
  BY DEF LoginSend, At, Idle, tables, memory, Finish, Types, Jobs
<1>2. /\ c \in Conn /\ u \in User
      /\ \A d \in Conn : session'[d] # session[d] =>
           d = c /\ session'[d] = u /\ link[d] = "open"
  BY DEF LoginSend, At, Types, TypeOK, Jobs, Given, LoginSteps
<1>3. \A s \in Thread : s # t => job[s] = Idle
  BY <1>1, OthersIdle DEF ApartInv
<1>4. LogsIn(t, c, u)
  BY <1>1 DEF LogsIn, Accepted
<1> HIDE DEF c, u
<1>5. Alone' /\ SessionOpen' /\ UnusedIsFree' /\ phase' # "exiting"
  BY <1>1, <1>2, <1>3 DEF ApartInv, Alone, SessionOpen, UnusedIsFree
<1>6. CloserDead' /\ LoginIsLinked'
  BY <1>1, <1>3 DEF CloserDead, LoginIsLinked, Idle, Closing, LoginSteps
<1>7. ASSUME NEW d \in Conn, NEW v \in User, Claim(d, v)'
      PROVE  Claim(d, v) /\ row'[v] = "online"
  <2>1. \A s \in Thread : ~ LogsIn(s, d, v)' /\ ~ Closes(s, d)'
    BY <1>1, <1>3 DEF LogsIn, Closes, Idle, Accepted, Closing
  <2>2. Claim(d, v)
    BY <1>1, <1>2, <1>4, <1>7, <2>1 DEF Claim
  <2>3. ~ Pending(d, v)
    BY <1>1, <1>3 DEF Pending, LogsIn, Idle
  <2> QED
    BY <1>1, <2>2, <2>3 DEF ApartInv, ClaimShown
<1>8. OneClaim' /\ ClaimShown'
  BY <1>7, Inherited DEF ApartInv
<1> QED
  BY <1>5, <1>6, <1>8 DEF ApartInv

\* The handler of a close looks its user up.
LEMMA ApartRemove ==
  ASSUME OneLoop, Types, ApartInv, NEW t \in Thread, CloseRemove(t)
  PROVE  ApartInv'
<1> DEFINE c == job[t].conn
           u == connUser[c]
<1>1. /\ job[t] # Idle /\ job[t].pc = "close.remove"
      /\ UNCHANGED <<row, connUser, link, session, phase>>
      /\ \A s \in Thread : s # t => job'[s] = job[s]
  BY DEF CloseRemove, At, Idle, tables, world, Finish, Types, Jobs
<1>2. c \in Conn /\ link[c] = "dead"
  BY <1>1 DEF ApartInv, CloserDead, Closing
<1>3. CASE job' = [job EXCEPT ![t] = Idle]
  <2>1. job'[t] = Idle
    BY <1>3 DEF Types, Jobs
  <2> QED
    BY <1>1, <2>1, ApartQuiet DEF Idle, Closing, LoginSteps
<1>4. ASSUME job' = [job EXCEPT ![t].user = u, ![t].pc = "close.offline"]
      PROVE  ApartInv'
  <2>1. \A s \in Thread : s # t => job[s] = Idle
    BY <1>1, OthersIdle DEF ApartInv
  <2>2. job'[t].pc = "close.offline" /\ job'[t].conn = c /\ job'[t].user = u
    BY <1>4 DEF Types, Jobs, Job
  <2>3. Alone' /\ SessionOpen' /\ UnusedIsFree' /\ phase' # "exiting"
    BY <1>1, <2>1 DEF ApartInv, Alone, SessionOpen, UnusedIsFree
  <2>4. CloserDead' /\ LoginIsLinked'
    BY <1>1, <1>2, <2>1, <2>2 DEF CloserDead, LoginIsLinked, Idle, Closing,
       LoginSteps
  <2>5. ASSUME NEW d \in Conn, NEW v \in User, Claim(d, v)'
        PROVE  Claim(d, v) /\ row'[v] = "online"
    <3>1. \A s \in Thread : ~ LogsIn(s, d, v)'
      BY <1>1, <2>1, <2>2 DEF LogsIn, Idle, Accepted
    <3>2. \A s \in Thread : Closes(s, d)' => Closes(s, d)
      BY <1>1, <2>2 DEF Closes, Closing
    <3>3. Claim(d, v)
      BY <1>1, <2>5, <3>1, <3>2 DEF Claim
    <3>4. ~ Pending(d, v)
      BY <1>1, <2>1 DEF Pending, LogsIn, Idle
    <3> QED
      BY <1>1, <3>3, <3>4 DEF ApartInv, ClaimShown
  <2>6. OneClaim' /\ ClaimShown'
    BY <2>5, Inherited DEF ApartInv
  <2> QED
    BY <2>3, <2>4, <2>6 DEF ApartInv
<1> QED
  BY <1>3, <1>4 DEF CloseRemove, Finish

\* It ends the claim it has worked for, which nobody else had.
LEMMA ApartOffline ==
  ASSUME OneLoop, Steady, Types, ApartInv, NEW t \in Thread, CloseOffline(t)
  PROVE  ApartInv'
<1> DEFINE c == job[t].conn
           u == job[t].user
<1>1. /\ job[t] # Idle /\ job[t].pc = "close.offline" /\ job'[t] = Idle
      /\ UNCHANGED <<connUser, link, session, phase>>
      /\ \A s \in Thread : s # t => job'[s] = job[s]
  BY DEF CloseOffline, At, Idle, memory, world, Finish, Types, Jobs
<1>2. \A v \in User : v # u => row'[v] = row[v]
  BY DEF CloseOffline, Types, TypeOK
<1>3. c \in Conn /\ u \in User /\ link[c] = "dead" /\ connUser[c] = u
  BY <1>1 DEF ApartInv, CloserDead, Closing, Types, Jobs, Given
<1>4. \A s \in Thread : s # t => job[s] = Idle
  BY <1>1, OthersIdle DEF ApartInv
<1>5. Closes(t, c)
  BY <1>1 DEF Closes, Closing
<1> HIDE DEF c, u
<1>6. Alone' /\ SessionOpen' /\ UnusedIsFree' /\ phase' # "exiting"
  BY <1>1, <1>4 DEF ApartInv, Alone, SessionOpen, UnusedIsFree
<1>7. CloserDead' /\ LoginIsLinked'
  BY <1>1, <1>4 DEF CloserDead, LoginIsLinked, Idle, Closing, LoginSteps
<1>8. ASSUME NEW d \in Conn, NEW v \in User, Claim(d, v)'
      PROVE  Claim(d, v) /\ row'[v] = "online"
  <2>1. \A s \in Thread : ~ LogsIn(s, d, v)' /\ ~ Closes(s, d)'
    BY <1>1, <1>4 DEF LogsIn, Closes, Idle, Accepted, Closing
  <2>2. Claim(d, v)
    BY <1>1, <1>8, <2>1 DEF Claim
  <2>3. Claim(c, u)
    BY <1>3, <1>5 DEF Claim
  <2>4. session[c] # u
    BY <1>3, ChatAssumption DEF ApartInv, SessionOpen
  <2>5. d # c \/ v # u
    BY <1>1, <1>3, <1>8, <2>1, <2>4 DEF Claim
  <2>6. v # u
    BY <1>3, <2>2, <2>3, <2>5 DEF ApartInv, OneClaim
  <2>7. ~ Pending(d, v)
    BY <1>1, <1>4 DEF Pending, LogsIn, Idle
  <2> QED
    BY <1>2, <2>2, <2>6, <2>7 DEF ApartInv, ClaimShown
<1>9. OneClaim' /\ ClaimShown'
  BY <1>8, Inherited DEF ApartInv
<1> QED
  BY <1>6, <1>7, <1>9 DEF ApartInv

\* Every step keeps the invariant.
LEMMA ApartStep ==
  ASSUME OneLoop, Steady, Types, ApartInv, [Next]_vars
  PROVE  ApartInv'
<1>1. ASSUME NEW c \in Conn, Client(c) \/ Close(c) PROVE ApartInv'
  <2>1. CASE Connect(c) \/ Leave(c) \/ LoginOut(c) \/ Reg(c) \/ AddGroup(c)
    BY <2>1, ApartClient
  <2>2. ASSUME NEW u \in User, Login(c, u) PROVE ApartInv'
    <3>1. /\ UNCHANGED <<row, connUser, link, session, phase>>
          /\ link[c] = "open"
      BY <2>2 DEF Login, Receive, tables, memory, world
    <3>2. PICK j : /\ job[LoopOf[c]] = Idle /\ job' = [job EXCEPT ![LoopOf[c]] = j]
                   /\ j.pc = "login.query" /\ j.conn = c
      BY <2>2, LoginStarted
    <3> QED
      BY <3>1, <3>2, ApartStarted DEF Accepted, Closing
  <2>3. ASSUME \/ CreateGroup(c)
               \/ \E u \in User, m \in Msg : OneChat(c, u, m)
               \/ \E m \in Msg : GroupChat(c, m)
        PROVE  ApartInv'
    <3>1. UNCHANGED <<row, connUser, link, session, phase>>
      BY <2>3 DEF CreateGroup, OneChat, GroupChat, tables, memory, world
    <3>2. PICK j : /\ job[LoopOf[c]] = Idle /\ job' = [job EXCEPT ![LoopOf[c]] = j]
                   /\ j.pc \in {"create.member", "one.forward", "group.members"}
      BY <2>3, ChatStarted
    <3> QED
      BY <3>1, <3>2, ApartStarted DEF Accepted, Closing, LoginSteps
  <2> QED
    BY <1>1, <2>1, <2>2, <2>3, ApartClose DEF Client
<1>2. ASSUME NEW t \in Thread, Handler(t) PROVE ApartInv'
  BY <1>2, ApartQuietHandler, ApartQuery, ApartPut, ApartSend, ApartRemove,
     ApartOffline DEF Handler
<1> QED
  BY <1>1, <1>2, ApartProcess DEF Next

\* Where one thread runs all handlers, no statement fails and the table is not
\* reset under them, a user is never logged in by two clients, whoever leaves,
\* logs out and comes back, and whatever crash is survived by the User table:
\* the check of chatservice.cpp:88 is enough there.
THEOREM ChatSingleSession ==
  ASSUME OneLoop, Steady
  PROVE  Spec => []SingleSession
<1>1. Init => ApartInv
  BY ChatAssumption DEF Init, ApartInv, Alone, SessionOpen, CloserDead,
     LoginIsLinked, UnusedIsFree, OneClaim, ClaimShown, Claim, LogsIn, Closes,
     Accepted, Closing, LoginSteps, Idle
<1>2. Types /\ ApartInv /\ [Next]_vars => ApartInv'
  BY ApartStep
<1>3. Types /\ ApartInv => SingleSession
  BY DEF Types, TypeOK, ApartInv, OneClaim, Claim, SingleSession
<1> QED
  BY <1>1, <1>2, <1>3, TypesAlways, PTL DEF Spec

-----------------------------------------------------------------------------
(* ImplementsMailbox, its safety: each step is one of the mailbox, or none. *)

\* One IO loop, and clients that stay: groups are all there is in Env.
Calm == OneLoop /\ Env \subseteq {"group"}

\* The handler j has yet to dispose of its message for u.
Owes(j, u) ==
  \/ j.pc \in {"one.forward", "one.store"} /\ j.user = u
  \/ u \in j.todo

Owed(m, u) ==
  fate[m][u] = "none" /\ \E t \in Thread : job[t].msg = m /\ Owes(job[t], u)

Kept(m, u) == fate[m][u] = "stored"
Shown(m, u) == fate[m][u] \in {"live", "read"}

\* The mailbox takes a step, or stands still.
MailNext == Mailbox!Next \/ UNCHANGED Mailbox!vars

\* Nobody leaves, so nothing is closed.
Stays ==
  /\ \A c \in Conn : link[c] \in {"unused", "open"}
  /\ \A t \in Thread : job[t].pc \notin Closing

\* A message that nobody has sent has gone nowhere, and no handler has it.
FreshIsNew ==
  \A m \in fresh : /\ \A u \in User : fate[m][u] = "none"
                   /\ \A t \in Thread : job[t].msg # m

\* A message is owed by the handler that has it and by no other, to those it
\* still has to be sent to.
Owing(j) ==
  /\ j.pc \in {"one.forward", "one.store"} => fate[j.msg][j.user] = "none"
  /\ j.pc = "group.members" => \A u \in User : fate[j.msg][u] = "none"
  /\ j.todo # {} => j.pc \in {"group.lock", "group.each", "group.store"}
  /\ \A u \in j.todo : fate[j.msg][u] = "none"
  /\ j.pc = "group.store" => j.user \in j.todo

\* A login has read the rows it deletes, and answers with what it has deleted.
Reading(j) ==
  /\ j.pc = "login.delete" => j.seen = offline[j.user]
  /\ j.pc = "login.send" => /\ offline[j.user] = {}
                            /\ \A m \in j.seen : fate[m][j.user] = "stored"

\* A row is there for a message that is counted as kept.
RowIsKept == \A u \in User : \A m \in offline[u] : fate[m][u] = "stored"

MailInv ==
  /\ Alone /\ Stays /\ FreshIsNew /\ RowIsKept
  /\ \A t \in Thread : Owing(job[t]) /\ Reading(job[t])

\* What is known of the service besides.
Known ==
  Types /\ SafeInv /\ DeliveryInv /\ DropInv /\ RowsAccounted

-----------------------------------------------------------------------------
(* The steps of the mailbox, in terms of single messages.                  *)

\* The three boxes hold what is owed, kept and shown.
LEMMA BoxesHold ==
  /\ due = [u \in User |-> {m \in Msg : Owed(m, u)}]
  /\ kept = [u \in User |-> {m \in Msg : Kept(m, u)}]
  /\ shown = [u \in User |-> {m \in Msg : Shown(m, u)}]
BY DEF due, kept, shown, Owed, Owes, Kept, Shown

\* So they do in the next state.
LEMMA BoxesHoldNext ==
  /\ due' = [u \in User |-> {m \in Msg : Owed(m, u)'}]
  /\ kept' = [u \in User |-> {m \in Msg : Kept(m, u)'}]
  /\ shown' = [u \in User |-> {m \in Msg : Shown(m, u)'}]
BY DEF due, kept, shown, Owed, Owes, Kept, Shown

\* Nothing happens to any message.
LEMMA NothingMoves ==
  ASSUME \A n \in Msg, v \in User : /\ Owed(n, v)' <=> Owed(n, v)
                                    /\ fate'[n][v] = fate[n][v]
  PROVE  MailNext
<1>1. UNCHANGED <<due, kept, shown>>
  BY BoxesHold, BoxesHoldNext DEF Kept, Shown
<1> QED
  BY <1>1 DEF MailNext, Mailbox!vars

\* A message is accepted.
LEMMA Accepts ==
  ASSUME NEW m \in Msg, NEW R \in SUBSET User,
         \A v \in User : ~ Owed(m, v) /\ ~ Kept(m, v) /\ ~ Shown(m, v),
         fate' = fate,
         \A n \in Msg, v \in User : Owed(n, v)' <=> Owed(n, v) \/ (n = m /\ v \in R)
  PROVE  MailNext
<1>1. \A v \in User : m \notin due[v] \cup kept[v] \cup shown[v]
  BY BoxesHold
<1>2. UNCHANGED <<kept, shown>>
  BY BoxesHold, BoxesHoldNext DEF Kept, Shown
<1>3. due' = [v \in User |-> IF v \in R THEN due[v] \cup {m} ELSE due[v]]
  <2>1. \A v \in User : due'[v] = IF v \in R THEN due[v] \cup {m} ELSE due[v]
    BY BoxesHold, BoxesHoldNext
  <2> QED
    BY <2>1, BoxesHoldNext
<1> QED
  BY <1>1, <1>2, <1>3 DEF MailNext, Mailbox!Next, Mailbox!Accept

\* What is owed is shown, or kept.
LEMMA Disposes ==
  ASSUME NEW m \in Msg, NEW u \in User, Owed(m, u), fate'[m][u] \in {"live", "stored"},
         \A n \in Msg, v \in User : n # m \/ v # u => fate'[n][v] = fate[n][v],
         \A n \in Msg, v \in User : Owed(n, v)' <=> Owed(n, v) /\ (n # m \/ v # u)
  PROVE  MailNext
<1>1. m \in due[u]
  BY BoxesHold
<1>2. due' = [due EXCEPT ![u] = @ \ {m}]
  <2>1. \A v \in User : due'[v] = IF v = u THEN due[v] \ {m} ELSE due[v]
    BY BoxesHold, BoxesHoldNext
  <2> QED
    BY <2>1, BoxesHold, BoxesHoldNext
<1>3. fate[m][u] = "none"
  BY DEF Owed
<1>4. CASE fate'[m][u] = "live"
  <2>1. \A v \in User : /\ shown'[v] = IF v = u THEN shown[v] \cup {m} ELSE shown[v]
                        /\ kept'[v] = kept[v]
    BY <1>3, <1>4, BoxesHold, BoxesHoldNext DEF Kept, Shown
  <2>2. shown' = [shown EXCEPT ![u] = @ \cup {m}] /\ UNCHANGED kept
    BY <2>1, BoxesHold, BoxesHoldNext
  <2> QED
    BY <1>1, <1>2, <2>2 DEF MailNext, Mailbox!Next, Mailbox!Deliver
<1>5. CASE fate'[m][u] = "stored"
  <2>1. \A v \in User : /\ kept'[v] = IF v = u THEN kept[v] \cup {m} ELSE kept[v]
                        /\ shown'[v] = shown[v]
    BY <1>3, <1>5, BoxesHold, BoxesHoldNext DEF Kept, Shown
  <2>2. kept' = [kept EXCEPT ![u] = @ \cup {m}] /\ UNCHANGED shown
    BY <2>1, BoxesHold, BoxesHoldNext
  <2> QED
    BY <1>1, <1>2, <2>2 DEF MailNext, Mailbox!Next, Mailbox!Keep
<1> QED
  BY <1>4, <1>5

\* A user is shown what has been kept.
LEMMA Collects ==
  ASSUME NEW u \in User,
         \A n \in Msg, v \in User : Owed(n, v)' <=> Owed(n, v),
         \A n \in Msg, v \in User :
           fate'[n][v] = IF v = u /\ fate[n][v] = "stored" THEN "read" ELSE fate[n][v]
  PROVE  MailNext
<1>1. UNCHANGED due
  BY BoxesHold, BoxesHoldNext
<1>2. \A v \in User : /\ kept'[v] = IF v = u THEN {} ELSE kept[v]
                      /\ shown'[v] = IF v = u THEN shown[v] \cup kept[v] ELSE shown[v]
  BY BoxesHold, BoxesHoldNext DEF Kept, Shown
<1>3. /\ kept' = [kept EXCEPT ![u] = {}]
      /\ shown' = [shown EXCEPT ![u] = @ \cup kept[u]]
  BY <1>2, BoxesHold, BoxesHoldNext
<1> QED
  BY <1>1, <1>3 DEF MailNext, Mailbox!Next, Mailbox!Collect

\* Where one handler runs, what is owed is owed by it.
LEMMA OwedByOne ==
  ASSUME NEW t \in Thread, \A s \in Thread : s # t => job[s] = Idle,
         NEW m \in Msg, NEW u \in User
  PROVE  Owed(m, u) <=> fate[m][u] = "none" /\ job[t].msg = m /\ Owes(job[t], u)
BY ChatAssumption DEF Owed, Idle

\* So it is after its step.
LEMMA OwedByOneNext ==
  ASSUME NEW t \in Thread, \A s \in Thread : s # t => job'[s] = Idle,
         NEW m \in Msg, NEW u \in User
  PROVE  Owed(m, u)' <=> fate'[m][u] = "none" /\ job'[t].msg = m /\ Owes(job'[t], u)
BY ChatAssumption DEF Owed, Owes, Idle

\* An idle thread owes and reads nothing.
LEMMA IdleOwes == Owing(Idle) /\ Reading(Idle) /\ Idle.msg \notin Msg /\ \A u : ~ Owes(Idle, u)
BY ChatAssumption DEF Owing, Reading, Owes, Idle

-----------------------------------------------------------------------------
(* The steps of the service.                                               *)

\* Where a handler runs, the others are idle before and after its step.
LEMMA OneRuns ==
  ASSUME Calm, MailInv, NEW t \in Thread, job[t] # Idle,
         \A s \in Thread : s # t => job'[s] = job[s]
  PROVE  \A s \in Thread : s # t => job[s] = Idle /\ job'[s] = Idle
BY OthersIdle DEF Calm, MailInv

\* What a handler must keep for the invariant to hold.
LEMMA MailKept ==
  ASSUME Calm, MailInv, NEW t \in Thread, job[t] # Idle,
         \A s \in Thread : s # t => job'[s] = job[s],
         UNCHANGED <<link, fresh>>,
         job'[t].pc \notin Closing,
         job'[t].msg \in {job[t].msg, NoMsg},
         \A m \in fresh, u \in User : fate'[m][u] = fate[m][u],
         fresh \subseteq Msg, RowIsKept',
         Owing(job[t])', Reading(job[t])'
  PROVE  MailInv'
<1>1. \A s \in Thread : s # t => job[s] = Idle /\ job'[s] = Idle
  BY OneRuns
<1>2. Alone' /\ Stays'
  BY <1>1 DEF MailInv, Alone, Stays, Idle, Closing
<1>3. FreshIsNew'
  BY ChatAssumption DEF MailInv, FreshIsNew
<1>4. ASSUME NEW s \in Thread, s # t PROVE Owing(job[s])' /\ Reading(job[s])'
  BY <1>1, <1>4 DEF Owing, Reading, Idle
<1> QED
  BY <1>2, <1>3, <1>4 DEF MailInv

\* The steps of logins and groups that touch no message.
LEMMA MailOther ==
  ASSUME Calm, Known, MailInv, NEW t \in Thread,
         LoginQuery(t) \/ LoginPut(t) \/ LoginOnline(t) \/ LoginRead(t) \/ CreateMember(t)
  PROVE  MailInv' /\ MailNext
<1>1. /\ job[t] # Idle /\ job[t].todo = {}
      /\ job[t].pc \notin {"one.forward", "one.store"}
  BY DEF LoginQuery, LoginPut, LoginOnline, LoginRead, CreateMember, At, Idle,
     MailInv, Owing
<1>2. \A s \in Thread : s # t => job'[s] = job[s]
  BY DEF LoginQuery, LoginPut, LoginOnline, LoginRead, CreateMember, Goto,
     Finish, Known, Types, Jobs
<1>3. UNCHANGED <<link, fresh, fate, offline>>
  BY DEF LoginQuery, LoginPut, LoginOnline, LoginRead, CreateMember, tables, world
<1>4. /\ job'[t].pc \in {"idle", "login.put", "login.online", "login.read",
                        "login.delete", "login.send"}
      /\ job'[t].todo = {} /\ job'[t].msg \in {job[t].msg, NoMsg}
      /\ job'[t].pc = "login.delete" => job'[t].seen = offline[job'[t].user]
      /\ job'[t].pc = "login.send" => offline[job'[t].user] = {} /\ job'[t].seen = {}
  <2>1. CASE job'[t] = Idle
    BY <2>1 DEF Idle
  <2>2. CASE LoginQuery(t) \/ LoginPut(t) \/ LoginOnline(t)
    <3>1. ASSUME NEW pc \in {"login.put", "login.online", "login.read"}, Goto(t, pc)
          PROVE  job'[t].pc = pc /\ job'[t].todo = job[t].todo /\ job'[t].msg = job[t].msg
      BY <3>1 DEF Goto, Known, Types, Jobs, Job
    <3>2. Finish(t) => job'[t] = Idle
      BY DEF Finish, Known, Types, Jobs
    <3> QED
      BY <1>1, <2>1, <2>2, <3>1, <3>2 DEF LoginQuery, LoginPut, LoginOnline
  <2>3. CASE LoginRead(t)
    <3> DEFINE vec == offline[job[t].user]
               pc == IF vec = {} THEN "login.send" ELSE "login.delete"
    <3>1. job' = [job EXCEPT ![t].seen = vec, ![t].pc = pc]
      BY <2>3 DEF LoginRead, Outcome, Calm
    <3>2. job' = [job EXCEPT ![t] = [job[t] EXCEPT !.seen = vec, !.pc = pc]]
      BY <3>1
    <3>3. /\ pc = "login.send" => vec = {}
          /\ pc \in {"login.send", "login.delete"}
      OBVIOUS
    <3> HIDE DEF pc, vec
    <3>4. /\ job'[t].pc = pc /\ job'[t].seen = vec /\ job'[t].todo = job[t].todo
          /\ job'[t].msg = job[t].msg /\ job'[t].user = job[t].user
      BY <3>2 DEF Known, Types, Jobs, Job
    <3> QED
      BY <1>1, <3>3, <3>4 DEF vec
  <2>4. CASE CreateMember(t)
    BY <2>1, <2>4 DEF CreateMember, Finish, Known, Types, Jobs
  <2> QED
    BY <2>2, <2>3, <2>4
<1>5. MailInv'
  <2>1. Owing(job[t])'
    BY <1>4 DEF Owing
  <2>2. Reading(job[t])'
    BY <1>3, <1>4 DEF Reading
  <2>3. RowIsKept'
    BY <1>3 DEF MailInv, RowIsKept
  <2> QED
    BY <1>1, <1>2, <1>3, <1>4, <2>1, <2>2, <2>3, MailKept
       DEF Closing, Known, Types, TypeOK
<1>6. MailNext
  <2>1. \A s \in Thread : s # t => job[s] = Idle /\ job'[s] = Idle
    BY <1>1, <1>2, OneRuns
  <2>2. \A n \in Msg, v \in User : ~ Owed(n, v)
    BY <1>1, <2>1, OwedByOne DEF Owes
  <2>3. \A n \in Msg, v \in User : ~ Owed(n, v)'
    BY <1>4, <2>1, OwedByOneNext DEF Owes
  <2> QED
    BY <1>3, <2>2, <2>3, NothingMoves
<1> QED
  BY <1>5, <1>6

\* A login deletes the rows it has read, and no other.
LEMMA MailDelete ==
  ASSUME Calm, Known, MailInv, NEW t \in Thread, LoginDelete(t)
  PROVE  MailInv' /\ MailNext
<1>1. /\ job[t] # Idle /\ job[t].todo = {} /\ job[t].pc = "login.delete"
      /\ job[t].seen = offline[job[t].user] /\ job[t].user \in User
  BY DEF LoginDelete, At, Idle, MailInv, Owing, Reading, Known, Types, Jobs,
     Given, LoginSteps
<1>2. \A s \in Thread : s # t => job'[s] = job[s]
  BY DEF LoginDelete, Goto, Known, Types, Jobs
<1>3. /\ job'[t].pc = "login.send" /\ job'[t].todo = {} /\ job'[t].msg = job[t].msg
      /\ job'[t].seen = job[t].seen /\ job'[t].user = job[t].user
  BY <1>1 DEF LoginDelete, Goto, Known, Types, Jobs, Job
<1>4. /\ UNCHANGED <<link, fresh>>
      /\ offline' = [offline EXCEPT ![job[t].user] = {}]
      /\ \A n \in Msg : fate'[n] = fate[n]
  BY <1>1 DEF LoginDelete, world, Outcome, Calm
<1>5. \A v \in User : offline'[v] = IF v = job[t].user THEN {} ELSE offline[v]
  BY <1>4 DEF Known, Types, TypeOK
<1>6. \A v \in User : offline[v] \subseteq Msg
  BY DEF Known, Types, TypeOK
<1>7. MailInv'
  <2>1. Owing(job[t])'
    BY <1>3 DEF Owing
  <2>2. Reading(job[t])'
    BY <1>1, <1>3, <1>4, <1>5, <1>6 DEF Reading, MailInv, RowIsKept
  <2>3. RowIsKept'
    BY <1>4, <1>5, <1>6 DEF MailInv, RowIsKept
  <2> QED
    BY <1>1, <1>2, <1>3, <1>4, <2>1, <2>2, <2>3, MailKept
       DEF Closing, Known, Types, TypeOK
<1>8. MailNext
  <2>1. \A s \in Thread : s # t => job[s] = Idle /\ job'[s] = Idle
    BY <1>1, <1>2, OneRuns
  <2>2. \A n \in Msg, v \in User : ~ Owed(n, v)
    BY <1>1, <2>1, OwedByOne DEF Owes
  <2>3. \A n \in Msg, v \in User : ~ Owed(n, v)'
    BY <1>3, <2>1, OwedByOneNext DEF Owes
  <2> QED
    BY <1>4, <2>2, <2>3, NothingMoves
<1> QED
  BY <1>7, <1>8

\* Its answer shows its user everything that has been kept.
LEMMA MailAnswer ==
  ASSUME Calm, Known, MailInv, NEW t \in Thread, LoginSend(t)
  PROVE  MailInv' /\ MailNext
<1> DEFINE c == job[t].conn
           u == job[t].user
<1>1. /\ job[t] # Idle /\ job[t].todo = {} /\ job[t].pc = "login.send"
      /\ u \in User /\ c \in Conn /\ job[t].seen \subseteq Msg
  BY DEF LoginSend, At, Idle, MailInv, Owing, Known, Types, Jobs, Job, Given, LoginSteps
<1>2. job'[t] = Idle /\ \A s \in Thread : s # t => job'[s] = job[s]
  BY DEF LoginSend, Finish, Known, Types, Jobs
<1>3. \A s \in Thread : s # t => job[s] = Idle /\ job'[s] = Idle
  BY <1>1, <1>2, OneRuns
<1>4. UNCHANGED <<link, fresh, offline>> /\ fate' = Answered(c, u, job[t].seen)
  BY DEF LoginSend, tables
<1>5. offline[u] = {} /\ \A m \in job[t].seen : fate[m][u] = "stored"
  BY <1>1 DEF MailInv, Reading
<1>6. link[c] = "open"
  <2>1. c # NoConn
    BY <1>1, ChatAssumption
  <2> QED
    BY <1>1, <2>1 DEF MailInv, Stays, Known, DeliveryInv, OwnLoop
<1>7. \A m \in Msg : fate[m][u] = "stored" => m \in job[t].seen
  <2>1. ASSUME NEW m \in Msg, fate[m][u] = "stored" PROVE m \in job[t].seen
    <3>1. PICK s \in Thread : job[s].pc = "login.send" /\ m \in job[s].seen
      BY <1>1, <1>5, <2>1 DEF Known, RowsAccounted
    <3> QED
      BY <1>3, <3>1 DEF Idle
  <2> QED
    BY <2>1
<1>8. \A n \in Msg, v \in User :
        fate'[n][v] = IF v = u /\ fate[n][v] = "stored" THEN "read" ELSE fate[n][v]
  <2>1. ASSUME NEW n \in Msg, NEW v \in User
        PROVE  fate'[n][v] = IF v = u /\ fate[n][v] = "stored" THEN "read" ELSE fate[n][v]
    <3>1. CASE n \in job[t].seen
      <4>1. fate'[n] = [fate[n] EXCEPT ![u] =
               IF link[c] # "open" THEN IF @ = "stored" THEN "lost" ELSE @
               ELSE IF @ \in {"read", "twice"} THEN "twice" ELSE "read"]
        BY <1>4, <3>1 DEF Answered
      <4>2. fate[n][u] = "stored"
        BY <1>5, <3>1
      <4>3. fate'[n] = [fate[n] EXCEPT ![u] = "read"]
        BY <1>6, <4>1, <4>2
      <4>4. fate[n] \in [User -> Fate]
        BY DEF Known, Types, TypeOK
      <4> QED
        BY <1>1, <4>2, <4>3, <4>4
    <3>2. CASE n \notin job[t].seen
      BY <1>4, <1>7, <3>2 DEF Answered
    <3> QED
      BY <3>1, <3>2
  <2> QED
    BY <2>1
<1> HIDE DEF c, u
<1>9. MailInv'
  <2>1. Owing(job[t])' /\ Reading(job[t])'
    BY <1>2 DEF Owing, Reading, Idle
  <2>2. RowIsKept'
    BY <1>4, <1>5, <1>8 DEF MailInv, RowIsKept, Known, Types, TypeOK
  <2>3. \A m \in fresh, v \in User : fate'[m][v] = fate[m][v]
    BY <1>8 DEF MailInv, FreshIsNew, Known, Types, TypeOK
  <2> QED
    BY <1>1, <1>2, <1>4, <2>1, <2>2, <2>3, MailKept
       DEF Idle, Closing, Known, Types, TypeOK
<1>10. MailNext
  <2>1. \A n \in Msg, v \in User : ~ Owed(n, v)
    BY <1>1, <1>3, OwedByOne DEF Owes
  <2>2. \A n \in Msg, v \in User : ~ Owed(n, v)'
    BY <1>2, <1>3, OwedByOneNext, IdleOwes
  <2> QED
    BY <1>1, <1>8, <2>1, <2>2, Collects
<1> QED
  BY <1>9, <1>10

\* The connection the cache gives for u is u's, and open.
LEMMA SentIsLive ==
  ASSUME Known, MailInv, NEW u \in User, Cache!Found(heap, u) # NoConn
  PROVE  Sent(Cache!Found(heap, u), u) = "live"
<1> DEFINE it == Cache!Found(heap, u)
<1>1. it \in Conn /\ it = heap.value[u]
  BY DEF Known, Types, TypeOK, Cache!Heap, Cache!Found
<1>2. connUser[it] = u /\ u # NoUser
  BY <1>1, ChatAssumption DEF Known, DeliveryInv, CachedIsBound
<1>3. link[it] = "open"
  BY <1>1, <1>2 DEF MailInv, Stays, Known, DeliveryInv, UnusedIsFree
<1> QED
  BY <1>3, CachedServes DEF Known, Sent

\* A handler disposes of its message for u, by a forward or by an insert.
LEMMA MailDone ==
  ASSUME Calm, Known, MailInv, NEW t \in Thread, job[t] # Idle,
         \A s \in Thread : s # t => job'[s] = job[s],
         UNCHANGED <<link, fresh>>,
         NEW m \in Msg, job[t].msg = m, NEW u \in User, Owes(job[t], u),
         \/ /\ fate' = [fate EXCEPT ![m][u] = "live"]
            /\ offline' = offline
         \/ /\ fate' = [fate EXCEPT ![m][u] = "stored"]
            /\ offline' = [offline EXCEPT ![u] = @ \cup {m}],
         \/ job'[t] = Idle /\ job[t].todo = {}
         \/ /\ job[t].pc \in {"group.each", "group.store"}
            /\ job'[t].pc = "group.each" /\ job'[t].msg = m
            /\ job'[t].todo = job[t].todo \ {u}
  PROVE  MailInv' /\ MailNext
<1>1. \A s \in Thread : s # t => job[s] = Idle /\ job'[s] = Idle
  BY OneRuns
<1>2. fate[m][u] = "none" /\ m \notin fresh
  BY DEF MailInv, Owing, Owes, FreshIsNew
<1>3. \A n \in Msg, v \in User :
        fate'[n][v] = IF n = m /\ v = u THEN fate'[m][u] ELSE fate[n][v]
  BY DEF Known, Types, TypeOK
<1>4. fate'[m][u] \in {"live", "stored"}
  BY DEF Known, Types, TypeOK
<1>5. \A v \in User :
        \/ offline'[v] = offline[v]
        \/ v = u /\ offline'[v] = offline[v] \cup {m} /\ fate'[m][u] = "stored"
  BY DEF Known, Types, TypeOK
<1>6. fresh \subseteq Msg /\ \A v \in User : offline[v] \subseteq Msg
  BY DEF Known, Types, TypeOK
<1>7. \A v \in User : Owes(job'[t], v) <=> Owes(job[t], v) /\ v # u
  <2>1. CASE job'[t] = Idle /\ job[t].todo = {}
    BY <2>1, IdleOwes DEF Owes
  <2>2. CASE job'[t].pc = "group.each" /\ job[t].pc \in {"group.each", "group.store"}
             /\ job'[t].todo = job[t].todo \ {u}
    BY <2>2 DEF Owes
  <2> QED
    BY <2>1, <2>2
<1>8. MailInv'
  <2>1. Owing(job[t])'
    <3>1. CASE job'[t] = Idle
      BY <3>1 DEF Owing, Idle
    <3>2. CASE /\ job'[t].pc = "group.each" /\ job'[t].msg = m
               /\ job'[t].todo = job[t].todo \ {u}
      <4>1. \A v \in job[t].todo : fate[m][v] = "none" /\ v \in User
        BY DEF MailInv, Owing, Known, Types, Jobs, Job
      <4> QED
        BY <1>3, <3>2, <4>1 DEF Owing
    <3> QED
      BY <3>1, <3>2
  <2>2. Reading(job[t])'
    BY DEF Reading, Idle
  <2>3. RowIsKept'
    BY <1>2, <1>3, <1>5, <1>6 DEF MailInv, RowIsKept
  <2>4. job'[t].pc \notin Closing /\ job'[t].msg \in {job[t].msg, NoMsg}
    BY DEF Idle, Closing
  <2> QED
    BY <1>2, <1>3, <1>6, <2>1, <2>2, <2>3, <2>4, MailKept
<1>9. MailNext
  <2>1. Owed(m, u)
    BY <1>2 DEF Owed
  <2>2. ASSUME NEW n \in Msg, NEW v \in User
        PROVE  Owed(n, v)' <=> Owed(n, v) /\ (n # m \/ v # u)
    <3>1. Owed(n, v) <=> fate[n][v] = "none" /\ m = n /\ Owes(job[t], v)
      BY <1>1, OwedByOne
    <3>2. Owed(n, v)' <=> fate'[n][v] = "none" /\ job'[t].msg = n /\ Owes(job'[t], v)
      BY <1>1, OwedByOneNext
    <3>3. Owes(job'[t], v) => job'[t].msg = m
      BY IdleOwes
    <3> QED
      BY <1>3, <1>7, <3>1, <3>2, <3>3
  <2> QED
    BY <1>3, <1>4, <2>1, <2>2, Disposes
<1> QED
  BY <1>8, <1>9

\* A handler goes on with what it owes.
LEMMA MailGoesOn ==
  ASSUME Calm, Known, MailInv, NEW t \in Thread, job[t] # Idle,
         \A s \in Thread : s # t => job'[s] = job[s],
         UNCHANGED <<link, fresh, fate, offline>>,
         job'[t].pc \in {"idle", "one.store", "group.each", "group.store"},
         job'[t].msg = job[t].msg \/ (job'[t] = Idle /\ \A u \in User : ~ Owes(job[t], u)),
         \A u \in User : Owes(job'[t], u) <=> Owes(job[t], u),
         job'[t].todo = job[t].todo,
         job'[t].pc \in {"idle", "one.store"} => job'[t].todo = {},
         job'[t].pc = "one.store" => job'[t].user \in User,
         job'[t].pc = "group.store" => job'[t].user \in job'[t].todo
  PROVE  MailInv' /\ MailNext
<1>1. \A s \in Thread : s # t => job[s] = Idle /\ job'[s] = Idle
  BY OneRuns
<1>2. job'[t].msg \in {job[t].msg, NoMsg}
  BY DEF Idle
<1>3. MailInv'
  <2>1. Owing(job[t])'
    <3>1. \A u \in User : Owes(job[t], u) => fate[job[t].msg][u] = "none"
      BY DEF MailInv, Owing, Owes
    <3>2. job[t].todo \subseteq User
      BY DEF Known, Types, Jobs, Job
    <3> QED
      BY <3>1, <3>2 DEF Owing, Owes, Idle
  <2>2. Reading(job[t])'
    BY DEF Reading
  <2>3. RowIsKept'
    BY DEF MailInv, RowIsKept
  <2> QED
    BY <1>2, <2>1, <2>2, <2>3, MailKept DEF Closing, Known, Types, TypeOK
<1>4. MailNext
  <2>1. ASSUME NEW n \in Msg, NEW v \in User PROVE Owed(n, v)' <=> Owed(n, v)
    <3>1. Owed(n, v) <=> fate[n][v] = "none" /\ job[t].msg = n /\ Owes(job[t], v)
      BY <1>1, OwedByOne
    <3>2. Owed(n, v)' <=> fate'[n][v] = "none" /\ job'[t].msg = n /\ Owes(job'[t], v)
      BY <1>1, OwedByOneNext
    <3> QED
      BY <3>1, <3>2
  <2> QED
    BY <2>1, NothingMoves
<1> QED
  BY <1>3, <1>4

\* oneChat: forwarded to an open client of its user, or stored.
LEMMA MailOne ==
  ASSUME Calm, Known, MailInv, NEW t \in Thread, OneForward(t) \/ OneStore(t)
  PROVE  MailInv' /\ MailNext
<1> DEFINE m == job[t].msg
           u == job[t].user
<1>1. /\ job[t] # Idle /\ job[t].todo = {} /\ m \in Msg /\ u \in User
      /\ Owes(job[t], u) /\ job[t].pc \in {"one.forward", "one.store"}
  BY DEF OneForward, OneStore, At, Idle, MailInv, Owing, Owes, Known, Types,
     Jobs, Given
<1>2. /\ \A s \in Thread : s # t => job'[s] = job[s]
      /\ UNCHANGED <<link, fresh>>
  BY DEF OneForward, OneStore, Goto, Finish, world, Known, Types, Jobs
<1>3. Finish(t) => job'[t] = Idle
  BY DEF Finish, Known, Types, Jobs
<1>4. CASE OneForward(t)
  <2> DEFINE it == Cache!Found(heap, u)
  <2>1. offline' = offline /\ job[t].pc = "one.forward"
    BY <1>4 DEF OneForward, At, tables
  <2>2. CASE it # NoConn
    <3>1. fate' = [fate EXCEPT ![m][u] = "live"] /\ job'[t] = Idle
      BY <1>1, <1>3, <1>4, <2>2, SentIsLive DEF OneForward
    <3> HIDE DEF m, u
    <3> QED
      BY <1>1, <1>2, <2>1, <3>1, MailDone DEF m
  <2>3. CASE it = NoConn
    <3>1. fate' = fate /\ Goto(t, "one.store")
      BY <1>4, <2>3 DEF OneForward
    <3>2. /\ job'[t].pc = "one.store" /\ job'[t].user = u
          /\ job'[t].todo = job[t].todo /\ job'[t].msg = m
      BY <3>1 DEF Goto, Known, Types, Jobs, Job
    <3>3. \A v \in User : Owes(job'[t], v) <=> Owes(job[t], v)
      BY <2>1, <3>2 DEF Owes
    <3> QED
      BY <1>1, <1>2, <2>1, <3>1, <3>2, <3>3, MailGoesOn
  <2> QED
    BY <2>2, <2>3
<1>5. CASE OneStore(t)
  <2>1. /\ fate' = [fate EXCEPT ![m][u] = "stored"]
        /\ offline' = [offline EXCEPT ![u] = @ \cup {m}]
        /\ job'[t] = Idle
    BY <1>3, <1>5 DEF OneStore, Insert, Outcome, Calm
  <2> HIDE DEF m, u
  <2> QED
    BY <1>1, <1>2, <2>1, MailDone DEF m
<1> QED
  BY <1>4, <1>5

\* queryGroupUsers: the message is accepted for all members but its sender.
LEMMA MailMembers ==
  ASSUME Calm, Known, MailInv, NEW t \in Thread, GroupMembers(t)
  PROVE  MailInv' /\ MailNext
<1> DEFINE m == job[t].msg
           R == member \ {job[t].user}
<1>1. /\ job[t] # Idle /\ job[t].todo = {} /\ job[t].pc = "group.members"
      /\ m \in Msg /\ \A v \in User : fate[m][v] = "none"
  BY DEF GroupMembers, At, Idle, MailInv, Owing, Known, Types, Jobs, Given
<1>2. /\ \A s \in Thread : s # t => job'[s] = job[s]
      /\ UNCHANGED <<link, fresh, fate, offline>>
  BY DEF GroupMembers, tables, world, Known, Types, Jobs
<1>3. R \in SUBSET User
  BY DEF Known, Types, TypeOK
<1>4. job'[t].pc = "group.lock" /\ job'[t].todo = R /\ job'[t].msg = m
  <2>1. job' = [job EXCEPT ![t].todo = R, ![t].pc = "group.lock"]
    BY DEF GroupMembers, Outcome, Calm
  <2>2. job' = [job EXCEPT ![t] = [job[t] EXCEPT !.todo = R, !.pc = "group.lock"]]
    BY <2>1
  <2> HIDE DEF R
  <2> QED
    BY <2>2 DEF Known, Types, Jobs, Job
<1> HIDE DEF m, R
<1>5. MailInv'
  <2>1. Owing(job[t])'
    BY <1>1, <1>2, <1>3, <1>4 DEF Owing
  <2>2. Reading(job[t])'
    BY <1>4 DEF Reading
  <2>3. RowIsKept'
    BY <1>2 DEF MailInv, RowIsKept
  <2> QED
    BY <1>1, <1>2, <1>4, <2>1, <2>2, <2>3, MailKept
       DEF Closing, Known, Types, TypeOK, m
<1>6. MailNext
  <2>1. \A s \in Thread : s # t => job[s] = Idle /\ job'[s] = Idle
    BY <1>1, <1>2, OneRuns
  <2>2. \A n \in Msg, v \in User : ~ Owed(n, v)
    BY <1>1, <2>1, OwedByOne DEF Owes
  <2>3. ASSUME NEW n \in Msg, NEW v \in User
        PROVE  Owed(n, v)' <=> n = m /\ v \in R
    <3>1. Owed(n, v)' <=> fate'[n][v] = "none" /\ job'[t].msg = n /\ Owes(job'[t], v)
      BY <2>1, OwedByOneNext
    <3> QED
      BY <1>1, <1>2, <1>4, <3>1 DEF Owes
  <2>4. \A v \in User : ~ Kept(m, v) /\ ~ Shown(m, v)
    BY <1>1 DEF Kept, Shown
  <2> QED
    BY <1>1, <1>2, <1>3, <2>2, <2>3, <2>4, Accepts
<1> QED
  BY <1>5, <1>6

\* The loop of groupChat disposes of one member after the other.
LEMMA MailEach ==
  ASSUME Calm, Known, MailInv, NEW t \in Thread,
         GroupLock(t) \/ GroupForward(t) \/ GroupQuery(t) \/ GroupStore(t) \/ GroupUnlock(t)
  PROVE  MailInv' /\ MailNext
<1> DEFINE m == job[t].msg
<1>1. /\ job[t] # Idle /\ m \in Msg /\ job[t].todo \subseteq User
      /\ job[t].pc \in {"group.lock", "group.each", "group.store"}
  BY DEF GroupLock, GroupForward, GroupQuery, GroupStore, GroupUnlock, At,
     Idle, Known, Types, Jobs, Job, Given
<1>2. /\ \A s \in Thread : s # t => job'[s] = job[s]
      /\ UNCHANGED <<link, fresh>>
  BY DEF GroupLock, GroupForward, GroupQuery, GroupStore, GroupUnlock, Goto,
     Finish, world, Known, Types, Jobs
<1>3. CASE GroupLock(t)
  <2>1. UNCHANGED <<fate, offline>> /\ Goto(t, "group.each") /\ job[t].pc = "group.lock"
    BY <1>3 DEF GroupLock, At, tables
  <2>2. /\ job'[t].pc = "group.each" /\ job'[t].todo = job[t].todo
        /\ job'[t].msg = m
    BY <2>1 DEF Goto, Known, Types, Jobs, Job
  <2>3. \A v \in User : Owes(job'[t], v) <=> Owes(job[t], v)
    BY <2>1, <2>2 DEF Owes
  <2> QED
    BY <1>1, <1>2, <2>1, <2>2, <2>3, MailGoesOn
<1>4. CASE GroupUnlock(t)
  <2>1. /\ UNCHANGED <<fate, offline>> /\ job'[t] = Idle
        /\ job[t].pc = "group.each" /\ job[t].todo = {}
    BY <1>4 DEF GroupUnlock, At, tables, Finish, Known, Types, Jobs
  <2>2. \A v \in User : ~ Owes(job[t], v) /\ ~ Owes(job'[t], v)
    BY <2>1, IdleOwes DEF Owes
  <2>3. Idle.pc = "idle" /\ Idle.todo = {}
    BY DEF Idle
  <2> QED
    BY <1>1, <1>2, <2>1, <2>2, <2>3, MailGoesOn
<1>5. CASE GroupForward(t)
  <2>1. PICK u \in job[t].todo :
          /\ Cache!Found(heap, u) # NoConn
          /\ fate' = [fate EXCEPT ![m][u] = Sent(Cache!Found(heap, u), u)]
          /\ job' = [job EXCEPT ![t].todo = @ \ {u}]
    BY <1>5 DEF GroupForward
  <2>2. u \in User /\ fate' = [fate EXCEPT ![m][u] = "live"]
    BY <1>1, <2>1, SentIsLive
  <2>3. /\ offline' = offline /\ job[t].pc = "group.each" /\ job'[t].pc = "group.each"
        /\ job'[t].todo = job[t].todo \ {u} /\ job'[t].msg = m
    BY <1>5, <2>1 DEF GroupForward, At, tables, Known, Types, Jobs, Job
  <2>4. Owes(job[t], u)
    BY DEF Owes
  <2> QED
    BY <1>1, <1>2, <2>2, <2>3, <2>4, MailDone
<1>6. CASE GroupQuery(t)
  <2>1. PICK u \in job[t].todo :
          /\ Cache!Found(heap, u) = NoConn
          /\ IF row[u] = "online"
             THEN TRUE
             ELSE job' = [job EXCEPT ![t].user = u, ![t].pc = "group.store"] /\ fate' = fate
    BY <1>6 DEF GroupQuery, Outcome, Calm
  <2>2. row[u] # "online"
    BY <1>1, <2>1 DEF Known, DropInv, OnlineIsCached, Cache!Found
  <2>3. job' = [job EXCEPT ![t] = [job[t] EXCEPT !.user = u, !.pc = "group.store"]]
        /\ fate' = fate
    BY <2>1, <2>2
  <2>4. /\ job'[t].pc = "group.store" /\ job'[t].todo = job[t].todo
        /\ job'[t].msg = m /\ job'[t].user = u
    BY <2>3 DEF Known, Types, Jobs, Job
  <2>5. offline' = offline /\ job[t].pc = "group.each"
    BY <1>6 DEF GroupQuery, At, tables
  <2>6. \A v \in User : Owes(job'[t], v) <=> Owes(job[t], v)
    BY <2>4, <2>5 DEF Owes
  <2> QED
    BY <1>1, <1>2, <2>3, <2>4, <2>5, <2>6, MailGoesOn
<1>7. CASE GroupStore(t)
  <2> DEFINE u == job[t].user
  <2>1. u \in job[t].todo /\ u \in User /\ job[t].pc = "group.store"
    BY <1>1, <1>7 DEF GroupStore, At, MailInv, Owing
  <2>2. /\ fate' = [fate EXCEPT ![m][u] = "stored"]
        /\ offline' = [offline EXCEPT ![u] = @ \cup {m}]
        /\ job' = [job EXCEPT ![t].todo = @ \ {u}, ![t].pc = "group.each"]
    BY <1>7 DEF GroupStore, Insert, Outcome, Calm
  <2>3. job' = [job EXCEPT ![t] =
                  [job[t] EXCEPT !.todo = job[t].todo \ {u}, !.pc = "group.each"]]
    BY <2>2
  <2>4. /\ job'[t].pc = "group.each" /\ job'[t].todo = job[t].todo \ {u}
        /\ job'[t].msg = m
    BY <2>3 DEF Known, Types, Jobs, Job
  <2>5. Owes(job[t], u)
    BY <2>1 DEF Owes
  <2> HIDE DEF m, u
  <2> QED
    BY <1>1, <1>2, <2>1, <2>2, <2>4, <2>5, MailDone DEF m
<1> QED
  BY <1>3, <1>4, <1>5, <1>6, <1>7

\* A handler starts, with a message that has just been sent or with none.
LEMMA MailStarted ==
  ASSUME Calm, Known, MailInv, NEW c \in Conn, NEW j,
         job[LoopOf[c]] = Idle, job' = [job EXCEPT ![LoopOf[c]] = j],
         UNCHANGED <<link, fate, offline>>, fresh' \subseteq fresh,
         j.pc \in {"login.query", "create.member", "one.forward", "group.members"},
         j.todo = {}, j.msg = NoMsg \/ (j.msg \in fresh /\ j.msg \notin fresh'),
         j.pc \in {"one.forward", "group.members"} => j.msg \in fresh,
         j.pc = "one.forward" => j.user \in User
  PROVE  MailInv' /\ MailNext
<1> DEFINE t == LoopOf[c]
<1>1. t \in Thread /\ \A s \in Thread : job[s] = Idle
  BY AllIdle, ChatAssumption DEF Calm, MailInv
<1>2. job'[t] = j /\ \A s \in Thread : s # t => job'[s] = Idle
  BY <1>1 DEF Known, Types, Jobs
<1>3. fresh \subseteq Msg
  BY DEF Known, Types, TypeOK
<1>4. j.msg \in fresh => \A v \in User : fate[j.msg][v] = "none"
  BY DEF MailInv, FreshIsNew
<1> HIDE DEF t
<1>5. MailInv'
  <2>1. Alone' /\ Stays'
    <3>1. Alone'
      BY <1>2 DEF Alone, t
    <3>2. \A s \in Thread : job'[s].pc \notin Closing
      BY <1>2 DEF Idle, Closing
    <3> QED
      BY <3>1, <3>2 DEF MailInv, Stays
  <2>2. FreshIsNew'
    BY <1>1, <1>2, <1>3, ChatAssumption DEF MailInv, FreshIsNew, Idle
  <2>3. RowIsKept'
    BY DEF MailInv, RowIsKept
  <2>4. ASSUME NEW s \in Thread PROVE Owing(job[s])' /\ Reading(job[s])'
    BY <1>2, <1>4, <2>4 DEF Owing, Reading, Idle
  <2> QED
    BY <2>1, <2>2, <2>3, <2>4 DEF MailInv
<1>6. MailNext
  <2>1. ASSUME NEW n \in Msg, NEW v \in User
        PROVE  /\ ~ Owed(n, v)
               /\ Owed(n, v)' <=> j.pc = "one.forward" /\ n = j.msg /\ v = j.user
    <3>1. ~ Owed(n, v)
      BY <1>1, OwedByOne, IdleOwes
    <3>2. Owed(n, v)' <=> fate'[n][v] = "none" /\ j.msg = n /\ Owes(j, v)
      BY <1>1, <1>2, OwedByOneNext
    <3> QED
      BY <1>4, <3>1, <3>2 DEF Owes
  <2>2. CASE j.pc = "one.forward"
    <3> DEFINE R == {j.user}
    <3>1. j.msg \in Msg /\ R \in SUBSET User
      BY <1>3, <2>2
    <3>2. \A v \in User : ~ Owed(j.msg, v) /\ ~ Kept(j.msg, v) /\ ~ Shown(j.msg, v)
      BY <1>4, <2>1, <2>2, <3>1 DEF Kept, Shown
    <3>3. \A n \in Msg, v \in User :
            Owed(n, v)' <=> Owed(n, v) \/ (n = j.msg /\ v \in R)
      BY <2>1, <2>2
    <3> HIDE DEF R
    <3> QED
      BY <3>1, <3>2, <3>3, Accepts
  <2>3. CASE j.pc # "one.forward"
    BY <2>1, <2>3, NothingMoves
  <2> QED
    BY <2>2, <2>3
<1> QED
  BY <1>5, <1>6

\* The handlers that clients start.
LEMMA MailStart ==
  ASSUME Calm, Known, MailInv, NEW c \in Conn,
         \/ \E u \in User : Login(c, u)
         \/ CreateGroup(c)
         \/ \E u \in User, m \in Msg : OneChat(c, u, m)
         \/ \E m \in Msg : GroupChat(c, m)
  PROVE  MailInv' /\ MailNext
<1>0. fresh \subseteq Msg
  BY DEF Known, Types, TypeOK
<1>1. ASSUME NEW u \in User, Login(c, u) PROVE MailInv' /\ MailNext
  <2> DEFINE j == [Idle EXCEPT !.pc = "login.query", !.conn = c, !.user = u]
  <2>1. /\ job' = [job EXCEPT ![LoopOf[c]] = j] /\ job[LoopOf[c]] = Idle
        /\ UNCHANGED <<link, fate, offline, fresh>>
    BY <1>1 DEF Login, Receive, tables, world
  <2>2. j.pc = "login.query" /\ j.todo = {} /\ j.msg = NoMsg
    BY DEF Idle
  <2> HIDE DEF j
  <2> QED
    BY <2>1, <2>2, MailStarted
<1>2. ASSUME CreateGroup(c) PROVE MailInv' /\ MailNext
  <2> DEFINE j == [Idle EXCEPT !.pc = "create.member", !.user = session[c]]
  <2>1. /\ job' = [job EXCEPT ![LoopOf[c]] = j] /\ job[LoopOf[c]] = Idle
        /\ UNCHANGED <<link, fate, offline, fresh>>
    BY <1>2 DEF CreateGroup, Receive, world
  <2>2. j.pc = "create.member" /\ j.todo = {} /\ j.msg = NoMsg
    BY DEF Idle
  <2> HIDE DEF j
  <2> QED
    BY <2>1, <2>2, MailStarted
<1>3. ASSUME NEW u \in User, NEW m \in Msg, OneChat(c, u, m) PROVE MailInv' /\ MailNext
  <2> DEFINE j == [Idle EXCEPT !.pc = "one.forward", !.user = u, !.msg = m]
  <2>1. /\ job' = [job EXCEPT ![LoopOf[c]] = j] /\ job[LoopOf[c]] = Idle
        /\ UNCHANGED <<link, fate, offline>>
        /\ m \in fresh /\ fresh' = fresh \ {m}
    BY <1>3 DEF OneChat, Receive, tables
  <2>2. j.pc = "one.forward" /\ j.todo = {} /\ j.msg = m /\ j.user = u
    BY DEF Idle
  <2> HIDE DEF j
  <2> QED
    BY <2>1, <2>2, MailStarted
<1>4. ASSUME NEW m \in Msg, GroupChat(c, m) PROVE MailInv' /\ MailNext
  <2> DEFINE j == [Idle EXCEPT !.pc = "group.members", !.user = session[c], !.msg = m]
  <2>1. /\ job' = [job EXCEPT ![LoopOf[c]] = j] /\ job[LoopOf[c]] = Idle
        /\ UNCHANGED <<link, fate, offline>>
        /\ m \in fresh /\ fresh' = fresh \ {m}
    BY <1>4 DEF GroupChat, Receive, tables
  <2>2. j.pc = "group.members" /\ j.todo = {} /\ j.msg = m
    BY DEF Idle
  <2> HIDE DEF j
  <2> QED
    BY <2>1, <2>2, MailStarted
<1> QED
  BY <1>1, <1>2, <1>3, <1>4

\* The steps that are no handler's, and none.
LEMMA MailIdle ==
  ASSUME Known, MailInv,
         \/ \E c \in Conn : Connect(c) \/ Reg(c) \/ AddGroup(c)
         \/ UNCHANGED vars
  PROVE  MailInv' /\ MailNext
<1>1. /\ UNCHANGED <<job, fate, offline, fresh>>
      /\ \A c \in Conn : link'[c] \in {link[c], "open"}
  BY DEF Connect, Reg, AddGroup, vars, tables, world, Known, Types, TypeOK
<1>2. Alone' /\ Stays' /\ FreshIsNew' /\ RowIsKept'
  BY <1>1 DEF MailInv, Alone, Stays, FreshIsNew, RowIsKept
<1>3. \A t \in Thread : Owing(job[t])' /\ Reading(job[t])'
  BY <1>1 DEF MailInv, Owing, Reading
<1>4. \A n \in Msg, v \in User : Owed(n, v)' <=> Owed(n, v)
  BY <1>1 DEF Owed, Owes
<1> QED
  BY <1>1, <1>2, <1>3, <1>4, NothingMoves DEF MailInv

\* Every step keeps the invariant, and is a step of the mailbox or none.
LEMMA MailStep ==
  ASSUME Calm, Known, MailInv, [Next]_vars
  PROVE  MailInv' /\ MailNext
<1>1. ASSUME NEW c \in Conn, Client(c) \/ Close(c) PROVE MailInv' /\ MailNext
  <2>1. ~ Leave(c) /\ ~ LoginOut(c) /\ ~ Close(c)
    BY DEF Calm, Leave, LoginOut, Close, MailInv, Stays
  <2> QED
    BY <1>1, <2>1, MailStart, MailIdle DEF Client
<1>2. ASSUME NEW t \in Thread, Handler(t) PROVE MailInv' /\ MailNext
  <2>1. ~ CloseRemove(t) /\ ~ CloseOffline(t)
    BY DEF CloseRemove, CloseOffline, At, MailInv, Stays, Closing
  <2> QED
    BY <1>2, <2>1, MailOther, MailDelete, MailAnswer, MailOne, MailMembers,
       MailEach DEF Handler
<1>3. phase = "up" /\ SafeInv /\ Lasting
  BY DEF Known, DropInv, OnlineIsCached, Calm, Lasting
<1> QED
  BY <1>1, <1>2, <1>3, StaysUp, MailIdle

\* Where one thread runs all handlers, there is a place in the cache for every
\* user and nobody leaves, every step of the service is one of the mailbox or
\* leaves it as it is: a message that has been accepted is shown at once or
\* kept, what is kept is shown by the next login, and nothing is lost or shown
\* twice (chatservice.cpp:67-139, 237-260, 296-327).
THEOREM ChatImplementsMailbox ==
  ASSUME Calm, Roomy
  PROVE  Spec => Mailbox!Init /\ [][Mailbox!Next]_(Mailbox!vars)
<1>1. Init => MailInv
  BY ChatAssumption DEF Init, MailInv, Alone, Stays, FreshIsNew, RowIsKept,
     Owing, Reading, Idle, Closing
<1>2. Init => Mailbox!Init
  BY BoxesHold, ChatAssumption DEF Init, Mailbox!Init, Owed, Owes, Kept, Shown, Idle
<1>3. Spec => []Known
  <2>1. Lasting /\ "loginout" \notin Env
    BY DEF Calm, Lasting
  <2>2. Spec => []DeliveryInv
    BY <2>1, DeliveryAlways
  <2>3. Spec => []DropInv
    BY <2>1, DropAlways
  <2>4. Spec => []SafeInv
    BY SafeAlways
  <2> QED
    BY <2>2, <2>3, <2>4, TypesAlways, ChatRows, PTL DEF Known
<1>4. Known /\ MailInv /\ [Next]_vars => MailInv' /\ MailNext
  BY MailStep
<1>5. Spec => []MailInv
  BY <1>1, <1>3, <1>4, PTL DEF Spec
<1> QED
  BY <1>2, <1>3, <1>4, <1>5, PTL DEF Spec, MailNext
=============================================================================
