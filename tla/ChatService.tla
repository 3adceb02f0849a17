---------------------------- MODULE ChatService ----------------------------
(***************************************************************************)
(* The chat server: the handlers of ChatService run by muduo's IO threads, *)
(* the tables they read and write one statement at a time, and the cache   *)
(* of online connections they share under _connMutex.                      *)
(*                                                                         *)
(* A connection belongs to one IO thread for life, and a thread runs one   *)
(* handler at a time, so the handlers of a connection are serial and those *)
(* of different threads interleave at every database statement and at      *)
(* every acquisition of _connMutex.  A handler under way is a `job' with   *)
(* the program point it has reached and its locals.  The clients are the   *)
(* environment: they send what client/main.cpp sends, and may disappear.   *)
(*                                                                         *)
(* Data is abstracted to what the properties tell apart: a message is a    *)
(* model value sent once, there is one group, passwords are right or       *)
(* wrong, and the friend and group lists a login also reads are left out.  *)
(***************************************************************************)
EXTENDS FiniteSets, Naturals

CONSTANTS User, Conn, Msg,
          Thread,      \* muduo's IO loops: setThreadNum(2)
          LoopOf,      \* the loop a connection was assigned to, [Conn -> Thread]
          Capacity,    \* LRUCache(10)
          Env,         \* what the environment does besides logging in and chatting
          Registered,  \* the users in the User table at the start
          Founders,    \* the members of the group at the start; none: no group
          NoUser, NoConn, NoMsg, NoThread, Dummy, Dangling

ASSUME ChatAssumption ==
  /\ Capacity \in Nat \ {0}
  /\ LoopOf \in [Conn -> Thread]
  /\ Env \subseteq {"group", "leave", "loginout", "crash", "sigint", "dbfail"}
  /\ Founders \subseteq Registered /\ Registered \subseteq User
  /\ NoUser \notin User /\ NoConn \notin Conn
  /\ NoMsg \notin Msg /\ NoThread \notin Thread
  /\ Dummy \notin User /\ Dangling \notin User /\ Dummy # Dangling

VARIABLES row,      \* User.state, by user; "none" for an id that has no row
          offline,  \* the OfflineMessage table: the messages kept for each user
          group,    \* the AllGroup row of the group is there
          member,   \* its GroupUser rows
          heap,     \* _userConn
          connUser, \* _ConnToUser
          lock,     \* the thread in _connMutex, or NoThread
          job,      \* the handler each IO thread is running
          phase,    \* the server process
          link,     \* the state of each connection
          session,  \* the user each client takes itself to be logged in as
          fresh,    \* messages no client has sent yet
          fate      \* history: what became of a message for a user

tables == <<row, offline, group, member>>
memory == <<heap, connUser>>
world  == <<link, session, fresh>>
vars == <<tables, memory, lock, job, phase, world, fate>>

Cache == INSTANCE LRUHeap WITH Key <- User, Value <- Conn, NoValue <- NoConn

PC == {"idle",
       "login.query", "login.put", "login.online", "login.read",
       "login.delete", "login.send",
       "one.forward", "one.store",
       "create.member", "group.members", "group.lock", "group.each", "group.store",
       "close.remove", "close.offline"}

Job == [pc : PC, conn : Conn \cup {NoConn}, user : User \cup {NoUser},
        msg : Msg \cup {NoMsg}, todo : SUBSET User, seen : SUBSET Msg]

Idle == [pc |-> "idle", conn |-> NoConn, user |-> NoUser, msg |-> NoMsg,
         todo |-> {}, seen |-> {}]

\* none: not handled, or being handled; live: forwarded to its user's client;
\* wrong: forwarded to another user's client; stored: an OfflineMessage row;
\* read, twice: in one or more login responses; lost: written to a connection
\* whose client has gone; deleted: a row removed before any login read it;
\* dropped: a group message neither forwarded nor stored; failed: its insert
\* failed.
Fate == {"none", "live", "wrong", "stored", "read", "twice", "lost",
         "deleted", "dropped", "failed"}

TypeOK ==
  /\ row \in [User -> {"none", "offline", "online"}]
  /\ offline \in [User -> SUBSET Msg]
  /\ group \in BOOLEAN /\ member \in SUBSET User
  /\ heap \in Cache!Heap
  /\ connUser \in [Conn -> User \cup {NoUser}]
  /\ lock \in Thread \cup {NoThread}
  /\ job \in [Thread -> Job]
  /\ phase \in {"up", "exiting", "stopped", "crashed"}
  /\ link \in [Conn -> {"unused", "open", "gone", "dead"}]
  /\ session \in [Conn -> User \cup {NoUser}]
  /\ fresh \in SUBSET Msg
  /\ fate \in [Msg -> [User -> Fate]]

Init ==
  /\ row = [u \in User |-> IF u \in Registered THEN "offline" ELSE "none"]
  /\ offline = [u \in User |-> {}]
  /\ group = (Founders # {}) /\ member = Founders
  /\ heap = Cache!EmptyHeap
  /\ connUser = [c \in Conn |-> NoUser]
  /\ lock = NoThread
  /\ job = [t \in Thread |-> Idle]
  /\ phase = "up"
  /\ link = [c \in Conn |-> "unused"]
  /\ session = [c \in Conn |-> NoUser]
  /\ fresh = Msg
  /\ fate = [m \in Msg |-> [u \in User |-> "none"]]

-----------------------------------------------------------------------------
(* Helpers.                                                                *)

Running == phase \in {"up", "exiting"} /\ Cache!Sound(heap)

At(t, pc) == Running /\ job[t].pc = pc

Goto(t, pc) == job' = [job EXCEPT ![t].pc = pc]

Finish(t) == job' = [job EXCEPT ![t] = Idle]

\* A statement of the models may fail; none of the handlers looks.
Outcome == IF "dbfail" \in Env THEN BOOLEAN ELSE {TRUE}

LoginSteps == {"login.query", "login.put", "login.online", "login.read",
               "login.delete", "login.send"}

\* The client of c is u's, or is being logged in as u.
Serves(c, u) ==
  \/ session[c] = u
  \/ \E t \in Thread : job[t].conn = c /\ job[t].user = u /\ job[t].pc \in LoginSteps

\* it->send(...): what becomes of a message for u written to connection c.
Sent(c, u) == IF link[c] # "open" THEN "lost"
              ELSE IF Serves(c, u) THEN "live" ELSE "wrong"

\* _offlineMsgModel.insert(u, m)
Insert(u, m) ==
  \E ok \in Outcome :
    /\ offline' = IF ok THEN [offline EXCEPT ![u] = @ \cup {m}] ELSE offline
    /\ fate' = [fate EXCEPT ![m][u] = IF ok THEN "stored" ELSE "failed"]

-----------------------------------------------------------------------------
(* The clients.                                                            *)

Connect(c) ==
  /\ phase = "up" /\ link[c] = "unused"
  /\ link' = [link EXCEPT ![c] = "open"]
  /\ UNCHANGED <<tables, memory, lock, job, phase, session, fresh, fate>>

\* The client's process ends or its network fails; the server has yet to see it.
Leave(c) ==
  /\ "leave" \in Env /\ link[c] = "open"
  /\ link' = [link EXCEPT ![c] = "gone"]
  /\ session' = [session EXCEPT ![c] = NoUser]
  /\ UNCHANGED <<tables, memory, lock, job, phase, fresh, fate>>

\* LOGINOUT_MSG: no handler is registered for it, so the server's part is
\* getHandler's default, which only logs; the client goes back to its menu.
LoginOut(c) ==
  /\ "loginout" \in Env /\ Running
  /\ link[c] = "open" /\ session[c] # NoUser /\ job[LoopOf[c]] = Idle
  /\ session' = [session EXCEPT ![c] = NoUser]
  /\ UNCHANGED <<tables, memory, lock, job, phase, link, fresh, fate>>

\* onMessage: the loop of c reads a request and starts its handler.
Receive(c, request) ==
  /\ Running
  /\ link[c] = "open" /\ job[LoopOf[c]] = Idle
  /\ job' = [job EXCEPT ![LoopOf[c]] = request]

-----------------------------------------------------------------------------
(* reg and login                                                           *)

\* One insert, under the id that comes next; a name that is taken fails.
Reg(c) ==
  /\ Running
  /\ link[c] = "open" /\ job[LoopOf[c]] = Idle /\ session[c] = NoUser
  /\ \E u \in User : row[u] = "none" /\ row' = [row EXCEPT ![u] = "offline"]
  /\ UNCHANGED <<offline, group, member, memory, lock, job, phase, world, fate>>

Login(c, u) ==
  /\ session[c] = NoUser
  /\ Receive(c, [Idle EXCEPT !.pc = "login.query", !.conn = c, !.user = u])
  /\ UNCHANGED <<tables, memory, lock, phase, world, fate>>

\* Mutant: the state in the row is not looked at.
LoginQuery_NoStateCheck(t) ==
  /\ At(t, "login.query")
  /\ \E valid \in BOOLEAN :
       IF valid THEN Goto(t, "login.put") ELSE Finish(t)
  /\ UNCHANGED <<tables, memory, lock, phase, world, fate>>

\* Mutant: the default User of an unknown id is taken for a real one.
LoginQuery_NoIdCheck(t) ==
  /\ At(t, "login.query")
  /\ \E valid \in BOOLEAN :
       IF row[job[t].user] = "offline"
       THEN job' = [job EXCEPT ![t].user = IF valid THEN @ ELSE NoUser,
                               ![t].pc = "login.put"]
       ELSE Finish(t)
  /\ UNCHANGED <<tables, memory, lock, phase, world, fate>>

\* Mutant: the row is set online before the connection is cached.
LoginQuery_OnlineFirst(t) ==
  LET u == job[t].user
  IN /\ At(t, "login.query")
     /\ \E valid \in BOOLEAN :
          IF valid /\ row[u] = "offline"
          THEN Goto(t, "login.put") /\ row' = [row EXCEPT ![u] = "online"]
          ELSE Finish(t) /\ UNCHANGED row
     /\ UNCHANGED <<offline, group, member, memory, lock, phase, world, fate>>

\* _userModel.query(id): unknown user or wrong password (errno 1), already
\* online (errno 2), or accepted.
LoginQuery(t) ==
  /\ At(t, "login.query")
  /\ \E valid \in BOOLEAN :
       IF valid /\ row[job[t].user] = "offline"
       THEN Goto(t, "login.put") ELSE Finish(t)
  /\ UNCHANGED <<tables, memory, lock, phase, world, fate>>

\* Under _connMutex.  unordered_map::insert keeps an earlier entry for conn.
LoginPut(t) ==
  LET c == job[t].conn
      u == job[t].user
  IN /\ At(t, "login.put") /\ lock = NoThread
     /\ heap' = Cache!Put(heap, u, c)
     /\ connUser' = [connUser EXCEPT ![c] = IF @ = NoUser THEN u ELSE @]
     /\ Goto(t, "login.online")
     /\ UNCHANGED <<tables, lock, phase, world, fate>>

LoginOnline(t) ==
  /\ At(t, "login.online")
  /\ \E ok \in Outcome :
       row' = [row EXCEPT ![job[t].user] = IF ok THEN "online" ELSE @]
  /\ Goto(t, "login.read")
  /\ UNCHANGED <<offline, group, member, memory, lock, phase, world, fate>>

\* A failed query returns no messages.
LoginRead(t) ==
  /\ At(t, "login.read")
  /\ \E ok \in Outcome :
       LET vec == IF ok THEN offline[job[t].user] ELSE {}
       IN job' = [job EXCEPT
             ![t].seen = vec,
             ![t].pc = IF vec = {} THEN "login.send" ELSE "login.delete"]
  /\ UNCHANGED <<tables, memory, lock, phase, world, fate>>

\* Mutant: the delete has no where clause.
LoginDelete_EveryRow(t) ==
  /\ At(t, "login.delete")
  /\ \E ok \in Outcome :
       offline' = IF ok THEN [u \in User |-> {}] ELSE offline
  /\ Goto(t, "login.send")
  /\ UNCHANGED <<row, group, member, memory, lock, phase, world, fate>>

\* delete from OfflineMessage where userid = u: every row there is by now.
LoginDelete(t) ==
  LET u == job[t].user
  IN /\ At(t, "login.delete")
     /\ \E ok \in Outcome :
          IF ok
          THEN /\ offline' = [offline EXCEPT ![u] = {}]
               /\ fate' = [m \in Msg |->
                    IF m \in offline[u] \ job[t].seen
                    THEN [fate[m] EXCEPT ![u] = "deleted"] ELSE fate[m]]
          ELSE UNCHANGED <<offline, fate>>
     /\ Goto(t, "login.send")
     /\ UNCHANGED <<row, group, member, memory, lock, phase, world>>

\* What becomes of the messages carried by the response to a login of u on c.
Answered(c, u, seen) ==
  [m \in Msg |->
     IF m \notin seen THEN fate[m]
     ELSE [fate[m] EXCEPT ![u] =
             IF link[c] # "open" THEN IF @ = "stored" THEN "lost" ELSE @
             ELSE IF @ \in {"read", "twice"} THEN "twice" ELSE "read"]]

LoginSend(t) ==
  LET c == job[t].conn
      u == job[t].user
  IN /\ At(t, "login.send")
     /\ session' = [session EXCEPT ![c] = IF link[c] = "open" THEN u ELSE @]
     /\ fate' = Answered(c, u, job[t].seen)
     /\ Finish(t)
     /\ UNCHANGED <<tables, memory, lock, phase, link, fresh>>

-----------------------------------------------------------------------------
(* oneChat                                                                 *)

OneChat(c, u, m) ==
  /\ session[c] # NoUser /\ m \in fresh
  /\ Receive(c, [Idle EXCEPT !.pc = "one.forward", !.user = u, !.msg = m])
  /\ fresh' = fresh \ {m}
  /\ UNCHANGED <<tables, memory, lock, phase, link, session, fate>>

\* Mutant: the `return' after the send is missing.
OneForward_NoReturn(t) ==
  LET u == job[t].user
      it == Cache!Found(heap, u)
  IN /\ At(t, "one.forward") /\ lock = NoThread
     /\ heap' = Cache!Get(heap, u)
     /\ fate' = [fate EXCEPT ![job[t].msg][u] =
                   IF it # NoConn THEN Sent(it, u) ELSE @]
     /\ Goto(t, "one.store")
     /\ UNCHANGED <<tables, connUser, lock, phase, world>>

\* Under _connMutex: forwarded to the cached connection if there is one.
OneForward(t) ==
  LET u == job[t].user
      it == Cache!Found(heap, u)
  IN /\ At(t, "one.forward") /\ lock = NoThread
     /\ heap' = Cache!Get(heap, u)
     /\ IF it # NoConn
        THEN /\ fate' = [fate EXCEPT ![job[t].msg][u] = Sent(it, u)]
             /\ Finish(t)
        ELSE Goto(t, "one.store") /\ UNCHANGED fate
     /\ UNCHANGED <<tables, connUser, lock, phase, world>>

\* The state the code reads first does not change what it does.
OneStore(t) ==
  /\ At(t, "one.store")
  /\ Insert(job[t].user, job[t].msg)
  /\ Finish(t)
  /\ UNCHANGED <<row, group, member, memory, lock, phase, world>>

-----------------------------------------------------------------------------
(* createGroup, addGroup and groupChat                                     *)

\* Two inserts: the group, then its creator.  Nobody is told the group's id,
\* and addGroup does not ask whether there is one.
CreateGroup(c) ==
  /\ "group" \in Env /\ ~ group /\ session[c] # NoUser
  /\ Receive(c, [Idle EXCEPT !.pc = "create.member", !.user = session[c]])
  /\ group' = TRUE
  /\ UNCHANGED <<row, offline, member, memory, lock, phase, world, fate>>

CreateMember(t) ==
  /\ At(t, "create.member")
  /\ \E ok \in Outcome :
       member' = IF ok THEN member \cup {job[t].user} ELSE member
  /\ Finish(t)
  /\ UNCHANGED <<row, offline, group, memory, lock, phase, world, fate>>

\* One insert: the handler is a single step.
AddGroup(c) ==
  /\ "group" \in Env /\ Running
  /\ link[c] = "open" /\ job[LoopOf[c]] = Idle /\ session[c] # NoUser
  /\ \E ok \in Outcome :
       member' = IF ok THEN member \cup {session[c]} ELSE member
  /\ UNCHANGED <<row, offline, group, memory, lock, job, phase, world, fate>>

GroupChat(c, m) ==
  /\ "group" \in Env /\ session[c] # NoUser /\ m \in fresh
  /\ Receive(c, [Idle EXCEPT !.pc = "group.members", !.user = session[c], !.msg = m])
  /\ fresh' = fresh \ {m}
  /\ UNCHANGED <<tables, memory, lock, phase, link, session, fate>>

\* queryGroupUsers(userid, groupid), before the lock is taken.
GroupMembers(t) ==
  /\ At(t, "group.members")
  /\ \E ok \in Outcome :
       job' = [job EXCEPT ![t].todo = IF ok THEN member \ {job[t].user} ELSE {},
                          ![t].pc = "group.lock"]
  /\ UNCHANGED <<tables, memory, lock, phase, world, fate>>

GroupLock(t) ==
  /\ At(t, "group.lock") /\ lock = NoThread
  /\ lock' = t
  /\ Goto(t, "group.each")
  /\ UNCHANGED <<tables, memory, phase, world, fate>>

\* Mutant: `userid', the sender, is looked up in place of `id'.
GroupForward_ToSender(t) ==
  /\ At(t, "group.each")
  /\ \E u \in job[t].todo :
       LET it == Cache!Found(heap, job[t].user)
       IN /\ it # NoConn
          /\ heap' = Cache!Get(heap, job[t].user)
          /\ fate' = [fate EXCEPT ![job[t].msg][u] = Sent(it, u)]
          /\ job' = [job EXCEPT ![t].todo = @ \ {u}]
  /\ UNCHANGED <<tables, connUser, lock, phase, world>>

\* A member with a cached connection: the message is forwarded.
GroupForward(t) ==
  /\ At(t, "group.each")
  /\ \E u \in job[t].todo :
       LET it == Cache!Found(heap, u)
       IN /\ it # NoConn
          /\ heap' = Cache!Get(heap, u)
          /\ fate' = [fate EXCEPT ![job[t].msg][u] = Sent(it, u)]
          /\ job' = [job EXCEPT ![t].todo = @ \ {u}]
  /\ UNCHANGED <<tables, connUser, lock, phase, world>>

\* A member without one: the message is dropped if the User row says online,
\* else kept.  A failed query gives a default User, whose state is offline.
GroupQuery(t) ==
  /\ At(t, "group.each")
  /\ \E u \in job[t].todo, ok \in Outcome :
       /\ Cache!Found(heap, u) = NoConn
       /\ IF ok /\ row[u] = "online"
          THEN /\ fate' = [fate EXCEPT ![job[t].msg][u] = "dropped"]
               /\ job' = [job EXCEPT ![t].todo = @ \ {u}]
          ELSE /\ job' = [job EXCEPT ![t].user = u, ![t].pc = "group.store"]
               /\ UNCHANGED fate
  /\ UNCHANGED <<tables, memory, lock, phase, world>>

GroupStore(t) ==
  /\ At(t, "group.store")
  /\ Insert(job[t].user, job[t].msg)
  /\ job' = [job EXCEPT ![t].todo = @ \ {job[t].user}, ![t].pc = "group.each"]
  /\ UNCHANGED <<row, group, member, memory, lock, phase, world>>

\* Mutant: a bare lock() that no path unlocks.
GroupUnlock_Forgotten(t) ==
  /\ At(t, "group.each") /\ job[t].todo = {}
  /\ Finish(t)
  /\ UNCHANGED <<tables, memory, lock, phase, world, fate>>

\* The lock_guard goes out of scope with the handler.
GroupUnlock(t) ==
  /\ At(t, "group.each") /\ job[t].todo = {}
  /\ lock' = NoThread
  /\ Finish(t)
  /\ UNCHANGED <<tables, memory, phase, world, fate>>

-----------------------------------------------------------------------------
(* onConnection and clientCloseException                                   *)

Close(c) ==
  /\ Running
  /\ link[c] = "gone" /\ job[LoopOf[c]] = Idle
  /\ link' = [link EXCEPT ![c] = "dead"]
  /\ job' = [job EXCEPT ![LoopOf[c]] =
               [Idle EXCEPT !.pc = "close.remove", !.conn = c]]
  /\ UNCHANGED <<tables, memory, lock, phase, session, fresh, fate>>

\* Mutant: the state is not updated.
CloseRemove_StaysOnline(t) ==
  LET u == connUser[job[t].conn]
  IN /\ At(t, "close.remove") /\ lock = NoThread
     /\ heap' = IF u # NoUser THEN Cache!RemoveKey(heap, u) ELSE heap
     /\ Finish(t)
     /\ UNCHANGED <<tables, connUser, lock, phase, world, fate>>

\* Under _connMutex; the entry of _ConnToUser is left in place.
CloseRemove(t) ==
  LET u == connUser[job[t].conn]
  IN /\ At(t, "close.remove") /\ lock = NoThread
     /\ IF u # NoUser
        THEN /\ heap' = Cache!RemoveKey(heap, u)
             /\ job' = [job EXCEPT ![t].user = u, ![t].pc = "close.offline"]
        ELSE Finish(t) /\ UNCHANGED heap
     /\ UNCHANGED <<tables, connUser, lock, phase, world, fate>>

CloseOffline(t) ==
  /\ At(t, "close.offline")
  /\ \E ok \in Outcome :
       row' = [row EXCEPT ![job[t].user] = IF ok THEN "offline" ELSE @]
  /\ Finish(t)
  /\ UNCHANGED <<offline, group, member, memory, lock, phase, world, fate>>

-----------------------------------------------------------------------------
(* The process: SIGINT, crashes and restarts.                              *)

\* Memory, threads and connections go; the tables stay.  Messages a login has
\* deleted from the table and not yet answered with go with them.
Die(how) ==
  /\ phase' = how
  /\ heap' = Cache!EmptyHeap
  /\ connUser' = [c \in Conn |-> NoUser]
  /\ lock' = NoThread
  /\ job' = [t \in Thread |-> Idle]
  /\ link' = [c \in Conn |-> IF link[c] = "unused" THEN "unused" ELSE "dead"]
  /\ session' = [c \in Conn |-> NoUser]
  /\ fate' = [m \in Msg |-> [u \in User |->
       IF fate[m][u] = "stored" /\ m \notin offline[u] THEN "lost" ELSE fate[m][u]]]
  /\ UNCHANGED <<tables, fresh>>

\* resetHandler, first statement: reset() on the signalled thread while the
\* IO threads run on.
SigInt ==
  /\ "sigint" \in Env /\ phase = "up"
  /\ \E ok \in Outcome :
       row' = IF ok THEN [u \in User |-> IF row[u] = "online" THEN "offline" ELSE row[u]]
              ELSE row
  /\ phase' = "exiting"
  /\ UNCHANGED <<offline, group, member, memory, lock, job, world, fate>>

\* resetHandler, second statement.
Exit == phase = "exiting" /\ Die("stopped")

\* The process is killed, or its cache dereferences a bad pointer.
Crash ==
  /\ phase \in {"up", "exiting"}
  /\ "crash" \in Env \/ ~ Cache!Sound(heap)
  /\ Die("crashed")

\* main does not call reset.
Restart ==
  /\ phase \in {"stopped", "crashed"}
  /\ phase' = "up"
  /\ UNCHANGED <<tables, memory, lock, job, world, fate>>

-----------------------------------------------------------------------------
Handler(t) ==
  \/ LoginQuery(t) \/ LoginPut(t) \/ LoginOnline(t)
  \/ LoginRead(t) \/ LoginDelete(t) \/ LoginSend(t)
  \/ OneForward(t) \/ OneStore(t)
  \/ CreateMember(t) \/ GroupMembers(t) \/ GroupLock(t) \/ GroupForward(t)
  \/ GroupQuery(t) \/ GroupStore(t) \/ GroupUnlock(t)
  \/ CloseRemove(t) \/ CloseOffline(t)

Client(c) ==
  \/ Connect(c) \/ Leave(c) \/ LoginOut(c)
  \/ Reg(c) \/ CreateGroup(c) \/ AddGroup(c)
  \/ \E u \in User : Login(c, u)
  \/ \E u \in User, m \in Msg : OneChat(c, u, m)
  \/ \E m \in Msg : GroupChat(c, m)

Process == SigInt \/ Exit \/ Crash \/ Restart

Next ==
  \/ \E c \in Conn : Client(c) \/ Close(c)
  \/ \E t \in Thread : Handler(t)
  \/ Process

Spec == Init /\ [][Next]_vars

\* A running handler goes on.  A poll of a loop returns every connection with
\* something to read, so a closed one has its turn however often the others of
\* its loop are served in between.
Fairness == /\ \A t \in Thread : WF_vars(Handler(t))
            /\ \A c \in Conn : SF_vars(Close(c))

FairSpec == Spec /\ Fairness
=============================================================================
