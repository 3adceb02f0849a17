-------------------------- MODULE ChatProperties --------------------------
(***************************************************************************)
(* What is asked of ChatService.  A property that needs an environment     *)
(* without some of the events says so; the runs give that environment.     *)
(***************************************************************************)
EXTENDS ChatService

\* A thread that has passed `unique_lock' in groupChat, and only such a
\* thread, is in _connMutex between two steps: no return path leaves it
\* locked (chatservice.cpp:303-327).
InMutex == {"group.each", "group.store"}
MutexHeld ==
  \A t \in Thread : (lock = t) <=> (job[t].pc \in InMutex)

\* Ghosts and a corrupted list are harmless as long as nothing is evicted:
\* while there are no more users than places in the cache, no sequence of
\* logins, lookups and disconnections makes it dereference a null or dangling
\* pointer (chatservice.cpp:222, LRUCache.hpp:40-66).
CacheSafe == Cardinality(User) <= Capacity => Cache!Sound(heap)

\* Every cached connection was bound to its user by a login on it, so the
\* cache never hands out another user's connection: stale entries of closed
\* connections included (chatservice.cpp:98-102, 216-225).  In an environment
\* without loginout.
CachedIsBound ==
  \A u \in User : heap.value[u] # NoConn => connUser[heap.value[u]] = u

\* A message is written only to a client that is its user's, or is being
\* logged in as that user (chatservice.cpp:242-247, 306-310).  In an
\* environment without loginout.
NoMisdelivery == \A m \in Msg, u \in User : fate[m][u] # "wrong"

\* A user whose row says online has a client, or one that has gone and that the
\* server will see gone, or is being answered by a login, or being set offline
\* by the handler of a disconnection: what makes a later login possible
\* (chatservice.cpp:105-106, 212-233).  In an environment where neither the
\* process nor a client's session ends early and no statement fails.
Served(u) ==
  \/ \E c \in Conn : session[c] = u \/ (connUser[c] = u /\ link[c] = "gone")
  \/ \E t \in Thread :
       \/ /\ job[t].user = u
          /\ job[t].pc \in {"login.read", "login.delete", "login.send", "close.offline"}
       \/ job[t].pc = "close.remove" /\ connUser[job[t].conn] = u

OnlineHasClient ==
  phase = "up" => \A u \in User : row[u] = "online" => Served(u)

\* With room in the cache for every user, a member whom groupChat finds
\* neither cached nor offline does not exist: a login is cached before it is
\* marked online, and stays cached (chatservice.cpp:98-106, 312-318).  In an
\* environment where the process does not restart.
NeverDropped ==
  Cardinality(User) <= Capacity =>
    \A m \in Msg, u \in User : fate[m][u] # "dropped"

\* A message counted as kept is a row of OfflineMessage, or is in the hands
\* of the login that has deleted the row and not answered yet: no other
\* handler touches another user's rows (chatservice.cpp:114-120).
RowsAccounted ==
  \A m \in Msg, u \in User : fate[m][u] = "stored" =>
    \/ m \in offline[u]
    \/ \E t \in Thread : /\ job[t].pc = "login.send"
                         /\ job[t].user = u /\ m \in job[t].seen

\* chatservice.cpp:88: a user who is logged in is not logged in again.
SingleSession ==
  \A c, d \in Conn : session[c] # NoUser /\ session[c] = session[d] => c = d

-----------------------------------------------------------------------------
(* Liveness, under FairSpec.                                               *)

\* Every handler that starts finishes: no thread waits for ever in
\* _connMutex, which groupChat holds across its database statements
\* (chatservice.cpp:303-327).
HandlersFinish == \A t \in Thread : job[t].pc # "idle" ~> job[t].pc = "idle"

\* A client that goes away is set offline, whatever login of the same user
\* runs meanwhile (chatservice.cpp:212-233).
LeaverGoesOffline ==
  \A c \in Conn, u \in User :
    (link[c] = "gone" /\ connUser[c] = u) ~> (row[u] = "offline" \/ phase # "up")

-----------------------------------------------------------------------------
(* The service as its users see it.                                        *)

\* Group messages are due to the members once they have been read; a
\* one-to-one message when it is received.
due == [u \in User |->
  {m \in Msg : fate[m][u] = "none" /\ \E t \in Thread :
     /\ job[t].msg = m
     /\ \/ job[t].pc \in {"one.forward", "one.store"} /\ job[t].user = u
        \/ u \in job[t].todo}]
kept == [u \in User |-> {m \in Msg : fate[m][u] = "stored"}]
shown == [u \in User |-> {m \in Msg : fate[m][u] \in {"live", "read"}}]

Mailbox == INSTANCE ChatMailbox

\* One IO thread, room in the cache for everyone, and nobody leaves: the
\* handlers of chatservice.cpp implement the mailbox.
ImplementsMailbox == Mailbox!Spec

-----------------------------------------------------------------------------
(* What the comments say and the code does not do.                         *)

\* chatservice.cpp:258 stores a message for a user who is not online: one is
\* lost, written to a connection nobody reads, only in the gap before the
\* server has handled the disconnection of one of the user's clients.
OfflineIsStored ==
  [][\A m \in Msg, u \in User :
       fate[m][u] = "none" /\ fate'[m][u] = "lost"
         => \E c \in Conn : link[c] = "gone" /\ connUser[c] = u]_vars
=============================================================================
