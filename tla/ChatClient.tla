----------------------------- MODULE ChatClient -----------------------------
(***************************************************************************)
(* The chat clients and the server's IO loops as they meet on the wire.    *)
(*                                                                         *)
(* A client is two threads: the menu thread sends a request and waits in   *)
(* sem_wait(&rwsem) for the reading thread, which parses what arrives and  *)
(* posts the semaphore for every login, register and merge answer.  A      *)
(* video merge uploads two files, asks for the merge, waits, downloads.    *)
(* The server merges in a child process, and its loop waits for a child,   *)
(* any child, before it answers.                                           *)
(*                                                                         *)
(* Neither end frames the stream.  The client sends each request with its  *)
(* NUL, so the server's parse stops after the first of several that it     *)
(* reads together, and the rest are gone; what it reads of half a request  *)
(* does not parse, and the exception ends the process.  Answers have no    *)
(* NUL: two of them read together, or half of one, end the client.         *)
(***************************************************************************)
EXTENDS Sequences, Naturals, FiniteSets

CONSTANTS Client, Loop,
          LoopOf,  \* the IO loop of each client's connection
          Editor,  \* the clients whose users merge videos
          Window,  \* requests the buffers of one direction hold; also the
                   \* bound on the forwarded messages a client has not read
          Env      \* what may go wrong

ASSUME ClientAssumption ==
  /\ LoopOf \in [Client -> Loop]
  /\ Editor \subseteq Client
  /\ Window \in Nat \ {0}
  /\ Env \subseteq {"join", "split", "nofork", "exit"}

VARIABLES main,    \* where each menu thread is
          reader,  \* where each reading thread is
          rwsem,   \* the semaphore between the two
          success, \* g_isLoginSuccess
          up,      \* requests on their way to the server
          torn,    \* the server has read a part of what is now first in up
          down,    \* answers and forwarded messages on their way to the client
          server,  \* the server process
          job,     \* the handler each loop is running
          child,   \* the process that merges for each client
          cached,  \* the clients other clients' messages are forwarded to
          granted, \* history: how the server has judged the last login
          robbed   \* history: clients whose request was read and not handled

threads == <<main, reader, rwsem, success>>
wire == <<up, torn, down>>
history == <<granted, robbed>>
vars == <<threads, wire, server, job, child, cached, history>>

Waits == {"login", "register", "video"}
Idle == [pc |-> "idle"]

Init ==
  /\ main = [c \in Client |-> "menu"]
  /\ reader = [c \in Client |-> "recv"]
  /\ rwsem = [c \in Client |-> 0]
  /\ success = [c \in Client |-> FALSE]
  /\ up = [c \in Client |-> <<>>] /\ torn = [c \in Client |-> FALSE]
  /\ down = [c \in Client |-> <<>>]
  /\ server = "up"
  /\ job = [l \in Loop |-> Idle]
  /\ child = [c \in Client |-> "none"]
  /\ cached = {}
  /\ granted = [c \in Client |-> FALSE]
  /\ robbed = {}

-----------------------------------------------------------------------------
(* The menu thread.                                                        *)

Goto(c, pc) == main' = [main EXCEPT ![c] = pc]

\* The process ends, with both threads and what it has not read.
Leave(c) ==
  /\ Goto(c, "exited")
  /\ reader' = [reader EXCEPT ![c] = "recv"]
  /\ rwsem' = [rwsem EXCEPT ![c] = 0]
  /\ success' = [success EXCEPT ![c] = FALSE]
  /\ down' = [down EXCEPT ![c] = <<>>]

\* send(): blocks while the buffers are full.  On a connection that the server
\* has left it raises SIGPIPE, which ends the client as Disconnected does.
Send(c, request) ==
  /\ server = "up" /\ Len(up[c]) < Window
  /\ up' = [up EXCEPT ![c] = Append(@, request)]

Login(c) ==
  /\ main[c] = "menu"
  /\ success' = [success EXCEPT ![c] = FALSE]
  /\ granted' = [granted EXCEPT ![c] = FALSE]
  /\ Send(c, "login") /\ Goto(c, "login")
  /\ UNCHANGED <<reader, rwsem, torn, down, server, job, child, cached, robbed>>

Register(c) ==
  /\ main[c] = "menu"
  /\ Send(c, "register") /\ Goto(c, "register")
  /\ UNCHANGED <<reader, rwsem, success, torn, down, server, job, child, cached, history>>

\* A command that sends a message and waits for nothing: chat, addfriend,
\* creategroup, addgroup, groupchat, and each FILE_PATH of putfile.
Command(c) ==
  /\ main[c] = "chat"
  /\ Send(c, "other")
  /\ UNCHANGED <<threads, torn, down, server, job, child, cached, history>>

LoginOut(c) ==
  /\ main[c] = "chat"
  /\ Send(c, "other") /\ Goto(c, "menu")
  /\ UNCHANGED <<reader, rwsem, success, torn, down, server, job, child, cached, history>>

\* quit, and the exit(0) with which a failed login at the file server ends
\* putfile and getfile.
Exit(c) ==
  /\ \/ main[c] = "menu"
     \/ "exit" \in Env /\ main[c] \in {"chat", "put1", "put2", "get"}
  /\ Leave(c)
  /\ UNCHANGED <<up, torn, server, job, child, cached, history>>

VideoMerge(c) ==
  /\ c \in Editor /\ main[c] = "chat"
  /\ Goto(c, "put1")
  /\ UNCHANGED <<reader, rwsem, success, wire, server, job, child, cached, history>>

\* _putfile: a FILE_PATH for the file, if there is one that matches.
Put(c) ==
  /\ main[c] \in {"put1", "put2"}
  /\ Goto(c, IF main[c] = "put1" THEN "put2" ELSE "ask")
  /\ Send(c, "other") \/ UNCHANGED up
  /\ UNCHANGED <<reader, rwsem, success, torn, down, server, job, child, cached, history>>

\* Mutant: sem_wait is left out.
Ask_NoWait(c) ==
  /\ main[c] = "ask"
  /\ Send(c, "video") /\ Goto(c, "get")
  /\ UNCHANGED <<reader, rwsem, success, torn, down, server, job, child, cached, history>>

Ask(c) ==
  /\ main[c] = "ask"
  /\ Send(c, "video") /\ Goto(c, "video")
  /\ UNCHANGED <<reader, rwsem, success, torn, down, server, job, child, cached, history>>

Get(c) ==
  /\ main[c] = "get"
  /\ Goto(c, "chat")
  /\ UNCHANGED <<reader, rwsem, success, wire, server, job, child, cached, history>>

\* sem_wait returns.
Return(c) ==
  /\ main[c] \in Waits /\ rwsem[c] > 0
  /\ rwsem' = [rwsem EXCEPT ![c] = @ - 1]
  /\ Goto(c, CASE main[c] = "login"    -> IF success[c] THEN "chat" ELSE "menu"
               [] main[c] = "register" -> "menu"
               [] main[c] = "video"    -> "get")
  /\ UNCHANGED <<reader, success, wire, server, job, child, cached, history>>

-----------------------------------------------------------------------------
(* The reading thread.                                                     *)

Alive(c) == main[c] # "exited"
Reading(c) == Alive(c) /\ reader[c] = "recv"

\* Mutant: sem_post before doLoginResponse.
Read_PostsFirst(c) ==
  LET m == Head(down[c])
  IN /\ Alive(c) /\ down[c] # <<>>
     /\ \/ /\ reader[c] = "recv" /\ m # "note"
           /\ reader' = [reader EXCEPT ![c] = "post"]
           /\ rwsem' = [rwsem EXCEPT ![c] = 1]
           /\ UNCHANGED <<success, down>>
        \/ /\ reader[c] = "post" \/ m = "note"
           /\ reader' = [reader EXCEPT ![c] = "recv"]
           /\ success' = [success EXCEPT ![c] = IF m = "accepted" THEN TRUE ELSE @]
           /\ down' = [down EXCEPT ![c] = Tail(@)]
           /\ UNCHANGED rwsem
     /\ UNCHANGED <<main, up, torn, server, job, child, cached, history>>

\* Mutant: a refused login does not post.
Read_OnlySuccess(c) ==
  LET m == Head(down[c])
  IN /\ Reading(c) /\ down[c] # <<>>
     /\ success' = [success EXCEPT ![c] = IF m = "accepted" THEN TRUE ELSE @]
     /\ reader' = [reader EXCEPT ![c] = IF m \in {"note", "refused"} THEN "recv" ELSE "post"]
     /\ down' = [down EXCEPT ![c] = Tail(@)]
     /\ UNCHANGED <<main, rwsem, up, torn, server, job, child, cached, history>>

\* recv returns one message: it is shown, or acted on before the post.
Read(c) ==
  LET m == Head(down[c])
  IN /\ Reading(c) /\ down[c] # <<>>
     /\ success' = [success EXCEPT ![c] = CASE m = "accepted" -> TRUE
                                            [] m = "refused"  -> FALSE
                                            [] OTHER          -> @]
     /\ reader' = [reader EXCEPT ![c] = IF m = "note" THEN "recv" ELSE "post"]
     /\ down' = [down EXCEPT ![c] = Tail(@)]
     /\ UNCHANGED <<main, rwsem, up, torn, server, job, child, cached, history>>

Post(c) ==
  /\ Alive(c) /\ reader[c] = "post"
  /\ rwsem' = [rwsem EXCEPT ![c] = @ + 1]
  /\ reader' = [reader EXCEPT ![c] = "recv"]
  /\ UNCHANGED <<main, success, wire, server, job, child, cached, history>>

\* recv returns two messages, or part of one: json::parse throws.
ReadGarbled(c) ==
  /\ Reading(c)
  /\ \/ "join" \in Env /\ Len(down[c]) > 1
     \/ "split" \in Env /\ down[c] # <<>>
  /\ Leave(c)
  /\ UNCHANGED <<up, torn, server, job, child, cached, history>>

\* recv returns 0 or -1: exit(-1).
Disconnected(c) ==
  /\ Reading(c) /\ server = "aborted"
  /\ Leave(c)
  /\ UNCHANGED <<up, torn, server, job, child, cached, history>>

-----------------------------------------------------------------------------
(* The server.                                                             *)

Free(l) == server = "up" /\ job[l] = Idle

\* conn->send: muduo buffers what the socket does not take.
Deliver(c, m) == down' = [down EXCEPT ![c] = IF Alive(c) THEN Append(@, m) ELSE @]

Answer(c, ack) == [pc |-> "answer", conn |-> c, ack |-> ack]

\* What becomes of the first request read.  A message goes to another client,
\* to the table, or nowhere.
Start(c, request) ==
  LET l == LoopOf[c]
  IN \/ /\ request = "login"
        /\ \/ /\ job' = [job EXCEPT ![l] = Answer(c, "accepted")]
              /\ cached' = cached \cup {c}
              /\ granted' = [granted EXCEPT ![c] = TRUE]
           \/ /\ job' = [job EXCEPT ![l] = Answer(c, "refused")]
              /\ UNCHANGED <<cached, granted>>
        /\ UNCHANGED down
     \/ /\ request = "register"
        /\ job' = [job EXCEPT ![l] = Answer(c, "registered")]
        /\ UNCHANGED <<down, cached, granted>>
     \/ /\ request = "video"
        /\ job' = [job EXCEPT ![l] = [pc |-> "fork", conn |-> c]]
        /\ UNCHANGED <<down, cached, granted>>
     \/ /\ request = "other"
        /\ \/ UNCHANGED down
           \/ \E d \in cached : Len(down[d]) < Window /\ Deliver(d, "note")
        /\ UNCHANGED <<job, cached, granted>>

\* onMessage: retrieveAllAsString returns k requests, and with `cut' a part of
\* what follows (or all but the NUL of the last).  Only the first is parsed.
OnMessage(c) ==
  /\ Free(LoopOf[c]) /\ up[c] # <<>> /\ ~ torn[c]
  /\ \E k \in 1 .. Len(up[c]), cut \in BOOLEAN :
       /\ k > 1 => "join" \in Env
       /\ cut => "split" \in Env
       /\ up' = [up EXCEPT ![c] = SubSeq(@, k + 1, Len(@))]
       /\ torn' = [torn EXCEPT ![c] = cut]
       /\ robbed' = IF \E i \in 2 .. k : up[c][i] \in Waits
                    THEN robbed \cup {c} ELSE robbed
  /\ Start(c, Head(up[c]))
  /\ UNCHANGED <<threads, server, child>>

\* It returns a part that does not parse: the exception ends the process.
Abort(c) ==
  /\ Free(LoopOf[c])
  /\ torn[c] \/ ("split" \in Env /\ up[c] # <<>>)
  /\ server' = "aborted"
  /\ job' = [l \in Loop |-> Idle]
  /\ up' = [d \in Client |-> <<>>] /\ torn' = [d \in Client |-> FALSE]
  /\ cached' = {}
  /\ UNCHANGED <<threads, down, child, history>>

\* mergevideos: fork, and execv in the child.
Fork(l) ==
  /\ job[l].pc = "fork"
  /\ \/ child' = [child EXCEPT ![job[l].conn] = "running"]
     \/ "nofork" \in Env /\ UNCHANGED child
  /\ job' = [job EXCEPT ![l].pc = "wait"]
  /\ UNCHANGED <<threads, wire, server, cached, history>>

\* The merge ends, well or not.
Merged(c) ==
  /\ child[c] = "running"
  /\ child' = [child EXCEPT ![c] = "ended"]
  /\ UNCHANGED <<threads, wire, server, job, cached, history>>

\* Mutant: waitpid with WNOHANG.
Wait_NoHang(l) ==
  /\ job[l].pc = "wait"
  /\ job' = [job EXCEPT ![l] = Answer(job[l].conn, "merged")]
  /\ child' = [c \in Client |-> IF child[c] = "ended" THEN "none" ELSE child[c]]
  /\ UNCHANGED <<threads, wire, server, cached, history>>

\* wait: reaps some child that has ended, or fails if there is none.
Wait(l) ==
  /\ job[l].pc = "wait"
  /\ \/ \E c \in Client : child[c] = "ended" /\ child' = [child EXCEPT ![c] = "none"]
     \/ (\A c \in Client : child[c] = "none") /\ UNCHANGED child
  /\ job' = [job EXCEPT ![l] = Answer(job[l].conn, "merged")]
  /\ UNCHANGED <<threads, wire, server, cached, history>>

Finish(l) ==
  /\ job[l].pc = "answer"
  /\ Deliver(job[l].conn, job[l].ack)
  /\ job' = [job EXCEPT ![l] = Idle]
  /\ UNCHANGED <<threads, up, torn, server, child, cached, history>>

-----------------------------------------------------------------------------
Menu(c) == Login(c) \/ Register(c) \/ Command(c) \/ LoginOut(c) \/ Exit(c) \/ VideoMerge(c)
Merging(c) == Put(c) \/ Ask(c) \/ Get(c)
Reader(c) == Read(c) \/ Post(c) \/ ReadGarbled(c) \/ Disconnected(c)
Receiving(c) == OnMessage(c) \/ Abort(c)
Handler(l) == Fork(l) \/ Wait(l) \/ Finish(l)

Next ==
  \/ \E c \in Client : Menu(c) \/ Merging(c) \/ Return(c) \/ Reader(c)
                       \/ Receiving(c) \/ Merged(c)
  \/ \E l \in Loop : Handler(l)

Spec == Init /\ [][Next]_vars

\* Threads run, a merge ends, and a poll serves every connection that is ready.
Fairness ==
  /\ \A c \in Client : /\ WF_vars(Return(c)) /\ WF_vars(Reader(c))
                       /\ WF_vars(Merged(c)) /\ SF_vars(Receiving(c))
  /\ \A l \in Loop : WF_vars(Handler(l))

FairSpec == Spec /\ Fairness

-----------------------------------------------------------------------------
(* Properties.                                                             *)

\* Where the requests that are waited for are in the stream, and the answers.
Asking(c) == {i \in DOMAIN up[c] : up[c][i] # "other"}
Answering(c) == {i \in DOMAIN down[c] : down[c][i] # "note"}

\* What a client's semaphore may still be posted for.
Pending(c) ==
  Cardinality(Asking(c))
  + (IF job[LoopOf[c]].pc # "idle" /\ job[LoopOf[c]].conn = c THEN 1 ELSE 0)
  + Cardinality(Answering(c))
  + (IF reader[c] = "post" THEN 1 ELSE 0)
  + rwsem[c]

\* One semaphore serves three kinds of wait, and a post does not say what it
\* answers (main.cpp:31, 137, 169, 778; 322-342).  As long as the server is
\* up, a client that waits has exactly one post to come and a client that does
\* not has none, or its request was one of those read and not handled.
PostIsAnswer ==
  \A c \in Client : Alive(c) /\ server = "up" =>
    Pending(c) = IF main[c] \in Waits /\ c \notin robbed THEN 1 ELSE 0

\* A login wait ends in the chat menu if the server has accepted this login,
\* and in the login menu if it has not (main.cpp:129-145, 181-291).
LoginHonoured ==
  [][\A c \in Client : main[c] = "login" /\ main'[c] # "login" /\ main'[c] # "exited"
       => main'[c] = (IF granted[c] THEN "chat" ELSE "menu")]_vars

\* A client downloads after the process that merges for it has ended
\* (chatservice.cpp:369-380, main.cpp:778).
DownloadAfterMerge ==
  \A c \in Client : main[c] = "get" => child[c] # "running"

\* A wait ends: in an answer or with the process; unless the request came in
\* one segment with the message before it, and was lost (chatserver.cpp:51).
WaitsEnd ==
  \A c \in Client : main[c] \in Waits ~> main[c] \notin Waits \/ c \in robbed
=============================================================================
