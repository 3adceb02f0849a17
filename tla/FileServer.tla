----------------------------- MODULE FileServer -----------------------------
(***************************************************************************)
(* The process of the file server: the epoll loop, a thread for each       *)
(* connection, the globals the threads share, and procctl, which starts    *)
(* the server again when it exits.  What goes over a connection once it is *)
(* served is FileTransfer; here a transfer is a number of frames.          *)
(*                                                                         *)
(* A connection is a link, numbered by its login.  Each client is a chat   *)
(* client whose putfile or getfile logs in again for every transfer and    *)
(* keeps the connection until the next login, or until it exits.           *)
(*                                                                         *)
(* strRecvBuffer holds a login, some other frame, or nothing; starg the    *)
(* arguments of the login parsed last.  A step is one call that blocks, or *)
(* one access to a global; a frame is read as a whole, also by two threads *)
(* that read from one connection.                                          *)
(***************************************************************************)
EXTENDS Integers, FiniteSets

CONSTANTS Client,
          Kind,     \* what clients do: a subset of {"upload", "download"}
          MaxLink   \* bound: the logins of a behaviour

ASSUME ServerAssumption ==
  /\ IsFiniteSet(Client)
  /\ Kind \subseteq {"upload", "download"}
  /\ MaxLink \in Nat

Link == 1 .. MaxLink
NoLink == 0
Cleared == [link |-> NoLink, what |-> "nothing"]

VARIABLES client,     \* each client's program point and connection
          kind,       \* what each link was made for
          open,       \* links whose client end is open
          mail,       \* links with a login nobody has read
          answered,   \* links on which a login has been answered
          proc,       \* the server process
          listening,  \* the listening socket is open
          backlog,    \* links accept() has yet to return
          held,       \* links whose server end is open
          registered, \* links in the epoll set
          last,       \* TcpServer.m_connfd
          thread,     \* where the thread of each link is
          polled,     \* the link it polls for its login
          buffer,     \* strRecvBuffer
          starg,      \* the link whose login is in starg
          mixed,      \* history: links served with data of another one
          overlapped  \* history: links that had not the server to themselves

clients == <<client, kind, open>>
main == <<proc, listening, backlog, registered>>
shared == <<last, buffer, starg>>
threads == <<thread, polled>>
history == <<mixed, overlapped>>
vars == <<clients, mail, answered, main, held, shared, threads, history>>

LoginSteps == {"start", "poll", "read", "parse", "answer"}
Used == {l \in Link : kind[l] # "unused"}
With(pc) == {c \in Client : client[c].pc = pc}

TypeOK ==
  /\ client \in [Client -> [pc : {"menu", "connecting", "connected", "waiting",
                                  "busy", "exited"}, link : Link \cup {NoLink}]]
  /\ kind \in [Link -> Kind \cup {"unused"}]
  /\ \A S \in {open, mail, answered, backlog, held, registered, mixed, overlapped} :
       S \subseteq Link
  /\ proc \in {"up", "down"} /\ listening \in BOOLEAN
  /\ last \in Link \cup {NoLink} /\ starg \in Link \cup {NoLink}
  /\ thread \in [Link -> LoginSteps \cup
                   {"none", "dispatch", "recv", "body", "send", "gone"}]
  /\ polled \in [Link -> Link \cup {NoLink}]
  /\ buffer \in [link : Link \cup {NoLink}, what : {"nothing", "login", "frame"}]
  /\ backlog \cap held = {} /\ registered \subseteq held
  /\ \A l \in registered : thread[l] = "none"

Init ==
  /\ client = [c \in Client |-> [pc |-> "menu", link |-> NoLink]]
  /\ kind = [l \in Link |-> "unused"]
  /\ open = {} /\ mail = {} /\ answered = {}
  /\ proc = "up" /\ listening = TRUE
  /\ backlog = {} /\ held = {} /\ registered = {}
  /\ last = NoLink /\ starg = NoLink /\ buffer = Cleared
  /\ thread = [l \in Link |-> "none"]
  /\ polled = [l \in Link |-> NoLink]
  /\ mixed = {} /\ overlapped = {}

-----------------------------------------------------------------------------
(* The clients.                                                            *)

At(c, pc) == client[c].pc = pc
Go(c, pc) == client' = [client EXCEPT ![c].pc = pc]

\* EXIT, or the menu's quit: the connection goes with the process.
Gone(c) == Go(c, "exited") /\ open' = open \ {client[c].link}

\* ConnectToServer, first half: the old connection is closed.
Reconnect(c) ==
  /\ At(c, "menu") /\ Cardinality(Used) + Cardinality(With("connecting")) < MaxLink
  /\ Go(c, "connecting")
  /\ open' = open \ {client[c].link}
  /\ UNCHANGED <<kind, mail, answered, main, held, shared, threads, history>>

\* Second half: connect(), and EXIT if it is refused.
Connect(c) ==
  LET l == Cardinality(Used) + 1
  IN /\ At(c, "connecting")
     /\ IF listening
        THEN /\ \E k \in Kind : kind' = [kind EXCEPT ![l] = k]
             /\ client' = [client EXCEPT ![c] = [pc |-> "connected", link |-> l]]
             /\ open' = open \cup {l} /\ backlog' = backlog \cup {l}
        ELSE Go(c, "exited") /\ UNCHANGED <<kind, open, backlog>>
     /\ UNCHANGED <<mail, answered, proc, listening, registered, held, shared,
                    threads, history>>

\* The login message; on a dead connection the write or the read after it
\* fails.
SendLogin(c) ==
  LET l == client[c].link
  IN /\ At(c, "connected")
     /\ IF l \in backlog \cup held
        THEN Go(c, "waiting") /\ mail' = mail \cup {l} /\ UNCHANGED open
        ELSE Gone(c) /\ UNCHANGED mail
     /\ UNCHANGED <<kind, answered, main, held, shared, threads, history>>

\* Login does not look at the answer.
LoggedIn(c) ==
  /\ At(c, "waiting") /\ client[c].link \in answered
  /\ Go(c, "busy")
  /\ UNCHANGED <<kind, open, mail, answered, main, held, shared, threads, history>>

\* Mutant: Read without a timeout.
LoginFails_NoTimeout(c) ==
  /\ At(c, "waiting") /\ client[c].link \notin backlog \cup held
  /\ Gone(c)
  /\ UNCHANGED <<kind, mail, answered, main, held, shared, threads, history>>

\* Read(strrecvbuffer, 20) times out or finds the connection closed: EXIT.
LoginFails(c) ==
  /\ At(c, "waiting") /\ (client[c].link \notin answered \/ client[c].link \notin held)
  /\ Gone(c)
  /\ UNCHANGED <<kind, mail, answered, main, held, shared, threads, history>>

\* The transfer is over for the client, one way or another.
Finish(c) ==
  /\ At(c, "busy")
  /\ Go(c, "menu")
  /\ UNCHANGED <<kind, open, mail, answered, main, held, shared, threads, history>>

Quit(c) ==
  /\ At(c, "menu")
  /\ Gone(c)
  /\ UNCHANGED <<kind, mail, answered, main, held, shared, threads, history>>

-----------------------------------------------------------------------------
(* The process.                                                            *)

\* exit(0) in any thread.
Die ==
  /\ proc' = "down" /\ listening' = FALSE
  /\ backlog' = {} /\ registered' = {} /\ held' = {}
  /\ thread' = [l \in Link |-> "none"] /\ polled' = [l \in Link |-> NoLink]
  /\ last' = NoLink /\ starg' = NoLink /\ buffer' = Cleared

\* procctl: wait, sleep, fork, exec; InitServer.
Restart ==
  /\ proc = "down"
  /\ proc' = "up" /\ listening' = TRUE
  /\ UNCHANGED <<clients, mail, answered, backlog, registered, held, shared,
                 threads, history>>

\* epoll_wait reports the listening socket.
Accept ==
  \E l \in backlog :
    /\ listening /\ \A k \in backlog : l <= k
    /\ backlog' = backlog \ {l}
    /\ held' = held \cup {l} /\ registered' = registered \cup {l}
    /\ last' = l
    /\ overlapped' = IF held = {} THEN overlapped ELSE overlapped \cup held \cup {l}
    /\ UNCHANGED <<clients, mail, answered, proc, listening, buffer, starg,
                   threads, mixed>>

\* Mutant: without EPOLLONESHOT.
Event_EveryTime ==
  \E l \in registered :
    /\ l \in mail \/ l \notin open
    /\ thread' = [thread EXCEPT ![l] = "start"]
    /\ UNCHANGED <<clients, mail, answered, main, held, shared, polled, history>>

\* epoll_wait reports a connection, once (EPOLLONESHOT): a thread is created.
Event ==
  \E l \in registered :
    /\ l \in mail \/ l \notin open
    /\ registered' = registered \ {l}
    /\ thread' = [thread EXCEPT ![l] = "start"]
    /\ UNCHANGED <<clients, mail, answered, proc, listening, backlog, held,
                   shared, polled, history>>

-----------------------------------------------------------------------------
(* ClientLogin, by the thread of link l.                                   *)

Step(l, pc) == thread' = [thread EXCEPT ![l] = pc]

\* The client of l sends frames: headers, or answers to the server's.
Talks(l) ==
  /\ l \in open \cap held
  /\ \E c \in Client : client[c] = [pc |-> "busy", link |-> l]
  /\ kind[l] = "upload" \/ thread[l] = "send"

\* A poll of l returns; of a descriptor that has been closed, too.
Readable(l) == l \in mail \/ l \notin open \/ l \notin held \/ Talks(l)

\* The buffers are cleared, and the poll begins: of the global TcpServer.
StartPoll(l) ==
  /\ thread[l] = "start"
  /\ buffer' = Cleared
  /\ polled' = [polled EXCEPT ![l] = last]
  /\ Step(l, "poll")
  /\ UNCHANGED <<clients, mail, answered, main, held, last, starg, history>>

Polled(l) ==
  /\ thread[l] = "poll" /\ Readable(polled[l])
  /\ Step(l, "read")
  /\ UNCHANGED <<clients, mail, answered, main, held, shared, polled, history>>

\* 20 seconds: ChldEXIT.
PollTimesOut(l) ==
  /\ thread[l] = "poll" /\ ~ Readable(polled[l])
  /\ Die
  /\ UNCHANGED <<clients, mail, answered, history>>

\* TcpRead, without a timeout, of the connection accepted last by now.
ReadLogin(l) ==
  /\ thread[l] = "read"
  /\ IF last \in mail
     THEN /\ buffer' = [link |-> last, what |-> "login"]
          /\ mail' = mail \ {last}
          /\ UNCHANGED mixed
     ELSE /\ Talks(last)
          /\ buffer' = [link |-> last, what |-> "frame"]
          /\ mixed' = mixed \cup {last}
          /\ UNCHANGED mail
  /\ Step(l, "parse")
  /\ UNCHANGED <<clients, answered, main, held, last, starg, polled, overlapped>>

\* It finds the connection closed, by the client or by the server: ChldEXIT.
ReadFails(l) ==
  /\ thread[l] = "read" /\ last \notin mail /\ last \notin open \cap held
  /\ Die
  /\ UNCHANGED <<clients, mail, answered, history>>

\* Mutant: starg is cleared after it has been read.
Parse_ClearsLast(l) ==
  /\ thread[l] = "parse"
  /\ starg' = NoLink
  /\ Step(l, "answer")
  /\ UNCHANGED <<clients, mail, answered, main, held, last, buffer, polled, history>>

\* _xmltoarg: a frame that is no login leaves client type 0.
Parse(l) ==
  /\ thread[l] = "parse"
  /\ starg' = IF buffer.what = "login" THEN buffer.link ELSE NoLink
  /\ Step(l, "answer")
  /\ UNCHANGED <<clients, mail, answered, main, held, last, buffer, polled, history>>

\* Mutant: the answer goes to the global TcpServer.
WriteAnswer_ToLast(l) ==
  /\ thread[l] = "answer"
  /\ answered' = answered \cup {last}
  /\ Step(l, "dispatch")
  /\ UNCHANGED <<clients, mail, main, held, shared, polled, history>>

\* "ok" or "failed" to the thread's own connection.
WriteAnswer(l) ==
  /\ thread[l] = "answer"
  /\ answered' = answered \cup {l}
  /\ Step(l, "dispatch")
  /\ UNCHANGED <<clients, mail, main, held, shared, polled, history>>

\* The client has gone, and the write fails: ChldEXIT.
WriteFails(l) ==
  /\ thread[l] = "answer" /\ l \notin open
  /\ Die
  /\ UNCHANGED <<clients, mail, answered, history>>

-----------------------------------------------------------------------------
(* thmain after the login.                                                 *)

Mixes(l, wrong) == mixed' = IF wrong THEN mixed \cup {l} ELSE mixed

\* starg says what is to be done: RecvFilesMain clears the buffers first; with
\* neither type thmain returns, and leaves the connection as it is.
Dispatch(l) ==
  /\ thread[l] = "dispatch"
  /\ \/ starg = NoLink /\ Step(l, "gone") /\ UNCHANGED buffer
     \/ starg # NoLink /\ kind[starg] = "upload" /\ Step(l, "recv") /\ buffer' = Cleared
     \/ starg # NoLink /\ kind[starg] = "download" /\ Step(l, "send") /\ UNCHANGED buffer
  /\ Mixes(l, starg # l)
  /\ UNCHANGED <<clients, mail, answered, main, held, last, starg, polled, overlapped>>

\* RecvFilesMain reads a frame into strRecvBuffer.
RecvFrame(l) ==
  /\ thread[l] = "recv" /\ Talks(l)
  /\ buffer' = [link |-> l, what |-> "frame"]
  /\ Step(l, "body")
  /\ UNCHANGED <<clients, mail, answered, main, held, last, starg, polled, history>>

\* It takes the name and the size from strRecvBuffer, the directories from
\* starg, and clears the buffer for the next frame.
RecvBody(l) ==
  /\ thread[l] = "body"
  /\ Mixes(l, starg # l \/ buffer # [link |-> l, what |-> "frame"])
  /\ buffer' = Cleared
  /\ Step(l, "recv")
  /\ UNCHANGED <<clients, mail, answered, main, held, last, starg, polled, overlapped>>

\* The client is silent for 80 seconds, or gone: ChldEXIT.
RecvEnds(l) ==
  /\ thread[l] = "recv" /\ ~ Talks(l)
  /\ Die
  /\ UNCHANGED <<clients, mail, answered, history>>

\* Mutant: the destructor leaves the listening socket alone.
SendEnds_Listening(l) ==
  /\ thread[l] = "send"
  /\ held' = held \ {l}
  /\ \E b \in {buffer, Cleared} : buffer' = b
  /\ Mixes(l, starg # l)
  /\ Step(l, "gone")
  /\ UNCHANGED <<clients, mail, answered, main, last, starg, polled, overlapped>>

\* _tcpputfiles returns, and its copy of the CTcpServer closes the listening
\* socket and the connection.  It may have read answers into strRecvBuffer.
SendEnds(l) ==
  /\ thread[l] = "send"
  /\ listening' = FALSE /\ backlog' = {}
  /\ held' = held \ {l}
  /\ \E b \in {buffer, Cleared} : buffer' = b
  /\ Mixes(l, starg # l)
  /\ Step(l, "gone")
  /\ UNCHANGED <<clients, mail, answered, proc, registered, last, starg, polled,
                 overlapped>>

-----------------------------------------------------------------------------
ClientStep(c) == SendLogin(c) \/ LoggedIn(c) \/ LoginFails(c) \/ Finish(c) \/ Connect(c)

ClientLogin(l) ==
  \/ StartPoll(l) \/ Polled(l) \/ PollTimesOut(l) \/ ReadLogin(l) \/ ReadFails(l)
  \/ Parse(l) \/ WriteAnswer(l) \/ WriteFails(l)

Serve(l) == Dispatch(l) \/ RecvFrame(l) \/ RecvBody(l) \/ RecvEnds(l) \/ SendEnds(l)

Next ==
  \/ \E c \in Client : Reconnect(c) \/ Quit(c) \/ ClientStep(c)
  \/ Accept \/ Event \/ Restart
  \/ \E l \in Link : ClientLogin(l) \/ Serve(l)

Spec == Init /\ [][Next]_vars

\* The main thread, the threads and the clients run, and their timeouts
\* expire; nobody need log in again or quit.
Fairness ==
  /\ WF_vars(Accept) /\ WF_vars(Event)
  /\ \A l \in Link : WF_vars(ClientLogin(l)) /\ WF_vars(Serve(l))
  /\ \A c \in Client : WF_vars(ClientStep(c))

FairSpec == Spec /\ Fairness

-----------------------------------------------------------------------------
(* Properties.                                                             *)

\* A connection that has the server to itself from accept to its end is
\* served as its own login asks, frame by frame, although every thread works
\* with the globals TcpServer, strRecvBuffer and starg
\* (fileserver.cpp:243-250, 80-83, 348-386).
AloneIsServed ==
  /\ mixed \subseteq overlapped
  /\ \A l \in held : thread[l] = "gone" => l \in overlapped

\* A client that has been answered has a thread that is past its login:
\* whoever's login a thread reads, it answers its own client
\* (fileserver.cpp:243, 258).
AnsweredIsServed ==
  \A l \in answered \cap held : thread[l] \notin LoginSteps \cup {"none"}

\* While connections are accepted every thread still has its connection, so
\* idx, which is never decremented, stays within TcpServerArr as long as the
\* process may have no more descriptors than that (fileserver.cpp:11, 148-155):
\* a thread ends with the process, or takes the listening socket with it.
IndexBounded == listening => \A l \in Link : thread[l] # "none" => l \in held

\* Although its read of a login has no timeout once a poll has succeeded, and
\* another thread may have taken what the poll saw, no thread hangs in it, as
\* long as no thread returns with client type 0 and its connection open
\* (fileserver.cpp:243, _public.cpp:1867-1889).
LoginsEnd ==
  [](\A l \in held : thread[l] # "gone") =>
    \A l \in Link : thread[l] \in LoginSteps ~> thread[l] \notin LoginSteps
=============================================================================
