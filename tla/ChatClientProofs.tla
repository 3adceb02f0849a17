--------------------------- MODULE ChatClientProofs ---------------------------
(***************************************************************************)
(* Theorems of ChatClient, for any number of clients and IO loops and      *)
(* streams of any length.  A wait of a client is in one place at a time:   *)
(* its request in the stream up, the handler of its loop, the answer in    *)
(* the stream down, the reading thread, the semaphore, or nowhere any more *)
(* (it was lost).  From that follow what the semaphore stands for, what a  *)
(* login ends in and, with one loop, when a download may begin.            *)
(***************************************************************************)
EXTENDS ChatClient, FiniteSetTheorems, TLAPS

Request == Waits \cup {"other"}
Message == {"note", "accepted", "refused", "registered", "merged"}
Job == {Idle} \cup [pc : {"fork", "wait"}, conn : Client]
              \cup [pc : {"answer"}, conn : Client, ack : Message]

Place == Waits \cup {"menu", "chat", "put1", "put2", "ask", "get", "exited"}

ThreadTypes ==
  /\ main \in [Client -> Place]
  /\ reader \in [Client -> {"recv", "post"}]
  /\ rwsem \in [Client -> Nat]
  /\ success \in [Client -> BOOLEAN]

WireTypes == up \in [Client -> Seq(Request)] /\ down \in [Client -> Seq(Message)]

ServerTypes ==
  /\ server \in {"up", "aborted"}
  /\ job \in [Loop -> Job]
  /\ child \in [Client -> {"none", "running", "ended"}]
  /\ granted \in [Client -> BOOLEAN]
  /\ robbed \subseteq Client /\ cached \subseteq Client

Types == ThreadTypes /\ WireTypes /\ ServerTypes

\* A job that is not idle has a client, and what it is to answer if it answers.
LEMMA JobKinds ==
  ASSUME Types, NEW l \in Loop
  PROVE  /\ job[l] = Idle <=> job[l].pc = "idle"
         /\ job[l] # Idle => job[l].conn \in Client
         /\ job[l].pc \in {"idle", "fork", "wait", "answer"}
         /\ job[l].pc = "answer" => job[l].ack \in Message
<1>1. job[l] \in Job
  BY DEF Types, ServerTypes
<1> QED
  BY <1>1 DEF Job, Idle

\* The handler that answers is one of them.
LEMMA AnswerIsJob == \A c \in Client, m \in Message : Answer(c, m) \in Job
BY DEF Answer, Job

-----------------------------------------------------------------------------
(* The types.                                                              *)

\* Each thread variable takes one of its values.
LEMMA ThreadTypesStep == ASSUME Types, [Next]_vars PROVE ThreadTypes'
<1>0. ThreadTypes
  BY DEF Types
<1> DEFINE Sets(c) ==
      /\ main' = main \/ \E pc \in Place : Goto(c, pc)
      /\ reader' = reader \/ \E pc \in {"recv", "post"} : reader' = [reader EXCEPT ![c] = pc]
      /\ rwsem' = rwsem \/ \E n \in Nat : rwsem' = [rwsem EXCEPT ![c] = n]
      /\ success' = success \/ \E b \in BOOLEAN : success' = [success EXCEPT ![c] = b]
<1>1. ASSUME NEW c \in Client, Sets(c) PROVE ThreadTypes'
  BY <1>0, <1>1 DEF ThreadTypes, Goto
<1>2. ASSUME NEW c \in Client, Menu(c) PROVE Sets(c)
  <2>1. CASE Login(c) \/ Register(c)
    BY <2>1 DEF Login, Register, Place, Waits
  <2>2. CASE Command(c) \/ LoginOut(c) \/ VideoMerge(c)
    BY <2>2 DEF Command, LoginOut, VideoMerge, Place, threads
  <2>3. CASE Exit(c)
    BY <2>3 DEF Exit, Leave, Place
  <2> QED
    BY <1>2, <2>1, <2>2, <2>3 DEF Menu
<1>3. ASSUME NEW c \in Client, Merging(c) PROVE Sets(c)
  BY <1>3 DEF Merging, Put, Ask, Get, Place, Waits
<1>4. ASSUME NEW c \in Client, Return(c) PROVE Sets(c)
  <2>1. rwsem[c] - 1 \in Nat
    BY <1>4, <1>0 DEF Return, ThreadTypes
  <2> QED
    BY <1>4, <2>1 DEF Return, Place, Waits
<1>5. ASSUME NEW c \in Client, Reader(c) PROVE Sets(c)
  <2>1. CASE Read(c)
    <3>1. success[c] \in BOOLEAN
      BY <1>0 DEF ThreadTypes
    <3>2. \E b \in BOOLEAN : success' = [success EXCEPT ![c] = b]
      BY <2>1, <3>1 DEF Read
    <3> QED
      BY <2>1, <3>2 DEF Read
  <2>2. CASE Post(c)
    <3>1. rwsem[c] + 1 \in Nat
      BY <1>0 DEF ThreadTypes
    <3> QED
      BY <2>2, <3>1 DEF Post
  <2>3. CASE ReadGarbled(c) \/ Disconnected(c)
    BY <2>3 DEF ReadGarbled, Disconnected, Leave, Place
  <2> QED
    BY <1>5, <2>1, <2>2, <2>3 DEF Reader
<1>6. CASE UNCHANGED threads
  BY <1>6, <1>0 DEF threads, ThreadTypes
<1>7. /\ \A c \in Client : Receiving(c) \/ Merged(c) => UNCHANGED threads
      /\ \A l \in Loop : Handler(l) => UNCHANGED threads
  BY DEF Receiving, OnMessage, Abort, Merged, Handler, Fork, Wait, Finish
<1> HIDE DEF Sets
<1> QED
  BY <1>1, <1>2, <1>3, <1>4, <1>5, <1>6, <1>7 DEF Next, vars

\* What is left of a stream when the server has read some of it.
LEMMA Rest ==
  ASSUME NEW S, NEW s \in Seq(S), NEW k \in 1 .. Len(s)
  PROVE  /\ SubSeq(s, k + 1, Len(s)) \in Seq(S)
         /\ Len(SubSeq(s, k + 1, Len(s))) = Len(s) - k
         /\ \A i \in 1 .. Len(s) - k : SubSeq(s, k + 1, Len(s))[i] = s[k + i]
<1>1. k \in Nat /\ Len(s) \in Nat /\ k <= Len(s) /\ 1 <= k
  OBVIOUS
<1>2. \A i \in k + 1 .. Len(s) : s[i] \in S
  BY <1>1
<1> QED
  BY <1>1, <1>2

\* What a step puts on a client's stream down, or takes off it.
LEMMA DownMoves ==
  ASSUME Types, [Next]_vars
  PROVE  down' \in [Client -> Seq(Message)]
<1>0. WireTypes /\ down \in [Client -> Seq(Message)]
  BY DEF Types, WireTypes
<1>1. ASSUME NEW c \in Client, NEW m \in Message, Deliver(c, m)
      PROVE  down' \in [Client -> Seq(Message)]
  BY <1>0, <1>1 DEF Deliver
<1>2. ASSUME NEW c \in Client, Leave(c) PROVE down' \in [Client -> Seq(Message)]
  BY <1>0, <1>2 DEF Leave
<1>3. ASSUME NEW c \in Client, Read(c) PROVE down' \in [Client -> Seq(Message)]
  BY <1>0, <1>3 DEF Read
<1>4. CASE UNCHANGED down
  BY <1>0, <1>4
<1>5. ASSUME NEW c \in Client, OnMessage(c)
      PROVE  UNCHANGED down \/ \E d1 \in Client : Deliver(d1, "note")
  <2>1. Start(c, Head(up[c])) /\ cached \subseteq Client
    BY <1>5 DEF OnMessage, Types, ServerTypes
  <2> QED
    BY <2>1 DEF Start
<1>6. ASSUME NEW l \in Loop, Finish(l)
      PROVE  \E c \in Client, m \in Message : Deliver(c, m)
  BY <1>6, JobKinds DEF Finish, Idle
<1>7. "note" \in Message
  BY DEF Message
<1>8. /\ \A c \in Client : Menu(c) => UNCHANGED down \/ Leave(c)
      /\ \A c \in Client : Merging(c) \/ Return(c) \/ Merged(c) => UNCHANGED down
      /\ \A c \in Client : Receiving(c) => UNCHANGED down \/ OnMessage(c)
  BY DEF Menu, Login, Register, Command, LoginOut, Exit, VideoMerge, Merging, Put, Ask,
     Get, Return, Merged, Receiving, Abort, wire
<1>9. /\ \A c \in Client : Reader(c) => UNCHANGED down \/ Read(c) \/ Leave(c)
      /\ \A l \in Loop : Handler(l) => UNCHANGED down \/ Finish(l)
  BY DEF Reader, Post, ReadGarbled, Disconnected, Handler, Fork, Wait, wire
<1> QED
  BY <1>1, <1>2, <1>3, <1>4, <1>5, <1>6, <1>7, <1>8, <1>9 DEF Next, vars, wire

\* The streams up.
LEMMA UpMoves ==
  ASSUME Types, [Next]_vars
  PROVE  up' \in [Client -> Seq(Request)]
<1>0. up \in [Client -> Seq(Request)]
  BY DEF Types, WireTypes
<1>1. ASSUME NEW c \in Client, NEW m \in Request, Send(c, m)
      PROVE  up' \in [Client -> Seq(Request)]
  BY <1>0, <1>1 DEF Send
<1>2. ASSUME NEW c \in Client, OnMessage(c)
      PROVE  up' \in [Client -> Seq(Request)]
  <2>1. PICK k \in 1 .. Len(up[c]) :
          up' = [up EXCEPT ![c] = SubSeq(up[c], k + 1, Len(up[c]))]
    BY <1>2, <1>0 DEF OnMessage
  <2>2. SubSeq(up[c], k + 1, Len(up[c])) \in Seq(Request)
    BY <1>0, Rest
  <2> QED
    BY <1>0, <2>1, <2>2
<1>3. ASSUME NEW c \in Client, Abort(c) PROVE up' \in [Client -> Seq(Request)]
  BY <1>3 DEF Abort
<1>4. ASSUME NEW c \in Client, Menu(c) \/ Merging(c)
      PROVE  UNCHANGED up \/ \E m \in Request : Send(c, m)
  BY <1>4 DEF Menu, Login, Register, Command, LoginOut, Exit, VideoMerge, Merging, Put,
     Ask, Get, wire, Request, Waits
<1>5. /\ \A c \in Client : Return(c) \/ Merged(c) \/ Reader(c) => UNCHANGED up
      /\ \A l \in Loop : Handler(l) => UNCHANGED up
  BY DEF Return, Merged, Reader, Read, Post, ReadGarbled, Disconnected, Handler, Fork,
     Wait, Finish, wire
<1> QED
  BY <1>0, <1>1, <1>2, <1>3, <1>4, <1>5 DEF Next, vars, wire, Receiving

\* What a loop's handler can become, whichever client's request starts it.
LEMMA JobMoves ==
  ASSUME Types, [Next]_vars
  PROVE  job' \in [Loop -> Job]
<1>0. job \in [Loop -> Job] /\ \A c \in Client : LoopOf[c] \in Loop
  BY ClientAssumption DEF Types, ServerTypes
<1>1. ASSUME NEW l \in Loop, NEW j \in Job, job' = [job EXCEPT ![l] = j]
      PROVE  job' \in [Loop -> Job]
  BY <1>0, <1>1
<1>2. Idle \in Job /\ \A c \in Client : [pc |-> "fork", conn |-> c] \in Job
                                   /\ [pc |-> "wait", conn |-> c] \in Job
  BY DEF Job
<1>3. ASSUME NEW c \in Client, OnMessage(c)
      PROVE  job' = job \/ \E j \in Job : job' = [job EXCEPT ![LoopOf[c]] = j]
  <2>1. Start(c, Head(up[c]))
    BY <1>3 DEF OnMessage
  <2>2. {"accepted", "refused", "registered"} \subseteq Message
    BY DEF Message
  <2> QED
    BY <2>1, <2>2, <1>2, AnswerIsJob DEF Start
<1>4. ASSUME NEW l \in Loop, Handler(l)
      PROVE  \E j \in Job : job' = [job EXCEPT ![l] = j]
  <2>1. CASE Fork(l)
    <3>1. job[l].pc = "fork" /\ job[l] \in Job
      BY <2>1, <1>0 DEF Fork
    <3>2. PICK c \in Client : job[l] = [pc |-> "fork", conn |-> c]
      BY <3>1 DEF Job, Idle
    <3>3. [job[l] EXCEPT !.pc = "wait"] = [pc |-> "wait", conn |-> c]
      BY <3>2
    <3>4. job' = [job EXCEPT ![l] = [job[l] EXCEPT !.pc = "wait"]]
      BY <2>1 DEF Fork
    <3> QED
      BY <3>3, <3>4, <1>2
  <2>2. CASE Wait(l)
    <3>1. job[l].conn \in Client /\ "merged" \in Message
      BY <2>2, JobKinds DEF Wait, Message, Idle
    <3> QED
      BY <2>2, <3>1, AnswerIsJob DEF Wait
  <2>3. CASE Finish(l)
    BY <2>3, <1>2 DEF Finish
  <2> QED
    BY <1>4, <2>1, <2>2, <2>3 DEF Handler
<1>5. ASSUME NEW c \in Client, Abort(c) PROVE job' \in [Loop -> Job]
  BY <1>5, <1>2 DEF Abort
<1>6. \A c \in Client : Menu(c) \/ Merging(c) \/ Return(c) \/ Merged(c) \/ Reader(c)
        => UNCHANGED job
  BY DEF Menu, Login, Register, Command, LoginOut, Exit, VideoMerge, Merging, Put, Ask,
     Get, Return, Merged, Reader, Read, Post, ReadGarbled, Disconnected
<1> QED
  BY <1>0, <1>1, <1>3, <1>4, <1>5, <1>6 DEF Next, vars, Receiving

\* So does the state of the server.
LEMMA ServerTypesStep == ASSUME Types, [Next]_vars PROVE ServerTypes'
<1>0. ServerTypes
  BY DEF Types
<1>1. server' \in {"up", "aborted"}
  BY <1>0 DEF Next, vars, Menu, Login, Register, Command, LoginOut, Exit, VideoMerge,
     Merging, Put, Ask, Get, Return, Merged, Reader, Read, Post, ReadGarbled,
     Disconnected, Receiving, OnMessage, Abort, Handler, Fork, Wait, Finish, ServerTypes
<1>2. child' \in [Client -> {"none", "running", "ended"}]
  <2>1. ASSUME NEW c \in Client, NEW k \in {"none", "running", "ended"},
               child' = [child EXCEPT ![c] = k]
        PROVE  child' \in [Client -> {"none", "running", "ended"}]
    BY <1>0, <2>1 DEF ServerTypes
  <2>2. /\ \A c \in Client : Menu(c) \/ Merging(c) \/ Return(c) \/ Reader(c)
                             \/ Receiving(c) => UNCHANGED child
        /\ \A l \in Loop : Finish(l) => UNCHANGED child
    BY DEF Menu, Login, Register, Command, LoginOut, Exit, VideoMerge, Merging, Put,
       Ask, Get, Return, Reader, Read, Post, ReadGarbled, Disconnected, Receiving,
       OnMessage, Abort, Finish
  <2>3. ASSUME NEW l \in Loop, Fork(l)
        PROVE  UNCHANGED child \/ \E c \in Client : child' = [child EXCEPT ![c] = "running"]
    BY <2>3, JobKinds DEF Fork, Idle
  <2>4. ASSUME NEW l \in Loop, Wait(l)
        PROVE  UNCHANGED child \/ \E c \in Client : child' = [child EXCEPT ![c] = "none"]
    BY <2>4 DEF Wait
  <2>5. ASSUME NEW c \in Client, Merged(c)
        PROVE  child' = [child EXCEPT ![c] = "ended"]
    BY <2>5 DEF Merged
  <2> QED
    BY <1>0, <2>1, <2>2, <2>3, <2>4, <2>5 DEF Next, Handler, vars, ServerTypes
<1>3. granted' \in [Client -> BOOLEAN] /\ cached' \subseteq Client
  <2>1. ASSUME NEW c \in Client, OnMessage(c)
        PROVE  /\ UNCHANGED granted \/ granted' = [granted EXCEPT ![c] = TRUE]
               /\ UNCHANGED cached \/ cached' = cached \cup {c}
    <3>1. Start(c, Head(up[c]))
      BY <2>1 DEF OnMessage
    <3> QED
      BY <3>1 DEF Start
  <2>2. ASSUME NEW c \in Client, Login(c)
        PROVE  granted' = [granted EXCEPT ![c] = FALSE] /\ UNCHANGED cached
    BY <2>2 DEF Login
  <2>3. \A c \in Client : Menu(c) => Login(c) \/ UNCHANGED <<granted, cached>>
    BY DEF Menu, Register, Command, LoginOut, Exit, VideoMerge, history
  <2>4. /\ \A c \in Client : Merging(c) \/ Return(c) \/ Reader(c) \/ Merged(c)
                             => UNCHANGED <<granted, cached>>
        /\ \A l \in Loop : Handler(l) => UNCHANGED <<granted, cached>>
        /\ \A c \in Client : Abort(c) => UNCHANGED granted /\ cached' = {}
    BY DEF Merging, Put, Ask, Get, Return, Reader, Read, Post, ReadGarbled,
       Disconnected, Merged, Handler, Fork, Wait, Finish, Abort, history
  <2> QED
    BY <1>0, <2>1, <2>2, <2>3, <2>4 DEF Next, Receiving, vars, history, ServerTypes
<1>4. robbed' \subseteq Client
  <2>1. ASSUME NEW c \in Client, OnMessage(c) PROVE robbed' \subseteq Client
    <3>1. robbed' = robbed \cup {c} \/ robbed' = robbed
      BY <2>1 DEF OnMessage
    <3> QED
      BY <3>1, <1>0 DEF ServerTypes
  <2>2. /\ \A c \in Client : Menu(c) \/ Merging(c) \/ Return(c) \/ Reader(c) \/ Merged(c)
                             \/ Abort(c) => UNCHANGED robbed
        /\ \A l \in Loop : Handler(l) => UNCHANGED robbed
    BY DEF Menu, Login, Register, Command, LoginOut, Exit, VideoMerge, Merging, Put,
       Ask, Get, Return, Reader, Read, Post, ReadGarbled, Disconnected, Merged, Handler,
       Fork, Wait, Finish, Abort, history
  <2> QED
    BY <1>0, <2>1, <2>2 DEF Next, Receiving, vars, history, ServerTypes
<1> QED
  BY <1>1, <1>2, <1>3, <1>4, JobMoves DEF ServerTypes

\* All together.
LEMMA TypesStep == ASSUME Types, [Next]_vars PROVE Types'
BY ThreadTypesStep, UpMoves, DownMoves, ServerTypesStep DEF Types, WireTypes

-----------------------------------------------------------------------------
(* The two streams.                                                        *)

Quiet(s, x) == \A i \in DOMAIN s : s[i] = x

\* One request that is waited for, the last.
Asks(s, m) ==
  Len(s) > 0 /\ s[Len(s)] = m /\ \A i \in 1 .. Len(s) - 1 : s[i] = "other"

\* One answer, among messages of other clients.
Tells(s, m) == \E i \in DOMAIN s : s[i] = m /\ \A j \in DOMAIN s \ {i} : s[j] = "note"

\* What a stream becomes when something is put on it.
LEMMA Added ==
  ASSUME NEW S, NEW s \in Seq(S), NEW x \in S
  PROVE  LET t == Append(s, x)
         IN  /\ \A y : Quiet(s, y) /\ x = y => Quiet(t, y)
             /\ Quiet(s, "other") => Asks(t, x)
             /\ Quiet(s, "note") => Tells(t, x)
             /\ \A m : Tells(s, m) /\ x = "note" => Tells(t, m)
<1> DEFINE t == Append(s, x)
<1>1. /\ Len(t) = Len(s) + 1 /\ DOMAIN t = 1 .. Len(t) /\ Len(s) \in Nat
      /\ DOMAIN s = 1 .. Len(s) /\ t[Len(t)] = x
      /\ \A i \in DOMAIN s : t[i] = s[i] /\ i \in DOMAIN t
      /\ \A i \in DOMAIN t : i \in DOMAIN s \/ i = Len(t)
  OBVIOUS
<1> HIDE DEF t
<1>2. \A y : Quiet(s, y) /\ x = y => Quiet(t, y)
  BY <1>1 DEF Quiet
<1>3. Quiet(s, "other") => Asks(t, x)
  BY <1>1 DEF Quiet, Asks
<1>4. Quiet(s, "note") => Tells(t, x)
  <2>1. SUFFICES ASSUME Quiet(s, "note") PROVE Tells(t, x)
    OBVIOUS
  <2>2. Len(t) \in DOMAIN t
    BY <1>1
  <2> QED
    BY <1>1, <2>1, <2>2 DEF Quiet, Tells
<1>5. \A m : Tells(s, m) /\ x = "note" => Tells(t, m)
  <2> SUFFICES ASSUME NEW m, Tells(s, m), x = "note" PROVE Tells(t, m)
    OBVIOUS
  <2>1. PICK i \in DOMAIN s : s[i] = m /\ \A j \in DOMAIN s \ {i} : s[j] = "note"
    BY DEF Tells
  <2>2. i \in DOMAIN t /\ t[i] = m /\ \A j \in DOMAIN t \ {i} : t[j] = "note"
    BY <1>1, <2>1
  <2> QED
    BY <2>2 DEF Tells
<1> QED
  BY <1>2, <1>3, <1>4, <1>5 DEF t

\* What it becomes when the first item is taken off.
LEMMA Removed ==
  ASSUME NEW S, NEW s \in Seq(S), s # <<>>
  PROVE  /\ \A y : Quiet(s, y) => Head(s) = y /\ Quiet(Tail(s), y)
         /\ \A m : Tells(s, m) => \/ Head(s) = "note" /\ Tells(Tail(s), m)
                                  \/ Head(s) = m /\ Quiet(Tail(s), "note")
<1> DEFINE t == Tail(s)
<1>1. /\ Len(s) > 0 /\ Len(s) \in Nat /\ DOMAIN s = 1 .. Len(s) /\ Head(s) = s[1]
      /\ Len(t) = Len(s) - 1 /\ DOMAIN t = 1 .. Len(t)
      /\ \A i \in DOMAIN t : t[i] = s[i + 1] /\ i + 1 \in DOMAIN s
  OBVIOUS
<1> HIDE DEF t
<1>2. \A y : Quiet(s, y) => Head(s) = y /\ Quiet(t, y)
  BY <1>1 DEF Quiet
<1>3. ASSUME NEW m, Tells(s, m)
      PROVE  \/ Head(s) = "note" /\ Tells(t, m)
             \/ Head(s) = m /\ Quiet(t, "note")
  <2>1. PICK i \in DOMAIN s : s[i] = m /\ \A j \in DOMAIN s \ {i} : s[j] = "note"
    BY <1>3 DEF Tells
  <2>2. CASE i = 1
    BY <1>1, <2>1, <2>2 DEF Quiet
  <2>3. CASE i # 1
    <3>1. /\ i - 1 \in DOMAIN t /\ t[i - 1] = m
          /\ \A j \in DOMAIN t \ {i - 1} : t[j] = "note"
      BY <1>1, <2>1, <2>3
    <3> QED
      BY <1>1, <2>1, <2>3, <3>1 DEF Tells
  <2> QED
    BY <2>2, <2>3
<1> QED
  BY <1>2, <1>3 DEF t

\* What it becomes when the server reads k requests, and which one it handles.
LEMMA Consumed ==
  ASSUME NEW s \in Seq(Request), NEW k \in 1 .. Len(s)
  PROVE  LET t == SubSeq(s, k + 1, Len(s))
         IN  /\ Quiet(s, "other") => /\ Head(s) = "other" /\ Quiet(t, "other")
                                     /\ \A i \in 2 .. k : s[i] \notin Waits
             /\ \A m \in Waits : Asks(s, m) =>
                  /\ Head(s) = IF Len(s) = 1 THEN m ELSE "other"
                  /\ k < Len(s) => Asks(t, m) /\ \A i \in 2 .. k : s[i] \notin Waits
                  /\ k = Len(s) => /\ Quiet(t, "other")
                                   /\ Len(s) > 1 => \E i \in 2 .. k : s[i] \in Waits
                                   /\ Len(s) = 1 => \A i \in 2 .. k : s[i] \notin Waits
<1> DEFINE t == SubSeq(s, k + 1, Len(s))
<1>1. /\ Len(s) \in Nat /\ Len(s) > 0 /\ DOMAIN s = 1 .. Len(s) /\ Head(s) = s[1]
      /\ k \in Nat /\ k > 0 /\ k <= Len(s)
      /\ Len(t) = Len(s) - k /\ DOMAIN t = 1 .. Len(t)
      /\ \A i \in DOMAIN t : t[i] = s[k + i] /\ k + i \in DOMAIN s
  <2>1. t \in Seq(Request) /\ Len(t) = Len(s) - k /\ \A i \in 1 .. Len(s) - k : t[i] = s[k + i]
    BY Rest
  <2>2. /\ Len(s) \in Nat /\ Len(s) > 0 /\ DOMAIN s = 1 .. Len(s) /\ Head(s) = s[1]
        /\ k \in Nat /\ k > 0 /\ k <= Len(s)
    OBVIOUS
  <2>3. DOMAIN t = 1 .. Len(t)
    BY <2>1
  <2>4. \A i \in DOMAIN t : i \in 1 .. Len(s) - k
    BY <2>1, <2>3
  <2> HIDE DEF t
  <2> QED
    BY <2>1, <2>2, <2>3, <2>4
<1> HIDE DEF t
<1>2. "other" \notin Waits
  BY DEF Waits
<1>3. ASSUME Quiet(s, "other")
      PROVE  /\ Head(s) = "other" /\ Quiet(t, "other")
             /\ \A i \in 2 .. k : s[i] \notin Waits
  BY <1>1, <1>2, <1>3 DEF Quiet
<1>4. ASSUME NEW m \in Waits, Asks(s, m)
      PROVE  /\ Head(s) = IF Len(s) = 1 THEN m ELSE "other"
             /\ k < Len(s) => Asks(t, m) /\ \A i \in 2 .. k : s[i] \notin Waits
             /\ k = Len(s) => /\ Quiet(t, "other")
                              /\ Len(s) > 1 => \E i \in 2 .. k : s[i] \in Waits
                              /\ Len(s) = 1 => \A i \in 2 .. k : s[i] \notin Waits
  <2>1. s[Len(s)] = m /\ \A i \in 1 .. Len(s) - 1 : s[i] = "other"
    BY <1>4 DEF Asks
  <2>2. Head(s) = IF Len(s) = 1 THEN m ELSE "other"
    BY <1>1, <2>1
  <2>3. ASSUME k < Len(s) PROVE Asks(t, m) /\ \A i \in 2 .. k : s[i] \notin Waits
    <3>1. t[Len(t)] = m /\ Len(t) > 0
      BY <1>1, <2>1, <2>3
    <3>2. \A i \in 1 .. Len(t) - 1 : t[i] = "other"
      BY <1>1, <2>1, <2>3
    <3>3. \A i \in 2 .. k : s[i] = "other"
      BY <1>1, <2>1, <2>3
    <3> QED
      BY <3>1, <3>2, <3>3, <1>2 DEF Asks
  <2>4. ASSUME k = Len(s)
        PROVE  /\ Quiet(t, "other")
               /\ Len(s) > 1 => \E i \in 2 .. k : s[i] \in Waits
               /\ Len(s) = 1 => \A i \in 2 .. k : s[i] \notin Waits
    BY <1>1, <2>1, <2>4 DEF Quiet
  <2> QED
    BY <2>2, <2>3, <2>4
<1> QED
  BY <1>3, <1>4 DEF t

-----------------------------------------------------------------------------
(* Where a wait is.                                                        *)

Spot == {"nowhere", "up", "job", "down", "reader", "sem"}

\* What the server is to answer to what the client waits for.
Due(c) ==
  IF main[c] = "login" THEN IF granted[c] THEN "accepted" ELSE "refused"
  ELSE IF main[c] = "register" THEN "registered" ELSE "merged"

InJob(c) == job[LoopOf[c]] # Idle /\ job[LoopOf[c]].conn = c

AtUp(c, p) ==
  IF p = "up" THEN Asks(up[c], main[c]) /\ (main[c] = "login" => ~ granted[c])
              ELSE Quiet(up[c], "other")

AtJob(c, p) ==
  /\ InJob(c) <=> p = "job"
  /\ p = "job" => IF job[LoopOf[c]].pc = "answer" THEN job[LoopOf[c]].ack = Due(c)
                                                  ELSE main[c] = "video"

AtDown(c, p) == IF p = "down" THEN Tells(down[c], Due(c)) ELSE Quiet(down[c], "note")

AtThreads(c, p) ==
  /\ reader[c] = (IF p = "reader" THEN "post" ELSE "recv")
  /\ rwsem[c] = (IF p = "sem" THEN 1 ELSE 0)
  /\ p \in {"reader", "sem"} /\ main[c] = "login" => (success[c] <=> granted[c])

\* There is something to come exactly if the client waits; it may be lost by the
\* stream, and by the end of the server.
AtWait(c, p) ==
  /\ p # "nowhere" => main[c] \in Waits /\ c \notin robbed
  /\ server = "up" /\ main[c] \in Waits /\ c \notin robbed => p # "nowhere"

At(c, p) == AtUp(c, p) /\ AtJob(c, p) /\ AtDown(c, p) /\ AtThreads(c, p) /\ AtWait(c, p)

Located(c) == Alive(c) => \E p \in Spot : At(c, p)

\* A client whose request was lost waits, as long as it lives.
Stuck(c) == c \in robbed /\ Alive(c) => main[c] \in Waits

\* A handler runs on the loop of its client.
Jobs == \A l \in Loop : job[l] # Idle => server = "up" /\ LoopOf[job[l].conn] = l

IInv == Types /\ Jobs /\ \A c \in Client : Located(c) /\ Stuck(c)

\* What a step of one client or of one loop may do to another client.
Same(d) ==
  /\ main'[d] = main[d] /\ reader'[d] = reader[d] /\ rwsem'[d] = rwsem[d]
  /\ success'[d] = success[d] /\ up'[d] = up[d] /\ granted'[d] = granted[d]
  /\ down'[d] = down[d] \/ down'[d] = Append(down[d], "note")
  /\ d \in robbed' <=> d \in robbed
  /\ server' = server
  /\ InJob(d)' <=> InJob(d)
  /\ InJob(d) => job'[LoopOf[d]] = job[LoopOf[d]]

\* A message of another client may come; the answer stays where it is.
LEMMA Noted ==
  ASSUME Types, NEW d \in Client, NEW p, AtDown(d, p), Due(d)' = Due(d),
         down'[d] = down[d] \/ down'[d] = Append(down[d], "note")
  PROVE  AtDown(d, p)'
<1>1. down[d] \in Seq(Message) /\ "note" \in Message
  BY DEF Types, WireTypes, Message
<1>2. /\ Quiet(down[d], "note") => Quiet(Append(down[d], "note"), "note")
      /\ \A m : Tells(down[d], m) => Tells(Append(down[d], "note"), m)
  BY <1>1, Added
<1> QED
  BY <1>2 DEF AtDown

\* A step that leaves a client as it is leaves its wait where it is.
LEMMA SameStays ==
  ASSUME Types, NEW d \in Client, NEW p, At(d, p), Same(d)
  PROVE  At(d, p)'
<1>1. Due(d)' = Due(d)
  BY DEF Same, Due
<1>2. AtDown(d, p)'
  BY <1>1, Noted DEF At, Same
<1>3. AtUp(d, p)'
  BY DEF At, AtUp, Same
<1>4. AtJob(d, p)'
  BY <1>1 DEF At, AtJob, Same
<1>5. AtThreads(d, p)'
  BY DEF At, AtThreads, Same
<1>6. AtWait(d, p)'
  BY DEF At, AtWait, Same
<1> QED
  BY <1>2, <1>3, <1>4, <1>5, <1>6 DEF At

\* So it stays located, or stuck.
LEMMA SameLocated ==
  ASSUME Types, NEW d \in Client, Located(d), Stuck(d), Same(d)
  PROVE  Located(d)' /\ Stuck(d)'
<1>1. Alive(d)' <=> Alive(d)
  BY DEF Same, Alive
<1>2. Stuck(d)'
  BY <1>1 DEF Stuck, Same
<1>3. ASSUME Alive(d) PROVE \E p \in Spot : At(d, p)'
  BY <1>3, SameStays DEF Located
<1> QED
  BY <1>1, <1>2, <1>3 DEF Located

\* A step of the threads of one client leaves the others as they are.
LEMMA OthersSame ==
  ASSUME Types, NEW c \in Client, NEW d \in Client, d # c,
         Menu(c) \/ Merging(c) \/ Return(c) \/ Reader(c)
  PROVE  Same(d)
<1>0. /\ d \in DOMAIN main /\ d \in DOMAIN reader /\ d \in DOMAIN rwsem
      /\ d \in DOMAIN success /\ d \in DOMAIN up /\ d \in DOMAIN granted
      /\ d \in DOMAIN down
  BY DEF Types, ThreadTypes, WireTypes, ServerTypes
<1>1. UNCHANGED <<job, server, robbed>>
  BY DEF Menu, Login, Register, Command, LoginOut, Exit, VideoMerge, Merging, Put, Ask,
     Get, Return, Reader, Read, Post, ReadGarbled, Disconnected, history
<1>2. main'[d] = main[d]
  BY <1>0 DEF Menu, Login, Register, Command, LoginOut, Exit, VideoMerge, Merging, Put, Ask,
     Get, Return, Reader, Read, Post, ReadGarbled, Disconnected, Leave, Goto, threads
<1>3. reader'[d] = reader[d] /\ rwsem'[d] = rwsem[d] /\ success'[d] = success[d]
  BY <1>0 DEF Menu, Login, Register, Command, LoginOut, Exit, VideoMerge, Merging, Put, Ask,
     Get, Return, Reader, Read, Post, ReadGarbled, Disconnected, Leave, threads
<1>4. up'[d] = up[d] /\ down'[d] = down[d]
  BY <1>0 DEF Menu, Login, Register, Command, LoginOut, Exit, VideoMerge, Merging, Put, Ask,
     Get, Return, Reader, Read, Post, ReadGarbled, Disconnected, Leave, Send, wire
<1>5. granted'[d] = granted[d]
  BY <1>0 DEF Menu, Login, Register, Command, LoginOut, Exit, VideoMerge, Merging, Put, Ask,
     Get, Return, Reader, Read, Post, ReadGarbled, Disconnected, history
<1> QED
  BY <1>1, <1>2, <1>3, <1>4, <1>5 DEF Same, InJob

-----------------------------------------------------------------------------
(* The steps of the menu thread.                                           *)

\* A client that does not wait has nothing to come.
LEMMA NotWaiting ==
  ASSUME NEW c \in Client, Located(c), Stuck(c), Alive(c), main[c] \notin Waits
  PROVE  At(c, "nowhere") /\ c \notin robbed
<1>1. PICK p \in Spot : At(c, p)
  BY DEF Located
<1>2. p = "nowhere"
  BY <1>1 DEF At, AtWait
<1> QED
  BY <1>1, <1>2 DEF Stuck

\* What the menu thread leaves alone.
Quietly(c) ==
  /\ reader'[c] = reader[c] /\ rwsem'[c] = rwsem[c] /\ down'[c] = down[c]
  /\ UNCHANGED <<job, server, robbed>>

\* It sends a request that it waits for.
LEMMA Requested ==
  ASSUME Types, NEW c \in Client, At(c, "nowhere"), c \notin robbed, Quietly(c),
         NEW m \in Waits, main'[c] = m, up'[c] = Append(up[c], m),
         m = "login" => ~ granted'[c]
  PROVE  At(c, "up")' /\ Alive(c)' /\ Stuck(c)'
<1>1. Asks(up[c], m)'
  <2>1. up[c] \in Seq(Request) /\ m \in Request
    BY DEF Types, WireTypes, Request
  <2>2. Quiet(up[c], "other")
    BY DEF At, AtUp
  <2> QED
    BY <2>1, <2>2, Added
<1>2. AtUp(c, "up")'
  BY <1>1 DEF AtUp
<1>3. AtJob(c, "up")'
  BY DEF At, AtJob, Quietly, InJob
<1>4. AtDown(c, "up")'
  BY DEF At, AtDown, Quietly
<1>5. AtThreads(c, "up")'
  BY DEF At, AtThreads, Quietly
<1>6. AtWait(c, "up")'
  BY DEF AtWait, Quietly
<1>7. m # "exited"
  BY DEF Waits
<1> QED
  BY <1>2, <1>3, <1>4, <1>5, <1>6, <1>7 DEF At, Alive, Stuck

\* It goes elsewhere in the menus, and may send a message.
LEMMA Strolled ==
  ASSUME Types, NEW c \in Client, At(c, "nowhere"), c \notin robbed, Quietly(c),
         main'[c] \notin Waits,
         up'[c] = up[c] \/ up'[c] = Append(up[c], "other")
  PROVE  At(c, "nowhere")' /\ Stuck(c)'
<1>1. AtUp(c, "nowhere")'
  <2>1. up[c] \in Seq(Request) /\ "other" \in Request
    BY DEF Types, WireTypes, Request
  <2>2. Quiet(up[c], "other")
    BY DEF At, AtUp
  <2>3. Quiet(Append(up[c], "other"), "other")
    BY <2>1, <2>2, Added
  <2> QED
    BY <2>2, <2>3 DEF AtUp
<1>2. AtJob(c, "nowhere")'
  BY DEF At, AtJob, Quietly, InJob
<1>3. AtDown(c, "nowhere")'
  BY DEF At, AtDown, Quietly
<1>4. AtThreads(c, "nowhere")'
  BY DEF At, AtThreads, Quietly
<1>5. AtWait(c, "nowhere")'
  BY DEF AtWait
<1> QED
  BY <1>1, <1>2, <1>3, <1>4, <1>5 DEF At, Stuck, Quietly

\* A client that has ended owes nothing.
LEMMA Gone ==
  ASSUME NEW c \in Client, main'[c] = "exited"
  PROVE  Located(c)' /\ Stuck(c)'
BY DEF Located, Stuck, Alive

\* The menu thread starts a wait when there is none.
LEMMA MenuLocated ==
  ASSUME Types, NEW c \in Client, Located(c), Stuck(c), Menu(c) \/ Merging(c)
  PROVE  Located(c)' /\ Stuck(c)'
<1>0. /\ c \in DOMAIN main /\ c \in DOMAIN granted /\ c \in DOMAIN up
      /\ "up" \in Spot /\ "nowhere" \in Spot
  BY DEF Types, ThreadTypes, WireTypes, ServerTypes, Spot
<1>1. Alive(c) /\ main[c] \notin Waits
  BY DEF Menu, Login, Register, Command, LoginOut, Exit, VideoMerge, Merging, Put, Ask,
     Get, Alive, Waits
<1>2. At(c, "nowhere") /\ c \notin robbed
  BY <1>1, NotWaiting
<1>3. CASE Exit(c)
  <2>1. main'[c] = "exited"
    BY <1>0, <1>3 DEF Exit, Leave, Goto
  <2> QED
    BY <2>1, Gone
<1>4. CASE ~ Exit(c)
  <2>1. Quietly(c)
    BY <1>4 DEF Menu, Login, Register, Command, LoginOut, VideoMerge, Merging, Put, Ask,
       Get, Quietly, threads, wire, history
  <2>2. CASE Login(c) \/ Register(c) \/ Ask(c)
    <3>1. PICK m \in Waits :
            /\ main' = [main EXCEPT ![c] = m]
            /\ up' = [up EXCEPT ![c] = Append(up[c], m)]
            /\ m = "login" => granted' = [granted EXCEPT ![c] = FALSE]
      BY <2>2 DEF Login, Register, Ask, Goto, Send, Waits
    <3>2. main'[c] = m /\ up'[c] = Append(up[c], m) /\ (m = "login" => ~ granted'[c])
      BY <1>0, <3>1
    <3>3. At(c, "up")' /\ Stuck(c)'
      BY <1>2, <2>1, <3>2, Requested
    <3> QED
      BY <3>3, <1>0 DEF Located
  <2>3. CASE ~ (Login(c) \/ Register(c) \/ Ask(c))
    <3>1. main'[c] \notin Waits
      BY <1>0, <1>1, <1>4, <2>3 DEF Menu, Command, LoginOut, VideoMerge, Merging, Put,
         Get, Goto, Waits, threads
    <3>2. up'[c] = up[c] \/ up'[c] = Append(up[c], "other")
      BY <1>0, <1>4, <2>3 DEF Menu, Command, LoginOut, VideoMerge, Merging, Put, Get,
         Send, wire
    <3>3. At(c, "nowhere")' /\ Stuck(c)'
      BY <1>2, <2>1, <3>1, <3>2, Strolled
    <3> QED
      BY <3>3, <1>0 DEF Located
  <2> QED
    BY <2>2, <2>3
<1> QED
  BY <1>3, <1>4

-----------------------------------------------------------------------------
(* The steps of the reading thread, and the return from the wait.          *)

\* The return takes the one post there is.
LEMMA ReturnLocated ==
  ASSUME Types, NEW c \in Client, Located(c), Stuck(c), Return(c)
  PROVE  Located(c)' /\ Stuck(c)'
<1>0. c \in DOMAIN main /\ c \in DOMAIN rwsem /\ "nowhere" \in Spot
  BY DEF Types, ThreadTypes, Spot
<1>1. Alive(c)
  BY DEF Return, Alive, Waits
<1>2. PICK p \in Spot : At(c, p)
  BY <1>1 DEF Located
<1>3. p = "sem" /\ rwsem[c] = 1 /\ c \notin robbed
  BY <1>2 DEF Return, At, AtThreads, AtWait
<1>4. /\ rwsem'[c] = 0 /\ main'[c] \notin Waits
      /\ UNCHANGED <<reader, up, down, job, server, robbed>>
  BY <1>0, <1>3 DEF Return, Goto, Waits, wire, history
<1>5. AtUp(c, "nowhere")'
  BY <1>2, <1>3, <1>4 DEF At, AtUp
<1>6. AtJob(c, "nowhere")'
  BY <1>2, <1>3, <1>4 DEF At, AtJob, InJob
<1>7. AtDown(c, "nowhere")'
  BY <1>2, <1>3, <1>4 DEF At, AtDown
<1>8. AtThreads(c, "nowhere")'
  BY <1>2, <1>3, <1>4 DEF At, AtThreads
<1>9. AtWait(c, "nowhere")'
  BY <1>4 DEF AtWait
<1> QED
  BY <1>0, <1>3, <1>4, <1>5, <1>6, <1>7, <1>8, <1>9 DEF At, Located, Stuck

\* The reading thread takes the answer, or a message before or behind it.
LEMMA ReadLocated ==
  ASSUME Types, NEW c \in Client, Located(c), Stuck(c), Read(c)
  PROVE  Located(c)' /\ Stuck(c)'
<1>0. /\ c \in DOMAIN reader /\ c \in DOMAIN success /\ c \in DOMAIN down
      /\ down[c] \in Seq(Message) /\ "reader" \in Spot
  BY DEF Types, ThreadTypes, WireTypes, Spot
<1>1. /\ Alive(c) /\ reader[c] = "recv" /\ down[c] # <<>>
      /\ down'[c] = Tail(down[c])
      /\ UNCHANGED <<main, rwsem, up, job, server, granted, robbed>>
  BY <1>0 DEF Read, Reading, history
<1>2. PICK p \in Spot : At(c, p)
  BY <1>1 DEF Located
<1>3. p # "reader"
  BY <1>1, <1>2 DEF At, AtThreads
<1>4. Due(c)' = Due(c) /\ Due(c) # "note"
  BY <1>1 DEF Due
<1>5. CASE /\ Head(down[c]) = "note"
           /\ IF p = "down" THEN Tells(Tail(down[c]), Due(c))
                            ELSE Quiet(Tail(down[c]), "note")
  <2>1. reader'[c] = "recv" /\ success'[c] = success[c]
    BY <1>0, <1>5 DEF Read
  <2>2. AtUp(c, p)' /\ AtJob(c, p)' /\ AtWait(c, p)'
    BY <1>1, <1>2, <1>4 DEF At, AtUp, AtJob, AtWait, InJob
  <2>3. AtDown(c, p)'
    BY <1>1, <1>4, <1>5 DEF AtDown
  <2>4. AtThreads(c, p)'
    BY <1>1, <1>2, <1>3, <2>1 DEF At, AtThreads
  <2> QED
    BY <1>1, <1>2, <2>2, <2>3, <2>4 DEF At, Located, Stuck, Alive
<1>6. CASE /\ Head(down[c]) = Due(c) /\ Quiet(Tail(down[c]), "note") /\ p = "down"
  <2>1. reader'[c] = "post" /\ (main[c] = "login" => (success'[c] <=> granted[c]))
    <3>1. reader'[c] = "post"
      BY <1>0, <1>4, <1>6 DEF Read
    <3>2. ASSUME main[c] = "login" PROVE success'[c] <=> granted[c]
      <4>1. CASE granted[c]
        BY <1>0, <1>6, <3>2, <4>1 DEF Read, Due
      <4>2. CASE ~ granted[c]
        BY <1>0, <1>6, <3>2, <4>2 DEF Read, Due
      <4> QED
        BY <4>1, <4>2
    <3> QED
      BY <3>1, <3>2
  <2>2. AtUp(c, "reader")' /\ AtJob(c, "reader")' /\ AtWait(c, "reader")'
    BY <1>1, <1>2, <1>4, <1>6 DEF At, AtUp, AtJob, AtWait, InJob
  <2>3. AtDown(c, "reader")'
    BY <1>1, <1>6 DEF AtDown
  <2>4. AtThreads(c, "reader")'
    BY <1>1, <1>2, <1>6, <2>1 DEF At, AtThreads
  <2> QED
    BY <1>0, <1>1, <2>2, <2>3, <2>4 DEF At, Located, Stuck, Alive
<1> QED
  BY <1>0, <1>1, <1>2, <1>5, <1>6, Removed DEF At, AtDown

\* The reading thread: it reads, posts, or ends the client.
LEMMA ReaderLocated ==
  ASSUME Types, NEW c \in Client, Located(c), Stuck(c), Reader(c)
  PROVE  Located(c)' /\ Stuck(c)'
<1>0. c \in DOMAIN main /\ c \in DOMAIN reader /\ c \in DOMAIN rwsem /\ "sem" \in Spot
  BY DEF Types, ThreadTypes, Spot
<1>1. CASE Read(c)
  BY <1>1, ReadLocated
<1>2. CASE Post(c)
  <2>1. PICK p \in Spot : At(c, p)
    BY <1>2 DEF Located, Post
  <2>2. p = "reader" /\ rwsem[c] = 0
    BY <1>2, <2>1 DEF Post, At, AtThreads
  <2>3. /\ reader'[c] = "recv" /\ rwsem'[c] = 1
        /\ UNCHANGED <<main, success, up, down, job, server, granted, robbed>>
    BY <1>0, <1>2, <2>2 DEF Post, wire, history
  <2>4. AtUp(c, "sem")' /\ AtJob(c, "sem")' /\ AtWait(c, "sem")'
    BY <2>1, <2>2, <2>3 DEF At, AtUp, AtJob, AtWait, InJob
  <2>5. AtDown(c, "sem")'
    BY <2>1, <2>2, <2>3 DEF At, AtDown
  <2>6. AtThreads(c, "sem")'
    BY <2>1, <2>2, <2>3 DEF At, AtThreads
  <2> QED
    BY <1>0, <2>3, <2>4, <2>5, <2>6 DEF At, Located, Stuck, Alive
<1>3. CASE ReadGarbled(c) \/ Disconnected(c)
  <2>1. main'[c] = "exited"
    BY <1>0, <1>3 DEF ReadGarbled, Disconnected, Leave, Goto
  <2> QED
    BY <2>1, Gone
<1> QED
  BY <1>1, <1>2, <1>3 DEF Reader

-----------------------------------------------------------------------------
(* The steps of the server.                                                *)

\* What the request that is handled does to the loop of its client.
LEMMA Started ==
  ASSUME Types, NEW c \in Client, NEW r, Start(c, r)
  PROVE  /\ r = "other" => UNCHANGED <<job, cached, granted>>
         /\ r # "other" => UNCHANGED down
         /\ r \in Waits => \E j \in Job :
              /\ j # Idle /\ j.conn = c /\ job' = [job EXCEPT ![LoopOf[c]] = j]
              /\ r = "login" =>
                   /\ j.pc = "answer"
                   /\ \/ j.ack = "accepted" /\ granted' = [granted EXCEPT ![c] = TRUE]
                      \/ j.ack = "refused" /\ UNCHANGED granted
              /\ r = "register" => j.pc = "answer" /\ j.ack = "registered"
              /\ r = "video" => j.pc # "answer"
              /\ r # "login" => UNCHANGED granted
         /\ down' = down \/ \E d \in Client : Deliver(d, "note")
<1>1. \A m \in Message : Answer(c, m) \in Job /\ Answer(c, m) # Idle
                         /\ Answer(c, m).conn = c /\ Answer(c, m).pc = "answer"
                         /\ Answer(c, m).ack = m
  BY AnswerIsJob DEF Answer, Idle
<1>2. {"accepted", "refused", "registered"} \subseteq Message
  BY DEF Message
<1>3. LET j == [pc |-> "fork", conn |-> c]
      IN  j \in Job /\ j # Idle /\ j.conn = c /\ j.pc # "answer"
  BY DEF Job, Idle
<1>4. cached \subseteq Client
  BY DEF Types, ServerTypes
<1>5. r = "other" => UNCHANGED <<job, cached, granted>>
  BY DEF Start
<1>6. r # "other" => UNCHANGED down
  BY DEF Start
<1>7. down' = down \/ \E d \in Client : Deliver(d, "note")
  BY <1>4 DEF Start
<1>8. ASSUME r = "login"
      PROVE  \E m \in {"accepted", "refused"} :
               /\ job' = [job EXCEPT ![LoopOf[c]] = Answer(c, m)]
               /\ \/ m = "accepted" /\ granted' = [granted EXCEPT ![c] = TRUE]
                  \/ m = "refused" /\ UNCHANGED granted
  BY <1>8 DEF Start
<1>9. ASSUME r = "register"
      PROVE  job' = [job EXCEPT ![LoopOf[c]] = Answer(c, "registered")]
             /\ UNCHANGED granted
  BY <1>9 DEF Start
<1>10. ASSUME r = "video"
       PROVE  job' = [job EXCEPT ![LoopOf[c]] = [pc |-> "fork", conn |-> c]]
              /\ UNCHANGED granted
  BY <1>10 DEF Start
<1>11. CASE r = "login"
  BY <1>11, <1>1, <1>2, <1>6, <1>7, <1>8
<1>12. CASE r = "register"
  BY <1>12, <1>1, <1>2, <1>6, <1>7, <1>9
<1>13. CASE r = "video"
  BY <1>13, <1>3, <1>6, <1>7, <1>10
<1> QED
  BY <1>5, <1>6, <1>7, <1>11, <1>12, <1>13 DEF Waits

\* A delivery is to one client.
LEMMA Delivered ==
  ASSUME Types, NEW d \in Client, NEW e \in Client, NEW m, Deliver(e, m)
  PROVE  IF d = e /\ Alive(d) THEN down'[d] = Append(down[d], m)
                              ELSE down'[d] = down[d]
<1>1. d \in DOMAIN down
  BY DEF Types, WireTypes
<1> QED
  BY <1>1 DEF Deliver

\* A request of one client that is handled leaves the others as they are.
LEMMA MessageSame ==
  ASSUME Types, NEW c \in Client, NEW d \in Client, d # c, OnMessage(c)
  PROVE  Same(d)
<1>0. /\ d \in DOMAIN up /\ d \in DOMAIN granted /\ LoopOf[c] \in Loop
      /\ LoopOf[d] \in Loop /\ job \in [Loop -> Job]
  BY ClientAssumption DEF Types, WireTypes, ServerTypes
<1>1. /\ job[LoopOf[c]] = Idle /\ Start(c, Head(up[c]))
      /\ UNCHANGED <<main, reader, rwsem, success, server>>
      /\ robbed' = robbed \/ robbed' = robbed \cup {c}
      /\ up'[d] = up[d]
  BY <1>0 DEF OnMessage, Free, threads
<1>2. Head(up[c]) \in Request
  <2>1. up[c] \in Seq(Request) /\ up[c] # <<>>
    BY DEF Types, WireTypes, OnMessage
  <2> QED
    BY <2>1
<1>3. down'[d] = down[d] \/ down'[d] = Append(down[d], "note")
  BY <1>1, Started, Delivered
<1>4. /\ granted'[d] = granted[d]
      /\ \/ job' = job
         \/ \E j \in Job : j # Idle /\ j.conn = c /\ job' = [job EXCEPT ![LoopOf[c]] = j]
  <2>1. CASE Head(up[c]) = "other"
    BY <1>1, <2>1, Started
  <2>2. CASE Head(up[c]) \in Waits
    <3>1. PICK j \in Job :
            /\ j # Idle /\ j.conn = c /\ job' = [job EXCEPT ![LoopOf[c]] = j]
            /\ granted' = [granted EXCEPT ![c] = TRUE] \/ UNCHANGED granted
      BY <1>1, <2>2, Started
    <3> QED
      BY <1>0, <3>1
  <2> QED
    BY <1>2, <2>1, <2>2 DEF Request
<1>5. /\ InJob(d)' <=> InJob(d)
      /\ InJob(d) => job'[LoopOf[d]] = job[LoopOf[d]]
  <2>1. CASE job' = job
    BY <2>1 DEF InJob
  <2>2. ASSUME NEW j \in Job, j.conn = c, job' = [job EXCEPT ![LoopOf[c]] = j]
        PROVE  /\ InJob(d)' <=> InJob(d)
               /\ InJob(d) => job'[LoopOf[d]] = job[LoopOf[d]]
    <3>1. CASE LoopOf[d] = LoopOf[c]
      <4>1. job'[LoopOf[d]] = j /\ job[LoopOf[d]] = Idle
        BY <1>0, <1>1, <2>2, <3>1
      <4> QED
        BY <2>2, <4>1 DEF InJob
    <3>2. CASE LoopOf[d] # LoopOf[c]
      <4>1. job'[LoopOf[d]] = job[LoopOf[d]]
        BY <1>0, <2>2, <3>2
      <4> QED
        BY <4>1 DEF InJob
    <3> QED
      BY <3>1, <3>2
  <2> QED
    BY <1>4, <2>1, <2>2
<1> QED
  BY <1>1, <1>3, <1>4, <1>5 DEF Same

\* The request may be the one that is waited for, come before it, or take it
\* with it.
LEMMA MessageLocated ==
  ASSUME Types, NEW c \in Client, Located(c), Stuck(c), OnMessage(c)
  PROVE  Located(c)' /\ Stuck(c)'
<1>0. /\ c \in DOMAIN up /\ c \in DOMAIN granted /\ LoopOf[c] \in Loop
      /\ LoopOf[c] \in DOMAIN job /\ up[c] \in Seq(Request) /\ up[c] # <<>>
  BY ClientAssumption DEF Types, WireTypes, ServerTypes, OnMessage
<1>1. /\ job[LoopOf[c]] = Idle /\ Start(c, Head(up[c])) /\ ~ InJob(c)
      /\ UNCHANGED <<main, reader, rwsem, success, server>>
  BY DEF OnMessage, Free, InJob, threads
<1>2. PICK k \in 1 .. Len(up[c]) :
        /\ up'[c] = SubSeq(up[c], k + 1, Len(up[c]))
        /\ robbed' = IF \E i \in 2 .. k : up[c][i] \in Waits
                     THEN robbed \cup {c} ELSE robbed
  BY <1>0 DEF OnMessage
<1>3. down'[c] = down[c] \/ down'[c] = Append(down[c], "note")
  BY <1>1, Started, Delivered
<1>4. SUFFICES ASSUME Alive(c)
               PROVE  Stuck(c)' /\ \E p \in Spot : At(c, p)'
  BY <1>1 DEF Located, Stuck, Alive
<1>5. PICK p \in Spot : At(c, p)
  BY <1>4 DEF Located
<1>6. p # "job"
  BY <1>1, <1>5 DEF At, AtJob
<1>7. CASE p # "up"
  <2>1. Quiet(up[c], "other")
    BY <1>5, <1>7 DEF At, AtUp
  <2>2. Head(up[c]) = "other" /\ Quiet(up'[c], "other") /\ robbed' = robbed
    BY <1>0, <1>2, <2>1, Consumed
  <2>3. UNCHANGED <<job, granted>>
    BY <1>1, <2>2, Started
  <2>4. Due(c)' = Due(c)
    BY <1>1, <2>3 DEF Due
  <2>5. AtDown(c, p)'
    BY <1>3, <1>5, <2>4, Noted DEF At
  <2>6. AtUp(c, p)' /\ AtJob(c, p)' /\ AtThreads(c, p)' /\ AtWait(c, p)'
    BY <1>1, <1>5, <1>7, <2>2, <2>3, <2>4
       DEF At, AtUp, AtJob, AtThreads, AtWait, InJob
  <2> QED
    BY <1>1, <2>2, <2>5, <2>6 DEF At, Stuck, Alive
<1>8. CASE p = "up"
  <2>0. /\ main[c] \in Waits /\ c \notin robbed /\ Asks(up[c], main[c])
        /\ main[c] = "login" => ~ granted[c]
        /\ reader[c] = "recv" /\ rwsem[c] = 0 /\ Quiet(down[c], "note")
    BY <1>5, <1>8 DEF At, AtUp, AtWait, AtThreads, AtDown
  <2>1. Stuck(c)'
    BY <1>1, <2>0 DEF Stuck
  <2>2. \A q : q # "down" => AtDown(c, q)'
    <3>1. Quiet(Append(down[c], "note"), "note")
      <4>1. down[c] \in Seq(Message) /\ "note" \in Message
        BY DEF Types, WireTypes, Message
      <4> QED
        BY <2>0, <4>1, Added
    <3> QED
      BY <1>3, <2>0, <3>1 DEF AtDown
  <2>3. \A q : q \notin {"reader", "sem"} => AtThreads(c, q)'
    BY <1>1, <2>0 DEF AtThreads
  <2>4. CASE Len(up[c]) = 1
    <3>1. /\ Head(up[c]) = main[c] /\ Quiet(up'[c], "other") /\ robbed' = robbed
      BY <1>0, <1>2, <2>0, <2>4, Consumed
    <3>2. PICK j \in Job :
            /\ j # Idle /\ j.conn = c /\ job' = [job EXCEPT ![LoopOf[c]] = j]
            /\ main[c] = "login" =>
                 /\ j.pc = "answer"
                 /\ \/ j.ack = "accepted" /\ granted' = [granted EXCEPT ![c] = TRUE]
                    \/ j.ack = "refused" /\ UNCHANGED granted
            /\ main[c] = "register" => j.pc = "answer" /\ j.ack = "registered"
            /\ main[c] = "video" => j.pc # "answer"
      BY <1>1, <2>0, <3>1, Started
    <3>3. job'[LoopOf[c]] = j
      BY <1>0, <3>2
    <3>4. j.pc = "answer" => j.ack = Due(c)'
      BY <1>0, <1>1, <2>0, <3>2 DEF Due, Waits
    <3>5. AtJob(c, "job")'
      BY <1>1, <2>0, <3>2, <3>3, <3>4 DEF AtJob, InJob, Waits
    <3>6. AtUp(c, "job")' /\ AtWait(c, "job")'
      BY <1>1, <2>0, <3>1 DEF AtUp, AtWait
    <3> QED
      BY <2>1, <2>2, <2>3, <3>5, <3>6 DEF At, Spot
  <2>5. CASE Len(up[c]) # 1
    <3>1. /\ Head(up[c]) = "other"
          /\ k < Len(up[c]) => Asks(up'[c], main[c]) /\ robbed' = robbed
          /\ k = Len(up[c]) => Quiet(up'[c], "other") /\ c \in robbed'
      <4>1. Len(up[c]) > 1
        <5>1. PICK s \in Seq(Request) : s = up[c]
          BY <1>0
        <5>2. Len(s) \in Nat /\ (s # <<>> => Len(s) > 0)
          OBVIOUS
        <5>3. PICK n \in Nat : n = Len(s)
          BY <5>2
        <5>4. n # 1 /\ n > 0
          BY <1>0, <2>5, <5>1, <5>2, <5>3
        <5>5. n > 1
          BY <5>4
        <5> QED
          BY <5>1, <5>3, <5>5
      <4>2. /\ Head(up[c]) = "other"
            /\ k < Len(up[c]) => /\ Asks(up'[c], main[c])
                                 /\ \A i \in 2 .. k : up[c][i] \notin Waits
            /\ k = Len(up[c]) => /\ Quiet(up'[c], "other")
                                 /\ \E i \in 2 .. k : up[c][i] \in Waits
        BY <1>0, <1>2, <2>0, <2>5, <4>1, Consumed
      <4> QED
        BY <1>2, <4>2
    <3>2. UNCHANGED <<job, granted>>
      BY <1>1, <3>1, Started
    <3>3. \A q : q # "job" => AtJob(c, q)'
      BY <1>1, <3>2 DEF AtJob, InJob
    <3>4. CASE k < Len(up[c])
      <4>1. AtUp(c, "up")' /\ AtWait(c, "up")'
        BY <1>1, <2>0, <3>1, <3>2, <3>4 DEF AtUp, AtWait
      <4> QED
        BY <2>1, <2>2, <2>3, <3>3, <4>1 DEF At, Spot
    <3>5. CASE k = Len(up[c])
      <4>1. AtUp(c, "nowhere")' /\ AtWait(c, "nowhere")'
        BY <3>1, <3>5 DEF AtUp, AtWait
      <4> QED
        BY <2>1, <2>2, <2>3, <3>3, <4>1 DEF At, Spot
    <3> QED
      BY <3>4, <3>5
  <2> QED
    BY <2>4, <2>5
<1> QED
  BY <1>7, <1>8

\* The end of the server loses the request, and the answer to come.
LEMMA AbortLocated ==
  ASSUME Types, NEW c \in Client, NEW d \in Client, Located(d), Stuck(d), Abort(c)
  PROVE  Located(d)' /\ Stuck(d)'
<1>0. LoopOf[d] \in Loop
  BY ClientAssumption
<1>1. /\ server' = "aborted" /\ up'[d] = <<>> /\ job'[LoopOf[d]] = Idle
      /\ UNCHANGED <<main, reader, rwsem, success, down, granted, robbed>>
  BY <1>0 DEF Abort, threads, history
<1>2. SUFFICES ASSUME Alive(d) PROVE \E p \in Spot : At(d, p)'
  BY <1>1 DEF Located, Stuck, Alive
<1>3. PICK p \in Spot : At(d, p)
  BY <1>2 DEF Located
<1>4. PICK q \in Spot : q = IF p \in {"up", "job"} THEN "nowhere" ELSE p
  BY DEF Spot
<1>5. AtUp(d, q)' /\ AtJob(d, q)'
  BY <1>1, <1>4 DEF AtUp, AtJob, InJob, Quiet
<1>6. Due(d)' = Due(d)
  BY <1>1 DEF Due
<1>7. AtDown(d, q)'
  BY <1>1, <1>3, <1>4, <1>6 DEF At, AtDown
<1>8. AtThreads(d, q)' /\ AtWait(d, q)'
  BY <1>1, <1>3, <1>4 DEF At, AtThreads, AtWait
<1> QED
  BY <1>5, <1>7, <1>8 DEF At

\* The handler of a loop goes on: it touches the client it is for.
LEMMA HandlerLocated ==
  ASSUME Types, Jobs, NEW l \in Loop, NEW d \in Client, Located(d), Stuck(d), Handler(l)
  PROVE  Located(d)' /\ Stuck(d)'
<1>0. job \in [Loop -> Job] /\ LoopOf[d] \in Loop
  BY ClientAssumption DEF Types, ServerTypes
<1>1. /\ job[l] # Idle /\ job[l].conn \in Client
      /\ job[l].pc \in {"fork", "wait", "answer"}
  BY JobKinds DEF Handler, Fork, Wait, Finish, Idle
<1>2. /\ UNCHANGED <<main, reader, rwsem, success, up, granted, robbed, server>>
      /\ \A i \in Loop : i # l => job'[i] = job[i]
  BY <1>0 DEF Handler, Fork, Wait, Finish, threads, wire, history
<1>3. PICK c \in Client : c = job[l].conn
  BY <1>1
<1>4. LoopOf[c] = l
  BY <1>1, <1>3 DEF Jobs
<1>5. job'[l] = Idle \/ (job'[l] # Idle /\ job'[l].conn = c)
  <2>1. CASE Fork(l)
    <3>1. job[l] \in [pc : {"fork", "wait"}, conn : Client]
      BY <1>0, <2>1 DEF Fork, Job, Idle
    <3>2. job'[l] = [job[l] EXCEPT !.pc = "wait"]
      BY <1>0, <2>1 DEF Fork
    <3> QED
      BY <1>3, <3>1, <3>2 DEF Idle
  <2>2. CASE Wait(l)
    BY <1>0, <1>3, <2>2 DEF Wait, Answer, Idle
  <2>3. CASE Finish(l)
    BY <1>0, <2>3 DEF Finish
  <2> QED
    BY <2>1, <2>2, <2>3 DEF Handler
<1>6. down'[d] = IF Finish(l) /\ d = c /\ Alive(d) THEN Append(down[d], job[l].ack)
                                                   ELSE down[d]
  <2>1. CASE Finish(l)
    <3>1. Deliver(c, job[l].ack)
      BY <1>3, <2>1 DEF Finish
    <3> QED
      BY <2>1, <3>1, Delivered
  <2>2. CASE ~ Finish(l)
    BY <2>2 DEF Handler, Fork, Wait, wire
  <2> QED
    BY <2>1, <2>2
<1>7. CASE d # c
  <2>1. InJob(d)' <=> InJob(d)
    <3>1. CASE LoopOf[d] = l
      BY <1>3, <1>5, <1>7, <3>1 DEF InJob
    <3>2. CASE LoopOf[d] # l
      BY <1>0, <1>2, <3>2 DEF InJob
    <3> QED
      BY <3>1, <3>2
  <2>2. InJob(d) => job'[LoopOf[d]] = job[LoopOf[d]]
    BY <1>0, <1>2, <1>3, <1>7 DEF InJob
  <2>3. Same(d)
    BY <1>2, <1>6, <1>7, <2>1, <2>2 DEF Same
  <2> QED
    BY <2>3, SameLocated
<1>8. CASE d = c
  <2>1. SUFFICES ASSUME Alive(c) PROVE \E p \in Spot : At(c, p)'
    BY <1>2, <1>8 DEF Located, Stuck, Alive
  <2>2. At(c, "job")
    <3>1. PICK p \in Spot : At(c, p)
      BY <1>8, <2>1 DEF Located
    <3>2. InJob(c)
      BY <1>1, <1>3, <1>4 DEF InJob
    <3> QED
      BY <3>1, <3>2 DEF At, AtJob
  <2>3. Due(c)' = Due(c)
    BY <1>2 DEF Due
  <2>4. \A q : q # "up" => AtUp(c, q)'
    BY <1>2, <2>2 DEF At, AtUp
  <2>5. AtThreads(c, "job")' /\ AtThreads(c, "down")'
    BY <1>2, <2>2 DEF At, AtThreads
  <2>6. AtWait(c, "job")' /\ AtWait(c, "down")'
    BY <1>2, <2>2 DEF At, AtWait
  <2>7. CASE Finish(l)
    <3>1. down'[c] = Append(down[c], Due(c)) /\ Due(c) \in Message
      BY <1>4, <1>6, <1>8, <2>1, <2>2, <2>7 DEF Finish, At, AtJob, Due, Message
    <3>2. Tells(down'[c], Due(c))
      <4>1. down[c] \in Seq(Message) /\ Quiet(down[c], "note")
        BY <2>2 DEF Types, WireTypes, At, AtDown
      <4> QED
        BY <3>1, <4>1, Added
    <3>3. AtDown(c, "down")'
      BY <2>3, <3>2 DEF AtDown
    <3>4. AtJob(c, "down")'
      <4>1. job'[l] = Idle
        BY <1>0, <2>7 DEF Finish
      <4> QED
        BY <1>4, <4>1 DEF AtJob, InJob
    <3> QED
      BY <2>4, <2>5, <2>6, <3>3, <3>4 DEF At, Spot
  <2>8. CASE ~ Finish(l)
    <3>1. AtDown(c, "job")'
      BY <1>6, <1>8, <2>2, <2>3, <2>8 DEF At, AtDown
    <3>2. main[c] = "video"
      BY <1>4, <2>2, <2>8 DEF Handler, Fork, Wait, At, AtJob
    <3>3. /\ job'[l] # Idle /\ job'[l].conn = c
          /\ job'[l].pc = "answer" => job'[l].ack = "merged"
      <4>1. CASE Fork(l)
        <5>1. job[l] \in [pc : {"fork", "wait"}, conn : Client]
          BY <1>0, <4>1 DEF Fork, Job, Idle
        <5>2. job'[l] = [job[l] EXCEPT !.pc = "wait"]
          BY <1>0, <4>1 DEF Fork
        <5> QED
          BY <1>3, <5>1, <5>2 DEF Idle
      <4>2. CASE Wait(l)
        BY <1>0, <1>3, <4>2 DEF Wait, Answer, Idle
      <4> QED
        BY <2>8, <4>1, <4>2 DEF Handler
    <3>4. AtJob(c, "job")'
      BY <1>2, <1>4, <3>2, <3>3 DEF AtJob, InJob, Due
    <3> QED
      BY <2>4, <2>5, <2>6, <3>1, <3>4 DEF At, Spot
  <2> QED
    BY <2>7, <2>8
<1> QED
  BY <1>7, <1>8

\* The end of a merge touches no stream and no thread.
LEMMA MergedSame ==
  ASSUME NEW c \in Client, NEW d \in Client, Merged(c)
  PROVE  Same(d)
BY DEF Merged, Same, InJob, threads, wire, history

\* A loop starts with an idle handler, and the end of the server leaves none.
LEMMA JobsStep == ASSUME Types, Jobs, [Next]_vars PROVE Jobs'
<1>0. /\ job \in [Loop -> Job] /\ \A c \in Client : LoopOf[c] \in Loop
  BY ClientAssumption DEF Types, ServerTypes
<1>1. ASSUME NEW c \in Client, OnMessage(c) PROVE Jobs'
  <2>1. /\ Start(c, Head(up[c])) /\ server = "up" /\ server' = "up"
    BY <1>1 DEF OnMessage, Free
  <2>2. Head(up[c]) \in Waits \cup {"other"}
    <3>1. up[c] \in Seq(Request) /\ up[c] # <<>>
      BY <1>1 DEF Types, WireTypes, OnMessage
    <3> QED
      BY <3>1 DEF Request
  <2>3. CASE job' = job
    BY <2>1, <2>3 DEF Jobs
  <2>4. ASSUME NEW j \in Job, j.conn = c, job' = [job EXCEPT ![LoopOf[c]] = j]
        PROVE  Jobs'
    BY <1>0, <2>1, <2>4 DEF Jobs
  <2> QED
    BY <2>1, <2>2, <2>3, <2>4, Started
<1>2. ASSUME NEW c \in Client, Abort(c) PROVE Jobs'
  BY <1>2 DEF Abort, Jobs
<1>3. ASSUME NEW l \in Loop, Handler(l) PROVE Jobs'
  <2>1. server' = server /\ \A i \in Loop : i # l => job'[i] = job[i]
    BY <1>0, <1>3 DEF Handler, Fork, Wait, Finish
  <2>2. job'[l] # Idle => job'[l].conn = job[l].conn /\ job[l] # Idle
    <3>1. job[l] # Idle
      BY <1>3, JobKinds DEF Handler, Fork, Wait, Finish, Idle
    <3>2. CASE Fork(l)
      <4>1. job[l] \in [pc : {"fork", "wait"}, conn : Client]
        BY <1>0, <3>2 DEF Fork, Job, Idle
      <4>2. job'[l] = [job[l] EXCEPT !.pc = "wait"]
        BY <1>0, <3>2 DEF Fork
      <4> QED
        BY <3>1, <4>1, <4>2
    <3>3. CASE Wait(l)
      BY <1>0, <3>1, <3>3 DEF Wait, Answer
    <3>4. CASE Finish(l)
      BY <1>0, <3>4 DEF Finish
    <3> QED
      BY <1>3, <3>2, <3>3, <3>4 DEF Handler
  <2> QED
    BY <2>1, <2>2 DEF Jobs
<1>4. CASE UNCHANGED <<job, server>>
  BY <1>4 DEF Jobs
<1>5. \A c \in Client : Menu(c) \/ Merging(c) \/ Return(c) \/ Reader(c) \/ Merged(c)
        => UNCHANGED <<job, server>>
  BY DEF Menu, Login, Register, Command, LoginOut, Exit, VideoMerge, Merging, Put, Ask,
     Get, Return, Reader, Read, Post, ReadGarbled, Disconnected, Merged
<1> QED
  BY <1>1, <1>2, <1>3, <1>4, <1>5 DEF Next, vars, Receiving

-----------------------------------------------------------------------------
(* The invariant and the theorems.                                         *)

\* At the start nobody waits.
LEMMA InitIInv == ASSUME Init PROVE IInv
<1>1. Types
  BY DEF Init, Types, ThreadTypes, WireTypes, ServerTypes, Place, Job
<1>2. Jobs
  BY DEF Init, Jobs
<1>3. ASSUME NEW c \in Client PROVE Located(c) /\ Stuck(c)
  <2>1. LoopOf[c] \in Loop
    BY ClientAssumption
  <2>2. AtUp(c, "nowhere") /\ AtJob(c, "nowhere") /\ AtDown(c, "nowhere")
    BY <2>1 DEF Init, AtUp, AtJob, AtDown, InJob, Quiet
  <2>3. AtThreads(c, "nowhere") /\ AtWait(c, "nowhere") /\ Stuck(c)
    BY DEF Init, AtThreads, AtWait, Stuck, Waits
  <2> QED
    BY <2>2, <2>3 DEF At, Located, Spot
<1> QED
  BY <1>1, <1>2, <1>3 DEF IInv

\* One step per actor; each is about the client that acts, or any other.
LEMMA NextIInv == ASSUME IInv, [Next]_vars PROVE IInv'
<1>0. Types /\ Jobs
  BY DEF IInv
<1>1. Types' /\ Jobs'
  BY <1>0, TypesStep, JobsStep
<1>2. ASSUME NEW d \in Client PROVE Located(d)' /\ Stuck(d)'
  <2>0. Located(d) /\ Stuck(d)
    BY DEF IInv
  <2>1. ASSUME NEW c \in Client, Menu(c) \/ Merging(c) \/ Return(c) \/ Reader(c)
        PROVE  Located(d)' /\ Stuck(d)'
    <3>1. CASE d = c
      BY <1>0, <2>0, <2>1, <3>1, MenuLocated, ReturnLocated, ReaderLocated
    <3>2. CASE d # c
      BY <1>0, <2>0, <2>1, <3>2, OthersSame, SameLocated
    <3> QED
      BY <3>1, <3>2
  <2>2. ASSUME NEW c \in Client, OnMessage(c)
        PROVE  Located(d)' /\ Stuck(d)'
    <3>1. CASE d = c
      BY <1>0, <2>0, <2>2, <3>1, MessageLocated
    <3>2. CASE d # c
      BY <1>0, <2>0, <2>2, <3>2, MessageSame, SameLocated
    <3> QED
      BY <3>1, <3>2
  <2>3. ASSUME NEW c \in Client, Abort(c) PROVE Located(d)' /\ Stuck(d)'
    BY <1>0, <2>0, <2>3, AbortLocated
  <2>4. ASSUME NEW c \in Client, Merged(c) PROVE Located(d)' /\ Stuck(d)'
    BY <1>0, <2>0, <2>4, MergedSame, SameLocated
  <2>5. ASSUME NEW l \in Loop, Handler(l) PROVE Located(d)' /\ Stuck(d)'
    BY <1>0, <2>0, <2>5, HandlerLocated
  <2>6. CASE UNCHANGED vars
    <3>1. Same(d)
      BY <2>6 DEF vars, Same, InJob, threads, wire, history
    <3> QED
      BY <1>0, <2>0, <3>1, SameLocated
  <2> QED
    BY <2>1, <2>2, <2>3, <2>4, <2>5, <2>6 DEF Next, Receiving
<1> QED
  BY <1>1, <1>2 DEF IInv

\* The strengthening: PostIsAnswer says how many posts are to come, and not where
\* the one is, nor that it is the answer to what is waited for.
THEOREM Invariant == Spec => []IInv
<1>1. Init => IInv
  BY InitIInv
<1>2. IInv /\ [Next]_vars => IInv'
  BY NextIInv
<1> QED
  BY <1>1, <1>2, PTL DEF Spec

\* The numbers of requests and answers a wait in a place comes to.
LEMMA Counts ==
  ASSUME Types, NEW c \in Client, NEW p, At(c, p)
  PROVE  /\ Cardinality(Asking(c)) = IF p = "up" THEN 1 ELSE 0
         /\ Cardinality(Answering(c)) = IF p = "down" THEN 1 ELSE 0
<1>0. /\ Len(up[c]) \in Nat /\ DOMAIN up[c] = 1 .. Len(up[c])
  <2>1. PICK s \in Seq(Request) : s = up[c]
    BY DEF Types, WireTypes
  <2>2. Len(s) \in Nat /\ DOMAIN s = 1 .. Len(s)
    OBVIOUS
  <2> QED
    BY <2>1, <2>2
<1>1. Cardinality(Asking(c)) = IF p = "up" THEN 1 ELSE 0
  <2>1. CASE p = "up"
    <3>1. Asks(up[c], main[c]) /\ main[c] # "other"
      BY <2>1 DEF At, AtUp, AtWait, Waits
    <3>2. Asking(c) = {Len(up[c])}
      BY <1>0, <3>1 DEF Asking, Asks
    <3> QED
      BY <2>1, <3>2, FS_Singleton
  <2>2. CASE p # "up"
    <3>1. Asking(c) = {}
      BY <2>2 DEF At, AtUp, Quiet, Asking
    <3> QED
      BY <2>2, <3>1, FS_EmptySet
  <2> QED
    BY <2>1, <2>2
<1>2. Cardinality(Answering(c)) = IF p = "down" THEN 1 ELSE 0
  <2>1. CASE p = "down"
    <3>1. Tells(down[c], Due(c)) /\ Due(c) # "note"
      BY <2>1 DEF At, AtDown, Due
    <3>2. PICK i \in DOMAIN down[c] :
            /\ down[c][i] = Due(c)
            /\ \A j \in DOMAIN down[c] \ {i} : down[c][j] = "note"
      BY <3>1 DEF Tells
    <3>3. Answering(c) = {i}
      BY <3>1, <3>2 DEF Answering
    <3> QED
      BY <2>1, <3>3, FS_Singleton
  <2>2. CASE p # "down"
    <3>1. Answering(c) = {}
      BY <2>2 DEF At, AtDown, Quiet, Answering
    <3> QED
      BY <2>2, <3>1, FS_EmptySet
  <2> QED
    BY <2>1, <2>2
<1> QED
  BY <1>1, <1>2

\* One post to come for a client that waits, none for another, as long as the
\* server is up: however many clients and loops there are, and however the
\* streams are cut and joined (main.cpp:31, 137, 169, 778; 322-342).
THEOREM ClientPostIsAnswer == Spec => []PostIsAnswer
<1>1. ASSUME IInv PROVE PostIsAnswer
  <2> SUFFICES ASSUME NEW c \in Client, Alive(c), server = "up"
               PROVE  Pending(c) = IF main[c] \in Waits /\ c \notin robbed THEN 1 ELSE 0
    BY DEF PostIsAnswer
  <2>0. Types /\ Located(c) /\ LoopOf[c] \in Loop
    BY <1>1, ClientAssumption DEF IInv
  <2>1. PICK p \in Spot : At(c, p)
    BY <2>0 DEF Located
  <2>2. p # "nowhere" <=> main[c] \in Waits /\ c \notin robbed
    BY <2>1 DEF At, AtWait
  <2>3. job[LoopOf[c]].pc # "idle" /\ job[LoopOf[c]].conn = c <=> p = "job"
    BY <2>0, <2>1, JobKinds DEF At, AtJob, InJob
  <2>4. reader[c] = "post" <=> p = "reader"
    BY <2>1 DEF At, AtThreads
  <2>5. rwsem[c] = IF p = "sem" THEN 1 ELSE 0
    BY <2>1 DEF At, AtThreads
  <2> QED
    BY <2>0, <2>1, <2>2, <2>3, <2>4, <2>5, Counts DEF Pending, Spot
<1> QED
  BY <1>1, Invariant, PTL

\* A login ends in the menu its own answer calls for, never in that of an
\* earlier one (main.cpp:129-145, 181-291).
THEOREM ClientLoginHonoured == Spec => LoginHonoured
<1>1. ASSUME IInv, [Next]_vars, NEW c \in Client,
             main[c] = "login", main'[c] # "login", main'[c] # "exited"
      PROVE  main'[c] = IF granted[c] THEN "chat" ELSE "menu"
  <2>0. Types /\ Located(c) /\ DOMAIN main = Client
    BY <1>1 DEF IInv, Types, ThreadTypes
  <2>1. Return(c)
    <3>1. ASSUME NEW d \in Client, Menu(d) \/ Merging(d) PROVE FALSE
      <4>1. d # c
        BY <1>1, <3>1 DEF Menu, Login, Register, Command, LoginOut, Exit, VideoMerge,
           Merging, Put, Ask, Get
      <4> QED
        BY <1>1, <2>0, <3>1, <4>1, OthersSame DEF Same
    <3>2. ASSUME NEW d \in Client, Reader(d) PROVE FALSE
      BY <1>1, <2>0, <3>2 DEF Reader, Read, Post, ReadGarbled, Disconnected, Leave, Goto
    <3>3. ASSUME NEW d \in Client, Return(d) PROVE d = c
      BY <1>1, <2>0, <3>3, OthersSame DEF Same
    <3>4. /\ \A d \in Client : Receiving(d) \/ Merged(d) => UNCHANGED main
          /\ \A l \in Loop : Handler(l) => UNCHANGED main
      BY DEF Receiving, OnMessage, Abort, Merged, Handler, Fork, Wait, Finish, threads
    <3> QED
      BY <1>1, <3>1, <3>2, <3>3, <3>4 DEF Next, vars, threads
  <2>2. PICK p \in Spot : At(c, p)
    BY <1>1, <2>0 DEF Located, Alive
  <2>3. success[c] <=> granted[c]
    BY <1>1, <2>1, <2>2 DEF Return, At, AtThreads
  <2>4. main'[c] = IF success[c] THEN "chat" ELSE "menu"
    BY <1>1, <2>0, <2>1 DEF Return, Goto
  <2> QED
    BY <2>3, <2>4
<1>2. IInv /\ [Next]_vars
        => [\A c \in Client : main[c] = "login" /\ main'[c] # "login" /\ main'[c] # "exited"
              => main'[c] = (IF granted[c] THEN "chat" ELSE "menu")]_vars
  BY <1>1
<1> QED
  BY <1>2, Invariant, PTL DEF Spec, LoginHonoured

-----------------------------------------------------------------------------
(* One loop: a handler that merges is alone.                               *)

OneLoop == \A c, d \in Client : LoopOf[c] = LoopOf[d]

\* The child that merges for a client is that of the handler that waits for it,
\* or has been left behind by the end of the server.
Kids ==
  \A c \in Client : child[c] # "none" =>
    \/ InJob(c) /\ job[LoopOf[c]].pc = "wait"
    \/ server = "aborted" /\ (Alive(c) => main[c] = "video" /\ At(c, "nowhere"))

\* A handler that forks finds no child of another, and reaps the one it has.
LEMMA KidsStep == ASSUME OneLoop, IInv, Kids, [Next]_vars PROVE Kids'
<1>0. Types /\ Jobs /\ Types' /\ IInv'
  BY NextIInv DEF IInv
<1>1. /\ job \in [Loop -> Job] /\ \A c \in Client : LoopOf[c] \in Loop
      /\ child \in [Client -> {"none", "running", "ended"}]
  BY <1>0, ClientAssumption DEF Types, ServerTypes
<1>2. ASSUME NEW l \in Loop, Handler(l) PROVE Kids'
  <2>1. /\ job[l] # Idle /\ job[l].conn \in Client /\ server = "up" /\ UNCHANGED server
        /\ LoopOf[job[l].conn] = l
    <3>1. job[l] # Idle /\ UNCHANGED server
      BY <1>2 DEF Handler, Fork, Wait, Finish, Idle
    <3> QED
      BY <1>0, <3>1, JobKinds DEF Jobs
  <2>2. PICK c \in Client : c = job[l].conn
    BY <2>1
  <2>3. \A d \in Client : child[d] # "none" => d = c /\ job[l].pc = "wait"
    BY <2>1, <2>2 DEF Kids, InJob, OneLoop
  <2>4. CASE Fork(l)
    <3>1. job[l] \in [pc : {"fork", "wait"}, conn : Client]
      BY <1>1, <2>4 DEF Fork, Job, Idle
    <3>2. job'[l] = [job[l] EXCEPT !.pc = "wait"]
      BY <1>1, <2>4 DEF Fork
    <3>3. job'[l].pc = "wait" /\ job'[l].conn = c /\ job'[l] # Idle
      BY <2>2, <3>1, <3>2 DEF Idle
    <3>4. InJob(c)'
      BY <2>1, <2>2, <3>3 DEF InJob
    <3>5. \A d \in Client : child'[d] # "none" => d = c
      BY <1>1, <2>2, <2>3, <2>4 DEF Fork
    <3> QED
      BY <2>1, <2>2, <3>3, <3>4, <3>5 DEF Kids
  <2>5. CASE Wait(l)
    <3>1. \A d \in Client : child'[d] = "none"
      BY <1>1, <2>2, <2>3, <2>5 DEF Wait
    <3> QED
      BY <3>1 DEF Kids
  <2>6. CASE Finish(l)
    <3>1. \A d \in Client : child'[d] = "none"
      BY <2>3, <2>6 DEF Finish
    <3> QED
      BY <3>1 DEF Kids
  <2> QED
    BY <1>2, <2>4, <2>5, <2>6 DEF Handler
<1>3. ASSUME NEW c \in Client, OnMessage(c) PROVE Kids'
  <2>1. job[LoopOf[c]] = Idle /\ server = "up" /\ UNCHANGED <<child, server>>
    BY <1>3 DEF OnMessage, Free
  <2>2. \A d \in Client : child[d] = "none"
    BY <2>1 DEF Kids, InJob, OneLoop
  <2> QED
    BY <2>1, <2>2 DEF Kids
<1>4. ASSUME NEW c \in Client, Abort(c) PROVE Kids'
  <2>1. job[LoopOf[c]] = Idle /\ server = "up" /\ UNCHANGED child
    BY <1>4 DEF Abort, Free
  <2>2. \A d \in Client : child[d] = "none"
    BY <2>1 DEF Kids, InJob, OneLoop
  <2> QED
    BY <2>1, <2>2 DEF Kids
<1>5. ASSUME NEW c \in Client,
             Menu(c) \/ Merging(c) \/ Return(c) \/ Reader(c) \/ Merged(c)
      PROVE  Kids'
  <2>1. UNCHANGED <<job, server>>
    BY <1>5 DEF Menu, Login, Register, Command, LoginOut, Exit, VideoMerge, Merging,
       Put, Ask, Get, Return, Reader, Read, Post, ReadGarbled, Disconnected, Merged
  <2>2. \A d \in Client : child'[d] # "none" => child[d] # "none"
    BY <1>1, <1>5 DEF Menu, Login, Register, Command, LoginOut, Exit, VideoMerge, Merging,
       Put, Ask, Get, Return, Reader, Read, Post, ReadGarbled, Disconnected, Merged
  <2>3. ASSUME NEW d \in Client, child'[d] # "none", server = "aborted",
               Alive(d) => main[d] = "video" /\ At(d, "nowhere"), Alive(d)'
        PROVE  main'[d] = "video" /\ At(d, "nowhere")'
    <3>1. Alive(d) /\ main[d] = "video" /\ At(d, "nowhere")
      <4>1. d = c \/ main'[d] = main[d]
        BY <1>0, <1>5, MergedSame, OthersSame DEF Same
      <4>2. Alive(c) \/ UNCHANGED main
        BY <1>5 DEF Menu, Login, Register, Command, LoginOut, Exit, VideoMerge, Merging,
           Put, Ask, Get, Return, Reader, Read, Post, ReadGarbled, Disconnected, Merged,
           Reading, Alive, Waits, threads
      <4> QED
        BY <2>3, <4>1, <4>2 DEF Alive
    <3>2. CASE d # c \/ Merged(c)
      <4>1. Same(d)
        BY <1>0, <1>5, <3>2, MergedSame, OthersSame
      <4> QED
        BY <1>0, <3>1, <4>1, SameStays DEF Same
    <3>3. CASE d = c /\ ~ Merged(c)
      <4>0. c \in DOMAIN main /\ c \in DOMAIN reader /\ c \in DOMAIN down
        BY <1>0 DEF Types, ThreadTypes, WireTypes
      <4>1. ~ Menu(c) /\ ~ Merging(c)
        BY <3>1, <3>3 DEF Menu, Login, Register, Command, LoginOut, Exit, VideoMerge,
           Merging, Put, Ask, Get
      <4>2. ~ Return(c) /\ ~ Post(c)
        BY <3>1, <3>3 DEF At, AtThreads, Return, Post
      <4>3. ~ ReadGarbled(c) /\ ~ Disconnected(c)
        BY <2>3, <3>3, <4>0 DEF ReadGarbled, Disconnected, Leave, Goto, Alive
      <4>4. Read(c)
        BY <1>5, <3>3, <4>1, <4>2, <4>3 DEF Reader
      <4>5. Head(down[c]) = "note" /\ Quiet(Tail(down[c]), "note")
        <5>1. down[c] \in Seq(Message) /\ down[c] # <<>> /\ Quiet(down[c], "note")
          BY <1>0, <3>1, <3>3, <4>4 DEF Types, WireTypes, Read, At, AtDown
        <5> QED
          BY <5>1, Removed
      <4>6. /\ reader'[c] = "recv" /\ down'[c] = Tail(down[c])
            /\ UNCHANGED <<main, rwsem, up, job, server, granted, robbed>>
        BY <4>0, <4>4, <4>5 DEF Read, history
      <4>7. AtUp(c, "nowhere")' /\ AtJob(c, "nowhere")' /\ AtWait(c, "nowhere")'
        BY <3>1, <3>3, <4>6 DEF At, AtUp, AtJob, AtWait, InJob
      <4>8. AtDown(c, "nowhere")' /\ AtThreads(c, "nowhere")'
        BY <3>1, <3>3, <4>5, <4>6 DEF At, AtDown, AtThreads
      <4> QED
        BY <3>1, <3>3, <4>6, <4>7, <4>8 DEF At
    <3> QED
      BY <3>2, <3>3
  <2> QED
    BY <2>1, <2>2, <2>3 DEF Kids, InJob
<1>6. CASE UNCHANGED vars
  <2>1. /\ UNCHANGED <<child, main, job, server>>
        /\ \A d \in Client : Same(d)
    BY <1>6 DEF vars, Same, InJob, threads, wire, history
  <2>2. \A d \in Client : At(d, "nowhere") => At(d, "nowhere")'
    BY <1>0, <2>1, SameStays
  <2> QED
    BY <2>1, <2>2 DEF Kids, InJob, Alive
<1> QED
  BY <1>2, <1>3, <1>4, <1>5, <1>6 DEF Next, Receiving

\* With one IO loop a client downloads when its merge has ended: the child the
\* handler has waited for is its own.  With more it is not so: the loops reap
\* each other's (chatservice.cpp:369-380, main.cpp:778).
THEOREM ClientDownloadAfterMerge ==
  ASSUME OneLoop
  PROVE  Spec => []DownloadAfterMerge
<1>1. Init => Kids
  BY DEF Init, Kids
<1>2. IInv /\ Kids /\ [Next]_vars => Kids'
  BY KidsStep
<1>3. ASSUME IInv, Kids PROVE DownloadAfterMerge
  <2> SUFFICES ASSUME NEW c \in Client, main[c] = "get", child[c] = "running"
               PROVE  FALSE
    BY DEF DownloadAfterMerge
  <2>1. Alive(c) /\ main[c] \notin Waits
    BY DEF Alive, Waits
  <2>2. At(c, "nowhere")
    BY <1>3, <2>1, NotWaiting DEF IInv
  <2>3. ~ InJob(c)
    BY <2>2 DEF At, AtJob
  <2> QED
    BY <1>3, <2>1, <2>3 DEF Kids
<1> QED
  BY <1>1, <1>2, <1>3, Invariant, PTL DEF Spec

=============================================================================
