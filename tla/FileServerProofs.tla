--------------------------- MODULE FileServerProofs ---------------------------
(***************************************************************************)
(* The types and the three safety properties of FileServer, for any number *)
(* of clients and connections.                                             *)
(***************************************************************************)
EXTENDS FileServer, FiniteSetTheorems, TLAPS

ClientState ==
  [pc : {"menu", "connecting", "connected", "waiting", "busy", "exited"},
   link : Link \cup {NoLink}]
Contents == [link : Link \cup {NoLink}, what : {"nothing", "login", "frame"}]
PC == LoginSteps \cup {"none", "dispatch", "recv", "body", "send", "gone"}

\* TypeOK, conjunct by conjunct.
Types ==
  /\ client \in [Client -> ClientState]
  /\ kind \in [Link -> Kind \cup {"unused"}]
  /\ open \subseteq Link /\ mail \subseteq Link /\ answered \subseteq Link
  /\ backlog \subseteq Link /\ held \subseteq Link /\ registered \subseteq Link
  /\ mixed \subseteq Link /\ overlapped \subseteq Link
  /\ proc \in {"up", "down"} /\ listening \in BOOLEAN
  /\ last \in Link \cup {NoLink} /\ starg \in Link \cup {NoLink}
  /\ thread \in [Link -> PC]
  /\ polled \in [Link -> Link \cup {NoLink}]
  /\ buffer \in Contents
  /\ backlog \cap held = {} /\ registered \subseteq held
  /\ \A l \in registered : thread[l] = "none"

\* A client does anything but connect.
Talk(c) ==
  \/ Reconnect(c) \/ SendLogin(c) \/ LoggedIn(c) \/ LoginFails(c)
  \/ Finish(c) \/ Quit(c)

\* A thread ends, and the process with it.
Ends(l) == PollTimesOut(l) \/ ReadFails(l) \/ WriteFails(l) \/ RecvEnds(l)

\* The links are numbered by their connections, and there are numbers left for
\* those who are about to connect.
Numbered ==
  /\ Used = 1 .. Cardinality(Used) /\ Cardinality(Used) \in Nat
  /\ Cardinality(Used) + Cardinality(With("connecting")) <= MaxLink
  /\ backlog \cup held \cup answered \subseteq Used

\* While the server listens a thread has its connection; when it is down it has
\* neither.
Holding ==
  /\ proc = "down" => ~ listening /\ held = {} /\ \A l \in Link : thread[l] = "none"
  /\ IndexBounded
  /\ \A l \in Link : thread[l] \notin {"none", "gone"} => l \in held

\* A login is answered once, by the thread of its connection.
Answering ==
  /\ answered \cap (registered \cup backlog) = {}
  /\ \A l \in Link : thread[l] \in LoginSteps => l \notin answered
  /\ \A l \in held : thread[l] = "none" => l \in registered
  /\ \A c \in Client : client[c].pc = "busy" => client[c].link \in answered

\* What the globals hold while link l has the server to itself.
Own(l) ==
  /\ held = {l} /\ last = l
  /\ thread[l] = "parse" => buffer = [link |-> l, what |-> "login"]
  /\ thread[l] \in {"answer", "dispatch", "recv", "body", "send"} => starg = l
  /\ thread[l] = "body" => buffer = [link |-> l, what |-> "frame"]

Alone == AloneIsServed /\ \A l \in held \ overlapped : Own(l)

IInv == Types /\ Numbered /\ Holding /\ Answering /\ Alone

\* What a client does besides connecting is nothing to the server.
LEMMA TalkFrame ==
  ASSUME Types, NEW c \in Client, Talk(c)
  PROVE  /\ UNCHANGED <<kind, answered, proc, listening, backlog, registered,
                        held, last, buffer, starg, thread, polled, mixed,
                        overlapped>>
         /\ mail' \subseteq Link /\ open' \subseteq Link
         /\ \E pc \in {"menu", "connecting", "waiting", "busy", "exited"} :
              /\ Go(c, pc)
              /\ pc = "busy" => client[c].link \in answered
              /\ pc = "connecting" =>
                   /\ At(c, "menu")
                   /\ Cardinality(Used) + Cardinality(With("connecting")) < MaxLink
              /\ ~ At(c, "connecting")
<1>1. CASE Reconnect(c)
  BY <1>1 DEF Reconnect, At, Types, ClientState, main, shared, threads, history
<1>2. CASE SendLogin(c)
  BY <1>2 DEF SendLogin, Gone, At, Types, ClientState, main, shared, threads, history
<1>3. CASE LoggedIn(c)
  BY <1>3 DEF LoggedIn, At, Types, ClientState, main, shared, threads, history
<1>4. CASE LoginFails(c)
  BY <1>4 DEF LoginFails, Gone, At, Types, ClientState, main, shared, threads, history
<1>5. CASE Finish(c)
  BY <1>5 DEF Finish, At, Types, ClientState, main, shared, threads, history
<1>6. CASE Quit(c)
  BY <1>6 DEF Quit, Gone, At, Types, ClientState, main, shared, threads, history
<1> QED
  BY <1>1, <1>2, <1>3, <1>4, <1>5, <1>6 DEF Talk

\* A process that ends takes all of its state with it.
LEMMA Died ==
  ASSUME NEW l \in Link, Ends(l)
  PROVE  Die /\ UNCHANGED <<clients, mail, answered, history>>
BY DEF Ends, PollTimesOut, ReadFails, WriteFails, RecvEnds

\* The link of a new connection, which nobody has used.
LEMMA Fresh ==
  ASSUME Types, Numbered, NEW c \in Client, Connect(c), listening
  PROVE  LET l == Cardinality(Used) + 1
         IN  /\ l \in Link /\ l \notin Used
             /\ Used' = 1 .. l
             /\ Cardinality(Used') = l
             /\ client' = [client EXCEPT ![c] = [pc |-> "connected", link |-> l]]
             /\ kind' \in [Link -> Kind \cup {"unused"}]
             /\ open' = open \cup {l} /\ backlog' = backlog \cup {l}
<1> DEFINE l == Cardinality(Used) + 1
<1>1. c \in With("connecting") /\ IsFiniteSet(With("connecting"))
  BY FS_Subset, ServerAssumption DEF Connect, With, At
<1>2. Cardinality(With("connecting")) \in Nat /\ Cardinality(With("connecting")) # 0
  BY <1>1, FS_CardinalityType, FS_EmptySet
<1>3. l \in Link /\ l \notin Used
  BY <1>2, ServerAssumption DEF Numbered, Link
<1>4. PICK k \in Kind : kind' = [kind EXCEPT ![l] = k]
  BY DEF Connect
<1>5. k # "unused" /\ kind' \in [Link -> Kind \cup {"unused"}]
  BY <1>4, ServerAssumption DEF Types
<1>6. Used' = Used \cup {l}
  BY <1>3, <1>4, <1>5 DEF Used, Types
<1>7. Used' = 1 .. l
  BY <1>6 DEF Numbered
<1>8. Cardinality(1 .. l) = l
  BY FS_Interval DEF Numbered
<1> QED
  BY <1>3, <1>5, <1>7, <1>8 DEF Connect

\* The types.
LEMMA TypesStep ==
  ASSUME Types, Numbered, Holding, [Next]_vars
  PROVE  Types'
<1>1. ASSUME NEW c \in Client, Talk(c) PROVE Types'
  <2>1. PICK pc \in {"menu", "connecting", "waiting", "busy", "exited"} : Go(c, pc)
    BY <1>1, TalkFrame
  <2>2. client' \in [Client -> ClientState]
    BY <2>1 DEF Go, Types, ClientState
  <2> QED
    BY <1>1, <2>2, TalkFrame DEF Types
<1>2. ASSUME NEW c \in Client, Connect(c) PROVE Types'
  <2>1. UNCHANGED <<mail, answered, proc, listening, registered, held, shared,
                    threads, history>>
    BY <1>2 DEF Connect
  <2>2. CASE listening
    <3> DEFINE l == Cardinality(Used) + 1
    <3>1. /\ l \in Link /\ l \notin held
          /\ client' = [client EXCEPT ![c] = [pc |-> "connected", link |-> l]]
          /\ kind' \in [Link -> Kind \cup {"unused"}]
          /\ open' = open \cup {l} /\ backlog' = backlog \cup {l}
      BY <1>2, <2>2, Fresh DEF Numbered
    <3>2. client' \in [Client -> ClientState]
      BY <3>1 DEF Types, ClientState
    <3> QED
      BY <2>1, <3>1, <3>2 DEF Types, shared, threads, history
  <2>3. CASE ~ listening
    <3>1. Go(c, "exited") /\ UNCHANGED <<kind, open, backlog>>
      BY <1>2, <2>3 DEF Connect
    <3>2. client' \in [Client -> ClientState]
      BY <3>1 DEF Go, Types, ClientState
    <3> QED
      BY <2>1, <3>1, <3>2 DEF Types, shared, threads, history
  <2> QED
    BY <2>2, <2>3
<1>3. ASSUME Accept PROVE Types'
  <2>1. PICK l \in backlog :
          /\ backlog' = backlog \ {l} /\ held' = held \cup {l}
          /\ registered' = registered \cup {l} /\ last' = l
          /\ overlapped' = IF held = {} THEN overlapped
                                        ELSE overlapped \cup held \cup {l}
          /\ listening
    BY <1>3 DEF Accept
  <2>2. UNCHANGED <<clients, mail, answered, proc, listening, buffer, starg,
                    threads, mixed>>
    BY <1>3 DEF Accept
  <2>3. thread[l] = "none"
    BY <2>1 DEF Holding, IndexBounded, Types
  <2> QED
    BY <2>1, <2>2, <2>3 DEF Types, clients, threads
<1>4. ASSUME Event PROVE Types'
  BY <1>4 DEF Event, main, shared, threads, history, clients, Types, PC,
     LoginSteps, Cleared, Contents
<1>5. ASSUME Restart PROVE Types'
  BY <1>5 DEF Restart, main, shared, threads, history, clients, Types, PC,
     LoginSteps, Cleared, Contents
<1>6. ASSUME NEW l \in Link, Ends(l) PROVE Types'
  <2>1. Die /\ UNCHANGED <<clients, mail, answered, history>>
    BY <1>6, Died
  <2>2. Cleared \in Contents
    BY DEF Cleared, Contents
  <2> QED
    BY <2>1, <2>2 DEF Die, Types, clients, history, PC
<1>7. ASSUME NEW l \in Link, StartPoll(l) PROVE Types'
  BY <1>7 DEF StartPoll, Step, main, shared, threads, history, clients, Types,
     PC, LoginSteps, Cleared, Contents
<1>8. ASSUME NEW l \in Link, Polled(l) PROVE Types'
  BY <1>8 DEF Polled, Step, main, shared, threads, history, clients, Types, PC,
     LoginSteps, Cleared, Contents
<1>9. ASSUME NEW l \in Link, ReadLogin(l) PROVE Types'
  <2>1. buffer' \in Contents /\ mail' \subseteq Link
    BY <1>9 DEF ReadLogin, Types, Contents
  <2>4. thread' \in [Link -> PC]
    BY <1>9 DEF ReadLogin, Step, Types, PC, LoginSteps
  <2>2. mixed' \subseteq Link
    BY <1>9 DEF ReadLogin, Talks, Types
  <2>3. \A k \in registered : thread'[k] = "none"
    BY <1>9 DEF ReadLogin, Step, Types
  <2> QED
    BY <1>9, <2>1, <2>2, <2>3, <2>4 DEF ReadLogin, Types, main, clients
<1>10. ASSUME NEW l \in Link, Parse(l) PROVE Types'
  BY <1>10 DEF Parse, Step, main, shared, threads, history, clients, Types, PC,
     LoginSteps, Cleared, Contents
<1>11. ASSUME NEW l \in Link, WriteAnswer(l) PROVE Types'
  BY <1>11 DEF WriteAnswer, Step, main, shared, threads, history, clients,
     Types, PC, LoginSteps, Cleared, Contents
<1>12. ASSUME NEW l \in Link, Dispatch(l) PROVE Types'
  <2>1. buffer' \in Contents /\ thread' \in [Link -> PC]
    BY <1>12 DEF Dispatch, Step, Types, Contents, Cleared, PC
  <2>2. mixed' \subseteq Link
    BY <1>12 DEF Dispatch, Mixes, Types
  <2>3. \A k \in registered' : thread'[k] = "none"
    BY <1>12 DEF Dispatch, Step, Types, main
  <2> QED
    BY <1>12, <2>1, <2>2, <2>3 DEF Dispatch, Types, main, clients
<1>13. ASSUME NEW l \in Link, RecvFrame(l) PROVE Types'
  BY <1>13 DEF RecvFrame, Step, main, shared, threads, history, clients, Types,
     PC, LoginSteps, Cleared, Contents
<1>14. ASSUME NEW l \in Link, RecvBody(l) PROVE Types'
  <2>1. buffer' \in Contents /\ thread' \in [Link -> PC]
    BY <1>14 DEF RecvBody, Step, Types, Contents, Cleared, PC
  <2>2. mixed' \subseteq Link
    BY <1>14 DEF RecvBody, Mixes, Types
  <2>3. \A k \in registered' : thread'[k] = "none"
    BY <1>14 DEF RecvBody, Step, Types, main
  <2> QED
    BY <1>14, <2>1, <2>2, <2>3 DEF RecvBody, Types, main, clients
<1>15. ASSUME NEW l \in Link, SendEnds(l) PROVE Types'
  <2>1. buffer' \in Contents /\ thread' \in [Link -> PC]
    BY <1>15 DEF SendEnds, Step, Types, Contents, Cleared, PC
  <2>2. mixed' \subseteq Link
    BY <1>15 DEF SendEnds, Mixes, Types
  <2>3. \A k \in registered' : thread'[k] = "none"
    BY <1>15 DEF SendEnds, Step, Types, main
  <2> QED
    BY <1>15, <2>1, <2>2, <2>3 DEF SendEnds, Types, main, clients
<1>16. CASE UNCHANGED vars
  BY <1>16 DEF vars, main, shared, threads, history, clients, Types, PC,
     LoginSteps, Cleared, Contents
<1> QED
  BY <1>1, <1>2, <1>3, <1>4, <1>5, <1>6, <1>7, <1>8, <1>9, <1>10, <1>11, <1>12,
     <1>13, <1>14, <1>15, <1>16 DEF Next, ClientStep, ClientLogin, Serve, Talk,
     Ends

\* A connection takes the next number, and a client that is about to connect
\* has reserved one.
LEMMA NumberedStep ==
  ASSUME Types, Numbered, Holding, [Next]_vars
  PROVE  Numbered'
<1>1. ASSUME NEW c \in Client, Talk(c) PROVE Numbered'
  <2>1. PICK pc \in {"menu", "connecting", "waiting", "busy", "exited"} :
          /\ Go(c, pc) /\ ~ At(c, "connecting")
          /\ pc = "connecting" =>
               Cardinality(Used) + Cardinality(With("connecting")) < MaxLink
    BY <1>1, TalkFrame
  <2>2. Used' = Used /\ UNCHANGED <<backlog, held, answered>>
    BY <1>1, TalkFrame DEF Used
  <2>3. With("connecting")' = IF pc = "connecting" THEN With("connecting") \cup {c}
                                                  ELSE With("connecting")
    BY <2>1 DEF With, Go, At, Types, ClientState
  <2>4. IsFiniteSet(With("connecting")) /\ c \notin With("connecting")
    BY <2>1, FS_Subset, ServerAssumption DEF With, At
  <2>5. Cardinality(With("connecting") \cup {c}) = Cardinality(With("connecting")) + 1
    BY <2>4, FS_AddElement
  <2>6. Cardinality(With("connecting")) \in Nat
    BY <2>4, FS_CardinalityType
  <2>7. Cardinality(Used) + Cardinality(With("connecting")') <= MaxLink
    <3>1. CASE pc = "connecting"
      <4>1. With("connecting")' = With("connecting") \cup {c}
        BY <2>3, <3>1
      <4>2. Cardinality(With("connecting")') = Cardinality(With("connecting")) + 1
        BY <2>5, <4>1
      <4> QED
        BY <2>1, <2>6, <3>1, <4>2, ServerAssumption DEF Numbered
    <3>2. CASE pc # "connecting"
      BY <2>3, <3>2 DEF Numbered
    <3> QED
      BY <3>1, <3>2
  <2> QED
    BY <2>2, <2>7 DEF Numbered
<1>2. ASSUME NEW c \in Client, Connect(c) PROVE Numbered'
  <2>1. With("connecting")' = With("connecting") \ {c} /\ c \in With("connecting")
    <3>1. CASE listening
      BY <1>2, <3>1, Fresh DEF With, Connect, At, Types, ClientState
    <3>2. CASE ~ listening
      BY <1>2, <3>2 DEF With, Connect, At, Go, Types, ClientState
    <3> QED
      BY <3>1, <3>2
  <2>2. IsFiniteSet(With("connecting"))
    BY FS_Subset, ServerAssumption DEF With
  <2>3. /\ Cardinality(With("connecting")') = Cardinality(With("connecting")) - 1
        /\ Cardinality(With("connecting")) \in Nat
    BY <2>1, <2>2, FS_RemoveElement, FS_CardinalityType
  <2>4. UNCHANGED <<held, answered>>
    BY <1>2 DEF Connect
  <2>5. CASE listening
    BY <1>2, <2>3, <2>4, <2>5, Fresh, ServerAssumption DEF Numbered
  <2>6. CASE ~ listening
    <3>1. Used' = Used /\ backlog' = backlog
      BY <1>2, <2>6 DEF Connect, Used
    <3> QED
      BY <2>3, <2>4, <3>1, ServerAssumption DEF Numbered
  <2> QED
    BY <2>5, <2>6
<1>3. ASSUME Accept PROVE Numbered'
  BY <1>3 DEF Accept, main, shared, threads, history, clients, Numbered, Used,
     With, Types
<1>4. ASSUME Event PROVE Numbered'
  BY <1>4 DEF Event, main, shared, threads, history, clients, Numbered, Used,
     With
<1>5. ASSUME Restart PROVE Numbered'
  BY <1>5 DEF Restart, main, shared, threads, history, clients, Numbered, Used,
     With, Types
<1>6. ASSUME NEW l \in Link, Ends(l) PROVE Numbered'
  <2>1. UNCHANGED <<kind, client, answered>> /\ backlog' = {} /\ held' = {}
    BY <1>6, Died DEF Die, clients
  <2>2. Used' = Used /\ With("connecting")' = With("connecting")
    BY <2>1 DEF Used, With
  <2> QED
    BY <2>1, <2>2 DEF Numbered
<1>7. ASSUME NEW l \in Link, StartPoll(l) PROVE Numbered'
  BY <1>7 DEF StartPoll, Step, main, shared, threads, history, clients,
     Numbered, Used, With
<1>8. ASSUME NEW l \in Link, Polled(l) PROVE Numbered'
  BY <1>8 DEF Polled, Step, main, shared, threads, history, clients, Numbered,
     Used, With
<1>9. ASSUME NEW l \in Link, ReadLogin(l) PROVE Numbered'
  BY <1>9 DEF ReadLogin, Step, Talks, main, shared, threads, history, clients,
     Numbered, Used, With
<1>10. ASSUME NEW l \in Link, Parse(l) PROVE Numbered'
  BY <1>10 DEF Parse, Step, main, shared, threads, history, clients, Numbered,
     Used, With
<1>11. ASSUME NEW l \in Link, WriteAnswer(l) PROVE Numbered'
  BY <1>11 DEF WriteAnswer, Step, main, shared, threads, history, clients,
     Numbered, Used, With, Holding
<1>12. ASSUME NEW l \in Link, Dispatch(l) PROVE Numbered'
  BY <1>12 DEF Dispatch, Step, Mixes, main, shared, threads, history, clients,
     Numbered, Used, With
<1>13. ASSUME NEW l \in Link, RecvFrame(l) PROVE Numbered'
  BY <1>13 DEF RecvFrame, Step, main, shared, threads, history, clients,
     Numbered, Used, With
<1>14. ASSUME NEW l \in Link, RecvBody(l) PROVE Numbered'
  BY <1>14 DEF RecvBody, Step, Mixes, main, shared, threads, history, clients,
     Numbered, Used, With
<1>15. ASSUME NEW l \in Link, SendEnds(l) PROVE Numbered'
  BY <1>15 DEF SendEnds, Step, Mixes, main, shared, threads, history, clients,
     Numbered, Used, With
<1>16. CASE UNCHANGED vars
  BY <1>16 DEF vars, main, shared, threads, history, clients, Numbered, Used,
     With
<1> QED
  BY <1>1, <1>2, <1>3, <1>4, <1>5, <1>6, <1>7, <1>8, <1>9, <1>10, <1>11, <1>12,
     <1>13, <1>14, <1>15, <1>16 DEF Next, ClientStep, ClientLogin, Serve, Talk,
     Ends

\* A thread ends with the process, or takes the listening socket with it.
LEMMA HoldingStep ==
  ASSUME Types, Numbered, Holding, [Next]_vars
  PROVE  Holding'
<1>1. ASSUME NEW c \in Client, Talk(c) PROVE Holding'
  BY <1>1, TalkFrame DEF main, shared, threads, history, clients, Holding,
     IndexBounded, Types, LoginSteps
<1>2. ASSUME NEW c \in Client, Connect(c) PROVE Holding'
  <2>1. CASE listening
    BY <1>2, <2>1, Fresh DEF Connect, Holding, IndexBounded, main, threads
  <2>2. CASE ~ listening
    BY <1>2, <2>2 DEF Connect, At, Go, Holding, IndexBounded, main, threads
  <2> QED
    BY <2>1, <2>2
<1>3. ASSUME Accept PROVE Holding'
  BY <1>3 DEF Accept, main, shared, threads, history, clients, Holding,
     IndexBounded, Types, LoginSteps
<1>4. ASSUME Event PROVE Holding'
  BY <1>4 DEF Event, main, shared, threads, history, clients, Holding,
     IndexBounded, Types, LoginSteps
<1>5. ASSUME Restart PROVE Holding'
  BY <1>5 DEF Restart, main, shared, threads, history, clients, Holding,
     IndexBounded, Types, LoginSteps
<1>6. ASSUME NEW l \in Link, Ends(l) PROVE Holding'
  BY <1>6, Died DEF Die, main, shared, threads, history, clients, Holding,
     IndexBounded, Types, LoginSteps
<1>7. ASSUME NEW l \in Link, StartPoll(l) PROVE Holding'
  BY <1>7 DEF StartPoll, Step, main, shared, threads, history, clients,
     Holding, IndexBounded, Types, LoginSteps
<1>8. ASSUME NEW l \in Link, Polled(l) PROVE Holding'
  BY <1>8 DEF Polled, Step, main, shared, threads, history, clients, Holding,
     IndexBounded, Types, LoginSteps
<1>9. ASSUME NEW l \in Link, ReadLogin(l) PROVE Holding'
  BY <1>9 DEF ReadLogin, Step, Talks, main, shared, threads, history, clients,
     Holding, IndexBounded, Types, LoginSteps
<1>10. ASSUME NEW l \in Link, Parse(l) PROVE Holding'
  BY <1>10 DEF Parse, Step, main, shared, threads, history, clients, Holding,
     IndexBounded, Types, LoginSteps
<1>11. ASSUME NEW l \in Link, WriteAnswer(l) PROVE Holding'
  BY <1>11 DEF WriteAnswer, Step, main, shared, threads, history, clients,
     Holding, IndexBounded, Types, LoginSteps
<1>12. ASSUME NEW l \in Link, Dispatch(l) PROVE Holding'
  BY <1>12 DEF Dispatch, Step, Mixes, main, shared, threads, history, clients,
     Holding, IndexBounded, Types, LoginSteps
<1>13. ASSUME NEW l \in Link, RecvFrame(l) PROVE Holding'
  BY <1>13 DEF RecvFrame, Step, main, shared, threads, history, clients,
     Holding, IndexBounded, Types, LoginSteps
<1>14. ASSUME NEW l \in Link, RecvBody(l) PROVE Holding'
  BY <1>14 DEF RecvBody, Step, Mixes, main, shared, threads, history, clients,
     Holding, IndexBounded, Types, LoginSteps
<1>15. ASSUME NEW l \in Link, SendEnds(l) PROVE Holding'
  BY <1>15 DEF SendEnds, Step, Mixes, main, shared, threads, history, clients,
     Holding, IndexBounded, Types, LoginSteps
<1>16. CASE UNCHANGED vars
  BY <1>16 DEF vars, main, shared, threads, history, clients, Holding,
     IndexBounded, Types, LoginSteps
<1> QED
  BY <1>1, <1>2, <1>3, <1>4, <1>5, <1>6, <1>7, <1>8, <1>9, <1>10, <1>11, <1>12,
     <1>13, <1>14, <1>15, <1>16 DEF Next, ClientStep, ClientLogin, Serve, Talk,
     Ends

\* A thread answers its own connection only.
LEMMA AnsweringStep ==
  ASSUME Types, Numbered, Holding, Answering, [Next]_vars
  PROVE  Answering'
<1>1. ASSUME NEW c \in Client, Talk(c) PROVE Answering'
  <2>1. PICK pc \in {"menu", "connecting", "waiting", "busy", "exited"} :
          Go(c, pc) /\ (pc = "busy" => client[c].link \in answered)
    BY <1>1, TalkFrame
  <2>2. \A d \in Client : client'[d].pc = "busy" => client'[d].link \in answered
    BY <2>1 DEF Go, Answering, Types, ClientState
  <2> QED
    BY <1>1, <2>2, TalkFrame DEF Answering
<1>2. ASSUME NEW c \in Client, Connect(c) PROVE Answering'
  <2>1. UNCHANGED <<answered, registered, held, thread>>
    BY <1>2 DEF Connect, main, threads
  <2>2. CASE listening
    <3>1. client' = [client EXCEPT ![c] =
                       [pc |-> "connected", link |-> Cardinality(Used) + 1]]
      BY <1>2, <2>2, Fresh
    <3>2. \A d \in Client : client'[d].pc = "busy" => client'[d].link \in answered
      BY <3>1 DEF Answering, Types
    <3>3. answered \cap backlog' = {}
      BY <1>2, <2>2, Fresh DEF Answering, Numbered
    <3> QED
      BY <2>1, <3>2, <3>3 DEF Answering
  <2>3. CASE ~ listening
    <3>1. client' = [client EXCEPT ![c].pc = "exited"] /\ backlog' = backlog
      BY <1>2, <2>3 DEF Connect, Go
    <3>2. \A d \in Client : client'[d].pc = "busy" => client'[d].link \in answered
      BY <3>1 DEF Answering, Types, ClientState
    <3> QED
      BY <2>1, <3>1, <3>2 DEF Answering
  <2> QED
    BY <2>2, <2>3
<1>3. ASSUME Accept PROVE Answering'
  BY <1>3 DEF Accept, main, shared, threads, history, clients, Answering,
     Types, LoginSteps, Holding, IndexBounded
<1>4. ASSUME Event PROVE Answering'
  BY <1>4 DEF Event, main, shared, threads, history, clients, Answering, Types,
     LoginSteps, Holding, IndexBounded
<1>5. ASSUME Restart PROVE Answering'
  BY <1>5 DEF Restart, main, shared, threads, history, clients, Answering,
     Types, LoginSteps, Holding, IndexBounded
<1>6. ASSUME NEW l \in Link, Ends(l) PROVE Answering'
  <2>1. Die /\ UNCHANGED <<clients, mail, answered, history>>
    BY <1>6, Died
  <2>2. \A k \in Link : thread'[k] \notin LoginSteps
    BY <2>1 DEF Die, LoginSteps
  <2> QED
    BY <2>1, <2>2 DEF Die, Answering, clients
<1>7. ASSUME NEW l \in Link, StartPoll(l) PROVE Answering'
  BY <1>7 DEF StartPoll, Step, main, shared, threads, history, clients,
     Answering, Types, LoginSteps, Holding, IndexBounded
<1>8. ASSUME NEW l \in Link, Polled(l) PROVE Answering'
  BY <1>8 DEF Polled, Step, main, shared, threads, history, clients, Answering,
     Types, LoginSteps, Holding, IndexBounded
<1>9. ASSUME NEW l \in Link, ReadLogin(l) PROVE Answering'
  BY <1>9 DEF ReadLogin, Step, Talks, main, shared, threads, history, clients,
     Answering, Types, LoginSteps, Holding, IndexBounded
<1>10. ASSUME NEW l \in Link, Parse(l) PROVE Answering'
  BY <1>10 DEF Parse, Step, main, shared, threads, history, clients, Answering,
     Types, LoginSteps, Holding, IndexBounded
<1>11. ASSUME NEW l \in Link, WriteAnswer(l) PROVE Answering'
  BY <1>11 DEF WriteAnswer, Step, main, shared, threads, history, clients,
     Answering, Types, LoginSteps, Holding, IndexBounded
<1>12. ASSUME NEW l \in Link, Dispatch(l) PROVE Answering'
  BY <1>12 DEF Dispatch, Step, Mixes, main, shared, threads, history, clients,
     Answering, Types, LoginSteps, Holding, IndexBounded
<1>13. ASSUME NEW l \in Link, RecvFrame(l) PROVE Answering'
  BY <1>13 DEF RecvFrame, Step, main, shared, threads, history, clients,
     Answering, Types, LoginSteps, Holding, IndexBounded
<1>14. ASSUME NEW l \in Link, RecvBody(l) PROVE Answering'
  BY <1>14 DEF RecvBody, Step, Mixes, main, shared, threads, history, clients,
     Answering, Types, LoginSteps, Holding, IndexBounded
<1>15. ASSUME NEW l \in Link, SendEnds(l) PROVE Answering'
  BY <1>15 DEF SendEnds, Step, Mixes, main, shared, threads, history, clients,
     Answering, Types, LoginSteps, Holding, IndexBounded
<1>16. CASE UNCHANGED vars
  BY <1>16 DEF vars, main, shared, threads, history, clients, Answering, Types,
     LoginSteps, Holding, IndexBounded
<1> QED
  BY <1>1, <1>2, <1>3, <1>4, <1>5, <1>6, <1>7, <1>8, <1>9, <1>10, <1>11, <1>12,
     <1>13, <1>14, <1>15, <1>16 DEF Next, ClientStep, ClientLogin, Serve, Talk,
     Ends

\* While a connection is alone no other thread touches the globals.
LEMMA AloneStep ==
  ASSUME Types, Numbered, Holding, Answering, Alone, [Next]_vars
  PROVE  Alone'
<1>1. ASSUME NEW c \in Client, Talk(c) PROVE Alone'
  BY <1>1, TalkFrame DEF main, shared, threads, history, clients, Alone,
     AloneIsServed, Own, Types, LoginSteps, Holding, Answering, IndexBounded,
     NoLink, Link
<1>2. ASSUME NEW c \in Client, Connect(c) PROVE Alone'
  <2>1. CASE listening
    BY <1>2, <2>1, Fresh DEF Connect, Alone, AloneIsServed, Own, threads, shared, history
  <2>2. CASE ~ listening
    BY <1>2, <2>2 DEF Connect, At, Go, Alone, AloneIsServed, Own, threads, shared, history
  <2> QED
    BY <2>1, <2>2
<1>3. ASSUME Accept PROVE Alone'
  <2>1. PICK l \in backlog :
          /\ listening /\ held' = held \cup {l} /\ last' = l
          /\ overlapped' = IF held = {} THEN overlapped
                                        ELSE overlapped \cup held \cup {l}
          /\ UNCHANGED <<thread, buffer, starg, mixed>>
    BY <1>3 DEF Accept, threads
  <2>2. thread[l] = "none"
    BY <2>1 DEF Holding, IndexBounded, Types
  <2>3. CASE held = {}
    BY <2>1, <2>2, <2>3 DEF Alone, AloneIsServed, Own
  <2>4. CASE held # {}
    BY <2>1, <2>2, <2>4 DEF Alone, AloneIsServed, Own
  <2> QED
    BY <2>3, <2>4
<1>4. ASSUME Event PROVE Alone'
  BY <1>4 DEF Event, main, shared, threads, history, clients, Alone,
     AloneIsServed, Own, Types, LoginSteps, Holding, Answering, IndexBounded,
     NoLink, Link
<1>5. ASSUME Restart PROVE Alone'
  BY <1>5 DEF Restart, main, shared, threads, history, clients, Alone,
     AloneIsServed, Own, Types, LoginSteps, Holding, Answering, IndexBounded,
     NoLink, Link
<1>6. ASSUME NEW l \in Link, Ends(l) PROVE Alone'
  BY <1>6, Died DEF Die, main, shared, threads, history, clients, Alone,
     AloneIsServed, Own, Types, LoginSteps, Holding, Answering, IndexBounded,
     NoLink, Link
<1>7. ASSUME NEW l \in Link, StartPoll(l) PROVE Alone'
  BY <1>7 DEF StartPoll, Step, main, shared, threads, history, clients, Alone,
     AloneIsServed, Own, Types, LoginSteps, Holding, Answering, IndexBounded,
     NoLink, Link
<1>8. ASSUME NEW l \in Link, Polled(l) PROVE Alone'
  BY <1>8 DEF Polled, Step, main, shared, threads, history, clients, Alone,
     AloneIsServed, Own, Types, LoginSteps, Holding, Answering, IndexBounded,
     NoLink, Link
<1>9. ASSUME NEW l \in Link, ReadLogin(l) PROVE Alone'
  <2>1. l \in held /\ l \notin answered
    BY <1>9 DEF ReadLogin, Holding, Answering, LoginSteps
  <2>2. UNCHANGED <<held, last, overlapped, starg>> /\ thread' = [thread EXCEPT ![l] = "parse"]
    BY <1>9 DEF ReadLogin, Step
  <2>3. ASSUME l \notin overlapped
        PROVE  held = {l} /\ last = l /\ ~ Talks(l)
    BY <2>1, <2>3 DEF Alone, Own, Talks, Answering
  <2>4. mixed' \subseteq overlapped
    <3>1. CASE mixed' = mixed
      BY <3>1 DEF Alone, AloneIsServed
    <3>2. CASE Talks(last) /\ mixed' = mixed \cup {last}
      <4>1. last \in held
        BY <3>2 DEF Talks
      <4>2. ASSUME last \notin overlapped PROVE FALSE
        <5>1. held = {last}
          BY <4>1, <4>2 DEF Alone, Own
        <5>2. l = last
          BY <2>1, <5>1
        <5> QED
          BY <2>3, <3>2, <4>2, <5>2
      <4> QED
        BY <3>2, <4>2 DEF Alone, AloneIsServed
    <3> QED
      BY <1>9, <3>1, <3>2 DEF ReadLogin
  <2>5. ASSUME NEW k \in held, k \notin overlapped PROVE Own(k)'
    <3>1. k = l /\ held = {l} /\ last = l
      BY <2>1, <2>5 DEF Alone, Own
    <3>2. buffer' = [link |-> l, what |-> "login"]
      BY <1>9, <2>3, <2>5, <3>1 DEF ReadLogin
    <3> QED
      BY <2>2, <3>1, <3>2 DEF Own, Types
  <2>6. \A k \in held : thread'[k] = "gone" => k \in overlapped
    BY <2>2 DEF Alone, AloneIsServed, Types
  <2> QED
    BY <2>2, <2>4, <2>5, <2>6 DEF Alone, AloneIsServed
<1>10. ASSUME NEW l \in Link, Parse(l) PROVE Alone'
  BY <1>10 DEF Parse, Step, main, shared, threads, history, clients, Alone,
     AloneIsServed, Own, Types, LoginSteps, Holding, Answering, IndexBounded,
     NoLink, Link
<1>11. ASSUME NEW l \in Link, WriteAnswer(l) PROVE Alone'
  BY <1>11 DEF WriteAnswer, Step, main, shared, threads, history, clients,
     Alone, AloneIsServed, Own, Types, LoginSteps, Holding, Answering,
     IndexBounded, NoLink, Link
<1>12. ASSUME NEW l \in Link, Dispatch(l) PROVE Alone'
  <2>1. l \in held
    BY <1>12 DEF Dispatch, Holding
  <2>2. UNCHANGED <<held, last, overlapped, starg>> /\ Mixes(l, starg # l)
    BY <1>12 DEF Dispatch
  <2>3. PICK pc \in {"gone", "recv", "send"} :
          thread' = [thread EXCEPT ![l] = pc] /\ (pc = "gone" => starg = NoLink)
    BY <1>12 DEF Dispatch, Step
  <2>4. ASSUME l \notin overlapped PROVE Own(l) /\ starg = l /\ l # NoLink
    BY <1>12, <2>1, <2>4 DEF Dispatch, Alone, Own, Link, NoLink
  <2>5. mixed' \subseteq overlapped
    BY <2>2, <2>4 DEF Mixes, Alone, AloneIsServed
  <2>6. \A k \in held : thread'[k] = "gone" => k \in overlapped
    BY <2>3, <2>4 DEF Alone, AloneIsServed, Types
  <2>7. ASSUME NEW k \in held, k \notin overlapped PROVE Own(k)'
    <3>1. k = l
      BY <2>1, <2>7 DEF Alone, Own
    <3> QED
      BY <2>2, <2>3, <2>4, <2>7, <3>1 DEF Own, Types
  <2> QED
    BY <2>2, <2>5, <2>6, <2>7 DEF Alone, AloneIsServed
<1>13. ASSUME NEW l \in Link, RecvFrame(l) PROVE Alone'
  BY <1>13 DEF RecvFrame, Step, main, shared, threads, history, clients, Alone,
     AloneIsServed, Own, Types, LoginSteps, Holding, Answering, IndexBounded,
     NoLink, Link
<1>14. ASSUME NEW l \in Link, RecvBody(l) PROVE Alone'
  BY <1>14 DEF RecvBody, Step, Mixes, main, shared, threads, history, clients,
     Alone, AloneIsServed, Own, Types, LoginSteps, Holding, Answering,
     IndexBounded, NoLink, Link
<1>15. ASSUME NEW l \in Link, SendEnds(l) PROVE Alone'
  BY <1>15 DEF SendEnds, Step, Mixes, main, shared, threads, history, clients,
     Alone, AloneIsServed, Own, Types, LoginSteps, Holding, Answering,
     IndexBounded, NoLink, Link
<1>16. CASE UNCHANGED vars
  BY <1>16 DEF vars, main, shared, threads, history, clients, Alone,
     AloneIsServed, Own, Types, LoginSteps, Holding, Answering, IndexBounded,
     NoLink, Link
<1> QED
  BY <1>1, <1>2, <1>3, <1>4, <1>5, <1>6, <1>7, <1>8, <1>9, <1>10, <1>11, <1>12,
     <1>13, <1>14, <1>15, <1>16 DEF Next, ClientStep, ClientLogin, Serve, Talk,
     Ends

\* The conjuncts of IInv together.
LEMMA IInvStep ==
  ASSUME IInv, [Next]_vars
  PROVE  IInv'
BY TypesStep, NumberedStep, HoldingStep, AnsweringStep, AloneStep DEF IInv

\* In every reachable state.
LEMMA Invariant == Spec => []IInv
<1>1. Init => IInv
  <2> SUFFICES ASSUME Init PROVE IInv
    OBVIOUS
  <2>1. Types
    BY ServerAssumption DEF Init, Types, ClientState, Contents, PC, Cleared, NoLink
  <2>2. Used = {} /\ With("connecting") = {}
    BY DEF Init, Used, With
  <2>3. Cardinality({}) = 0 /\ 1 .. 0 = {}
    BY FS_EmptySet
  <2>4. Numbered
    BY <2>2, <2>3, ServerAssumption DEF Init, Numbered
  <2>5. Holding /\ Answering /\ Alone
    BY DEF Init, Holding, IndexBounded, Answering, Alone, AloneIsServed, LoginSteps
  <2> QED
    BY <2>1, <2>4, <2>5 DEF IInv
<1>2. IInv /\ [Next]_vars => IInv'
  BY IInvStep
<1> QED
  BY <1>1, <1>2, PTL DEF Spec

-----------------------------------------------------------------------------
\* Every reachable state has the types, and no descriptor is both waiting to
\* be accepted and accepted (fileserver.cpp:108-167).
THEOREM ServerTypeOK == Spec => []TypeOK
<1>1. IInv => TypeOK
  BY DEF IInv, Types, ClientState, Contents, PC, TypeOK
<1> QED
  BY <1>1, Invariant, PTL

\* IndexBounded: while connections are accepted every thread has its
\* connection, so the array of connections is as long as the process may have
\* descriptors (fileserver.cpp:11, 148-155).
THEOREM ServerIndexBounded == Spec => []IndexBounded
<1>1. IInv => IndexBounded
  BY DEF IInv, Holding
<1> QED
  BY <1>1, Invariant, PTL

\* AnsweredIsServed: a client that has been answered has a thread past its
\* login, whoever's login that thread has read (fileserver.cpp:243, 258).
THEOREM ServerAnsweredIsServed == Spec => []AnsweredIsServed
<1>1. IInv => AnsweredIsServed
  <2> SUFFICES ASSUME IInv, NEW l \in answered \cap held
               PROVE  thread[l] \notin LoginSteps /\ thread[l] # "none"
    BY DEF AnsweredIsServed
  <2>1. l \in Link /\ l \notin registered
    BY DEF IInv, Types, Answering
  <2> QED
    BY <2>1 DEF IInv, Answering
<1> QED
  BY <1>1, Invariant, PTL

\* AloneIsServed: a connection that is never open beside another one is served
\* as its own login asks, from the globals all threads use
\* (fileserver.cpp:243-250, 80-83, 348-386).
THEOREM ServerAloneIsServed == Spec => []AloneIsServed
<1>1. IInv => AloneIsServed
  BY DEF IInv, Alone
<1> QED
  BY <1>1, Invariant, PTL
=============================================================================
