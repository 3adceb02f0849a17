---------------------------- MODULE FileTransfer ----------------------------
(***************************************************************************)
(* The transfer of a directory over one connection of the file server:     *)
(*   upload    putfile::_tcpputfiles sends, the server's RecvFilesMain     *)
(*             receives;                                                   *)
(*   download  the server's _tcpputfiles sends, getfile::_tcpgetfiles      *)
(*             receives, and each answer makes the server delete its file. *)
(* The sender pipelines: it polls for answers between files and waits for  *)
(* the rest at the end.  A frame is a header, announcing a file and its    *)
(* size, or an answer; contents follow their header unframed, in chunks of *)
(* 1000 bytes.  TCP delivers in order; a connection that breaks loses what *)
(* is in flight, and a write to it fails or goes nowhere.                  *)
(*                                                                         *)
(* The receiver of a download may send heartbeats' answers too, but no     *)
(* heartbeat ever comes: see EndDownload.                                  *)
(***************************************************************************)
EXTENDS Sequences, Integers, FiniteSets

CONSTANTS File,     \* in the order of the listing: 1 .. n
          Size,     \* chunks of each file, [File -> Nat]
          Env,      \* what may go wrong
          Window,   \* frames and chunks the buffers of one direction hold
          Sessions  \* bound: the sessions run

ASSUME TransferAssumption ==
  /\ IsFiniteSet(File) /\ File = 1 .. Cardinality(File)
  /\ Size \in [File -> Nat]
  /\ Env \subseteq {"break", "vanish", "shrink", "fopen", "rename"}
  /\ Window \in Nat \ {0}
  /\ Sessions \in Nat \ {0}

VARIABLES mode,     \* "upload" or "download"
          source,   \* the files in the sender's directory
          target,   \* chunks under each file's final name, or Absent
          toR, toS, \* what is in flight, or read by nobody yet
          link,     \* the connection
          snd, rcv, \* the two programs
          list,     \* the listing: the files OpenDir found
          session,  \* sessions started so far
          removed,  \* history: files _ackresult has removed
          refused   \* history: files the receiver has answered "failed" for

disk == <<source, target>>
wire == <<toR, toS, link>>
history == <<removed, refused>>
vars == <<mode, disk, wire, snd, rcv, list, session, history>>

NoFile == 0
Absent == -1
Up == link = "up"

Header(f) == [kind |-> "header", file |-> f]
Chunk(f) == [kind |-> "chunk", file |-> f]
Answer(f, ok) == [file |-> f, ok |-> ok]

Sender == [pc |-> "list", file |-> NoFile, left |-> 0, delayed |-> 0]
Receiver == [pc |-> "read", file |-> NoFile, got |-> 0, ok |-> FALSE]

\* The client has logged in, and the sender opens its directory.
Init ==
  /\ mode \in {"upload", "download"}
  /\ source = File /\ list = File
  /\ target = [f \in File |-> Absent]
  /\ toR = <<>> /\ toS = <<>> /\ link = "up"
  /\ snd = Sender /\ rcv = Receiver
  /\ session = 1
  /\ removed = {} /\ refused = {}

-----------------------------------------------------------------------------
(* The connection.                                                         *)

\* What can be left of a sequence in flight when the connection goes.
Truncated(s) == {SubSeq(s, 1, n) : n \in 0 .. Len(s)}

Break ==
  /\ "break" \in Env /\ Up
  /\ link' = "down"
  /\ toR' \in Truncated(toR) /\ toS' \in Truncated(toS)
  /\ UNCHANGED <<mode, disk, snd, rcv, list, session, history>>

\* A close by one end: unread data at that end turns it into a reset.
Close ==
  /\ link' = "down"
  /\ toR' \in Truncated(toR) /\ toS' \in Truncated(toS)

\* Writen: blocks while the buffers are full, without a timeout; on a
\* connection that is down it fails, or fails to fail.
SendR(item, ok) ==
  /\ Up => ok /\ Len(toR) < Window
  /\ toR' = IF Up THEN Append(toR, item) ELSE toR
SendS(item, ok) ==
  /\ Up => ok /\ Len(toS) < Window
  /\ toS' = IF Up THEN Append(toS, item) ELSE toS

\* The client's next login, or its exit, closes the connection of a transfer
\* that is over for the client.
HangUp ==
  /\ Up
  /\ IF mode = "upload" THEN snd.pc = "done" ELSE rcv.pc = "done"
  /\ Close
  /\ UNCHANGED <<mode, disk, snd, rcv, list, session, history>>

-----------------------------------------------------------------------------
(* The sender: putfile::_tcpputfiles, and _tcpputfiles of the server.      *)

\* ReadDir and the header.  A failed write ends the session.
ListNext ==
  LET rest == {f \in list : f > snd.file}
      f == CHOOSE g \in rest : \A h \in rest : g <= h
  IN /\ snd.pc = "list"
     /\ IF rest = {}
        THEN snd' = [snd EXCEPT !.pc = "await"] /\ UNCHANGED toR
        ELSE \E ok \in BOOLEAN :
               /\ SendR(Header(f), ok)
               /\ snd' = IF ok
                         THEN [snd EXCEPT !.pc = "open", !.file = f, !.left = Size[f]]
                         ELSE [snd EXCEPT !.pc = "done"]
     /\ UNCHANGED <<mode, disk, toS, link, rcv, list, session, history>>

\* Mutant: the connection is left open when the file cannot be opened.
SendOpen_NoClose ==
  /\ snd.pc = "open"
  /\ snd' = [snd EXCEPT !.pc = IF snd.file \in source THEN "send" ELSE "done"]
  /\ UNCHANGED <<mode, disk, wire, rcv, list, session, history>>

\* SendFile opens the file, which may have gone since it was listed.
SendOpen ==
  /\ snd.pc = "open"
  /\ IF snd.file \in source
     THEN snd' = [snd EXCEPT !.pc = "send"] /\ UNCHANGED wire
     ELSE snd' = [snd EXCEPT !.pc = "done"] /\ Close
  /\ UNCHANGED <<mode, disk, rcv, list, session, history>>

\* SendFile: one chunk, or the end of the file.  If the file has shrunk since
\* it was listed, fread returns nothing and the loop has no other exit.
SendChunk ==
  /\ snd.pc = "send"
  /\ IF snd.left = 0
     THEN /\ snd' = [snd EXCEPT !.pc = "poll", !.delayed = @ + 1]
          /\ UNCHANGED wire
     ELSE \/ \E ok \in BOOLEAN :
               /\ SendR(Chunk(snd.file), ok)
               /\ IF ok
                  THEN snd' = [snd EXCEPT !.left = @ - 1] /\ UNCHANGED <<toS, link>>
                  ELSE snd' = [snd EXCEPT !.pc = "done"] /\ UNCHANGED <<toS, link>>
          \/ /\ "shrink" \in Env
             /\ snd' = [snd EXCEPT !.pc = "spin"]
             /\ UNCHANGED wire
  /\ UNCHANGED <<mode, disk, rcv, list, session, history>>

\* Mutant: the server deletes a file when it has been sent.
Acked_Early(f) ==
  IF mode = "download"
  THEN source' = {} /\ removed' = removed \cup list
  ELSE UNCHANGED <<source, removed>>

\* _ackresult: the server deletes or moves its file, whatever the result; the
\* client of an upload does nothing.
Acked(f) ==
  IF mode = "download"
  THEN source' = source \ {f} /\ removed' = removed \cup {f}
  ELSE UNCHANGED <<source, removed>>

\* TcpRead of an answer that is there.
TakeAnswer ==
  /\ toS # <<>>
  /\ toS' = Tail(toS)
  /\ Acked(Head(toS).file)

\* Mutant: the answer is not counted off.
PollAnswer_NotCounted ==
  /\ snd.pc = "poll" /\ TakeAnswer
  /\ snd' = [snd EXCEPT !.pc = "list"]
  /\ UNCHANGED <<mode, target, toR, link, rcv, list, session, refused>>

\* An answer taken without waiting: all there are (upload), or one.
PollAnswer ==
  /\ snd.pc = "poll" /\ snd.delayed > 0 /\ TakeAnswer
  /\ snd' = [snd EXCEPT !.delayed = @ - 1,
                        !.pc = IF mode = "upload" THEN "poll" ELSE "list"]
  /\ UNCHANGED <<mode, target, toR, link, rcv, list, session, refused>>

\* None has arrived yet.
PollNothing ==
  /\ snd.pc = "poll"
  /\ snd' = [snd EXCEPT !.pc = "list"]
  /\ UNCHANGED <<mode, disk, wire, rcv, list, session, history>>

\* The answers not taken so far.  A read that times out ends the upload; the
\* server goes on to its next read.
AwaitAnswer ==
  /\ snd.pc = "await" /\ snd.delayed > 0
  /\ \/ TakeAnswer /\ snd' = [snd EXCEPT !.delayed = @ - 1]
     \/ /\ toS = <<>>
        /\ snd' = IF mode = "upload" THEN [snd EXCEPT !.pc = "done"]
                                     ELSE [snd EXCEPT !.delayed = @ - 1]
        /\ UNCHANGED <<source, removed, toS>>
  /\ UNCHANGED <<mode, target, toR, link, rcv, list, session, refused>>

\* The client keeps the connection open until its next login.
EndUpload ==
  /\ mode = "upload" /\ snd.pc = "await" /\ snd.delayed = 0
  /\ snd' = [snd EXCEPT !.pc = "done"]
  /\ UNCHANGED <<mode, disk, wire, rcv, list, session, history>>

\* The server's _tcpputfiles has the connection in a CTcpServer of its own,
\* whose destructor closes it: the rounds and heartbeats that SendFilesMain
\* goes on to write fail.
EndDownload ==
  /\ mode = "download" /\ snd.pc = "await" /\ snd.delayed = 0
  /\ snd' = [snd EXCEPT !.pc = "done"]
  /\ Close
  /\ UNCHANGED <<mode, disk, rcv, list, session, history>>

-----------------------------------------------------------------------------
(* The receiver: RecvFilesMain of the server, and getfile::_tcpgetfiles.   *)

\* Read finds a header, and RecvFile creates the temporary file; if it cannot,
\* the contents stay unread.  Contents in the place of a frame are no frame.
ReadFrame ==
  /\ rcv.pc = "read" /\ toR # <<>>
  /\ \E opened \in (IF "fopen" \in Env THEN BOOLEAN ELSE {TRUE}) :
       rcv' = IF Head(toR).kind = "chunk" THEN [rcv EXCEPT !.pc = "astray"]
              ELSE [pc |-> IF opened THEN "recv" ELSE "answer",
                    file |-> Head(toR).file, got |-> 0, ok |-> FALSE]
  /\ toR' = Tail(toR)
  /\ UNCHANGED <<mode, disk, toS, link, snd, list, session, history>>

\* Read fails: the connection is down, or nothing has come in time.  The
\* server exits (ChldEXIT), which closes the connection; the client returns to
\* its menu with the connection open.
ReadFails ==
  /\ rcv.pc = "read" /\ toR = <<>>
  /\ rcv' = [rcv EXCEPT !.pc = "done"]
  /\ IF mode = "upload" THEN Close ELSE UNCHANGED wire
  /\ UNCHANGED <<mode, disk, snd, list, session, history>>

\* RecvFile reads a chunk into the temporary file; the header of another file
\* would be taken for contents.
RecvChunk ==
  /\ rcv.pc = "recv" /\ rcv.got < Size[rcv.file] /\ toR # <<>>
  /\ rcv' = IF Head(toR) = Chunk(rcv.file) THEN [rcv EXCEPT !.got = @ + 1]
                                           ELSE [rcv EXCEPT !.pc = "astray"]
  /\ toR' = Tail(toR)
  /\ UNCHANGED <<mode, disk, toS, link, snd, list, session, history>>

\* Readn has no timeout: it fails only when the connection does.
RecvFails ==
  /\ rcv.pc = "recv" /\ rcv.got < Size[rcv.file] /\ toR = <<>> /\ ~ Up
  /\ rcv' = [rcv EXCEPT !.pc = "answer"]
  /\ UNCHANGED <<mode, disk, wire, snd, list, session, history>>

\* Mutant: the loop ends one chunk early.
RecvEnd_Early ==
  /\ rcv.pc = "recv" /\ rcv.got + 1 >= Size[rcv.file]
  /\ target' = [target EXCEPT ![rcv.file] = Size[rcv.file]]
  /\ rcv' = [rcv EXCEPT !.pc = "answer", !.ok = TRUE]
  /\ UNCHANGED <<mode, source, wire, snd, list, session, history>>

\* Mutant: the file is received under its final name.
RecvEnd_InPlace ==
  /\ rcv.pc = "recv"
  /\ target' = [target EXCEPT ![rcv.file] = rcv.got]
  /\ rcv' = IF rcv.got = Size[rcv.file]
            THEN [rcv EXCEPT !.pc = "answer", !.ok = TRUE] ELSE rcv
  /\ UNCHANGED <<mode, source, wire, snd, list, session, history>>

\* The contents are complete; RENAME gives them their final name.
RecvEnd ==
  /\ rcv.pc = "recv" /\ rcv.got = Size[rcv.file]
  /\ \E renamed \in (IF "rename" \in Env THEN BOOLEAN ELSE {TRUE}) :
       /\ target' = IF renamed THEN [target EXCEPT ![rcv.file] = rcv.got] ELSE target
       /\ rcv' = [rcv EXCEPT !.pc = "answer", !.ok = renamed]
  /\ UNCHANGED <<mode, source, wire, snd, list, session, history>>

\* The answer.  If it cannot be written the server exits and the client returns.
WriteAnswer ==
  /\ rcv.pc = "answer"
  /\ \E ok \in BOOLEAN :
       /\ SendS(Answer(rcv.file, rcv.ok), ok)
       /\ rcv' = [rcv EXCEPT !.pc = IF ok THEN "read" ELSE "done"]
  /\ refused' = IF rcv.ok THEN refused ELSE refused \cup {rcv.file}
  /\ UNCHANGED <<mode, disk, toR, link, snd, list, session, removed>>

-----------------------------------------------------------------------------
\* Somebody else removes a file from the sender's directory.
Vanish ==
  /\ "vanish" \in Env
  /\ \E f \in source : source' = source \ {f}
  /\ UNCHANGED <<mode, target, wire, snd, rcv, list, session, history>>

\* Another login, another session, of the files that are there.
Again ==
  /\ snd.pc = "done" /\ rcv.pc = "done" /\ session < Sessions
  /\ session' = session + 1
  /\ list' = source
  /\ toR' = <<>> /\ toS' = <<>> /\ link' = "up"
  /\ snd' = Sender /\ rcv' = Receiver
  /\ UNCHANGED <<mode, disk, history>>

Send == ListNext \/ SendOpen \/ SendChunk \/ PollAnswer \/ PollNothing
          \/ AwaitAnswer \/ EndUpload \/ EndDownload

Receive == ReadFrame \/ ReadFails \/ RecvChunk \/ RecvFails \/ RecvEnd \/ WriteAnswer

Next == Send \/ Receive \/ HangUp \/ Break \/ Vanish \/ Again

Spec == Init /\ [][Next]_vars

\* The two programs run.  A timed read ends in an answer or a timeout, so it
\* is a step like any other; a connection need not break.
Fairness == WF_vars(Send) /\ WF_vars(Receive)

FairSpec == Spec /\ Fairness

-----------------------------------------------------------------------------
(* Properties.                                                             *)

\* What is under a file's final name is the whole file, wherever the
\* connection breaks and however often the transfer is repeated
\* (fileserver.cpp:299-331, getfile.cpp:197-236).
NoPartialFile == \A f \in File : target[f] \in {Absent, Size[f]}

\* The server removes a file of a download only after the client has answered
\* for it: answers are matched to files by name, however many are outstanding,
\* late or lost (fileserver.cpp:509-532, 539-575).
RemovedWasAnswered ==
  \A f \in removed : target[f] # Absent \/ f \in refused

\* The receiver takes contents for contents and frames for frames, unless it
\* could not create a file it had been sent the contents of
\* (fileserver.cpp:304, 317; getfile.cpp:207, 218).
InStep ==
  /\ rcv.pc = "astray" => refused # {}
  /\ rcv.pc = "recv" /\ toR # <<>> /\ refused = {} /\ rcv.got < Size[rcv.file]
       => Head(toR) = Chunk(rcv.file)

\* `delayed' is the number of files whose answers are yet to be read: what the
\* sender goes on to wait for, neither more nor less (putfile.cpp:171-192,
\* fileserver.cpp:500-532).
DelayedExact ==
  LET headers == Cardinality({i \in DOMAIN toR : toR[i].kind = "header"})
      inHand  == IF rcv.pc \in {"recv", "answer"} THEN 1 ELSE 0
      current == IF snd.pc \in {"open", "send"} THEN 1 ELSE 0
  IN Up /\ rcv.pc \in {"read", "recv", "answer"}
        /\ snd.pc \in {"list", "open", "send", "poll"}
       => snd.delayed + current = headers + inHand + Len(toS)

Over == snd.pc = "done" /\ rcv.pc = "done"

\* getfile::_tcpgetfiles has returned on a timeout with the connection open.
Deserted == mode = "download" /\ rcv.pc = "done" /\ Up

\* A session ends on both sides, whatever breaks or disappears, and the two
\* never wait for each other with both directions full.  Only three things
\* prevent it: a file that shrinks while it is sent, contents taken for a
\* frame, and a client that stops reading and keeps the connection open
\* (fileserver.cpp:345-410, 478-532, 590-607; getfile.cpp:120-191).
SessionEnds ==
  ~ Over ~> (Over \/ Deserted \/ snd.pc = "spin" \/ rcv.pc = "astray")

-----------------------------------------------------------------------------
(* What the comments say and the code does not do.                         *)

\* fileserver.cpp:50: a file is deleted or moved to the backup directory when
\* it has been sent successfully.
RemovedWasReceived == \A f \in removed : target[f] # Absent
=============================================================================
