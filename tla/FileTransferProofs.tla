-------------------------- MODULE FileTransferProofs --------------------------
(***************************************************************************)
(* The types and the four safety properties of FileTransfer, for any       *)
(* number of files of any size, any window and any number of sessions; and *)
(* where the names of FileNames lead to, for names and directories of any  *)
(* length.                                                                 *)
(***************************************************************************)
EXTENDS MCTransfer, FiniteSetTheorems, SequenceTheorems, FunctionTheorems, TLAPS

Item == [kind : {"header", "chunk"}, file : File]
Report == [file : File, ok : BOOLEAN]
SenderState ==
  [pc : {"list", "open", "send", "poll", "await", "spin", "done"},
   file : File \cup {NoFile}, left : Nat, delayed : Nat]
ReceiverState ==
  [pc : {"read", "recv", "answer", "astray", "done"},
   file : File \cup {NoFile}, got : Nat, ok : BOOLEAN]

WireTypes == toR \in Seq(Item) /\ toS \in Seq(Report) /\ link \in {"up", "down"}

DiskTypes ==
  /\ source \subseteq File /\ list \subseteq File
  /\ target \in [File -> Nat \cup {Absent}]
  /\ removed \subseteq File /\ refused \subseteq File

\* What the sender holds of the file it is at.
SenderTypes ==
  /\ snd \in SenderState
  /\ snd.pc \in {"open", "send"} => snd.file \in File /\ snd.left <= Size[snd.file]
  /\ snd.pc = "open" => snd.left = Size[snd.file]

\* What the receiver holds of the file it is at.
ReceiverTypes ==
  /\ rcv \in ReceiverState
  /\ rcv.pc \in {"recv", "answer"} => rcv.file \in File
  /\ rcv.pc = "recv" => rcv.got <= Size[rcv.file] /\ ~ rcv.ok

Types == WireTypes /\ DiskTypes /\ SenderTypes /\ ReceiverTypes

\* What the proofs use of the constants.
LEMMA SizeType == NoFile \notin File /\ \A f \in File : f \in Nat /\ Size[f] \in Nat
<1>1. Cardinality(File) \in Nat /\ File = 1 .. Cardinality(File)
  BY TransferAssumption, FS_CardinalityType
<1> QED
  BY <1>1, TransferAssumption DEF NoFile

-----------------------------------------------------------------------------
(* What the operators on the two streams do.                               *)

\* Taking the first item off a stream moves the others up by one.
LEMMA Taken ==
  ASSUME NEW S, NEW s \in Seq(S), s # <<>>
  PROVE  /\ Head(s) = s[1] /\ Head(s) \in S
         /\ Tail(s) \in Seq(S) /\ Len(Tail(s)) = Len(s) - 1 /\ Len(s) > 0
         /\ \A i \in 1 .. Len(s) - 1 : Tail(s)[i] = s[i + 1]
OBVIOUS

\* Putting an item on a stream leaves the others where they are.
LEMMA Put ==
  ASSUME NEW S, NEW s \in Seq(S), NEW x \in S
  PROVE  /\ Append(s, x) \in Seq(S) /\ Len(Append(s, x)) = Len(s) + 1
         /\ \A i \in 1 .. Len(s) : Append(s, x)[i] = s[i]
         /\ Append(s, x)[Len(s) + 1] = x
OBVIOUS

\* The next item of either stream.
LEMMA NextItem ==
  ASSUME WireTypes
  PROVE  /\ toR # <<>> =>
              /\ Head(toR) = toR[1] /\ Len(toR) > 0
              /\ Head(toR).kind \in {"header", "chunk"} /\ Head(toR).file \in File
              /\ Tail(toR) \in Seq(Item) /\ Len(Tail(toR)) = Len(toR) - 1
              /\ \A i \in 1 .. Len(toR) - 1 : Tail(toR)[i] = toR[i + 1]
         /\ toS # <<>> =>
              /\ Head(toS) = toS[1] /\ Len(toS) > 0
              /\ Head(toS).ok \in BOOLEAN /\ Head(toS).file \in File
              /\ Tail(toS) \in Seq(Report) /\ Len(Tail(toS)) = Len(toS) - 1
              /\ \A i \in 1 .. Len(toS) - 1 : Tail(toS)[i] = toS[i + 1]
<1>1. toR # <<>> => /\ Head(toR) \in Item
                    /\ Head(toR) = toR[1] /\ Len(toR) > 0
                    /\ Tail(toR) \in Seq(Item) /\ Len(Tail(toR)) = Len(toR) - 1
                    /\ \A i \in 1 .. Len(toR) - 1 : Tail(toR)[i] = toR[i + 1]
  BY Taken DEF WireTypes
<1>2. toS # <<>> => /\ Head(toS) \in Report
                    /\ Head(toS) = toS[1] /\ Len(toS) > 0
                    /\ Tail(toS) \in Seq(Report) /\ Len(Tail(toS)) = Len(toS) - 1
                    /\ \A i \in 1 .. Len(toS) - 1 : Tail(toS)[i] = toS[i + 1]
  BY Taken DEF WireTypes
<1> QED
  BY <1>1, <1>2 DEF Item, Report

\* What is left of a stream is a prefix of it.
LEMMA Prefix ==
  ASSUME NEW S, NEW s \in Seq(S), NEW t \in Truncated(s)
  PROVE  /\ t \in Seq(S) /\ Len(t) <= Len(s)
         /\ \A i \in 1 .. Len(t) : t[i] = s[i]
<1>1. PICK n \in 0 .. Len(s) : t = SubSeq(s, 1, n)
  BY DEF Truncated
<1>2. \A i \in 1 .. n : s[i] \in S
  OBVIOUS
<1> QED
  BY <1>1, <1>2

\* Every set of natural numbers that is not empty has a least one: an interval
\* 0 .. m that has no strict subset among those of the set.
LEMMA Least ==
  ASSUME NEW S \in SUBSET Nat, S # {}
  PROVE  \E m \in S : \A n \in S : m <= n
<1> DEFINE Upto == {0 .. m : m \in S}
<1>1. \A m \in S : 0 .. m \in FiniteSubsetsOf(Nat)
  BY FS_Interval DEF FiniteSubsetsOf
<1>2. PICK x \in Upto : \A y \in Upto : <<y, x>> \notin StrictSubsetOrdering(Nat)
  <2>1. Upto \subseteq FiniteSubsetsOf(Nat) /\ Upto # {}
    BY <1>1
  <2> HIDE DEF Upto
  <2> QED
    BY <2>1, FS_StrictSubsetOrderingWellFounded, WFMin
<1>3. PICK m \in S : x = 0 .. m
  BY <1>2
<1>4. ASSUME NEW k \in S, k < m PROVE FALSE
  <2>1. 0 .. k \in SUBSET Nat /\ 0 .. m \in SUBSET Nat /\ 0 .. k \subseteq 0 .. m
    BY <1>4
  <2>2. 0 .. k # 0 .. m
    BY <1>4
  <2>3. <<0 .. k, 0 .. m>> \in StrictSubsetOrdering(Nat)
    BY <2>1, <2>2 DEF StrictSubsetOrdering
  <2> QED
    BY <1>2, <1>3, <2>3
<1> QED
  BY <1>4

\* The file ReadDir comes to next.
LEMMA NextListed ==
  ASSUME list \subseteq File, snd.file \in File \cup {NoFile},
         {f \in list : f > snd.file} # {}
  PROVE  LET rest == {f \in list : f > snd.file}
         IN  (CHOOSE g \in rest : \A h \in rest : g <= h) \in File
<1> DEFINE rest == {f \in list : f > snd.file}
<1>1. rest \in SUBSET Nat /\ rest # {} /\ rest \subseteq File
  <2>1. Cardinality(File) \in Nat /\ File = 1 .. Cardinality(File)
    BY TransferAssumption, FS_CardinalityType
  <2> QED
    BY <2>1
<1>2. \E g \in rest : \A h \in rest : g <= h
  BY <1>1, Least
<1> HIDE DEF rest
<1>3. (CHOOSE g \in rest : \A h \in rest : g <= h) \in File
  BY <1>1, <1>2
<1> QED
  BY <1>3 DEF rest

\* Several fields of the sender change.
LEMMA SenderMoves ==
  ASSUME snd \in SenderState, NEW pc \in {"list", "open", "poll"},
         NEW f \in File \cup {NoFile}, NEW l \in Nat, NEW d \in Nat,
         snd' = [pc |-> pc, file |-> f, left |-> l, delayed |-> d]
  PROVE  /\ snd' \in SenderState /\ snd'.pc = pc /\ snd'.file = f
         /\ snd'.left = l /\ snd'.delayed = d
BY DEF SenderState

\* The sender writes the header of some file, or is at the end of the listing.
Lists ==
  /\ snd.pc = "list"
  /\ \/ snd' = [snd EXCEPT !.pc = "await"] /\ UNCHANGED toR
     \/ \E f \in File, ok \in BOOLEAN :
          /\ SendR(Header(f), ok)
          /\ snd' = IF ok THEN [snd EXCEPT !.pc = "open", !.file = f, !.left = Size[f]]
                          ELSE [snd EXCEPT !.pc = "done"]
  /\ UNCHANGED <<mode, disk, toS, link, rcv, list, session, history>>

\* It is what ListNext does, without the choice of the file.
LEMMA ListNextLists == ASSUME Types, ListNext PROVE Lists
<1> DEFINE rest == {f \in list : f > snd.file}
           f == CHOOSE g \in rest : \A h \in rest : g <= h
<1>1. CASE rest = {}
  BY <1>1 DEF ListNext, Lists
<1>2. CASE rest # {}
  <2>1. f \in File
    BY <1>2, NextListed DEF Types, DiskTypes, SenderTypes, SenderState
  <2>2. \E ok \in BOOLEAN :
          /\ SendR(Header(f), ok)
          /\ snd' = IF ok THEN [snd EXCEPT !.pc = "open", !.file = f, !.left = Size[f]]
                          ELSE [snd EXCEPT !.pc = "done"]
    BY <1>2 DEF ListNext
  <2>3. /\ snd.pc = "list"
        /\ UNCHANGED <<mode, disk, toS, link, rcv, list, session, history>>
    BY DEF ListNext
  <2> HIDE DEF f
  <2> QED
    BY <2>1, <2>2, <2>3 DEF Lists
<1> QED
  BY <1>1, <1>2

-----------------------------------------------------------------------------
(* Types.                                                                  *)

\* The types of the streams.
LEMMA WireTypesStep ==
  ASSUME Types, [Next]_vars
  PROVE  WireTypes'
<1>0. WireTypes /\ SenderTypes /\ ReceiverTypes
  BY DEF Types
<1>1. CASE ListNext
  <2>1. \/ UNCHANGED toR \/ \E x \in Item : toR' = Append(toR, x)
    BY <1>1, <1>0, ListNextLists DEF Lists, Header, SendR, Item, SenderTypes, SenderState
  <2>2. UNCHANGED <<toS, link>>
    BY <1>1, <1>0, ListNextLists DEF Lists, Header
  <2> QED
    BY <2>1, <2>2, <1>0, Put DEF WireTypes
<1>2. CASE SendOpen
  <2>1. \/ UNCHANGED wire
        \/ toR' \in Truncated(toR) /\ toS' \in Truncated(toS) /\ link' = "down"
    BY <1>2 DEF SendOpen, Close
  <2> QED
    BY <2>1, <1>0, Prefix DEF WireTypes, wire
<1>3. CASE SendChunk
  <2>1. \/ UNCHANGED toR \/ \E x \in Item : toR' = Append(toR, x)
    BY <1>3, <1>0 DEF SendChunk, Chunk, wire, SendR, Item, SenderTypes, SenderState
  <2>2. UNCHANGED <<toS, link>>
    BY <1>3, <1>0 DEF SendChunk, Chunk, wire
  <2> QED
    BY <2>1, <2>2, <1>0, Put DEF WireTypes
<1>4. CASE PollAnswer
  BY <1>4, <1>0, NextItem DEF PollAnswer, TakeAnswer, Acked, wire, WireTypes
<1>5. CASE AwaitAnswer
  BY <1>5, <1>0, NextItem DEF AwaitAnswer, TakeAnswer, Acked, wire, WireTypes
<1>6. CASE EndDownload
  <2>1. toR' \in Truncated(toR) /\ toS' \in Truncated(toS) /\ link' = "down"
    BY <1>6 DEF EndDownload, Close
  <2> QED
    BY <2>1, <1>0, Prefix DEF WireTypes
<1>7. CASE ReadFrame
  BY <1>7, <1>0, NextItem DEF ReadFrame, wire, WireTypes
<1>8. CASE ReadFails
  <2>1. \/ UNCHANGED wire
        \/ toR' \in Truncated(toR) /\ toS' \in Truncated(toS) /\ link' = "down"
    BY <1>8 DEF ReadFails, Close
  <2> QED
    BY <2>1, <1>0, Prefix DEF WireTypes, wire
<1>9. CASE RecvChunk
  BY <1>9, <1>0, NextItem DEF RecvChunk, Chunk, wire, WireTypes
<1>10. CASE WriteAnswer
  <2>1. \/ UNCHANGED toS \/ \E x \in Report : toS' = Append(toS, x)
    BY <1>10, <1>0 DEF WriteAnswer, Answer, SendS, Report, ReceiverTypes, ReceiverState
  <2>2. UNCHANGED <<toR, link>>
    BY <1>10, <1>0 DEF WriteAnswer, Answer
  <2> QED
    BY <2>1, <2>2, <1>0, Put DEF WireTypes
<1>11. CASE HangUp
  <2>1. toR' \in Truncated(toR) /\ toS' \in Truncated(toS) /\ link' = "down"
    BY <1>11 DEF HangUp, Close
  <2> QED
    BY <2>1, <1>0, Prefix DEF WireTypes
<1>12. CASE Break
  <2>1. toR' \in Truncated(toR) /\ toS' \in Truncated(toS) /\ link' = "down"
    BY <1>12 DEF Break
  <2> QED
    BY <2>1, <1>0, Prefix DEF WireTypes
<1>13. CASE Again
  BY <1>13, <1>0 DEF Again, Sender, Receiver, wire, WireTypes
<1>14. CASE UNCHANGED wire
  BY <1>14, <1>0 DEF WireTypes, wire
<1> QED
  BY <1>1, <1>2, <1>3, <1>4, <1>5, <1>6, <1>7, <1>8, <1>9, <1>10, <1>11, <1>12,
     <1>13, <1>14 DEF Next, Send, Receive, PollNothing, EndUpload, RecvFails,
     RecvEnd, Vanish, vars, wire

\* The types of the files.
LEMMA DiskTypesStep ==
  ASSUME Types, [Next]_vars
  PROVE  DiskTypes'
<1>0. DiskTypes /\ ReceiverTypes /\ WireTypes
  BY DEF Types
<1>1. CASE PollAnswer
  BY <1>1, <1>0, NextItem DEF PollAnswer, TakeAnswer, Acked, disk, history,
     DiskTypes
<1>2. CASE AwaitAnswer
  BY <1>2, <1>0, NextItem DEF AwaitAnswer, TakeAnswer, Acked, disk, history,
     DiskTypes
<1>3. CASE RecvEnd
  BY <1>3, <1>0 DEF RecvEnd, disk, history, DiskTypes, ReceiverTypes,
     ReceiverState
<1>4. CASE WriteAnswer
  BY <1>4, <1>0 DEF WriteAnswer, SendS, Up, Answer, disk, history, DiskTypes,
     ReceiverTypes, ReceiverState
<1>5. CASE Vanish
  BY <1>5, <1>0 DEF Vanish, disk, history, DiskTypes
<1>6. CASE Again
  BY <1>6, <1>0 DEF Again, Sender, Receiver, disk, history, DiskTypes
<1>7. CASE UNCHANGED <<disk, list, history>>
  BY <1>7, <1>0 DEF DiskTypes, disk, history
<1> QED
  BY <1>1, <1>2, <1>3, <1>4, <1>5, <1>6, <1>7 DEF Next, Send, Receive,
     ListNext, SendOpen, SendChunk, PollNothing, EndUpload, EndDownload,
     ReadFrame, ReadFails, RecvChunk, RecvFails, HangUp, Break, vars, disk,
     history

\* The types of the sender.
LEMMA SenderTypesStep ==
  ASSUME Types, [Next]_vars
  PROVE  SenderTypes'
<1>0. SenderTypes
  BY DEF Types
<1>1. CASE ListNext
  <2>1. CASE snd' = [snd EXCEPT !.pc = "await"] \/ snd' = [snd EXCEPT !.pc = "done"]
    BY <2>1, <1>0 DEF SenderTypes, SenderState
  <2>2. ASSUME NEW f \in File,
               snd' = [snd EXCEPT !.pc = "open", !.file = f, !.left = Size[f]]
        PROVE  SenderTypes'
    <3>1. snd' = [pc |-> "open", file |-> f, left |-> Size[f], delayed |-> snd.delayed]
      BY <2>2, <1>0 DEF SenderTypes, SenderState
    <3>2. Size[f] \in Nat /\ snd \in SenderState /\ snd.delayed \in Nat
      BY <1>0, SizeType DEF SenderTypes, SenderState
    <3>3. snd' \in SenderState /\ snd'.pc = "open" /\ snd'.file = f /\ snd'.left = Size[f]
      BY <3>1, <3>2, SenderMoves
    <3> QED
      BY <3>2, <3>3 DEF SenderTypes
  <2> QED
    BY <1>1, <2>1, <2>2, ListNextLists DEF Lists
<1>2. CASE SendOpen
  BY <1>2, <1>0, SizeType DEF SendOpen, SenderTypes, SenderState
<1>3. CASE SendChunk
  <2>1. CASE snd' = [snd EXCEPT !.pc = "spin"] \/ snd' = [snd EXCEPT !.pc = "done"]
    BY <2>1, <1>0 DEF SenderTypes, SenderState
  <2>2. CASE snd' = [snd EXCEPT !.pc = "poll", !.delayed = @ + 1]
    <3>1. snd' = [pc |-> "poll", file |-> snd.file, left |-> snd.left,
                  delayed |-> snd.delayed + 1]
      BY <2>2, <1>0 DEF SenderTypes, SenderState
    <3>2. /\ snd.file \in File \cup {NoFile} /\ snd.left \in Nat
          /\ snd.delayed + 1 \in Nat
      BY <1>0 DEF SenderTypes, SenderState
    <3> QED
      BY <3>1, <3>2, <1>0, SenderMoves DEF SenderTypes
  <2>3. CASE snd' = [snd EXCEPT !.left = @ - 1] /\ snd.left # 0 /\ snd.pc = "send"
    BY <2>3, <1>0, SizeType DEF SenderTypes, SenderState
  <2> QED
    BY <1>3, <2>1, <2>2, <2>3 DEF SendChunk
<1>4. CASE PollAnswer
  <2>1. PICK pc \in {"poll", "list"} :
             snd' = [pc |-> pc, file |-> snd.file, left |-> snd.left,
                     delayed |-> snd.delayed - 1]
    BY <1>4, <1>0 DEF PollAnswer, SenderTypes, SenderState
  <2>2. /\ snd.file \in File \cup {NoFile} /\ snd.left \in Nat
        /\ snd.delayed - 1 \in Nat
    BY <1>4, <1>0 DEF PollAnswer, SenderTypes, SenderState
  <2> QED
    BY <2>1, <2>2, <1>0, SenderMoves DEF SenderTypes
<1>5. CASE PollNothing
  BY <1>5, <1>0, SizeType DEF PollNothing, SenderTypes, SenderState
<1>6. CASE AwaitAnswer
  BY <1>6, <1>0, SizeType DEF AwaitAnswer, SenderTypes, SenderState
<1>7. CASE EndUpload
  BY <1>7, <1>0, SizeType DEF EndUpload, SenderTypes, SenderState
<1>8. CASE EndDownload
  BY <1>8, <1>0, SizeType DEF EndDownload, SenderTypes, SenderState
<1>9. CASE Again
  BY <1>9, <1>0, SizeType DEF Again, Sender, Receiver, SenderTypes, SenderState
<1>10. CASE UNCHANGED snd
  BY <1>10, <1>0 DEF SenderTypes, SenderState
<1> QED
  BY <1>1, <1>2, <1>3, <1>4, <1>5, <1>6, <1>7, <1>8, <1>9, <1>10 DEF Next,
     Send, Receive, ReadFrame, ReadFails, RecvChunk, RecvFails, RecvEnd,
     WriteAnswer, HangUp, Break, Vanish, vars

\* The types of the receiver.
LEMMA ReceiverTypesStep ==
  ASSUME Types, [Next]_vars
  PROVE  ReceiverTypes'
<1>0. ReceiverTypes /\ WireTypes
  BY DEF Types
<1>1. CASE ReadFrame
  BY <1>1, <1>0, SizeType, NextItem DEF ReadFrame, ReceiverTypes, ReceiverState
<1>2. CASE ReadFails
  BY <1>2, <1>0, SizeType DEF ReadFails, Close, ReceiverTypes, ReceiverState
<1>3. CASE RecvChunk
  BY <1>3, <1>0, SizeType DEF RecvChunk, Chunk, ReceiverTypes, ReceiverState
<1>4. CASE RecvFails
  BY <1>4, <1>0, SizeType DEF RecvFails, ReceiverTypes, ReceiverState
<1>5. CASE RecvEnd
  BY <1>5, <1>0, SizeType DEF RecvEnd, ReceiverTypes, ReceiverState
<1>6. CASE WriteAnswer
  BY <1>6, <1>0, SizeType DEF WriteAnswer, SendS, Up, Answer, ReceiverTypes,
     ReceiverState
<1>7. CASE Again
  BY <1>7, <1>0, SizeType DEF Again, Sender, Receiver, ReceiverTypes,
     ReceiverState
<1>8. CASE UNCHANGED rcv
  BY <1>8, <1>0 DEF ReceiverTypes, ReceiverState
<1> QED
  BY <1>1, <1>2, <1>3, <1>4, <1>5, <1>6, <1>7, <1>8 DEF Next, Send, Receive,
     ListNext, SendOpen, SendChunk, PollAnswer, PollNothing, AwaitAnswer,
     EndUpload, EndDownload, HangUp, Break, Vanish, vars

\* The types are inductive.
LEMMA TypesStep == ASSUME Types, [Next]_vars PROVE Types'
BY WireTypesStep, DiskTypesStep, SenderTypesStep, ReceiverTypesStep DEF Types

\* A file gets its final name when it is complete.
LEMMA NoPartialFileStep ==
  ASSUME Types, NoPartialFile, [Next]_vars
  PROVE  NoPartialFile'
<1>0. ReceiverTypes /\ DiskTypes
  BY DEF Types
<1>1. CASE RecvEnd
  BY <1>1, <1>0 DEF RecvEnd, disk, NoPartialFile, DiskTypes, ReceiverTypes,
     ReceiverState
<1>2. CASE UNCHANGED target
  BY <1>2, <1>0 DEF NoPartialFile, disk
<1> QED
  BY <1>1, <1>2 DEF Next, Send, Receive, ListNext, SendOpen, SendChunk,
     PollAnswer, PollNothing, AwaitAnswer, EndUpload, EndDownload, ReadFrame,
     ReadFails, RecvChunk, RecvFails, WriteAnswer, HangUp, Break, Vanish,
     Again, vars, disk

-----------------------------------------------------------------------------
(* Counting.                                                               *)

Headers(s) == Cardinality({i \in DOMAIN s : s[i].kind = "header"})

\* There are finitely many headers in a stream.
LEMMA HeadersFinite ==
  ASSUME NEW s \in Seq(Item)
  PROVE  /\ IsFiniteSet({i \in DOMAIN s : s[i].kind = "header"})
         /\ Headers(s) \in Nat
<1> DEFINE A == {i \in DOMAIN s : s[i].kind = "header"}
<1>1. A \in SUBSET (1 .. Len(s)) /\ Len(s) \in Nat
  OBVIOUS
<1>2. IsFiniteSet(1 .. Len(s))
  BY <1>1, FS_Interval
<1> HIDE DEF A
<1>3. IsFiniteSet(A) /\ Cardinality(A) \in Nat
  BY <1>1, <1>2, FS_Subset, FS_CardinalityType
<1> QED
  BY <1>3 DEF A, Headers

\* A header put on a stream is one more, and contents are not.
LEMMA HeadersPut ==
  ASSUME NEW s \in Seq(Item), NEW x \in Item
  PROVE  Headers(Append(s, x)) = Headers(s) + (IF x.kind = "header" THEN 1 ELSE 0)
<1> DEFINE A == {i \in DOMAIN s : s[i].kind = "header"}
           n == Len(s) + 1
           B == {i \in DOMAIN Append(s, x) : Append(s, x)[i].kind = "header"}
<1>1. DOMAIN s = 1 .. Len(s) /\ Len(s) \in Nat /\ DOMAIN Append(s, x) = 1 .. n
  BY Put
<1>2. /\ \A i \in 1 .. Len(s) : Append(s, x)[i] = s[i]
      /\ Append(s, x)[n] = x
  BY Put
<1>3. B = IF x.kind = "header" THEN A \cup {n} ELSE A
  BY <1>1, <1>2
<1>4. n \notin A
  BY <1>1
<1>5. IsFiniteSet(A) /\ Cardinality(A) \in Nat
  BY HeadersFinite DEF Headers
<1> HIDE DEF A, B, n
<1>6. Cardinality(B) = Cardinality(A) + (IF x.kind = "header" THEN 1 ELSE 0)
  <2>1. CASE x.kind = "header"
    BY <2>1, <1>3, <1>4, <1>5, FS_AddElement
  <2>2. CASE x.kind # "header"
    BY <2>2, <1>3, <1>5
  <2> QED
    BY <2>1, <2>2
<1> QED
  BY <1>6 DEF Headers, A, B

\* A header taken off a stream is one less, and contents are not.
LEMMA HeadersTaken ==
  ASSUME NEW s \in Seq(Item), s # <<>>
  PROVE  Headers(Tail(s)) = Headers(s) - (IF Head(s).kind = "header" THEN 1 ELSE 0)
<1> DEFINE A == {i \in DOMAIN s : s[i].kind = "header"}
           B == {i \in DOMAIN Tail(s) : Tail(s)[i].kind = "header"}
           shift == [i \in B |-> i + 1]
<1>1. /\ DOMAIN s = 1 .. Len(s) /\ Len(s) \in Nat /\ Len(s) > 0
      /\ DOMAIN Tail(s) = 1 .. (Len(s) - 1) /\ Head(s) = s[1]
      /\ \A i \in 1 .. Len(s) - 1 : Tail(s)[i] = s[i + 1]
  BY Taken
<1>2. B \subseteq Nat /\ A \subseteq Nat
  BY <1>1
<1>3. \A i \in B : i + 1 \in A \ {1}
  BY <1>1
<1>4. \A j \in A \ {1} : j - 1 \in B
  BY <1>1
<1>5. IsFiniteSet(A) /\ Cardinality(A) \in Nat /\ (1 \in A <=> Head(s).kind = "header")
  BY <1>1, HeadersFinite DEF Headers
<1>6. Tail(s) \in Seq(Item)
  BY Taken
<1>7. IsFiniteSet(B)
  BY <1>6, HeadersFinite
<1> HIDE DEF A, B
<1>8. shift \in Bijection(B, A \ {1})
  <2>1. shift \in [B -> A \ {1}] /\ \A i \in B : shift[i] = i + 1
    BY <1>3
  <2>2. \A i, j \in B : shift[i] = shift[j] => i = j
    BY <2>1, <1>2
  <2>3. ASSUME NEW j \in A \ {1} PROVE \E i \in B : shift[i] = j
    <3>1. j - 1 \in B /\ (j - 1) + 1 = j
      BY <1>2, <1>4
    <3> HIDE DEF shift
    <3> QED
      BY <2>1, <3>1
  <2> HIDE DEF shift
  <2> QED
    BY <2>1, <2>2, <2>3, Fun_IsBij
<1>9. ExistsBijection(B, A \ {1})
  BY <1>8 DEF ExistsBijection
<1>10. Cardinality(A \ {1}) = Cardinality(B)
  BY <1>7, <1>9, FS_Bijection
<1>11. Cardinality(A \ {1}) = Cardinality(A) - (IF Head(s).kind = "header" THEN 1 ELSE 0)
  <2>1. CASE 1 \in A
    BY <2>1, <1>5, FS_RemoveElement
  <2>2. CASE 1 \notin A
    <3>1. A \ {1} = A
      BY <2>2
    <3>2. Cardinality(A \ {1}) = Cardinality(A)
      BY <3>1
    <3> QED
      BY <3>2, <2>2, <1>5
  <2> QED
    BY <2>1, <2>2
<1> QED
  BY <1>10, <1>11 DEF Headers, A, B

\* DelayedExact, part by part.
InHand == IF rcv.pc \in {"recv", "answer"} THEN 1 ELSE 0
Current == IF snd.pc \in {"open", "send"} THEN 1 ELSE 0

Counted ==
  Up /\ rcv.pc \in {"read", "recv", "answer"}
     /\ snd.pc \in {"list", "open", "send", "poll"}
    => snd.delayed + Current = Headers(toR) + InHand + Len(toS)

\* It is DelayedExact, with its sums named.
LEMMA ExactIsCounted == DelayedExact <=> Counted
BY DEF DelayedExact, Counted, Headers, InHand, Current

\* The numbers in it are numbers.
LEMMA CountsAreNumbers ==
  ASSUME WireTypes, SenderTypes
  PROVE  Headers(toR) \in Nat /\ Len(toS) \in Nat /\ snd.delayed \in Nat
<1>1. Headers(toR) \in Nat
  BY HeadersFinite DEF WireTypes
<1>2. Len(toS) \in Nat
  BY DEF WireTypes
<1> QED
  BY <1>1, <1>2 DEF SenderTypes, SenderState

\* What putting an item on the stream to the receiver, and taking one off it,
\* does to the count.
LEMMA CountPut ==
  ASSUME WireTypes, NEW x \in Item, toR' = Append(toR, x)
  PROVE  Headers(toR') = Headers(toR) + (IF x.kind = "header" THEN 1 ELSE 0)
BY HeadersPut DEF WireTypes

\* A header taken off the stream is one less; contents are none.
LEMMA CountTaken ==
  ASSUME WireTypes, toR # <<>>, toR' = Tail(toR)
  PROVE  /\ Headers(toR') = Headers(toR) - (IF Head(toR).kind = "header" THEN 1 ELSE 0)
         /\ Head(toR).kind \in {"header", "chunk"}
BY HeadersTaken, NextItem DEF WireTypes

\* A header, a file received, an answer: each is counted once, wherever it is.
LEMMA CountedStep ==
  ASSUME Types, Counted, [Next]_vars
  PROVE  Counted'
<1>0. WireTypes /\ SenderTypes /\ ReceiverTypes
  BY DEF Types
<1>1. CASE ListNext
  <2>1. CASE snd' = [snd EXCEPT !.pc = "await"] \/ snd' = [snd EXCEPT !.pc = "done"]
    BY <2>1, <1>0 DEF Counted, SenderTypes, SenderState
  <2>2. ASSUME NEW f \in File, SendR(Header(f), TRUE), UNCHANGED <<link, toS, rcv>>,
               snd' = [snd EXCEPT !.pc = "open", !.file = f, !.left = Size[f]],
               snd.pc = "list"
        PROVE  Counted'
    <3>1. CASE Up
      <4>1. Header(f) \in Item /\ Header(f).kind = "header"
        BY DEF Header, Item
      <4>2. Headers(toR') = Headers(toR) + 1
        BY <2>2, <3>1, <4>1, <1>0, CountPut DEF SendR
      <4>3. snd'.delayed = snd.delayed /\ snd'.pc = "open"
        BY <2>2, <1>0 DEF SenderTypes, SenderState
      <4> QED
        BY <2>2, <4>2, <4>3, <1>0, CountsAreNumbers DEF Counted, InHand, Current, Up
    <3>2. CASE ~ Up
      BY <3>2, <2>2 DEF Counted, Up
    <3> QED
      BY <3>1, <3>2
  <2> QED
    BY <1>1, <2>1, <2>2, ListNextLists DEF Lists
<1>2. CASE SendOpen
  BY <1>2, <1>0, CountsAreNumbers DEF SendOpen, Close, SenderTypes,
     SenderState, wire, Up, Counted, InHand, Current
<1>3. CASE SendChunk
  <2>1. CASE snd' = [snd EXCEPT !.pc = "spin"] \/ snd' = [snd EXCEPT !.pc = "done"]
    BY <2>1, <1>0 DEF Counted, SenderTypes, SenderState
  <2>2. CASE snd' = [snd EXCEPT !.pc = "poll", !.delayed = @ + 1] /\ UNCHANGED wire
    <3>1. snd'.pc = "poll" /\ snd'.delayed = snd.delayed + 1
      BY <2>2, <1>0 DEF SenderTypes, SenderState
    <3> QED
      BY <1>3, <2>2, <3>1, CountsAreNumbers, <1>0 DEF SendChunk, Counted, InHand, Current, Up, wire
  <2>3. CASE snd' = [snd EXCEPT !.left = @ - 1] /\ SendR(Chunk(snd.file), TRUE)
             /\ UNCHANGED <<toS, link>>
    <3>1. snd'.pc = "send" /\ snd'.delayed = snd.delayed /\ snd.file \in File
      BY <1>3, <2>3, <1>0 DEF SendChunk, SenderTypes, SenderState
    <3>2. CASE Up
      <4>1. Chunk(snd.file) \in Item /\ Chunk(snd.file).kind = "chunk"
        BY <3>1 DEF Chunk, Item
      <4>2. Headers(toR') = Headers(toR)
        BY <2>3, <3>2, <4>1, <1>0, CountPut, CountsAreNumbers DEF SendR
      <4> QED
        BY <1>3, <2>3, <3>1, <4>2 DEF SendChunk, Counted, InHand, Current, Up
    <3>3. CASE ~ Up
      BY <3>3, <2>3 DEF Counted, Up
    <3> QED
      BY <3>2, <3>3
  <2> QED
    BY <1>3, <2>1, <2>2, <2>3 DEF SendChunk
<1>4. CASE PollAnswer
  BY <1>4, <1>0, CountsAreNumbers DEF PollAnswer, TakeAnswer, wire, Up,
     Counted, InHand, Current
<1>5. CASE PollNothing
  BY <1>5, <1>0, CountsAreNumbers DEF PollNothing, wire, Up, Counted, InHand,
     Current
<1>6. CASE AwaitAnswer
  BY <1>6, <1>0, CountsAreNumbers DEF AwaitAnswer, SenderTypes, SenderState,
     wire, Up, Counted, InHand, Current
<1>7. CASE EndUpload
  BY <1>7, <1>0, CountsAreNumbers DEF EndUpload, wire, Up, Counted, InHand,
     Current
<1>8. CASE EndDownload
  <2>1. ~ Up'
    BY <1>8 DEF EndDownload, Close, Up
  <2> QED
    BY <2>1 DEF Counted
<1>9. CASE ReadFrame
  <2>1. toR # <<>> /\ toR' = Tail(toR) /\ rcv.pc = "read" /\ UNCHANGED <<snd, toS, link>>
    BY <1>9 DEF ReadFrame
  <2>2. CASE Head(toR).kind = "chunk"
    BY <1>9, <2>2, <1>0 DEF ReadFrame, Counted, ReceiverTypes, ReceiverState
  <2>3. CASE Head(toR).kind # "chunk"
    <3>1. rcv'.pc \in {"recv", "answer"}
      BY <1>9, <2>3 DEF ReadFrame
    <3>2. Headers(toR') = Headers(toR) - 1
      BY <2>1, <2>3, <1>0, CountTaken
    <3> QED
      BY <2>1, <3>1, <3>2, <1>0, CountsAreNumbers DEF Counted, InHand, Current, Up
  <2> QED
    BY <2>2, <2>3
<1>10. CASE ReadFails
  BY <1>10, <1>0, CountsAreNumbers DEF ReadFails, Close, wire, Up, Counted,
     InHand, Current
<1>11. CASE RecvChunk
  <2>1. toR # <<>> /\ toR' = Tail(toR) /\ rcv.pc = "recv" /\ UNCHANGED <<snd, toS, link>>
    BY <1>11 DEF RecvChunk
  <2>2. CASE Head(toR) = Chunk(rcv.file)
    <3>1. rcv'.pc = "recv"
      BY <1>11, <2>1, <2>2, <1>0 DEF RecvChunk, ReceiverTypes, ReceiverState
    <3>2. Headers(toR') = Headers(toR)
      BY <2>1, <2>2, <1>0, CountTaken, CountsAreNumbers DEF Chunk
    <3> QED
      BY <2>1, <3>1, <3>2 DEF Counted, InHand, Current, Up
  <2>3. CASE Head(toR) # Chunk(rcv.file)
    BY <1>11, <2>3, <1>0 DEF RecvChunk, Counted, ReceiverTypes, ReceiverState
  <2> QED
    BY <2>2, <2>3
<1>12. CASE RecvFails
  BY <1>12, <1>0, CountsAreNumbers DEF RecvFails, wire, Up, Counted, InHand,
     Current
<1>13. CASE RecvEnd
  BY <1>13, <1>0, CountsAreNumbers DEF RecvEnd, wire, Up, Counted, InHand,
     Current
<1>14. CASE WriteAnswer
  BY <1>14, <1>0, CountsAreNumbers DEF WriteAnswer, SendS, wire, Up, Counted,
     InHand, Current
<1>15. CASE HangUp
  <2>1. ~ Up'
    BY <1>15 DEF HangUp, Close, Up
  <2> QED
    BY <2>1 DEF Counted
<1>16. CASE Break
  <2>1. ~ Up'
    BY <1>16 DEF Break, Up
  <2> QED
    BY <2>1 DEF Counted
<1>17. CASE Again
  <2>1. toR' = <<>> /\ toS' = <<>> /\ snd' = Sender /\ rcv' = Receiver
    BY <1>17 DEF Again
  <2>2. Headers(<<>>) = 0
    <3>1. {i \in DOMAIN <<>> : <<>>[i].kind = "header"} = {}
      OBVIOUS
    <3> QED
      BY <3>1, FS_EmptySet DEF Headers
  <2> QED
    BY <2>1, <2>2 DEF Counted, InHand, Current, Sender, Receiver
<1>18. CASE UNCHANGED <<wire, snd, rcv>>
  BY <1>18, <1>0 DEF Counted, InHand, Current, wire, Up
<1> QED
  BY <1>1, <1>2, <1>3, <1>4, <1>5, <1>6, <1>7, <1>8, <1>9, <1>10, <1>11, <1>12,
     <1>13, <1>14, <1>15, <1>16, <1>17, <1>18 DEF Next, Send, Receive, Vanish,
     vars, wire, Up

-----------------------------------------------------------------------------
(* Answers.                                                                *)

\* What an answer says of its file is so.
Reported(a) ==
  IF a.ok THEN target[a.file] # Absent ELSE a.file \in refused

Told == \A i \in DOMAIN toS : Reported(toS[i])

AnswerIsTrue == rcv.pc = "answer" /\ rcv.ok => target[rcv.file] # Absent

Answered == Told /\ AnswerIsTrue /\ RemovedWasAnswered

\* A file that has been received, or refused, stays so.
Lasting ==
  /\ \A f \in File : target[f] # Absent => target'[f] # Absent
  /\ refused \subseteq refused'

\* No step takes a file back.
LEMMA FilesLast == ASSUME Types, [Next]_vars PROVE Lasting
<1>0. DiskTypes /\ ReceiverTypes
  BY DEF Types
<1>1. CASE RecvEnd
  BY <1>1, <1>0 DEF RecvEnd, Lasting, history, DiskTypes, ReceiverTypes, ReceiverState,
     Absent
<1>2. CASE WriteAnswer
  BY <1>2 DEF WriteAnswer, Lasting, disk
<1>3. CASE UNCHANGED <<target, refused>>
  BY <1>3 DEF Lasting
<1> QED
  BY <1>1, <1>2, <1>3 DEF Next, Send, Receive, ListNext, SendOpen, SendChunk,
     PollAnswer, PollNothing, AwaitAnswer, EndUpload, EndDownload, ReadFrame,
     ReadFails, RecvChunk, RecvFails, HangUp, Break, Vanish, Again, vars, disk,
     history

\* The answers in flight are those there were, or one more.
LEMMA AnswersMove ==
  ASSUME Types, [Next]_vars
  PROVE  \/ toS' = toS \/ toS' \in Truncated(toS) \/ toS' = <<>>
         \/ toS # <<>> /\ toS' = Tail(toS)
         \/ WriteAnswer /\ toS' = Append(toS, Answer(rcv.file, rcv.ok))
BY DEF Next, Send, Receive, ListNext, SendOpen, SendChunk, PollAnswer,
   PollNothing, AwaitAnswer, EndUpload, EndDownload, ReadFrame, ReadFails,
   RecvChunk, RecvFails, RecvEnd, WriteAnswer, HangUp, Break, Vanish, Again,
   vars, wire, TakeAnswer, SendS, Close

\* An answer in flight stays true, and the next one is.
LEMMA ToldStep ==
  ASSUME Types, Told, AnswerIsTrue, [Next]_vars
  PROVE  Told'
<1>0. /\ WireTypes /\ ReceiverTypes /\ WireTypes' /\ Lasting
      /\ DOMAIN toS = 1 .. Len(toS) /\ DOMAIN toS' = 1 .. Len(toS')
      /\ Len(toS) \in Nat
  BY TypesStep, FilesLast DEF Types, WireTypes
<1>1. ASSUME NEW i \in DOMAIN toS'
      PROVE  \/ \E j \in DOMAIN toS : toS'[i] = toS[j]
             \/ WriteAnswer /\ toS'[i] = Answer(rcv.file, rcv.ok)
  <2>1. CASE toS' \in Truncated(toS)
    BY <2>1, <1>0, Prefix DEF WireTypes
  <2>2. CASE toS # <<>> /\ toS' = Tail(toS)
    <3>1. i + 1 \in DOMAIN toS /\ toS'[i] = toS[i + 1]
      BY <2>2, <1>0, NextItem
    <3> QED
      BY <3>1
  <2>3. CASE WriteAnswer /\ toS' = Append(toS, Answer(rcv.file, rcv.ok))
    <3>1. Answer(rcv.file, rcv.ok) \in Report
      BY <2>3, <1>0 DEF WriteAnswer, Answer, Report, ReceiverTypes, ReceiverState
    <3>2. \/ i \in DOMAIN toS /\ toS'[i] = toS[i]
          \/ toS'[i] = Answer(rcv.file, rcv.ok)
      BY <2>3, <3>1, <1>0, Put DEF WireTypes
    <3> QED
      BY <2>3, <3>2
  <2> QED
    BY <2>1, <2>2, <2>3, AnswersMove
<1>2. ASSUME NEW a \in Report, Reported(a) PROVE Reported(a)'
  BY <1>0, <1>2 DEF Report, Reported, Lasting
<1>3. ASSUME NEW a \in Report, WriteAnswer, a = Answer(rcv.file, rcv.ok)
      PROVE  Reported(a)'
  <2>1. a.file = rcv.file /\ a.ok = rcv.ok /\ rcv.pc = "answer" /\ rcv.file \in File
    BY <1>0, <1>3 DEF WriteAnswer, Answer, ReceiverTypes
  <2>2. target' = target /\ refused' = IF rcv.ok THEN refused ELSE refused \cup {rcv.file}
    BY <1>3 DEF WriteAnswer, disk
  <2> QED
    BY <2>1, <2>2 DEF Reported, AnswerIsTrue
<1>4. ASSUME NEW i \in DOMAIN toS', NEW a \in Report, a = toS'[i] PROVE Reported(a)'
  <2>1. CASE WriteAnswer /\ toS'[i] = Answer(rcv.file, rcv.ok)
    BY <2>1, <1>3, <1>4
  <2>2. ASSUME NEW j \in DOMAIN toS, toS'[i] = toS[j] PROVE Reported(a)'
    BY <2>2, <1>2, <1>4 DEF Told
  <2> QED
    BY <2>1, <2>2, <1>1
<1>5. \A i \in DOMAIN toS' : toS'[i] \in Report
  BY <1>0 DEF WireTypes
<1> QED
  BY <1>4, <1>5 DEF Told, Reported

\* The receiver has the file it is about to answer for.
LEMMA AnswerIsTrueStep ==
  ASSUME Types, AnswerIsTrue, [Next]_vars
  PROVE  AnswerIsTrue'
<1>0. ReceiverTypes /\ DiskTypes /\ WireTypes
  BY DEF Types
<1>1. CASE ReadFrame
  BY <1>1, <1>0 DEF ReadFrame, disk, AnswerIsTrue
<1>2. CASE ReadFails
  BY <1>2, <1>0 DEF ReadFails, disk, AnswerIsTrue, ReceiverTypes, ReceiverState
<1>3. CASE RecvChunk
  BY <1>3, <1>0 DEF RecvChunk, disk, AnswerIsTrue, ReceiverTypes, ReceiverState
<1>4. CASE RecvFails
  BY <1>4, <1>0 DEF RecvFails, disk, AnswerIsTrue, ReceiverTypes, ReceiverState
<1>5. CASE RecvEnd
  BY <1>5, <1>0 DEF RecvEnd, disk, AnswerIsTrue, DiskTypes, ReceiverTypes,
     ReceiverState, Absent
<1>6. CASE WriteAnswer
  BY <1>6, <1>0 DEF WriteAnswer, disk, AnswerIsTrue, ReceiverTypes,
     ReceiverState
<1>7. CASE Again
  BY <1>7, <1>0 DEF Again, Sender, Receiver, disk, AnswerIsTrue
<1>8. CASE UNCHANGED <<rcv, target>>
  BY <1>8, <1>0 DEF AnswerIsTrue, disk
<1> QED
  BY <1>1, <1>2, <1>3, <1>4, <1>5, <1>6, <1>7, <1>8 DEF Next, Send, Receive,
     ListNext, SendOpen, SendChunk, PollAnswer, PollNothing, AwaitAnswer,
     EndUpload, EndDownload, HangUp, Break, Vanish, vars, disk

\* The file that is removed is that of an answer.
LEMMA RemovedStep ==
  ASSUME Types, Told, RemovedWasAnswered, [Next]_vars
  PROVE  RemovedWasAnswered'
<1>0. WireTypes /\ DiskTypes /\ Lasting
  BY FilesLast DEF Types
<1>1. CASE PollAnswer
  <2>1. \/ removed' = removed
        \/ toS # <<>> /\ removed' = removed \cup {Head(toS).file}
    BY <1>1 DEF PollAnswer, TakeAnswer, Acked
  <2>2. toS # <<>> => Head(toS).file \in File /\ Reported(Head(toS))
    <3>1. toS # <<>> => 1 \in DOMAIN toS /\ Head(toS) = toS[1] /\ Head(toS).file \in File
      BY <1>0, NextItem DEF WireTypes
    <3> QED
      BY <3>1 DEF Told
  <2> QED
    BY <2>1, <2>2, <1>0 DEF RemovedWasAnswered, Reported, Lasting, DiskTypes
<1>2. CASE AwaitAnswer
  <2>1. \/ removed' = removed
        \/ toS # <<>> /\ removed' = removed \cup {Head(toS).file}
    BY <1>2 DEF AwaitAnswer, TakeAnswer, Acked
  <2>2. toS # <<>> => Head(toS).file \in File /\ Reported(Head(toS))
    <3>1. toS # <<>> => 1 \in DOMAIN toS /\ Head(toS) = toS[1] /\ Head(toS).file \in File
      BY <1>0, NextItem DEF WireTypes
    <3> QED
      BY <3>1 DEF Told
  <2> QED
    BY <2>1, <2>2, <1>0 DEF RemovedWasAnswered, Reported, Lasting, DiskTypes
<1>3. CASE UNCHANGED removed
  BY <1>3, <1>0 DEF RemovedWasAnswered, Lasting, DiskTypes
<1> QED
  BY <1>1, <1>2, <1>3 DEF Next, Send, Receive, ListNext, SendOpen, SendChunk,
     PollNothing, EndUpload, EndDownload, ReadFrame, ReadFails, RecvChunk,
     RecvFails, RecvEnd, WriteAnswer, HangUp, Break, Vanish, Again, vars,
     history

-----------------------------------------------------------------------------
(* The stream to the receiver.                                             *)

\* The contents of file f start after position h: there is its header, or was,
\* when the receiver is at its contents.
StartsAt(h, f) ==
  \/ h \in DOMAIN toR /\ toR[h] = Header(f)
  \/ rcv.pc = "recv" /\ rcv.file = f /\ h = - rcv.got

\* Those contents, and then a header, as far as the stream goes.
Follows(h, f) ==
  \A k \in DOMAIN toR :
    /\ h < k /\ k <= h + Size[f] => toR[k] = Chunk(f)
    /\ k = h + Size[f] + 1 => toR[k].kind = "header"

Framed == \A h \in Int, f \in File : StartsAt(h, f) => Follows(h, f)

\* A receiver that awaits a header is to find one.
AtHeader ==
  rcv.pc \in {"read", "answer"} /\ toR # <<>> => toR[1].kind = "header"

\* The sender is amid the contents that end the stream, or behind all of them.
AtEnd ==
  IF snd.pc \in {"open", "send"} /\ snd.left > 0
  THEN \E h \in Int : /\ StartsAt(h, snd.file)
                      /\ h + Size[snd.file] = Len(toR) + snd.left
  ELSE snd.pc \in {"list", "open", "send", "poll"} =>
         \A h \in Int, f \in File : StartsAt(h, f) => h + Size[f] <= Len(toR)

\* Nothing has made the receiver pass over contents.
Clean == refused = {} /\ rcv.pc # "done" /\ (rcv.pc = "answer" => rcv.ok)

InFrame == rcv.pc # "astray" /\ Framed /\ AtHeader /\ (Up => AtEnd)

Stream == Clean => InFrame

\* Two files do not overlap: a start that is not the one the stream ends in has
\* its contents before it.
LEMMA Apart ==
  ASSUME WireTypes, ReceiverTypes, Framed,
         NEW i \in Int, NEW g \in File, StartsAt(i, g),
         NEW j \in Int, NEW f \in File, StartsAt(j, f),
         Len(toR) <= j + Size[f]
  PROVE  (i = j /\ g = f) \/ (i + Size[g] < j /\ j <= Len(toR))
<1>1. /\ DOMAIN toR = 1 .. Len(toR) /\ Len(toR) \in Nat
      /\ rcv.got \in Nat
      /\ Size[f] \in Nat /\ Size[g] \in Nat
  BY SizeType DEF WireTypes, ReceiverTypes, ReceiverState
<1>2. Follows(i, g) /\ Follows(j, f)
  BY DEF Framed
<1>3. \/ j \in DOMAIN toR /\ toR[j] = Header(f)
      \/ j <= 0 /\ rcv.pc = "recv" /\ rcv.file = f /\ j = - rcv.got
  BY <1>1 DEF StartsAt
<1>4. \/ i \in DOMAIN toR /\ toR[i] = Header(g)
      \/ i <= 0 /\ rcv.pc = "recv" /\ rcv.file = g /\ i = - rcv.got
  BY <1>1 DEF StartsAt
<1>5. \A a, b : Header(a) # Chunk(b) /\ (Header(a) = Header(b) => a = b)
  BY DEF Header, Chunk
<1>6. CASE i = j
  BY <1>1, <1>3, <1>4, <1>5, <1>6
<1>7. CASE j < i
  <2>1. i \in DOMAIN toR /\ toR[i] = Header(g)
    BY <1>1, <1>3, <1>4, <1>7
  <2>2. toR[i] = Chunk(f)
    BY <1>1, <1>2, <1>7, <2>1 DEF Follows
  <2> QED
    BY <1>5, <2>1, <2>2
<1>8. CASE i < j
  <2>1. j \in DOMAIN toR /\ toR[j] = Header(f)
    BY <1>1, <1>3, <1>4, <1>8
  <2>2. ~ (j <= i + Size[g])
    BY <1>1, <1>2, <1>5, <1>8, <2>1 DEF Follows
  <2> QED
    BY <1>1, <2>1, <2>2
<1> QED
  BY <1>6, <1>7, <1>8

\* Where what is left of the stream is where it was, or one place further up,
\* so is what follows each start.
LEMMA FramedMoves ==
  ASSUME Types, Types', Framed, NEW d \in {0, 1},
         \A k \in DOMAIN toR' : k + d \in DOMAIN toR /\ toR'[k] = toR[k + d],
         \A h \in Int, f \in File : StartsAt(h, f)' => StartsAt(h + d, f)
  PROVE  Framed'
<1> SUFFICES ASSUME NEW h \in Int, NEW f \in File, StartsAt(h, f)',
                    NEW k \in DOMAIN toR'
             PROVE  /\ h < k /\ k <= h + Size[f] => toR'[k] = Chunk(f)
                    /\ k = h + Size[f] + 1 => toR'[k].kind = "header"
  BY DEF Framed, Follows
<1>1. Size[f] \in Nat /\ k \in Nat /\ d \in Int /\ h + d \in Int
  BY SizeType DEF Types, WireTypes
<1>2. Follows(h + d, f) /\ k + d \in DOMAIN toR /\ toR'[k] = toR[k + d]
  BY <1>1 DEF Framed
<1> QED
  BY <1>1, <1>2 DEF Follows

\* A step that takes nothing off the stream, and puts nothing on it.
LEMMA StreamCut ==
  ASSUME Types, Types', InFrame, UNCHANGED rcv,
         toR' = toR \/ toR' \in Truncated(toR)
  PROVE  /\ Framed' /\ AtHeader'
         /\ \A h \in Int, f \in File : StartsAt(h, f)' => StartsAt(h, f)
<1>1. /\ Len(toR') <= Len(toR) /\ Len(toR) \in Nat /\ Len(toR') \in Nat
      /\ DOMAIN toR = 1 .. Len(toR) /\ DOMAIN toR' = 1 .. Len(toR')
      /\ \A k \in DOMAIN toR' : k \in DOMAIN toR /\ toR'[k] = toR[k]
  BY Prefix DEF Types, WireTypes
<1>2. \A h \in Int, f \in File : StartsAt(h, f)' => StartsAt(h, f)
  BY <1>1 DEF StartsAt
<1>3. /\ \A k \in DOMAIN toR' : k + 0 \in DOMAIN toR /\ toR'[k] = toR[k + 0]
      /\ \A h \in Int, f \in File : StartsAt(h, f)' => StartsAt(h + 0, f)
  BY <1>1, <1>2
<1>4. Framed'
  BY <1>3, FramedMoves DEF InFrame
<1>5. toR' # <<>> => 1 \in DOMAIN toR' /\ toR # <<>>
  BY <1>1 DEF Types, WireTypes
<1> QED
  BY <1>1, <1>2, <1>4, <1>5 DEF InFrame, AtHeader

\* A step of the sender that puts nothing on the stream.
LEMMA SenderMovesInFrame ==
  ASSUME Types, Types', InFrame, UNCHANGED <<rcv, toR, link>>,
         \/ UNCHANGED snd
         \/ snd'.pc \in {"await", "spin", "done"}
         \/ snd.pc = "open" /\ snd'.pc = "send" /\ UNCHANGED <<snd.file, snd.left>>
         \/ snd.pc = "send" /\ snd.left = 0 /\ snd'.pc = "poll"
         \/ snd.pc = "poll" /\ snd'.pc \in {"poll", "list"}
  PROVE  InFrame'
<1>1. Framed' /\ AtHeader' /\ rcv'.pc # "astray"
  BY StreamCut DEF InFrame
<1>2. \A h \in Int, f \in File : StartsAt(h, f)' <=> StartsAt(h, f)
  BY DEF StartsAt
<1>3. ASSUME Up, AtEnd PROVE AtEnd'
  <2>0. snd.pc \in {"open", "send"} => snd.file \in File
    BY DEF Types, SenderTypes
  <2>1. CASE UNCHANGED <<snd.pc, snd.file, snd.left>>
    BY <2>0, <2>1, <1>2, <1>3 DEF AtEnd
  <2>2. CASE snd'.pc \in {"await", "spin", "done"}
    BY <2>2 DEF AtEnd
  <2>3. CASE snd.pc = "open" /\ snd'.pc = "send" /\ UNCHANGED <<snd.file, snd.left>>
    BY <2>0, <2>3, <1>2, <1>3 DEF AtEnd
  <2>4. CASE /\ snd'.pc \in {"poll", "list"}
             /\ ~ (snd.pc \in {"open", "send"} /\ snd.left > 0)
             /\ snd.pc \in {"send", "poll"}
    BY <2>4, <1>2, <1>3 DEF AtEnd
  <2> QED
    BY <2>1, <2>2, <2>3, <2>4
<1> QED
  BY <1>1, <1>3 DEF InFrame, Up

\* The connection goes.
LEMMA CutInFrame ==
  ASSUME Types, Types', InFrame, UNCHANGED rcv, ~ Up',
         toR' = toR \/ toR' \in Truncated(toR)
  PROVE  InFrame'
BY StreamCut DEF InFrame

\* A header, behind all of the contents.
LEMMA HeaderInFrame ==
  ASSUME Types, Types', InFrame, Up, UNCHANGED <<rcv, link>>, snd.pc = "list",
         NEW f \in File, toR' = Append(toR, Header(f)),
         snd'.pc = "open", snd'.file = f, snd'.left = Size[f]
  PROVE  InFrame'
<1>0. PICK n \in Nat : n = Len(toR) + 1
  BY DEF Types, WireTypes
<1>1. /\ Len(toR) \in Nat /\ DOMAIN toR = 1 .. Len(toR) /\ DOMAIN toR' = 1 .. n
      /\ Len(toR') = n /\ toR'[n] = Header(f)
      /\ \A k \in DOMAIN toR : toR'[k] = toR[k]
  <2>1. Header(f) \in Item /\ toR \in Seq(Item)
    BY DEF Header, Item, Types, WireTypes
  <2> QED
    BY <2>1, <1>0, Put
<1>2. n \in Nat /\ n > 0 /\ n = Len(toR) + 1 /\ n \notin DOMAIN toR
  BY <1>0, <1>1
<1>3. \A g \in File : Size[g] \in Nat
  BY SizeType
<1>4. Header(f).kind = "header"
  BY DEF Header
<1>5. \A h \in Int, g \in File : StartsAt(h, g)' =>
        StartsAt(h, g) \/ (h = n /\ g = f)
  BY <1>1, <1>2 DEF StartsAt, Header
<1>6. \A h \in Int, g \in File : StartsAt(h, g) => h + Size[g] <= Len(toR) /\ Follows(h, g)
  BY DEF InFrame, Framed, AtEnd
<1>7. Framed'
  <2> SUFFICES ASSUME NEW h \in Int, NEW g \in File, StartsAt(h, g)',
                      NEW k \in DOMAIN toR'
               PROVE  /\ h < k /\ k <= h + Size[g] => toR'[k] = Chunk(g)
                      /\ k = h + Size[g] + 1 => toR'[k].kind = "header"
    BY DEF Framed, Follows
  <2>1. CASE h = n
    BY <2>1, <1>1, <1>2, <1>3
  <2>2. CASE StartsAt(h, g) /\ k \in DOMAIN toR
    BY <2>2, <1>1, <1>6 DEF Follows
  <2>3. CASE StartsAt(h, g) /\ k = n
    BY <2>3, <1>1, <1>2, <1>3, <1>4, <1>6
  <2> QED
    BY <2>1, <2>2, <2>3, <1>1, <1>2, <1>5
<1>8. AtHeader'
  <2>1. CASE toR = <<>>
    BY <2>1, <1>1, <1>2, <1>4 DEF AtHeader
  <2>2. CASE toR # <<>>
    <3>1. 1 \in DOMAIN toR
      BY <2>2 DEF Types, WireTypes
    <3> QED
      BY <2>2, <3>1, <1>1 DEF InFrame, AtHeader
  <2> QED
    BY <2>1, <2>2
<1>9. AtEnd'
  <2>1. CASE Size[f] > 0
    <3>1. StartsAt(n, f)'
      BY <1>1, <1>2 DEF StartsAt
    <3> QED
      BY <2>1, <3>1, <1>1, <1>2, <1>3 DEF AtEnd
  <2>2. CASE Size[f] = 0
    <3>1. \A h \in Int, g \in File : StartsAt(h, g)' => h + Size[g] <= n
      BY <2>2, <1>1, <1>2, <1>3, <1>5, <1>6
    <3> QED
      BY <2>2, <3>1, <1>1 DEF AtEnd
  <2> QED
    BY <2>1, <2>2, <1>3
<1> QED
  BY <1>7, <1>8, <1>9 DEF InFrame

\* Contents, behind those of the same file.
LEMMA ChunkInFrame ==
  ASSUME Types, Types', InFrame, Up, UNCHANGED <<rcv, link>>,
         snd.pc = "send", NEW f \in File, snd.file = f,
         NEW left \in Nat, snd.left = left, left > 0,
         toR' = Append(toR, Chunk(f)),
         snd'.pc = "send", snd'.file = f, snd'.left = left - 1
  PROVE  InFrame'
<1>0. PICK n \in Nat : n = Len(toR) + 1
  BY DEF Types, WireTypes
<1>1. \A g \in File : Size[g] \in Nat
  BY SizeType
<1>2. PICK j \in Int : StartsAt(j, f) /\ j + Size[f] = Len(toR) + left
  BY DEF InFrame, AtEnd
<1>3. /\ Len(toR) \in Nat /\ DOMAIN toR = 1 .. Len(toR) /\ DOMAIN toR' = 1 .. n
      /\ Len(toR') = n /\ toR'[n] = Chunk(f)
      /\ \A k \in DOMAIN toR : toR'[k] = toR[k]
  <2>1. Chunk(f) \in Item /\ toR \in Seq(Item)
    BY DEF Chunk, Item, Types, WireTypes
  <2> QED
    BY <2>1, <1>0, Put
<1>4. \A h, g : Header(g) # Chunk(h)
  BY DEF Header, Chunk
<1>5. n > 0 /\ n = Len(toR) + 1 /\ n \notin DOMAIN toR
  BY <1>0, <1>3
<1>6. \A h \in Int, g \in File : StartsAt(h, g)' => StartsAt(h, g)
  BY <1>3, <1>4, <1>5 DEF StartsAt
<1>7. \A h \in Int, g \in File : StartsAt(h, g) => Follows(h, g) /\
        ((h = j /\ g = f) \/ (h + Size[g] < j /\ j <= Len(toR)))
  <2>1. Framed /\ WireTypes /\ ReceiverTypes /\ Len(toR) <= j + Size[f]
    BY <1>1, <1>2, <1>3 DEF InFrame, Types
  <2> QED
    BY <2>1, <1>1, <1>2, Apart DEF Framed
<1>8. Framed'
  <2> SUFFICES ASSUME NEW h \in Int, NEW g \in File, StartsAt(h, g)',
                      NEW k \in DOMAIN toR'
               PROVE  /\ h < k /\ k <= h + Size[g] => toR'[k] = Chunk(g)
                      /\ k = h + Size[g] + 1 => toR'[k].kind = "header"
    BY DEF Framed, Follows
  <2>1. StartsAt(h, g) /\ Follows(h, g)
    BY <1>6, <1>7
  <2>2. CASE k \in DOMAIN toR
    BY <2>1, <2>2, <1>3 DEF Follows
  <2>3. CASE k = n /\ h = j /\ g = f
    BY <2>3, <1>1, <1>2, <1>3, <1>5
  <2>4. CASE k = n /\ h + Size[g] < j /\ j <= Len(toR)
    BY <2>4, <1>1, <1>3, <1>5
  <2> QED
    BY <2>1, <2>2, <2>3, <2>4, <1>3, <1>5, <1>7
<1>9. AtHeader'
  <2>1. CASE toR = <<>>
    <3>1. Len(toR) = 0 /\ j \notin DOMAIN toR
      BY <2>1, <1>3
    <3>2. rcv.pc = "recv"
      BY <3>1, <1>2 DEF StartsAt
    <3> QED
      BY <3>2 DEF AtHeader
  <2>2. CASE toR # <<>>
    <3>1. 1 \in DOMAIN toR
      BY <2>2 DEF Types, WireTypes
    <3> QED
      BY <2>2, <3>1, <1>3 DEF InFrame, AtHeader
  <2> QED
    BY <2>1, <2>2
<1>10. AtEnd'
  <2>1. StartsAt(j, f)'
    BY <1>2, <1>3 DEF StartsAt
  <2>2. CASE left > 1
    BY <2>1, <2>2, <1>1, <1>2, <1>3, <1>4, <1>5 DEF AtEnd
  <2>3. CASE left = 1
    <3>1. \A h \in Int, g \in File : StartsAt(h, g)' => h + Size[g] <= n
      BY <2>3, <1>1, <1>2, <1>3, <1>5, <1>6, <1>7
    <3> QED
      BY <2>3, <3>1, <1>3, <1>4 DEF AtEnd
  <2> QED
    BY <2>2, <2>3, <1>1
<1> QED
  BY <1>8, <1>9, <1>10 DEF InFrame

\* The stream moves up by one place, and the receiver with it.
LEMMA ShiftInFrame ==
  ASSUME Types, Types', InFrame, UNCHANGED <<snd, link>>,
         toR # <<>>, toR' = Tail(toR), rcv'.pc = "recv",
         \A h \in Int, f \in File : StartsAt(h, f)' <=> StartsAt(h + 1, f)
  PROVE  InFrame'
<1>1. /\ Len(toR) \in Nat /\ DOMAIN toR = 1 .. Len(toR)
      /\ Len(toR') = Len(toR) - 1 /\ DOMAIN toR' = 1 .. Len(toR')
      /\ \A k \in DOMAIN toR' : k + 1 \in DOMAIN toR /\ toR'[k] = toR[k + 1]
  BY NextItem DEF Types, WireTypes
<1>2. Framed'
  BY <1>1, FramedMoves DEF InFrame
<1>3. ASSUME Up, AtEnd PROVE AtEnd'
  <2>1. CASE snd.pc \in {"open", "send"} /\ snd.left > 0
    <3>1. PICK g \in File : g = snd.file
      BY <2>1 DEF Types, SenderTypes
    <3>2. Size[g] \in Nat /\ snd.left \in Nat
      BY SizeType DEF Types, SenderTypes, SenderState
    <3>3. PICK h \in Int : StartsAt(h, g) /\ h + Size[g] = Len(toR) + snd.left
      BY <1>3, <2>1, <3>1 DEF AtEnd
    <3>4. PICK i \in Int : i + 1 = h
      BY <3>3
    <3>5. StartsAt(i + 1, g)
      BY <3>3, <3>4
    <3>6. StartsAt(i, g)'
      BY <3>5
    <3>7. i + Size[g] = Len(toR') + snd.left
      BY <3>2, <3>3, <3>4, <1>1
    <3> QED
      BY <2>1, <3>1, <3>6, <3>7 DEF AtEnd
  <2>2. CASE /\ ~ (snd.pc \in {"open", "send"} /\ snd.left > 0)
             /\ snd.pc \in {"list", "open", "send", "poll"}
    <3>1. \A h \in Int, f \in File : StartsAt(h, f)' => h + Size[f] <= Len(toR')
      <4> SUFFICES ASSUME NEW h \in Int, NEW f \in File, StartsAt(h, f)'
                   PROVE  h + Size[f] <= Len(toR')
        OBVIOUS
      <4>1. h + 1 + Size[f] <= Len(toR) /\ Size[f] \in Nat
        BY <1>3, <2>2, SizeType DEF AtEnd
      <4> QED
        BY <4>1, <1>1
    <3> QED
      BY <2>2, <3>1 DEF AtEnd
  <2> QED
    BY <2>1, <2>2 DEF AtEnd
<1> QED
  BY <1>2, <1>3 DEF InFrame, AtHeader, Up

\* The receiver takes a header for a header.
LEMMA ReadFrameInFrame ==
  ASSUME Types, Types', InFrame, ReadFrame, Clean'
  PROVE  InFrame'
<1>1. /\ rcv.pc = "read" /\ toR # <<>> /\ toR' = Tail(toR)
      /\ UNCHANGED <<snd, link>>
  BY DEF ReadFrame
<1>2. /\ Head(toR) = toR[1] /\ Head(toR) \in Item /\ Head(toR).kind = "header"
      /\ Len(toR) > 0 /\ Len(toR) \in Nat /\ DOMAIN toR = 1 .. Len(toR)
      /\ Len(toR') = Len(toR) - 1 /\ DOMAIN toR' = 1 .. Len(toR')
      /\ \A k \in DOMAIN toR' : toR'[k] = toR[k + 1]
  BY <1>1, NextItem DEF InFrame, AtHeader, Types, WireTypes
<1>3. PICK g \in File : g = Head(toR).file
  BY <1>2 DEF Item
<1>4. rcv' = [pc |-> "recv", file |-> g, got |-> 0, ok |-> FALSE]
  <2>1. PICK opened \in BOOLEAN :
          rcv' = [pc |-> IF opened THEN "recv" ELSE "answer", file |-> g,
                  got |-> 0, ok |-> FALSE]
    BY <1>2, <1>3 DEF ReadFrame
  <2> QED
    BY <2>1 DEF Clean
<1>5. toR[1] = Header(g)
  BY <1>2, <1>3 DEF Item, Header
<1>6. \A h \in Int, f \in File : StartsAt(h, f)' <=> StartsAt(h + 1, f)
  <2> SUFFICES ASSUME NEW h \in Int, NEW f \in File
               PROVE  StartsAt(h, f)' <=> StartsAt(h + 1, f)
    OBVIOUS
  <2>1. StartsAt(h, f)' <=> \/ h \in DOMAIN toR' /\ toR'[h] = Header(f)
                            \/ f = g /\ h = 0
    BY <1>4 DEF StartsAt
  <2>2. StartsAt(h + 1, f) <=> h + 1 \in DOMAIN toR /\ toR[h + 1] = Header(f)
    BY <1>1 DEF StartsAt
  <2>3. CASE h = 0
    <3>1. Header(g) = Header(f) <=> g = f
      BY DEF Header
    <3> QED
      BY <2>1, <2>2, <2>3, <3>1, <1>2, <1>5
  <2>4. CASE h # 0
    <3>1. h \in DOMAIN toR' <=> h + 1 \in DOMAIN toR
      BY <2>4, <1>2
    <3> QED
      BY <2>1, <2>2, <2>4, <3>1, <1>2
  <2> QED
    BY <2>3, <2>4
<1> QED
  BY <1>1, <1>4, <1>6, ShiftInFrame

\* The receiver takes contents for contents.
LEMMA RecvChunkInFrame ==
  ASSUME Types, Types', InFrame, RecvChunk
  PROVE  InFrame'
<1>1. /\ rcv.pc = "recv" /\ rcv.got < Size[rcv.file] /\ toR # <<>>
      /\ toR' = Tail(toR) /\ UNCHANGED <<snd, link>>
  BY DEF RecvChunk
<1>2. PICK g \in File, got \in Nat : rcv.file = g /\ rcv.got = got /\ got < Size[g]
  BY <1>1 DEF Types, ReceiverTypes, ReceiverState
<1>3. /\ Head(toR) = toR[1]
      /\ Len(toR) > 0 /\ Len(toR) \in Nat /\ DOMAIN toR = 1 .. Len(toR)
      /\ Len(toR') = Len(toR) - 1 /\ DOMAIN toR' = 1 .. Len(toR')
      /\ \A k \in DOMAIN toR' : toR'[k] = toR[k + 1]
  BY <1>1, NextItem DEF Types, WireTypes
<1>4. toR[1] = Chunk(g)
  <2>1. StartsAt(- got, g) /\ - got \in Int /\ Size[g] \in Nat
    BY <1>1, <1>2, SizeType DEF StartsAt
  <2>2. Follows(- got, g) /\ 1 \in DOMAIN toR
    BY <2>1, <1>3 DEF InFrame, Framed
  <2> QED
    BY <2>1, <2>2, <1>2 DEF Follows
<1>5. rcv'.pc = "recv" /\ rcv'.file = g /\ rcv'.got = got + 1
  BY <1>1, <1>2, <1>3, <1>4 DEF RecvChunk, Types, ReceiverTypes, ReceiverState
<1>6. \A h \in Int, f \in File : StartsAt(h, f)' <=> StartsAt(h + 1, f)
  <2> SUFFICES ASSUME NEW h \in Int, NEW f \in File
               PROVE  StartsAt(h, f)' <=> StartsAt(h + 1, f)
    OBVIOUS
  <2>1. StartsAt(h, f)' <=> \/ h \in DOMAIN toR' /\ toR'[h] = Header(f)
                            \/ f = g /\ h = - (got + 1)
    BY <1>5 DEF StartsAt
  <2>2. StartsAt(h + 1, f) <=> \/ h + 1 \in DOMAIN toR /\ toR[h + 1] = Header(f)
                               \/ f = g /\ h + 1 = - got
    BY <1>1, <1>2 DEF StartsAt
  <2>3. toR[1] # Header(f)
    BY <1>4 DEF Header, Chunk
  <2>4. h # 0 => (h \in DOMAIN toR' <=> h + 1 \in DOMAIN toR)
    BY <1>3
  <2>5. 0 \notin DOMAIN toR'
    BY <1>3
  <2>6. h = - (got + 1) <=> h + 1 = - got
    OBVIOUS
  <2>7. CASE h = 0
    BY <2>1, <2>2, <2>3, <2>5, <2>6, <2>7
  <2>8. CASE h # 0
    BY <2>1, <2>2, <2>4, <2>6, <2>8, <1>3
  <2> QED
    BY <2>7, <2>8
<1> QED
  BY <1>1, <1>5, <1>6, ShiftInFrame

\* The receiver is at the end of the contents, and so at a header.
LEMMA RecvEndInFrame ==
  ASSUME Types, Types', InFrame, RecvEnd
  PROVE  InFrame'
<1>1. /\ rcv.pc = "recv" /\ rcv.got = Size[rcv.file] /\ rcv'.pc = "answer"
      /\ UNCHANGED <<toR, snd, link>>
  BY DEF RecvEnd, wire, Types, ReceiverTypes, ReceiverState
<1>2. PICK g \in File, got \in Nat : rcv.file = g /\ rcv.got = got /\ got = Size[g]
  BY <1>1 DEF Types, ReceiverTypes, ReceiverState
<1>3. Len(toR) \in Nat /\ DOMAIN toR = 1 .. Len(toR)
  BY DEF Types, WireTypes
<1>4. \A h \in Int, f \in File :
        /\ StartsAt(h, f)' <=> h \in DOMAIN toR /\ toR[h] = Header(f)
        /\ StartsAt(h, f) <=> StartsAt(h, f)' \/ (f = g /\ h = - got)
  BY <1>1, <1>2 DEF StartsAt
<1>5. Framed'
  BY <1>1, <1>4 DEF InFrame, Framed, Follows
<1>6. AtHeader'
  <2>1. StartsAt(- got, g) /\ - got \in Int
    BY <1>1, <1>2 DEF StartsAt
  <2>2. Follows(- got, g)
    BY <2>1 DEF InFrame, Framed
  <2>3. 1 = - got + Size[g] + 1
    BY <1>2
  <2>4. toR # <<>> => 1 \in DOMAIN toR
    BY <1>3 DEF Types, WireTypes
  <2> QED
    BY <1>1, <2>2, <2>3, <2>4 DEF AtHeader, Follows
<1>7. ASSUME Up, AtEnd PROVE AtEnd'
  <2>1. CASE snd.pc \in {"open", "send"} /\ snd.left > 0
    <3>1. snd.file \in File /\ snd.left \in Nat
      BY <2>1 DEF Types, SenderTypes, SenderState
    <3>2. PICK h \in Int : StartsAt(h, snd.file) /\ h + Size[snd.file] = Len(toR) + snd.left
      BY <1>7, <2>1 DEF AtEnd
    <3>3. ~ (snd.file = g /\ h = - got)
      BY <3>1, <3>2, <2>1, <1>2, <1>3
    <3> QED
      BY <1>1, <1>4, <2>1, <3>1, <3>2, <3>3 DEF AtEnd
  <2>2. CASE ~ (snd.pc \in {"open", "send"} /\ snd.left > 0)
    BY <1>1, <1>4, <1>7, <2>2 DEF AtEnd
  <2> QED
    BY <2>1, <2>2
<1> QED
  BY <1>1, <1>5, <1>6, <1>7 DEF InFrame, Up

\* The answer changes nothing in the stream of files.
LEMMA WriteAnswerInFrame ==
  ASSUME Types, Types', InFrame, WriteAnswer, Clean'
  PROVE  InFrame'
<1>1. /\ rcv.pc = "answer" /\ rcv'.pc = "read" /\ UNCHANGED <<toR, snd, link>>
  BY DEF WriteAnswer, Clean, Types, ReceiverTypes, ReceiverState
<1>2. \A h \in Int, f \in File : StartsAt(h, f)' <=> StartsAt(h, f)
  BY <1>1 DEF StartsAt
<1>3. Framed' /\ AtHeader'
  BY <1>1, <1>2 DEF InFrame, Framed, Follows, AtHeader
<1>4. snd.pc \in {"open", "send"} => snd.file \in File
  BY DEF Types, SenderTypes
<1>5. ASSUME Up, AtEnd PROVE AtEnd'
  BY <1>1, <1>2, <1>4, <1>5 DEF AtEnd
<1> QED
  BY <1>1, <1>3, <1>5 DEF InFrame, Up

\* An unclean receiver stays so until its session is over.
LEMMA CleanBefore ==
  ASSUME Types, [Next]_vars, Clean', ~ Again
  PROVE  Clean
<1>0. ReceiverTypes
  BY DEF Types
<1>1. CASE ReadFrame
  BY <1>1 DEF ReadFrame, Clean, history
<1>2. CASE ReadFails
  BY <1>2, <1>0 DEF ReadFails, Clean, ReceiverTypes, ReceiverState
<1>3. CASE RecvChunk
  BY <1>3 DEF RecvChunk, Clean, history
<1>4. CASE RecvFails
  BY <1>4 DEF RecvFails, Clean, history
<1>5. CASE RecvEnd
  BY <1>5 DEF RecvEnd, Clean, history
<1>6. CASE WriteAnswer
  BY <1>6 DEF WriteAnswer, Clean
<1>7. CASE UNCHANGED <<rcv, refused>>
  BY <1>7 DEF Clean
<1> QED
  BY <1>1, <1>2, <1>3, <1>4, <1>5, <1>6, <1>7 DEF Next, Send, Receive,
     ListNext, SendOpen, SendChunk, PollAnswer, PollNothing, AwaitAnswer,
     EndUpload, EndDownload, HangUp, Break, Vanish, vars, history

\* The stream stays in frame.
LEMMA StreamStep ==
  ASSUME Types, Stream, [Next]_vars
  PROVE  Stream'
<1> SUFFICES ASSUME Clean' PROVE InFrame'
  BY DEF Stream
<1>0. Types' /\ SenderTypes /\ ReceiverTypes /\ WireTypes
  BY TypesStep DEF Types
<1>1. CASE Again
  <2>1. /\ toR' = <<>> /\ rcv'.pc = "read" /\ snd'.pc = "list"
    BY <1>1 DEF Again, Sender, Receiver
  <2>2. \A h, f : ~ StartsAt(h, f)'
    BY <2>1 DEF StartsAt
  <2> QED
    BY <2>1, <2>2 DEF InFrame, Framed, AtHeader, AtEnd
<1>2. CASE ~ Again
  <2>0. InFrame
    BY <1>2, CleanBefore DEF Stream
  <2>1. CASE ListNext
    <3>1. UNCHANGED <<rcv, link>> /\ snd.pc = "list"
      BY <2>1, <1>0, ListNextLists DEF Lists
    <3>2. CASE UNCHANGED toR /\ snd'.pc \in {"await", "done"}
      BY <3>1, <3>2, <2>0, <1>0, SenderMovesInFrame
    <3>3. ASSUME NEW f \in File, SendR(Header(f), TRUE),
                 snd' = [snd EXCEPT !.pc = "open", !.file = f, !.left = Size[f]]
          PROVE  InFrame'
      <4>1. snd'.pc = "open" /\ snd'.file = f /\ snd'.left = Size[f]
        BY <3>3, <1>0 DEF SenderTypes, SenderState
      <4>2. CASE Up
        BY <4>1, <4>2, <3>1, <3>3, <2>0, <1>0, HeaderInFrame DEF SendR
      <4>3. CASE ~ Up
        BY <4>3, <3>1, <3>3, <2>0, <1>0, CutInFrame DEF SendR, Up
      <4> QED
        BY <4>2, <4>3
    <3>4. ASSUME NEW f \in File, SendR(Header(f), FALSE),
                 snd' = [snd EXCEPT !.pc = "done"]
          PROVE  InFrame'
      <4>1. ~ Up /\ UNCHANGED toR
        BY <3>4 DEF SendR
      <4> QED
        BY <4>1, <3>1, <2>0, <1>0, CutInFrame DEF Up
    <3>5. snd' = [snd EXCEPT !.pc = "await"] => snd'.pc = "await"
      BY <1>0 DEF SenderTypes, SenderState
    <3> QED
      BY <2>1, <1>0, ListNextLists, <3>2, <3>3, <3>4, <3>5 DEF Lists
  <2>2. CASE SendChunk
    <3>1. /\ UNCHANGED <<rcv>> /\ snd.pc = "send"
          /\ UNCHANGED link
      BY <2>2 DEF SendChunk, wire
    <3>2. CASE snd.left = 0 /\ UNCHANGED toR /\ snd'.pc = "poll"
      BY <3>1, <3>2, <2>0, <1>0, SenderMovesInFrame
    <3>3. CASE SendR(Chunk(snd.file), TRUE) /\ snd.left # 0
               /\ snd' = [snd EXCEPT !.left = @ - 1]
      <4>1. PICK f \in File, left \in Nat : f = snd.file /\ left = snd.left
        BY <3>1, <1>0 DEF SenderTypes, SenderState
      <4>2. snd'.pc = "send" /\ snd'.file = f /\ snd'.left = left - 1 /\ left > 0
        BY <3>1, <3>3, <4>1, <1>0 DEF SenderTypes, SenderState
      <4>3. CASE Up
        BY <4>1, <4>2, <4>3, <3>1, <3>3, <2>0, <1>0, ChunkInFrame DEF SendR
      <4>4. CASE ~ Up
        BY <4>4, <3>1, <3>3, <2>0, <1>0, CutInFrame DEF SendR, Up
      <4> QED
        BY <4>3, <4>4
    <3>4. CASE SendR(Chunk(snd.file), FALSE)
      <4>1. ~ Up /\ UNCHANGED toR
        BY <3>4 DEF SendR
      <4> QED
        BY <4>1, <3>1, <2>0, <1>0, CutInFrame DEF Up
    <3>5. CASE UNCHANGED toR /\ snd'.pc = "spin"
      BY <3>1, <3>5, <2>0, <1>0, SenderMovesInFrame
    <3>6. /\ snd' = [snd EXCEPT !.pc = "poll", !.delayed = @ + 1] => snd'.pc = "poll"
          /\ snd' = [snd EXCEPT !.pc = "spin"] => snd'.pc = "spin"
      BY <1>0 DEF SenderTypes, SenderState
    <3> QED
      BY <2>2, <3>2, <3>3, <3>4, <3>5, <3>6 DEF SendChunk, wire
  <2>3. CASE SendOpen /\ snd.file \in source
    <3>1. /\ UNCHANGED <<rcv, toR, link>> /\ snd.pc = "open" /\ snd'.pc = "send"
          /\ UNCHANGED <<snd.file, snd.left>>
      BY <2>3, <1>0 DEF SendOpen, wire, SenderTypes, SenderState
    <3> QED
      BY <3>1, <2>0, <1>0, SenderMovesInFrame
  <2>4. CASE PollAnswer \/ PollNothing
    <3>1. /\ UNCHANGED <<rcv, toR, link>> /\ snd.pc = "poll"
          /\ snd'.pc \in {"poll", "list"}
      BY <2>4, <1>0 DEF PollAnswer, PollNothing, wire, SenderTypes, SenderState
    <3> QED
      BY <3>1, <2>0, <1>0, SenderMovesInFrame
  <2>5. CASE AwaitAnswer \/ EndUpload
    <3>1. UNCHANGED <<rcv, toR, link>> /\ snd'.pc \in {"await", "done"}
      BY <2>5, <1>0 DEF AwaitAnswer, EndUpload, wire, SenderTypes, SenderState
    <3> QED
      BY <3>1, <2>0, <1>0, SenderMovesInFrame
  <2>6. CASE Close /\ UNCHANGED rcv
    BY <2>6, <2>0, <1>0, CutInFrame DEF Close, Up
  <2>7. CASE Break
    BY <2>7, <2>0, <1>0, CutInFrame DEF Break, Up
  <2>8. CASE ReadFrame
    BY <2>8, <2>0, <1>0, ReadFrameInFrame
  <2>9. CASE ReadFails \/ RecvFails
    BY <2>9, <1>0 DEF ReadFails, RecvFails, Clean, ReceiverTypes, ReceiverState
  <2>10. CASE RecvChunk
    BY <2>10, <2>0, <1>0, RecvChunkInFrame
  <2>11. CASE RecvEnd
    BY <2>11, <2>0, <1>0, RecvEndInFrame
  <2>12. CASE WriteAnswer
    BY <2>12, <2>0, <1>0, WriteAnswerInFrame
  <2>13. CASE UNCHANGED <<rcv, toR, link, snd>>
    BY <2>13, <2>0, <1>0, SenderMovesInFrame
  <2>14. /\ EndDownload \/ HangUp => Close /\ UNCHANGED rcv
         /\ SendOpen => snd.file \in source \/ (Close /\ UNCHANGED rcv)
         /\ Vanish => UNCHANGED <<rcv, toR, link, snd>>
    BY DEF EndDownload, HangUp, SendOpen, Vanish, wire
  <2> QED
    BY <1>2, <2>1, <2>2, <2>3, <2>4, <2>5, <2>6, <2>7, <2>8, <2>9, <2>10, <2>11,
       <2>12, <2>13, <2>14 DEF Next, Send, Receive, vars, wire
<1> QED
  BY <1>1, <1>2

-----------------------------------------------------------------------------
(* The invariant and the theorems.                                         *)

Inv == Types /\ NoPartialFile /\ Counted /\ Answered /\ Stream

\* At the start nothing is in flight.
LEMMA InitInv == ASSUME Init PROVE Inv
<1>1. Types
  BY SizeType DEF Init, Sender, Receiver, Types, WireTypes, DiskTypes, SenderTypes,
     SenderState, ReceiverTypes, ReceiverState
<1>2. NoPartialFile
  BY DEF Init, NoPartialFile
<1>3. Counted
  <2>1. {i \in DOMAIN toR : toR[i].kind = "header"} = {}
    BY DEF Init
  <2>2. Headers(toR) = 0
    BY <2>1, FS_EmptySet DEF Headers
  <2> QED
    BY <2>2 DEF Init, Sender, Receiver, Counted, Current, InHand
<1>4. Answered
  BY DEF Init, Receiver, Answered, Told, AnswerIsTrue, RemovedWasAnswered
<1>5. Stream
  <2>1. toR = <<>> /\ rcv.pc = "read" /\ snd.pc = "list"
    BY DEF Init, Sender, Receiver
  <2>2. \A h, f : ~ StartsAt(h, f)
    BY <2>1 DEF StartsAt
  <2> QED
    BY <2>1, <2>2 DEF Stream, InFrame, Framed, AtHeader, AtEnd
<1> QED
  BY <1>1, <1>2, <1>3, <1>4, <1>5 DEF Inv

\* Each part of the invariant, from the types and the parts before it.
LEMMA NextInv == ASSUME Inv, [Next]_vars PROVE Inv'
<1>1. Types'
  BY TypesStep DEF Inv
<1>2. NoPartialFile'
  BY NoPartialFileStep DEF Inv
<1>3. Counted'
  BY CountedStep DEF Inv
<1>4. Answered'
  BY ToldStep, AnswerIsTrueStep, RemovedStep DEF Inv, Answered
<1>5. Stream'
  BY StreamStep DEF Inv
<1> QED
  BY <1>1, <1>2, <1>3, <1>4, <1>5 DEF Inv

\* The strengthening: DelayedExact and NoPartialFile are inductive with the types;
\* RemovedWasAnswered needs the answers in flight to be true, InStep the layout of
\* the whole stream.
THEOREM Invariant == Spec => []Inv
<1>1. Init => Inv
  BY InitInv
<1>2. Inv /\ [Next]_vars => Inv'
  BY NextInv
<1> QED
  BY <1>1, <1>2, PTL DEF Spec

\* What is in flight, on the disks and held by the two programs has its type,
\* and what they hold of a file is within its size: neither reads or writes
\* past its end (fileserver.cpp:345-410, getfile.cpp:197-236).
THEOREM TransferTypes == Spec => []Types
BY Invariant, PTL DEF Inv

\* A final name never stands for a part of a file, for any number of files of
\* any size, however often the connection breaks and the session is repeated
\* (fileserver.cpp:299-331, getfile.cpp:197-236).
THEOREM NoPartialFileAlways == Spec => []NoPartialFile
BY Invariant, PTL DEF Inv

\* No file is removed from the server that the client has not answered for,
\* however many answers are outstanding, late or lost (fileserver.cpp:509-575).
THEOREM RemovedWasAnsweredAlways == Spec => []RemovedWasAnswered
BY Invariant, PTL DEF Inv, Answered

\* The sender's count of outstanding answers is exact while the connection is
\* up (putfile.cpp:171-192, fileserver.cpp:500-532).
THEOREM DelayedExactAlways == Spec => []DelayedExact
BY Invariant, ExactIsCounted, PTL DEF Inv

\* Frames and contents keep apart in the stream until the receiver has refused
\* a file (fileserver.cpp:304, 317; getfile.cpp:207, 218).
THEOREM InStepAlways == Spec => []InStep
<1>1. ASSUME Inv PROVE InStep
  <2>0. Types /\ Stream
    BY <1>1 DEF Inv
  <2>1. rcv.pc = "astray" => refused # {}
    BY <2>0 DEF Stream, Clean, InFrame
  <2>2. ASSUME rcv.pc = "recv", toR # <<>>, refused = {}, rcv.got < Size[rcv.file]
        PROVE  Head(toR) = Chunk(rcv.file)
    <3>1. PICK g \in File, got \in Nat :
            rcv.file = g /\ rcv.got = got /\ got < Size[g]
      BY <2>0, <2>2 DEF Types, ReceiverTypes, ReceiverState
    <3>2. Follows(- got, g)
      <4>1. Framed /\ StartsAt(- got, g) /\ - got \in Int
        BY <2>0, <2>2, <3>1 DEF Stream, Clean, InFrame, StartsAt
      <4> QED
        BY <4>1 DEF Framed
    <3>3. 1 \in DOMAIN toR /\ Head(toR) = toR[1]
      BY <2>0, <2>2, NextItem DEF Types, WireTypes
    <3>4. Size[g] \in Nat
      BY SizeType
    <3> QED
      BY <3>1, <3>2, <3>3, <3>4 DEF Follows
  <2> QED
    BY <2>1, <2>2 DEF InStep
<1> QED
  BY <1>1, Invariant, PTL

-----------------------------------------------------------------------------
(* Strings.                                                                *)

\* Two strings with the same characters are the same.
LEMMA SameString ==
  ASSUME NEW S, NEW s \in Seq(S), NEW t \in Seq(S), Len(s) = Len(t),
         \A i \in 1 .. Len(s) : s[i] = t[i]
  PROVE  s = t
OBVIOUS

\* A part of a string.
LEMMA Part ==
  ASSUME NEW S, NEW s \in Seq(S), NEW a \in 1 .. Len(s) + 1, NEW b \in a - 1 .. Len(s)
  PROVE  /\ SubSeq(s, a, b) \in Seq(S) /\ Len(SubSeq(s, a, b)) = b - a + 1
         /\ \A i \in 1 .. b - a + 1 : SubSeq(s, a, b)[i] = s[a + i - 1]
<1>0. Len(s) \in Nat /\ a \in Int /\ b \in Int
  OBVIOUS
<1>1. \A i \in a .. b : s[i] \in S
  BY <1>0
<1>2. /\ SubSeq(s, a, b) \in Seq(S)
      /\ Len(SubSeq(s, a, b)) = IF a <= b THEN b - a + 1 ELSE 0
      /\ \A i \in 1 .. b - a + 1 : SubSeq(s, a, b)[i] = s[a + i - 1]
  BY <1>0, <1>1, SubSeqProperties
<1> QED
  BY <1>0, <1>2

\* Three strings joined.
LEMMA Three ==
  ASSUME NEW S, NEW a \in Seq(S), NEW b \in Seq(S), NEW c \in Seq(S)
  PROVE  /\ a \o b \o c \in Seq(S) /\ Len(a \o b \o c) = Len(a) + Len(b) + Len(c)
         /\ \A i \in 1 .. Len(a) + Len(b) + Len(c) :
              (a \o b \o c)[i] = IF i <= Len(a) THEN a[i]
                                 ELSE IF i <= Len(a) + Len(b) THEN b[i - Len(a)]
                                 ELSE c[i - Len(a) - Len(b)]
<1> DEFINE ab == a \o b
<1>0. Len(a) \in Nat /\ Len(b) \in Nat /\ Len(c) \in Nat
  OBVIOUS
<1>1. /\ ab \in Seq(S) /\ Len(ab) = Len(a) + Len(b)
      /\ \A i \in 1 .. Len(a) + Len(b) : ab[i] = IF i <= Len(a) THEN a[i] ELSE b[i - Len(a)]
  BY ConcatProperties
<1> HIDE DEF ab
<1>2. /\ ab \o c \in Seq(S) /\ Len(ab \o c) = Len(ab) + Len(c)
      /\ \A i \in 1 .. Len(ab) + Len(c) :
           (ab \o c)[i] = IF i <= Len(ab) THEN ab[i] ELSE c[i - Len(ab)]
  <2>1. ab \in Seq(S)
    BY <1>1
  <2> QED
    BY <2>1, ConcatProperties
<1>3. \A i \in 1 .. Len(a) + Len(b) + Len(c) : ~ i <= Len(a) + Len(b) =>
        i - (Len(a) + Len(b)) = i - Len(a) - Len(b)
  BY <1>0
<1>4. /\ ab \o c \in Seq(S) /\ Len(ab \o c) = Len(a) + Len(b) + Len(c)
      /\ \A i \in 1 .. Len(a) + Len(b) + Len(c) :
           (ab \o c)[i] = IF i <= Len(a) THEN a[i]
                          ELSE IF i <= Len(a) + Len(b) THEN b[i - Len(a)]
                          ELSE c[i - Len(a) - Len(b)]
  BY <1>0, <1>1, <1>2, <1>3
<1> QED
  BY <1>4 DEF ab

\* The string t is in s at place k.
Occurs(s, t, k) == \A j \in 1 .. Len(t) : s[k + j - 1] = t[j]

\* Find gives the first place there is.
LEMMA FindIs ==
  ASSUME NEW S, NEW s \in Seq(S), NEW t \in Seq(S), NEW i \in Nat \ {0}
  PROVE  \/ /\ Find(s, t, i) = 0
            /\ \A k \in i .. Len(s) + 1 - Len(t) : ~ Occurs(s, t, k)
         \/ /\ Find(s, t, i) \in i .. Len(s) + 1 - Len(t)
            /\ Occurs(s, t, Find(s, t, i))
            /\ \A k \in i .. Find(s, t, i) - 1 : ~ Occurs(s, t, k)
<1> DEFINE places == {k \in i .. Len(s) + 1 - Len(t) : SubSeq(s, k, k + Len(t) - 1) = t}
<1>0. Len(s) \in Nat /\ Len(t) \in Nat
  OBVIOUS
<1>1. ASSUME NEW k \in i .. Len(s) + 1 - Len(t)
      PROVE  SubSeq(s, k, k + Len(t) - 1) = t <=> Occurs(s, t, k)
  <2> DEFINE b == k + Len(t) - 1
             p == SubSeq(s, k, b)
  <2>1. k \in 1 .. Len(s) + 1 /\ b \in k - 1 .. Len(s) /\ b - k + 1 = Len(t)
    BY <1>0
  <2>2. p \in Seq(S) /\ Len(p) = Len(t) /\ \A j \in 1 .. Len(t) : p[j] = s[k + j - 1]
    <3> HIDE DEF b
    <3> QED
      BY <2>1, Part
  <2> HIDE DEF p
  <2>3. p = t <=> \A j \in 1 .. Len(t) : p[j] = t[j]
    BY <2>2, SameString
  <2> QED
    BY <2>2, <2>3 DEF Occurs, p
<1>2. Find(s, t, i) = IF places = {} THEN 0 ELSE CHOOSE x \in places : \A y \in places : x <= y
  BY DEF Find, Min
<1>3. CASE places = {}
  BY <1>1, <1>2, <1>3
<1>4. CASE places # {}
  <2>1. places \in SUBSET Nat
    BY <1>0
  <2>2. \E x \in places : \A y \in places : x <= y
    BY <1>4, <2>1, Least
  <2>3. Find(s, t, i) \in places /\ \A y \in places : Find(s, t, i) <= y
    <3> HIDE DEF places
    <3> QED
      BY <1>2, <1>4, <2>2
  <2>4. \A k \in i .. Find(s, t, i) - 1 : ~ Occurs(s, t, k)
    <3> SUFFICES ASSUME NEW k \in i .. Find(s, t, i) - 1, Occurs(s, t, k) PROVE FALSE
      OBVIOUS
    <3>1. k \in i .. Len(s) + 1 - Len(t) /\ ~ Find(s, t, i) <= k
      BY <1>0, <2>3
    <3> QED
      BY <1>1, <2>3, <3>1
  <2> QED
    BY <1>1, <2>3, <2>4
<1> QED
  BY <1>3, <1>4

\* The place that is the first one is what Find gives.
LEMMA FindFirst ==
  ASSUME NEW S, NEW s \in Seq(S), NEW t \in Seq(S), NEW i \in Nat \ {0},
         NEW k \in i .. Len(s) + 1 - Len(t), Occurs(s, t, k),
         \A j \in i .. k - 1 : ~ Occurs(s, t, j)
  PROVE  Find(s, t, i) = k
<1>0. Len(s) \in Nat /\ Len(t) \in Nat
  OBVIOUS
<1>1. Find(s, t, i) # 0
  BY FindIs
<1>2. /\ Find(s, t, i) \in i .. Len(s) + 1 - Len(t)
      /\ Occurs(s, t, Find(s, t, i))
      /\ \A j \in i .. Find(s, t, i) - 1 : ~ Occurs(s, t, j)
  BY <1>1, FindIs
<1>3. ~ Find(s, t, i) < k
  BY <1>0, <1>2
<1>4. ~ k < Find(s, t, i)
  BY <1>0, <1>2
<1> QED
  BY <1>0, <1>2, <1>3, <1>4

\* If there is none, it gives 0.
LEMMA FindNone ==
  ASSUME NEW S, NEW s \in Seq(S), NEW t \in Seq(S), NEW i \in Nat \ {0},
         \A k \in i .. Len(s) + 1 - Len(t) : ~ Occurs(s, t, k)
  PROVE  Find(s, t, i) = 0
BY FindIs

-----------------------------------------------------------------------------
(* The path of a file.                                                     *)

Letters == {"a", "b"}
Signs == {"/", "a", "b"}

\* A directory is not empty, does not end in a slash and has no two in a row.
LEMMA DirsAre ==
  ASSUME NEW d \in Dirs
  PROVE  /\ d \in Seq(Signs) /\ Len(d) \in Nat \ {0} /\ d[Len(d)] # "/"
         /\ \A i \in 1 .. Len(d) - 1 : ~ (d[i] = "/" /\ d[i + 1] = "/")
<1>1. /\ \E n \in 1 .. PathLen : d \in [1 .. n -> Signs]
      /\ d[Len(d)] # "/" /\ Find(d, <<"/", "/">>, 1) = 0
  BY DEF Dirs, Signs
<1>2. PICK n \in 1 .. PathLen : d \in [1 .. n -> Signs]
  BY <1>1
<1>3. n \in Nat /\ n # 0
  BY <1>2, NamesAssumption
<1>4. d \in Seq(Signs) /\ Len(d) = n
  BY <1>2, <1>3
<1>5. ASSUME NEW i \in 1 .. Len(d) - 1, d[i] = "/", d[i + 1] = "/" PROVE FALSE
  <2> DEFINE two == <<"/", "/">>
  <2>1. two \in Seq(Signs) /\ Len(two) = 2 /\ two[1] = "/" /\ two[2] = "/"
    BY DEF Signs
  <2> HIDE DEF two
  <2>2. i \in 1 .. Len(d) + 1 - Len(two)
    BY <1>3, <1>4, <2>1
  <2>3. \A j \in 1 .. 2 : d[i + j - 1] = "/"
    <3>1. \A j \in 1 .. 2 : j = 1 \/ j = 2
      OBVIOUS
    <3>2. i + 1 - 1 = i /\ i + 2 - 1 = i + 1
      BY <1>3, <1>4
    <3> QED
      BY <1>5, <3>1, <3>2
  <2>4. Occurs(d, two, i)
    <3>1. \A j \in 1 .. 2 : two[j] = "/"
      BY <2>1
    <3> QED
      BY <2>1, <2>3, <3>1 DEF Occurs
  <2>5. Find(d, two, 1) # 0
    <3>1. \/ /\ Find(d, two, 1) = 0
             /\ \A k \in 1 .. Len(d) + 1 - Len(two) : ~ Occurs(d, two, k)
          \/ Find(d, two, 1) \in 1 .. Len(d) + 1 - Len(two)
      <4>1. d \in Seq(Signs) /\ two \in Seq(Signs) /\ 1 \in Nat \ {0}
        BY <1>4, <2>1
      <4> QED
        BY <4>1, FindIs
    <3> QED
      BY <2>2, <2>4, <3>1
  <2> QED
    BY <1>1, <2>5 DEF two
<1> QED
  BY <1>1, <1>3, <1>4, <1>5

\* A name is not empty and has no slash.
LEMMA NamesAre ==
  ASSUME NEW s \in Names
  PROVE  /\ s \in Seq(Signs) /\ Len(s) \in Nat \ {0}
         /\ \A i \in 1 .. Len(s) : s[i] # "/"
<1>1. PICK n \in 1 .. NameLen : s \in [1 .. n -> Letters]
  BY DEF Names, Letters
<1>2. n \in Nat /\ n # 0
  BY <1>1, NamesAssumption
<1>3. s \in Seq(Signs) /\ Len(s) = n
  BY <1>1, <1>2 DEF Letters, Signs
<1> QED
  BY <1>1, <1>2, <1>3 DEF Letters

\* The path of a file that is in a directory.
Path(dir, name) == dir \o <<"/">> \o name

\* What is in it, and that it has no two slashes in a row.
LEMMA PathIs ==
  ASSUME NEW dir \in Dirs, NEW name \in Names
  PROVE  /\ Path(dir, name) \in Seq(Signs)
         /\ Len(Path(dir, name)) = Len(dir) + 1 + Len(name)
         /\ \A i \in 1 .. Len(dir) : Path(dir, name)[i] = dir[i]
         /\ Path(dir, name)[Len(dir) + 1] = "/"
         /\ \A i \in Len(dir) + 2 .. Len(dir) + 1 + Len(name) :
              Path(dir, name)[i] = name[i - Len(dir) - 1]
         /\ Find(Path(dir, name), <<"/", "/">>, 1) = 0
<1> DEFINE slash == <<"/">>
           two == <<"/", "/">>
           p == Path(dir, name)
<1>1. /\ dir \in Seq(Signs) /\ Len(dir) \in Nat \ {0} /\ dir[Len(dir)] # "/"
      /\ \A i \in 1 .. Len(dir) - 1 : ~ (dir[i] = "/" /\ dir[i + 1] = "/")
  BY DirsAre
<1>2. /\ name \in Seq(Signs) /\ Len(name) \in Nat \ {0}
      /\ \A i \in 1 .. Len(name) : name[i] # "/"
  BY NamesAre
<1>3. /\ slash \in Seq(Signs) /\ Len(slash) = 1 /\ slash[1] = "/"
      /\ two \in Seq(Signs) /\ Len(two) = 2 /\ two[1] = "/" /\ two[2] = "/"
  BY DEF Signs
<1> HIDE DEF slash, two
<1>4. /\ dir \o slash \o name \in Seq(Signs)
      /\ Len(dir \o slash \o name) = Len(dir) + Len(slash) + Len(name)
      /\ \A i \in 1 .. Len(dir) + Len(slash) + Len(name) :
           (dir \o slash \o name)[i] =
              IF i <= Len(dir) THEN dir[i]
              ELSE IF i <= Len(dir) + Len(slash) THEN slash[i - Len(dir)]
              ELSE name[i - Len(dir) - Len(slash)]
  <2>1. dir \in Seq(Signs) /\ slash \in Seq(Signs) /\ name \in Seq(Signs)
    BY <1>1, <1>2, <1>3
  <2> QED
    BY <2>1, Three
<1>5. p = dir \o slash \o name
  BY DEF Path, slash
<1> HIDE DEF p
<1>6. /\ p \in Seq(Signs) /\ Len(p) = Len(dir) + 1 + Len(name)
      /\ \A i \in 1 .. Len(dir) + 1 + Len(name) :
           p[i] = IF i <= Len(dir) THEN dir[i]
                  ELSE IF i <= Len(dir) + 1 THEN slash[i - Len(dir)]
                  ELSE name[i - Len(dir) - 1]
  BY <1>3, <1>4, <1>5
<1>7. /\ \A i \in 1 .. Len(dir) : p[i] = dir[i]
      /\ p[Len(dir) + 1] = "/"
      /\ \A i \in Len(dir) + 2 .. Len(dir) + 1 + Len(name) : p[i] = name[i - Len(dir) - 1]
  <2>1. \A i \in 1 .. Len(dir) : p[i] = dir[i]
    BY <1>1, <1>2, <1>6
  <2>2. p[Len(dir) + 1] = "/"
    <3>1. Len(dir) + 1 \in 1 .. Len(dir) + 1 + Len(name) /\ (Len(dir) + 1) - Len(dir) = 1
      BY <1>1, <1>2
    <3>2. p[Len(dir) + 1] = slash[(Len(dir) + 1) - Len(dir)]
      BY <1>1, <1>6, <3>1
    <3> QED
      BY <1>3, <3>1, <3>2
  <2>3. \A i \in Len(dir) + 2 .. Len(dir) + 1 + Len(name) : p[i] = name[i - Len(dir) - 1]
    BY <1>1, <1>2, <1>6
  <2> QED
    BY <2>1, <2>2, <2>3
<1>8. \A k \in 1 .. Len(p) + 1 - Len(two) : ~ Occurs(p, two, k)
  <2> SUFFICES ASSUME NEW k \in 1 .. Len(dir) + Len(name), p[k] = "/", p[k + 1] = "/"
               PROVE  FALSE
    <3>1. \A k \in 1 .. Len(dir) + Len(name) :
            Occurs(p, two, k) => p[k] = "/" /\ p[k + 1] = "/"
      <4> TAKE k \in 1 .. Len(dir) + Len(name)
      <4>1. 1 \in 1 .. 2 /\ 2 \in 1 .. 2 /\ k + 1 - 1 = k /\ k + 2 - 1 = k + 1
        BY <1>1, <1>2
      <4> QED
        BY <1>3, <4>1 DEF Occurs
    <3>2. Len(p) + 1 - Len(two) = Len(dir) + Len(name)
      BY <1>1, <1>2, <1>3, <1>6
    <3> QED
      BY <3>1, <3>2
  <2>1. CASE k < Len(dir)
    BY <1>1, <1>7, <2>1
  <2>2. CASE k = Len(dir)
    BY <1>1, <1>7, <2>2
  <2>3. CASE k > Len(dir)
    <3> DEFINE i == k + 1
    <3>1. i \in Len(dir) + 2 .. Len(dir) + 1 + Len(name) /\ i - Len(dir) - 1 \in 1 .. Len(name)
      BY <1>1, <1>2, <2>3
    <3> QED
      BY <1>2, <1>7, <3>1
  <2> QED
    BY <1>1, <2>1, <2>2, <2>3
<1>9. Find(p, two, 1) = 0
  <2>1. p \in Seq(Signs) /\ two \in Seq(Signs) /\ 1 \in Nat \ {0}
    BY <1>3, <1>6
  <2> QED
    BY <1>8, <2>1, FindNone
<1> QED
  BY <1>6, <1>7, <1>9 DEF p, two

\* An entry of the directory has that path: of the two slashes _OpenDir puts
\* between them one is left.
LEMMA EntryIs ==
  ASSUME NEW dir \in Dirs, NEW name \in Names
  PROVE  Entry(dir, name) = Path(dir, name)
<1> DEFINE one == <<"/">>
           two == <<"/", "/">>
           s == dir \o two \o name
           p == Path(dir, name)
           Cut(t) == LET i == Find(t, two, 1)
                     IN IF i = 0 THEN t
                        ELSE SubSeq(t, 1, i - 1) \o one \o SubSeq(t, i + Len(two), Len(t))
           w == [n \in 0 .. Len(s) |-> IF n = 0 THEN s ELSE p]
<1>1. /\ dir \in Seq(Signs) /\ Len(dir) \in Nat \ {0} /\ dir[Len(dir)] # "/"
      /\ \A i \in 1 .. Len(dir) - 1 : ~ (dir[i] = "/" /\ dir[i + 1] = "/")
      /\ name \in Seq(Signs) /\ Len(name) \in Nat \ {0}
  BY DirsAre, NamesAre
<1>2. /\ one \in Seq(Signs) /\ Len(one) = 1 /\ one[1] = "/"
      /\ two \in Seq(Signs) /\ Len(two) = 2 /\ two[1] = "/" /\ two[2] = "/"
  BY DEF Signs
<1>3. p = dir \o one \o name
  BY DEF Path
<1>4. Find(p, two, 1) = 0
  BY PathIs
<1>5. Entry(dir, name) = UpdateAll(s, two, one)
  BY DEF Entry
<1> HIDE DEF one, two
<1>6. /\ s \in Seq(Signs) /\ Len(s) = Len(dir) + Len(two) + Len(name)
      /\ \A i \in 1 .. Len(dir) + Len(two) + Len(name) :
           s[i] = IF i <= Len(dir) THEN dir[i]
                  ELSE IF i <= Len(dir) + Len(two) THEN two[i - Len(dir)]
                  ELSE name[i - Len(dir) - Len(two)]
  <2>1. dir \in Seq(Signs) /\ two \in Seq(Signs) /\ name \in Seq(Signs)
    BY <1>1, <1>2
  <2> QED
    BY <2>1, Three
<1> HIDE DEF s, p
<1>7. /\ \A i \in 1 .. Len(dir) : s[i] = dir[i]
      /\ s[Len(dir) + 1] = "/" /\ s[Len(dir) + 2] = "/"
      /\ \A i \in 1 .. Len(name) : s[Len(dir) + 2 + i] = name[i]
      /\ Len(s) = Len(dir) + 2 + Len(name)
  <2>1. /\ Len(dir) + 1 \in 1 .. Len(dir) + Len(two) + Len(name)
        /\ Len(dir) + 2 \in 1 .. Len(dir) + Len(two) + Len(name)
        /\ (Len(dir) + 1) - Len(dir) = 1 /\ (Len(dir) + 2) - Len(dir) = 2
    BY <1>1, <1>2
  <2>2. s[Len(dir) + 1] = "/" /\ s[Len(dir) + 2] = "/"
    BY <1>1, <1>2, <1>6, <2>1
  <2>3. \A i \in 1 .. Len(dir) : s[i] = dir[i]
    BY <1>1, <1>2, <1>6
  <2>4. ASSUME NEW i \in 1 .. Len(name) PROVE s[Len(dir) + 2 + i] = name[i]
    <3>1. /\ Len(dir) + 2 + i \in 1 .. Len(dir) + Len(two) + Len(name)
          /\ (Len(dir) + 2 + i) - Len(dir) - Len(two) = i
          /\ ~ Len(dir) + 2 + i <= Len(dir) + Len(two)
          /\ ~ Len(dir) + 2 + i <= Len(dir)
      BY <1>1, <1>2
    <3> QED
      BY <1>6, <3>1
  <2> QED
    BY <1>1, <1>2, <1>6, <2>2, <2>3, <2>4
<1>8. Find(s, two, 1) = Len(dir) + 1
  <2> DEFINE k == Len(dir) + 1
  <2>1. Occurs(s, two, k)
    <3>1. \A j \in 1 .. 2 : j = 1 \/ j = 2
      OBVIOUS
    <3>2. k + 1 - 1 = Len(dir) + 1 /\ k + 2 - 1 = Len(dir) + 2
      BY <1>1
    <3> QED
      BY <1>2, <1>7, <3>1, <3>2 DEF Occurs
  <2>2. ASSUME NEW j \in 1 .. k - 1, Occurs(s, two, j) PROVE FALSE
    <3>1. 1 \in 1 .. 2 /\ 2 \in 1 .. 2 /\ j + 1 - 1 = j /\ j + 2 - 1 = j + 1 /\ j \in 1 .. Len(dir)
      BY <1>1
    <3>2. s[j] = "/" /\ s[j + 1] = "/"
      BY <1>2, <2>2, <3>1 DEF Occurs
    <3>3. CASE j = Len(dir)
      BY <1>1, <1>7, <3>2, <3>3
    <3>4. CASE j # Len(dir)
      <4>1. j \in 1 .. Len(dir) - 1 /\ j + 1 \in 1 .. Len(dir)
        BY <1>1, <3>1, <3>4
      <4> QED
        BY <1>1, <1>7, <3>1, <3>2, <4>1
    <3> QED
      BY <3>3, <3>4
  <2>3. k \in 1 .. Len(s) + 1 - Len(two) /\ 1 \in Nat \ {0}
    BY <1>1, <1>2, <1>7
  <2> HIDE DEF k
  <2>4. Find(s, two, 1) = k
    BY <1>2, <1>6, <2>1, <2>2, <2>3, FindFirst
  <2> QED
    BY <2>4 DEF k
<1>9. Cut(s) = p
  <2>1. SubSeq(s, 1, Len(dir)) = dir
    <3> DEFINE d == SubSeq(s, 1, Len(dir))
    <3>1. 1 \in 1 .. Len(s) + 1 /\ Len(dir) \in 1 - 1 .. Len(s) /\ Len(dir) - 1 + 1 = Len(dir)
      BY <1>1, <1>7
    <3>2. d \in Seq(Signs) /\ Len(d) = Len(dir) /\ \A i \in 1 .. Len(dir) : d[i] = s[1 + i - 1]
      BY <1>6, <3>1, Part
    <3>3. \A i \in 1 .. Len(dir) : 1 + i - 1 = i
      BY <1>1
    <3> HIDE DEF d
    <3>4. d = dir
      BY <1>1, <1>7, <3>2, <3>3, SameString
    <3> QED
      BY <3>4 DEF d
  <2>2. SubSeq(s, Len(dir) + 3, Len(s)) = name
    <3> DEFINE a == Len(dir) + 3
               d == SubSeq(s, a, Len(s))
    <3>1. a \in 1 .. Len(s) + 1 /\ Len(s) \in a - 1 .. Len(s) /\ Len(s) - a + 1 = Len(name)
      BY <1>1, <1>7
    <3>2. \A i \in 1 .. Len(name) : a + i - 1 = Len(dir) + 2 + i
      BY <1>1
    <3> HIDE DEF a
    <3>3. d \in Seq(Signs) /\ Len(d) = Len(name) /\ \A i \in 1 .. Len(name) : d[i] = s[a + i - 1]
      BY <1>6, <3>1, Part
    <3> HIDE DEF d
    <3>4. \A i \in 1 .. Len(name) : d[i] = name[i]
      BY <1>7, <3>2, <3>3
    <3>5. d = name
      BY <1>1, <3>3, <3>4, SameString
    <3> QED
      BY <3>5 DEF d, a
  <2>3. (Len(dir) + 1) - 1 = Len(dir) /\ (Len(dir) + 1) + Len(two) = Len(dir) + 3 /\ Len(dir) + 1 # 0
    BY <1>1, <1>2
  <2>4. Cut(s) = SubSeq(s, 1, (Len(dir) + 1) - 1) \o one
                   \o SubSeq(s, (Len(dir) + 1) + Len(two), Len(s))
    BY <1>8, <2>3
  <2> QED
    BY <1>3, <2>1, <2>2, <2>3, <2>4
<1>10. Cut(p) = p
  BY <1>4
<1>11. Find(one, two, 1) = 0
  <2>1. 1 \in Nat \ {0} /\ \A k \in 1 .. Len(one) + 1 - Len(two) : ~ Occurs(one, two, k)
    BY <1>2
  <2> QED
    BY <1>2, <2>1, FindNone
<1>12. Len(s) \in Nat /\ Len(s) # 0
  BY <1>1, <1>7
<1> HIDE DEF Cut
<1>13. w = [n \in 0 .. Len(s) |-> IF n = 0 THEN s ELSE Cut(w[n - 1])]
  <2>1. ASSUME NEW n \in 0 .. Len(s) PROVE w[n] = IF n = 0 THEN s ELSE Cut(w[n - 1])
    <3>1. CASE n = 0
      BY <1>12, <3>1
    <3>2. CASE n # 0
      <4>1. n - 1 \in 0 .. Len(s)
        BY <1>12, <3>2
      <4>2. w[n - 1] \in {s, p} /\ w[n] = p
        BY <3>2, <4>1
      <4> QED
        BY <1>9, <1>10, <3>2, <4>2
    <3> QED
      BY <3>1, <3>2
  <2>2. w = [n \in 0 .. Len(s) |-> w[n]]
    OBVIOUS
  <2> HIDE DEF w
  <2> QED
    BY <2>1, <2>2
<1> DEFINE left == CHOOSE f : f = [n \in 0 .. Len(s) |-> IF n = 0 THEN s ELSE Cut(f[n - 1])]
<1>14. left = [n \in 0 .. Len(s) |-> IF n = 0 THEN s ELSE Cut(left[n - 1])]
  <2> HIDE DEF w
  <2> QED
    BY <1>13
<1>15. UpdateAll(s, two, one) = left[Len(s)]
  BY <1>11 DEF UpdateAll, Cut
<1> HIDE DEF left, w
<1>16. \A n \in 1 .. Len(s) : left[n] = p
  <2> DEFINE bad == {n \in 1 .. Len(s) : left[n] # p}
  <2> SUFFICES ASSUME bad # {} PROVE FALSE
    OBVIOUS
  <2>1. bad \in SUBSET Nat
    BY <1>12
  <2>2. PICK m \in bad : \A n \in bad : m <= n
    BY <2>1, Least
  <2>3. m \in 1 .. Len(s) /\ left[m] # p
    BY <2>2
  <2>4. left[m] = Cut(left[m - 1])
    BY <1>12, <1>14, <2>3
  <2>5. CASE m = 1
    <3>1. left[0] = s
      BY <1>12, <1>14
    <3> QED
      BY <1>9, <2>3, <2>4, <2>5, <3>1
  <2>6. CASE m # 1
    <3>1. m - 1 \in 1 .. Len(s) /\ ~ m <= m - 1
      BY <1>12, <2>3, <2>6
    <3>2. left[m - 1] = p
      BY <2>2, <3>1
    <3> QED
      BY <1>10, <2>3, <2>4, <3>2
  <2> QED
    BY <2>5, <2>6
<1>17. left[Len(s)] = p
  BY <1>12, <1>16
<1> QED
  BY <1>5, <1>15, <1>17 DEF p

\* A string that is put together from a place on, out of a part and what is put
\* together from a later place on, is put together from every place on.
Onward(N, nxt) == \A k \in 1 .. N : nxt[k] = 0 \/ nxt[k] \in k + 1 .. N

Joined(f, N, nxt, base, pre) ==
  \A k \in 1 .. N : f[k] = IF nxt[k] = 0 THEN base[k] ELSE pre[k] \o f[nxt[k]]

LEMMA Descent ==
  ASSUME NEW T, NEW N \in Nat, NEW nxt \in [1 .. N -> Nat],
         NEW base \in [1 .. N -> Seq(T)], NEW pre \in [1 .. N -> Seq(T)],
         Onward(N, nxt)
  PROVE  \E f \in [1 .. N -> Seq(T)] : Joined(f, N, nxt, base, pre)
<1> DEFINE Step(f, k) == IF nxt[k] = 0 THEN base[k] ELSE pre[k] \o f[nxt[k]]
           Good(j) == \E f \in [1 .. N -> Seq(T)] :
                        \A k \in 1 .. N : k > N - j => f[k] = Step(f, k)
           bad == {j \in 0 .. N : ~ Good(j)}
<1>1. ASSUME bad # {} PROVE FALSE
  <2>1. bad \in SUBSET Nat
    OBVIOUS
  <2>2. PICK m \in bad : \A j \in bad : m <= j
    BY <1>1, <2>1, Least
  <2>3. m \in 0 .. N /\ ~ Good(m)
    BY <2>2
  <2>4. CASE m = 0
    <3>1. Good(0)
      BY Zenon, SMT
    <3> QED
      BY <2>3, <2>4, <3>1
  <2>5. CASE m # 0
    <3>1. m - 1 \in 0 .. N /\ ~ m <= m - 1
      BY <2>3, <2>5
    <3>2. Good(m - 1)
      BY <2>2, <3>1
    <3>3. PICK f \in [1 .. N -> Seq(T)] :
                 \A k \in 1 .. N : k > N - (m - 1) => f[k] = Step(f, k)
      BY <3>2
    <3> DEFINE x == N - m + 1
               v == Step(f, x)
               g == [f EXCEPT ![x] = v]
    <3>4. x \in 1 .. N /\ (nxt[x] = 0 \/ nxt[x] \in x + 1 .. N)
      BY <2>3, <2>5 DEF Onward
    <3>5. v \in Seq(T)
      <4>1. CASE nxt[x] = 0
        BY <3>4, <4>1
      <4>2. CASE nxt[x] # 0
        <5>1. pre[x] \in Seq(T) /\ f[nxt[x]] \in Seq(T)
          BY <3>4, <4>2
        <5>2. pre[x] \o f[nxt[x]] \in Seq(T)
          BY <5>1, ConcatProperties
        <5> QED
          BY <4>2, <5>2
      <4> QED
        BY <4>1, <4>2
    <3> HIDE DEF v
    <3>6. g \in [1 .. N -> Seq(T)] /\ \A k \in 1 .. N : g[k] = IF k = x THEN v ELSE f[k]
      BY <3>4, <3>5
    <3> HIDE DEF g
    <3>7. ASSUME NEW k \in 1 .. N, k > N - m PROVE g[k] = Step(g, k)
      <4>1. nxt[k] = 0 \/ (nxt[k] \in 1 .. N /\ nxt[k] # x)
        <5>1. nxt[k] = 0 \/ nxt[k] \in k + 1 .. N
          BY DEF Onward
        <5>2. k \in 1 .. N /\ k >= x /\ m \in Nat /\ x \in Nat
          BY <2>3, <3>4, <3>7
        <5>3. ASSUME NEW j \in k + 1 .. N PROVE j \in 1 .. N /\ j # N - m + 1
          BY <5>2, <5>3
        <5> QED
          BY <5>1, <5>3
      <4>2. Step(g, k) = Step(f, k)
        BY <3>6, <4>1
      <4>3. CASE k = x
        BY <3>6, <4>2, <4>3 DEF v
      <4>4. CASE k # x
        <5>1. k > N - (m - 1)
          BY <2>3, <3>7, <4>4
        <5>2. f[k] = Step(f, k)
          BY <3>3, <5>1
        <5> QED
          BY <3>6, <4>2, <4>4, <5>2
      <4> QED
        BY <4>3, <4>4
    <3> HIDE DEF Step
    <3>8. Good(m)
      BY <3>6, <3>7
    <3> QED
      BY <2>3, <3>8
  <2> QED
    BY <2>4, <2>5
<1>2. Good(N)
  <2>1. N \in 0 .. N
    OBVIOUS
  <2> HIDE DEF Good
  <2> QED
    BY <1>1, <2>1
<1>3. PICK f \in [1 .. N -> Seq(T)] : \A k \in 1 .. N : k > N - N => f[k] = Step(f, k)
  BY <1>2
<1>4. \A k \in 1 .. N : f[k] = Step(f, k)
  <2>1. \A k \in 1 .. N : k > N - N
    OBVIOUS
  <2> HIDE DEF Step
  <2> QED
    BY <1>3, <2>1
<1> QED
  BY <1>4 DEF Joined

\* From each place: what is in front of the next place, the new string, and
\* what is put together behind it.
Replaced(f, s, old, new) ==
  \A k \in 1 .. Len(s) + 1 :
    f[k] = IF Find(s, old, k) = 0 THEN SubSeq(s, k, Len(s))
           ELSE SubSeq(s, k, Find(s, old, k) - 1) \o new \o f[Find(s, old, k) + Len(old)]

\* What UpdateStr returns is put together so.
LEMMA UpdateIs ==
  ASSUME NEW S, NEW s \in Seq(S), NEW old \in Seq(S), NEW new \in Seq(S), Len(old) > 0
  PROVE  \E f \in [1 .. Len(s) + 1 -> Seq(S)] :
           Replaced(f, s, old, new) /\ UpdateStr(s, old, new) = f[1]
<1> DEFINE N == Len(s) + 1
           Step(f, k) == LET i == Find(s, old, k)
                         IN IF i = 0 THEN SubSeq(s, k, Len(s))
                            ELSE SubSeq(s, k, i - 1) \o new \o f[i + Len(old)]
           nxt == [k \in 1 .. N |-> IF Find(s, old, k) = 0 THEN 0
                                    ELSE Find(s, old, k) + Len(old)]
           base == [k \in 1 .. N |-> SubSeq(s, k, Len(s))]
           pre == [k \in 1 .. N |-> IF Find(s, old, k) = 0 THEN <<>>
                                    ELSE SubSeq(s, k, Find(s, old, k) - 1) \o new]
<1>0. N \in Nat \ {0} /\ Len(s) \in Nat /\ Len(old) \in Nat \ {0}
  OBVIOUS
<1>1. ASSUME NEW k \in 1 .. N
      PROVE  \/ Find(s, old, k) = 0
             \/ Find(s, old, k) \in k .. Len(s) + 1 - Len(old)
  <2>1. k \in Nat \ {0}
    OBVIOUS
  <2> QED
    BY <2>1, FindIs
<1>2. nxt \in [1 .. N -> Nat] /\ \A k \in 1 .. N : nxt[k] = 0 \/ nxt[k] \in k + 1 .. N
  BY <1>0, <1>1
<1>3. base \in [1 .. N -> Seq(S)]
  <2>1. ASSUME NEW k \in 1 .. N PROVE SubSeq(s, k, Len(s)) \in Seq(S)
    <3>1. k \in 1 .. Len(s) + 1 /\ Len(s) \in k - 1 .. Len(s)
      BY <1>0
    <3> QED
      BY <3>1, Part
  <2> QED
    BY <2>1
<1>4. pre \in [1 .. N -> Seq(S)]
  <2>1. ASSUME NEW k \in 1 .. N, Find(s, old, k) # 0
        PROVE  SubSeq(s, k, Find(s, old, k) - 1) \o new \in Seq(S)
    <3> DEFINE b == Find(s, old, k) - 1
    <3>1. k \in 1 .. Len(s) + 1 /\ b \in k - 1 .. Len(s)
      BY <1>0, <1>1, <2>1
    <3> HIDE DEF b
    <3>2. SubSeq(s, k, b) \in Seq(S)
      BY <3>1, Part
    <3>3. SubSeq(s, k, b) \o new \in Seq(S)
      BY <3>2, ConcatProperties
    <3> QED
      BY <3>3 DEF b
  <2> QED
    BY <2>1
<1> HIDE DEF N
<1>5. PICK f \in [1 .. N -> Seq(S)] : Joined(f, N, nxt, base, pre)
  <2>1. N \in Nat /\ nxt \in [1 .. N -> Nat] /\ Onward(N, nxt)
    BY <1>0, <1>2 DEF Onward
  <2> HIDE DEF nxt, base, pre
  <2> QED
    BY <1>3, <1>4, <2>1, Descent
<1>6. ASSUME NEW g \in [1 .. N -> Seq(S)], NEW k \in 1 .. N
      PROVE  (IF nxt[k] = 0 THEN base[k] ELSE pre[k] \o g[nxt[k]]) = Step(g, k)
  <2>1. CASE Find(s, old, k) = 0
    BY <2>1
  <2>2. CASE Find(s, old, k) # 0
    <3>1. Find(s, old, k) + Len(old) # 0
      BY <1>0, <1>1, <2>2
    <3>2. nxt[k] # 0 /\ nxt[k] = Find(s, old, k) + Len(old)
      BY <2>2, <3>1
    <3> QED
      BY <2>2, <3>2
  <2> QED
    BY <2>1, <2>2
<1> HIDE DEF nxt, base, pre, Step
<1>7. \A k \in 1 .. N : f[k] = Step(f, k)
  BY <1>5, <1>6 DEF Joined
<1>8. f = [k \in 1 .. N |-> Step(f, k)]
  BY <1>7
<1> DEFINE from == CHOOSE g : g = [k \in 1 .. N |-> Step(g, k)]
<1>9. from = [k \in 1 .. N |-> Step(from, k)]
  BY <1>8
<1>10. UpdateStr(s, old, new) = from[1]
  BY DEF UpdateStr, Step, N
<1>11. \A k \in 1 .. N : from[k] = Step(from, k)
  <2> HIDE DEF from
  <2> QED
    BY <1>9
<1> HIDE DEF from
<1>12. \A k \in 1 .. N : from[k] = f[k]
  <2> DEFINE bad == {j \in 0 .. N - 1 : from[N - j] # f[N - j]}
  <2> SUFFICES ASSUME bad # {} PROVE FALSE
    <3>1. \A k \in 1 .. N : N - k \in 0 .. N - 1 /\ N - (N - k) = k
      BY <1>0
    <3> QED
      BY <3>1
  <2>1. bad \in SUBSET Nat
    OBVIOUS
  <2>2. PICK m \in bad : \A j \in bad : m <= j
    BY <2>1, Least
  <2> DEFINE k == N - m
  <2>3. m \in 0 .. N - 1 /\ k \in 1 .. N /\ from[k] # f[k]
    BY <1>0, <2>2
  <2>4. \A x \in k + 1 .. N : from[x] = f[x]
    <3> TAKE x \in k + 1 .. N
    <3>1. N - x \in 0 .. N - 1 /\ N - (N - x) = x /\ ~ m <= N - x
      BY <1>0, <2>3
    <3> QED
      BY <2>2, <3>1
  <2> HIDE DEF k
  <2>5. Step(from, k) = Step(f, k)
    <3>1. CASE Find(s, old, k) = 0
      BY <3>1 DEF Step
    <3>2. CASE Find(s, old, k) # 0
      <4>1. Find(s, old, k) + Len(old) \in k + 1 .. N
        BY <1>0, <1>1, <2>3, <3>2 DEF N
      <4> QED
        BY <2>4, <3>2, <4>1 DEF Step
    <3> QED
      BY <3>1, <3>2
  <2> QED
    BY <1>7, <1>11, <2>3, <2>5
<1>13. UpdateStr(s, old, new) = f[1]
  BY <1>0, <1>10, <1>12
<1> QED
  BY <1>5, <1>7, <1>13 DEF Step, N, Replaced

\* Numbers up to N have a greatest one.
LEMMA Greatest ==
  ASSUME NEW N \in Nat, NEW B \in SUBSET (1 .. N), B # {}
  PROVE  \E m \in B : \A k \in B : k <= m
<1> DEFINE C == {j \in Nat : N - j \in B}
<1>1. C # {}
  <2>1. PICK k \in B : TRUE
    OBVIOUS
  <2>2. k \in 1 .. N
    OBVIOUS
  <2>3. N - k \in Nat /\ N - (N - k) = k
    BY <2>2
  <2>4. N - k \in C
    BY <2>1, <2>3
  <2> QED
    BY <2>4
<1>2. C \in SUBSET Nat
  OBVIOUS
<1>3. PICK j \in C : \A i \in C : j <= i
  BY <1>1, <1>2, Least
<1>4. ASSUME NEW k \in B PROVE k <= N - j
  <2>1. k \in 1 .. N
    OBVIOUS
  <2>2. N - k \in Nat /\ N - (N - k) = k
    BY <2>1
  <2>3. N - k \in C
    BY <2>2
  <2>4. j \in Nat /\ j <= N - k
    BY <1>3, <2>3
  <2> QED
    BY <2>1, <2>4
<1>5. N - j \in B
  BY <1>3
<1> QED
  BY <1>4, <1>5

\* A string is its part before a place where another occurs, that one, and the
\* part behind it.
LEMMA Joint ==
  ASSUME NEW S, NEW s \in Seq(S), NEW t \in Seq(S), NEW k \in 1 .. Len(s) + 1,
         NEW i \in k .. Len(s) + 1 - Len(t), Occurs(s, t, i)
  PROVE  SubSeq(s, k, i - 1) \o t \o SubSeq(s, i + Len(t), Len(s)) = SubSeq(s, k, Len(s))
<1> DEFINE n == Len(s)
           b == i - 1
           e == i + Len(t)
           x == SubSeq(s, k, b)
           y == SubSeq(s, e, n)
           z == SubSeq(s, k, n)
<1>0. Len(s) \in Nat /\ Len(t) \in Nat /\ k \in Nat /\ i \in Nat /\ k >= 1 /\ i >= k
  OBVIOUS
<1>1. x \in Seq(S) /\ Len(x) = i - k /\ \A j \in 1 .. i - k : x[j] = s[k + j - 1]
  <2>1. b \in k - 1 .. Len(s) /\ b - k + 1 = i - k
    BY <1>0
  <2> HIDE DEF b
  <2> QED
    BY <2>1, Part
<1>2. y \in Seq(S) /\ Len(y) = n - e + 1 /\ \A j \in 1 .. n - e + 1 : y[j] = s[e + j - 1]
  <2>1. e \in 1 .. Len(s) + 1 /\ n \in e - 1 .. Len(s)
    BY <1>0
  <2> HIDE DEF e
  <2> QED
    BY <2>1, Part
<1>3. z \in Seq(S) /\ Len(z) = n - k + 1 /\ \A j \in 1 .. n - k + 1 : z[j] = s[k + j - 1]
  <2>1. n \in k - 1 .. Len(s)
    BY <1>0
  <2> QED
    BY <2>1, Part
<1> DEFINE w == x \o t \o y
<1> HIDE DEF x, y, z
<1>4. /\ w \in Seq(S) /\ Len(w) = Len(x) + Len(t) + Len(y)
      /\ \A j \in 1 .. Len(x) + Len(t) + Len(y) :
           w[j] = IF j <= Len(x) THEN x[j]
                  ELSE IF j <= Len(x) + Len(t) THEN t[j - Len(x)]
                  ELSE y[j - Len(x) - Len(t)]
  <2>1. x \in Seq(S) /\ t \in Seq(S) /\ y \in Seq(S)
    BY <1>1, <1>2
  <2> QED
    BY <2>1, Three
<1> HIDE DEF w
<1>5. Len(w) = n - k + 1
  BY <1>0, <1>1, <1>2, <1>4
<1>6. ASSUME NEW j \in 1 .. n - k + 1 PROVE w[j] = z[j]
  <2>0. j \in 1 .. Len(x) + Len(t) + Len(y) /\ j \in Nat \ {0}
    BY <1>0, <1>4, <1>5
  <2>1. CASE j <= i - k
    <3>1. j \in 1 .. i - k
      BY <1>0, <2>0, <2>1
    <3> QED
      BY <1>1, <1>3, <1>4, <2>0, <2>1, <3>1
  <2>2. CASE j > i - k /\ j <= i - k + Len(t)
    <3> DEFINE h == j - (i - k)
    <3>1. h \in 1 .. Len(t) /\ i + h - 1 = k + j - 1
      BY <1>0, <2>0, <2>2
    <3>2. s[i + h - 1] = t[h]
      BY <3>1 DEF Occurs
    <3>3. ~ j <= Len(x) /\ j <= Len(x) + Len(t) /\ j - Len(x) = h
      BY <1>0, <1>1, <2>0, <2>2
    <3>4. w[j] = t[h]
      <4> HIDE DEF h
      <4> QED
        BY <1>4, <2>0, <3>3
    <3> HIDE DEF h
    <3> QED
      BY <1>3, <3>1, <3>2, <3>4
  <2>3. CASE j > i - k + Len(t)
    <3> DEFINE h == j - (i - k) - Len(t)
    <3>1. h \in 1 .. n - e + 1 /\ e + h - 1 = k + j - 1
      BY <1>0, <2>0, <2>3
    <3>2. ~ j <= Len(x) /\ ~ j <= Len(x) + Len(t) /\ j - Len(x) - Len(t) = h
      BY <1>0, <1>1, <2>0, <2>3
    <3>3. w[j] = y[h]
      <4> HIDE DEF h
      <4> QED
        BY <1>4, <2>0, <3>2
    <3> HIDE DEF h, e
    <3> QED
      BY <1>2, <1>3, <3>1, <3>3
  <2> QED
    BY <1>0, <2>0, <2>1, <2>2, <2>3
<1>7. w = z
  BY <1>0, <1>3, <1>4, <1>5, <1>6, SameString
<1> QED
  BY <1>7 DEF w, x, y, z

\* A path whose directory is replaced is the one under the other directory if
\* and only if what follows is what followed.
LEMMA Moved ==
  ASSUME NEW dir \in Dirs, NEW srv \in Dirs, NEW name \in Names, NEW t \in Seq(Signs)
  PROVE  LET p == Path(dir, name)
         IN SubSeq(p, 1, 0) \o srv \o t = Path(srv, name)
              <=> t = SubSeq(p, Len(dir) + 1, Len(p))
<1> DEFINE p == Path(dir, name)
           q == Path(srv, name)
           a == Len(dir) + 1
           e == SubSeq(p, 1, 0)
           r == SubSeq(p, a, Len(p))
           w == e \o srv \o t
           m == 1 + Len(name)
<1>1. /\ dir \in Seq(Signs) /\ Len(dir) \in Nat \ {0}
      /\ srv \in Seq(Signs) /\ Len(srv) \in Nat \ {0}
      /\ name \in Seq(Signs) /\ Len(name) \in Nat \ {0}
  BY DirsAre, NamesAre
<1>2. /\ p \in Seq(Signs) /\ Len(p) = Len(dir) + 1 + Len(name)
      /\ p[Len(dir) + 1] = "/"
      /\ \A i \in Len(dir) + 2 .. Len(dir) + 1 + Len(name) : p[i] = name[i - Len(dir) - 1]
  BY PathIs
<1>3. /\ q \in Seq(Signs) /\ Len(q) = Len(srv) + 1 + Len(name)
      /\ \A i \in 1 .. Len(srv) : q[i] = srv[i]
      /\ q[Len(srv) + 1] = "/"
      /\ \A i \in Len(srv) + 2 .. Len(srv) + 1 + Len(name) : q[i] = name[i - Len(srv) - 1]
  BY PathIs
<1> HIDE DEF p, q
<1>4. e \in Seq(Signs) /\ Len(e) = 0
  <2>1. 1 \in 1 .. Len(p) + 1 /\ 0 \in 1 - 1 .. Len(p) /\ 0 - 1 + 1 = 0
    BY <1>1, <1>2
  <2> QED
    BY <1>2, <2>1, Part
<1>5. r \in Seq(Signs) /\ Len(r) = m /\ \A i \in 1 .. m : r[i] = p[a + i - 1]
  <2>1. a \in 1 .. Len(p) + 1 /\ Len(p) \in a - 1 .. Len(p) /\ Len(p) - a + 1 = m
    BY <1>1, <1>2
  <2> HIDE DEF a, m
  <2> QED
    BY <1>2, <2>1, Part
<1> HIDE DEF e, r
<1>6. \A i \in 1 .. m : r[i] = q[Len(srv) + i]
  <2> TAKE i \in 1 .. m
  <2>1. CASE i = 1
    BY <1>1, <1>2, <1>3, <1>5, <2>1
  <2>2. CASE i # 1
    <3>1. /\ a + i - 1 \in Len(dir) + 2 .. Len(dir) + 1 + Len(name)
          /\ (a + i - 1) - Len(dir) - 1 = i - 1
          /\ Len(srv) + i \in Len(srv) + 2 .. Len(srv) + 1 + Len(name)
          /\ (Len(srv) + i) - Len(srv) - 1 = i - 1
      BY <1>1, <2>2
    <3>2. p[a + i - 1] = name[i - 1] /\ q[Len(srv) + i] = name[i - 1]
      <4> HIDE DEF a
      <4> QED
        BY <1>2, <1>3, <3>1
    <3> QED
      BY <1>5, <3>2
  <2> QED
    BY <2>1, <2>2
<1>7. /\ w \in Seq(Signs) /\ Len(w) = Len(e) + Len(srv) + Len(t)
      /\ \A i \in 1 .. Len(e) + Len(srv) + Len(t) :
           w[i] = IF i <= Len(e) THEN e[i]
                  ELSE IF i <= Len(e) + Len(srv) THEN srv[i - Len(e)]
                  ELSE t[i - Len(e) - Len(srv)]
  BY <1>1, <1>4, Three
<1> HIDE DEF w
<1>8. /\ Len(t) \in Nat /\ Len(w) = Len(srv) + Len(t)
      /\ \A i \in 1 .. Len(srv) : w[i] = srv[i]
      /\ \A i \in 1 .. Len(t) : w[Len(srv) + i] = t[i]
  <2>1. Len(t) \in Nat /\ Len(w) = Len(srv) + Len(t)
    BY <1>1, <1>4, <1>7
  <2>2. ASSUME NEW i \in 1 .. Len(srv) PROVE w[i] = srv[i]
    <3>1. i \in 1 .. Len(e) + Len(srv) + Len(t) /\ ~ i <= Len(e) /\ i <= Len(e) + Len(srv) /\ i - Len(e) = i
      BY <1>1, <1>4, <2>1
    <3> QED
      BY <1>7, <3>1
  <2>3. ASSUME NEW i \in 1 .. Len(t) PROVE w[Len(srv) + i] = t[i]
    <3> DEFINE k == Len(srv) + i
    <3>1. /\ k \in 1 .. Len(e) + Len(srv) + Len(t) /\ ~ k <= Len(e) /\ ~ k <= Len(e) + Len(srv)
          /\ k - Len(e) - Len(srv) = i
      BY <1>1, <1>4, <2>1
    <3> HIDE DEF k
    <3>2. w[k] = t[i]
      BY <1>7, <3>1
    <3> QED
      BY <3>2 DEF k
  <2> QED
    BY <2>1, <2>2, <2>3
<1>9. ASSUME w = q PROVE t = r
  <2>1. Len(t) = m
    BY <1>1, <1>3, <1>8, <1>9
  <2>2. \A i \in 1 .. Len(t) : t[i] = r[i]
    BY <1>6, <1>8, <1>9, <2>1
  <2>3. Len(t) = Len(r)
    BY <1>5, <2>1
  <2> QED
    BY <1>5, <2>2, <2>3, SameString
<1>10. ASSUME t = r PROVE w = q
  <2>0. Len(t) = m
    BY <1>5, <1>10
  <2>1. Len(w) = Len(q)
    BY <1>1, <1>3, <1>8, <2>0
  <2>2. ASSUME NEW i \in 1 .. Len(w) PROVE w[i] = q[i]
    <3>1. CASE i <= Len(srv)
      <4>1. i \in 1 .. Len(srv)
        BY <1>1, <1>8, <3>1
      <4> QED
        BY <1>3, <1>8, <4>1
    <3>2. CASE i > Len(srv)
      <4> DEFINE j == i - Len(srv)
      <4>1. j \in 1 .. Len(t) /\ j \in 1 .. m /\ i = Len(srv) + j
        BY <1>1, <1>5, <1>8, <1>10, <3>2
      <4> HIDE DEF j
      <4> QED
        BY <1>6, <1>8, <1>10, <4>1
    <3> QED
      BY <1>1, <1>8, <3>1, <3>2
  <2> QED
    BY <1>3, <1>7, <2>1, <2>2, SameString
<1>11. w = q <=> t = r
  BY <1>9, <1>10
<1> QED
  BY <1>11 DEF w, q, r, e, p

\* A path begins with its directory.
LEMMA FoundFirst ==
  ASSUME NEW dir \in Dirs, NEW name \in Names
  PROVE  Find(Path(dir, name), dir, 1) = 1
<1> DEFINE p == Path(dir, name)
<1>1. dir \in Seq(Signs) /\ Len(dir) \in Nat \ {0} /\ Len(name) \in Nat \ {0}
  BY DirsAre, NamesAre
<1>2. /\ p \in Seq(Signs) /\ Len(p) = Len(dir) + 1 + Len(name)
      /\ \A i \in 1 .. Len(dir) : p[i] = dir[i]
  BY PathIs
<1>3. Occurs(p, dir, 1)
  <2>1. \A j \in 1 .. Len(dir) : 1 + j - 1 = j
    BY <1>1
  <2> QED
    BY <1>2, <2>1 DEF Occurs
<1>4. 1 \in Nat \ {0} /\ 1 \in 1 .. Len(p) + 1 - Len(dir) /\ \A j \in 1 .. 1 - 1 : ~ Occurs(p, dir, j)
  BY <1>1, <1>2
<1> HIDE DEF p
<1>5. Find(p, dir, 1) = 1
  BY <1>1, <1>2, <1>3, <1>4, FindFirst
<1> QED
  BY <1>5 DEF p

\* Where the file server stores a file is where a merge looks for it if and
\* only if the directory is not in what follows it, or is the server's.
LEMMA StoredIs ==
  ASSUME NEW dir \in Dirs, NEW srv \in Dirs, NEW name \in Names
  PROVE  ServerName(Path(dir, name), dir, srv) = Path(srv, name)
           <=> Find(Path(dir, name), dir, Len(dir) + 1) = 0 \/ dir = srv
<1> DEFINE p == Path(dir, name)
           n == Len(p)
           d == Len(dir)
           u == Len(srv)
           a == d + 1
           r == SubSeq(p, a, n)
<1>1. /\ dir \in Seq(Signs) /\ Len(dir) \in Nat \ {0}
      /\ srv \in Seq(Signs) /\ Len(srv) \in Nat \ {0}
      /\ name \in Seq(Signs) /\ Len(name) \in Nat \ {0}
  BY DirsAre, NamesAre
<1>2. /\ p \in Seq(Signs) /\ n = d + 1 + Len(name)
      /\ \A i \in 1 .. Len(dir) : p[i] = dir[i]
  BY PathIs
<1>3. Find(p, dir, 1) = 1
  BY FoundFirst
<1>4. ServerName(p, dir, srv) = UpdateStr(p, dir, srv)
  BY DEF ServerName
<1>5. \A t \in Seq(Signs) : SubSeq(p, 1, 0) \o srv \o t = Path(srv, name) <=> t = r
  BY Moved
<1> HIDE DEF p
<1>0. n \in Nat /\ d \in Nat \ {0} /\ u \in Nat \ {0} /\ a \in 1 .. n + 1 /\ a \in Nat \ {0} /\ a <= n
  BY <1>1, <1>2
<1>20. PICK f \in [1 .. n + 1 -> Seq(Signs)] :
         Replaced(f, p, dir, srv) /\ UpdateStr(p, dir, srv) = f[1]
  <2>1. p \in Seq(Signs) /\ dir \in Seq(Signs) /\ srv \in Seq(Signs) /\ Len(dir) > 0
    BY <1>1, <1>2
  <2> QED
    BY <2>1, UpdateIs
<1>6. /\ \A k \in 1 .. n + 1 :
           f[k] = IF Find(p, dir, k) = 0 THEN SubSeq(p, k, n)
                  ELSE SubSeq(p, k, Find(p, dir, k) - 1) \o srv
                         \o f[Find(p, dir, k) + d]
      /\ UpdateStr(p, dir, srv) = f[1]
  BY <1>20 DEF Replaced
<1>7. f[1] = SubSeq(p, 1, 0) \o srv \o f[a]
  <2>1. 1 \in 1 .. n + 1 /\ 1 - 1 = 0 /\ 1 + d = a /\ 1 # 0
    BY <1>0
  <2>2. f[1] = SubSeq(p, 1, 1 - 1) \o srv \o f[1 + d]
    BY <1>3, <1>6, <2>1
  <2> QED
    BY <2>1, <2>2
<1>8. ServerName(p, dir, srv) = Path(srv, name) <=> f[a] = r
  <2>1. f[a] \in Seq(Signs)
    BY <1>0, <1>6
  <2> QED
    BY <1>4, <1>5, <1>6, <1>7, <2>1
<1>9. ASSUME NEW k \in 1 .. n + 1
      PROVE  \/ Find(p, dir, k) = 0
             \/ /\ Find(p, dir, k) \in k .. n + 1 - d
                /\ Occurs(p, dir, Find(p, dir, k))
  <2>1. k \in Nat \ {0}
    BY <1>0
  <2> QED
    BY <1>1, <1>2, <2>1, FindIs
<1>10. \A k \in 1 .. n + 1 : SubSeq(p, k, n) \in Seq(Signs) /\ Len(SubSeq(p, k, n)) = n - k + 1
  <2> TAKE k \in 1 .. n + 1
  <2>1. n \in k - 1 .. n /\ k \in 1 .. Len(p) + 1
    BY <1>0
  <2> QED
    BY <1>2, <2>1, Part
\* Nothing is left of the difference when the two directories are the same.
<1>11. ASSUME dir = srv PROVE f[a] = r
  <2> DEFINE bad == {k \in 1 .. n + 1 : f[k] # SubSeq(p, k, n)}
  <2>1. ASSUME bad # {} PROVE FALSE
    <3>1. n + 1 \in Nat /\ bad \in SUBSET (1 .. n + 1)
      BY <1>0
    <3>2. PICK k \in bad : \A j \in bad : j <= k
      BY <2>1, <3>1, Greatest
    <3>3. k \in 1 .. n + 1 /\ f[k] # SubSeq(p, k, n)
      BY <3>2
    <3> DEFINE i == Find(p, dir, k)
    <3>4. i # 0
      BY <1>6, <3>3
    <3>5. i \in k .. n + 1 - d /\ Occurs(p, dir, i)
      BY <1>9, <3>3, <3>4
    <3>6. f[k] = SubSeq(p, k, i - 1) \o srv \o f[i + d]
      BY <1>6, <3>3, <3>4
    <3> HIDE DEF i
    <3>7. i + d \in 1 .. n + 1 /\ ~ i + d <= k
      BY <1>0, <3>3, <3>5
    <3>8. f[i + d] = SubSeq(p, i + d, n)
      BY <3>2, <3>7
    <3>9. SubSeq(p, k, i - 1) \o dir \o SubSeq(p, i + Len(dir), Len(p)) = SubSeq(p, k, Len(p))
      <4>1. k \in 1 .. Len(p) + 1 /\ i \in k .. Len(p) + 1 - Len(dir) /\ Occurs(p, dir, i)
        BY <3>3, <3>5
      <4> HIDE DEF n, d
      <4> QED
        BY <1>1, <1>2, <4>1, Joint
    <3> QED
      BY <1>11, <3>3, <3>6, <3>8, <3>9
  <2> QED
    BY <1>0, <2>1
\* What is put together from a place on is longer the longer the directory is.
<1>12. \A k \in 1 .. n + 1 : /\ u >= d => Len(f[k]) >= n - k + 1
                             /\ u <= d => Len(f[k]) <= n - k + 1
  <2> DEFINE bad == {k \in 1 .. n + 1 : ~ (/\ u >= d => Len(f[k]) >= n - k + 1
                                           /\ u <= d => Len(f[k]) <= n - k + 1)}
  <2> SUFFICES ASSUME bad # {} PROVE FALSE
    OBVIOUS
  <2>1. n + 1 \in Nat /\ bad \in SUBSET (1 .. n + 1)
    BY <1>0
  <2>2. PICK k \in bad : \A j \in bad : j <= k
    BY <2>1, Greatest
  <2>3. k \in 1 .. n + 1 /\ ~ (/\ u >= d => Len(f[k]) >= n - k + 1
                               /\ u <= d => Len(f[k]) <= n - k + 1)
    BY <2>2
  <2> DEFINE i == Find(p, dir, k)
  <2>4. CASE i = 0
    <3>1. f[k] = SubSeq(p, k, n)
      BY <1>6, <2>3, <2>4
    <3>2. Len(f[k]) = n - k + 1
      BY <1>10, <2>3, <3>1
    <3> QED
      BY <1>0, <2>3, <3>2
  <2>5. CASE i # 0
    <3>1. i \in k .. n + 1 - d
      BY <1>9, <2>3, <2>5
    <3>2. f[k] = SubSeq(p, k, i - 1) \o srv \o f[i + d]
      BY <1>6, <2>3, <2>5
    <3> HIDE DEF i
    <3>3. i + d \in 1 .. n + 1 /\ ~ i + d <= k
      BY <1>0, <2>3, <3>1
    <3>4. /\ u >= d => Len(f[i + d]) >= n - (i + d) + 1
          /\ u <= d => Len(f[i + d]) <= n - (i + d) + 1
      BY <2>2, <3>3
    <3> DEFINE x == SubSeq(p, k, i - 1)
    <3>5. x \in Seq(Signs) /\ Len(x) = i - k
      <4> DEFINE b == i - 1
      <4>1. k \in 1 .. Len(p) + 1 /\ b \in k - 1 .. Len(p) /\ b - k + 1 = i - k
        BY <1>0, <2>3, <3>1
      <4> HIDE DEF b
      <4>2. Len(SubSeq(p, k, b)) = i - k /\ SubSeq(p, k, b) \in Seq(Signs)
        BY <1>2, <4>1, Part
      <4> QED
        BY <4>2 DEF b
    <3>6. f[i + d] \in Seq(Signs)
      BY <1>6, <3>3
    <3>7. Len(f[k]) = (i - k) + u + Len(f[i + d])
      <4> HIDE DEF x
      <4> DEFINE y == f[i + d]
      <4>1. x \in Seq(Signs) /\ srv \in Seq(Signs) /\ y \in Seq(Signs)
        BY <1>1, <3>5, <3>6
      <4> HIDE DEF y
      <4>2. Len(x \o srv \o y) = Len(x) + Len(srv) + Len(y)
        BY <4>1, Three
      <4> QED
        BY <3>2, <3>5, <4>2 DEF x, y
    <3>8. Len(f[i + d]) \in Nat
      BY <3>6
    <3> DEFINE L == Len(f[k])
               M == Len(f[i + d])
    <3>9. n \in Int /\ d \in Int /\ u \in Int /\ k \in Int /\ i \in Int
      BY <1>0, <2>3, <3>1
    <3>10. L = (i - k) + u + M /\ M \in Int
      BY <3>7, <3>8
    <3>11. u >= d => M >= n - (i + d) + 1
      BY <3>4
    <3>12. u <= d => M <= n - (i + d) + 1
      BY <3>4
    <3>13. ~ (/\ u >= d => L >= n - k + 1
              /\ u <= d => L <= n - k + 1)
      BY <2>3
    <3> HIDE DEF n, d, u, L, M
    <3> QED
      BY <3>9, <3>10, <3>11, <3>12, <3>13
  <2> QED
    BY <2>4, <2>5
<1>13. ASSUME f[a] = r, Find(p, dir, a) # 0 PROVE dir = srv
  <2> DEFINE i == Find(p, dir, a)
             x == SubSeq(p, a, i - 1)
             y == f[i + d]
  <2>1. i \in a .. n + 1 - d /\ Occurs(p, dir, i)
    BY <1>0, <1>9, <1>13
  <2>2. f[a] = x \o srv \o y
    BY <1>0, <1>6, <1>13
  <2> HIDE DEF i
  <2>3. i + d \in 1 .. n + 1
    BY <1>0, <2>1
  <2>4. x \in Seq(Signs) /\ Len(x) = i - a
    <3> DEFINE b == i - 1
    <3>1. a \in 1 .. Len(p) + 1 /\ b \in a - 1 .. Len(p) /\ b - a + 1 = i - a
      BY <1>0, <2>1
    <3> HIDE DEF b, a
    <3>2. Len(SubSeq(p, a, b)) = i - a /\ SubSeq(p, a, b) \in Seq(Signs)
      BY <1>2, <3>1, Part
    <3> QED
      BY <3>2 DEF b
  <2>5. /\ y \in Seq(Signs) /\ Len(y) \in Nat
        /\ u >= d => Len(y) >= n - (i + d) + 1
        /\ u <= d => Len(y) <= n - (i + d) + 1
    BY <1>6, <1>12, <2>3
  <2> HIDE DEF x, y
  <2>6. /\ Len(x \o srv \o y) = Len(x) + Len(srv) + Len(y)
        /\ \A j \in 1 .. Len(x) + Len(srv) + Len(y) :
             (x \o srv \o y)[j] = IF j <= Len(x) THEN x[j]
                                  ELSE IF j <= Len(x) + Len(srv) THEN srv[j - Len(x)]
                                  ELSE y[j - Len(x) - Len(srv)]
    <3>1. x \in Seq(Signs) /\ srv \in Seq(Signs) /\ y \in Seq(Signs)
      BY <1>1, <2>4, <2>5
    <3> QED
      BY <3>1, Three
  <2>7. Len(r) = n - a + 1 /\ \A j \in 1 .. n - a + 1 : r[j] = p[a + j - 1]
    <3>1. a \in 1 .. Len(p) + 1 /\ n \in a - 1 .. Len(p)
      BY <1>0
    <3> QED
      BY <1>2, <3>1, Part
  <2>8. r = x \o srv \o y
    BY <1>13, <2>2
  <2> HIDE DEF r
  <2>9. (i - a) + u + Len(y) = n - a + 1
    BY <2>4, <2>6, <2>7, <2>8
  <2>10. u = d
    <3> HIDE DEF n, d, u
    <3>1. i \in Int /\ a \in Int
      BY <1>0, <2>1
    <3> HIDE DEF a
    <3> QED
      BY <1>0, <2>5, <2>9, <3>1
  <2>11. ASSUME NEW j \in 1 .. d PROVE srv[j] = dir[j]
    <3> DEFINE k == (i - a) + j
    <3>1. /\ k \in 1 .. Len(x) + Len(srv) + Len(y) /\ ~ k <= Len(x) /\ k <= Len(x) + Len(srv)
          /\ k - Len(x) = j /\ k \in 1 .. n - a + 1 /\ a + k - 1 = i + j - 1
      <4>1. i \in Int /\ a \in Int /\ j \in Int /\ j >= 1 /\ j <= d /\ i >= a /\ i <= n + 1 - d
        BY <1>0, <2>1
      <4> HIDE DEF n, d, a
      <4> QED
        BY <1>0, <2>4, <2>5, <2>9, <2>10, <4>1
    <3> HIDE DEF k
    <3>2. r[k] = srv[j]
      BY <2>6, <2>8, <3>1
    <3>3. r[k] = p[i + j - 1]
      BY <2>7, <3>1
    <3>4. p[i + j - 1] = dir[j]
      BY <2>1 DEF Occurs
    <3> QED
      BY <3>2, <3>3, <3>4
  <2>12. Len(srv) = Len(dir) /\ \A j \in 1 .. Len(srv) : srv[j] = dir[j]
    BY <2>10, <2>11
  <2> QED
    BY <1>1, <2>12, SameString
<1>14. Find(p, dir, a) = 0 => f[a] = r
  BY <1>0, <1>6
<1>15. ServerName(p, dir, srv) = Path(srv, name) <=> Find(p, dir, a) = 0 \/ dir = srv
  BY <1>8, <1>11, <1>13, <1>14
<1> QED
  BY <1>15 DEF p

\* What the client reports is where a merge looks for it.
LEMMA ReportedIs ==
  ASSUME NEW dir \in Dirs, NEW srv \in Dirs, NEW name \in Names
  PROVE  ReportedName(Path(dir, name), dir, srv) = Path(srv, name)
<1> DEFINE p == Path(dir, name)
           r == SubSeq(p, Len(dir) + 1, Len(p))
<1>1. /\ dir \in Seq(Signs) /\ Len(dir) \in Nat \ {0} /\ Len(name) \in Nat \ {0}
  BY DirsAre, NamesAre
<1>2. /\ p \in Seq(Signs) /\ Len(p) = Len(dir) + 1 + Len(name)
      /\ \A i \in 1 .. Len(dir) : p[i] = dir[i]
  BY PathIs
<1>3. r \in Seq(Signs)
  <2> DEFINE a == Len(dir) + 1
  <2>1. a \in 1 .. Len(p) + 1 /\ Len(p) \in a - 1 .. Len(p)
    BY <1>1, <1>2
  <2> HIDE DEF a, p
  <2>2. SubSeq(p, a, Len(p)) \in Seq(Signs)
    BY <1>2, <2>1, Part
  <2> QED
    BY <2>2 DEF a
<1>4. SubSeq(p, 1, 0) \o srv \o r = Path(srv, name)
  BY <1>3, Moved
<1>5. Find(p, dir, 1) = 1
  BY FoundFirst
<1> HIDE DEF p
<1>6. ReportedName(p, dir, srv) = SubSeq(p, 1, 1 - 1) \o srv \o SubSeq(p, 1 + Len(dir), Len(p))
  <2> DEFINE At(i) == IF i = 0 THEN p
                      ELSE SubSeq(p, 1, i - 1) \o srv \o SubSeq(p, i + Len(dir), Len(p))
  <2>1. ReportedName(p, dir, srv) = At(Find(p, dir, 1))
    BY DEF ReportedName
  <2>2. At(1) = SubSeq(p, 1, 1 - 1) \o srv \o SubSeq(p, 1 + Len(dir), Len(p))
    OBVIOUS
  <2> HIDE DEF At
  <2> QED
    BY <1>5, <2>1, <2>2
<1>7. 1 - 1 = 0 /\ 1 + Len(dir) = Len(dir) + 1
  BY <1>1
<1>8. ReportedName(p, dir, srv) = Path(srv, name)
  BY <1>4, <1>6, <1>7
<1> QED
  BY <1>8 DEF p

\* An uploaded file is where a merge looks for it if and only if its directory
\* is not written again in what follows it, or is the server's directory.
LEMMA NamesDoAgree == NamesAgree
<1> SUFFICES ASSUME NEW dir \in Dirs, NEW srvpath \in Dirs, NEW name \in Names
             PROVE  LET path == Entry(dir, name)
                        stored == ServerName(path, dir, srvpath)
                    IN /\ ReportedName(path, dir, srvpath) = AskedName(name, srvpath)
                       /\ stored = AskedName(name, srvpath)
                            <=> Find(path, dir, Len(dir) + 1) = 0 \/ dir = srvpath
  BY DEF NamesAgree
<1>1. Entry(dir, name) = Path(dir, name)
  BY EntryIs
<1>2. AskedName(name, srvpath) = Path(srvpath, name)
  BY DEF AskedName, Path
<1> QED
  BY <1>1, <1>2, StoredIs, ReportedIs

\* A file that has been stored is where its client reports it to be and a merge
\* looks for it, in those cases and in no other (fileserver.cpp:386,
\* client/main.cpp:618-626, 764-765).
THEOREM StoredAsAskedAlways == Spec => []StoredAsAsked
<1>1. StoredAsAsked
  BY NamesDoAgree DEF StoredAsAsked
<1> QED
  BY <1>1, PTL

-----------------------------------------------------------------------------
(* The files that a rule selects.                                          *)

\* There is one string from every place on, and no other.
Only(f, N, nxt, base, pre) ==
  \A g : Joined(g, N, nxt, base, pre) => \A k \in 1 .. N : f[k] = g[k]

\* The string of Descent is the only one.
LEMMA DescentOnce ==
  ASSUME NEW T, NEW N \in Nat, NEW nxt \in [1 .. N -> Nat],
         NEW base \in [1 .. N -> Seq(T)], NEW pre \in [1 .. N -> Seq(T)],
         Onward(N, nxt)
  PROVE  \E f \in [1 .. N -> Seq(T)] :
           Joined(f, N, nxt, base, pre) /\ Only(f, N, nxt, base, pre)
<1>1. PICK f \in [1 .. N -> Seq(T)] : Joined(f, N, nxt, base, pre)
  BY Descent
<1>2. ASSUME NEW g, Joined(g, N, nxt, base, pre) PROVE \A k \in 1 .. N : f[k] = g[k]
  <2> DEFINE bad == {k \in 1 .. N : f[k] # g[k]}
  <2> SUFFICES ASSUME bad # {} PROVE FALSE
    OBVIOUS
  <2>1. bad \in SUBSET (1 .. N)
    OBVIOUS
  <2>2. PICK k \in bad : \A j \in bad : j <= k
    BY <2>1, Greatest
  <2>3. k \in 1 .. N /\ f[k] # g[k] /\ (nxt[k] = 0 \/ nxt[k] \in k + 1 .. N)
    BY <2>2 DEF Onward
  <2>4. /\ f[k] = IF nxt[k] = 0 THEN base[k] ELSE pre[k] \o f[nxt[k]]
        /\ g[k] = IF nxt[k] = 0 THEN base[k] ELSE pre[k] \o g[nxt[k]]
    BY <1>1, <1>2, <2>3 DEF Joined
  <2>5. CASE nxt[k] = 0
    BY <2>3, <2>4, <2>5
  <2>6. CASE nxt[k] # 0
    <3>1. nxt[k] \in k + 1 .. N
      BY <2>3, <2>6
    <3>2. \A j \in k + 1 .. N : j \in 1 .. N /\ ~ j <= k
      BY <2>3
    <3>3. \A j \in k + 1 .. N : f[j] = g[j]
      BY <2>2, <3>2
    <3>4. f[nxt[k]] = g[nxt[k]]
      BY <3>1, <3>3
    <3> QED
      BY <2>3, <2>4, <2>6, <3>4
  <2> QED
    BY <2>5, <2>6
<1> QED
  BY <1>1, <1>2 DEF Only

\* A function whose values follow one from the other is there for all numbers
\* up to a bound.
Stepped(f, M, a, nx) == f[0] = a /\ \A j \in 1 .. M : f[j] = nx[j][f[j - 1]]

\* Such a function exists.
LEMMA Ascent ==
  ASSUME NEW A, NEW M \in Nat, NEW a \in A, NEW nx \in [1 .. M -> [A -> A]]
  PROVE  \E f \in [0 .. M -> A] : Stepped(f, M, a, nx)
<1> DEFINE Good(n) == \E f \in [0 .. M -> A] :
                        f[0] = a /\ \A j \in 1 .. n : f[j] = nx[j][f[j - 1]]
           bad == {n \in 0 .. M : ~ Good(n)}
<1>1. ASSUME bad # {} PROVE FALSE
  <2>1. bad \in SUBSET Nat
    OBVIOUS
  <2>2. PICK n \in bad : \A j \in bad : n <= j
    BY <1>1, <2>1, Least
  <2>3. n \in 0 .. M /\ ~ Good(n)
    BY <2>2
  <2>4. CASE n = 0
    <3> DEFINE f == [j \in 0 .. M |-> a]
    <3>1. f \in [0 .. M -> A] /\ f[0] = a
      OBVIOUS
    <3>2. \A j \in 1 .. n : FALSE
      BY <2>4
    <3> HIDE DEF f
    <3> QED
      BY <2>3, <3>1, <3>2
  <2>5. CASE n # 0
    <3>1. n - 1 \in 0 .. M /\ ~ n <= n - 1 /\ n \in 1 .. M
      BY <2>3, <2>5
    <3>2. Good(n - 1)
      BY <2>2, <3>1
    <3>3. PICK f \in [0 .. M -> A] :
                 f[0] = a /\ \A j \in 1 .. n - 1 : f[j] = nx[j][f[j - 1]]
      BY <3>2
    <3> DEFINE v == nx[n][f[n - 1]]
               g == [f EXCEPT ![n] = v]
    <3>4. v \in A
      BY <3>1
    <3> HIDE DEF v
    <3>5. g \in [0 .. M -> A] /\ \A j \in 0 .. M : g[j] = IF j = n THEN v ELSE f[j]
      BY <3>1, <3>4
    <3> HIDE DEF g
    <3>6. ASSUME NEW j \in 1 .. n PROVE g[j] = nx[j][g[j - 1]]
      <4>1. j \in 0 .. M /\ j - 1 \in 0 .. M /\ j - 1 # n
        BY <3>1
      <4>2. g[j - 1] = f[j - 1]
        BY <3>5, <4>1
      <4>3. CASE j = n
        BY <3>5, <4>1, <4>2, <4>3 DEF v
      <4>4. CASE j # n
        <5>1. j \in 1 .. n - 1
          BY <3>1, <4>4
        <5> QED
          BY <3>3, <3>5, <4>1, <4>2, <4>4, <5>1
      <4> QED
        BY <4>3, <4>4
    <3>7. g[0] = a
      BY <3>1, <3>3, <3>5
    <3>8. Good(n)
      BY <3>5, <3>6, <3>7
    <3> QED
      BY <2>3, <3>8
  <2> QED
    BY <2>4, <2>5
<1>2. Good(M)
  <2>1. M \in 0 .. M
    OBVIOUS
  <2> HIDE DEF Good
  <2> QED
    BY <1>1, <2>1
<1> QED
  BY <1>2 DEF Stepped

\* The beginning of a string.
LEMMA PrefixIs ==
  ASSUME NEW S, NEW s \in Seq(S), NEW t \in Seq(S)
  PROVE  IsPrefix(s, t) <=> Len(s) <= Len(t) /\ Occurs(t, s, 1)
<1>0. Len(s) \in Nat /\ Len(t) \in Nat
  OBVIOUS
<1>1. ASSUME Len(s) <= Len(t)
      PROVE  SubSeq(s, 1, Len(s)) = SubSeq(t, 1, Len(s)) <=> Occurs(t, s, 1)
  <2> DEFINE n == Len(s)
             p == SubSeq(t, 1, n)
             q == SubSeq(s, 1, n)
  <2>1. 1 \in 1 .. Len(s) + 1 /\ 1 \in 1 .. Len(t) + 1 /\ n \in 1 - 1 .. Len(s) /\ n \in 1 - 1 .. Len(t) /\ n - 1 + 1 = n
    BY <1>0, <1>1
  <2>2. p \in Seq(S) /\ Len(p) = n /\ \A j \in 1 .. n : p[j] = t[1 + j - 1]
    <3> HIDE DEF n
    <3> QED
      BY <2>1, Part
  <2>3. q \in Seq(S) /\ Len(q) = n /\ \A j \in 1 .. n : q[j] = s[1 + j - 1]
    <3> HIDE DEF n
    <3> QED
      BY <2>1, Part
  <2> HIDE DEF p, q
  <2>4. q = p <=> \A j \in 1 .. n : q[j] = p[j]
    BY <2>2, <2>3, SameString
  <2>5. \A j \in 1 .. n : 1 + j - 1 = j
    BY <1>0
  <2>6. q = p <=> Occurs(t, s, 1)
    BY <2>2, <2>3, <2>4, <2>5 DEF Occurs
  <2> QED
    BY <2>6 DEF p, q
<1> QED
  BY <1>1 DEF IsPrefix

\* The end of a string.
LEMMA SuffixIs ==
  ASSUME NEW S, NEW s \in Seq(S), NEW t \in Seq(S)
  PROVE  IsSuffix(s, t) <=> Len(s) <= Len(t) /\ Occurs(t, s, Len(t) - Len(s) + 1)
<1> DEFINE a == Reverse(s)
           b == Reverse(t)
<1>0. Len(s) \in Nat /\ Len(t) \in Nat
  OBVIOUS
<1>1. a \in Seq(S) /\ Len(a) = Len(s) /\ \A i \in 1 .. Len(s) : a[i] = s[Len(s) - i + 1]
  <2>1. \A i \in 1 .. Len(s) : Len(s) - i + 1 \in 1 .. Len(s)
    BY <1>0
  <2> QED
    BY <1>0, <2>1 DEF Reverse
<1>2. b \in Seq(S) /\ Len(b) = Len(t) /\ \A i \in 1 .. Len(t) : b[i] = t[Len(t) - i + 1]
  <2>1. \A i \in 1 .. Len(t) : Len(t) - i + 1 \in 1 .. Len(t)
    BY <1>0
  <2> QED
    BY <1>0, <2>1 DEF Reverse
<1> HIDE DEF a, b
<1>3. IsPrefix(a, b) <=> Len(s) <= Len(t) /\ Occurs(b, a, 1)
  BY <1>1, <1>2, PrefixIs
<1>4. ASSUME Len(s) <= Len(t)
      PROVE  Occurs(b, a, 1) <=> Occurs(t, s, Len(t) - Len(s) + 1)
  <2>1. ASSUME NEW i \in 1 .. Len(s)
        PROVE  /\ Len(s) - i + 1 \in 1 .. Len(s)
               /\ b[1 + i - 1] = t[(Len(t) - Len(s) + 1) + (Len(s) - i + 1) - 1]
               /\ a[i] = s[Len(s) - i + 1]
    <3>1. /\ Len(s) - i + 1 \in 1 .. Len(s) /\ 1 + i - 1 = i /\ i \in 1 .. Len(t)
          /\ (Len(t) - Len(s) + 1) + (Len(s) - i + 1) - 1 = Len(t) - i + 1
      BY <1>0, <1>4
    <3> QED
      BY <1>1, <1>2, <3>1
  <2>2. ASSUME Occurs(t, s, Len(t) - Len(s) + 1) PROVE Occurs(b, a, 1)
    BY <1>1, <2>1, <2>2 DEF Occurs
  <2>3. ASSUME Occurs(b, a, 1), NEW j \in 1 .. Len(s)
        PROVE  t[(Len(t) - Len(s) + 1) + j - 1] = s[j]
    <3> DEFINE i == Len(s) - j + 1
    <3>1. i \in 1 .. Len(s) /\ Len(s) - i + 1 = j
      BY <1>0
    <3> HIDE DEF i
    <3>2. b[1 + i - 1] = a[i]
      BY <1>1, <2>3, <3>1 DEF Occurs
    <3> QED
      BY <2>1, <3>1, <3>2
  <2> QED
    BY <2>2, <2>3 DEF Occurs
<1> QED
  BY <1>3, <1>4 DEF IsSuffix, a, b

\* From each place: the field up to the next separator, and those behind it.
Split(f, s, sep) ==
  \A k \in 1 .. Len(s) + 1 :
    f[k] = IF Find(s, sep, k) = 0 THEN <<SubSeq(s, k, Len(s))>>
           ELSE <<SubSeq(s, k, Find(s, sep, k) - 1)>> \o f[Find(s, sep, k) + Len(sep)]

\* What SplitToCmd returns is split so.
LEMMA SplitIs ==
  ASSUME NEW S, NEW s \in Seq(S), NEW sep \in Seq(S), Len(sep) > 0
  PROVE  \E f \in [1 .. Len(s) + 1 -> Seq(Seq(S))] :
           Split(f, s, sep) /\ SplitToCmd(s, sep) = f[1]
<1> DEFINE N == Len(s) + 1
           Step(f, k) == LET i == Find(s, sep, k)
                         IN IF i = 0 THEN <<SubSeq(s, k, Len(s))>>
                            ELSE <<SubSeq(s, k, i - 1)>> \o f[i + Len(sep)]
           nxt == [k \in 1 .. N |-> IF Find(s, sep, k) = 0 THEN 0
                                    ELSE Find(s, sep, k) + Len(sep)]
           base == [k \in 1 .. N |-> <<SubSeq(s, k, Len(s))>>]
           pre == [k \in 1 .. N |-> IF Find(s, sep, k) = 0 THEN <<>>
                                    ELSE <<SubSeq(s, k, Find(s, sep, k) - 1)>>]
<1>0. N \in Nat \ {0} /\ Len(s) \in Nat /\ Len(sep) \in Nat \ {0}
  OBVIOUS
<1>1. ASSUME NEW k \in 1 .. N
      PROVE  \/ Find(s, sep, k) = 0
             \/ Find(s, sep, k) \in k .. Len(s) + 1 - Len(sep)
  <2>1. k \in Nat \ {0}
    OBVIOUS
  <2> QED
    BY <2>1, FindIs
<1>2. nxt \in [1 .. N -> Nat] /\ \A k \in 1 .. N : nxt[k] = 0 \/ nxt[k] \in k + 1 .. N
  BY <1>0, <1>1
<1>3. base \in [1 .. N -> Seq(Seq(S))]
  <2>1. ASSUME NEW k \in 1 .. N PROVE <<SubSeq(s, k, Len(s))>> \in Seq(Seq(S))
    <3>1. k \in 1 .. Len(s) + 1 /\ Len(s) \in k - 1 .. Len(s)
      BY <1>0
    <3>2. SubSeq(s, k, Len(s)) \in Seq(S)
      BY <3>1, Part
    <3> QED
      BY <3>2
  <2> QED
    BY <2>1
<1>4. pre \in [1 .. N -> Seq(Seq(S))]
  <2>1. ASSUME NEW k \in 1 .. N, Find(s, sep, k) # 0
        PROVE  <<SubSeq(s, k, Find(s, sep, k) - 1)>> \in Seq(Seq(S))
    <3> DEFINE b == Find(s, sep, k) - 1
    <3>1. k \in 1 .. Len(s) + 1 /\ b \in k - 1 .. Len(s)
      BY <1>0, <1>1, <2>1
    <3> HIDE DEF b
    <3>2. SubSeq(s, k, b) \in Seq(S)
      BY <3>1, Part
    <3>3. <<SubSeq(s, k, b)>> \in Seq(Seq(S))
      BY <3>2
    <3> QED
      BY <3>3 DEF b
  <2> QED
    BY <2>1
<1> HIDE DEF N
<1>5. N \in Nat /\ nxt \in [1 .. N -> Nat] /\ Onward(N, nxt)
  BY <1>0, <1>2 DEF Onward
<1>6. PICK f \in [1 .. N -> Seq(Seq(S))] :
               Joined(f, N, nxt, base, pre) /\ Only(f, N, nxt, base, pre)
  <2> HIDE DEF nxt, base, pre
  <2> QED
    BY <1>3, <1>4, <1>5, DescentOnce
<1>7. ASSUME NEW g, NEW k \in 1 .. N
      PROVE  (IF nxt[k] = 0 THEN base[k] ELSE pre[k] \o g[nxt[k]]) = Step(g, k)
  <2>1. CASE Find(s, sep, k) = 0
    BY <2>1
  <2>2. CASE Find(s, sep, k) # 0
    <3>1. Find(s, sep, k) + Len(sep) # 0
      BY <1>0, <1>1, <2>2
    <3>2. nxt[k] # 0 /\ nxt[k] = Find(s, sep, k) + Len(sep)
      BY <2>2, <3>1
    <3> QED
      BY <2>2, <3>2
  <2> QED
    BY <2>1, <2>2
<1> HIDE DEF nxt, base, pre, Step
<1>8. \A k \in 1 .. N : f[k] = Step(f, k)
  BY <1>6, <1>7 DEF Joined
<1>9. f = [k \in 1 .. N |-> Step(f, k)]
  BY <1>8
<1> DEFINE from == CHOOSE g : g = [k \in 1 .. N |-> Step(g, k)]
<1>10. from = [k \in 1 .. N |-> Step(from, k)]
  BY <1>9
<1>11. SplitToCmd(s, sep) = from[1]
  BY DEF SplitToCmd, Step, N
<1> HIDE DEF from
<1>12. \A k \in 1 .. N : from[k] = Step(from, k)
  BY <1>10
<1>13. Joined(from, N, nxt, base, pre)
  BY <1>7, <1>12 DEF Joined
<1>14. \A k \in 1 .. N : from[k] = f[k]
  BY <1>6, <1>13 DEF Only
<1>15. SplitToCmd(s, sep) = f[1]
  BY <1>0, <1>11, <1>14
<1> QED
  BY <1>6, <1>8, <1>15 DEF Step, N, Split

\* The parts, which begin at the places c, are what s is from place k on, with
\* an x between them and none in them.
Cuts(parts, c, s, x, k) ==
  /\ Len(parts) >= 1 /\ Len(c) = Len(parts)
  /\ c[1] = k /\ c[Len(parts)] + Len(parts[Len(parts)]) = Len(s) + 1
  /\ \A j \in 1 .. Len(parts) - 1 : /\ c[j + 1] = c[j] + Len(parts[j]) + 1
                                    /\ s[c[j] + Len(parts[j])] = x
  /\ \A j \in 1 .. Len(parts) : \A h \in 1 .. Len(parts[j]) :
       s[c[j] + h - 1] = parts[j][h] /\ parts[j][h] # x

\* A sequence behind its first element.
LEMMA InFront ==
  ASSUME NEW T, NEW a \in T, NEW q \in Seq(T)
  PROVE  /\ <<a>> \o q \in Seq(T) /\ Len(<<a>> \o q) = Len(q) + 1
         /\ (<<a>> \o q)[1] = a
         /\ \A j \in 1 .. Len(q) : (<<a>> \o q)[j + 1] = q[j]
<1> DEFINE one == <<a>>
           r == one \o q
<1>1. one \in Seq(T) /\ Len(one) = 1 /\ one[1] = a /\ Len(q) \in Nat
  OBVIOUS
<1> HIDE DEF one
<1>2. /\ r \in Seq(T) /\ Len(r) = Len(one) + Len(q)
      /\ \A j \in 1 .. Len(one) + Len(q) :
           r[j] = IF j <= Len(one) THEN one[j] ELSE q[j - Len(one)]
  BY <1>1, ConcatProperties
<1> HIDE DEF r
<1>3. Len(r) = Len(q) + 1 /\ r[1] = a
  BY <1>1, <1>2
<1>4. ASSUME NEW j \in 1 .. Len(q) PROVE r[j + 1] = q[j]
  <2> DEFINE i == j + 1
  <2>1. i \in 1 .. Len(one) + Len(q) /\ ~ i <= Len(one) /\ i - Len(one) = j
    BY <1>1
  <2> HIDE DEF i
  <2>2. r[i] = q[j]
    BY <1>2, <2>1
  <2> QED
    BY <2>2 DEF i
<1> QED
  BY <1>2, <1>3, <1>4 DEF r, one

\* A first part of what is cut into parts behind it.
LEMMA CutOff ==
  ASSUME NEW S, NEW s \in Seq(S), NEW x, NEW k \in Nat \ {0}, NEW i \in k .. Len(s),
         NEW p \in Seq(S), Len(p) = i - k, s[i] = x,
         \A h \in 1 .. i - k : s[k + h - 1] = p[h] /\ p[h] # x,
         NEW q \in Seq(Seq(S)), NEW d \in Seq(Nat \ {0}), Cuts(q, d, s, x, i + 1)
  PROVE  Cuts(<<p>> \o q, <<k>> \o d, s, x, k)
<1> DEFINE r == <<p>> \o q
           c == <<k>> \o d
           m == Len(q)
<1>0. m \in Nat /\ m >= 1 /\ Len(d) = m /\ k \in Nat /\ i \in Nat /\ Len(s) \in Nat
  BY DEF Cuts
<1>1. Len(r) = m + 1 /\ r[1] = p /\ \A j \in 1 .. m : r[j + 1] = q[j]
  <2> DEFINE T == Seq(S)
  <2>1. p \in T /\ q \in Seq(T)
    OBVIOUS
  <2> HIDE DEF T
  <2>2. Len(r) = Len(q) + 1 /\ r[1] = p /\ \A j \in 1 .. Len(q) : r[j + 1] = q[j]
    BY <2>1, InFront
  <2> HIDE DEF r
  <2> QED
    BY <2>2
<1>2. Len(c) = m + 1 /\ c[1] = k /\ \A j \in 1 .. m : c[j + 1] = d[j]
  <2>1. k \in Nat \ {0} /\ d \in Seq(Nat \ {0})
    OBVIOUS
  <2>2. Len(c) = Len(d) + 1 /\ c[1] = k /\ \A j \in 1 .. Len(d) : c[j + 1] = d[j]
    BY <2>1, InFront
  <2> HIDE DEF c
  <2> QED
    BY <1>0, <2>2
<1> HIDE DEF r, c
<1>3. /\ d[1] = i + 1 /\ d[m] + Len(q[m]) = Len(s) + 1
      /\ \A j \in 1 .. m - 1 : d[j + 1] = d[j] + Len(q[j]) + 1 /\ s[d[j] + Len(q[j])] = x
      /\ \A j \in 1 .. m : \A h \in 1 .. Len(q[j]) :
           s[d[j] + h - 1] = q[j][h] /\ q[j][h] # x
  BY DEF Cuts
<1> HIDE DEF m
<1>4. c[m + 1] + Len(r[m + 1]) = Len(s) + 1
  <2>1. m \in 1 .. m
    BY <1>0
  <2> QED
    BY <1>1, <1>2, <1>3, <2>1
<1>5. ASSUME NEW j \in 1 .. m
      PROVE  c[j + 1] = c[j] + Len(r[j]) + 1 /\ s[c[j] + Len(r[j])] = x
  <2>1. CASE j = 1
    <3>1. k + (i - k) = i /\ 1 \in 1 .. m /\ Len(r[1]) = i - k
      BY <1>0, <1>1
    <3>2. c[1 + 1] = i + 1
      BY <1>2, <1>3, <3>1
    <3> QED
      BY <1>1, <1>2, <2>1, <3>1, <3>2
  <2>2. CASE j # 1
    <3> DEFINE l == j - 1
    <3>1. l \in 1 .. m - 1 /\ l \in 1 .. m /\ j = l + 1
      BY <1>0, <2>2
    <3>2. c[j] = d[l] /\ r[j] = q[l] /\ c[j + 1] = d[j]
      BY <1>1, <1>2, <3>1
    <3> HIDE DEF l
    <3> QED
      BY <1>3, <3>1, <3>2
  <2> QED
    BY <2>1, <2>2
<1>6. ASSUME NEW j \in 1 .. m + 1, NEW h \in 1 .. Len(r[j])
      PROVE  s[c[j] + h - 1] = r[j][h] /\ r[j][h] # x
  <2>1. CASE j = 1
    BY <1>1, <1>2, <2>1
  <2>2. CASE j # 1
    <3> DEFINE l == j - 1
    <3>1. l \in 1 .. m /\ j = l + 1
      BY <1>0, <2>2
    <3>2. c[j] = d[l] /\ r[j] = q[l]
      BY <1>1, <1>2, <3>1
    <3> HIDE DEF l
    <3> QED
      BY <1>3, <3>1, <3>2
  <2> QED
    BY <2>1, <2>2
<1>7. /\ Len(r) >= 1 /\ Len(c) = Len(r) /\ c[1] = k
      /\ c[Len(r)] + Len(r[Len(r)]) = Len(s) + 1
      /\ Len(r) - 1 = m
  BY <1>0, <1>1, <1>2, <1>4
<1>8. Cuts(r, c, s, x, k)
  BY <1>1, <1>5, <1>6, <1>7 DEF Cuts
<1> QED
  BY <1>8 DEF r, c

\* SplitToCmd cuts a string at every x.
LEMMA SplitCuts ==
  ASSUME NEW S, NEW s \in Seq(S), NEW x \in S
  PROVE  /\ SplitToCmd(s, <<x>>) \in Seq(Seq(S))
         /\ \E c \in Seq(Nat \ {0}) : Cuts(SplitToCmd(s, <<x>>), c, s, x, 1)
<1> DEFINE n == Len(s)
           sep == <<x>>
<1>0. n \in Nat /\ sep \in Seq(S) /\ Len(sep) = 1 /\ sep[1] = x
  OBVIOUS
<1> HIDE DEF sep
<1>1. PICK f \in [1 .. Len(s) + 1 -> Seq(Seq(S))] :
             Split(f, s, sep) /\ SplitToCmd(s, sep) = f[1]
  <2>1. s \in Seq(S) /\ sep \in Seq(S) /\ Len(sep) > 0
    BY <1>0
  <2> QED
    BY <2>1, SplitIs
<1>2. \A k \in 1 .. n + 1 : Occurs(s, sep, k) <=> s[k] = x
  <2> TAKE k \in 1 .. n + 1
  <2>1. k + 1 - 1 = k /\ 1 \in 1 .. 1 /\ \A j \in 1 .. 1 : j = 1
    BY <1>0
  <2> QED
    BY <1>0, <2>1 DEF Occurs
<1> DEFINE Good(k) == \E c \in Seq(Nat \ {0}) : Cuts(f[k], c, s, x, k)
           bad == {k \in 1 .. n + 1 : ~ Good(k)}
<1>3. ASSUME bad # {} PROVE FALSE
  <2>1. n + 1 \in Nat /\ bad \in SUBSET (1 .. n + 1)
    BY <1>0
  <2>2. PICK k \in bad : \A j \in bad : j <= k
    BY <1>3, <2>1, Greatest
  <2>3. k \in 1 .. n + 1 /\ k \in Nat \ {0} /\ ~ Good(k)
    BY <2>2
  <2> DEFINE i == Find(s, sep, k)
  <2>4. \/ i = 0 /\ \A j \in k .. n : s[j] # x
        \/ i \in k .. n /\ s[i] = x /\ \A j \in k .. i - 1 : s[j] # x
    <3>1. \/ /\ i = 0
             /\ \A j \in k .. Len(s) + 1 - Len(sep) : ~ Occurs(s, sep, j)
          \/ /\ i \in k .. Len(s) + 1 - Len(sep)
             /\ Occurs(s, sep, i)
             /\ \A j \in k .. i - 1 : ~ Occurs(s, sep, j)
      BY <1>0, <2>3, FindIs
    <3>2. Len(s) + 1 - Len(sep) = n
      BY <1>0
    <3> HIDE DEF i
    <3>3. CASE i = 0
      <4>1. \A j \in k .. n : j \in 1 .. n + 1
        BY <1>0, <2>3
      <4>2. 0 \notin k .. n
        BY <2>3
      <4> QED
        BY <1>2, <3>1, <3>2, <3>3, <4>1, <4>2
    <3>4. CASE i # 0
      <4>1. i \in k .. n /\ Occurs(s, sep, i) /\ \A j \in k .. i - 1 : ~ Occurs(s, sep, j)
        BY <3>1, <3>2, <3>4
      <4>2. i \in 1 .. n + 1 /\ \A j \in k .. i - 1 : j \in 1 .. n + 1
        BY <1>0, <2>3, <4>1
      <4> QED
        BY <1>2, <4>1, <4>2
    <3> QED
      BY <3>3, <3>4
  <2>5. CASE i = 0
    <3> DEFINE p == SubSeq(s, k, n)
    <3>1. \A j \in k .. n : s[j] # x
      BY <2>3, <2>4, <2>5
    <3>2. p \in Seq(S) /\ Len(p) = n - k + 1 /\ \A h \in 1 .. n - k + 1 : p[h] = s[k + h - 1]
      <4>1. k \in 1 .. Len(s) + 1 /\ n \in k - 1 .. Len(s)
        BY <1>0, <2>3
      <4> QED
        BY <4>1, Part
    <3>3. f[k] = <<p>>
      BY <1>1, <2>3, <2>5 DEF Split
    <3> HIDE DEF p
    <3>4. <<k>> \in Seq(Nat \ {0}) /\ Len(<<k>>) = 1 /\ <<k>>[1] = k /\ Len(<<p>>) = 1 /\ <<p>>[1] = p
      BY <2>3
    <3>5. \A h \in 1 .. Len(p) : s[k + h - 1] = p[h] /\ p[h] # x
      <4> TAKE h \in 1 .. Len(p)
      <4>1. h \in 1 .. n - k + 1 /\ k + h - 1 \in k .. n
        BY <1>0, <2>3, <3>2
      <4> QED
        BY <3>1, <3>2, <4>1
    <3>6. k + Len(p) = Len(s) + 1
      BY <1>0, <2>3, <3>2
    <3> DEFINE r == <<p>>
               c == <<k>>
    <3>7. Len(r) = 1 /\ r[1] = p /\ Len(c) = 1 /\ c[1] = k /\ c \in Seq(Nat \ {0})
      BY <3>4
    <3> HIDE DEF r, c
    <3>8. Cuts(r, c, s, x, k)
      <4>1. \A j \in 1 .. Len(r) : j = 1
        BY <3>7
      <4>2. \A j \in 1 .. Len(r) - 1 : FALSE
        BY <3>7
      <4> QED
        BY <3>5, <3>6, <3>7, <4>1, <4>2 DEF Cuts
    <3>9. Good(k)
      BY <3>3, <3>7, <3>8 DEF r
    <3> QED
      BY <2>3, <3>9
  <2>6. CASE i # 0
    <3> DEFINE p == SubSeq(s, k, i - 1)
    <3>1. i \in k .. n /\ s[i] = x /\ \A j \in k .. i - 1 : s[j] # x
      BY <2>4, <2>6
    <3>2. f[k] = <<p>> \o f[i + 1]
      BY <1>0, <1>1, <2>3, <2>6 DEF Split
    <3> HIDE DEF i
    <3>3. i + 1 \in 1 .. n + 1 /\ ~ i + 1 <= k /\ i \in k .. Len(s)
      BY <1>0, <2>3, <3>1
    <3>4. Good(i + 1)
      BY <2>2, <3>3
    <3>5. PICK d \in Seq(Nat \ {0}) : Cuts(f[i + 1], d, s, x, i + 1)
      BY <3>4
    <3>6. p \in Seq(S) /\ Len(p) = i - k /\ \A h \in 1 .. i - k : p[h] = s[k + h - 1]
      <4> DEFINE b == i - 1
      <4>1. k \in 1 .. Len(s) + 1 /\ b \in k - 1 .. Len(s) /\ b - k + 1 = i - k
        BY <1>0, <2>3, <3>1
      <4> HIDE DEF b
      <4>2. LET w == SubSeq(s, k, b)
            IN w \in Seq(S) /\ Len(w) = b - k + 1 /\ \A h \in 1 .. b - k + 1 : w[h] = s[k + h - 1]
        BY <4>1, Part
      <4>3. LET w == SubSeq(s, k, b)
            IN w \in Seq(S) /\ Len(w) = i - k /\ \A h \in 1 .. i - k : w[h] = s[k + h - 1]
        BY <4>1, <4>2
      <4> QED
        BY <4>3 DEF b
    <3> HIDE DEF p
    <3>7. \A h \in 1 .. i - k : s[k + h - 1] = p[h] /\ p[h] # x
      <4> TAKE h \in 1 .. i - k
      <4>1. k + h - 1 \in k .. i - 1
        BY <1>0, <2>3, <3>1
      <4> QED
        BY <3>1, <3>6, <4>1
    <3> DEFINE q == f[i + 1]
    <3>8. q \in Seq(Seq(S))
      BY <1>1, <3>3
    <3>9. Cuts(q, d, s, x, i + 1)
      BY <3>5
    <3>10. Len(p) = i - k /\ s[i] = x
      BY <3>1, <3>6
    <3> HIDE DEF q
    <3>11. Cuts(<<p>> \o q, <<k>> \o d, s, x, k)
      BY <2>3, <3>3, <3>6, <3>7, <3>8, <3>9, <3>10, CutOff
    <3>12. <<k>> \o d \in Seq(Nat \ {0})
      <4>1. <<k>> \in Seq(Nat \ {0})
        BY <2>3
      <4> QED
        BY <4>1, ConcatProperties
    <3>13. f[k] = <<p>> \o q
      BY <3>2 DEF q
    <3>14. Good(k)
      BY <3>11, <3>12, <3>13
    <3> QED
      BY <2>3, <3>14
  <2> QED
    BY <2>5, <2>6
<1>4. 1 \in 1 .. n + 1 /\ 1 \in 1 .. Len(s) + 1
  BY <1>0
<1>5. Good(1)
  <2> HIDE DEF Good
  <2> QED
    BY <1>3, <1>4
<1>6. f[1] \in Seq(Seq(S))
  BY <1>1, <1>4
<1> QED
  BY <1>1, <1>5, <1>6 DEF sep

\* One without an x stays whole.
LEMMA SplitNone ==
  ASSUME NEW S, NEW s \in Seq(S), NEW x \in S, \A j \in 1 .. Len(s) : s[j] # x
  PROVE  SplitToCmd(s, <<x>>) = <<s>>
<1> DEFINE sep == <<x>>
           p == SubSeq(s, 1, Len(s))
<1>0. Len(s) \in Nat /\ sep \in Seq(S) /\ Len(sep) = 1 /\ sep[1] = x
  OBVIOUS
<1> HIDE DEF sep
<1>1. PICK f \in [1 .. Len(s) + 1 -> Seq(Seq(S))] :
             Split(f, s, sep) /\ SplitToCmd(s, sep) = f[1]
  <2>1. s \in Seq(S) /\ sep \in Seq(S) /\ Len(sep) > 0
    BY <1>0
  <2> QED
    BY <2>1, SplitIs
<1>2. Find(s, sep, 1) = 0
  <2>1. ASSUME NEW k \in 1 .. Len(s) + 1 - Len(sep) PROVE ~ Occurs(s, sep, k)
    <3>1. k \in 1 .. Len(s) /\ k + 1 - 1 = k /\ 1 \in 1 .. Len(sep)
      BY <1>0
    <3> QED
      BY <1>0, <3>1 DEF Occurs
  <2>2. 1 \in Nat \ {0}
    OBVIOUS
  <2> QED
    BY <1>0, <2>1, <2>2, FindNone
<1>3. f[1] = <<p>>
  <2>1. 1 \in 1 .. Len(s) + 1
    BY <1>0
  <2> QED
    BY <1>1, <1>2, <2>1 DEF Split
<1>4. p = s
  <2> DEFINE n == Len(s)
  <2>1. 1 \in 1 .. Len(s) + 1 /\ n \in 1 - 1 .. Len(s) /\ n - 1 + 1 = n
    BY <1>0
  <2>2. p \in Seq(S) /\ Len(p) = Len(s) /\ \A j \in 1 .. Len(s) : p[j] = s[1 + j - 1]
    BY <2>1, Part
  <2>3. \A j \in 1 .. Len(s) : 1 + j - 1 = j
    BY <1>0
  <2> HIDE DEF p
  <2>4. Len(p) = Len(s) /\ \A j \in 1 .. Len(p) : p[j] = s[j]
    BY <2>2, <2>3
  <2> QED
    BY <2>2, <2>4, SameString
<1> QED
  BY <1>1, <1>3, <1>4 DEF sep

\* Where the search goes on behind part j, when it begins at i; 0 if it fails.
Behind(name, parts, j, i) ==
  LET k == Find(name, parts[j], i)
  IN IF \/ j = 1 /\ ~ IsPrefix(parts[j], name)
        \/ j = Len(parts) /\ ~ IsSuffix(parts[j], name)
        \/ k = 0
     THEN 0 ELSE k + Len(parts[j])

Searched(after, name, parts) ==
  /\ after[0] = 1
  /\ \A j \in 1 .. Len(parts) :
       after[j] = IF after[j - 1] = 0 THEN 0 ELSE Behind(name, parts, j, after[j - 1])

\* A field matches if the search gets behind its last part.
LEMMA MatchFieldIs ==
  ASSUME NEW S, NEW name \in Seq(S), NEW parts \in Seq(Seq(S))
  PROVE  \E after \in [0 .. Len(parts) -> 0 .. Len(name) + 1] :
           Searched(after, name, parts) /\ (MatchField(name, parts) <=> after[Len(parts)] # 0)
<1> DEFINE m == Len(parts)
           A == 0 .. Len(name) + 1
           Step(f, j) == IF j = 0 THEN 1
                         ELSE IF f[j - 1] = 0 THEN 0 ELSE Behind(name, parts, j, f[j - 1])
           nx == [j \in 1 .. m |-> [i \in A |-> IF i = 0 THEN 0 ELSE Behind(name, parts, j, i)]]
<1>0. m \in Nat /\ Len(name) \in Nat /\ 1 \in A
  OBVIOUS
<1>1. ASSUME NEW j \in 1 .. m, NEW i \in A, i # 0 PROVE Behind(name, parts, j, i) \in A
  <2> DEFINE p == parts[j]
             k == Find(name, p, i)
  <2>1. p \in Seq(S) /\ Len(p) \in Nat
    OBVIOUS
  <2>2. i \in Nat \ {0}
    BY <1>1
  <2> HIDE DEF p
  <2>3. k = 0 \/ k \in i .. Len(name) + 1 - Len(p)
    BY <2>1, <2>2, FindIs
  <2> HIDE DEF k
  <2>4. k # 0 => k + Len(p) \in A
    BY <1>0, <2>1, <2>2, <2>3
  <2>5. Behind(name, parts, j, i) = 0 \/ (k # 0 /\ Behind(name, parts, j, i) = k + Len(p))
    BY DEF Behind, k, p
  <2> HIDE DEF A
  <2>6. 0 \in A
    BY <1>0 DEF A
  <2> QED
    BY <2>4, <2>5, <2>6
<1>2. nx \in [1 .. m -> [A -> A]]
  <2>1. 0 \in A
    BY <1>0
  <2> HIDE DEF A
  <2> QED
    BY <1>1, <2>1
<1>3. PICK f \in [0 .. m -> A] : Stepped(f, m, 1, nx)
  <2> HIDE DEF nx, A, m
  <2> QED
    BY <1>0, <1>2, Ascent
<1>4. \A j \in 0 .. m : f[j] = Step(f, j)
  <2> TAKE j \in 0 .. m
  <2>1. CASE j = 0
    BY <1>3, <2>1 DEF Stepped
  <2>2. CASE j # 0
    <3>1. j \in 1 .. m /\ j - 1 \in 0 .. m
      BY <1>0, <2>2
    <3>2. f[j] = nx[j][f[j - 1]] /\ f[j - 1] \in A
      BY <1>3, <3>1 DEF Stepped
    <3> HIDE DEF A
    <3>3. nx[j][f[j - 1]] = IF f[j - 1] = 0 THEN 0 ELSE Behind(name, parts, j, f[j - 1])
      BY <3>1, <3>2
    <3> QED
      BY <2>2, <3>2, <3>3
  <2> QED
    BY <2>1, <2>2
<1> HIDE DEF Step
<1>5. f = [j \in 0 .. m |-> Step(f, j)]
  BY <1>3, <1>4
<1> DEFINE after == CHOOSE g : g = [j \in 0 .. m |-> Step(g, j)]
<1>6. after = [j \in 0 .. m |-> Step(after, j)]
  BY <1>5
<1>7. MatchField(name, parts) <=> after[m] # 0
  BY DEF MatchField, Step, Behind
<1> HIDE DEF after
<1>8. \A j \in 0 .. m : after[j] = Step(after, j)
  BY <1>6
<1>9. \A j \in 0 .. m : after[j] = f[j]
  <2> DEFINE bad == {j \in 0 .. m : after[j] # f[j]}
  <2> SUFFICES ASSUME bad # {} PROVE FALSE
    OBVIOUS
  <2>1. bad \in SUBSET Nat
    BY <1>0
  <2>2. PICK j \in bad : \A k \in bad : j <= k
    BY <2>1, Least
  <2>3. j \in 0 .. m /\ after[j] # f[j]
    BY <2>2
  <2>4. CASE j = 0
    <3>1. Step(after, j) = 1 /\ Step(f, j) = 1
      BY <2>4 DEF Step
    <3> QED
      BY <1>4, <1>8, <2>3, <3>1
  <2>5. CASE j # 0
    <3>1. j - 1 \in 0 .. m /\ ~ j <= j - 1
      BY <1>0, <2>3, <2>5
    <3>2. after[j - 1] = f[j - 1]
      BY <2>2, <3>1
    <3>3. Step(after, j) = Step(f, j)
      BY <3>2 DEF Step
    <3> QED
      BY <1>4, <1>8, <2>3, <3>3
  <2> QED
    BY <2>4, <2>5
<1>10. MatchField(name, parts) <=> f[m] # 0
  BY <1>0, <1>7, <1>9
<1>11. Searched(f, name, parts)
  <2>1. 0 \in 0 .. m /\ f[0] = 1
    BY <1>0, <1>4 DEF Step
  <2>2. \A j \in 1 .. m : f[j] = IF f[j - 1] = 0 THEN 0 ELSE Behind(name, parts, j, f[j - 1])
    <3> TAKE j \in 1 .. m
    <3>1. j \in 0 .. m /\ j # 0
      BY <1>0
    <3> QED
      BY <1>4, <3>1 DEF Step
  <2> QED
    BY <2>1, <2>2 DEF Searched
<1> QED
  BY <1>10, <1>11

\* The parts of a string are inside it, one behind the other.
LEMMA CutsIn ==
  ASSUME NEW S, NEW s \in Seq(S), NEW x, NEW parts \in Seq(Seq(S)), NEW c \in Seq(Nat \ {0}),
         Cuts(parts, c, s, x, 1), NEW i \in 1 .. Len(parts)
  PROVE  /\ c[i] + Len(parts[i]) <= Len(s) + 1
         /\ \A j \in i + 1 .. Len(parts) : c[i] + Len(parts[i]) < c[j]
<1> DEFINE m == Len(parts)
           End(j) == c[j] + Len(parts[j])
<1>0. m \in Nat /\ Len(s) \in Nat /\ m \in 1 .. m /\ End(m) = Len(s) + 1
  BY DEF Cuts
<1>1. \A j \in 1 .. m : c[j] \in Nat /\ Len(parts[j]) \in Nat /\ End(j) \in Nat /\ c[j] <= End(j)
  <2> TAKE j \in 1 .. m
  <2>1. c[j] \in Nat /\ parts[j] \in Seq(S)
    BY DEF Cuts
  <2>2. Len(parts[j]) \in Nat
    BY <2>1
  <2> QED
    BY <2>1, <2>2
<1>2. \A j \in 1 .. m - 1 : c[j + 1] = End(j) + 1
  BY DEF Cuts
<1> HIDE DEF m, End
<1>3. \A j \in i + 1 .. m : End(i) < c[j]
  <2> DEFINE bad == {j \in i + 1 .. m : ~ End(i) < c[j]}
  <2> SUFFICES ASSUME bad # {} PROVE FALSE
    OBVIOUS
  <2>0. i \in 1 .. m
    BY DEF m
  <2>1. bad \in SUBSET Nat
    BY <2>0
  <2>2. PICK j \in bad : \A k \in bad : j <= k
    BY <2>1, Least
  <2>3. j \in i + 1 .. m /\ ~ End(i) < c[j]
    BY <2>2
  <2> DEFINE l == j - 1
  <2>4. l \in 1 .. m - 1 /\ l \in 1 .. m /\ j = l + 1 /\ l \in i .. m /\ ~ j <= l
    BY <1>0, <2>0, <2>3
  <2> HIDE DEF l
  <2>5. c[j] = End(l) + 1
    BY <1>2, <2>4
  <2>6. CASE l = i
    <3>1. End(i) \in Nat
      BY <1>1, <2>0
    <3> QED
      BY <2>3, <2>5, <2>6, <3>1
  <2>7. CASE l # i
    <3>1. l \in i + 1 .. m
      BY <1>0, <2>0, <2>4, <2>7
    <3>2. End(i) < c[l]
      BY <2>2, <2>4, <3>1
    <3>3. End(i) \in Nat /\ c[l] \in Nat /\ End(l) \in Nat /\ c[l] <= End(l)
      BY <1>1, <2>0, <2>4
    <3> QED
      BY <2>3, <2>5, <3>2, <3>3
  <2> QED
    BY <2>6, <2>7
<1>4. End(i) <= Len(s) + 1
  <2>0. i \in 1 .. m
    BY DEF m
  <2>1. CASE i = m
    BY <1>0, <2>1
  <2>2. CASE i # m
    <3>1. m \in i + 1 .. m
      BY <1>0, <2>0, <2>2
    <3>2. End(i) < c[m] /\ End(i) \in Nat /\ c[m] \in Nat /\ c[m] <= End(m)
      BY <1>0, <1>1, <1>3, <2>0, <3>1
    <3> QED
      BY <1>0, <3>2
  <2> QED
    BY <2>1, <2>2
<1> QED
  BY <1>3, <1>4 DEF m, End

\* Each place is in one of them, or at the end of one.
LEMMA CutsAll ==
  ASSUME NEW S, NEW s \in Seq(S), NEW x, NEW parts \in Seq(Seq(S)), NEW c \in Seq(Nat \ {0}),
         Cuts(parts, c, s, x, 1), NEW k \in 1 .. Len(s) + 1
  PROVE  \E j \in 1 .. Len(parts) : c[j] <= k /\ k <= c[j] + Len(parts[j])
<1> DEFINE m == Len(parts)
           B == {j \in 1 .. m : c[j] <= k}
<1>0. m \in Nat /\ m >= 1 /\ Len(s) \in Nat /\ c[1] = 1 /\ k \in Nat /\ k >= 1 /\ k <= Len(s) + 1
      /\ c[m] + Len(parts[m]) = Len(s) + 1
  BY DEF Cuts
<1>1. 1 \in B
  BY <1>0
<1>2. PICK j \in B : \A i \in B : i <= j
  <2>1. m \in Nat /\ B \in SUBSET (1 .. m) /\ B # {}
    BY <1>0, <1>1
  <2> HIDE DEF B
  <2> QED
    BY <2>1, Greatest
<1>3. j \in 1 .. m /\ c[j] <= k
  BY <1>2
<1>4. CASE j = m
  BY <1>0, <1>3, <1>4
<1>5. CASE j # m
  <2>1. j \in 1 .. m - 1 /\ j + 1 \in 1 .. m /\ ~ j + 1 <= j
    BY <1>0, <1>3, <1>5
  <2>2. c[j + 1] = c[j] + Len(parts[j]) + 1
    BY <2>1 DEF Cuts
  <2>3. ~ c[j + 1] <= k
    BY <1>2, <2>1
  <2>4. c[j] \in Nat /\ Len(parts[j]) \in Nat
    <3>1. c[j] \in Nat /\ parts[j] \in Seq(S)
      BY <1>3 DEF Cuts
    <3> QED
      BY <3>1
  <2>5. k <= c[j] + Len(parts[j])
    BY <1>0, <2>2, <2>3, <2>4
  <2> QED
    BY <1>3, <2>5
<1> QED
  BY <1>4, <1>5

\* The parts are in the name at the places b, from its beginning to its end and
\* one behind the other.
Laid(b, parts, name) ==
  /\ b[1] = 1 /\ b[Len(parts)] + Len(parts[Len(parts)]) = Len(name) + 1
  /\ \A j \in 1 .. Len(parts) : b[j] \in Nat \ {0} /\ Occurs(name, parts[j], b[j])
  /\ \A j \in 1 .. Len(parts) - 1 : b[j] + Len(parts[j]) <= b[j + 1]

\* None of them leaves the name.
LEMMA LaidIn ==
  ASSUME NEW S, NEW name \in Seq(S), NEW parts \in Seq(Seq(S)), Len(parts) >= 1,
         NEW b, Laid(b, parts, name), NEW i \in 1 .. Len(parts)
  PROVE  b[i] + Len(parts[i]) <= Len(name) + 1
<1> DEFINE m == Len(parts)
           End(j) == b[j] + Len(parts[j])
           bad == {j \in 1 .. m : ~ End(j) <= Len(name) + 1}
<1>0. m \in Nat /\ Len(name) \in Nat /\ End(m) = Len(name) + 1
  BY DEF Laid
<1>1. \A j \in 1 .. m : b[j] \in Nat /\ End(j) \in Nat /\ b[j] <= End(j)
  <2> TAKE j \in 1 .. m
  <2>1. b[j] \in Nat /\ parts[j] \in Seq(S)
    BY DEF Laid
  <2>2. Len(parts[j]) \in Nat
    BY <2>1
  <2> QED
    BY <2>1, <2>2
<1>2. \A j \in 1 .. m - 1 : End(j) <= b[j + 1]
  BY DEF Laid
<1> HIDE DEF End, m
<1> SUFFICES ASSUME bad # {} PROVE FALSE
  BY DEF End, m
<1>3. bad \in SUBSET (1 .. m)
  OBVIOUS
<1>4. PICK j \in bad : \A k \in bad : k <= j
  BY <1>0, <1>3, Greatest
<1>5. j \in 1 .. m /\ ~ End(j) <= Len(name) + 1
  BY <1>4
<1>6. j # m
  BY <1>0, <1>5
<1>7. j \in 1 .. m - 1 /\ j + 1 \in 1 .. m /\ ~ j + 1 <= j
  BY <1>0, <1>5, <1>6
<1>8. End(j + 1) <= Len(name) + 1
  BY <1>4, <1>7
<1>9. /\ End(j) <= b[j + 1] /\ b[j + 1] <= End(j + 1)
      /\ End(j) \in Nat /\ b[j + 1] \in Nat /\ End(j + 1) \in Nat
  BY <1>1, <1>2, <1>5, <1>7
<1> QED
  BY <1>0, <1>5, <1>8, <1>9

\* The places of a match lay the parts out.
LEMMA GlobLaid ==
  ASSUME NEW S, NEW name \in Seq(S), NEW field \in Seq(S), NEW parts \in Seq(Seq(S)),
         NEW c \in Seq(Nat \ {0}), Cuts(parts, c, field, "*", 1), Glob(name, field)
  PROVE  \E b : Laid(b, parts, name)
<1> DEFINE m == Len(parts)
           F == Len(field)
           L == Len(name)
<1>0. m \in Nat /\ m >= 1 /\ F \in Nat /\ L \in Nat /\ 1 \in 1 .. m /\ m \in 1 .. m
      /\ c[1] = 1 /\ c[m] + Len(parts[m]) = F + 1
  BY DEF Cuts
<1>1. PICK place \in [1 .. F + 1 -> 1 .. L + 1] :
        /\ place[1] = 1 /\ place[F + 1] = L + 1
        /\ \A j \in DOMAIN field :
             IF field[j] = "*" THEN place[j] <= place[j + 1]
             ELSE place[j + 1] = place[j] + 1 /\ field[j] = name[place[j]]
  BY DEF Glob
<1>11. DOMAIN field = 1 .. F
  OBVIOUS
<1>2. \A j \in 1 .. F : IF field[j] = "*" THEN place[j] <= place[j + 1]
                        ELSE place[j + 1] = place[j] + 1 /\ field[j] = name[place[j]]
  BY <1>1, <1>11
<1>3. \A j \in 1 .. m : c[j] \in Nat \ {0} /\ Len(parts[j]) \in Nat /\ c[j] + Len(parts[j]) <= F + 1
  <2> TAKE j \in 1 .. m
  <2>1. c[j] \in Nat \ {0} /\ parts[j] \in Seq(S)
    BY DEF Cuts
  <2>2. Len(parts[j]) \in Nat
    BY <2>1
  <2> QED
    BY <2>1, <2>2, CutsIn
<1>4. \A j \in 1 .. m : \A h \in 1 .. Len(parts[j]) :
        field[c[j] + h - 1] = parts[j][h] /\ parts[j][h] # "*"
  BY DEF Cuts
<1>5. \A j \in 1 .. m - 1 : /\ c[j + 1] = c[j] + Len(parts[j]) + 1
                            /\ field[c[j] + Len(parts[j])] = "*"
  BY DEF Cuts
<1> HIDE DEF m, F, L
<1>6. ASSUME NEW j \in 1 .. m, NEW i \in 0 .. Len(parts[j]) PROVE place[c[j] + i] = place[c[j]] + i
  <2> DEFINE d == c[j]
             n == Len(parts[j])
             bad == {h \in 0 .. n : place[d + h] # place[d] + h}
  <2>0. /\ d \in Nat \ {0} /\ n \in Nat /\ d + n <= F + 1
        /\ \A h \in 1 .. n : field[d + h - 1] # "*"
    BY <1>3, <1>4
  <2> SUFFICES ASSUME bad # {} PROVE FALSE
    BY <1>6
  <2> HIDE DEF d, n
  <2>1. bad \in SUBSET Nat
    BY <2>0
  <2>2. PICK h \in bad : \A g \in bad : h <= g
    BY <2>1, Least
  <2>3. h \in 0 .. n /\ place[d + h] # place[d] + h
    BY <2>2
  <2>4. CASE h = 0
    <3>1. d + h = d /\ d \in 1 .. F + 1
      BY <1>0, <2>0, <2>4
    <3>2. place[d] \in 1 .. L + 1
      BY <1>1, <3>1
    <3>3. place[d] + h = place[d]
      BY <1>0, <2>4, <3>2
    <3> QED
      BY <2>3, <3>1, <3>3
  <2>5. CASE h # 0
    <3> DEFINE k == d + h - 1
               g == h - 1
    <3>1. /\ k \in 1 .. F /\ k + 1 = d + h /\ h \in 1 .. n
          /\ g \in 0 .. n /\ ~ h <= g /\ d + g = k /\ g + 1 = h
      BY <1>0, <2>0, <2>3, <2>5
    <3>2. field[k] # "*"
      BY <2>0, <3>1
    <3> HIDE DEF k, g
    <3>3. place[k + 1] = place[k] + 1
      BY <1>2, <3>1, <3>2
    <3>4. place[k] = place[d] + g
      BY <2>2, <3>1
    <3>5. place[d] \in 1 .. L + 1
      <4>1. d \in 1 .. F + 1
        BY <1>0, <2>0
      <4> QED
        BY <1>1, <4>1
    <3> DEFINE P == place[d]
    <3>6. P \in Int /\ g \in Int /\ g + 1 = h
      BY <1>0, <2>0, <3>1, <3>5
    <3>7. place[d + h] = (P + g) + 1
      BY <3>1, <3>3, <3>4
    <3> HIDE DEF P
    <3>8. place[d + h] = P + h
      BY <3>6, <3>7
    <3> QED
      BY <2>3, <3>8 DEF P
  <2> QED
    BY <2>4, <2>5
<1> DEFINE b == [j \in 1 .. m |-> place[c[j]]]
<1>7. ASSUME NEW j \in 1 .. m
      PROVE  /\ b[j] = place[c[j]] /\ b[j] \in Nat \ {0} /\ Occurs(name, parts[j], b[j])
             /\ b[j] + Len(parts[j]) = place[c[j] + Len(parts[j])]
  <2> DEFINE d == c[j]
             n == Len(parts[j])
  <2>0. d \in Nat \ {0} /\ n \in Nat /\ d + n <= F + 1
    BY <1>3
  <2>1. b[j] = place[d]
    OBVIOUS
  <2>2. \A i \in 0 .. n : place[d + i] = place[d] + i
    BY <1>6
  <2>3. \A h \in 1 .. n : field[d + h - 1] = parts[j][h] /\ parts[j][h] # "*"
    BY <1>4
  <2> HIDE DEF d, n, b
  <2>4. d \in 1 .. F + 1 /\ n \in 0 .. n
    BY <1>0, <2>0
  <2>5. place[d] \in 1 .. L + 1
    BY <1>1, <2>4
  <2> DEFINE P == place[d]
  <2>6. P \in Int /\ P >= 1
    BY <1>0, <2>5
  <2>7. ASSUME NEW h \in 1 .. n PROVE name[P + h - 1] = parts[j][h]
    <3> DEFINE k == d + h - 1
               g == h - 1
    <3>1. k \in 1 .. F /\ g \in 0 .. n /\ d + g = k
      BY <1>0, <2>0
    <3>2. field[k] = parts[j][h] /\ field[k] # "*"
      BY <2>3
    <3>3. place[d + g] = P + g
      BY <2>2, <3>1
    <3> HIDE DEF P
    <3>4. P + g = P + h - 1
      BY <2>0, <2>6
    <3> HIDE DEF k, g
    <3>5. field[k] = name[place[k]]
      BY <1>2, <3>1, <3>2
    <3> QED
      BY <3>1, <3>2, <3>3, <3>4, <3>5
  <2>8. Occurs(name, parts[j], P)
    BY <2>7 DEF Occurs, n
  <2>9. place[d + n] = P + n
    BY <2>2, <2>4
  <2> QED
    BY <2>1, <2>6, <2>8, <2>9 DEF n, d
<1> HIDE DEF b
<1>8. ASSUME NEW j \in 1 .. m - 1 PROVE b[j] + Len(parts[j]) <= b[j + 1]
  <2> DEFINE k == c[j] + Len(parts[j])
  <2>1. j \in 1 .. m /\ j + 1 \in 1 .. m
    BY <1>0
  <2>2. c[j + 1] = k + 1 /\ field[k] = "*"
    BY <1>5
  <2>3. k \in 1 .. F
    <3> DEFINE d == c[j]
               n == Len(parts[j])
               o == Len(parts[j + 1])
    <3>1. d \in Nat \ {0} /\ n \in Nat /\ o \in Nat /\ c[j + 1] + o <= F + 1
      BY <1>3, <2>1
    <3>2. k = d + n
      OBVIOUS
    <3> HIDE DEF d, n, o, k
    <3>3. (k + 1) + o <= F + 1
      BY <2>2, <3>1
    <3> QED
      BY <1>0, <3>1, <3>2, <3>3
  <2>4. b[j] + Len(parts[j]) = place[k] /\ b[j + 1] = place[k + 1]
    BY <1>7, <2>1, <2>2
  <2> HIDE DEF k
  <2>5. place[k] <= place[k + 1]
    BY <1>2, <2>2, <2>3
  <2> QED
    BY <2>4, <2>5
<1>9. b[1] = 1 /\ b[m] + Len(parts[m]) = L + 1
  BY <1>0, <1>1, <1>7
<1>10. Laid(b, parts, name)
  BY <1>7, <1>8, <1>9 DEF Laid, m, L
<1> QED
  BY <1>10

\* Parts that are laid out are the places of a match.
LEMMA LaidGlob ==
  ASSUME NEW S, NEW name \in Seq(S), NEW field \in Seq(S), NEW parts \in Seq(Seq(S)),
         NEW c \in Seq(Nat \ {0}), Cuts(parts, c, field, "*", 1),
         NEW b, Laid(b, parts, name)
  PROVE  Glob(name, field)
<1> DEFINE m == Len(parts)
           F == Len(field)
           L == Len(name)
           In(k, j) == c[j] <= k /\ k <= c[j] + Len(parts[j])
           part == [k \in 1 .. F + 1 |-> CHOOSE j \in 1 .. m : In(k, j)]
           place == [k \in 1 .. F + 1 |-> b[part[k]] + (k - c[part[k]])]
<1>0. m \in Nat /\ m >= 1 /\ F \in Nat /\ L \in Nat /\ 1 \in 1 .. m /\ m \in 1 .. m
      /\ c[1] = 1 /\ c[m] + Len(parts[m]) = F + 1
  BY DEF Cuts
<1>1. \A j \in 1 .. m : /\ c[j] \in Nat \ {0} /\ Len(parts[j]) \in Nat
                        /\ c[j] + Len(parts[j]) <= F + 1
                        /\ \A i \in j + 1 .. m : c[j] + Len(parts[j]) < c[i]
  <2> TAKE j \in 1 .. m
  <2>1. c[j] \in Nat \ {0} /\ parts[j] \in Seq(S)
    BY DEF Cuts
  <2>2. Len(parts[j]) \in Nat
    BY <2>1
  <2> QED
    BY <2>1, <2>2, CutsIn
<1>2. \A j \in 1 .. m - 1 : /\ c[j + 1] = c[j] + Len(parts[j]) + 1
                            /\ field[c[j] + Len(parts[j])] = "*"
  BY DEF Cuts
<1>3. \A j \in 1 .. m : \A h \in 1 .. Len(parts[j]) :
        field[c[j] + h - 1] = parts[j][h] /\ parts[j][h] # "*"
  BY DEF Cuts
<1>4. /\ b[1] = 1 /\ b[m] + Len(parts[m]) = L + 1
      /\ \A j \in 1 .. m : b[j] \in Nat \ {0} /\ Occurs(name, parts[j], b[j])
      /\ \A j \in 1 .. m - 1 : b[j] + Len(parts[j]) <= b[j + 1]
  BY DEF Laid
<1>5. \A j \in 1 .. m : b[j] + Len(parts[j]) <= L + 1
  BY <1>0, LaidIn
<1>6. \A k \in 1 .. F + 1 : part[k] \in 1 .. m /\ In(k, part[k])
  <2> TAKE k \in 1 .. F + 1
  <2>1. \E j \in 1 .. m : In(k, j)
    BY CutsAll
  <2> HIDE DEF In
  <2> QED
    BY <2>1
<1> HIDE DEF m, F, L
<1>7. ASSUME NEW k \in 1 .. F + 1, NEW j \in 1 .. m, In(k, j) PROVE part[k] = j
  <2> DEFINE i == part[k]
  <2>1. i \in 1 .. m /\ In(k, i)
    BY <1>6
  <2> HIDE DEF i, part
  <2>2. /\ \A h \in j + 1 .. m : c[j] + Len(parts[j]) < c[h]
        /\ \A h \in i + 1 .. m : c[i] + Len(parts[i]) < c[h]
    BY <1>1, <2>1
  <2> DEFINE x == c[j]
             y == c[i]
             u == c[j] + Len(parts[j])
             v == c[i] + Len(parts[i])
  <2>3. x \in Int /\ y \in Int /\ u \in Int /\ v \in Int /\ k \in Int /\ i \in Int /\ j \in Int
    <3>1. c[i] \in Int /\ Len(parts[i]) \in Int
      BY <1>1, <2>1
    <3>2. c[j] \in Int /\ Len(parts[j]) \in Int
      BY <1>1
    <3>3. u \in Int
      BY <3>2
    <3>4. v \in Int
      BY <3>1
    <3> HIDE DEF u, v
    <3> QED
      BY <1>0, <2>1, <3>1, <3>2, <3>3, <3>4
  <2>4. x <= k /\ k <= u /\ y <= k /\ k <= v
    BY <1>7, <2>1
  <2>6. i < j => v < x
    <3> SUFFICES ASSUME i < j PROVE v < x
      OBVIOUS
    <3>1. j \in i + 1 .. m
      BY <1>0, <2>1
    <3> QED
      BY <2>2, <3>1
  <2>7. j < i => u < y
    <3> SUFFICES ASSUME j < i PROVE u < y
      OBVIOUS
    <3>1. i \in j + 1 .. m
      BY <1>0, <2>1
    <3> QED
      BY <2>2, <3>1
  <2> HIDE DEF x, y, u, v
  <2>5. i = j
    BY <2>3, <2>4, <2>6, <2>7
  <2> QED
    BY <2>5 DEF i
<1> HIDE DEF part
<1>8. ASSUME NEW k \in 1 .. F + 1, NEW j \in 1 .. m, In(k, j)
      PROVE  place[k] = b[j] + (k - c[j]) /\ place[k] \in 1 .. L + 1
  <2>1. part[k] = j
    BY <1>7, <1>8
  <2>2. place[k] = b[j] + (k - c[j])
    BY <2>1
  <2> HIDE DEF place
  <2> DEFINE d == c[j]
             n == Len(parts[j])
             a == b[j]
  <2>3. d \in Nat /\ n \in Nat
    BY <1>1
  <2>4. a \in Nat \ {0}
    BY <1>4
  <2>5. a + n <= L + 1
    BY <1>5
  <2>6. k \in Nat /\ d <= k /\ k <= d + n
    BY <1>0, <1>8
  <2>7. place[k] = a + (k - d)
    BY <2>2
  <2> HIDE DEF a, n, d
  <2>8. a + (k - d) \in 1 .. L + 1
    BY <1>0, <2>3, <2>4, <2>5, <2>6
  <2> QED
    BY <2>2, <2>7, <2>8
<1>9. place \in [1 .. F + 1 -> 1 .. L + 1]
  <2>1. \A k \in 1 .. F + 1 : place[k] \in 1 .. L + 1
    BY <1>6, <1>8
  <2> QED
    BY <2>1
<1> HIDE DEF place
<1>10. place[1] = 1
  <2>1. 1 \in 1 .. F + 1 /\ In(1, 1)
    BY <1>0, <1>1
  <2> HIDE DEF In
  <2>2. place[1] = b[1] + (1 - c[1])
    BY <1>0, <1>8, <2>1
  <2> QED
    BY <1>0, <1>4, <2>2
<1>11. place[F + 1] = L + 1
  <2>0. c[m] \in Nat /\ Len(parts[m]) \in Nat /\ b[m] \in Nat
    BY <1>0, <1>1, <1>4
  <2>1. F + 1 \in 1 .. F + 1 /\ In(F + 1, m)
    <3> DEFINE d == c[m]
               n == Len(parts[m])
    <3>1. d \in Nat /\ n \in Nat /\ d + n = F + 1
      BY <1>0, <2>0
    <3> HIDE DEF d, n
    <3>2. d <= F + 1 /\ F + 1 <= d + n /\ F + 1 \in 1 .. F + 1
      BY <1>0, <3>1
    <3> QED
      BY <3>2 DEF d, n
  <2> HIDE DEF In
  <2>2. place[F + 1] = b[m] + ((F + 1) - c[m])
    BY <1>0, <1>8, <2>1
  <2> QED
    BY <1>0, <1>4, <2>0, <2>2
<1>12. ASSUME NEW k \in 1 .. F
       PROVE  IF field[k] = "*" THEN place[k] <= place[k + 1]
              ELSE place[k + 1] = place[k] + 1 /\ field[k] = name[place[k]]
  <2>0. k \in 1 .. F + 1 /\ k + 1 \in 1 .. F + 1 /\ k \in Nat
    BY <1>0
  <2>1. PICK j \in 1 .. m : In(k, j)
    BY <1>6, <2>0
  <2> DEFINE d == c[j]
             n == Len(parts[j])
             a == b[j]
  <2>2. place[k] = a + (k - d)
    BY <1>8, <2>0, <2>1
  <2>3. d \in Nat \ {0} /\ n \in Nat
    BY <1>1
  <2>4. a \in Nat \ {0} /\ Occurs(name, parts[j], a)
    BY <1>4
  <2>5. d <= k /\ k <= d + n
    BY <2>1
  <2>6. CASE k = d + n
    <3>1. j # m
      BY <1>0, <2>6
    <3>2. j \in 1 .. m - 1 /\ j + 1 \in 1 .. m
      BY <1>0, <3>1
    <3>3. c[j + 1] = k + 1 /\ field[k] = "*" /\ a + n <= b[j + 1]
      BY <1>2, <1>4, <2>6, <3>2
    <3> DEFINE o == Len(parts[j + 1])
               e == b[j + 1]
    <3>4. o \in Nat /\ e \in Nat
      BY <1>1, <1>4, <3>2
    <3>5. In(k + 1, j + 1)
      <4> HIDE DEF o
      <4>1. k + 1 <= k + 1 /\ k + 1 <= (k + 1) + o
        BY <2>0, <3>4
      <4> QED
        BY <3>3, <4>1 DEF o
    <3> HIDE DEF In
    <3>6. place[k + 1] = e + ((k + 1) - c[j + 1])
      BY <1>8, <2>0, <3>2, <3>5
    <3>7. a + n <= e
      BY <3>3
    <3> HIDE DEF e, o, a, d, n
    <3>8. place[k + 1] = e + ((k + 1) - (k + 1))
      BY <3>3, <3>6
    <3>9. a + (k - d) = a + n /\ e + ((k + 1) - (k + 1)) = e
      BY <2>0, <2>3, <2>4, <2>6, <3>4
    <3> QED
      BY <2>2, <3>3, <3>7, <3>8, <3>9
  <2>7. CASE k # d + n
    <3> DEFINE h == k - d + 1
    <3>1. \A i \in 1 .. n : field[d + i - 1] = parts[j][i] /\ parts[j][i] # "*"
      BY <1>3
    <3>2. \A i \in 1 .. n : name[a + i - 1] = parts[j][i]
      BY <2>4 DEF Occurs
    <3>3. d <= k + 1 /\ k + 1 <= d + n => In(k + 1, j)
      OBVIOUS
    <3> HIDE DEF In
    <3>4. In(k + 1, j) => place[k + 1] = a + ((k + 1) - d)
      BY <1>8, <2>0
    <3> HIDE DEF a, d, n
    <3>5. d <= k + 1 /\ k + 1 <= d + n
      BY <2>0, <2>3, <2>5, <2>7
    <3>6. /\ h \in 1 .. n /\ d + h - 1 = k /\ a + h - 1 = a + (k - d)
          /\ a + ((k + 1) - d) = (a + (k - d)) + 1
      BY <2>0, <2>3, <2>4, <2>5, <2>7
    <3> HIDE DEF h
    <3>7. field[k] = parts[j][h] /\ field[k] # "*" /\ name[a + (k - d)] = parts[j][h]
      BY <3>1, <3>2, <3>6
    <3>8. place[k + 1] = place[k] + 1
      BY <2>2, <3>3, <3>4, <3>5, <3>6
    <3> QED
      BY <2>2, <3>7, <3>8
  <2> QED
    BY <2>6, <2>7
<1>13. DOMAIN field = 1 .. F
  BY DEF F
<1> QED
  BY <1>9, <1>10, <1>11, <1>12, <1>13 DEF Glob, F, L

\* If the parts can be laid out, the search gets behind each of them, no later
\* than where the next one is laid.
LEMMA LaidMatches ==
  ASSUME NEW S, NEW name \in Seq(S), NEW parts \in Seq(Seq(S)), Len(parts) >= 1,
         NEW b, Laid(b, parts, name)
  PROVE  MatchField(name, parts)
<1> DEFINE m == Len(parts)
           L == Len(name)
<1>0. m \in Nat /\ m >= 1 /\ L \in Nat
  OBVIOUS
<1>1. PICK after \in [0 .. Len(parts) -> 0 .. Len(name) + 1] :
             Searched(after, name, parts) /\ (MatchField(name, parts) <=> after[Len(parts)] # 0)
  BY MatchFieldIs
<1>2. /\ after[0] = 1
      /\ \A j \in 1 .. m :
           after[j] = IF after[j - 1] = 0 THEN 0 ELSE Behind(name, parts, j, after[j - 1])
  BY <1>1 DEF Searched
<1>3. /\ b[1] = 1 /\ b[m] + Len(parts[m]) = L + 1
      /\ \A j \in 1 .. m : b[j] \in Nat \ {0} /\ Occurs(name, parts[j], b[j])
      /\ \A j \in 1 .. m - 1 : b[j] + Len(parts[j]) <= b[j + 1]
  BY DEF Laid
<1> DEFINE Good(j) == after[j] # 0 /\ (j < m => after[j] <= b[j + 1])
           bad == {j \in 0 .. m : ~ Good(j)}
<1>4. ASSUME bad # {} PROVE FALSE
  <2>1. bad \in SUBSET Nat
    BY <1>0
  <2>2. PICK j \in bad : \A k \in bad : j <= k
    BY <1>4, <2>1, Least
  <2>3. j \in 0 .. m /\ ~ Good(j)
    BY <2>2
  <2>4. CASE j = 0
    <3>1. b[0 + 1] = 1
      BY <1>3
    <3> QED
      BY <1>0, <1>2, <2>3, <2>4, <3>1
  <2>5. CASE j # 0
    <3> DEFINE i == j - 1
               p == parts[j]
               n == Len(p)
               a == after[i]
               k == Find(name, p, a)
               e == b[j]
    <3>1. j \in 1 .. m /\ i \in 0 .. m /\ i < m /\ i + 1 = j /\ ~ j <= i
      BY <1>0, <2>3, <2>5
    <3>2. Good(i)
      BY <2>2, <3>1
    <3>3. a # 0 /\ a <= e /\ a \in 0 .. L + 1
      <4>1. a \in 0 .. Len(name) + 1
        BY <1>1, <3>1
      <4> QED
        BY <3>1, <3>2, <4>1
    <3>4. p \in Seq(S) /\ n \in Nat
      <4>1. p \in Seq(S)
        BY <3>1
      <4> QED
        BY <4>1
    <3>5. e \in Nat \ {0} /\ Occurs(name, p, e) /\ e + n <= L + 1
      BY <1>3, <3>1, LaidIn
    <3>6. after[j] = Behind(name, parts, j, a)
      BY <1>2, <3>1, <3>3
    <3>7. a \in Nat \ {0}
      BY <1>0, <3>3
    <3> HIDE DEF p, a, e
    <3>8. \/ /\ k = 0
             /\ \A h \in a .. Len(name) + 1 - Len(p) : ~ Occurs(name, p, h)
          \/ /\ k \in a .. Len(name) + 1 - Len(p)
             /\ \A h \in a .. k - 1 : ~ Occurs(name, p, h)
      BY <3>4, <3>7, FindIs
    <3> HIDE DEF k
    <3>9. k \in Nat /\ k # 0 /\ k <= e
      <4>1. e \in a .. Len(name) + 1 - Len(p)
        BY <1>0, <3>3, <3>4, <3>5, <3>7
      <4>2. k # 0 /\ k \in a .. Len(name) + 1 - Len(p) /\ \A h \in a .. k - 1 : ~ Occurs(name, p, h)
        <5>1. CASE k = 0 /\ \A h \in a .. Len(name) + 1 - Len(p) : ~ Occurs(name, p, h)
          BY <3>5, <4>1, <5>1
        <5>2. CASE /\ k \in a .. Len(name) + 1 - Len(p)
                   /\ \A h \in a .. k - 1 : ~ Occurs(name, p, h)
          BY <3>7, <5>2
        <5> QED
          BY <3>8, <5>1, <5>2
      <4>3. ~ e \in a .. k - 1
        BY <3>5, <4>2
      <4> QED
        BY <1>0, <3>4, <3>7, <4>1, <4>2, <4>3
    <3>10. j = 1 => IsPrefix(p, name)
      <4> SUFFICES ASSUME j = 1 PROVE IsPrefix(p, name)
        OBVIOUS
      <4>1. e = 1
        BY <1>3 DEF e
      <4>2. Len(p) <= Len(name) /\ Occurs(name, p, 1)
        BY <1>0, <3>4, <3>5, <4>1
      <4> QED
        BY <3>4, <4>2, PrefixIs
    <3>11. j = m => IsSuffix(p, name)
      <4> SUFFICES ASSUME j = m PROVE IsSuffix(p, name)
        OBVIOUS
      <4>1. e + n = L + 1
        BY <1>3 DEF e, p
      <4>2. e = Len(name) - Len(p) + 1 /\ Len(p) <= Len(name)
        BY <1>0, <3>4, <3>5, <4>1
      <4> QED
        BY <3>4, <3>5, <4>2, SuffixIs
    <3>12. after[j] = k + n
      <4>1. Behind(name, parts, j, a) = k + Len(p)
        BY <3>9, <3>10, <3>11 DEF Behind, k, p
      <4> QED
        BY <3>6, <4>1
    <3>13. k + n # 0 /\ k + n <= e + n
      <4> HIDE DEF n
      <4> QED
        BY <3>4, <3>5, <3>9
    <3>14. j < m => e + n <= b[j + 1] /\ b[j + 1] \in Nat
      <4> SUFFICES ASSUME j < m PROVE e + n <= b[j + 1] /\ b[j + 1] \in Nat
        OBVIOUS
      <4>1. j \in 1 .. m - 1 /\ j + 1 \in 1 .. m
        BY <1>0, <3>1
      <4> QED
        BY <1>3, <4>1 DEF e, p
    <3>15. j < m => k + n <= b[j + 1]
      <4> HIDE DEF n
      <4>1. k \in Int /\ n \in Int /\ e \in Int
        BY <3>4, <3>5, <3>9
      <4> QED
        BY <3>13, <3>14, <4>1
    <3> HIDE DEF n
    <3> QED
      BY <2>3, <3>12, <3>13, <3>15
  <2> QED
    BY <2>4, <2>5
<1>5. Good(m)
  <2>1. m \in 0 .. m
    BY <1>0
  <2> HIDE DEF Good, m
  <2> QED
    BY <1>4, <2>1
<1> QED
  BY <1>1, <1>5

\* What a search that gets behind the last part has found.
LEMMA SearchFinds ==
  ASSUME NEW S, NEW name \in Seq(S), NEW parts \in Seq(Seq(S)),
         NEW after \in [0 .. Len(parts) -> 0 .. Len(name) + 1],
         Searched(after, name, parts), after[Len(parts)] # 0, NEW j \in 1 .. Len(parts)
  PROVE  LET p == parts[j]
             k == Find(name, p, after[j - 1])
         IN /\ after[j - 1] \in Nat \ {0} /\ k \in Nat \ {0}
            /\ after[j - 1] <= k /\ k + Len(p) <= Len(name) + 1
            /\ Occurs(name, p, k) /\ after[j] = k + Len(p)
            /\ j = 1 => IsPrefix(p, name)
            /\ j = Len(parts) => IsSuffix(p, name)
<1> DEFINE m == Len(parts)
           L == Len(name)
<1>0. m \in Nat /\ L \in Nat
  OBVIOUS
<1>1. /\ after[0] = 1
      /\ \A i \in 1 .. m :
           after[i] = IF after[i - 1] = 0 THEN 0 ELSE Behind(name, parts, i, after[i - 1])
  BY DEF Searched
<1>2. \A i \in 0 .. m : after[i] # 0
  <2> DEFINE bad == {i \in 1 .. m : after[i] = 0}
  <2>1. ASSUME bad # {} PROVE FALSE
    <3>1. bad \in SUBSET (1 .. m)
      OBVIOUS
    <3>2. PICK i \in bad : \A h \in bad : h <= i
      BY <1>0, <2>1, <3>1, Greatest
    <3>3. i \in 1 .. m /\ after[i] = 0 /\ i # m
      BY <3>2
    <3>4. i + 1 \in 1 .. m /\ ~ i + 1 <= i /\ (i + 1) - 1 = i
      BY <1>0, <3>3
    <3>5. after[i + 1] = 0
      BY <1>1, <3>3, <3>4
    <3> QED
      BY <3>2, <3>4, <3>5
  <2>2. \A i \in 0 .. m : i = 0 \/ i \in 1 .. m
    BY <1>0
  <2> QED
    BY <1>1, <2>1, <2>2
<1> DEFINE i == j - 1
           p == parts[j]
           a == after[i]
           k == Find(name, p, a)
<1>3. j \in 1 .. m /\ i \in 0 .. m /\ j \in 0 .. m
  BY <1>0
<1>4. a \in Nat \ {0} /\ after[j] # 0
  <2>1. a \in 0 .. Len(name) + 1
    BY <1>3
  <2> QED
    BY <1>2, <1>3, <2>1
<1>5. p \in Seq(S) /\ Len(p) \in Nat
  <2>1. p \in Seq(S)
    BY <1>3
  <2> QED
    BY <2>1
<1>6. Behind(name, parts, j, a) = after[j]
  BY <1>1, <1>3, <1>4
<1>7. /\ k # 0 /\ after[j] = k + Len(p)
      /\ j = 1 => IsPrefix(p, name)
      /\ j = Len(parts) => IsSuffix(p, name)
  BY <1>4, <1>6 DEF Behind
<1> HIDE DEF p, a
<1>8. k = 0 \/ (k \in a .. Len(name) + 1 - Len(p) /\ Occurs(name, p, k))
  BY <1>4, <1>5, FindIs
<1> HIDE DEF k
<1>9. k \in Nat \ {0} /\ a <= k /\ k + Len(p) <= Len(name) + 1
  BY <1>0, <1>4, <1>5, <1>7, <1>8
<1> QED
  BY <1>4, <1>7, <1>8, <1>9 DEF k, p, a

\* Two parts and more that the search has found can be laid out: the last one
\* at the end.
LEMMA MatchesLaid ==
  ASSUME NEW S, NEW name \in Seq(S), NEW parts \in Seq(Seq(S)), Len(parts) >= 2,
         MatchField(name, parts)
  PROVE  \E b : Laid(b, parts, name)
<1> DEFINE m == Len(parts)
           L == Len(name)
<1>0. m \in Nat /\ m >= 2 /\ L \in Nat
  OBVIOUS
<1>1. PICK after \in [0 .. Len(parts) -> 0 .. Len(name) + 1] :
             Searched(after, name, parts) /\ (MatchField(name, parts) <=> after[Len(parts)] # 0)
  BY MatchFieldIs
<1> DEFINE place == [j \in 1 .. m |-> Find(name, parts[j], after[j - 1])]
<1>2. \A j \in 1 .. m :
        /\ after[j - 1] \in Nat \ {0} /\ place[j] \in Nat \ {0}
        /\ after[j - 1] <= place[j] /\ place[j] + Len(parts[j]) <= L + 1
        /\ Occurs(name, parts[j], place[j]) /\ after[j] = place[j] + Len(parts[j])
        /\ j = 1 => IsPrefix(parts[j], name)
        /\ j = m => IsSuffix(parts[j], name)
  <2> TAKE j \in 1 .. m
  <2>1. LET p == parts[j]
            k == Find(name, p, after[j - 1])
        IN /\ after[j - 1] \in Nat \ {0} /\ k \in Nat \ {0}
           /\ after[j - 1] <= k /\ k + Len(p) <= Len(name) + 1
           /\ Occurs(name, p, k) /\ after[j] = k + Len(p)
           /\ j = 1 => IsPrefix(p, name)
           /\ j = Len(parts) => IsSuffix(p, name)
    <3>1. after[Len(parts)] # 0 /\ Searched(after, name, parts)
      BY <1>1
    <3> QED
      BY <3>1, SearchFinds
  <2>2. place[j] = Find(name, parts[j], after[j - 1])
    OBVIOUS
  <2> QED
    BY <2>1, <2>2
<1>3. \A j \in 1 .. m : parts[j] \in Seq(S) /\ Len(parts[j]) \in Nat
  <2> TAKE j \in 1 .. m
  <2>1. parts[j] \in Seq(S)
    OBVIOUS
  <2> QED
    BY <2>1
<1>4. place[1] = 1
  <2> DEFINE p == parts[1]
  <2>1. 1 \in 1 .. m /\ 1 - 1 = 0 /\ 1 \in Nat \ {0}
    BY <1>0
  <2>2. p \in Seq(S) /\ Len(p) \in Nat /\ IsPrefix(p, name) /\ after[0] = 1
    BY <1>1, <1>2, <1>3, <2>1 DEF Searched
  <2>3. place[1] = Find(name, p, 1)
    BY <2>1, <2>2
  <2> HIDE DEF p, place
  <2>4. Len(p) <= Len(name) /\ Occurs(name, p, 1)
    BY <2>2, PrefixIs
  <2>5. 1 \in 1 .. Len(name) + 1 - Len(p) /\ \A j \in 1 .. 1 - 1 : ~ Occurs(name, p, j)
    BY <1>0, <2>2, <2>4
  <2>6. Find(name, p, 1) = 1
    BY <2>1, <2>2, <2>4, <2>5, FindFirst
  <2> QED
    BY <2>3, <2>6
<1> HIDE DEF place
<1> DEFINE last == L - Len(parts[m]) + 1
           b == [j \in 1 .. m |-> IF j = m THEN last ELSE place[j]]
<1>5. last \in Nat \ {0} /\ Occurs(name, parts[m], last) /\ place[m] <= last
  <2> DEFINE p == parts[m]
             n == Len(p)
  <2>1. m \in 1 .. m
    BY <1>0
  <2>2. p \in Seq(S) /\ n \in Nat /\ IsSuffix(p, name)
    BY <1>2, <1>3, <2>1
  <2>3. place[m] \in Nat /\ place[m] + n <= L + 1
    BY <1>2, <2>1
  <2> HIDE DEF p
  <2>4. Len(p) <= Len(name) /\ Occurs(name, p, Len(name) - Len(p) + 1)
    BY <2>2, SuffixIs
  <2>5. last = L - n + 1
    BY DEF p
  <2> HIDE DEF last, n, L
  <2>6. n <= L /\ Occurs(name, p, last)
    BY <2>4, <2>5 DEF n, L
  <2>7. last \in Nat \ {0} /\ place[m] <= last
    BY <1>0, <2>2, <2>3, <2>5, <2>6
  <2> QED
    BY <2>6, <2>7 DEF p
<1>6. \A j \in 1 .. m : b[j] = IF j = m THEN last ELSE place[j]
  OBVIOUS
<1>7. last + Len(parts[m]) = L + 1
  <2> DEFINE n == Len(parts[m])
  <2>1. n \in Nat
    BY <1>0, <1>3
  <2> HIDE DEF n
  <2>2. L - n + 1 + n = L + 1
    BY <1>0, <2>1
  <2> QED
    BY <2>2 DEF n
<1> HIDE DEF last, b
<1>8. b[1] = 1 /\ b[m] + Len(parts[m]) = L + 1
  <2> HIDE DEF m
  <2>1. 1 \in 1 .. m /\ m \in 1 .. m /\ 1 # m
    BY <1>0
  <2>2. b[1] = place[1] /\ b[m] = last
    BY <1>6, <2>1
  <2> QED
    BY <1>4, <1>7, <2>2
<1>9. \A j \in 1 .. m : b[j] \in Nat \ {0} /\ Occurs(name, parts[j], b[j])
  BY <1>2, <1>5, <1>6
<1>10. ASSUME NEW j \in 1 .. m - 1 PROVE b[j] + Len(parts[j]) <= b[j + 1]
  <2> DEFINE i == j + 1
             q == b[i]
  <2>1. j \in 1 .. m /\ j # m /\ i \in 1 .. m /\ i - 1 = j
    BY <1>0
  <2>2. b[j] = place[j] /\ after[j] = place[j] + Len(parts[j])
    BY <1>2, <1>6, <2>1
  <2>3. after[j] <= place[i] /\ after[j] \in Nat /\ place[i] \in Nat
    <3> HIDE DEF i
    <3>1. after[i - 1] <= place[i] /\ after[i - 1] \in Nat /\ place[i] \in Nat
      BY <1>2, <2>1
    <3> QED
      BY <2>1, <3>1
  <2>4. place[i] <= q /\ q \in Nat
    <3>1. CASE i = m
      BY <1>5, <1>6, <2>1, <3>1
    <3>2. CASE i # m
      BY <1>6, <2>1, <2>3, <3>2
    <3> QED
      BY <3>1, <3>2
  <2> HIDE DEF q
  <2>5. after[j] <= q
    BY <2>3, <2>4
  <2> QED
    BY <2>2, <2>5 DEF q
<1>11. Laid(b, parts, name)
  BY <1>8, <1>9, <1>10 DEF Laid
<1> QED
  BY <1>11

\* A field without a star matches the names it begins and ends.
LEMMA OnePart ==
  ASSUME NEW S, NEW name \in Seq(S), NEW field \in Seq(S)
  PROVE  MatchField(name, <<field>>) <=> IsPrefix(field, name) /\ IsSuffix(field, name)
<1> DEFINE parts == <<field>>
<1>1. parts \in Seq(Seq(S)) /\ Len(parts) = 1 /\ parts[1] = field
  OBVIOUS
<1> HIDE DEF parts
<1>2. PICK after \in [0 .. Len(parts) -> 0 .. Len(name) + 1] :
        Searched(after, name, parts) /\ (MatchField(name, parts) <=> after[Len(parts)] # 0)
  BY <1>1, MatchFieldIs
<1>3. after[0] = 1 /\ (MatchField(name, parts) <=> after[1] # 0)
  BY <1>1, <1>2 DEF Searched
<1>4. after[1] = Behind(name, parts, 1, 1)
  <2>1. 1 \in 1 .. Len(parts)
    BY <1>1
  <2>2. after[1] = IF after[1 - 1] = 0 THEN 0 ELSE Behind(name, parts, 1, after[1 - 1])
    BY <1>2, <2>1 DEF Searched
  <2>3. after[1 - 1] = 1
    BY <1>3
  <2> QED
    BY <2>2, <2>3
<1>5. Behind(name, parts, 1, 1) =
        IF ~ IsPrefix(field, name) \/ ~ IsSuffix(field, name) \/ Find(name, field, 1) = 0
        THEN 0 ELSE Find(name, field, 1) + Len(field)
  BY <1>1 DEF Behind
<1>6. ASSUME IsPrefix(field, name) PROVE Find(name, field, 1) \in Nat \ {0}
  <2>1. Len(field) <= Len(name) /\ Occurs(name, field, 1)
    BY <1>6, PrefixIs
  <2>2. \/ /\ Find(name, field, 1) = 0
           /\ \A k \in 1 .. Len(name) + 1 - Len(field) : ~ Occurs(name, field, k)
        \/ Find(name, field, 1) \in 1 .. Len(name) + 1 - Len(field)
    <3>1. 1 \in Nat \ {0}
      OBVIOUS
    <3> QED
      BY <3>1, FindIs
  <2> QED
    BY <2>1, <2>2
<1>7. Len(field) \in Nat
  OBVIOUS
<1>8. MatchField(name, parts) <=> IsPrefix(field, name) /\ IsSuffix(field, name)
  BY <1>3, <1>4, <1>5, <1>6, <1>7
<1> QED
  BY <1>8 DEF parts

\* A field that is one part has no star in it, and one without a star is one.
LEMMA NoStar ==
  ASSUME NEW S, NEW field \in Seq(S), "*" \in S
  PROVE  /\ "*" \notin Range(field) => SplitToCmd(field, <<"*">>) = <<field>>
         /\ Len(SplitToCmd(field, <<"*">>)) = 1 => "*" \notin Range(field)
<1> DEFINE parts == SplitToCmd(field, <<"*">>)
<1>1. "*" \notin Range(field) <=> \A j \in 1 .. Len(field) : field[j] # "*"
  <2>1. DOMAIN field = 1 .. Len(field)
    OBVIOUS
  <2> QED
    BY <2>1 DEF Range
<1>2. ASSUME "*" \notin Range(field) PROVE SplitToCmd(field, <<"*">>) = <<field>>
  <2>1. \A j \in 1 .. Len(field) : field[j] # "*"
    BY <1>1, <1>2
  <2> QED
    BY <2>1, SplitNone
<1>3. ASSUME Len(parts) = 1 PROVE "*" \notin Range(field)
  <2>1. parts \in Seq(Seq(S)) /\ \E c \in Seq(Nat \ {0}) : Cuts(parts, c, field, "*", 1)
    BY SplitCuts
  <2> HIDE DEF parts
  <2>2. PICK c \in Seq(Nat \ {0}) : Cuts(parts, c, field, "*", 1)
    BY <2>1
  <2>3. /\ c[1] = 1 /\ c[1] + Len(parts[1]) = Len(field) + 1
        /\ \A h \in 1 .. Len(parts[1]) :
             field[c[1] + h - 1] = parts[1][h] /\ parts[1][h] # "*"
    BY <1>3, <2>2 DEF Cuts
  <2>4. Len(field) \in Nat /\ Len(parts[1]) \in Nat
    <3>1. 1 \in 1 .. Len(parts)
      BY <1>3
    <3>2. parts[1] \in Seq(S)
      BY <2>1, <3>1, ElementOfSeq
    <3> QED
      BY <3>2
  <2>5. Len(parts[1]) = Len(field)
    BY <2>3, <2>4
  <2>6. \A h \in 1 .. Len(field) : field[h] # "*"
    <3> TAKE h \in 1 .. Len(field)
    <3>1. c[1] + h - 1 = h
      BY <2>3, <2>4
    <3> QED
      BY <2>3, <2>5, <3>1
  <2> QED
    BY <1>1, <2>6
<1> QED
  BY <1>2, <1>3

\* What a name is compared with is what the field means, or the field is one
\* that begins and ends the name.
LEMMA FieldIs ==
  ASSUME NEW S, NEW name \in Seq(S), NEW field \in Seq(S), "*" \in S
  PROVE  MatchField(name, SplitToCmd(field, <<"*">>)) <=>
           \/ Glob(name, field)
           \/ "*" \notin Range(field) /\ IsPrefix(field, name) /\ IsSuffix(field, name)
<1> DEFINE parts == SplitToCmd(field, <<"*">>)
<1>1. parts \in Seq(Seq(S)) /\ \E c \in Seq(Nat \ {0}) : Cuts(parts, c, field, "*", 1)
  BY SplitCuts
<1>2. /\ "*" \notin Range(field) => parts = <<field>>
      /\ Len(parts) = 1 => "*" \notin Range(field)
  BY NoStar
<1> HIDE DEF parts
<1>3. PICK c \in Seq(Nat \ {0}) : Cuts(parts, c, field, "*", 1)
  BY <1>1
<1>4. Len(parts) \in Nat /\ Len(parts) >= 1
  BY <1>1, <1>3 DEF Cuts
<1>5. ASSUME Glob(name, field) PROVE MatchField(name, parts)
  <2>1. PICK b : Laid(b, parts, name)
    BY <1>1, <1>3, <1>5, GlobLaid
  <2> QED
    BY <1>1, <1>4, <2>1, LaidMatches
<1>6. ASSUME "*" \notin Range(field)
      PROVE  MatchField(name, parts) <=> IsPrefix(field, name) /\ IsSuffix(field, name)
  BY <1>2, <1>6, OnePart
<1>7. ASSUME "*" \in Range(field), MatchField(name, parts) PROVE Glob(name, field)
  <2>1. Len(parts) # 1
    BY <1>2, <1>7
  <2>2. Len(parts) >= 2
    <3> DEFINE m == Len(parts)
    <3>1. m \in Nat /\ m >= 1 /\ m # 1
      BY <1>4, <2>1
    <3> HIDE DEF m
    <3>2. m >= 2
      BY <3>1
    <3> QED
      BY <3>2 DEF m
  <2>3. PICK b : Laid(b, parts, name)
    BY <1>1, <1>7, <2>2, MatchesLaid
  <2> QED
    BY <1>1, <1>3, <2>3, LaidGlob
<1>8. MatchField(name, parts) <=>
        \/ Glob(name, field)
        \/ "*" \notin Range(field) /\ IsPrefix(field, name) /\ IsSuffix(field, name)
  BY <1>5, <1>6, <1>7
<1> QED
  BY <1>8 DEF parts

\* The characters of names and rules, also in upper case.
Marks == {"a", "b", "A", "*", ","}

\* A string of these stays one in upper case.
LEMMA UpperIs ==
  ASSUME NEW s \in Seq(Marks)
  PROVE  ToUpper(s) \in Seq(Marks) /\ Len(ToUpper(s)) = Len(s)
<1>1. s \in [1 .. Len(s) -> Marks] /\ Len(s) \in Nat
  OBVIOUS
<1>2. ToUpper(s) \in [1 .. Len(s) -> Marks]
  BY <1>1 DEF ToUpper, Marks
<1> QED
  BY <1>1, <1>2

\* A name and a rule are such strings and not empty.
LEMMA MarksAre ==
  ASSUME NEW s, s \in Names \/ s \in Rules
  PROVE  s \in Seq(Marks) /\ s # <<>>
<1>1. \E n \in Nat \ {0} : s \in [1 .. n -> Marks]
  <2>1. CASE s \in Names
    <3>1. PICK n \in 1 .. NameLen : s \in [1 .. n -> {"a", "b"}]
      BY <2>1 DEF Names
    <3>2. n \in Nat \ {0}
      BY NamesAssumption
    <3>3. s \in [1 .. n -> Marks]
      BY <3>1 DEF Marks
    <3> QED
      BY <3>2, <3>3
  <2>2. CASE s \in Rules
    <3>1. PICK n \in 1 .. RuleLen : s \in [1 .. n -> {"A", "b", "*", ","}]
      BY <2>2 DEF Rules
    <3>2. n \in Nat \ {0}
      BY NamesAssumption
    <3>3. s \in [1 .. n -> Marks]
      BY <3>1 DEF Marks
    <3> QED
      BY <3>2, <3>3
  <2> QED
    BY <2>1, <2>2
<1>2. PICK n \in Nat \ {0} : s \in [1 .. n -> Marks]
  BY <1>1
<1>3. s \in Seq(Marks) /\ Len(s) = n
  BY <1>2
<1> QED
  BY <1>3

\* A star means every name.
LEMMA StarMatches ==
  ASSUME NEW S, NEW name \in Seq(S)
  PROVE  Glob(name, <<"*">>)
<1> DEFINE star == <<"*">>
           L == Len(name)
           place == [k \in 1 .. 2 |-> IF k = 1 THEN 1 ELSE L + 1]
<1>1. star \in Seq({"*"}) /\ Len(star) = 1 /\ DOMAIN star = {1} /\ star[1] = "*"
  OBVIOUS
<1>2. L \in Nat /\ Len(star) + 1 = 2
  BY <1>1
<1>3. /\ place \in [1 .. 2 -> 1 .. L + 1] /\ place[1] = 1 /\ place[2] = L + 1
      /\ place[1] <= place[1 + 1]
  BY <1>2
<1> HIDE DEF star, place
<1>4. \A j \in DOMAIN star :
        IF star[j] = "*" THEN place[j] <= place[j + 1]
        ELSE place[j + 1] = place[j] + 1 /\ star[j] = name[place[j]]
  BY <1>1, <1>3
<1>5. Glob(name, star)
  BY <1>2, <1>3, <1>4 DEF Glob
<1> QED
  BY <1>5 DEF star

\* The name is selected by the fields it matches, and by a star alone.
LEMMA SelectsAsMeant ==
  ASSUME NEW name \in Seq(Marks), NEW rules \in Seq(Marks), rules # <<>>
  PROVE  LET fields == SplitToCmd(ToUpper(rules), <<",">>)
             n == ToUpper(name)
         IN MatchStr(name, rules) <=>
              \E i \in DOMAIN fields :
                /\ fields[i] # <<>>
                /\ \/ Glob(n, fields[i])
                   \/ "*" \notin Range(fields[i]) /\ IsPrefix(fields[i], n)
                                                  /\ IsSuffix(fields[i], n)
<1> DEFINE fields == SplitToCmd(ToUpper(rules), <<",">>)
           n == ToUpper(name)
           Meant(f) == \/ Glob(n, f)
                       \/ "*" \notin Range(f) /\ IsPrefix(f, n) /\ IsSuffix(f, n)
           Found(f) == MatchField(n, SplitToCmd(f, <<"*">>))
<1>1. n \in Seq(Marks) /\ ToUpper(rules) \in Seq(Marks) /\ "," \in Marks /\ "*" \in Marks
  BY UpperIs DEF Marks
<1>2. fields \in Seq(Seq(Marks))
  <2> DEFINE r == ToUpper(rules)
  <2>1. r \in Seq(Marks) /\ "," \in Marks
    BY <1>1
  <2> HIDE DEF r
  <2>2. SplitToCmd(r, <<",">>) \in Seq(Seq(Marks))
    BY <2>1, SplitCuts
  <2> QED
    BY <2>2 DEF r
<1>3. MatchStr(name, rules) <=>
        rules = <<"*">> \/ \E i \in DOMAIN fields : fields[i] # <<>> /\ Found(fields[i])
  BY DEF MatchStr
<1>4. ASSUME rules = <<"*">>
      PROVE  \E i \in DOMAIN fields : fields[i] # <<>> /\ Meant(fields[i])
  <2> DEFINE star == <<"*">>
  <2>1. /\ star \in Seq(Marks) /\ Len(star) = 1 /\ star[1] = "*" /\ DOMAIN star = 1 .. 1
        /\ star # <<>>
    <3>1. "*" \in Marks
      BY DEF Marks
    <3> HIDE DEF fields, n
    <3> QED
      BY <3>1
  <2>2. rules = star
    BY <1>4
  <2> HIDE DEF star
  <2>3. ToUpper(star) = star
    <3>1. ToUpper(star) = [i \in 1 .. 1 |-> "*"]
      BY <2>1 DEF ToUpper
    <3>2. star = [i \in 1 .. 1 |-> "*"]
      BY DEF star
    <3> QED
      BY <3>1, <3>2
  <2>4. \A j \in 1 .. Len(star) : star[j] # ","
    <3>1. \A j \in 1 .. 1 : j = 1
      OBVIOUS
    <3>2. \A j \in 1 .. 1 : star[j] = "*"
      BY <2>1, <3>1
    <3> HIDE DEF fields, n
    <3> QED
      BY <2>1, <3>2
  <2>5. fields = <<star>>
    BY <1>1, <2>1, <2>2, <2>3, <2>4, SplitNone
  <2>6. Meant(star)
    BY <1>1, StarMatches DEF star
  <2>7. 1 \in DOMAIN <<star>> /\ <<star>>[1] = star
    OBVIOUS
  <2> HIDE DEF fields, Meant
  <2> QED
    BY <2>1, <2>5, <2>6, <2>7
<1> HIDE DEF fields
<1>5. \A i \in DOMAIN fields : fields[i] \in Seq(Marks)
  <2>1. DOMAIN fields = 1 .. Len(fields)
    BY <1>2
  <2> QED
    BY <1>2, <2>1, ElementOfSeq
<1>6. \A f \in Seq(Marks) : Found(f) <=> Meant(f)
  <2> TAKE f \in Seq(Marks)
  <2> HIDE DEF n
  <2> QED
    BY <1>1, FieldIs
<1>7. MatchStr(name, rules) <=> \E i \in DOMAIN fields : fields[i] # <<>> /\ Meant(fields[i])
  <2> HIDE DEF Found, Meant
  <2> QED
    BY <1>3, <1>4, <1>5, <1>6
<1> QED
  BY <1>7 DEF fields

\* Whatever the name and the rule are.
LEMMA NamesDoMatch == MatchAgrees
BY MarksAre, SelectsAsMeant DEF MatchAgrees

\* What a session lists are the files its rule asks for, whatever the rule and
\* their names are, but for a field without a star, which selects what it
\* begins and ends (_public.cpp:338-398, 1529).
THEOREM ListedAsAskedAlways == Spec => []ListedAsAsked
<1>1. ListedAsAsked
  BY NamesDoMatch DEF ListedAsAsked
<1> QED
  BY <1>1, PTL
=============================================================================
