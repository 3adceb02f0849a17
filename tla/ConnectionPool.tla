--------------------------- MODULE ConnectionPool ---------------------------
(***************************************************************************)
(* The MySQL connection pool of the chat server (db/connectionpool.cpp):   *)
(* the producer thread, the scanner thread, and the threads that take a    *)
(* connection for one statement and give it back.                          *)
(*                                                                         *)
(* Every access to the pool is made under _queueMutex, which is released   *)
(* only by waiting on `cv', so a step here is what a thread does between   *)
(* two waits, or between acquiring and releasing the mutex.  The one       *)
(* condition variable is shared: notify_all wakes the producer and every   *)
(* waiting worker.  A wait may also end for no reason.                     *)
(*                                                                         *)
(* Two clocks are kept.  `cpu' is clock(), the processor time the process  *)
(* has used, by which the code measures idleness; `wall' is the time of    *)
(* mysql.txt, in which the code sleeps.                                    *)
(***************************************************************************)
EXTENDS Sequences, FiniteSets, Integers

CONSTANTS Worker,       \* threads that call getConnection
          MySQL,        \* addresses a connection can have
          NoMySQL,      \* nullptr
          InitSize, MaxSize,
          MaxIdleTime,  \* in wall ticks
          CpuLimit,     \* _maxIdleTime * 1000, in ticks of clock()
          CpuRate,      \* the most clock() advances in a wall tick
          MaxWall       \* bound: the wall time explored

ASSUME PoolAssumption ==
  /\ IsFiniteSet(Worker) /\ IsFiniteSet(MySQL)
  /\ InitSize \in Nat \ {0} /\ MaxSize \in Nat /\ InitSize <= MaxSize
  /\ MaxSize <= Cardinality(MySQL)
  /\ NoMySQL \notin MySQL
  /\ MaxIdleTime \in Nat /\ CpuLimit \in Nat \ {0}
  /\ CpuRate \in Nat /\ MaxWall \in Nat

VARIABLES queue,     \* _connectionQue
          cnt,       \* _connectionCnt
          pc,        \* where each worker is
          held,      \* the connection each worker has
          callers,   \* history: the workers that have called so far
          producer,  \* "ready" to take the mutex, or "asleep" in cv.wait
          alive,     \* _alivetime of each connection
          nextScan,  \* when the scanner's sleep ends
          cpu, wall

workers == <<pc, held, callers>>
clocks == <<cpu, wall>>
vars == <<queue, cnt, workers, producer, alive, nextScan, clocks>>

InQueue == {queue[i] : i \in DOMAIN queue}
Holders == {w \in Worker : held[w] # NoMySQL}
Live == InQueue \cup {held[w] : w \in Holders}

TypeOK ==
  /\ queue \in Seq(MySQL)
  /\ cnt \in Nat
  /\ pc \in [Worker -> {"out", "waiting", "woken", "holding", "null"}]
  /\ held \in [Worker -> MySQL \cup {NoMySQL}]
  /\ callers \in SUBSET Worker
  /\ producer \in {"ready", "asleep"}
  /\ alive \in [MySQL -> Nat]
  /\ nextScan \in Nat /\ cpu \in Nat /\ wall \in Nat

\* The constructor: InitSize connections, in any order of their addresses.
Init ==
  /\ queue \in [1 .. InitSize -> MySQL]
  /\ \A i, j \in 1 .. InitSize : queue[i] = queue[j] => i = j
  /\ cnt = InitSize
  /\ pc = [w \in Worker |-> "out"]
  /\ held = [w \in Worker |-> NoMySQL]
  /\ callers = {}
  /\ producer = "ready"
  /\ alive = [c \in MySQL |-> 0]
  /\ nextScan = MaxIdleTime /\ cpu = 0 /\ wall = 0

-----------------------------------------------------------------------------
\* refreshAliveTime()
Refresh(c) == alive' = [alive EXCEPT ![c] = cpu]

\* cv.notify_all(), as it moves the workers.
Wake == [w \in Worker |-> IF pc[w] = "waiting" THEN "woken" ELSE pc[w]]

\* produceConnectionTask: while the queue is not empty, wait.
ProducerWaits ==
  /\ producer = "ready" /\ queue # <<>>
  /\ producer' = "asleep"
  /\ UNCHANGED <<queue, cnt, workers, alive, nextScan, clocks>>

\* Mutant: the producer does not wait for the queue to be empty.
ProducerCreates_Eager ==
  /\ producer = "ready" /\ cnt < MaxSize
  /\ \E c \in MySQL \ Live : queue' = Append(queue, c) /\ Refresh(c)
  /\ cnt' = cnt + 1
  /\ pc' = Wake
  /\ UNCHANGED <<held, callers, producer, nextScan, clocks>>

\* The queue is empty and there may be one more connection.
ProducerCreates ==
  /\ producer = "ready" /\ queue = <<>> /\ cnt < MaxSize
  /\ \E c \in MySQL \ Live : queue' = <<c>> /\ Refresh(c)
  /\ cnt' = cnt + 1
  /\ pc' = Wake
  /\ UNCHANGED <<held, callers, producer, nextScan, clocks>>

\* The queue is empty and there may not: notify and go round again.
ProducerSpins ==
  /\ producer = "ready" /\ queue = <<>> /\ cnt >= MaxSize
  /\ pc' = Wake
  /\ UNCHANGED <<queue, cnt, held, callers, producer, alive, nextScan, clocks>>

\* cv.wait may return unnotified; the loop around it looks again.
ProducerSpurious ==
  /\ producer = "asleep"
  /\ producer' = "ready"
  /\ UNCHANGED <<queue, cnt, workers, alive, nextScan, clocks>>

-----------------------------------------------------------------------------
\* Mutant: the connection stays in the queue.
Take_NoPop(w) ==
  /\ queue # <<>>
  /\ held' = [held EXCEPT ![w] = Head(queue)]
  /\ pc' = [pc EXCEPT ![w] = "holding"]
  /\ UNCHANGED <<queue, cnt, producer, alive, nextScan, clocks>>

\* The end of getConnection: the front is taken and, if it was the last one,
\* everybody is notified.
Take(w) ==
  /\ queue # <<>>
  /\ held' = [held EXCEPT ![w] = Head(queue)]
  /\ queue' = Tail(queue)
  /\ IF queue' = <<>>
     THEN /\ pc' = [Wake EXCEPT ![w] = "holding"]
          /\ producer' = "ready"
     ELSE /\ pc' = [pc EXCEPT ![w] = "holding"]
          /\ UNCHANGED producer
  /\ UNCHANGED <<cnt, alive, nextScan, clocks>>

\* cv.wait_for
Wait(w) ==
  /\ queue = <<>>
  /\ pc' = [pc EXCEPT ![w] = "waiting"]
  /\ UNCHANGED <<queue, cnt, held, producer, alive, nextScan, clocks>>

\* getConnection, on entry.
GetConnection(w) ==
  /\ pc[w] = "out"
  /\ callers' = callers \cup {w}
  /\ Take(w) \/ Wait(w)

\* The wait ended by a notification, or by nothing: another wait with the
\* whole timeout if the queue is empty again.
WakeUp(w) ==
  /\ pc[w] \in {"waiting", "woken"}
  /\ Take(w) \/ Wait(w)
  /\ UNCHANGED callers

\* Mutant: on a timeout the loop goes on waiting.
TimeOut_Retry(w) ==
  /\ pc[w] \in {"waiting", "woken"}
  /\ Take(w) \/ Wait(w)
  /\ UNCHANGED callers

\* Mutant: nullptr is returned with the deleter of a connection.
TimeOut_Deleter(w) ==
  /\ pc[w] \in {"waiting", "woken"}
  /\ \/ Take(w)
     \/ /\ queue = <<>>
        /\ pc' = [pc EXCEPT ![w] = "holding"]
        /\ UNCHANGED <<queue, cnt, held, producer, alive, nextScan, clocks>>
  /\ UNCHANGED callers

\* The wait has timed out, and the queue is looked at once more.  A thread
\* that was notified but runs again only after its deadline has timed out too.
TimeOut(w) ==
  /\ pc[w] \in {"waiting", "woken"}
  /\ \/ Take(w)
     \/ /\ queue = <<>>
        /\ pc' = [pc EXCEPT ![w] = "null"]
        /\ UNCHANGED <<queue, cnt, held, producer, alive, nextScan, clocks>>
  /\ UNCHANGED callers

\* Mutant: the connection goes back to the front of the queue.
Release_Front(w) ==
  /\ pc[w] = "holding"
  /\ queue' = <<held[w]>> \o queue
  /\ Refresh(held[w])
  /\ held' = [held EXCEPT ![w] = NoMySQL]
  /\ pc' = [pc EXCEPT ![w] = "out"]
  /\ UNCHANGED <<cnt, callers, producer, nextScan, clocks>>

\* The deleter of the shared_ptr: no notification.
Release(w) ==
  /\ pc[w] = "holding"
  /\ queue' = Append(queue, held[w])
  /\ Refresh(held[w])
  /\ held' = [held EXCEPT ![w] = NoMySQL]
  /\ pc' = [pc EXCEPT ![w] = "out"]
  /\ UNCHANGED <<cnt, callers, producer, nextScan, clocks>>

-----------------------------------------------------------------------------
\* Mutant: the number of connections is not compared with _initSize.
Expired_ToTheLast(n) ==
  /\ n <= Len(queue)
  /\ \A i \in 1 .. n : cpu - alive[queue[i]] >= CpuLimit

\* Connections 1 to n of the queue go in one scan.
Expired(n) ==
  /\ n <= Len(queue) /\ n <= cnt - InitSize
  /\ \A i \in 1 .. n : cpu - alive[queue[i]] >= CpuLimit

\* Mutant: _connectionCnt is not decremented.
Scan_NoDecrement ==
  \E n \in 0 .. Len(queue) :
    /\ wall >= nextScan /\ nextScan' = wall + MaxIdleTime
    /\ Expired(n) /\ ~ Expired(n + 1)
    /\ queue' = SubSeq(queue, n + 1, Len(queue))
    /\ UNCHANGED <<cnt, workers, producer, alive, clocks>>

\* scannerConnectionTask: from the front, until one is not idle for long
\* enough, or the queue or the surplus over _initSize is exhausted.  Nobody
\* is notified.
Scan ==
  \E n \in 0 .. Len(queue) :
    /\ wall >= nextScan /\ nextScan' = wall + MaxIdleTime
    /\ Expired(n) /\ ~ Expired(n + 1)
    /\ queue' = SubSeq(queue, n + 1, Len(queue))
    /\ cnt' = cnt - n
    /\ UNCHANGED <<workers, producer, alive, clocks>>

\* Time passes; the process may have run for any part of it, on several cores.
Tick ==
  /\ wall < MaxWall
  /\ wall' = wall + 1
  /\ cpu' \in cpu .. cpu + CpuRate
  /\ UNCHANGED <<queue, cnt, workers, producer, alive, nextScan>>

Producer == ProducerWaits \/ ProducerCreates \/ ProducerSpins \/ ProducerSpurious

Caller(w) == GetConnection(w) \/ WakeUp(w) \/ TimeOut(w) \/ Release(w)

Next == Producer \/ (\E w \in Worker : Caller(w)) \/ Scan \/ Tick

Spec == Init /\ [][Next]_vars

\* The threads run: a wait that nothing interrupts times out, a notified
\* worker gets the mutex back, and the producer does unless it is in cv.wait.
\* Nothing is assumed of how long a worker keeps its connection, nor of
\* waits that a notification interrupts before they time out.
Fairness ==
  /\ WF_vars(ProducerWaits \/ ProducerCreates \/ ProducerSpins)
  /\ \A w \in Worker :
       /\ WF_vars(pc[w] = "waiting" /\ TimeOut(w))
       /\ WF_vars(pc[w] = "woken" /\ (WakeUp(w) \/ TimeOut(w)))

FairSpec == Spec /\ Fairness

-----------------------------------------------------------------------------
(* Properties.                                                             *)

\* A connection is in the queue once or in the hands of one worker, never
\* both and never of two: statements of different threads do not share a
\* MYSQL handle (connectionpool.cpp:167-175).
NoAlias ==
  /\ \A i, j \in DOMAIN queue : queue[i] = queue[j] => i = j
  /\ \A w \in Holders : held[w] \notin InQueue
  /\ \A v, w \in Holders : held[v] = held[w] => v = w

CountExact == cnt = Len(queue) + Cardinality(Holders)
CountBounds == InitSize <= cnt /\ cnt <= MaxSize

\* _connectionCnt is the number of connections there are, those in use
\* included, which neither a waiting worker, a failed wait nor a scan upsets;
\* the scanner never goes below _initSize nor the producer above _maxSize
\* (connectionpool.cpp:128-135, 196-207).
CountRight == CountExact /\ CountBounds

\* connectionpool.cpp:210: if the front has not been idle for long, no other
\* has, so a scan may stop there.
SortedIdle ==
  \A i, j \in DOMAIN queue : i <= j => alive[queue[i]] <= alive[queue[j]]

NeverNull ==
  Cardinality(callers) <= InitSize => \A w \in Worker : pc[w] \in {"out", "holding"}
ProducerNotNeeded ==
  Cardinality(callers) < InitSize => queue # <<>> /\ cnt = InitSize

\* While no more threads have called than there are initial connections,
\* getConnection never waits, and so never returns the nullptr that the models
\* dereference: the chat server's two IO threads and its main thread against
\* initSize=5.  With one caller fewer the pool is never empty, so the producer,
\* which the scanner does not notify, has nothing to do
\* (connectionpool.cpp:148-160, 177-180, 196-207, chatserver.cpp:24).
FewCallers == NeverNull /\ ProducerNotNeeded

\* The pool grows only to meet demand: to one connection more than callers who
\* can hold one at a time, since the producer runs only on an empty queue
\* (connectionpool.cpp:114-135).
GrowsWithDemand == cnt <= InitSize \/ cnt <= Cardinality(callers) + 1

Waiting(w) == pc[w] \in {"waiting", "woken"}

\* If somebody is always waiting, then calls keep ending, with a connection or
\* with nullptr (which call, the mutex decides), where no more threads call
\* than there may be connections: although the scanner notifies nobody and a
\* release does not either (connectionpool.cpp:148-160, 168-173, 196-214).
\* With more callers nothing of the kind holds: a producer at the limit
\* notifies without end, and each notification gives the waiting callers a new
\* timeout (connectionpool.cpp:128-138).
CallsEndWithinMax ==
  [](Cardinality(callers) <= MaxSize) =>
    \/ []<>(\A w \in Worker : ~ Waiting(w))
    \/ []<><<\E w \in Worker : pc[w] # pc'[w] /\ pc'[w] \in {"holding", "null"}>>_vars
=============================================================================
