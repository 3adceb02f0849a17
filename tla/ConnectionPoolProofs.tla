------------------------ MODULE ConnectionPoolProofs ------------------------
(***************************************************************************)
(* The safety properties of the connection pool, proved for any number of  *)
(* threads, any pool sizes and any timing.  They rest on one inductive     *)
(* invariant, IInv, preserved by each action: a lemma per action.          *)
(***************************************************************************)
EXTENDS ConnectionPool, FiniteSetTheorems, SequenceTheorems, TLAPS

\* Who is at the point of holding a connection holds one, and nobody else.
HoldState == \A w \in Worker : pc[w] = "holding" <=> held[w] # NoMySQL

\* Whoever is inside getConnection, or came out of it, has called it.
Called == \A w \in Worker : pc[w] # "out" => w \in callers

\* A connection was made idle in the past.
MadeIdle == \A c \in MySQL : alive[c] <= cpu

Core == TypeOK /\ NoAlias /\ CountExact /\ CountBounds
Times == MadeIdle /\ SortedIdle
Who == HoldState /\ Called
Demand == NeverNull /\ GrowsWithDemand /\ ProducerNotNeeded

IInv == Core /\ Who /\ Times /\ Demand

-----------------------------------------------------------------------------
(* Counting.                                                               *)

\* The holders and the callers are finitely many, and whoever holds a
\* connection has called for it.
LEMMA HoldersCount ==
  ASSUME TypeOK, HoldState, Called
  PROVE  /\ IsFiniteSet(Holders) /\ IsFiniteSet(callers)
         /\ Cardinality(Holders) \in Nat /\ Cardinality(callers) \in Nat
         /\ Cardinality(Holders) <= Cardinality(callers)
<1>1. Holders \subseteq callers /\ callers \subseteq Worker
  BY DEF Holders, HoldState, Called, TypeOK
<1>2. IsFiniteSet(callers)
  BY <1>1, PoolAssumption, FS_Subset
<1> QED
  BY <1>1, <1>2, FS_Subset, FS_CardinalityType

\* When the queue is empty every connection is in somebody's hands, so a
\* caller with none makes one caller more than there are connections.
LEMMA EmptyQueueDemand ==
  ASSUME TypeOK, HoldState, Called, CountExact, queue = <<>>,
         NEW w \in Worker, w \notin Holders
  PROVE  /\ cnt <= Cardinality(callers)
         /\ IsFiniteSet(callers \cup {w})
         /\ Cardinality(callers \cup {w}) \in Nat
         /\ cnt + 1 <= Cardinality(callers \cup {w})
<1>1. cnt = Cardinality(Holders) /\ cnt \in Nat
  BY EmptySeq, HoldersCount DEF CountExact, TypeOK
<1>2. Cardinality(Holders \cup {w}) = cnt + 1
  BY <1>1, HoldersCount, FS_AddElement
<1>3. Holders \cup {w} \subseteq callers \cup {w}
  BY DEF Holders, HoldState, Called
<1>4. IsFiniteSet(callers \cup {w}) /\ Cardinality(callers \cup {w}) \in Nat
  BY HoldersCount, FS_AddElement, FS_CardinalityType
<1>5. Cardinality(Holders \cup {w}) <= Cardinality(callers \cup {w})
  BY <1>3, <1>4, FS_Subset
<1> QED
  BY <1>1, <1>2, <1>4, <1>5, HoldersCount

\* A new caller is at most one more.
LEMMA CallersGrow ==
  ASSUME TypeOK, NEW w \in Worker
  PROVE  /\ Cardinality(callers) \in Nat /\ Cardinality(callers \cup {w}) \in Nat
         /\ Cardinality(callers) <= Cardinality(callers \cup {w})
         /\ Cardinality(callers \cup {w}) <= Cardinality(callers) + 1
<1>1. IsFiniteSet(callers)
  BY PoolAssumption, FS_Subset DEF TypeOK
<1>2. Cardinality(callers) \in Nat
  BY <1>1, FS_CardinalityType
<1>3. Cardinality(callers \cup {w}) =
        IF w \in callers THEN Cardinality(callers) ELSE Cardinality(callers) + 1
  BY <1>1, FS_AddElement
<1> QED
  BY <1>2, <1>3

\* While fewer threads have called than there are initial connections, and
\* the pool has no more, the queue is not empty.
LEMMA FewAfterStep ==
  ASSUME TypeOK', HoldState', Called', CountExact', CountBounds',
         Cardinality(callers') < InitSize => cnt' = InitSize
  PROVE  ProducerNotNeeded'
<1> SUFFICES ASSUME Cardinality(callers') < InitSize
             PROVE  queue' # <<>>
  BY DEF ProducerNotNeeded
<1>1. Holders' \subseteq callers' /\ callers' \subseteq Worker
  BY DEF Holders, HoldState, Called, TypeOK
<1>2. IsFiniteSet(callers')
  BY <1>1, PoolAssumption, FS_Subset
<1>3. /\ Cardinality(Holders') \in Nat /\ Cardinality(callers') \in Nat
      /\ Cardinality(Holders') <= Cardinality(callers')
  BY <1>1, <1>2, FS_Subset, FS_CardinalityType
<1>4. cnt' > Cardinality(Holders')
  BY <1>3, PoolAssumption DEF CountBounds, TypeOK
<1> QED
  BY <1>3, <1>4, EmptySeq DEF CountExact, TypeOK

-----------------------------------------------------------------------------
(* The initial states.                                                     *)

\* The pool as it is constructed.
LEMMA InitInv == Init => IInv
<1> SUFFICES ASSUME Init PROVE IInv
  OBVIOUS
<1>1. queue \in Seq(MySQL) /\ Len(queue) = InitSize /\ DOMAIN queue = 1 .. InitSize
  BY PoolAssumption DEF Init
<1>2. TypeOK
  BY <1>1, PoolAssumption DEF Init, TypeOK
<1>3. Holders = {}
  BY DEF Init, Holders
<1>4. NoAlias
  BY <1>1, <1>3 DEF Init, NoAlias
<1>5. CountExact /\ CountBounds
  BY <1>1, <1>3, FS_EmptySet, PoolAssumption DEF Init, CountExact, CountBounds
<1>6. Who
  BY DEF Init, Who, HoldState, Called
<1>7. Times
  BY <1>1, PoolAssumption DEF Init, Times, MadeIdle, SortedIdle
<1>8. NeverNull /\ GrowsWithDemand
  BY PoolAssumption DEF Init, NeverNull, GrowsWithDemand
<1>9. ProducerNotNeeded
  BY <1>1, PoolAssumption, EmptySeq DEF Init, ProducerNotNeeded
<1> QED
  BY <1>2, <1>4, <1>5, <1>6, <1>7, <1>8, <1>9 DEF IInv, Core, Demand

-----------------------------------------------------------------------------
(* The actions of the callers.                                             *)

\* What Wake leaves as it was.
LEMMA WakeType ==
  ASSUME TypeOK
  PROVE  /\ Wake \in [Worker -> {"out", "waiting", "woken", "holding", "null"}]
         /\ \A w \in Worker : /\ Wake[w] = "holding" <=> pc[w] = "holding"
                              /\ Wake[w] = "out" <=> pc[w] = "out"
  BY DEF TypeOK, Wake

\* getConnection ends with the front of the queue.
LEMMA TakeInv ==
  ASSUME IInv, NEW w \in Worker, pc[w] # "holding", Take(w),
         callers' = callers \cup {w}
  PROVE  IInv'
<1> USE DEF IInv, Core, Who, Times, Demand
<1>1. /\ queue # <<>> /\ queue' = Tail(queue)
      /\ held' = [held EXCEPT ![w] = Head(queue)]
      /\ cnt' = cnt /\ alive' = alive /\ cpu' = cpu /\ nextScan' = nextScan
      /\ wall' = wall
  BY DEF Take, clocks
<1>2. /\ Head(queue) \in MySQL /\ Head(queue) = queue[1]
      /\ queue' \in Seq(MySQL) /\ Len(queue') = Len(queue) - 1
      /\ \A i \in 1 .. Len(queue') : queue'[i] = queue[i + 1]
      /\ DOMAIN queue = 1 .. Len(queue) /\ DOMAIN queue' = 1 .. Len(queue')
      /\ Len(queue) \in Nat \ {0}
  BY <1>1, HeadTailProperties, LenProperties, EmptySeq DEF TypeOK
<1>3. /\ pc' \in [Worker -> {"out", "waiting", "woken", "holding", "null"}]
      /\ pc'[w] = "holding"
      /\ \A v \in Worker \ {w} : /\ pc'[v] = "holding" <=> pc[v] = "holding"
                                 /\ pc'[v] = "out" <=> pc[v] = "out"
  BY WakeType DEF Take, TypeOK
<1>4. TypeOK'
  <2>1. producer' \in {"ready", "asleep"}
    BY DEF Take, TypeOK
  <2> QED
    BY <1>1, <1>2, <1>3, <2>1 DEF TypeOK
<1>5. w \notin Holders /\ Holders' = Holders \cup {w}
  BY <1>1, <1>2, PoolAssumption DEF HoldState, Holders, TypeOK
<1>6. CountExact'
  <2>1. Cardinality(Holders') = Cardinality(Holders) + 1
    BY <1>5, HoldersCount, FS_AddElement
  <2> QED
    BY <1>1, <1>2, <2>1, HoldersCount DEF CountExact
<1>7. NoAlias'
  <2>1. \A i, j \in DOMAIN queue' : queue'[i] = queue'[j] => i = j
    BY <1>2 DEF NoAlias
  <2>2. InQueue' \subseteq InQueue /\ queue[1] \in InQueue /\ queue[1] \notin InQueue'
    <3>1. InQueue' = {queue[i + 1] : i \in 1 .. Len(queue')}
      BY <1>2 DEF InQueue
    <3>2. \A i \in 1 .. Len(queue') : i + 1 \in DOMAIN queue /\ i + 1 # 1
      BY <1>2
    <3>3. 1 \in DOMAIN queue
      BY <1>2
    <3> QED
      BY <3>1, <3>2, <3>3 DEF NoAlias, InQueue
  <2>3. \A v \in Holders' : held'[v] = IF v = w THEN queue[1] ELSE held[v]
    BY <1>1, <1>2, <1>5 DEF TypeOK, Holders
  <2>4. \A v \in Holders : held[v] \notin InQueue
    BY DEF NoAlias
  <2>5. \A v \in Holders' : held'[v] \notin InQueue'
    BY <1>5, <2>2, <2>3, <2>4
  <2>6. \A u, v \in Holders' : held'[u] = held'[v] => u = v
    BY <1>5, <2>2, <2>3, <2>4 DEF NoAlias
  <2> QED
    BY <2>1, <2>5, <2>6 DEF NoAlias
<1>8. HoldState'
  BY <1>1, <1>2, <1>3, PoolAssumption DEF HoldState, TypeOK
<1>9. Called'
  BY <1>3 DEF Called
<1>10. Times'
  <2>1. \A i \in DOMAIN queue' : i \in Nat /\ i + 1 \in DOMAIN queue
    BY <1>2
  <2>2. SortedIdle'
    BY <1>1, <1>2, <2>1 DEF SortedIdle
  <2> QED
    BY <1>1, <2>2 DEF MadeIdle
<1>11. CountBounds'
  BY <1>1 DEF CountBounds
<1>12. NeverNull'
  <2> SUFFICES ASSUME Cardinality(callers') <= InitSize, NEW v \in Worker
               PROVE  pc'[v] \in {"out", "holding"}
    BY DEF NeverNull
  <2>1. pc[v] \in {"out", "holding"}
    BY CallersGrow, PoolAssumption DEF NeverNull
  <2> QED
    BY <1>3, <2>1
<1>13. GrowsWithDemand'
  BY <1>1, CallersGrow, PoolAssumption DEF GrowsWithDemand, TypeOK
<1>14. ProducerNotNeeded'
  <2>1. Cardinality(callers') < InitSize => cnt' = InitSize
    BY <1>1, CallersGrow, PoolAssumption DEF ProducerNotNeeded
  <2> QED
    BY <1>4, <1>6, <1>8, <1>9, <1>11, <2>1, FewAfterStep
<1> QED
  BY <1>4, <1>6, <1>7, <1>8, <1>9, <1>10, <1>11, <1>12, <1>13, <1>14

\* Waiting changes nothing of the pool, and only more callers than there are
\* initial connections get there.
LEMMA WaitInv ==
  ASSUME IInv, NEW w \in Worker, pc[w] # "holding", queue = <<>>,
         NEW p \in {"waiting", "null"}, pc' = [pc EXCEPT ![w] = p],
         UNCHANGED <<queue, cnt, held, producer, alive, nextScan, clocks>>,
         callers' = callers \cup {w}
  PROVE  IInv'
<1> USE DEF IInv, Core, Who, Times, Demand, clocks
<1>1. TypeOK'
  BY DEF TypeOK
<1>2. Holders' = Holders /\ w \notin Holders /\ InQueue' = InQueue
  BY DEF HoldState, Holders, InQueue
<1>3. NoAlias' /\ CountExact' /\ CountBounds'
  BY <1>2 DEF NoAlias, CountExact, CountBounds
<1>4. HoldState' /\ Called'
  BY DEF HoldState, Called, TypeOK
<1>5. Times'
  BY DEF MadeIdle, SortedIdle
<1>6. Cardinality(callers') > InitSize
  <2>1. Cardinality(callers') \in Nat /\ cnt + 1 <= Cardinality(callers')
    BY <1>2, EmptyQueueDemand
  <2> QED
    BY <2>1, PoolAssumption DEF CountBounds, TypeOK
<1>7. NeverNull' /\ ProducerNotNeeded'
  BY <1>1, <1>6, CallersGrow, PoolAssumption DEF NeverNull, ProducerNotNeeded
<1>8. GrowsWithDemand'
  BY CallersGrow, PoolAssumption DEF GrowsWithDemand, TypeOK
<1> QED
  BY <1>1, <1>3, <1>4, <1>5, <1>7, <1>8

\* A step of a call.
LEMMA CallInv ==
  ASSUME IInv, NEW w \in Worker, GetConnection(w) \/ WakeUp(w) \/ TimeOut(w)
  PROVE  IInv'
<1>1. callers' = callers \cup {w} /\ pc[w] # "holding"
  BY DEF GetConnection, WakeUp, TimeOut, IInv, Who, Called
<1>2. CASE Take(w)
  BY <1>1, <1>2, TakeInv
<1>3. CASE ~ Take(w)
  <2>1. PICK p \in {"waiting", "null"} :
          /\ queue = <<>> /\ pc' = [pc EXCEPT ![w] = p]
          /\ UNCHANGED <<queue, cnt, held, producer, alive, nextScan, clocks>>
    BY <1>3 DEF GetConnection, WakeUp, TimeOut, Wait
  <2> QED
    BY <1>1, <2>1, WaitInv
<1> QED
  BY <1>2, <1>3

\* A connection comes back: made idle now, it may stand last.
LEMMA ReleaseInv ==
  ASSUME IInv, NEW w \in Worker, Release(w)
  PROVE  IInv'
<1> USE DEF IInv, Core, Who, Times, Demand, clocks
<1> DEFINE c == held[w]
<1>1. /\ pc[w] = "holding" /\ w \in Holders /\ c \in MySQL
      /\ queue' = Append(queue, c) /\ alive' = [alive EXCEPT ![c] = cpu]
      /\ held' = [held EXCEPT ![w] = NoMySQL] /\ pc' = [pc EXCEPT ![w] = "out"]
      /\ UNCHANGED <<cnt, callers, producer, nextScan, clocks>>
  BY DEF Release, Refresh, HoldState, Holders, TypeOK
<1>2. /\ queue' \in Seq(MySQL) /\ Len(queue') = Len(queue) + 1
      /\ \A i \in DOMAIN queue : queue'[i] = queue[i] /\ queue[i] \in MySQL
      /\ queue'[Len(queue) + 1] = c /\ Len(queue) \in Nat
      /\ DOMAIN queue = 1 .. Len(queue) /\ DOMAIN queue' = 1 .. Len(queue) + 1
  BY <1>1, LenProperties DEF TypeOK
<1>3. TypeOK'
  BY <1>1, <1>2 DEF TypeOK
<1>4. Holders' = Holders \ {w}
  BY <1>1, PoolAssumption DEF Holders, TypeOK
<1>5. CountExact'
  <2>1. Cardinality(Holders') = Cardinality(Holders) - 1
    BY <1>1, <1>4, HoldersCount, FS_RemoveElement
  <2> QED
    BY <1>1, <1>2, <2>1, HoldersCount DEF CountExact
<1>6. NoAlias'
  <2>1. \A i \in DOMAIN queue : queue[i] # c
    BY <1>1 DEF NoAlias, InQueue
  <2>2. \A i \in DOMAIN queue' : i \in DOMAIN queue \/ i = Len(queue) + 1
    BY <1>2
  <2>3. \A i, j \in DOMAIN queue' : queue'[i] = queue'[j] => i = j
    BY <1>2, <2>1, <2>2 DEF NoAlias
  <2>4. InQueue' \subseteq InQueue \cup {c}
    BY <1>2, <2>2 DEF InQueue
  <2>5. \A v \in Holders' : v \in Holders /\ v # w /\ held'[v] = held[v]
    BY <1>1, <1>4 DEF TypeOK, Holders
  <2>6. \A v \in Holders' : held'[v] \notin InQueue'
    BY <1>1, <2>4, <2>5 DEF NoAlias
  <2> QED
    BY <2>3, <2>5, <2>6 DEF NoAlias
<1>7. CountBounds' /\ GrowsWithDemand' /\ NeverNull'
  BY <1>1 DEF CountBounds, GrowsWithDemand, NeverNull, TypeOK
<1>8. Who'
  BY <1>1, PoolAssumption DEF HoldState, Called, TypeOK
<1>9. MadeIdle'
  BY <1>1 DEF MadeIdle, TypeOK
<1>10. SortedIdle'
  <2>1. \A i \in DOMAIN queue : queue[i] # c
    BY <1>1 DEF NoAlias, InQueue
  <2> SUFFICES ASSUME NEW i \in DOMAIN queue', NEW j \in DOMAIN queue', i <= j
               PROVE  alive'[queue'[i]] <= alive'[queue'[j]]
    BY DEF SortedIdle
  <2>2. CASE j \in DOMAIN queue
    <3>1. i \in DOMAIN queue
      BY <1>2, <2>2
    <3> QED
      BY <1>1, <1>2, <2>1, <2>2, <3>1 DEF SortedIdle, TypeOK
  <2>3. CASE j = Len(queue) + 1
    <3>1. alive'[queue'[j]] = cpu
      BY <1>1, <1>2, <2>3 DEF TypeOK
    <3>2. queue'[i] \in MySQL
      BY <1>2
    <3> QED
      BY <1>1, <1>9, <3>1, <3>2 DEF MadeIdle
  <2> QED
    BY <1>2, <2>2, <2>3
<1>11. ProducerNotNeeded'
  BY <1>1, <1>3, <1>5, <1>7, <1>8, FewAfterStep DEF ProducerNotNeeded
<1> QED
  BY <1>3, <1>5, <1>6, <1>7, <1>8, <1>9, <1>10, <1>11

-----------------------------------------------------------------------------
(* The producer, the scanner and the clocks.                               *)

\* Steps that only notify, or only move the producer's own state.
LEMMA NotifyInv ==
  ASSUME IInv, pc' \in {pc, Wake}, producer' \in {"ready", "asleep"},
         UNCHANGED <<queue, cnt, held, callers, alive, nextScan, clocks>>
  PROVE  IInv'
<1> USE DEF IInv, Core, Who, Times, Demand, clocks
<1>1. /\ pc' \in [Worker -> {"out", "waiting", "woken", "holding", "null"}]
      /\ \A w \in Worker : /\ pc'[w] = "holding" <=> pc[w] = "holding"
                           /\ pc'[w] = "out" <=> pc[w] = "out"
  BY WakeType DEF TypeOK
<1>2. TypeOK'
  BY <1>1 DEF TypeOK
<1>3. Holders' = Holders /\ InQueue' = InQueue
  BY DEF Holders, InQueue
<1>4. NoAlias' /\ CountExact' /\ CountBounds'
  BY <1>3 DEF NoAlias, CountExact, CountBounds
<1>5. HoldState' /\ Called'
  BY <1>1 DEF HoldState, Called
<1>6. Times'
  BY DEF MadeIdle, SortedIdle
<1>7. NeverNull' /\ GrowsWithDemand' /\ ProducerNotNeeded'
  BY <1>1 DEF NeverNull, GrowsWithDemand, ProducerNotNeeded
<1> QED
  BY <1>2, <1>4, <1>5, <1>6, <1>7

\* The new connection is the only one in the queue, and is not in use.
LEMMA CreateInv ==
  ASSUME IInv, ProducerCreates
  PROVE  IInv'
<1> USE DEF IInv, Core, Who, Times, Demand, clocks
<1>1. PICK c \in MySQL \ Live : queue' = <<c>> /\ alive' = [alive EXCEPT ![c] = cpu]
  BY DEF ProducerCreates, Refresh
<1>2. /\ queue = <<>> /\ cnt < MaxSize /\ cnt' = cnt + 1 /\ pc' = Wake
      /\ UNCHANGED <<held, callers, producer, nextScan, clocks>>
  BY DEF ProducerCreates
<1>3. /\ queue' \in Seq(MySQL) /\ Len(queue') = 1 /\ DOMAIN queue' = {1}
      /\ queue'[1] = c /\ queue' # <<>>
  BY <1>1
<1>4. TypeOK'
  BY <1>1, <1>2, <1>3, WakeType DEF TypeOK
<1>5. Holders' = Holders
  BY <1>2 DEF Holders
<1>6. CountExact'
  BY <1>2, <1>3, <1>5, EmptySeq, HoldersCount DEF CountExact
<1>7. NoAlias'
  <2>1. \A w \in Holders : held[w] # c
    BY DEF Live
  <2>2. InQueue' = {c}
    BY <1>3 DEF InQueue
  <2> QED
    BY <1>2, <1>3, <1>5, <2>1, <2>2 DEF NoAlias
<1>8. CountBounds'
  BY <1>2, PoolAssumption DEF CountBounds, TypeOK
<1>9. Who'
  BY <1>2, WakeType DEF HoldState, Called
<1>10. MadeIdle'
  BY <1>1, <1>2 DEF MadeIdle, TypeOK
<1>11. SortedIdle'
  <2>1. \A i, j \in DOMAIN queue' : i = j
    BY <1>3
  <2>2. alive'[c] \in Nat
    BY <1>4 DEF TypeOK
  <2> QED
    BY <1>3, <2>1, <2>2 DEF SortedIdle
<1>12. GrowsWithDemand'
  <2>1. cnt = Cardinality(Holders)
    BY <1>2, EmptySeq, HoldersCount DEF CountExact
  <2> QED
    BY <1>2, <2>1, HoldersCount DEF GrowsWithDemand, TypeOK
<1>13. NeverNull'
  BY <1>2, WakeType DEF NeverNull, Wake
<1>14. ProducerNotNeeded'
  BY <1>2 DEF ProducerNotNeeded
<1> QED
  BY <1>4, <1>6, <1>7, <1>8, <1>9, <1>10, <1>11, <1>12, <1>13, <1>14

\* The length SubSeqProperties gives to the rest of a sequence, by cases.
LEMMA DropLength ==
  ASSUME NEW len \in Nat, NEW n \in Nat, n <= len,
         NEW m, m = IF n + 1 <= len THEN len - (n + 1) + 1 ELSE 0
  PROVE  m = len - n
OBVIOUS

\* What is left of a sequence without its first n elements.
LEMMA DropProperties ==
  ASSUME NEW S, NEW s \in Seq(S), NEW n \in 0 .. Len(s),
         NEW t, t = SubSeq(s, n + 1, Len(s))
  PROVE  /\ n \in Nat /\ t \in Seq(S) /\ Len(t) = Len(s) - n
         /\ DOMAIN t = 1 .. Len(t)
         /\ \A i \in DOMAIN t : i + n \in DOMAIN s /\ t[i] = s[i + n]
         /\ Len(s) \in Nat
<1>1. /\ Len(s) \in Nat /\ DOMAIN s = 1 .. Len(s)
      /\ n \in Nat /\ n <= Len(s)
  BY LenProperties
<1>2. \A i \in n + 1 .. Len(s) : s[i] \in S
  BY <1>1, ElementOfSeq
<1>3. /\ t \in Seq(S)
      /\ Len(t) = IF n + 1 <= Len(s) THEN Len(s) - (n + 1) + 1 ELSE 0
      /\ \A i \in 1 .. Len(s) - (n + 1) + 1 : t[i] = s[(n + 1) + i - 1]
  BY <1>1, <1>2, SubSeqProperties
<1>4. Len(t) = Len(s) - n
  <2>1. Len(s) \in Nat /\ n \in Nat /\ n <= Len(s)
    BY <1>1
  <2>2. Len(t) = IF n + 1 <= Len(s) THEN Len(s) - (n + 1) + 1 ELSE 0
    BY <1>3
  <2> QED
    BY <2>1, <2>2, DropLength
<1>5. DOMAIN t = 1 .. Len(t)
  BY <1>3, LenProperties
<1>6. ASSUME NEW i \in DOMAIN t
      PROVE  i + n \in DOMAIN s /\ t[i] = s[i + n]
  <2>1. i \in 1 .. Len(s) - n
    BY <1>4, <1>5
  <2>2. i + n \in DOMAIN s /\ i \in 1 .. Len(s) - (n + 1) + 1 /\ (n + 1) + i - 1 = i + n
    BY <1>1, <2>1
  <2> QED
    BY <1>3, <2>2
<1> QED
  BY <1>1, <1>3, <1>4, <1>5, <1>6

\* The scan takes a prefix of the queue, and no more than the surplus.
LEMMA ScanInv ==
  ASSUME IInv, Scan
  PROVE  IInv'
<1> USE DEF IInv, Core, Who, Times, Demand, clocks
<1>1. PICK n \in 0 .. Len(queue) :
        /\ nextScan' = wall + MaxIdleTime /\ n <= cnt - InitSize
        /\ queue' = SubSeq(queue, n + 1, Len(queue)) /\ cnt' = cnt - n
        /\ UNCHANGED <<workers, producer, alive, clocks>>
  BY DEF Scan, Expired
<1>2. /\ n \in Nat /\ queue' \in Seq(MySQL) /\ Len(queue') = Len(queue) - n
      /\ DOMAIN queue' = 1 .. Len(queue')
      /\ \A i \in DOMAIN queue' : i + n \in DOMAIN queue /\ queue'[i] = queue[i + n]
      /\ Len(queue) \in Nat
  BY <1>1, DropProperties DEF TypeOK
<1>3. TypeOK'
  BY <1>1, <1>2, PoolAssumption DEF TypeOK, workers, CountBounds
<1>4. Holders' = Holders
  BY <1>1 DEF Holders, workers
<1>5. CountExact'
  BY <1>1, <1>2, <1>4, HoldersCount DEF CountExact, TypeOK
<1>6. NoAlias'
  <2>1. InQueue' \subseteq InQueue
    BY <1>2 DEF InQueue
  <2>2. \A i, j \in DOMAIN queue' : queue'[i] = queue'[j] => i = j
    BY <1>2 DEF NoAlias
  <2> QED
    BY <1>1, <1>4, <2>1, <2>2 DEF NoAlias, workers
<1>7. CountBounds'
  BY <1>1, <1>2, PoolAssumption DEF CountBounds, TypeOK
<1>8. Who' /\ NeverNull'
  BY <1>1 DEF HoldState, Called, workers, NeverNull
<1>9. Times'
  <2>1. \A i, j \in DOMAIN queue' : i <= j => i + n <= j + n
    BY <1>2
  <2>2. SortedIdle'
    BY <1>1, <1>2, <2>1 DEF SortedIdle
  <2> QED
    BY <1>1, <2>2 DEF MadeIdle
<1>10. GrowsWithDemand'
  BY <1>1, <1>2, HoldersCount, PoolAssumption DEF GrowsWithDemand, TypeOK, workers
<1>11. ProducerNotNeeded'
  <2>1. Cardinality(callers') < InitSize => cnt' = InitSize
    BY <1>1, <1>2, PoolAssumption DEF ProducerNotNeeded, workers
  <2> QED
    BY <1>3, <1>5, <1>7, <1>8, <2>1, FewAfterStep
<1> QED
  BY <1>3, <1>5, <1>6, <1>7, <1>8, <1>9, <1>10, <1>11

\* A tick of the recycler.
LEMMA TickInv ==
  ASSUME IInv, Tick
  PROVE  IInv'
<1> USE DEF IInv, Core, Who, Times, Demand
<1>1. cpu' \in Nat /\ cpu <= cpu' /\ wall' \in Nat
  BY PoolAssumption DEF Tick, TypeOK
<1>2. UNCHANGED <<queue, cnt, workers, producer, alive, nextScan>>
  BY DEF Tick
<1>3. TypeOK' /\ Holders' = Holders /\ InQueue' = InQueue
  BY <1>1, <1>2 DEF TypeOK, workers, Holders, InQueue
<1>4. NoAlias' /\ CountExact' /\ CountBounds' /\ HoldState' /\ Called'
  BY <1>2, <1>3
     DEF NoAlias, CountExact, CountBounds, HoldState, Called, workers
<1>5. Demand'
  BY <1>2 DEF NeverNull, GrowsWithDemand, ProducerNotNeeded, workers
<1>6. Times'
  <2>1. \A c \in MySQL : alive[c] \in Nat
    BY DEF TypeOK
  <2>2. MadeIdle'
    BY <1>1, <1>2, <2>1 DEF MadeIdle, TypeOK
  <2> QED
    BY <1>2, <2>2 DEF SortedIdle
<1> QED
  BY <1>3, <1>4, <1>5, <1>6

-----------------------------------------------------------------------------
(* The theorems.                                                           *)

\* Every step.
LEMMA StepInv == IInv /\ [Next]_vars => IInv'
<1> SUFFICES ASSUME IInv, [Next]_vars PROVE IInv'
  OBVIOUS
<1>1. CASE \E w \in Worker : Caller(w)
  BY <1>1, CallInv, ReleaseInv DEF Caller
<1>2. CASE ProducerCreates
  BY <1>2, CreateInv
<1>3. CASE ProducerWaits \/ ProducerSpins \/ ProducerSpurious
  BY <1>3, NotifyInv
     DEF ProducerWaits, ProducerSpins, ProducerSpurious, workers, IInv, Core, TypeOK
<1>4. CASE Scan
  BY <1>4, ScanInv
<1>5. CASE Tick
  BY <1>5, TickInv
<1>6. CASE UNCHANGED vars
  BY <1>6, NotifyInv DEF vars, workers, IInv, Core, TypeOK
<1> QED
  BY <1>1, <1>2, <1>3, <1>4, <1>5, <1>6 DEF Next, Producer

\* The inductive invariant holds throughout.
THEOREM Invariant == Spec => []IInv
BY InitInv, StepInv, PTL DEF Spec

\* The pool's variables keep their types: no nullptr is handed out with the
\* deleter of a connection (connectionpool.cpp:153-175).
THEOREM PoolTypeOK == Spec => []TypeOK
<1>1. IInv => TypeOK
  BY DEF IInv, Core
<1> QED
  BY <1>1, Invariant, PTL

\* Nobody ever shares a connection: it is in the queue once or in the hands of
\* one worker (connectionpool.cpp:167-175).
THEOREM PoolNoAlias == Spec => []NoAlias
<1>1. IInv => NoAlias
  BY DEF IInv, Core
<1> QED
  BY <1>1, Invariant, PTL

\* _connectionCnt counts the connections and stays between _initSize and
\* _maxSize (connectionpool.cpp:128-135, 196-207).
THEOREM PoolCount == Spec => []CountRight
<1>1. IInv => CountRight
  BY DEF IInv, Core, CountRight
<1> QED
  BY <1>1, Invariant, PTL

\* The queue is in the order of idleness on which the scan relies
\* (connectionpool.cpp:210).
THEOREM PoolSortedIdle == Spec => []SortedIdle
<1>1. IInv => SortedIdle
  BY DEF IInv, Times
<1> QED
  BY <1>1, Invariant, PTL

\* With no more threads than initial connections no call waits or fails, and
\* with fewer the producer has nothing to do (connectionpool.cpp:114-160).
THEOREM PoolFewCallers == Spec => []FewCallers
<1>1. IInv => FewCallers
  BY DEF IInv, Demand, FewCallers
<1> QED
  BY <1>1, Invariant, PTL

\* The pool grows past its initial size by at most one connection more than
\* there are callers (connectionpool.cpp:114-135).
THEOREM PoolGrowsWithDemand == Spec => []GrowsWithDemand
<1>1. IInv => GrowsWithDemand
  BY DEF IInv, Demand
<1> QED
  BY <1>1, Invariant, PTL
=============================================================================
