--------------------------- MODULE LRUCacheProofs ---------------------------
(***************************************************************************)
(* The safety properties of the cache, for any keys, values and capacity,  *)
(* and that until the first call of remove its steps are those of LRUMap.  *)
(* They rest on the invariant that the heap is well formed and bounded,    *)
(* and whole until the first call of remove; and then on what the list     *)
(* looks like to who walks along it.                                       *)
(***************************************************************************)
EXTENDS LRUCache, LRUHeapProofs, SequenceTheorems, FunctionTheorems

USE DEF Live, PointersOf

\* The inductive invariant: until the first remove the ring is whole.
IInv == WellFormed(heap) /\ Bounded(heap) /\ (pure => Whole(heap))

\* It holds of the cache the constructor builds.
LEMMA InitInv == Init => IInv
<1> SUFFICES ASSUME Init PROVE IInv
  OBVIOUS
<1>1. heap = EmptyHeap
  BY DEF Init
<1>2. IsFiniteSet({}) /\ Cardinality({}) = 0
  BY FS_EmptySet
<1>3. Whole(EmptyHeap)
  BY HeapAssumption DEF EmptyHeap, Whole, Ring, Sound, Node
<1> QED
  BY <1>1, <1>2, <1>3, EmptyWellFormed, HeapAssumption DEF IInv, Bounded

\* Every member function keeps it.
LEMMA StepInv == IInv /\ [Next]_vars => IInv'
<1> SUFFICES ASSUME IInv, [Next]_vars PROVE IInv'
  OBVIOUS
<1>1. ASSUME NEW k \in Key, DoGet(k) PROVE IInv'
  <2>1. heap' = GetNode(heap, k) /\ Sound(heap) /\ pure' = pure
    BY <1>1 DEF DoGet, Get
  <2>2. WellFormed(heap') /\ heap'.mapped = heap.mapped
    BY <2>1, GetNodeWellFormed DEF IInv
  <2>3. pure => Whole(heap')
    BY <2>1, GetNodeWhole DEF IInv
  <2> QED
    BY <2>1, <2>2, <2>3 DEF IInv, Bounded
<1>2. ASSUME NEW k \in Key, NEW v \in Value, DoPut(k, v) PROVE IInv'
  BY <1>2, PutGood, PutWhole DEF DoPut, IInv
<1>3. ASSUME NEW k \in Key, DoRemove(k) PROVE IInv'
  BY <1>3, RemoveKeyGood DEF DoRemove, IInv
<1>4. CASE UNCHANGED vars
  BY <1>4 DEF vars, IInv
<1> QED
  BY <1>1, <1>2, <1>3, <1>4 DEF Next

\* The heap is well formed, bounded, and whole until the first remove, whatever
\* calls ChatService makes (LRUCache.hpp:19-85).
THEOREM Invariant == Spec => []IInv
BY InitInv, StepInv, PTL DEF Spec

\* Whatever its caller does, up to the first undefined behaviour the map holds
\* no more keys than `capacity' between two calls (LRUCache.hpp:40-46).
THEOREM CacheCapacity == Spec => []CapacityRespected
<1>1. IInv => CapacityRespected
  BY DEF IInv, Bounded, CapacityRespected
<1> QED
  BY <1>1, Invariant, PTL

\* No pointer leads to a node that was never allocated (LRUCache.hpp:62-75).
THEOREM CachePointers == Spec => []PointersLive
<1>1. IInv => PointersLive
  BY DEF IInv, WellFormed, PointersLive
<1> QED
  BY <1>1, Invariant, PTL

\* Until the first remove no call meets a dangling pointer, and list and map
\* hold the same keys, linked both ways (LRUCache.hpp:27-85).
THEOREM CacheRing == Spec => []RingMatchesMap
<1>1. IInv => RingMatchesMap
  BY DEF IInv, Whole, Ring, RingMatchesMap
<1> QED
  BY <1>1, Invariant, PTL

-----------------------------------------------------------------------------
(* The ring as a sequence of keys.                                         *)

\* The place i of the list s: the sentinel is before the first and behind the
\* last.
At(s, i) == IF i \in 1 .. Len(s) THEN s[i] ELSE Dummy

Distinct(s) == \A i, j \in 1 .. Len(s) : s[i] = s[j] => i = j

Elements(s) == {s[i] : i \in 1 .. Len(s)}

\* Following link from the sentinel leads through the keys of s and back.
Chain(link, s) ==
  /\ s \in Seq(Key) /\ Distinct(s)
  /\ \A i \in 0 .. Len(s) : link[At(s, i)] = At(s, i + 1)

\* Leaving out one place of a sequence.
Without(s, p) == SubSeq(s, 1, p - 1) \o SubSeq(s, p + 1, Len(s))

\* The places from the sentinel to the last are different.
LEMMA Places ==
  ASSUME NEW s \in Seq(Key), Distinct(s)
  PROVE  /\ Len(s) \in Nat
         /\ At(s, 0) = Dummy /\ At(s, Len(s) + 1) = Dummy
         /\ \A i \in 1 .. Len(s) : At(s, i) = s[i] /\ s[i] \in Key
         /\ \A i \in 0 .. Len(s) + 1 : At(s, i) \in Node
         /\ \A i \in 0 .. Len(s) : At(s, i) \in Key <=> i # 0
         /\ \A i, j \in 0 .. Len(s) : At(s, i) = At(s, j) => i = j
<1>1. Len(s) \in Nat /\ \A i \in 1 .. Len(s) : s[i] \in Key
  OBVIOUS
<1>2. Dummy \notin Key
  BY HeapAssumption
<1> QED
  BY <1>1, <1>2 DEF At, Distinct, Node

\* The sequence without one of its places.
LEMMA WithoutIs ==
  ASSUME NEW s \in Seq(Key), NEW p \in 1 .. Len(s)
  PROVE  /\ Without(s, p) \in Seq(Key) /\ Len(Without(s, p)) = Len(s) - 1
         /\ \A i \in 1 .. Len(s) - 1 :
              Without(s, p)[i] = IF i < p THEN s[i] ELSE s[i + 1]
<1> DEFINE a == SubSeq(s, 1, p - 1)
           b == SubSeq(s, p + 1, Len(s))
<1>0. Len(s) \in Nat /\ p \in Nat /\ \A i \in 1 .. Len(s) : s[i] \in Key
  OBVIOUS
<1>1. a \in Seq(Key) /\ Len(a) = p - 1 /\ \A i \in 1 .. p - 1 : a[i] = s[i]
  BY <1>0
<1>2. /\ b \in Seq(Key) /\ Len(b) = Len(s) - p
      /\ \A i \in 1 .. Len(s) - p : b[i] = s[p + i]
  BY <1>0
<1> HIDE DEF a, b
<1>3. /\ a \o b \in Seq(Key) /\ Len(a \o b) = Len(a) + Len(b)
      /\ \A i \in 1 .. Len(a) + Len(b) :
           (a \o b)[i] = IF i <= Len(a) THEN a[i] ELSE b[i - Len(a)]
  BY <1>1, <1>2, ConcatProperties
<1>4. Len(a) + Len(b) = Len(s) - 1
  BY <1>0, <1>1, <1>2
<1>5. ASSUME NEW i \in 1 .. Len(s) - 1
      PROVE  (a \o b)[i] = IF i < p THEN s[i] ELSE s[i + 1]
  <2>1. CASE i < p
    BY <1>0, <1>1, <1>3, <1>4, <2>1
  <2>2. CASE ~ i < p
    <3>1. (a \o b)[i] = b[i - (p - 1)]
      BY <1>0, <1>1, <1>3, <1>4, <2>2
    <3>2. i - (p - 1) \in 1 .. Len(s) - p /\ p + (i - (p - 1)) = i + 1
      BY <1>0, <2>2
    <3> QED
      BY <1>2, <2>2, <3>1, <3>2
  <2> QED
    BY <2>1, <2>2
<1>6. Without(s, p) = a \o b
  BY DEF Without, a, b
<1> QED
  BY <1>3, <1>4, <1>5, <1>6

\* Leading past a key takes it out of the chain.
LEMMA ChainRemove ==
  ASSUME NEW f, NEW g, NEW s, Chain(f, s), NEW p \in 1 .. Len(s),
         \A n \in Node : g[n] = IF n = At(s, p - 1) THEN At(s, p + 1) ELSE f[n]
  PROVE  /\ Chain(g, Without(s, p))
         /\ Elements(Without(s, p)) = Elements(s) \ {s[p]}
<1> DEFINE t == Without(s, p)
<1>0. /\ s \in Seq(Key) /\ Distinct(s) /\ Len(s) \in Nat /\ p \in Nat
      /\ \A i \in 0 .. Len(s) : f[At(s, i)] = At(s, i + 1)
  BY DEF Chain
<1>1. /\ t \in Seq(Key) /\ Len(t) = Len(s) - 1
      /\ \A i \in 1 .. Len(t) : t[i] = IF i < p THEN s[i] ELSE s[i + 1]
  BY <1>0, WithoutIs
<1> HIDE DEF t
<1>2. \A i \in 0 .. Len(s) : At(t, i) = IF i < p THEN At(s, i) ELSE At(s, i + 1)
  BY <1>0, <1>1 DEF At
<1>3. Distinct(t)
  <2> SUFFICES ASSUME NEW i \in 1 .. Len(t), NEW j \in 1 .. Len(t), t[i] = t[j]
               PROVE  i = j
    BY DEF Distinct
  <2> DEFINE was(n) == IF n < p THEN n ELSE n + 1
  <2>1. was(i) \in 1 .. Len(s) /\ was(j) \in 1 .. Len(s)
    BY <1>0, <1>1
  <2>2. s[was(i)] = s[was(j)]
    BY <1>1
  <2>3. was(i) = was(j)
    BY <1>0, <2>1, <2>2 DEF Distinct
  <2> QED
    BY <1>0, <1>1, <2>3
<1>4. ASSUME NEW i \in 0 .. Len(t) PROVE g[At(t, i)] = At(t, i + 1)
  <2> DEFINE j == IF i < p THEN i ELSE i + 1
  <2>1. j \in 0 .. Len(s) /\ At(t, i) = At(s, j) /\ At(s, j) \in Node
    BY <1>0, <1>1, <1>2, Places
  <2>2. CASE j = p - 1
    <3>1. i = p - 1
      BY <1>0, <2>2
    <3>2. g[At(t, i)] = At(s, p + 1)
      BY <2>1, <2>2
    <3>3. At(t, i + 1) = At(s, p + 1)
      BY <1>0, <1>2, <3>1
    <3> QED
      BY <3>2, <3>3
  <2>3. CASE j # p - 1
    <3>1. At(s, j) # At(s, p - 1)
      BY <1>0, <2>1, <2>3, Places
    <3>2. g[At(t, i)] = f[At(s, j)]
      BY <2>1, <3>1
    <3>3. f[At(s, j)] = At(s, j + 1)
      BY <1>0, <2>1
    <3>4. At(t, i + 1) = At(s, j + 1)
      BY <1>0, <1>1, <1>2, <2>3
    <3> QED
      BY <3>2, <3>3, <3>4
  <2> QED
    BY <2>2, <2>3
<1>5. Elements(t) = Elements(s) \ {s[p]}
  <2>1. ASSUME NEW i \in 1 .. Len(t) PROVE t[i] \in Elements(s) \ {s[p]}
    BY <1>0, <1>1, <2>1 DEF Elements, Distinct
  <2>2. ASSUME NEW i \in 1 .. Len(s), s[i] # s[p] PROVE s[i] \in Elements(t)
    <3> DEFINE j == IF i < p THEN i ELSE i - 1
    <3>1. j \in 1 .. Len(t) /\ t[j] = s[i]
      BY <1>0, <1>1, <2>2
    <3> QED
      BY <3>1 DEF Elements
  <2>3. Elements(t) \subseteq Elements(s) \ {s[p]}
    BY <2>1 DEF Elements
  <2>4. Elements(s) \ {s[p]} \subseteq Elements(t)
    BY <2>2 DEF Elements
  <2> QED
    BY <2>3, <2>4
<1> QED
  BY <1>1, <1>3, <1>4, <1>5 DEF Chain, t

\* Leading the sentinel to a new key, and that to the first, puts it before the
\* others.
LEMMA ChainPush ==
  ASSUME NEW f, NEW g, NEW s, Chain(f, s), NEW k \in Key, k \notin Elements(s),
         \A n \in Node :
           g[n] = IF n = Dummy THEN k ELSE IF n = k THEN f[Dummy] ELSE f[n]
  PROVE  /\ Chain(g, <<k>> \o s)
         /\ Elements(<<k>> \o s) = Elements(s) \cup {k}
<1> DEFINE t == <<k>> \o s
<1>0. /\ s \in Seq(Key) /\ Distinct(s) /\ Len(s) \in Nat
      /\ \A i \in 0 .. Len(s) : f[At(s, i)] = At(s, i + 1)
  BY DEF Chain
<1>1. /\ t \in Seq(Key) /\ Len(t) = Len(s) + 1
      /\ \A i \in 1 .. Len(t) : t[i] = IF i = 1 THEN k ELSE s[i - 1]
  BY <1>0
<1> HIDE DEF t
<1>2. /\ At(t, 0) = Dummy /\ At(t, 1) = k
      /\ \A i \in 1 .. Len(s) + 1 : At(t, i + 1) = At(s, i)
  BY <1>0, <1>1 DEF At
<1>3. Distinct(t)
  <2> SUFFICES ASSUME NEW i \in 1 .. Len(t), NEW j \in 1 .. Len(t), t[i] = t[j]
               PROVE  i = j
    BY DEF Distinct
  <2>1. \A n \in 1 .. Len(t) : n # 1 => n - 1 \in 1 .. Len(s) /\ t[n] = s[n - 1]
    BY <1>0, <1>1
  <2>2. \A n \in 1 .. Len(s) : s[n] # k
    BY DEF Elements
  <2>3. t[1] = k
    BY <1>0, <1>1
  <2>4. CASE i = 1 \/ j = 1
    BY <2>1, <2>2, <2>3, <2>4
  <2>5. CASE i # 1 /\ j # 1
    <3>1. i - 1 = j - 1
      BY <1>0, <2>1, <2>5 DEF Distinct
    <3> QED
      BY <1>0, <1>1, <3>1
  <2> QED
    BY <2>4, <2>5
<1>4. ASSUME NEW i \in 0 .. Len(t) PROVE g[At(t, i)] = At(t, i + 1)
  <2>1. CASE i = 0
    BY <1>2, <2>1 DEF Node
  <2>2. CASE i = 1
    <3>1. g[k] = f[Dummy]
      BY HeapAssumption DEF Node
    <3>2. f[Dummy] = At(s, 1)
      BY <1>0, Places
    <3>3. At(t, 2) = At(s, 1)
      BY <1>0, <1>2
    <3> QED
      BY <1>2, <2>2, <3>1, <3>2, <3>3
  <2>3. CASE i > 1
    <3> DEFINE j == i - 1
    <3>1. j \in 1 .. Len(s) /\ i = j + 1
      BY <1>0, <1>1, <2>3
    <3>2. At(t, i) = s[j] /\ s[j] \in Key /\ s[j] # k /\ At(s, j) = s[j]
      <4>1. At(s, j) = s[j] /\ s[j] \in Key /\ s[j] # k
        BY <1>0, <3>1, Places DEF Elements
      <4>2. j \in 1 .. Len(s) + 1 /\ At(t, j + 1) = At(s, j)
        BY <1>0, <1>2, <3>1
      <4> QED
        BY <3>1, <4>1, <4>2
    <3>3. g[s[j]] = f[s[j]]
      BY <3>2, HeapAssumption DEF Node
    <3>4. f[s[j]] = At(s, j + 1)
      BY <1>0, <3>1, <3>2
    <3>5. At(t, i + 1) = At(s, j + 1)
      BY <1>0, <1>2, <3>1
    <3> QED
      BY <3>2, <3>3, <3>4, <3>5
  <2> QED
    BY <1>0, <1>1, <2>1, <2>2, <2>3
<1>5. Elements(t) = Elements(s) \cup {k}
  <2>1. ASSUME NEW i \in 1 .. Len(t) PROVE t[i] \in Elements(s) \cup {k}
    BY <1>0, <1>1, <2>1 DEF Elements
  <2>2. ASSUME NEW i \in 1 .. Len(s) PROVE s[i] \in Elements(t)
    <3>1. i + 1 \in 1 .. Len(t) /\ t[i + 1] = s[i]
      BY <1>0, <1>1, <2>2
    <3> QED
      BY <3>1 DEF Elements
  <2>3. k \in Elements(t)
    <3>1. 1 \in 1 .. Len(t) /\ t[1] = k
      BY <1>0, <1>1
    <3> QED
      BY <3>1 DEF Elements
  <2> QED
    BY <2>1, <2>2, <2>3 DEF Elements
<1> QED
  BY <1>1, <1>3, <1>4, <1>5 DEF Chain, t

\* Every set of natural numbers that is not empty has a least one: an interval
\* 0 .. m that has no strict subset among those of the set.
LEMMA Least ==
  ASSUME NEW S \in SUBSET Nat, S # {}
  PROVE  \E m \in S : \A n \in S : m <= n
<1> DEFINE Upto == {0 .. m : m \in S}
<1>1. \A m \in S : 0 .. m \in FiniteSubsetsOf(Nat)
  BY FS_Interval DEF FiniteSubsetsOf
<1>2. PICK x \in Upto : \A y \in Upto : <<y, x>> \notin StrictSubsetOrdering(Nat)
  <2>1. Upto \subseteq FiniteSubsetsOf(Nat) /\ Upto # {}
    BY <1>1
  <2> HIDE DEF Upto
  <2> QED
    BY <2>1, FS_StrictSubsetOrderingWellFounded, WFMin
<1>3. PICK m \in S : x = 0 .. m
  BY <1>2
<1>4. ASSUME NEW k \in S, k < m PROVE FALSE
  <2>1. 0 .. k \in SUBSET Nat /\ 0 .. m \in SUBSET Nat /\ 0 .. k \subseteq 0 .. m
    BY <1>4
  <2>2. 0 .. k # 0 .. m
    BY <1>4
  <2>3. <<0 .. k, 0 .. m>> \in StrictSubsetOrdering(Nat)
    BY <2>1, <2>2 DEF StrictSubsetOrdering
  <2> QED
    BY <1>2, <1>3, <2>3
<1> QED
  BY <1>4

\* Who walks along a chain reads its sequence.
LEMMA ReadOff ==
  ASSUME IsFiniteSet(Key), NEW f, NEW s, Chain(f, s)
  PROVE  OrderOf(f) = s
<1> DEFINE N == Cardinality(Key)
           Step(v, n) == IF n = 0 THEN f[Dummy]
                         ELSE IF v[n - 1] \in Key THEN f[v[n - 1]] ELSE v[n - 1]
           w == [n \in 0 .. N |-> At(s, n + 1)]
<1>0. /\ s \in Seq(Key) /\ Distinct(s) /\ Len(s) \in Nat
      /\ \A i \in 0 .. Len(s) : f[At(s, i)] = At(s, i + 1)
  BY DEF Chain
<1>1. N \in Nat /\ Len(s) <= N
  <2>1. s \in Injection(1 .. Len(s), Key)
    <3>1. s \in [1 .. Len(s) -> Key]
      BY <1>0
    <3> QED
      BY <3>1, <1>0, Fun_IsInj DEF Distinct
  <2>2. Cardinality(1 .. Len(s)) <= Cardinality(Key)
    BY <2>1, FS_Injection
  <2>3. Cardinality(1 .. Len(s)) = Len(s)
    BY <1>0, FS_Interval
  <2> QED
    BY <2>2, <2>3, FS_CardinalityType
<1> HIDE DEF N
<1>2. \A n \in 0 .. N : w[n] = Step(w, n)
  <2> SUFFICES ASSUME NEW n \in 0 .. N PROVE w[n] = Step(w, n)
    OBVIOUS
  <2>0. w[n] = At(s, n + 1) /\ n \in Nat
    BY <1>1
  <2>1. CASE n = 0
    BY <1>0, <2>0, <2>1, Places
  <2>2. CASE n # 0
    <3>1. n - 1 \in 0 .. N /\ (n - 1) + 1 = n
      BY <1>1, <2>2
    <3>2. w[n - 1] = At(s, n)
      BY <3>1
    <3>3. CASE n <= Len(s)
      <4>1. At(s, n) \in Key /\ f[At(s, n)] = At(s, n + 1)
        BY <1>0, <2>2, <3>3, Places
      <4> QED
        BY <2>0, <2>2, <3>2, <4>1
    <3>4. CASE ~ n <= Len(s)
      <4>1. At(s, n) = Dummy /\ At(s, n + 1) = Dummy /\ Dummy \notin Key
        BY <1>0, <2>0, <3>4, HeapAssumption DEF At
      <4> QED
        BY <2>0, <2>2, <3>2, <4>1
    <3> QED
      BY <3>3, <3>4
  <2> QED
    BY <2>1, <2>2
<1>3. ASSUME NEW v, v = [n \in 0 .. N |-> Step(v, n)] PROVE v = w
  <2> DEFINE bad == {n \in 0 .. N : v[n] # w[n]}
  <2>1. ASSUME bad # {} PROVE FALSE
    <3>1. bad \in SUBSET Nat
      BY <1>1
    <3>2. PICK m \in bad : \A n \in bad : m <= n
      BY <2>1, <3>1, Least
    <3>3. m \in 0 .. N /\ v[m] # w[m]
      BY <3>2
    <3>4. v[m] = Step(v, m)
      BY <1>3, <3>3
    <3>5. w[m] = Step(w, m)
      BY <1>2, <3>3
    <3>6. m # 0 => v[m - 1] = w[m - 1]
      <4> SUFFICES ASSUME m # 0 PROVE v[m - 1] = w[m - 1]
        OBVIOUS
      <4>1. m - 1 \in 0 .. N /\ ~ m <= m - 1
        BY <1>1, <3>3
      <4> QED
        BY <3>2, <4>1
    <3> HIDE DEF w, bad
    <3> QED
      BY <3>3, <3>4, <3>5, <3>6
  <2>2. \A n \in 0 .. N : v[n] = w[n]
    BY <2>1
  <2>3. v = [n \in 0 .. N |-> v[n]]
    BY <1>3
  <2>4. w = [n \in 0 .. N |-> w[n]]
    OBVIOUS
  <2> HIDE DEF w
  <2> QED
    BY <2>2, <2>3, <2>4
<1>4. Walk(f) = w
  <2> DEFINE W == CHOOSE v : v = [n \in 0 .. N |-> Step(v, n)]
  <2>1. w = [n \in 0 .. N |-> Step(w, n)]
    <3>1. w = [n \in 0 .. N |-> w[n]]
      OBVIOUS
    <3> HIDE DEF w
    <3> QED
      BY <1>2, <3>1
  <2>2. W = [n \in 0 .. N |-> Step(W, n)]
    <3> HIDE DEF w
    <3> QED
      BY <2>1
  <2>3. Walk(f) = W
    BY DEF Walk, N
  <2> HIDE DEF w, W
  <2> QED
    BY <1>3, <2>2, <2>3
<1>5. {n \in DOMAIN w : w[n] \in Key} = 0 .. Len(s) - 1
  <2>1. \A n \in 0 .. N : At(s, n + 1) \in Key <=> n \in 0 .. Len(s) - 1
    BY <1>0, <1>1, HeapAssumption DEF At
  <2> QED
    BY <1>0, <1>1, <2>1
<1>6. Cardinality(0 .. Len(s) - 1) = Len(s)
  <2>1. Cardinality(0 .. Len(s) - 1) =
          IF 0 > Len(s) - 1 THEN 0 ELSE (Len(s) - 1) - 0 + 1
    BY <1>0, FS_Interval
  <2> QED
    BY <1>0, <2>1
<1>7. \A i \in 1 .. Len(s) : w[i - 1] = s[i]
  BY <1>0, <1>1 DEF At
<1>8. s = [i \in 1 .. Len(s) |-> s[i]]
  BY <1>0
<1> HIDE DEF w
<1>9. OrderOf(f) = [i \in 1 .. Len(s) |-> w[i - 1]]
  BY <1>4, <1>5, <1>6 DEF OrderOf
<1> QED
  BY <1>7, <1>8, <1>9

-----------------------------------------------------------------------------
(* The member functions on the list.                                       *)

\* The list of the heap has the keys of the map in the order of s.
Lists(h, s) == Chain(h.next, s) /\ Elements(s) = h.mapped

\* It has as many places as the map has keys, and the links back lead down it.
LEMMA ListPlaces ==
  ASSUME NEW h, WellFormed(h), Whole(h), NEW s, Lists(h, s)
  PROVE  /\ s \in Seq(Key) /\ Distinct(s)
         /\ Len(s) \in Nat /\ Len(s) = Cardinality(h.mapped)
         /\ \A i \in 0 .. Len(s) : /\ At(s, i) \in Live(h)
                                   /\ h.next[At(s, i)] = At(s, i + 1)
                                   /\ h.prev[At(s, i + 1)] = At(s, i)
<1>1. /\ s \in Seq(Key) /\ Distinct(s) /\ Len(s) \in Nat
      /\ \A i \in 0 .. Len(s) : h.next[At(s, i)] = At(s, i + 1)
  BY DEF Lists, Chain
<1>2. Len(s) = Cardinality(h.mapped)
  <2>1. s \in Bijection(1 .. Len(s), Elements(s))
    <3>1. s \in [1 .. Len(s) -> Elements(s)]
      BY <1>1, LenProperties DEF Elements
    <3>2. \A k \in Elements(s) : \E i \in 1 .. Len(s) : s[i] = k
      BY DEF Elements
    <3> QED
      BY <1>1, <3>1, <3>2, Fun_IsBij DEF Distinct
  <2>2. ExistsBijection(1 .. Len(s), h.mapped)
    BY <2>1 DEF ExistsBijection, Lists
  <2> QED
    BY <1>1, <2>2, FS_CountingElements
<1>3. \A i \in 0 .. Len(s) : At(s, i) \in Live(h)
  BY <1>1 DEF At, Lists, Elements
<1>4. \A n \in Live(h) : h.prev[h.next[n]] = n
  BY DEF Whole, Ring
<1> QED
  BY <1>1, <1>2, <1>3, <1>4

\* remove(Node *) takes the node out of the list.
LEMMA UnlinkList ==
  ASSUME NEW h, WellFormed(h), Whole(h), NEW s, Lists(h, s), NEW p \in 1 .. Len(s)
  PROVE  /\ Chain(Unlink(h, s[p]).next, Without(s, p))
         /\ Elements(Without(s, p)) = h.mapped \ {s[p]}
<1> DEFINE x == s[p]
           before == h.prev[x]
           after == h.next[x]
           g == Unlink(h, x)
<1>0. /\ s \in Seq(Key) /\ Distinct(s) /\ Len(s) \in Nat /\ p \in Nat
      /\ At(s, p) = x /\ x \in h.mapped
  BY ListPlaces, Places DEF Lists, Elements
<1>1. before = At(s, p - 1) /\ after = At(s, p + 1)
  <2>1. p - 1 \in 0 .. Len(s) /\ p \in 0 .. Len(s) /\ (p - 1) + 1 = p
    BY <1>0
  <2>2. h.prev[At(s, (p - 1) + 1)] = At(s, p - 1) /\ h.next[At(s, p)] = At(s, p + 1)
    BY <2>1, ListPlaces
  <2> QED
    BY <1>0, <2>1, <2>2
<1>2. h.mapped \subseteq Key /\ Live(h) \subseteq Node
  BY DEF WellFormed, Heap, Node
<1>3. before \in Live(h) /\ after \in Live(h)
  BY <1>0 DEF Whole, Ring
<1>4. g = [h EXCEPT !.next[before] = after, !.prev[after] = before]
  BY <1>2, <1>3, HeapAssumption DEF Unlink, Whole
<1>5. \A n \in Node : g.next[n] = IF n = before THEN after ELSE h.next[n]
  BY <1>2, <1>3, <1>4 DEF WellFormed, Heap
<1> HIDE DEF g, before, after
<1>6. \A n \in Node : g.next[n] = IF n = At(s, p - 1) THEN At(s, p + 1) ELSE h.next[n]
  BY <1>1, <1>5
<1>7. Chain(h.next, s) /\ Elements(s) = h.mapped
  BY DEF Lists
<1> QED
  BY <1>6, <1>7, ChainRemove DEF g

\* push_front puts the node before the others.
LEMMA PushFrontList ==
  ASSUME NEW h, WellFormed(h), Sound(h), NEW s, Chain(h.next, s),
         NEW x \in Key, x \notin Elements(s)
  PROVE  /\ Chain(PushFront(h, x).next, <<x>> \o s)
         /\ Elements(<<x>> \o s) = Elements(s) \cup {x}
<1> DEFINE head == h.next[Dummy]
           g == PushFront(h, x)
<1>1. head \in Node
  BY Places DEF Chain
<1>2. head # Dangling /\ x # Dummy
  BY <1>1, HeapAssumption DEF Node
<1>3. g = [h EXCEPT !.next = [@ EXCEPT ![x] = head, ![Dummy] = x],
                    !.prev = [@ EXCEPT ![x] = Dummy, ![head] = x]]
  BY <1>2 DEF PushFront
<1>4. \A n \in Node :
        g.next[n] = IF n = Dummy THEN x ELSE IF n = x THEN h.next[Dummy] ELSE h.next[n]
  BY <1>1, <1>2, <1>3 DEF WellFormed, Heap, Node
<1> HIDE DEF g
<1> QED
  BY <1>4, ChainPush DEF g

\* get_node moves the node to the front.
LEMMA GetNodeList ==
  ASSUME NEW h, WellFormed(h), Whole(h), NEW s, Lists(h, s), NEW p \in 1 .. Len(s)
  PROVE  Lists(GetNode(h, s[p]), <<s[p]>> \o Without(s, p))
<1> DEFINE x == s[p]
           u == Unlink(h, x)
           t == Without(s, p)
<1>1. x \in h.mapped /\ x \in Key
  BY DEF Lists, Elements, WellFormed, Heap
<1>2. WellFormed(u) /\ u.mapped = h.mapped /\ Sound(u)
  BY <1>1, UnlinkWellFormed, UnlinkRing
<1>3. Chain(u.next, t) /\ Elements(t) = h.mapped \ {x}
  BY UnlinkList
<1>4. GetNode(h, x) = PushFront(u, x) /\ PushFront(u, x).mapped = h.mapped
  BY <1>1, <1>2, PushFrontWellFormed DEF GetNode
<1> HIDE DEF u, t, x
<1>5. /\ Chain(PushFront(u, x).next, <<x>> \o t)
      /\ Elements(<<x>> \o t) = Elements(t) \cup {x}
  BY <1>1, <1>2, <1>3, PushFrontList
<1>6. Lists(GetNode(h, x), <<x>> \o t)
  BY <1>1, <1>3, <1>4, <1>5 DEF Lists
<1> QED
  BY <1>6 DEF t, x

\* An eviction takes the last key out of the list, and out of the map.
LEMMA EvictList ==
  ASSUME NEW h, WellFormed(h), Whole(h), NEW s, Lists(h, s), s # <<>>
  PROVE  /\ Lists(Evict(h), Without(s, Len(s)))
         /\ Evict(h).value = [h.value EXCEPT ![s[Len(s)]] = NoValue]
<1> DEFINE p == Len(s)
           back == s[p]
           u == Unlink(h, back)
           g == Delete(u, back)
           t == Without(s, p)
<1>1. /\ s \in Seq(Key) /\ Distinct(s) /\ p \in Nat /\ p \in 1 .. Len(s)
      /\ back \in h.mapped /\ back \in Key
  BY ListPlaces DEF Lists, Elements
<1>2. h.prev[Dummy] = back
  <2>1. p \in 0 .. Len(s)
    BY <1>1
  <2>2. h.prev[At(s, p + 1)] = At(s, p)
    BY <2>1, ListPlaces
  <2> QED
    BY <1>1, <2>2, Places
<1>3. WellFormed(u) /\ u.mapped = h.mapped /\ Sound(u) /\ u.value = h.value
  BY <1>1, UnlinkWellFormed, UnlinkRing, UnlinkValue
<1>4. Evict(h) = g
  BY <1>1, <1>2, <1>3, HeapAssumption DEF Evict, Whole
<1>5. /\ g.mapped = u.mapped \ {back}
      /\ g.value = [u.value EXCEPT ![back] = NoValue]
      /\ g.next = [n \in Node |-> IF n = back \/ u.next[n] = back THEN Dangling ELSE u.next[n]]
  BY <1>3 DEF Delete, WellFormed, Heap
<1>6. Chain(u.next, t) /\ Elements(t) = h.mapped \ {back}
  BY <1>1, UnlinkList
<1> HIDE DEF g, u, t, back
<1>7. Chain(g.next, t)
  <2>1. /\ t \in Seq(Key) /\ Distinct(t)
        /\ \A i \in 0 .. Len(t) : u.next[At(t, i)] = At(t, i + 1)
    BY <1>6 DEF Chain
  <2>2. \A i \in 0 .. Len(t) + 1 : At(t, i) # back /\ At(t, i) \in Node
    BY <1>1, <1>6, <2>1, Places, HeapAssumption DEF At, Elements
  <2>3. ASSUME NEW i \in 0 .. Len(t) PROVE g.next[At(t, i)] = At(t, i + 1)
    <3>1. i + 1 \in 0 .. Len(t) + 1 /\ i \in 0 .. Len(t) + 1
      BY <2>1
    <3> QED
      BY <1>5, <2>1, <2>2, <3>1
  <2> QED
    BY <2>1, <2>3 DEF Chain
<1>8. Lists(g, t)
  BY <1>3, <1>5, <1>6, <1>7 DEF Lists
<1> QED
  BY <1>3, <1>4, <1>5, <1>8 DEF t, back

-----------------------------------------------------------------------------
(* The steps of the cache as steps of LRUMap.                              *)

\* Until the first remove the list is a chain of the keys of the map, and no
\* other key has a value.
OrderInv ==
  pure => /\ Lists(heap, order)
          /\ \A k \in Key \ heap.mapped : heap.value[k] = NoValue

\* What a list is, it is read off as.
LEMMA ListIsOrder ==
  ASSUME IsFiniteSet(Key), NEW h, NEW s, Lists(h, s)
  PROVE  OrderOf(h.next) = s
BY ReadOff DEF Lists

\* A use of a key that is there moves it to the front.
LEMMA TouchedOld ==
  ASSUME Lists(heap, order), NEW p \in 1 .. Len(order), NEW k, k = order[p]
  PROVE  /\ k \in Abstract!ToSet(order)
         /\ Abstract!Touched(k) = <<k>> \o Without(order, p)
<1>0. order \in Seq(Key) /\ Distinct(order)
  BY DEF Lists, Chain
<1> HIDE DEF order
<1>1. DOMAIN order = 1 .. Len(order)
  BY <1>0
<1>2. k \in Abstract!ToSet(order)
  BY <1>1 DEF Abstract!ToSet
<1>3. (CHOOSE i \in DOMAIN order : order[i] = k) = p
  <2>1. \A i \in 1 .. Len(order) : order[i] = k <=> i = p
    BY <1>0 DEF Distinct
  <2> QED
    BY <1>1, <2>1
<1>4. Abstract!RemoveAt(order, p) = Without(order, p)
  BY DEF Abstract!RemoveAt, Without
<1> QED
  BY <1>2, <1>3, <1>4 DEF Abstract!Touched

\* A use of a new one puts it there.
LEMMA TouchedNew ==
  ASSUME Lists(heap, order), NEW k, k \notin heap.mapped
  PROVE  /\ k \notin Abstract!ToSet(order)
         /\ Abstract!Touched(k) = <<k>> \o order
<1>0. order \in Seq(Key) /\ Elements(order) = heap.mapped
  BY DEF Lists, Chain
<1> HIDE DEF order
<1>1. k \notin Abstract!ToSet(order)
  BY <1>0 DEF Abstract!ToSet, Elements
<1> QED
  BY <1>1 DEF Abstract!Touched

\* get is the Get of the map.
LEMMA GetStep ==
  ASSUME IsFiniteSet(Key), IInv, OrderInv, pure, NEW k \in Key, DoGet(k)
  PROVE  Abstract!Get(k) /\ OrderInv'
<1>1. /\ heap' = GetNode(heap, k) /\ pure' = pure /\ Sound(heap)
      /\ reply' = IF Sound(heap') THEN Found(heap, k) ELSE NoValue
  BY DEF DoGet, Get
<1>2. WellFormed(heap) /\ Whole(heap) /\ Lists(heap, order)
  BY DEF IInv, OrderInv
<1>3. /\ WellFormed(heap') /\ Whole(heap')
      /\ heap'.mapped = heap.mapped /\ heap'.value = heap.value
  BY <1>1, <1>2, GetNodeWellFormed, GetNodeWhole, GetNodeValue
<1>4. reply' = heap.value[k]
  BY <1>1, <1>3 DEF Whole, Found, OrderInv
<1>5. CASE k \in heap.mapped
  <2>1. PICK p \in 1 .. Len(order) : k = order[p]
    BY <1>2, <1>5 DEF Lists, Elements
  <2> DEFINE t == <<k>> \o Without(order, p)
  <2>2. Lists(heap', t)
    BY <1>1, <1>2, <2>1, GetNodeList
  <2>3. order' = t
    BY <2>2, ListIsOrder DEF order
  <2>4. Abstract!Touched(k) = t /\ k \in Abstract!ToSet(order)
    BY <1>2, <2>1, TouchedOld
  <2>5. Abstract!Get(k)
    BY <1>3, <1>4, <2>3, <2>4 DEF Abstract!Get
  <2>6. OrderInv'
    BY <1>1, <1>3, <2>2, <2>3 DEF OrderInv
  <2> QED
    BY <2>5, <2>6
<1>6. CASE k \notin heap.mapped
  <2>1. heap' = heap
    BY <1>1, <1>6 DEF GetNode
  <2>2. k \notin Abstract!ToSet(order)
    BY <1>2, <1>6, TouchedNew
  <2>3. order' = order
    BY <2>1 DEF order
  <2>4. Abstract!Get(k)
    BY <1>3, <1>4, <2>2, <2>3 DEF Abstract!Get
  <2>5. OrderInv'
    BY <1>1, <2>1, <2>3 DEF OrderInv
  <2> QED
    BY <2>4, <2>5
<1> QED
  BY <1>5, <1>6

\* put is the Put of the map: it updates a key that is there,
LEMMA PutOldStep ==
  ASSUME IsFiniteSet(Key), IInv, OrderInv, pure,
         NEW k \in heap.mapped, NEW v \in Value, DoPut(k, v)
  PROVE  Abstract!Put(k, v) /\ OrderInv'
<1> DEFINE hit == GetNode(heap, k)
<1>1. /\ heap' = Put(heap, k, v) /\ pure' = pure /\ reply' = NoValue /\ Sound(heap)
  BY DEF DoPut
<1>2. WellFormed(heap) /\ Whole(heap) /\ Lists(heap, order) /\ Bounded(heap)
  BY DEF IInv, OrderInv
<1>3. WellFormed(hit) /\ Whole(hit) /\ hit.mapped = heap.mapped /\ hit.value = heap.value
  BY <1>2, GetNodeWellFormed, GetNodeWhole, GetNodeValue
<1>4. heap' = [hit EXCEPT !.value[k] = v]
  BY <1>1, <1>3 DEF Put, Whole
<1>5. PICK p \in 1 .. Len(order) : k = order[p]
  BY <1>2 DEF Lists, Elements
<1> DEFINE t == <<k>> \o Without(order, p)
<1>6. Lists(hit, t)
  BY <1>2, <1>5, GetNodeList
<1> HIDE DEF hit
<1>7. /\ heap'.next = hit.next /\ heap'.mapped = heap.mapped
      /\ heap'.value = [heap.value EXCEPT ![k] = v]
  BY <1>3, <1>4 DEF WellFormed, Heap
<1>8. Lists(heap', t)
  BY <1>3, <1>6, <1>7 DEF Lists
<1>9. order' = t
  BY <1>8, ListIsOrder DEF order
<1>10. Abstract!Touched(k) = t
  BY <1>2, <1>5, TouchedOld
<1>11. Len(t) <= Capacity
  <2>1. /\ order \in Seq(Key) /\ Len(order) \in Nat
        /\ Len(order) = Cardinality(heap.mapped)
    BY <1>2, ListPlaces
  <2>2. Len(t) = Len(order)
    <3>1. Without(order, p) \in Seq(Key) /\ Len(Without(order, p)) = Len(order) - 1
      BY <2>1, WithoutIs
    <3>2. <<k>> \in Seq(Key) /\ Len(<<k>>) = 1
      BY <1>2 DEF WellFormed, Heap
    <3>3. Len(t) = 1 + (Len(order) - 1)
      BY <3>1, <3>2, ConcatProperties
    <3> QED
      BY <2>1, <3>3
  <2> QED
    BY <1>1, <1>2, <2>1, <2>2 DEF Bounded
<1>12. Abstract!Put(k, v)
  BY <1>1, <1>7, <1>9, <1>10, <1>11 DEF Abstract!Put
<1>13. OrderInv'
  <2>1. \A j \in Key \ heap'.mapped : heap'.value[j] = NoValue
    BY <1>2, <1>7 DEF OrderInv, WellFormed, Heap
  <2> QED
    BY <1>8, <1>9, <2>1 DEF OrderInv
<1> QED
  BY <1>12, <1>13

\* and gives up the last for a new one that does not fit.
LEMMA PutNewStep ==
  ASSUME IsFiniteSet(Key), IInv, OrderInv, pure,
         NEW k \in Key \ heap.mapped, NEW v \in Value, DoPut(k, v)
  PROVE  Abstract!Put(k, v) /\ OrderInv'
<1> DEFINE node == NewNode(heap, k, v)
           new == PushFront(node, k)
           t == <<k>> \o order
<1>1. /\ heap' = Put(heap, k, v) /\ pure' = pure /\ reply' = NoValue /\ Sound(heap)
  BY DEF DoPut
<1>2. WellFormed(heap) /\ Whole(heap) /\ Lists(heap, order) /\ Bounded(heap)
  BY DEF IInv, OrderInv
<1>3. /\ WellFormed(node) /\ node.mapped = heap.mapped \cup {k}
      /\ node.next = heap.next /\ node.prev = heap.prev /\ node.fault = heap.fault
      /\ node.value = [heap.value EXCEPT ![k] = v]
  <2>1. WellFormed(node) /\ node.mapped = heap.mapped \cup {k}
    BY <1>2, NewNodeWellFormed
  <2>2. /\ node.next = heap.next /\ node.prev = heap.prev /\ node.fault = heap.fault
        /\ node.value = [heap.value EXCEPT ![k] = v]
    BY <1>2 DEF NewNode, WellFormed, Heap
  <2> QED
    BY <2>1, <2>2
<1>4. Sound(node) /\ Ring(node, Live(heap))
  BY <1>2, <1>3 DEF Whole, Ring, Sound
<1>5. /\ WellFormed(new) /\ new.mapped = heap.mapped \cup {k}
      /\ new.value = [heap.value EXCEPT ![k] = v] /\ Whole(new)
  <2>1. Live(heap) \subseteq Node /\ Dummy \in Live(heap) /\ k \notin Live(heap)
    BY <1>2, HeapAssumption DEF WellFormed, Heap, Node
  <2>2. Sound(new) /\ Ring(new, Live(heap) \cup {k})
    BY <1>3, <1>4, <2>1, PushFrontRing
  <2>3. /\ WellFormed(new) /\ new.mapped = heap.mapped \cup {k}
        /\ new.value = [heap.value EXCEPT ![k] = v]
    BY <1>3, PushFrontWellFormed, PushFrontValue
  <2> HIDE DEF new
  <2>4. Live(new) = Live(heap) \cup {k}
    BY <2>3
  <2> QED
    BY <2>2, <2>3, <2>4 DEF Whole
<1>6. Lists(new, t)
  <2>1. Chain(node.next, order) /\ Elements(order) = heap.mapped
    BY <1>2, <1>3 DEF Lists
  <2>2. /\ Chain(new.next, t) /\ Elements(t) = heap.mapped \cup {k}
    BY <1>3, <1>4, <2>1, PushFrontList
  <2> QED
    BY <1>5, <2>2 DEF Lists
<1>7. /\ order \in Seq(Key) /\ Len(order) \in Nat
      /\ Len(order) = Cardinality(heap.mapped)
  BY <1>2, ListPlaces
<1>8. /\ t \in Seq(Key) /\ Len(t) = Len(order) + 1 /\ Len(t) = Cardinality(new.mapped)
  <2>1. t \in Seq(Key) /\ Len(t) = Len(order) + 1
    <3> HIDE DEF order
    <3> QED
      BY <1>7
  <2>2. Len(t) = Cardinality(new.mapped)
    BY <1>5, <1>6, ListPlaces
  <2> QED
    BY <2>1, <2>2
<1>9. Abstract!Touched(k) = t
  BY <1>2, TouchedNew
<1>10. heap' = IF Len(t) > Capacity THEN Evict(new) ELSE new
  BY <1>1, <1>8 DEF Put
<1> HIDE DEF node, new, t
<1>11. CASE Len(t) > Capacity
  <2> DEFINE u == Without(t, Len(t))
  <2>1. t # <<>> /\ Len(order) > 0 /\ Len(t) \in 1 .. Len(t) /\ ~ Len(t) <= Capacity
    BY <1>7, <1>8, <1>11, HeapAssumption
  <2>2. /\ Lists(heap', u)
        /\ heap'.value = [new.value EXCEPT ![t[Len(t)]] = NoValue]
    BY <1>5, <1>6, <1>10, <1>11, <2>1, EvictList
  <2>3. order' = u
    BY <2>2, ListIsOrder DEF order
  <2>4. t[Len(t)] = order[Len(order)]
    <3> HIDE DEF order
    <3> QED
      BY <1>7, <1>8, <2>1 DEF t
  <2>5. Abstract!Front(t) = u
    <3>1. SubSeq(t, Len(t) + 1, Len(t)) = <<>>
      BY <1>7, <1>8, SubSeqEmpty
    <3>2. SubSeq(t, 1, Len(t) - 1) \in Seq(Key)
      BY <1>7, <1>8
    <3>3. u = SubSeq(t, 1, Len(t) - 1)
      BY <3>1, <3>2, ConcatEmptySeq DEF Without
    <3> QED
      BY <3>3 DEF Abstract!Front
  <2>6. Abstract!Last(order) = order[Len(order)]
    BY DEF Abstract!Last
  <2>7. heap'.value = [heap.value EXCEPT ![k] = v, ![Abstract!Last(order)] = NoValue]
    BY <1>5, <2>2, <2>4, <2>6
  <2>8. Abstract!Put(k, v)
    BY <1>1, <1>9, <2>1, <2>3, <2>5, <2>7 DEF Abstract!Put
  <2>9. \A j \in Key \ heap'.mapped : heap'.value[j] = NoValue
    <3>1. heap'.mapped = new.mapped \ {t[Len(t)]}
      <4>1. Chain(new.next, t) /\ Elements(t) = new.mapped
        BY <1>6 DEF Lists
      <4>2. Elements(u) = heap'.mapped
        BY <2>2 DEF Lists
      <4>3. Elements(u) = Elements(t) \ {t[Len(t)]}
        BY <1>5, <1>6, <2>1, <4>1, UnlinkList
      <4> QED
        BY <4>1, <4>2, <4>3
    <3> QED
      BY <1>2, <1>5, <2>2, <3>1 DEF OrderInv, WellFormed, Heap
  <2> QED
    BY <2>2, <2>3, <2>8, <2>9 DEF OrderInv
<1>12. CASE ~ Len(t) > Capacity
  <2>1. heap' = new
    BY <1>10, <1>12
  <2>2. order' = t
    BY <1>6, <2>1, ListIsOrder DEF order
  <2>3. Len(t) <= Capacity
    BY <1>7, <1>8, <1>12, HeapAssumption
  <2>4. Abstract!Put(k, v)
    BY <1>1, <1>5, <1>9, <2>1, <2>2, <2>3 DEF Abstract!Put
  <2>5. \A j \in Key \ heap'.mapped : heap'.value[j] = NoValue
    BY <1>2, <1>5, <2>1 DEF OrderInv, WellFormed, Heap
  <2> QED
    BY <1>6, <2>1, <2>2, <2>4, <2>5 DEF OrderInv
<1> QED
  BY <1>11, <1>12

\* Up to the first remove the cache is a least-recently-used map, for any keys,
\* values and capacity: the list is the order of last use, get finds what put
\* last bound, and put gives up the key unused for longest (LRUCache.hpp:27-47).
THEOREM CacheImplementsLRUMap ==
  ASSUME IsFiniteSet(Key)
  PROVE  Spec => ImplementsLRUMap
<1>1. Init => OrderInv /\ Abstract!Init
  <2> SUFFICES ASSUME Init PROVE OrderInv /\ Abstract!Init
    OBVIOUS
  <2>1. heap = EmptyHeap /\ reply = NoValue
    BY DEF Init
  <2>2. /\ heap.mapped = {} /\ heap.next[Dummy] = Dummy
        /\ heap.value = [k \in Key |-> NoValue]
    BY <2>1 DEF EmptyHeap, Node
  <2>3. Lists(heap, <<>>)
    BY <2>2 DEF Lists, Chain, Distinct, Elements, At
  <2>4. order = <<>>
    BY <2>3, ListIsOrder DEF order
  <2> QED
    BY <2>1, <2>2, <2>3, <2>4 DEF OrderInv, Abstract!Init
<1>2. IInv /\ OrderInv /\ [Next]_vars => OrderInv'
  <2> SUFFICES ASSUME IInv, OrderInv, [Next]_vars, pure PROVE OrderInv'
    <3>1. [Next]_vars /\ pure' => pure
      BY DEF Next, vars, DoGet, DoPut, DoRemove
    <3> QED
      BY <3>1 DEF OrderInv
  <2>1. ASSUME NEW k \in Key, DoGet(k) PROVE OrderInv'
    BY <2>1, GetStep
  <2>2. ASSUME NEW k \in Key, NEW v \in Value, DoPut(k, v) PROVE OrderInv'
    BY <2>2, PutOldStep, PutNewStep
  <2>3. ASSUME NEW k \in Key, DoRemove(k) PROVE OrderInv'
    BY <2>3 DEF DoRemove, OrderInv
  <2>4. CASE UNCHANGED vars
    BY <2>4 DEF vars, OrderInv, order
  <2> QED
    BY <2>1, <2>2, <2>3, <2>4 DEF Next
<1>3. IInv /\ OrderInv /\ [Next]_vars
        => [pure' => Abstract!Next]_<<order, heap.value, reply>>
  <2> SUFFICES ASSUME IInv, OrderInv, Next, pure'
               PROVE  Abstract!Next
    <3>1. UNCHANGED vars => UNCHANGED <<order, heap.value, reply>>
      BY DEF vars, order
    <3> QED
      BY <3>1
  <2>1. ASSUME NEW k \in Key, DoGet(k) PROVE Abstract!Next
    <3>1. pure
      BY <2>1 DEF DoGet
    <3> QED
      BY <2>1, <3>1, GetStep DEF Abstract!Next
  <2>2. ASSUME NEW k \in Key, NEW v \in Value, DoPut(k, v) PROVE Abstract!Next
    <3>1. pure
      BY <2>2 DEF DoPut
    <3> QED
      BY <2>2, <3>1, PutOldStep, PutNewStep DEF Abstract!Next
  <2> QED
    BY <2>1, <2>2 DEF Next, DoRemove
<1> QED
  BY <1>1, <1>2, <1>3, Invariant, PTL DEF Spec, ImplementsLRUMap
=============================================================================
