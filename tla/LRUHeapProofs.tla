---------------------------- MODULE LRUHeapProofs ----------------------------
(***************************************************************************)
(* Lemmas about the member functions of LRUCache, for any keys, values and *)
(* capacity: what of a heap's shape each of them preserves.                *)
(***************************************************************************)
EXTENDS LRUHeap, FiniteSetTheorems, TLAPS

\* The nodes that are allocated.
Live(h) == h.mapped \cup {Dummy}

PointersOf(h, n) == {h.next[n], h.prev[n]}

\* Allocated nodes lead to allocated nodes or dangle; the pointers of a node
\* that is not allocated all dangle, so that a new one starts with none.
WellFormed(h) ==
  /\ h \in Heap
  /\ \A n \in Live(h) : PointersOf(h, n) \subseteq Live(h) \cup {Dangling}
  /\ \A n \in Key \ h.mapped : h.next[n] = Dangling /\ h.prev[n] = Dangling

USE DEF Live, PointersOf

-----------------------------------------------------------------------------
(* The member functions on lists of nodes.                                 *)

\* LRUCache(int) builds a well-formed heap with an empty map.
LEMMA EmptyWellFormed == WellFormed(EmptyHeap) /\ EmptyHeap.mapped = {}
BY HeapAssumption DEF WellFormed, EmptyHeap, Heap, Node, Pointer, Fault

\* Undefined behaviour leaves the rest of the heap as it was.
LEMMA BrokenWellFormed ==
  ASSUME NEW h, WellFormed(h), NEW why \in Fault
  PROVE  /\ WellFormed(Broken(h, why))
         /\ Broken(h, why).mapped = h.mapped
BY DEF WellFormed, Broken, Heap

\* remove(Node *) keeps the heap well formed and the map as it was.
LEMMA UnlinkWellFormed ==
  ASSUME NEW h, WellFormed(h), NEW x \in h.mapped
  PROVE  /\ WellFormed(Unlink(h, x))
         /\ Unlink(h, x).mapped = h.mapped
<1> DEFINE before == h.prev[x]
           after == h.next[x]
<1>1. CASE ~ Sound(h)
  BY <1>1 DEF Unlink
<1>2. CASE Sound(h) /\ Dangling \in {before, after}
  BY <1>2, BrokenWellFormed DEF Unlink, Fault
<1>3. CASE Sound(h) /\ Dangling \notin {before, after}
  <2>1. before \in Live(h) /\ after \in Live(h)
    BY <1>3 DEF WellFormed
  <2>2. Unlink(h, x) = [h EXCEPT !.next[before] = after, !.prev[after] = before]
    BY <1>3 DEF Unlink
  <2> DEFINE g == Unlink(h, x)
  <2>3. /\ g.mapped = h.mapped
        /\ g.next = [h.next EXCEPT ![before] = after]
        /\ g.prev = [h.prev EXCEPT ![after] = before]
        /\ g \in [mapped : {h.mapped}, value : {h.value}, next : {g.next},
                 prev : {g.prev}, fault : {h.fault}]
    BY <2>2 DEF WellFormed, Heap
  <2>4. g.next \in [Node -> Pointer] /\ g.prev \in [Node -> Pointer]
    BY <2>1, <2>3 DEF WellFormed, Heap, Node, Pointer
  <2>5. g \in Heap
    BY <2>3, <2>4 DEF WellFormed, Heap
  <2>6. \A n \in Node : /\ g.next[n] = IF n = before THEN after ELSE h.next[n]
                        /\ g.prev[n] = IF n = after THEN before ELSE h.prev[n]
    BY <2>3 DEF WellFormed, Heap
  <2> HIDE DEF g
  <2>7. \A n \in Live(g) : PointersOf(g, n) \subseteq Live(g) \cup {Dangling}
    BY <2>1, <2>3, <2>6 DEF WellFormed, Heap, Node
  <2>8. \A n \in Key \ g.mapped : g.next[n] = Dangling /\ g.prev[n] = Dangling
    BY <2>1, <2>3, <2>6, HeapAssumption DEF WellFormed, Heap, Node
  <2> QED
    BY <2>3, <2>5, <2>7, <2>8 DEF WellFormed, g
<1> QED
  BY <1>1, <1>2, <1>3

\* So does push_front.
LEMMA PushFrontWellFormed ==
  ASSUME NEW h, WellFormed(h), NEW x \in h.mapped
  PROVE  /\ WellFormed(PushFront(h, x))
         /\ PushFront(h, x).mapped = h.mapped
<1> DEFINE head == h.next[Dummy]
<1>1. CASE ~ Sound(h)
  BY <1>1 DEF PushFront
<1>2. CASE Sound(h) /\ head = Dangling
  BY <1>2, BrokenWellFormed DEF PushFront, Fault
<1>3. CASE Sound(h) /\ head # Dangling
  <2>1. head \in Live(h)
    BY <1>3 DEF WellFormed
  <2>2. PushFront(h, x) =
          [h EXCEPT !.next = [@ EXCEPT ![x] = head, ![Dummy] = x],
                    !.prev = [@ EXCEPT ![x] = Dummy, ![head] = x]]
    BY <1>3 DEF PushFront
  <2> DEFINE g == PushFront(h, x)
  <2>3. /\ g.mapped = h.mapped
        /\ g.next = [h.next EXCEPT ![x] = head, ![Dummy] = x]
        /\ g.prev = [h.prev EXCEPT ![x] = Dummy, ![head] = x]
        /\ g \in [mapped : {h.mapped}, value : {h.value}, next : {g.next},
                 prev : {g.prev}, fault : {h.fault}]
    BY <2>2 DEF WellFormed, Heap
  <2>4. x \in Key /\ x # Dummy
    BY HeapAssumption DEF WellFormed, Heap
  <2>5. g.next \in [Node -> Pointer] /\ g.prev \in [Node -> Pointer]
    BY <2>1, <2>3, <2>4 DEF WellFormed, Heap, Node, Pointer
  <2>6. g \in Heap
    BY <2>3, <2>5 DEF WellFormed, Heap
  <2>7. \A n \in Node :
          /\ g.next[n] = IF n = Dummy THEN x ELSE IF n = x THEN head ELSE h.next[n]
          /\ g.prev[n] = IF n = head THEN x ELSE IF n = x THEN Dummy ELSE h.prev[n]
    BY <2>3, <2>4 DEF WellFormed, Heap
  <2> HIDE DEF g
  <2>8. \A n \in Live(g) : PointersOf(g, n) \subseteq Live(g) \cup {Dangling}
    BY <2>1, <2>3, <2>7 DEF WellFormed, Heap, Node
  <2>9. \A n \in Key \ g.mapped : g.next[n] = Dangling /\ g.prev[n] = Dangling
    BY <2>1, <2>3, <2>7, HeapAssumption DEF WellFormed, Heap, Node
  <2> QED
    BY <2>3, <2>6, <2>8, <2>9 DEF WellFormed, g
<1> QED
  BY <1>1, <1>2, <1>3

\* So does get_node, for a key of the map or another one.
LEMMA GetNodeWellFormed ==
  ASSUME NEW h, WellFormed(h), NEW k
  PROVE  /\ WellFormed(GetNode(h, k))
         /\ GetNode(h, k).mapped = h.mapped
<1>1. CASE k \in h.mapped
  BY <1>1, UnlinkWellFormed, PushFrontWellFormed DEF GetNode
<1> QED
  BY <1>1 DEF GetNode

\* A new node adds its key to the map, and its pointers dangle.
LEMMA NewNodeWellFormed ==
  ASSUME NEW h, WellFormed(h), NEW k \in Key, NEW v \in Value
  PROVE  /\ WellFormed(NewNode(h, k, v))
         /\ NewNode(h, k, v).mapped = h.mapped \cup {k}
<1> DEFINE g == NewNode(h, k, v)
<1>1. /\ g.mapped = h.mapped \cup {k}
      /\ g.next = h.next /\ g.prev = h.prev
      /\ g.value \in [Key -> Value \cup {NoValue}]
      /\ g \in [mapped : {g.mapped}, value : {g.value}, next : {h.next},
               prev : {h.prev}, fault : {h.fault}]
  BY DEF NewNode, WellFormed, Heap
<1>2. g \in Heap
  BY <1>1 DEF WellFormed, Heap
<1> HIDE DEF g
<1>3. \A n \in Live(g) : PointersOf(g, n) \subseteq Live(g) \cup {Dangling}
  BY <1>1 DEF WellFormed
<1>4. \A n \in Key \ g.mapped : g.next[n] = Dangling /\ g.prev[n] = Dangling
  BY <1>1 DEF WellFormed
<1> QED
  BY <1>1, <1>2, <1>3, <1>4 DEF WellFormed, g

\* delete takes the key out of the map, and no pointer leads to its node.
LEMMA DeleteWellFormed ==
  ASSUME NEW h, WellFormed(h), NEW x \in h.mapped
  PROVE  /\ WellFormed(Delete(h, x))
         /\ Delete(h, x).mapped = h.mapped \ {x}
<1> DEFINE g == Delete(h, x)
<1>1. /\ g.mapped = h.mapped \ {x}
      /\ g.next = [n \in Node |-> IF n = x \/ h.next[n] = x THEN Dangling ELSE h.next[n]]
      /\ g.prev = [n \in Node |-> IF n = x \/ h.prev[n] = x THEN Dangling ELSE h.prev[n]]
      /\ g.value \in [Key -> Value \cup {NoValue}]
      /\ g \in [mapped : {g.mapped}, value : {g.value}, next : {g.next},
               prev : {g.prev}, fault : {h.fault}]
  BY DEF Delete, WellFormed, Heap
<1>2. g.next \in [Node -> Pointer] /\ g.prev \in [Node -> Pointer]
  BY <1>1 DEF WellFormed, Heap, Pointer
<1>3. g \in Heap
  BY <1>1, <1>2 DEF WellFormed, Heap
<1>4. \A n \in Node :
        /\ g.next[n] = IF n = x \/ h.next[n] = x THEN Dangling ELSE h.next[n]
        /\ g.prev[n] = IF n = x \/ h.prev[n] = x THEN Dangling ELSE h.prev[n]
  BY <1>1
<1> HIDE DEF g
<1>5. h.mapped \subseteq Key
  BY DEF WellFormed, Heap
<1>6. \A n \in Live(g) : PointersOf(g, n) \subseteq Live(g) \cup {Dangling}
  BY <1>1, <1>4, <1>5 DEF WellFormed, Node
<1>7. \A n \in Key \ g.mapped : g.next[n] = Dangling /\ g.prev[n] = Dangling
  BY <1>1, <1>4, <1>5 DEF WellFormed, Node
<1> QED
  BY <1>1, <1>3, <1>6, <1>7 DEF WellFormed, g

\* An eviction deletes a key, or ends in undefined behaviour.
LEMMA EvictWellFormed ==
  ASSUME NEW h, WellFormed(h)
  PROVE  /\ WellFormed(Evict(h))
         /\ Sound(Evict(h)) => \E x \in h.mapped : Evict(h).mapped = h.mapped \ {x}
<1> DEFINE back == h.prev[Dummy]
<1>1. CASE ~ Sound(h)
  BY <1>1 DEF Evict
<1>2. CASE Sound(h) /\ back \in {Dummy, Dangling}
  <2>1. Evict(h) = Broken(h, "freed")
    BY <1>2 DEF Evict
  <2>2. ~ Sound(Evict(h))
    BY <2>1 DEF Broken, Sound, WellFormed, Heap
  <2> QED
    BY <2>1, <2>2, BrokenWellFormed DEF Fault
<1>3. CASE Sound(h) /\ back \notin {Dummy, Dangling}
  <2>1. back \in h.mapped
    BY <1>3 DEF WellFormed
  <2>2. WellFormed(Unlink(h, back)) /\ Unlink(h, back).mapped = h.mapped
    BY <2>1, UnlinkWellFormed
  <2>3. Evict(h) = IF Sound(Unlink(h, back)) THEN Delete(Unlink(h, back), back)
                   ELSE Unlink(h, back)
    BY <1>3 DEF Evict
  <2> QED
    BY <2>1, <2>2, <2>3, DeleteWellFormed
<1> QED
  BY <1>1, <1>2, <1>3

\* A finite map stays finite.
LEMMA EvictFinite ==
  ASSUME NEW h, WellFormed(h), IsFiniteSet(h.mapped)
  PROVE  IsFiniteSet(Evict(h).mapped)
<1> DEFINE back == h.prev[Dummy]
<1>1. CASE ~ Sound(h)
  BY <1>1 DEF Evict
<1>2. CASE Sound(h) /\ back \in {Dummy, Dangling}
  BY <1>2, BrokenWellFormed DEF Evict, Fault
<1>3. CASE Sound(h) /\ back \notin {Dummy, Dangling}
  <2>1. back \in h.mapped
    BY <1>3 DEF WellFormed
  <2>2. WellFormed(Unlink(h, back)) /\ Unlink(h, back).mapped = h.mapped
    BY <2>1, UnlinkWellFormed
  <2>3. Evict(h).mapped \in {h.mapped, h.mapped \ {back}}
    BY <1>3, <2>1, <2>2, DeleteWellFormed DEF Evict
  <2> QED
    BY <2>3, FS_Subset
<1> QED
  BY <1>1, <1>2, <1>3

-----------------------------------------------------------------------------
(* put and remove.                                                         *)

\* Up to the first undefined behaviour, at most `capacity' keys.
Bounded(h) == IsFiniteSet(h.mapped) /\ (Sound(h) => Cardinality(h.mapped) <= Capacity)

\* put evicts exactly when the new key makes one too many.
LEMMA PutGood ==
  ASSUME NEW h, WellFormed(h), Bounded(h), NEW k \in Key, NEW v \in Value
  PROVE  WellFormed(Put(h, k, v)) /\ Bounded(Put(h, k, v))
<1> DEFINE hit == GetNode(h, k)
           node == NewNode(h, k, v)
           new == PushFront(node, k)
<1>1. WellFormed(hit) /\ hit.mapped = h.mapped
  BY GetNodeWellFormed
<1>2. WellFormed(node) /\ node.mapped = h.mapped \cup {k}
  BY NewNodeWellFormed
<1>3. WellFormed(new) /\ new.mapped = h.mapped \cup {k}
  BY <1>2, PushFrontWellFormed
<1>4. Put(h, k, v) =
        IF ~ Sound(h) THEN h
        ELSE IF k \in h.mapped
             THEN IF Sound(hit) THEN [hit EXCEPT !.value[k] = v] ELSE hit
        ELSE IF Cardinality(new.mapped) > Capacity THEN Evict(new) ELSE new
  BY DEF Put
<1> HIDE DEF hit, node, new
<1>5. CASE ~ Sound(h)
  BY <1>4, <1>5
<1>6. CASE Sound(h) /\ k \in h.mapped
  <2>1. /\ Put(h, k, v).mapped = h.mapped
        /\ Put(h, k, v).next = hit.next /\ Put(h, k, v).prev = hit.prev
        /\ Put(h, k, v) \in Heap
    BY <1>1, <1>4, <1>6 DEF WellFormed, Heap
  <2> QED
    BY <1>1, <1>6, <2>1 DEF WellFormed, Bounded
<1>7. CASE Sound(h) /\ k \notin h.mapped
  <2>1. /\ IsFiniteSet(new.mapped) /\ Cardinality(new.mapped) = Cardinality(h.mapped) + 1
        /\ Cardinality(h.mapped) \in Nat /\ Cardinality(h.mapped) <= Capacity
    <3>1. IsFiniteSet(h.mapped) /\ Cardinality(h.mapped) <= Capacity
      BY <1>7 DEF Bounded
    <3>2. Cardinality(h.mapped) \in Nat
      BY <3>1, FS_CardinalityType
    <3>3. /\ IsFiniteSet(h.mapped \cup {k})
          /\ Cardinality(h.mapped \cup {k}) = Cardinality(h.mapped) + 1
      BY <1>7, <3>1, FS_AddElement
    <3> QED
      BY <1>3, <3>1, <3>2, <3>3
  <2>2. CASE Cardinality(new.mapped) > Capacity
    <3>1. Put(h, k, v) = Evict(new)
      BY <1>4, <1>7, <2>2
    <3>2. WellFormed(Evict(new))
      BY <1>3, EvictWellFormed
    <3>3. IsFiniteSet(Evict(new).mapped)
      BY <1>3, <2>1, EvictFinite
    <3>4. ASSUME Sound(Evict(new)) PROVE Cardinality(Evict(new).mapped) <= Capacity
      <4>1. PICK x \in new.mapped : Evict(new).mapped = new.mapped \ {x}
        BY <1>3, <3>4, EvictWellFormed
      <4>2. Cardinality(Evict(new).mapped) = Cardinality(new.mapped) - 1
        BY <2>1, <4>1, FS_RemoveElement
      <4> QED
        BY <2>1, <4>2, HeapAssumption
    <3> QED
      BY <3>1, <3>2, <3>3, <3>4 DEF Bounded
  <2>3. CASE ~ Cardinality(new.mapped) > Capacity
    <3>1. Put(h, k, v) = new
      BY <1>4, <1>7, <2>3
    <3> QED
      BY <1>3, <2>1, <2>3, <3>1, HeapAssumption DEF Bounded
  <2> QED
    BY <2>2, <2>3
<1> QED
  BY <1>5, <1>6, <1>7

\* remove(int) leaves the key in the map.
LEMMA RemoveKeyGood ==
  ASSUME NEW h, WellFormed(h), Bounded(h), NEW k \in Key
  PROVE  WellFormed(RemoveKey(h, k)) /\ Bounded(RemoveKey(h, k))
<1>1. CASE ~ Sound(h)
  BY <1>1 DEF RemoveKey
<1>2. CASE Sound(h) /\ k \in h.mapped
  <2>1. WellFormed(GetNode(h, k)) /\ GetNode(h, k).mapped = h.mapped
    BY GetNodeWellFormed
  <2>2. /\ WellFormed(Unlink(GetNode(h, k), k))
        /\ Unlink(GetNode(h, k), k).mapped = h.mapped
    BY <1>2, <2>1, UnlinkWellFormed
  <2> QED
    BY <1>2, <2>2 DEF RemoveKey, Bounded
<1>3. CASE Sound(h) /\ k \notin h.mapped
  <2>1. RemoveKey(h, k) = Broken(h, "null")
    BY <1>3 DEF RemoveKey
  <2> QED
    BY <1>3, <2>1, BrokenWellFormed DEF Fault, Bounded
<1> QED
  BY <1>1, <1>2, <1>3

-----------------------------------------------------------------------------
(* The ring of a cache on which remove has not been called.                *)

\* The nodes of S lead to each other, and the links back are their inverse.
Ring(h, S) ==
  \A n \in S : /\ h.next[n] \in S /\ h.prev[n] \in S
               /\ h.prev[h.next[n]] = n /\ h.next[h.prev[n]] = n

\* Every key of the map is in the ring of the sentinel.
Whole(h) == Sound(h) /\ Ring(h, Live(h))

\* Unlinking a node of the ring leaves a ring of the others.
LEMMA UnlinkRing ==
  ASSUME NEW h, WellFormed(h), Whole(h), NEW x \in h.mapped
  PROVE  Sound(Unlink(h, x)) /\ Ring(Unlink(h, x), Live(h) \ {x})
<1> DEFINE before == h.prev[x]
           after == h.next[x]
           g == Unlink(h, x)
<1>1. h.mapped \subseteq Key /\ Live(h) \subseteq Node
  BY DEF WellFormed, Heap, Node
<1>2. /\ before \in Live(h) /\ after \in Live(h)
      /\ h.next[before] = x /\ h.prev[after] = x
  BY DEF Whole, Ring
<1>3. Dangling \notin {before, after}
  BY <1>1, <1>2, HeapAssumption
<1>4. g = [h EXCEPT !.next[before] = after, !.prev[after] = before]
  BY <1>3 DEF Unlink, Whole
<1>5. \A n \in Node : /\ g.next[n] = IF n = before THEN after ELSE h.next[n]
                      /\ g.prev[n] = IF n = after THEN before ELSE h.prev[n]
  BY <1>1, <1>2, <1>4 DEF WellFormed, Heap
<1>6. Sound(g)
  BY <1>4 DEF Whole, Sound, WellFormed, Heap
<1> HIDE DEF g
<1>7. Ring(g, Live(h) \ {x})
  BY <1>1, <1>2, <1>5 DEF Whole, Ring
<1> QED
  BY <1>6, <1>7 DEF g

\* push_front adds a node to the ring, which is then not just the sentinel.
LEMMA PushFrontRing ==
  ASSUME NEW h, WellFormed(h), Sound(h), NEW S, Ring(h, S),
         S \subseteq Node, Dummy \in S, NEW x \in Key, x \notin S
  PROVE  /\ Sound(PushFront(h, x))
         /\ Ring(PushFront(h, x), S \cup {x})
         /\ PushFront(h, x).prev[Dummy] # Dummy
<1> DEFINE head == h.next[Dummy]
           g == PushFront(h, x)
<1>1. head \in S /\ head \in Node /\ h.prev[head] = Dummy
  BY DEF Ring
<1>2. head # Dangling /\ x # Dummy
  BY <1>1, HeapAssumption DEF Node
<1>3. g = [h EXCEPT !.next = [@ EXCEPT ![x] = head, ![Dummy] = x],
                    !.prev = [@ EXCEPT ![x] = Dummy, ![head] = x]]
  BY <1>2 DEF PushFront
<1>4. \A n \in Node :
        /\ g.next[n] = IF n = Dummy THEN x ELSE IF n = x THEN head ELSE h.next[n]
        /\ g.prev[n] = IF n = head THEN x ELSE IF n = x THEN Dummy ELSE h.prev[n]
  BY <1>1, <1>2, <1>3 DEF WellFormed, Heap, Node
<1>5. Sound(g)
  BY <1>3 DEF Sound, WellFormed, Heap
<1> HIDE DEF g
<1>6. x \in Node
  BY DEF Node
<1>7. Ring(g, S \cup {x})
  BY <1>1, <1>2, <1>4, <1>6 DEF Ring
<1>8. g.prev[Dummy] # Dummy
  <2>1. g.next[Dummy] = x
    BY <1>4 DEF Node
  <2> QED
    BY <1>2, <1>7, <2>1 DEF Ring
<1> QED
  BY <1>5, <1>7, <1>8 DEF g

\* get_node keeps the whole map in the ring.
LEMMA GetNodeWhole ==
  ASSUME NEW h, WellFormed(h), Whole(h), NEW k
  PROVE  Whole(GetNode(h, k))
<1>1. CASE k \in h.mapped
  <2> DEFINE u == Unlink(h, k)
             S == Live(h) \ {k}
  <2>1. WellFormed(u) /\ u.mapped = h.mapped /\ Sound(u) /\ Ring(u, S)
    BY <1>1, UnlinkWellFormed, UnlinkRing
  <2>2. k \in Key /\ S \subseteq Node /\ Dummy \in S /\ k \notin S
    BY <1>1, HeapAssumption DEF WellFormed, Heap, Node
  <2>3. Sound(PushFront(u, k)) /\ Ring(PushFront(u, k), S \cup {k})
    BY <2>1, <2>2, PushFrontRing
  <2>4. PushFront(u, k).mapped = h.mapped
    BY <1>1, <2>1, PushFrontWellFormed
  <2>5. S \cup {k} = Live(PushFront(u, k))
    BY <1>1, <2>4
  <2> QED
    BY <1>1, <2>3, <2>5 DEF GetNode, Whole
<1> QED
  BY <1>1 DEF GetNode

\* An eviction from a ring of more than the sentinel does too.
LEMMA EvictWhole ==
  ASSUME NEW h, WellFormed(h), Whole(h), h.prev[Dummy] # Dummy
  PROVE  Whole(Evict(h))
<1> DEFINE back == h.prev[Dummy]
           u == Unlink(h, back)
           g == Delete(u, back)
<1>1. back \in h.mapped
  BY DEF Whole, Ring
<1>2. back # Dangling
  BY <1>1, HeapAssumption DEF WellFormed, Heap
<1>3. WellFormed(u) /\ u.mapped = h.mapped /\ Sound(u) /\ Ring(u, Live(h) \ {back})
  BY <1>1, UnlinkWellFormed, UnlinkRing
<1>4. Evict(h) = g
  BY <1>2, <1>3 DEF Evict, Whole
<1>5. WellFormed(g) /\ g.mapped = h.mapped \ {back}
  BY <1>1, <1>3, DeleteWellFormed
<1>6. Live(g) = Live(h) \ {back} /\ Live(g) \subseteq Node
  BY <1>1, <1>5, HeapAssumption DEF WellFormed, Heap, Node
<1>7. /\ g.next = [n \in Node |-> IF n = back \/ u.next[n] = back THEN Dangling ELSE u.next[n]]
      /\ g.prev = [n \in Node |-> IF n = back \/ u.prev[n] = back THEN Dangling ELSE u.prev[n]]
      /\ g.fault = u.fault
  BY <1>3 DEF Delete, WellFormed, Heap
<1>8. Ring(g, Live(g))
  <2> HIDE DEF g, u
  <2>1. \A n \in Live(g) : g.next[n] = u.next[n] /\ g.prev[n] = u.prev[n]
    BY <1>3, <1>6, <1>7 DEF Ring
  <2> QED
    BY <1>3, <1>6, <2>1 DEF Ring
<1> QED
  BY <1>3, <1>4, <1>7, <1>8 DEF Whole, Sound

\* And so does put.
LEMMA PutWhole ==
  ASSUME NEW h, WellFormed(h), Whole(h), NEW k \in Key, NEW v \in Value
  PROVE  Whole(Put(h, k, v))
<1> DEFINE hit == GetNode(h, k)
           node == NewNode(h, k, v)
           new == PushFront(node, k)
<1>1. CASE k \in h.mapped
  <2>1. WellFormed(hit) /\ hit.mapped = h.mapped /\ Whole(hit)
    BY GetNodeWellFormed, GetNodeWhole
  <2>2. Put(h, k, v) = [hit EXCEPT !.value[k] = v]
    BY <1>1, <2>1 DEF Put, Whole
  <2> HIDE DEF hit
  <2>3. /\ Put(h, k, v).mapped = hit.mapped /\ Put(h, k, v).fault = hit.fault
        /\ Put(h, k, v).next = hit.next /\ Put(h, k, v).prev = hit.prev
    BY <2>1, <2>2 DEF WellFormed, Heap
  <2> QED
    BY <2>1, <2>3 DEF Whole, Ring, Sound
<1>2. CASE k \notin h.mapped
  <2>1. /\ WellFormed(node) /\ node.mapped = h.mapped \cup {k}
        /\ node.next = h.next /\ node.prev = h.prev /\ node.fault = h.fault
    <3>1. WellFormed(node) /\ node.mapped = h.mapped \cup {k}
      BY NewNodeWellFormed
    <3>2. node.next = h.next /\ node.prev = h.prev /\ node.fault = h.fault
      BY DEF NewNode, WellFormed, Heap
    <3> QED
      BY <3>1, <3>2
  <2>2. Sound(node) /\ Ring(node, Live(h))
    BY <2>1 DEF Whole, Ring, Sound
  <2>3. Live(h) \subseteq Node /\ Dummy \in Live(h) /\ k \notin Live(h)
    BY <1>2, HeapAssumption DEF WellFormed, Heap, Node
  <2>4. /\ Sound(new) /\ Ring(new, Live(h) \cup {k})
        /\ new.prev[Dummy] # Dummy
    BY <2>1, <2>2, <2>3, PushFrontRing
  <2>5. WellFormed(new) /\ new.mapped = h.mapped \cup {k}
    BY <2>1, PushFrontWellFormed
  <2>6. Whole(new)
    BY <2>4, <2>5 DEF Whole, Ring
  <2>7. Put(h, k, v) = Evict(new) \/ Put(h, k, v) = new
    BY <1>2 DEF Put, Whole
  <2> QED
    BY <2>4, <2>5, <2>6, <2>7, EvictWhole
<1> QED
  BY <1>1, <1>2
-----------------------------------------------------------------------------
(* What the member functions do to the values.                             *)

\* remove(Node *) changes no value.
LEMMA UnlinkValue ==
  ASSUME NEW h, WellFormed(h), NEW x
  PROVE  Unlink(h, x).value = h.value
BY DEF Unlink, Broken, WellFormed, Heap

\* push_front changes no value.
LEMMA PushFrontValue ==
  ASSUME NEW h, WellFormed(h), NEW x
  PROVE  PushFront(h, x).value = h.value
BY DEF PushFront, Broken, WellFormed, Heap

\* get_node changes no value.
LEMMA GetNodeValue ==
  ASSUME NEW h, WellFormed(h), NEW k
  PROVE  GetNode(h, k).value = h.value
<1>1. CASE k \in h.mapped
  BY <1>1, UnlinkWellFormed, UnlinkValue, PushFrontValue DEF GetNode
<1> QED
  BY <1>1 DEF GetNode

\* remove(int) changes neither a value nor the map.
LEMMA RemoveKeyValue ==
  ASSUME NEW h, WellFormed(h), NEW k
  PROVE  /\ RemoveKey(h, k).value = h.value
         /\ RemoveKey(h, k).mapped = h.mapped
<1>1. CASE Sound(h) /\ k \in h.mapped
  <2>1. /\ WellFormed(GetNode(h, k)) /\ GetNode(h, k).mapped = h.mapped
        /\ GetNode(h, k).value = h.value
    BY GetNodeWellFormed, GetNodeValue
  <2>2. RemoveKey(h, k) = Unlink(GetNode(h, k), k)
    BY <1>1 DEF RemoveKey
  <2> QED
    BY <1>1, <2>1, <2>2, UnlinkWellFormed, UnlinkValue
<1>2. CASE ~ (Sound(h) /\ k \in h.mapped)
  BY <1>2 DEF RemoveKey, Broken, WellFormed, Heap
<1> QED
  BY <1>1, <1>2

\* An eviction may forget a value.
LEMMA EvictValue ==
  ASSUME NEW h, WellFormed(h), NEW j \in Key
  PROVE  Evict(h).value[j] \in {h.value[j], NoValue}
<1> DEFINE back == h.prev[Dummy]
           u == Unlink(h, back)
<1>1. u.value = h.value
  BY UnlinkValue
<1>2. Broken(h, "freed").value = h.value
  BY DEF Broken, WellFormed, Heap
<1>3. ASSUME Sound(h), back \notin {Dummy, Dangling}
      PROVE  Delete(u, back).value[j] \in {u.value[j], NoValue}
  <2>1. back \in h.mapped
    BY <1>3 DEF WellFormed
  <2>2. WellFormed(u)
    BY <2>1, UnlinkWellFormed
  <2>3. Delete(u, back).value = [u.value EXCEPT ![back] = NoValue]
    BY <2>2 DEF Delete, WellFormed, Heap
  <2> QED
    BY <2>2, <2>3 DEF WellFormed, Heap
<1> QED
  BY <1>1, <1>2, <1>3 DEF Evict

\* put binds no other key.
LEMMA PutValue ==
  ASSUME NEW h, WellFormed(h), NEW k \in Key, NEW v \in Value, NEW j \in Key
  PROVE  Put(h, k, v).value[j] \in {h.value[j], NoValue} \cup (IF j = k THEN {v} ELSE {})
<1> DEFINE hit == GetNode(h, k)
           node == NewNode(h, k, v)
           new == PushFront(node, k)
<1>1. WellFormed(hit) /\ hit.value = h.value
  BY GetNodeWellFormed, GetNodeValue
<1>2. WellFormed(node) /\ node.mapped = h.mapped \cup {k}
  BY NewNodeWellFormed
<1>3. node.value = [h.value EXCEPT ![k] = v]
  BY DEF NewNode, WellFormed, Heap
<1>4. WellFormed(new) /\ new.value = node.value
  BY <1>2, PushFrontWellFormed, PushFrontValue
<1>5. new.value[j] = IF j = k THEN v ELSE h.value[j]
  BY <1>3, <1>4 DEF WellFormed, Heap
<1>6. Evict(new).value[j] \in {new.value[j], NoValue}
  BY <1>4, EvictValue
<1>7. [hit EXCEPT !.value[k] = v].value[j] = IF j = k THEN v ELSE h.value[j]
  BY <1>1 DEF WellFormed, Heap
<1> HIDE DEF hit, new
<1>8. Put(h, k, v) \in {h, hit, [hit EXCEPT !.value[k] = v], Evict(new), new}
  BY DEF Put, hit, new
<1> QED
  BY <1>1, <1>5, <1>6, <1>7, <1>8

-----------------------------------------------------------------------------
(* A cache from which nothing is evicted: ghosts, but no dangling pointer.  *)

\* No allocated node has a pointer that dangles.
Safe(h) == Sound(h) /\ \A n \in Live(h) : PointersOf(h, n) \subseteq Live(h)

\* The empty list has none.
LEMMA EmptySafe == Safe(EmptyHeap)
BY HeapAssumption DEF Safe, EmptyHeap, Sound, Node

\* Unlinking an allocated node meets no dangling pointer, ghost or not.
LEMMA UnlinkSafe ==
  ASSUME NEW h, WellFormed(h), Safe(h), NEW x \in h.mapped
  PROVE  Safe(Unlink(h, x))
<1> DEFINE before == h.prev[x]
           after == h.next[x]
           g == Unlink(h, x)
<1>1. h.mapped \subseteq Key /\ Live(h) \subseteq Node
  BY DEF WellFormed, Heap, Node
<1>2. before \in Live(h) /\ after \in Live(h)
  BY DEF Safe
<1>3. g = [h EXCEPT !.next[before] = after, !.prev[after] = before]
  BY <1>1, <1>2, HeapAssumption DEF Unlink, Safe
<1>4. \A n \in Node : /\ g.next[n] = IF n = before THEN after ELSE h.next[n]
                      /\ g.prev[n] = IF n = after THEN before ELSE h.prev[n]
  BY <1>1, <1>2, <1>3 DEF WellFormed, Heap
<1>5. Sound(g) /\ g.mapped = h.mapped
  BY <1>3 DEF Safe, Sound, WellFormed, Heap
<1> HIDE DEF g
<1> QED
  <2>1. Safe(g)
    BY <1>1, <1>2, <1>4, <1>5 DEF Safe
  <2> QED
    BY <2>1 DEF g

\* push_front gives a node its pointers, which may dangle until then.
LEMMA PushFrontSafe ==
  ASSUME NEW h, WellFormed(h), Sound(h), NEW x \in h.mapped,
         \A n \in Live(h) \ {x} : PointersOf(h, n) \subseteq Live(h)
  PROVE  Safe(PushFront(h, x))
<1> DEFINE head == h.next[Dummy]
           g == PushFront(h, x)
<1>1. /\ x \in Key /\ x # Dummy /\ Live(h) \subseteq Node
  BY HeapAssumption DEF WellFormed, Heap, Node
<1>2. head \in Live(h) /\ head \in Node /\ head # Dangling
  BY <1>1, HeapAssumption DEF Node
<1>3. g = [h EXCEPT !.next = [@ EXCEPT ![x] = head, ![Dummy] = x],
                    !.prev = [@ EXCEPT ![x] = Dummy, ![head] = x]]
  BY <1>2 DEF PushFront
<1>4. \A n \in Node :
        /\ g.next[n] = IF n = Dummy THEN x ELSE IF n = x THEN head ELSE h.next[n]
        /\ g.prev[n] = IF n = head THEN x ELSE IF n = x THEN Dummy ELSE h.prev[n]
  BY <1>1, <1>2, <1>3 DEF WellFormed, Heap, Node
<1>5. Sound(g) /\ g.mapped = h.mapped
  BY <1>3 DEF Sound, WellFormed, Heap
<1> HIDE DEF g
<1> QED
  <2>1. Safe(g)
    BY <1>1, <1>2, <1>4, <1>5 DEF Safe
  <2> QED
    BY <2>1 DEF g

\* get_node meets no dangling pointer.
LEMMA GetNodeSafe ==
  ASSUME NEW h, WellFormed(h), Safe(h), NEW k
  PROVE  Safe(GetNode(h, k))
<1>1. CASE k \in h.mapped
  <2>1. /\ WellFormed(Unlink(h, k)) /\ Unlink(h, k).mapped = h.mapped
        /\ Safe(Unlink(h, k))
    BY <1>1, UnlinkWellFormed, UnlinkSafe
  <2> QED
    BY <1>1, <2>1, PushFrontSafe DEF GetNode, Safe
<1> QED
  BY <1>1 DEF GetNode

\* Neither does remove(int), for a key of the map.
LEMMA RemoveKeySafe ==
  ASSUME NEW h, WellFormed(h), Safe(h), NEW k \in h.mapped
  PROVE  Safe(RemoveKey(h, k))
<1>1. /\ WellFormed(GetNode(h, k)) /\ GetNode(h, k).mapped = h.mapped
      /\ Safe(GetNode(h, k))
  BY GetNodeWellFormed, GetNodeSafe
<1> QED
  BY <1>1, UnlinkSafe DEF RemoveKey, Safe

\* Neither does put, if the new key fits, and the key is then bound.
LEMMA PutSafe ==
  ASSUME NEW h, WellFormed(h), Safe(h), NEW k \in Key, NEW v \in Value,
         Cardinality(h.mapped \cup {k}) <= Capacity, IsFiniteSet(h.mapped)
  PROVE  /\ Safe(Put(h, k, v))
         /\ Put(h, k, v).mapped = h.mapped \cup {k}
         /\ Put(h, k, v).value = [h.value EXCEPT ![k] = v]
<1> DEFINE hit == GetNode(h, k)
           node == NewNode(h, k, v)
           new == PushFront(node, k)
<1>1. CASE k \in h.mapped
  <2>1. /\ WellFormed(hit) /\ hit.mapped = h.mapped /\ Safe(hit)
        /\ hit.value = h.value
    BY GetNodeWellFormed, GetNodeSafe, GetNodeValue
  <2>2. Put(h, k, v) = [hit EXCEPT !.value[k] = v]
    BY <1>1, <2>1 DEF Put, Safe
  <2> HIDE DEF hit
  <2>3. /\ Put(h, k, v).mapped = hit.mapped /\ Put(h, k, v).fault = hit.fault
        /\ Put(h, k, v).next = hit.next /\ Put(h, k, v).prev = hit.prev
        /\ Put(h, k, v).value = [hit.value EXCEPT ![k] = v]
    BY <2>1, <2>2 DEF WellFormed, Heap
  <2> QED
    BY <1>1, <2>1, <2>3 DEF Safe, Sound
<1>2. CASE k \notin h.mapped
  <2>1. WellFormed(node) /\ node.mapped = h.mapped \cup {k}
    BY NewNodeWellFormed
  <2>2. /\ node.next = h.next /\ node.prev = h.prev /\ node.fault = h.fault
        /\ node.value = [h.value EXCEPT ![k] = v]
    BY DEF NewNode, WellFormed, Heap
  <2>3. Sound(node) /\ \A n \in Live(node) \ {k} : PointersOf(node, n) \subseteq Live(node)
    BY <2>1, <2>2 DEF Safe, Sound
  <2>4. Safe(new)
    BY <2>1, <2>3, PushFrontSafe
  <2>5. /\ WellFormed(new) /\ new.mapped = h.mapped \cup {k}
        /\ new.value = [h.value EXCEPT ![k] = v]
    BY <2>1, <2>2, PushFrontWellFormed, PushFrontValue
  <2>6. Cardinality(new.mapped) \in Nat
    BY <2>5, FS_AddElement, FS_CardinalityType
  <2>7. Put(h, k, v) = new
    <3>1. ~ Cardinality(new.mapped) > Capacity
      BY <2>5, <2>6, HeapAssumption
    <3> QED
      BY <1>2, <3>1 DEF Put, Safe
  <2> QED
    BY <2>4, <2>5, <2>7
<1> QED
  BY <1>1, <1>2
=============================================================================
