------------------------------ MODULE LRUCache ------------------------------
(***************************************************************************)
(* class LRUCache on its own, driven by an arbitrary caller: one action    *)
(* per public member function.  Of these `remove' leaves a ghost behind (a *)
(* node still in the map and no longer in the list), so the properties     *)
(* separate what holds until its first call from what is left after it.    *)
(***************************************************************************)
EXTENDS LRUHeap

VARIABLES heap,    \* the cache: see LRUHeap
          reply,   \* what the last get returned (NoValue otherwise)
          pure     \* history: remove has not been called

vars == <<heap, reply, pure>>

Init == /\ heap = EmptyHeap
        /\ reply = NoValue
        /\ pure = TRUE

DoGet(k) ==
  /\ Sound(heap)
  /\ heap' = Get(heap, k)
  /\ reply' = IF Sound(heap') THEN Found(heap, k) ELSE NoValue
  /\ UNCHANGED pure

DoPut(k, v) ==
  /\ Sound(heap)
  /\ heap' = Put(heap, k, v)
  /\ reply' = NoValue
  /\ UNCHANGED pure

DoRemove(k) ==
  /\ Sound(heap)
  /\ heap' = RemoveKey(heap, k)
  /\ reply' = NoValue
  /\ pure' = FALSE

Next == \E k \in Key : \/ DoGet(k)
                       \/ \E v \in Value : DoPut(k, v)
                       \/ DoRemove(k)

Spec == Init /\ [][Next]_vars

-----------------------------------------------------------------------------
(* Properties of the cache whatever its caller does.                       *)

\* put evicts before it returns: up to the first undefined behaviour the map
\* never holds more than `capacity' keys, ghosts included, so a list that
\* remove(int) has corrupted still gives the eviction a node whose key is in
\* the map (LRUCache.hpp:40-46).
CapacityRespected == Sound(heap) => Cardinality(heap.mapped) <= Capacity

\* No pointer of the sentinel or of a mapped node leads to a node that was
\* never allocated: what is not dangling is in the map (LRUCache.hpp:69-75).
PointersLive ==
  \A n \in heap.mapped \cup {Dummy} :
    {heap.next[n], heap.prev[n]} \subseteq heap.mapped \cup {Dummy, Dangling}

-----------------------------------------------------------------------------
(* Properties of a cache whose caller has not called remove.               *)

\* The list and the map hold the same keys, the forward and the backward
\* links are inverse, and so no call meets a dangling pointer
\* (LRUCache.hpp:62-85).
RingMatchesMap ==
  pure =>
    /\ Sound(heap)
    /\ \A n \in heap.mapped \cup {Dummy} :
         /\ heap.next[n] \in heap.mapped \cup {Dummy}
         /\ heap.prev[heap.next[n]] = n

\* The keys by last use, read off the list.
order == OrderOf(heap.next)

Abstract == INSTANCE LRUMap WITH binding <- heap.value, answer <- reply

\* Up to the first remove the cache implements LRUMap: the list is the order
\* of last use, get finds what put last bound, and put gives up the least
\* recently used key (LRUCache.hpp:27-47).
ImplementsLRUMap ==
  Abstract!Init /\ [][pure' => Abstract!Next]_<<order, heap.value, reply>>
=============================================================================
