------------------------------ MODULE LRUHeap ------------------------------
(***************************************************************************)
(* The heap behind class LRUCache (include/server/LRUCache.hpp): the hash  *)
(* map key_to_node and the circular doubly linked list threaded through    *)
(* its nodes and a sentinel, `dummy'.  The operators below are the class's *)
(* member functions, as functions from heap to heap: they are shared by    *)
(* the stand-alone cache (LRUCache) and by the chat server that keeps its  *)
(* online connections in one (ChatService).                                *)
(*                                                                         *)
(* A node is named by its key: a key is in the map for as long as its node *)
(* is allocated, because only an eviction deletes a node and it erases the *)
(* node's key first.  A pointer to a deleted node becomes Dangling.        *)
(* Dereferencing a null or a dangling pointer is undefined behaviour: it   *)
(* sets `fault', after which nothing more is said of the heap (every       *)
(* operator leaves a faulty heap alone).                                   *)
(***************************************************************************)
EXTENDS FiniteSets, Naturals

CONSTANTS Key,       \* user ids
          Value,     \* connections
          NoValue,   \* the null TcpConnectionPtr
          Dummy,     \* the sentinel node
          Dangling,  \* a pointer to a deleted node, or one never assigned
          Capacity   \* LRUCache(10) in chatservice.hpp

ASSUME HeapAssumption ==
  /\ Capacity \in Nat \ {0}
  /\ Dummy \notin Key /\ Dangling \notin Key /\ Dummy # Dangling
  /\ NoValue \notin Value

Node == Key \cup {Dummy}
Pointer == Node \cup {Dangling}
Fault == {"none", "null", "freed"}

Heap == [mapped : SUBSET Key,
         value  : [Key -> Value \cup {NoValue}],
         next   : [Node -> Pointer],
         prev   : [Node -> Pointer],
         fault  : Fault]

\* LRUCache(int): an empty map, and a sentinel linked to itself.
EmptyHeap ==
  LET alone == [n \in Node |-> IF n = Dummy THEN Dummy ELSE Dangling]
  IN [mapped |-> {}, value |-> [k \in Key |-> NoValue],
      next |-> alone, prev |-> alone, fault |-> "none"]

Sound(h) == h.fault = "none"

Broken(h, why) == [h EXCEPT !.fault = why]

\* Mutant: the backward link is forgotten.
Unlink_OneWay(h, x) ==
  IF ~ Sound(h) THEN h
  ELSE IF h.prev[x] = Dangling THEN Broken(h, "freed")
  ELSE [h EXCEPT !.next[h.prev[x]] = h.next[x]]

\* remove(Node *x): unlink x, leaving x's own pointers as they were.
Unlink(h, x) ==
  LET before == h.prev[x]
      after  == h.next[x]
  IN IF ~ Sound(h) THEN h
     ELSE IF Dangling \in {before, after} THEN Broken(h, "freed")
     ELSE [h EXCEPT !.next[before] = after, !.prev[after] = before]

\* push_front(Node *x): four assignments in the order of the code; the last
\* one reads the x->next that the second one wrote.
PushFront(h, x) ==
  LET head == h.next[Dummy]
  IN IF ~ Sound(h) THEN h
     ELSE IF head = Dangling THEN Broken(h, "freed")
     ELSE [h EXCEPT !.next = [@ EXCEPT ![x] = head, ![Dummy] = x],
                    !.prev = [@ EXCEPT ![x] = Dummy, ![head] = x]]

\* Mutant: a hit is not moved to the front.
GetNode_NoTouch(h, k) == h

\* get_node(int key): a hit is moved to the front of the list.
GetNode(h, k) ==
  IF k \in h.mapped THEN PushFront(Unlink(h, k), k) ELSE h

\* get(int key), its effect and its result.
Get(h, k) == GetNode(h, k)
Found(h, k) == IF k \in h.mapped THEN h.value[k] ELSE NoValue

\* Mutant: the node is not entered in key_to_node.
NewNode_NotMapped(h, k, v) == [h EXCEPT !.value[k] = v]

\* key_to_node[key] = new Node(key, value): its pointers are not initialised.
NewNode(h, k, v) ==
  [h EXCEPT !.mapped = @ \cup {k}, !.value[k] = v]

\* delete x: every pointer to x dangles, and so do the fields of x.
Delete(h, x) ==
  LET dangle(f) == [n \in Node |-> IF n = x \/ f[n] = x THEN Dangling ELSE f[n]]
  IN [h EXCEPT !.mapped = @ \ {x}, !.value[x] = NoValue,
               !.next = dangle(@), !.prev = dangle(@)]

\* The eviction in put.  A corrupted list can make `back_node' the sentinel:
\* deleting it leaves every later call a dangling `dummy'.
Evict(h) ==
  LET back == h.prev[Dummy]
  IN IF ~ Sound(h) THEN h
     ELSE IF back \in {Dummy, Dangling} THEN Broken(h, "freed")
     ELSE IF Sound(Unlink(h, back)) THEN Delete(Unlink(h, back), back)
     ELSE Unlink(h, back)

\* Mutant: the size is compared before the new key is counted.
Put_LateEvict(h, k, v) ==
  LET hit == GetNode(h, k)
      new == PushFront(NewNode(h, k, v), k)
  IN IF ~ Sound(h) THEN h
     ELSE IF k \in h.mapped
          THEN IF Sound(hit) THEN [hit EXCEPT !.value[k] = v] ELSE hit
     ELSE IF Cardinality(h.mapped) > Capacity THEN Evict(new) ELSE new

\* put(int key, TcpConnectionPtr value)
Put(h, k, v) ==
  LET hit == GetNode(h, k)
      new == PushFront(NewNode(h, k, v), k)
  IN IF ~ Sound(h) THEN h
     ELSE IF k \in h.mapped
          THEN IF Sound(hit) THEN [hit EXCEPT !.value[k] = v] ELSE hit
     ELSE IF Cardinality(new.mapped) > Capacity THEN Evict(new) ELSE new

\* Mutant: the node is deleted while the list still leads to it.
RemoveKey_StillLinked(h, k) ==
  IF ~ Sound(h) THEN h
  ELSE IF k \in h.mapped THEN Delete(GetNode(h, k), k)
  ELSE Broken(h, "null")

\* remove(int key): the node is looked up (and so moved to the front) and
\* unlinked; the key stays in the map and the node is not deleted.  For a key
\* that is not in the map get_node returns nullptr, which is dereferenced.
RemoveKey(h, k) ==
  IF ~ Sound(h) THEN h
  ELSE IF k \in h.mapped THEN Unlink(GetNode(h, k), k)
  ELSE Broken(h, "null")

\* The list as a reader walks it from the sentinel: Walk(next)[n] is the node
\* n + 1 steps after `dummy', Dummy once the walk has come round.
Walk(link) ==
  LET walk[n \in 0 .. Cardinality(Key)] ==
        IF n = 0 THEN link[Dummy]
        ELSE IF walk[n - 1] \in Key THEN link[walk[n - 1]] ELSE walk[n - 1]
  IN walk

\* The keys of the list, from the sentinel to its first return there.
OrderOf(link) ==
  LET walk == Walk(link)
      len  == Cardinality({n \in DOMAIN walk : walk[n] \in Key})
  IN [i \in 1 .. len |-> walk[i - 1]]
=============================================================================
