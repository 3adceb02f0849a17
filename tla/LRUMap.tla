------------------------------- MODULE LRUMap -------------------------------
(***************************************************************************)
(* What a least-recently-used cache promises: a bounded map whose keys are *)
(* kept in the order of their last use, and which gives up the key unused  *)
(* for longest when a new one does not fit.  No nodes, no pointers.        *)
(***************************************************************************)
EXTENDS SequencesExt

CONSTANTS Key, Value, NoValue, Capacity

VARIABLES order,   \* the keys, most recently used first
          binding, \* [key -> value], NoValue for a key that is not there
          answer   \* what the last call returned

vars == <<order, binding, answer>>

Init == /\ order = <<>>
        /\ binding = [k \in Key |-> NoValue]
        /\ answer = NoValue

\* The order after a use of k.
Touched(k) ==
  <<k>> \o IF k \in ToSet(order)
           THEN RemoveAt(order, CHOOSE i \in DOMAIN order : order[i] = k)
           ELSE order

Get(k) ==
  /\ order' = IF k \in ToSet(order) THEN Touched(k) ELSE order
  /\ answer' = binding[k]
  /\ UNCHANGED binding

\* A new key that does not fit pushes out the last of the order.
Put(k, v) ==
  /\ IF Len(Touched(k)) <= Capacity
     THEN /\ order' = Touched(k)
          /\ binding' = [binding EXCEPT ![k] = v]
     ELSE /\ order' = Front(Touched(k))
          /\ binding' = [binding EXCEPT ![k] = v, ![Last(order)] = NoValue]
  /\ answer' = NoValue

Next == \E k \in Key : Get(k) \/ \E v \in Value : Put(k, v)

Spec == Init /\ [][Next]_vars
=============================================================================
