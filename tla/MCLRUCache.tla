----------------------------- MODULE MCLRUCache -----------------------------
(***************************************************************************)
(* TLC instance of LRUCache.  Keys are interchangeable, and so are values. *)
(***************************************************************************)
EXTENDS LRUCache, TLC

Symmetry == Permutations(Key) \cup Permutations(Value)
=============================================================================
