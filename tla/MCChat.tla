------------------------------- MODULE MCChat -------------------------------
(***************************************************************************)
(* TLC instances of the chat server.  Users are interchangeable, and so    *)
(* are messages; connections with the threads they belong to.              *)
(***************************************************************************)
EXTENDS ChatProperties, TLC

CONSTANTS c1, c2, c3, t1, t2

OneLoop == [c \in Conn |-> t1]
TwoLoops == [c \in Conn |-> IF c = c2 THEN t2 ELSE t1]

\* c1 belongs to t1 and c2 to t2: exchanging both pairs maps TwoLoops to itself.
Exchange == [x \in {c1, c2, t1, t2} |->
  CASE x = c1 -> c2 [] x = c2 -> c1 [] x = t1 -> t2 [] x = t2 -> t1]

Symmetry == Permutations(User) \cup Permutations(Msg) \cup {Exchange}
=============================================================================
