------------------------------ MODULE MCClient ------------------------------
(***************************************************************************)
(* TLC instances of the chat clients: on one IO loop, or on two.           *)
(***************************************************************************)
EXTENDS ChatClient

CONSTANTS c1, c2, l1, l2

OneLoop == [c \in Client |-> l1]
TwoLoops == [c \in Client |-> IF c = c1 THEN l1 ELSE l2]
=============================================================================
