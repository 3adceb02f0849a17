---------------------------- MODULE ChatMailbox ----------------------------
(***************************************************************************)
(* What the chat promises to the people who use it, without connections,   *)
(* threads, caches or tables: a message the server has accepted for a user *)
(* reaches that user's screen at once, or is kept and reaches it at a      *)
(* later login.  It is never lost and never shown twice.                   *)
(***************************************************************************)
CONSTANTS User, Msg

VARIABLES due,   \* accepted for a user and not yet disposed of
          kept,  \* kept for a user's next login
          shown  \* shown to the user

vars == <<due, kept, shown>>

Boxes == [User -> SUBSET Msg]

Init == /\ due = [u \in User |-> {}]
        /\ kept = [u \in User |-> {}]
        /\ shown = [u \in User |-> {}]

\* A message is accepted for all its recipients at once.
Accept(m, recipients) ==
  /\ \A u \in User : m \notin due[u] \cup kept[u] \cup shown[u]
  /\ due' = [u \in User |-> IF u \in recipients THEN due[u] \cup {m} ELSE due[u]]
  /\ UNCHANGED <<kept, shown>>

Deliver(m, u) ==
  /\ m \in due[u]
  /\ due' = [due EXCEPT ![u] = @ \ {m}]
  /\ shown' = [shown EXCEPT ![u] = @ \cup {m}]
  /\ UNCHANGED kept

Keep(m, u) ==
  /\ m \in due[u]
  /\ due' = [due EXCEPT ![u] = @ \ {m}]
  /\ kept' = [kept EXCEPT ![u] = @ \cup {m}]
  /\ UNCHANGED shown

\* A login shows everything that has been kept.
Collect(u) ==
  /\ kept' = [kept EXCEPT ![u] = {}]
  /\ shown' = [shown EXCEPT ![u] = @ \cup kept[u]]
  /\ UNCHANGED due

Next ==
  \/ \E m \in Msg : \E recipients \in SUBSET User : Accept(m, recipients)
  \/ \E m \in Msg, u \in User : Deliver(m, u) \/ Keep(m, u)
  \/ \E u \in User : Collect(u)

Spec == Init /\ [][Next]_vars /\ \A m \in Msg, u \in User : WF_vars(Deliver(m, u) \/ Keep(m, u))
=============================================================================
