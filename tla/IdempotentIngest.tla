-------------------------- MODULE IdempotentIngest --------------------------
(***************************************************************************)
(* What POST /ingest/compression promises: an event, told apart by source, *)
(* event type and event key, takes effect as a whole and once, however     *)
(* often and however concurrently it is posted.                            *)
(***************************************************************************)
EXTENDS Naturals

CONSTANT Events

VARIABLES
  stored,   \* events that are recorded
  effects   \* event -> how many times its rows have been inserted

vars == <<stored, effects>>

Init ==
  /\ stored = {}
  /\ effects = [e \in Events |-> 0]

Store(e) ==
  /\ e \notin stored
  /\ stored' = stored \cup {e}
  /\ effects' = [effects EXCEPT ![e] = @ + 1]

Next == \E e \in Events : Store(e)

Spec == Init /\ [][Next]_vars
=============================================================================
