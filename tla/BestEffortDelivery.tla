------------------------ MODULE BestEffortDelivery ------------------------
(***************************************************************************)
(* What AsyncIngestionBuffer promises its caller, with no queue, workers,  *)
(* retries or waiters in sight: a command handed to it is refused or       *)
(* accepted at once; an accepted command ends delivered or failed, each    *)
(* counted once; and nothing disappears unless the buffer has been closed. *)
(***************************************************************************)
EXTENDS Naturals

VARIABLES
  closed,     \* aclose has been called
  pending,    \* accepted commands with no outcome yet
  delivered,  \* commands the sink confirmed
  failed,     \* commands given up after the last attempt
  dropped,    \* commands refused
  lost        \* accepted commands that shutdown discarded without an outcome

vars == <<closed, pending, delivered, failed, dropped, lost>>

Init ==
  /\ closed = FALSE
  /\ pending = 0 /\ delivered = 0 /\ failed = 0 /\ dropped = 0 /\ lost = 0

Accept ==
  /\ ~closed
  /\ pending' = pending + 1
  /\ UNCHANGED <<closed, delivered, failed, dropped, lost>>

Refuse ==
  /\ dropped' = dropped + 1
  /\ UNCHANGED <<closed, pending, delivered, failed, lost>>

Deliver ==
  /\ pending > 0
  /\ pending' = pending - 1
  /\ delivered' = delivered + 1
  /\ UNCHANGED <<closed, failed, dropped, lost>>

GiveUp ==
  /\ pending > 0
  /\ pending' = pending - 1
  /\ failed' = failed + 1
  /\ UNCHANGED <<closed, delivered, dropped, lost>>

Discard ==
  /\ closed
  /\ pending > 0
  /\ pending' = pending - 1
  /\ lost' = lost + 1
  /\ UNCHANGED <<closed, delivered, failed, dropped>>

Close ==
  /\ closed' = TRUE
  /\ UNCHANGED <<pending, delivered, failed, dropped, lost>>

Next == Accept \/ Refuse \/ Deliver \/ GiveUp \/ Discard \/ Close

Spec == Init /\ [][Next]_vars
=============================================================================
