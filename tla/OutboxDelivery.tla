--------------------------- MODULE OutboxDelivery ---------------------------
(***************************************************************************)
(* What the transactional outbox promises to the code that writes events   *)
(* and to the subscribers that read them, with no relay, lock, retry or    *)
(* stale copy in sight:                                                    *)
(*                                                                         *)
(*   - only an event whose transaction committed is ever delivered;        *)
(*   - an event is closed (PROCESSED) only after a delivery;               *)
(*   - an accepted event is eventually delivered or put in quarantine.     *)
(*                                                                         *)
(* Deliveries may repeat ("at-least-once", domain/events/models.py:4) and  *)
(* a closed event may be opened again.                                     *)
(***************************************************************************)
CONSTANT Events

VARIABLES
  accepted,     \* events whose writing transaction committed
  arrived,      \* events a subscriber has seen at least once
  closed,       \* events the outbox regards as processed
  quarantined   \* events with a row in the dead letter table

deliveryVars == <<accepted, arrived, closed, quarantined>>

DeliveryInit ==
  /\ accepted = {}
  /\ arrived = {}
  /\ closed = {}
  /\ quarantined = {}

\* The transaction that wrote the event commits.
Accept(e) ==
  /\ accepted' = accepted \cup {e}
  /\ UNCHANGED <<arrived, closed, quarantined>>

\* A copy of an accepted event reaches the channel.
Arrive(e) ==
  /\ e \in accepted
  /\ arrived' = arrived \cup {e}
  /\ UNCHANGED <<accepted, closed, quarantined>>

\* A batch of delivered events is closed.
Close(S) ==
  /\ S \subseteq arrived
  /\ closed' = closed \cup S
  /\ UNCHANGED <<accepted, arrived, quarantined>>

\* An accepted event is scheduled for another delivery.
Reopen(e) ==
  /\ e \in accepted
  /\ closed' = closed \ {e}
  /\ UNCHANGED <<accepted, arrived, quarantined>>

\* An accepted event is given up on.
Quarantine(e) ==
  /\ e \in accepted
  /\ closed' = closed \ {e}
  /\ quarantined' = quarantined \cup {e}
  /\ UNCHANGED <<accepted, arrived>>

\* An operator takes an event out of quarantine and opens it again; if
\* another operator was faster, the event may be closed by now and stay so.
Replay(e) ==
  /\ e \in accepted
  /\ quarantined' \in {quarantined, quarantined \ {e}}
  /\ closed' \in {closed, closed \ {e}}
  /\ UNCHANGED <<accepted, arrived>>

DeliveryNext ==
  \/ \E e \in Events :
       Accept(e) \/ Arrive(e) \/ Reopen(e) \/ Quarantine(e) \/ Replay(e)
  \/ \E S \in SUBSET Events : Close(S)

DeliverySpec == DeliveryInit /\ [][DeliveryNext]_deliveryVars

-----------------------------------------------------------------------------
\* The promise of domain/events/models.py:4 as a state predicate: nothing is
\* closed that was not delivered, nothing is delivered that did not commit.
AtLeastOnceBeforeClose ==
  /\ closed \subseteq arrived
  /\ arrived \subseteq accepted

\* The same promise as progress: an event that committed is delivered, or
\* given up on in a place where an operator finds it.
EventuallyDealtWith ==
  \A e \in Events : e \in accepted ~> e \in arrived \cup quarantined
=============================================================================
