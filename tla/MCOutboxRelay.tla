---------------------------- MODULE MCOutboxRelay ----------------------------
(* Instances of OutboxRelay for TLC.                                       *)
EXTENDS OutboxRelay, TLC

\* Relays and operators are interchangeable in safety runs.
Interchangeable ==
  Permutations(Relays) \cup Permutations(Operators)
=============================================================================
