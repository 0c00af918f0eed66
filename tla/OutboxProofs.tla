---------------------------- MODULE OutboxProofs ----------------------------
(***************************************************************************)
(* Theorems about OutboxRelay for any number of events, relays, operators  *)
(* and dead letters, and any limits on retries, batches and crashes.       *)
(***************************************************************************)
EXTENDS OutboxRelay, TLAPS

USE OutboxAssumption

\* What every counter of the model does: it stays below its cap.
LEMMA UpToType ==
  ASSUME NEW cap \in Nat, NEW n \in 0..cap
  PROVE  UpTo(n, cap) \in 0..cap
  BY DEF UpTo

\* A counter that was counted up is positive.
LEMMA UpToPositive ==
  ASSUME NEW cap \in Nat \ {0}, NEW n \in 0..cap
  PROVE  UpTo(n, cap) > 0 /\ UpTo(n, cap) >= n /\ (n < cap => UpTo(n, cap) = n + 1)
  BY DEF UpTo

\* A flush mixes two well-formed rows into one.
LEMMA FlushType ==
  ASSUME NEW current \in Row, NEW old \in Row, NEW new \in Row
  PROVE  Flush(current, old, new) \in Row
  BY DEF Flush, Row

LEMMA FreshType == Fresh \in Row
  BY DEF Fresh, Row, Status

\* What a sweep fetches was committed, was waiting and had retries left.
LEMMA BatchEligible ==
  ASSUME NEW e \in Batch
  PROVE  /\ e \in Events
         /\ tx[e] = "committed"
         /\ row[e].status \in {"PENDING", "FAILED"}
         /\ row[e].retries < MaxRetries
  BY DEF Batch, Eligible

-----------------------------------------------------------------------------
(***************************************************************************)
(* The inductive invariant.  A relay's copies of rows go stale, but a copy *)
(* of an event it still has to deal with was taken of a committed, waiting *)
(* row; what it remembers as sent was delivered; and between two sweeps it *)
(* remembers nothing.  That is all mark_batch_processed and record_failure *)
(* rely on.                                                                *)
(***************************************************************************)
CopiesAreWaiting ==
  \A r \in Relays : \A e \in todo[r] :
    /\ tx[e] = "committed"
    /\ seen[r][e].status \in {"PENDING", "FAILED"}
    /\ seen[r][e].retries < MaxRetries

SentWasDelivered ==
  \A r \in Relays : \A e \in sent[r] : delivered[e] > 0

IdleIsEmpty ==
  \A r \in Relays : pc[r] = "idle" => todo[r] = {} /\ sent[r] = {}

LettersAreCommitted ==
  /\ \A d \in letters : tx[d.event] = "committed"
  /\ \A o \in Operators : \A d \in opTodo[o] \cup opItem[o] : tx[d.event] = "committed"

IInv ==
  /\ TypeOK
  /\ CopiesAreWaiting
  /\ SentWasDelivered
  /\ IdleIsEmpty
  /\ LettersAreCommitted
  /\ ProcessedWasDelivered
  /\ LocksBelongToSweeps

-----------------------------------------------------------------------------
\* Every operation of producers, relays and operators keeps the types; only
\* record_failure needs more than the types for it.
LEMMA TypeStep ==
  ASSUME TypeOK, CopiesAreWaiting, [Next]_vars
  PROVE  TypeOK'
<1> USE DEF producerVars, tableVars, relayVars, operatorVars, historyVars
<1>1. ASSUME NEW e \in Events, CreateEvent(e) PROVE TypeOK'
  BY <1>1 DEF TypeOK, CreateEvent
<1>2. ASSUME NEW e \in Events, NEW outcome \in {"committed", "aborted"},
             EndTransaction(e, outcome)
      PROVE  TypeOK'
  BY <1>2 DEF TypeOK, EndTransaction
<1>3. ASSUME NEW r \in Relays, Fetch(r) PROVE TypeOK'
  <2>1. Batch \subseteq Events
    BY DEF Batch, Eligible
  <2>2. [e \in Events |-> IF e \in Batch THEN row[e] ELSE Fresh] \in [Events -> Row]
    BY FreshType DEF TypeOK
  <2>3. [e \in Events |-> IF e \in Batch THEN r ELSE holder[e]]
          \in [Events -> Relays \cup {None}]
    BY DEF TypeOK
  <2>4. QED
    BY <1>3, <2>1, <2>2, <2>3 DEF TypeOK, Fetch
<1>4. ASSUME NEW r \in Relays, NEW e \in Events, PublishOk(r, e) PROVE TypeOK'
  BY <1>4, UpToType, FreshType DEF TypeOK, PublishOk, IsNext
<1>5. ASSUME NEW r \in Relays, NEW e \in Events, NEW arrived \in BOOLEAN,
             PublishFail(r, e, arrived)
      PROVE  TypeOK'
  BY <1>5, UpToType DEF TypeOK, PublishFail, IsNext
<1>6. ASSUME NEW r \in Relays, NEW e \in Events, RecordFailure(r, e) PROVE TypeOK'
  <2> DEFINE count == seen[r][e].retries + 1
             next  == IF count >= MaxRetries THEN "DEAD_LETTER" ELSE "FAILED"
             new   == [status |-> next, retries |-> count]
  <2>1. seen[r][e] \in Row /\ row[e] \in Row
    BY DEF TypeOK
  <2>2. seen[r][e].retries < MaxRetries
    BY <1>6 DEF RecordFailure, IsNext, CopiesAreWaiting
  <2>3. new \in Row
    BY <2>1, <2>2 DEF Row, Status
  <2>4. row' \in [Events -> Row]
    BY <1>6, <2>1, <2>3, FlushType DEF TypeOK, RecordFailure
  <2>5. letters' \subseteq Letter
    BY <1>6 DEF TypeOK, RecordFailure, Letter
  <2>6. QED
    BY <1>6, <2>4, <2>5, FreshType DEF TypeOK, RecordFailure, Unlocked
<1>7. ASSUME NEW r \in Relays, MarkBatch(r) PROVE TypeOK'
  BY <1>7, FreshType DEF TypeOK, MarkBatch, SweepOver, Unlocked, Row, Status
<1>7a. ASSUME NEW r \in Relays, NEW e \in Events, LockRow(r, e) PROVE TypeOK'
  BY <1>7a DEF TypeOK, LockRow
<1>8. ASSUME NEW r \in Relays, EndSweep(r) PROVE TypeOK'
  BY <1>8, FreshType DEF TypeOK, EndSweep, SweepOver, Unlocked
<1>9. ASSUME NEW r \in Relays, CrashSweep(r) \/ DeadlockVictim(r) PROVE TypeOK'
  <2>1. crashes' \in 0..MaxCrashes
    BY <1>9 DEF TypeOK, CrashSweep, DeadlockVictim
  <2>2. Rollback(r)
    BY <1>9 DEF CrashSweep, DeadlockVictim
  <2>3. QED
    BY <2>1, <2>2, FreshType DEF TypeOK, Rollback, SweepOver, Unlocked
<1>10. ASSUME NEW o \in Operators, ListLetters(o) PROVE TypeOK'
  BY <1>10 DEF TypeOK, ListLetters
<1>11. ASSUME NEW o \in Operators, NEW d \in Letter, ReadLetter(o, d) PROVE TypeOK'
  BY <1>11 DEF TypeOK, ReadLetter
<1>12. ASSUME NEW o \in Operators, NEW d \in Letter, LoadEvent(o, d) PROVE TypeOK'
  BY <1>12 DEF TypeOK, LoadEvent, Letter
<1>13. ASSUME NEW o \in Operators, NEW d \in Letter, CommitReplay(o, d) PROVE TypeOK'
  <2>1. d.event \in Events
    BY DEF Letter
  <2>2. Flush(row[d.event], opSeen[o], Fresh) \in Row
    BY <2>1, FreshType, FlushType DEF TypeOK
  <2>3. QED
    BY <1>13, <2>1, <2>2, FreshType DEF TypeOK, CommitReplay
<1>14. ASSUME NEW o \in Operators, EndReplay(o) PROVE TypeOK'
  BY <1>14, FreshType DEF TypeOK, EndReplay
<1>15. CASE UNCHANGED vars
  BY <1>15 DEF TypeOK, vars
<1>16. QED
  BY <1>1, <1>2, <1>3, <1>4, <1>5, <1>6, <1>7, <1>8, <1>9, <1>10, <1>11, <1>12,
     <1>13, <1>14, <1>15, <1>7a
     DEF Next, Produce, SweepStep, Handle, ReplayStep

\* The parts of the invariant other than the types, as one goal.
Rest ==
  /\ CopiesAreWaiting
  /\ SentWasDelivered
  /\ IdleIsEmpty
  /\ LettersAreCommitted
  /\ ProcessedWasDelivered
  /\ LocksBelongToSweeps

\* No operation of producers, relays or operators breaks the other parts.
LEMMA RestStep ==
  ASSUME IInv, TypeOK', [Next]_vars
  PROVE  Rest'
<1> USE DEF IInv, producerVars, tableVars, relayVars, operatorVars, historyVars
<1>1. ASSUME NEW e \in Events, CreateEvent(e) PROVE Rest'
  BY <1>1 DEF CreateEvent, TypeOK, Rest, CopiesAreWaiting, SentWasDelivered, IdleIsEmpty,
                 LettersAreCommitted, ProcessedWasDelivered, LocksBelongToSweeps
<1>2. ASSUME NEW e \in Events, NEW outcome \in {"committed", "aborted"},
             EndTransaction(e, outcome)
      PROVE  Rest'
  BY <1>2 DEF EndTransaction, TypeOK, Rest, CopiesAreWaiting, SentWasDelivered, IdleIsEmpty,
                 LettersAreCommitted, ProcessedWasDelivered, LocksBelongToSweeps
<1>3. ASSUME NEW r \in Relays, Fetch(r) PROVE Rest'
  <2>1. CopiesAreWaiting'
    BY <1>3, BatchEligible DEF Fetch, CopiesAreWaiting, TypeOK
  <2>2. SentWasDelivered'
    BY <1>3 DEF Fetch, SentWasDelivered, TypeOK
  <2>3. IdleIsEmpty'
    BY <1>3 DEF Fetch, IdleIsEmpty, TypeOK
  <2>4. LocksBelongToSweeps'
    BY <1>3 DEF Fetch, LocksBelongToSweeps, TypeOK
  <2>5. QED
    BY <1>3, <2>1, <2>2, <2>3, <2>4 DEF Fetch, Rest, LettersAreCommitted, ProcessedWasDelivered
<1>4. ASSUME NEW r \in Relays, NEW e \in Events, PublishOk(r, e) PROVE Rest'
  <2>1. CopiesAreWaiting'
    BY <1>4 DEF PublishOk, CopiesAreWaiting, TypeOK
  <2>2. SentWasDelivered'
    BY <1>4, UpToPositive DEF PublishOk, SentWasDelivered, TypeOK
  <2>3. IdleIsEmpty'
    BY <1>4 DEF PublishOk, IdleIsEmpty, TypeOK
  <2>4. ProcessedWasDelivered'
    BY <1>4, UpToPositive DEF PublishOk, ProcessedWasDelivered, TypeOK, CopiesAreWaiting, IsNext
  <2>5. LocksBelongToSweeps'
    BY <1>4 DEF PublishOk, LocksBelongToSweeps, TypeOK
  <2>6. QED
    BY <1>4, <2>1, <2>2, <2>3, <2>4, <2>5 DEF PublishOk, Rest, LettersAreCommitted
<1>5. ASSUME NEW r \in Relays, NEW e \in Events, NEW arrived \in BOOLEAN,
             PublishFail(r, e, arrived)
      PROVE  Rest'
  <2>1. CopiesAreWaiting'
    BY <1>5 DEF PublishFail, CopiesAreWaiting, TypeOK
  <2>2. SentWasDelivered'
    BY <1>5, UpToPositive DEF PublishFail, SentWasDelivered, TypeOK
  <2>3. IdleIsEmpty'
    BY <1>5 DEF PublishFail, IdleIsEmpty, TypeOK
  <2>4. ProcessedWasDelivered'
    BY <1>5, UpToPositive DEF PublishFail, ProcessedWasDelivered, TypeOK, CopiesAreWaiting, IsNext
  <2>5. LocksBelongToSweeps'
    BY <1>5 DEF PublishFail, LocksBelongToSweeps, TypeOK
  <2>6. QED
    BY <1>5, <2>1, <2>2, <2>3, <2>4, <2>5 DEF PublishFail, Rest, LettersAreCommitted
<1>6. ASSUME NEW r \in Relays, NEW e \in Events, RecordFailure(r, e) PROVE Rest'
  <2>1. CopiesAreWaiting'
    BY <1>6 DEF RecordFailure, CopiesAreWaiting, TypeOK
  <2>2. SentWasDelivered'
    BY <1>6 DEF RecordFailure, SentWasDelivered, TypeOK
  <2>3. IdleIsEmpty'
    BY <1>6 DEF RecordFailure, IdleIsEmpty, TypeOK
  <2>4. LettersAreCommitted'
    BY <1>6 DEF RecordFailure, LettersAreCommitted, TypeOK, CopiesAreWaiting, IsNext
  <2>5. ProcessedWasDelivered'
    BY <1>6 DEF RecordFailure, ProcessedWasDelivered, TypeOK, Flush
  <2>6. LocksBelongToSweeps'
    BY <1>6 DEF RecordFailure, LocksBelongToSweeps, TypeOK, Unlocked
  <2>7. QED
    BY <1>6, <2>1, <2>2, <2>3, <2>4, <2>5, <2>6 DEF RecordFailure, Rest
<1>7. ASSUME NEW r \in Relays, MarkBatch(r) PROVE Rest'
  <2>1. CopiesAreWaiting'
    BY <1>7 DEF MarkBatch, CopiesAreWaiting, TypeOK, SweepOver
  <2>2. SentWasDelivered'
    BY <1>7 DEF MarkBatch, SentWasDelivered, TypeOK, SweepOver
  <2>3. IdleIsEmpty'
    BY <1>7 DEF MarkBatch, IdleIsEmpty, TypeOK, SweepOver
  <2>4. ProcessedWasDelivered'
    BY <1>7 DEF MarkBatch, ProcessedWasDelivered, TypeOK, SentWasDelivered, Row
  <2>5. LocksBelongToSweeps'
    BY <1>7 DEF MarkBatch, LocksBelongToSweeps, TypeOK, SweepOver, Unlocked
  <2>6. QED
    BY <1>7, <2>1, <2>2, <2>3, <2>4, <2>5 DEF MarkBatch, Rest, LettersAreCommitted, SweepOver
<1>7a. ASSUME NEW r \in Relays, NEW e \in Events, LockRow(r, e) PROVE Rest'
  <2>1. LocksBelongToSweeps'
    BY <1>7a DEF LockRow, Marking, LocksBelongToSweeps, TypeOK
  <2>2. QED
    BY <1>7a, <2>1 DEF LockRow, Rest, CopiesAreWaiting, SentWasDelivered, IdleIsEmpty,
                       LettersAreCommitted, ProcessedWasDelivered
<1>8. ASSUME NEW r \in Relays, EndSweep(r) PROVE Rest'
  BY <1>8 DEF EndSweep, TypeOK, Rest, CopiesAreWaiting, SentWasDelivered, IdleIsEmpty,
                 LettersAreCommitted, ProcessedWasDelivered, LocksBelongToSweeps,
                 SweepOver, Unlocked
<1>9. ASSUME NEW r \in Relays, CrashSweep(r) \/ DeadlockVictim(r) PROVE Rest'
  <2>1. Rollback(r)
    BY <1>9 DEF CrashSweep, DeadlockVictim
  <2>2. QED
    BY <2>1 DEF Rollback, TypeOK, Rest, CopiesAreWaiting, SentWasDelivered, IdleIsEmpty,
                LettersAreCommitted, ProcessedWasDelivered, LocksBelongToSweeps,
                SweepOver, Unlocked
<1>10. ASSUME NEW o \in Operators, ListLetters(o) PROVE Rest'
  BY <1>10 DEF ListLetters, TypeOK, Rest, CopiesAreWaiting, SentWasDelivered, IdleIsEmpty,
                 LettersAreCommitted, ProcessedWasDelivered, LocksBelongToSweeps
<1>11. ASSUME NEW o \in Operators, NEW d \in Letter, ReadLetter(o, d) PROVE Rest'
  BY <1>11 DEF ReadLetter, TypeOK, Rest, CopiesAreWaiting, SentWasDelivered, IdleIsEmpty,
                 LettersAreCommitted, ProcessedWasDelivered, LocksBelongToSweeps
<1>12. ASSUME NEW o \in Operators, NEW d \in Letter, LoadEvent(o, d) PROVE Rest'
  BY <1>12 DEF LoadEvent, TypeOK, Rest, CopiesAreWaiting, SentWasDelivered, IdleIsEmpty,
                 LettersAreCommitted, ProcessedWasDelivered, LocksBelongToSweeps
<1>13. ASSUME NEW o \in Operators, NEW d \in Letter, CommitReplay(o, d) PROVE Rest'
  <2>1. LettersAreCommitted'
    BY <1>13 DEF CommitReplay, LettersAreCommitted, TypeOK
  <2>2. ProcessedWasDelivered'
    BY <1>13 DEF CommitReplay, ProcessedWasDelivered, TypeOK, Flush, Fresh
  <2>3. QED
    BY <1>13, <2>1, <2>2 DEF CommitReplay, Rest, CopiesAreWaiting, SentWasDelivered, IdleIsEmpty, LocksBelongToSweeps
<1>14. ASSUME NEW o \in Operators, EndReplay(o) PROVE Rest'
  BY <1>14 DEF EndReplay, TypeOK, Rest, CopiesAreWaiting, SentWasDelivered, IdleIsEmpty,
                 LettersAreCommitted, ProcessedWasDelivered, LocksBelongToSweeps
<1>15. CASE UNCHANGED vars
  BY <1>15 DEF vars, Rest, CopiesAreWaiting, SentWasDelivered, IdleIsEmpty,
     LettersAreCommitted, ProcessedWasDelivered, LocksBelongToSweeps
<1>16. QED
  BY <1>1, <1>2, <1>3, <1>4, <1>5, <1>6, <1>7, <1>8,
     <1>9, <1>10, <1>11, <1>12, <1>13, <1>14, <1>15, <1>7a
     DEF Next, Produce, SweepStep, Handle, ReplayStep

-----------------------------------------------------------------------------
\* The inductive invariant holds in every reachable state.
LEMMA Inductive == Spec => []IInv
<1>1. Init => IInv
  BY FreshType DEF Init, IInv, TypeOK, CopiesAreWaiting, SentWasDelivered, IdleIsEmpty,
     LettersAreCommitted, ProcessedWasDelivered, LocksBelongToSweeps, Fresh, OutboxAssumption
<1>2. IInv /\ [Next]_vars => IInv'
  BY TypeStep, RestStep DEF IInv, Rest
<1>3. QED
  BY <1>1, <1>2, PTL DEF Spec

\* The variables keep their types through every operation of producers,
\* relays and operators, retry_count included: it never passes MaxRetries.
THEOREM TypeCorrect == Spec => []TypeOK
<1>1. IInv => TypeOK
  BY DEF IInv
<1>2. QED
  BY <1>1, Inductive, PTL

\* At-least-once delivery (domain/events/models.py:4): however many relays and
\* operators race, crash and overwrite each other's columns, a row that says
\* PROCESSED was delivered, and nothing is delivered that did not commit.
THEOREM AtLeastOnce == Spec => []ProcessedWasDelivered
<1>1. IInv => ProcessedWasDelivered
  BY DEF IInv
<1>2. QED
  BY <1>1, Inductive, PTL

\* No sweep, failed or crashed ones included, leaves a row lock behind.
THEOREM NoOrphanedLocks == Spec => []LocksBelongToSweeps
<1>1. IInv => LocksBelongToSweeps
  BY DEF IInv
<1>2. QED
  BY <1>1, Inductive, PTL

-----------------------------------------------------------------------------
(* Refinement of OutboxDelivery                                            *)

\* Every step of the relay protocol is a step of the abstract outbox, or
\* leaves what it speaks of unchanged.
LEMMA DeliveryStep ==
  ASSUME IInv, TypeOK', [Next]_vars
  PROVE  [Delivery!DeliveryNext]_(Delivery!deliveryVars)
<1> USE DEF producerVars, tableVars, relayVars, operatorVars, historyVars
<1> DEFINE Goal == [Delivery!DeliveryNext]_(Delivery!deliveryVars)
<1>1. ASSUME NEW e \in Events, CreateEvent(e) PROVE Goal
  <2>1. { f \in Events : tx'[f] = "committed" } = { f \in Events : tx[f] = "committed" }
    BY <1>1 DEF CreateEvent, IInv, TypeOK
  <2>2. QED
    BY <1>1, <2>1 DEF CreateEvent, Delivery!deliveryVars
<1>2. ASSUME NEW e \in Events, NEW outcome \in {"committed", "aborted"},
             EndTransaction(e, outcome)
      PROVE  Goal
  <2>1. CASE outcome = "committed"
    <3>1. { f \in Events : tx'[f] = "committed" } = { f \in Events : tx[f] = "committed" } \cup {e}
      BY <1>2, <2>1 DEF EndTransaction, IInv, TypeOK
    <3>2. Delivery!Accept(e)
      BY <1>2, <3>1 DEF EndTransaction, Delivery!Accept
    <3>3. QED
      BY <3>2 DEF Delivery!DeliveryNext
  <2>2. CASE outcome = "aborted"
    <3>1. { f \in Events : tx'[f] = "committed" } = { f \in Events : tx[f] = "committed" }
      BY <1>2, <2>2 DEF EndTransaction, IInv, TypeOK
    <3>2. QED
      BY <1>2, <3>1 DEF EndTransaction, Delivery!deliveryVars
  <2>3. QED
    BY <2>1, <2>2
<1>3. ASSUME NEW r \in Relays, Fetch(r) PROVE Goal
  BY <1>3 DEF Fetch, Delivery!deliveryVars
<1>4. ASSUME NEW e \in Events, tx[e] = "committed",
             delivered' = [delivered EXCEPT ![e] = UpTo(@, DeliveryCap)],
             UNCHANGED <<tx, row, letters>>
      PROVE  Goal
  <2>1. { f \in Events : delivered'[f] > 0 } = { f \in Events : delivered[f] > 0 } \cup {e}
    BY <1>4, UpToPositive DEF IInv, TypeOK
  <2>2. Delivery!Arrive(e)
    BY <1>4, <2>1 DEF Delivery!Arrive
  <2>3. QED
    BY <2>2 DEF Delivery!DeliveryNext
<1>5. ASSUME NEW r \in Relays, NEW e \in Events, PublishOk(r, e) PROVE Goal
  <2>1. tx[e] = "committed"
    BY <1>5 DEF PublishOk, IsNext, IInv, CopiesAreWaiting
  <2>2. QED
    BY <1>4, <1>5, <2>1 DEF PublishOk
<1>6. ASSUME NEW r \in Relays, NEW e \in Events, NEW arrived \in BOOLEAN,
             PublishFail(r, e, arrived)
      PROVE  Goal
  <2>1. tx[e] = "committed"
    BY <1>6 DEF PublishFail, IsNext, IInv, CopiesAreWaiting
  <2>2. CASE arrived
    BY <1>4, <1>6, <2>1, <2>2 DEF PublishFail
  <2>3. CASE ~arrived
    BY <1>6, <2>3 DEF PublishFail, Delivery!deliveryVars
  <2>4. QED
    BY <2>2, <2>3
<1>7. ASSUME NEW r \in Relays, NEW e \in Events, RecordFailure(r, e) PROVE Goal
  <2> DEFINE count == seen[r][e].retries + 1
             next  == IF count >= MaxRetries THEN "DEAD_LETTER" ELSE "FAILED"
             Processed     == { f \in Events : row[f].status = "PROCESSED" }
             ProcessedThen == { f \in Events : row'[f].status = "PROCESSED" }
  <2>1. /\ e \in Events
        /\ tx[e] = "committed"
        /\ seen[r][e].status \in {"PENDING", "FAILED"}
    BY <1>7 DEF RecordFailure, IsNext, IInv, CopiesAreWaiting
  <2>2. row' = [row EXCEPT ![e] = Flush(row[e], seen[r][e], [status |-> next, retries |-> count])]
    BY <1>7 DEF RecordFailure
  <2>3. row'[e].status # "PROCESSED" \/ row'[e].status = row[e].status
    BY <2>1, <2>2 DEF Flush, IInv, TypeOK
  <2>4. ProcessedThen = Processed \/ ProcessedThen = Processed \ {e}
    BY <2>2, <2>3 DEF IInv, TypeOK
  <2>5. CASE next = "DEAD_LETTER"
    <3>1. row'[e].status = "DEAD_LETTER"
      BY <2>1, <2>2, <2>5 DEF Flush, IInv, TypeOK
    <3>2. ProcessedThen = Processed \ {e}
      BY <2>2, <3>1 DEF IInv, TypeOK
    <3>3. PICK id \in LetterIds : letters' = letters \cup {[id |-> id, event |-> e]}
      BY <1>7, <2>5 DEF RecordFailure
    <3>4. { d.event : d \in letters' } = { d.event : d \in letters } \cup {e}
      <4> DEFINE letter == [id |-> id, event |-> e]
      <4>1. letters' = letters \cup {letter} /\ letter.event = e
        BY <3>3
      <4> HIDE DEF letter
      <4>2. QED
        BY <4>1
    <3>5. Delivery!Quarantine(e)
      BY <1>7, <2>1, <3>2, <3>4 DEF RecordFailure, Delivery!Quarantine
    <3>6. QED
      BY <3>5 DEF Delivery!DeliveryNext
  <2>6. CASE next # "DEAD_LETTER"
    <3>1. letters' = letters
      BY <1>7, <2>6 DEF RecordFailure
    <3>2. CASE ProcessedThen = Processed
      BY <1>7, <3>1, <3>2 DEF RecordFailure, Delivery!deliveryVars
    <3>3. CASE ProcessedThen = Processed \ {e}
      <4>1. Delivery!Reopen(e)
        BY <1>7, <2>1, <3>1, <3>3 DEF RecordFailure, Delivery!Reopen
      <4>2. QED
        BY <4>1 DEF Delivery!DeliveryNext
    <3>4. QED
      BY <2>4, <3>2, <3>3
  <2>7. QED
    BY <2>5, <2>6
<1>8. ASSUME NEW r \in Relays, MarkBatch(r) PROVE Goal
  <2>1. { f \in Events : row'[f].status = "PROCESSED" }
          = { f \in Events : row[f].status = "PROCESSED" } \cup sent[r]
    BY <1>8 DEF MarkBatch, IInv, TypeOK, Row
  <2>2. sent[r] \subseteq { f \in Events : delivered[f] > 0 }
    BY DEF IInv, SentWasDelivered, TypeOK
  <2>3. Delivery!Close(sent[r])
    BY <1>8, <2>1, <2>2 DEF MarkBatch, Delivery!Close
  <2>4. sent[r] \in SUBSET Events
    BY DEF IInv, TypeOK
  <2>5. \E S \in SUBSET Events : Delivery!Close(S)
    BY <2>3, <2>4, Zenon DEF Delivery!Close
  <2>6. QED
    BY <2>5 DEF Delivery!DeliveryNext
<1>9. ASSUME NEW r \in Relays, EndSweep(r) PROVE Goal
  BY <1>9 DEF EndSweep, Delivery!deliveryVars
<1>10. ASSUME NEW r \in Relays, CrashSweep(r) \/ DeadlockVictim(r) PROVE Goal
  BY <1>10 DEF CrashSweep, DeadlockVictim, Rollback, Delivery!deliveryVars
<1>10a. ASSUME NEW r \in Relays, NEW e \in Events, LockRow(r, e) PROVE Goal
  BY <1>10a DEF LockRow, Delivery!deliveryVars
<1>11. ASSUME NEW o \in Operators, NEW d \in Letter,
              \/ ListLetters(o) \/ ReadLetter(o, d) \/ LoadEvent(o, d) \/ EndReplay(o)
       PROVE  Goal
  BY <1>11 DEF ListLetters, ReadLetter, LoadEvent, EndReplay, Delivery!deliveryVars
<1>12. ASSUME NEW o \in Operators, ListLetters(o) \/ EndReplay(o) PROVE Goal
  BY <1>12 DEF ListLetters, EndReplay, Delivery!deliveryVars
<1>13. ASSUME NEW o \in Operators, NEW d \in Letter, CommitReplay(o, d) PROVE Goal
  <2> DEFINE Processed     == { f \in Events : row[f].status = "PROCESSED" }
             ProcessedThen == { f \in Events : row'[f].status = "PROCESSED" }
             Kept          == { x.event : x \in letters }
             KeptThen      == { x.event : x \in letters' }
  <2>1. d.event \in Events /\ tx[d.event] = "committed"
    BY <1>13 DEF CommitReplay, IInv, LettersAreCommitted, Letter
  <2>2. row' = [row EXCEPT ![d.event] = Flush(row[d.event], opSeen[o], Fresh)]
    BY <1>13 DEF CommitReplay
  <2>3. row'[d.event].status # "PROCESSED" \/ row'[d.event].status = row[d.event].status
    BY <2>1, <2>2 DEF Flush, Fresh, IInv, TypeOK
  <2>4. ProcessedThen \in {Processed, Processed \ {d.event}}
    BY <2>1, <2>2, <2>3 DEF IInv, TypeOK
  <2>5. KeptThen \in {Kept, Kept \ {d.event}}
    <3>1. letters' = letters \ {d}
      BY <1>13 DEF CommitReplay
    <3>2. KeptThen \subseteq Kept /\ Kept \ {d.event} \subseteq KeptThen
      BY <3>1
    <3>3. QED
      BY <3>2
  <2>6. Delivery!Replay(d.event)
    BY <1>13, <2>1, <2>4, <2>5 DEF CommitReplay, Delivery!Replay
  <2>7. QED
    BY <2>1, <2>6 DEF Delivery!DeliveryNext
<1>14. CASE UNCHANGED vars
  BY <1>14 DEF vars, Delivery!deliveryVars
<1>15. QED
  BY <1>1, <1>2, <1>3, <1>5, <1>6, <1>7, <1>8, <1>9, <1>10, <1>11, <1>12, <1>13, <1>14, <1>10a
     DEF Next, Produce, SweepStep, Handle, ReplayStep

\* The relays and operators of relay.py implement the abstract outbox.
THEOREM Refinement == Spec => ImplementsDelivery
<1>1. Init => Delivery!DeliveryInit
  BY DEF Init, Delivery!DeliveryInit, Fresh
<1>2. IInv /\ IInv' /\ [Next]_vars => [Delivery!DeliveryNext]_(Delivery!deliveryVars)
  BY DeliveryStep DEF IInv
<1>3. QED
  BY <1>1, <1>2, Inductive, PTL DEF Spec, ImplementsDelivery, Delivery!DeliverySpec

\* What the abstract outbox promises, domain/events/models.py:4, of the code's
\* tables and channel: nothing is closed that did not arrive, and nothing arrives
\* that was not accepted.  It follows from the abstract steps alone.
THEOREM PromiseKept == Spec => []Delivery!AtLeastOnceBeforeClose
<1>1. Delivery!DeliveryInit => Delivery!AtLeastOnceBeforeClose
  BY DEF Delivery!DeliveryInit, Delivery!AtLeastOnceBeforeClose
<1>2. Delivery!AtLeastOnceBeforeClose /\ [Delivery!DeliveryNext]_(Delivery!deliveryVars)
        => Delivery!AtLeastOnceBeforeClose'
  BY DEF Delivery!DeliveryNext, Delivery!deliveryVars, Delivery!AtLeastOnceBeforeClose,
         Delivery!Accept, Delivery!Arrive, Delivery!Close, Delivery!Reopen,
         Delivery!Quarantine, Delivery!Replay
<1>3. QED
  BY <1>1, <1>2, Refinement, PTL DEF ImplementsDelivery, Delivery!DeliverySpec

-----------------------------------------------------------------------------
(***************************************************************************)
(* One relay and one operator: the worker's cron and somebody at the       *)
(* command line.  Their copies of rows never go stale: what the relay has  *)
(* in hand waits and has no dead letter, what the operator replays is      *)
(* quarantined, and neither touches the other's rows.  The second relay    *)
(* (the daemon) or a second operator breaks every part of this.            *)
(***************************************************************************)
Alone ==
  /\ \A r, s \in Relays : r = s
  /\ \A o, p \in Operators : o = p

InHandIsCurrent ==
  \A r \in Relays :
    /\ todo[r] \cap sent[r] = {}
    /\ \A e \in todo[r] \cup sent[r] : row[e].status \in {"PENDING", "FAILED"}
    /\ \A e \in todo[r] : seen[r][e] = row[e]

ReplaysAreCurrent ==
  \A o \in Operators :
    /\ opItem[o] \subseteq letters
    /\ \A c, d \in opItem[o] : c = d
    /\ opc[o] = "loaded" => \A d \in opItem[o] : opSeen[o] = row[d.event]

\* LettersMatchStatus without the set of events it compares.
LettersAreExact ==
  /\ \A d \in letters : row[d.event].status = "DEAD_LETTER"
  /\ \A e \in Events : row[e].status = "DEAD_LETTER" => \E d \in letters : d.event = e
  /\ \A c, d \in letters : c.event = d.event => c = d

FirstDeliveryIsKnown ==
  \A e \in Events :
    delivered[e] > 0 /\ e \notin doubted =>
      row[e].status = "PROCESSED" \/ \E r \in Relays : e \in sent[r]

SoleInv ==
  /\ InHandIsCurrent
  /\ ReplaysAreCurrent
  /\ LettersAreExact
  /\ FirstDeliveryIsKnown
  /\ DuplicatesAreDoubted

LEMMA LettersExactly ==
  ASSUME TypeOK
  PROVE  LettersMatchStatus <=> LettersAreExact
<1> DEFINE named == { d.event : d \in letters }
           dead  == { e \in Events : row[e].status = "DEAD_LETTER" }
<1>1. \A d \in letters : d.event \in Events
  BY DEF TypeOK, Letter
<1>2. named \subseteq dead <=> \A d \in letters : row[d.event].status = "DEAD_LETTER"
  BY <1>1
<1>3. dead \subseteq named <=>
        \A e \in Events : row[e].status = "DEAD_LETTER" => \E d \in letters : d.event = e
  BY <1>1
<1>4. QED
  BY <1>2, <1>3 DEF LettersMatchStatus, LettersAreExact

\* What record_failure writes when its copy is the row itself.
LEMMA SoleFailureRow ==
  ASSUME IInv, SoleInv, NEW r \in Relays, NEW e \in Events, RecordFailure(r, e)
  PROVE  /\ e \in todo[r]
         /\ row[e].status \in {"PENDING", "FAILED"}
         /\ row' = [row EXCEPT ![e] = row'[e]]
         /\ row'[e].retries = row[e].retries + 1
         /\ \/ /\ row'[e].status = "DEAD_LETTER"
               /\ \E id \in LetterIds : letters' = letters \cup {[id |-> id, event |-> e]}
               /\ row'[e].retries >= MaxRetries
            \/ /\ row'[e].status = "FAILED"
               /\ letters' = letters
               /\ row'[e].retries < MaxRetries
<1> DEFINE count == seen[r][e].retries + 1
           next  == IF count >= MaxRetries THEN "DEAD_LETTER" ELSE "FAILED"
           new   == [status |-> next, retries |-> count]
<1>1. e \in todo[r] /\ seen[r][e] = row[e] /\ row[e].status \in {"PENDING", "FAILED"}
  BY DEF RecordFailure, IsNext, SoleInv, InHandIsCurrent
<1>2. row[e].retries \in 0..MaxRetries /\ row \in [Events -> Row]
  BY DEF IInv, TypeOK, Row
<1>3. row' = [row EXCEPT ![e] = Flush(row[e], row[e], new)]
  BY <1>1 DEF RecordFailure
<1>4. Flush(row[e], row[e], new).status = next /\ Flush(row[e], row[e], new).retries = count
  BY <1>1 DEF Flush
<1>5. row'[e] = Flush(row[e], row[e], new)
  BY <1>2, <1>3
<1>6. row' = [row EXCEPT ![e] = row'[e]]
  BY <1>3, <1>5
<1>7. CASE count >= MaxRetries
  <2>1. \E id \in LetterIds : letters' = letters \cup {[id |-> id, event |-> e]}
    BY <1>7 DEF RecordFailure
  <2>2. QED
    BY <1>1, <1>4, <1>5, <1>6, <1>7, <2>1
<1>8. CASE ~(count >= MaxRetries)
  <2>1. letters' = letters
    BY <1>8 DEF RecordFailure
  <2>2. count < MaxRetries
    BY <1>1, <1>2, <1>8
  <2>3. QED
    BY <1>1, <1>4, <1>5, <1>6, <1>8, <2>1, <2>2
<1>9. QED
  BY <1>7, <1>8

\* What a replay writes when its copy is the row itself: the event starts
\* afresh, and its dead letter is gone.
LEMMA SoleReplayRow ==
  ASSUME IInv, SoleInv, NEW o \in Operators, NEW d \in Letter, CommitReplay(o, d)
  PROVE  /\ d \in letters
         /\ d.event \in Events
         /\ row[d.event].status = "DEAD_LETTER"
         /\ row' = [row EXCEPT ![d.event] = Fresh]
<1>1. d \in letters /\ opSeen[o] = row[d.event]
  BY DEF CommitReplay, SoleInv, ReplaysAreCurrent
<1>2. d.event \in Events /\ row[d.event].status = "DEAD_LETTER"
  BY <1>1 DEF SoleInv, LettersAreExact, Letter
<1>3. Flush(row[d.event], row[d.event], Fresh) = Fresh
  <2>1. row[d.event] \in Row
    BY <1>2 DEF IInv, TypeOK
  <2>2. QED
    BY <2>1 DEF Flush, Fresh, Row
<1>4. QED
  BY <1>1, <1>2, <1>3 DEF CommitReplay

\* No operation of the only relay or the only operator breaks this.
LEMMA SoleStep ==
  ASSUME Alone, IInv, SoleInv, TypeOK', [Next]_vars
  PROVE  SoleInv'
<1> USE DEF producerVars, tableVars, relayVars, operatorVars, historyVars
<1>1. ASSUME NEW e \in Events, Produce(e) PROVE SoleInv'
  BY <1>1 DEF Produce, CreateEvent, EndTransaction, SoleInv, InHandIsCurrent, ReplaysAreCurrent,
              LettersAreExact, FirstDeliveryIsKnown, DuplicatesAreDoubted
<1>2. ASSUME NEW r \in Relays, Fetch(r) PROVE SoleInv'
  <2>1. sent[r] = {} /\ sent' = sent
    BY <1>2 DEF Fetch, IInv, IdleIsEmpty
  <2>2. todo'[r] = Batch /\ \A e \in Batch : seen'[r][e] = row[e]
    BY <1>2, BatchEligible DEF Fetch, IInv, TypeOK
  <2>3. InHandIsCurrent'
    BY <1>2, <2>1, <2>2, BatchEligible DEF Fetch, Alone, InHandIsCurrent
  <2>4. QED
    BY <1>2, <2>1, <2>3 DEF Fetch, SoleInv, ReplaysAreCurrent, LettersAreExact,
                            FirstDeliveryIsKnown, DuplicatesAreDoubted
<1>3. ASSUME NEW r \in Relays, NEW e \in Events, PublishOk(r, e) PROVE SoleInv'
  <2>1. /\ e \in todo[r] /\ e \notin sent[r]
        /\ row[e].status \in {"PENDING", "FAILED"}
    BY <1>3 DEF PublishOk, IsNext, SoleInv, InHandIsCurrent
  <2>2. delivered[e] = 0 \/ e \in doubted
    <3>1. \A s \in Relays : e \notin sent[s]
      BY <2>1 DEF Alone
    <3>2. delivered[e] \in 0..DeliveryCap /\ ~(delivered[e] > 0 /\ e \notin doubted)
      BY <2>1, <3>1 DEF SoleInv, FirstDeliveryIsKnown, IInv, TypeOK
    <3>3. QED
      BY <3>2
  <2>3. todo'[r] = todo[r] \ {e} /\ sent'[r] = sent[r] \cup {e}
    BY <1>3 DEF PublishOk, IInv, TypeOK
  <2>4. InHandIsCurrent'
    BY <1>3, <2>1, <2>3 DEF PublishOk, Alone, SoleInv, InHandIsCurrent
  <2>5. FirstDeliveryIsKnown'
    BY <1>3, <2>3 DEF PublishOk, Alone, SoleInv, FirstDeliveryIsKnown, IInv, TypeOK
  <2>6. delivered'[e] > 1 => e \in doubted
    BY <1>3, <2>2 DEF PublishOk, UpTo, IInv, TypeOK
  <2>7. DuplicatesAreDoubted'
    BY <1>3, <2>6 DEF PublishOk, SoleInv, DuplicatesAreDoubted, IInv, TypeOK
  <2>8. QED
    BY <1>3, <2>4, <2>5, <2>7 DEF PublishOk, SoleInv, ReplaysAreCurrent, LettersAreExact
<1>4. ASSUME NEW r \in Relays, NEW e \in Events, NEW arrived \in BOOLEAN,
             PublishFail(r, e, arrived)
      PROVE  SoleInv'
  <2>1. CASE arrived
    BY <1>4, <2>1 DEF PublishFail, SoleInv, InHandIsCurrent, ReplaysAreCurrent,
                      LettersAreExact, FirstDeliveryIsKnown, DuplicatesAreDoubted, IInv, TypeOK
  <2>2. CASE ~arrived
    BY <1>4, <2>2 DEF PublishFail, SoleInv, InHandIsCurrent, ReplaysAreCurrent,
                      LettersAreExact, FirstDeliveryIsKnown, DuplicatesAreDoubted
  <2>3. QED
    BY <2>1, <2>2
<1>5. ASSUME NEW r \in Relays, NEW e \in Events, RecordFailure(r, e) PROVE SoleInv'
  <2>1. /\ e \in todo[r] /\ e \notin sent[r]
        /\ row[e].status \in {"PENDING", "FAILED"}
        /\ row' = [row EXCEPT ![e] = row'[e]]
        /\ row'[e].status \in {"DEAD_LETTER", "FAILED"}
    BY <1>5, SoleFailureRow DEF SoleInv, InHandIsCurrent
  <2>2. \A f \in Events : f # e => row'[f] = row[f]
    BY <2>1 DEF IInv, TypeOK
  <2>3. /\ todo' = [todo EXCEPT ![r] = todo[r] \ {e}]
        /\ sent' = sent
        /\ \A f \in Events \ {e} : seen'[r][f] = seen[r][f]
    BY <1>5 DEF RecordFailure, IInv, TypeOK
  <2>4. InHandIsCurrent'
    <3>1. todo'[r] = todo[r] \ {e}
      BY <2>3 DEF IInv, TypeOK
    <3>2. \A f \in todo'[r] \cup sent'[r] : f # e /\ f \in Events /\ f \in todo[r] \cup sent[r]
      BY <2>1, <2>3, <3>1 DEF IInv, TypeOK
    <3>3. QED
      <4>1. /\ todo[r] \cap sent[r] = {}
            /\ \A f \in todo[r] \cup sent[r] : row[f].status \in {"PENDING", "FAILED"}
            /\ \A f \in todo[r] : seen[r][f] = row[f]
        BY DEF SoleInv, InHandIsCurrent
      <4>2. /\ todo'[r] \cap sent'[r] = {}
            /\ \A f \in todo'[r] \cup sent'[r] : row'[f].status \in {"PENDING", "FAILED"}
            /\ \A f \in todo'[r] : seen'[r][f] = row'[f]
        BY <2>2, <2>3, <3>1, <3>2, <4>1
      <4>3. \A s \in Relays : s = r
        BY DEF Alone
      <4>4. QED
        BY <4>2, <4>3 DEF InHandIsCurrent
  <2>5. \A d \in letters : d \in Letter /\ d.event \in Events /\ d.event # e
    BY <2>1 DEF SoleInv, LettersAreExact, IInv, TypeOK, Letter
  <2>6. letters \subseteq letters'
    BY <1>5, SoleFailureRow
  <2>7. ReplaysAreCurrent'
    BY <1>5, <2>2, <2>5, <2>6 DEF RecordFailure, SoleInv, ReplaysAreCurrent
  <2>8. LettersAreExact'
    <3>1. CASE row'[e].status = "FAILED"
      <4>1. letters' = letters
        BY <1>5, <3>1, SoleFailureRow
      <4>2. QED
        BY <2>2, <2>5, <3>1, <4>1 DEF SoleInv, LettersAreExact
    <3>2. CASE row'[e].status = "DEAD_LETTER"
      <4>1. PICK id \in LetterIds : letters' = letters \cup {[id |-> id, event |-> e]}
        BY <1>5, <3>2, SoleFailureRow
      <4>2. \A d \in letters' : d \in letters \/ d.event = e
        BY <4>1
      <4>3. \A c, d \in letters' : c.event = d.event => c = d
        BY <2>5, <4>1 DEF SoleInv, LettersAreExact
      <4>4. \A f \in Events : row'[f].status = "DEAD_LETTER" => \E d \in letters' : d.event = f
        <5>1. [id |-> id, event |-> e] \in letters' /\ [id |-> id, event |-> e].event = e
          BY <4>1
        <5>2. \A f \in Events : f # e /\ row'[f].status = "DEAD_LETTER" => \E d \in letters : d.event = f
          BY <2>2 DEF SoleInv, LettersAreExact
        <5>3. QED
          BY <2>6, <5>1, <5>2
      <4>5. \A d \in letters' : row'[d.event].status = "DEAD_LETTER"
        BY <2>2, <2>5, <3>2, <4>2 DEF SoleInv, LettersAreExact
      <4>6. QED
        BY <4>3, <4>4, <4>5 DEF LettersAreExact
    <3>3. QED
      BY <2>1, <3>1, <3>2
  <2>9. \A f \in Events : row[f].status = "PROCESSED" => row'[f].status = "PROCESSED"
    BY <2>1, <2>2
  <2>10. FirstDeliveryIsKnown'
    BY <1>5, <2>9 DEF RecordFailure, SoleInv, FirstDeliveryIsKnown
  <2>11. QED
    BY <1>5, <2>4, <2>7, <2>8, <2>10 DEF RecordFailure, SoleInv, DuplicatesAreDoubted
<1>6. ASSUME NEW r \in Relays, MarkBatch(r) PROVE SoleInv'
  <2>1. /\ \A e \in sent[r] : e \in Events /\ row'[e].status = "PROCESSED"
        /\ \A e \in Events : e \notin sent[r] => row'[e] = row[e]
    BY <1>6 DEF MarkBatch, IInv, TypeOK, Row
  <2>2. \A e \in sent[r] : row[e].status # "DEAD_LETTER"
    BY DEF SoleInv, InHandIsCurrent
  <2>3. todo'[r] = {} /\ sent'[r] = {}
    BY <1>6 DEF MarkBatch, SweepOver, IInv, TypeOK
  <2>4. InHandIsCurrent'
    BY <2>3 DEF Alone, InHandIsCurrent
  <2>5. \A e \in Events : /\ row[e].status = "DEAD_LETTER" => row'[e] = row[e]
                          /\ row'[e].status = "DEAD_LETTER" => row[e].status = "DEAD_LETTER"
    BY <2>1, <2>2
  <2>6. \A d \in letters : d.event \in Events
    BY DEF IInv, TypeOK, Letter
  <2>7. ReplaysAreCurrent'
    <3>1. \A d \in letters : row'[d.event] = row[d.event]
      BY <2>5, <2>6 DEF SoleInv, LettersAreExact
    <3>2. letters' = letters /\ opItem' = opItem /\ opc' = opc /\ opSeen' = opSeen
      BY <1>6 DEF MarkBatch
    <3>3. QED
      BY <3>1, <3>2 DEF SoleInv, ReplaysAreCurrent
  <2>8. LettersAreExact'
    BY <1>6, <2>5, <2>6 DEF MarkBatch, SoleInv, LettersAreExact
  <2>9. FirstDeliveryIsKnown'
    BY <1>6, <2>1 DEF MarkBatch, Alone, SoleInv, FirstDeliveryIsKnown
  <2>10. QED
    BY <1>6, <2>4, <2>7, <2>8, <2>9 DEF MarkBatch, SoleInv, DuplicatesAreDoubted
<1>6a. ASSUME NEW r \in Relays, NEW e \in Events, LockRow(r, e) PROVE SoleInv'
  <2>1. UNCHANGED <<row, letters, todo, sent, seen, opc, opItem, opSeen, delivered, doubted>>
    BY <1>6a DEF LockRow
  <2>2. QED
    BY <2>1 DEF SoleInv, InHandIsCurrent, ReplaysAreCurrent,
                LettersAreExact, FirstDeliveryIsKnown, DuplicatesAreDoubted
<1>7. ASSUME NEW r \in Relays, EndSweep(r) \/ CrashSweep(r) \/ DeadlockVictim(r) PROVE SoleInv'
  <2>1. todo'[r] = {} /\ sent'[r] = {} /\ sent[r] \subseteq doubted' /\ doubted \subseteq doubted'
    BY <1>7 DEF EndSweep, CrashSweep, DeadlockVictim, Rollback, SweepOver, IInv, TypeOK
  <2>2. InHandIsCurrent'
    BY <2>1 DEF Alone, InHandIsCurrent
  <2>3. FirstDeliveryIsKnown' /\ DuplicatesAreDoubted'
    BY <1>7, <2>1 DEF EndSweep, CrashSweep, DeadlockVictim, Rollback, Alone, SoleInv, FirstDeliveryIsKnown, DuplicatesAreDoubted
  <2>4. QED
    BY <1>7, <2>2, <2>3 DEF EndSweep, CrashSweep, DeadlockVictim, Rollback, SweepOver, SoleInv, ReplaysAreCurrent, LettersAreExact
<1>8. ASSUME NEW o \in Operators, ListLetters(o) \/ EndReplay(o) PROVE SoleInv'
  BY <1>8 DEF ListLetters, EndReplay, Alone, SoleInv, InHandIsCurrent, ReplaysAreCurrent,
              LettersAreExact, FirstDeliveryIsKnown, DuplicatesAreDoubted, IInv, TypeOK
<1>9. ASSUME NEW o \in Operators, NEW d \in Letter, ReadLetter(o, d) PROVE SoleInv'
  <2>1. ReplaysAreCurrent'
    BY <1>9 DEF ReadLetter, Alone, SoleInv, ReplaysAreCurrent, IInv, TypeOK
  <2>2. QED
    BY <1>9, <2>1 DEF ReadLetter, SoleInv, InHandIsCurrent, LettersAreExact,
                      FirstDeliveryIsKnown, DuplicatesAreDoubted
<1>10. ASSUME NEW o \in Operators, NEW d \in Letter, LoadEvent(o, d) PROVE SoleInv'
  <2>1. ReplaysAreCurrent'
    BY <1>10 DEF LoadEvent, Alone, SoleInv, ReplaysAreCurrent, IInv, TypeOK
  <2>2. QED
    BY <1>10, <2>1 DEF LoadEvent, SoleInv, InHandIsCurrent, LettersAreExact,
                       FirstDeliveryIsKnown, DuplicatesAreDoubted
<1>11. ASSUME NEW o \in Operators, NEW d \in Letter, CommitReplay(o, d) PROVE SoleInv'
  <2>1. /\ d \in letters /\ d.event \in Events
        /\ row[d.event].status = "DEAD_LETTER"
        /\ row' = [row EXCEPT ![d.event] = Fresh]
        /\ letters' = letters \ {d}
    BY <1>11, SoleReplayRow DEF CommitReplay
  <2>2. /\ \A f \in Events : f # d.event => row'[f] = row[f]
        /\ row'[d.event].status = "PENDING"
    BY <2>1 DEF IInv, TypeOK, Fresh
  <2>3. \A r \in Relays : \A e \in todo[r] \cup sent[r] : e # d.event /\ e \in Events
    BY <2>1 DEF SoleInv, InHandIsCurrent, IInv, TypeOK
  <2>4. InHandIsCurrent'
    BY <1>11, <2>2, <2>3 DEF CommitReplay, SoleInv, InHandIsCurrent
  <2>5. opItem'[o] = {}
    BY <1>11 DEF CommitReplay, IInv, TypeOK
  <2>6. ReplaysAreCurrent'
    BY <2>5 DEF Alone, ReplaysAreCurrent
  <2>7. \A c \in letters' : c \in letters /\ c.event \in Events /\ c.event # d.event
    BY <2>1 DEF SoleInv, LettersAreExact, IInv, TypeOK, Letter
  <2>8. LettersAreExact'
    BY <2>1, <2>2, <2>7 DEF SoleInv, LettersAreExact
  <2>9. FirstDeliveryIsKnown'
    BY <1>11, <2>1, <2>2 DEF CommitReplay, SoleInv, FirstDeliveryIsKnown
  <2>10. QED
    BY <1>11, <2>4, <2>6, <2>8, <2>9 DEF CommitReplay, SoleInv, DuplicatesAreDoubted
<1>12. CASE UNCHANGED vars
  BY <1>12 DEF vars, SoleInv, InHandIsCurrent, ReplaysAreCurrent,
               LettersAreExact, FirstDeliveryIsKnown, DuplicatesAreDoubted
<1>13. QED
  BY <1>1, <1>2, <1>3, <1>4, <1>5, <1>6, <1>7, <1>8, <1>9, <1>10, <1>11, <1>12, <1>6a
     DEF Next, SweepStep, Handle, ReplayStep

\* Copies of rows stay current for a relay and an operator that are alone.
LEMMA SoleInductive == ASSUME Alone PROVE Spec => []SoleInv
<1>1. Init => SoleInv
  BY OutboxAssumption DEF Init, SoleInv, InHandIsCurrent, ReplaysAreCurrent, LettersAreExact,
     FirstDeliveryIsKnown, DuplicatesAreDoubted, Fresh
<1>2. IInv /\ IInv' /\ SoleInv /\ [Next]_vars => SoleInv'
  BY SoleStep DEF IInv
<1>3. QED
  BY <1>1, <1>2, Inductive, PTL DEF Spec

\* The dead letter table and the status column agree, and no event has two dead
\* letters, through every failure, replay, crash and interrupted replay.
THEOREM DeadLettersAgree == ASSUME Alone PROVE Spec => []LettersMatchStatus
<1>1. IInv /\ SoleInv => LettersMatchStatus
  BY LettersExactly DEF IInv, SoleInv
<1>2. QED
  BY <1>1, Inductive, SoleInductive, PTL

\* Retries and replays alone never deliver an event twice: only a sweep that died
\* after publishing, or an answer that got lost, does.
THEOREM NoDuplicateWithoutDoubt == ASSUME Alone PROVE Spec => []DuplicatesAreDoubted
<1>1. SoleInv => DuplicatesAreDoubted
  BY DEF SoleInv
<1>2. QED
  BY <1>1, SoleInductive, PTL

\* No failure record and no replay takes PROCESSED back.
LEMMA ProcessedStays ==
  ASSUME Alone, IInv, SoleInv, [Next]_vars
  PROVE  [\A e \in Events : row[e].status = "PROCESSED" => row'[e].status = "PROCESSED"]_vars
<1> DEFINE Kept == \A e \in Events : row[e].status = "PROCESSED" => row'[e].status = "PROCESSED"
<1> SUFFICES Kept \/ UNCHANGED vars
  OBVIOUS
<1> USE DEF producerVars, tableVars, relayVars, operatorVars, historyVars
<1>1. ASSUME row' = row PROVE Kept
  BY <1>1
<1>2. ASSUME NEW r \in Relays, NEW e \in Events, RecordFailure(r, e) PROVE Kept
  <2>1. row[e].status # "PROCESSED" /\ row' = [row EXCEPT ![e] = row'[e]]
    BY <1>2, SoleFailureRow
  <2>2. QED
    BY <2>1 DEF IInv, TypeOK
<1>3. ASSUME NEW r \in Relays, MarkBatch(r) PROVE Kept
  BY <1>3 DEF MarkBatch, IInv, TypeOK, Row
<1>4. ASSUME NEW o \in Operators, NEW d \in Letter, CommitReplay(o, d) PROVE Kept
  <2>1. row[d.event].status # "PROCESSED" /\ row' = [row EXCEPT ![d.event] = Fresh]
    BY <1>4, SoleReplayRow
  <2>2. QED
    BY <2>1 DEF IInv, TypeOK
<1>5. QED
  BY <1>1, <1>2, <1>3, <1>4
     DEF Next, Produce, CreateEvent, EndTransaction, SweepStep, Fetch, Handle, PublishOk,
         PublishFail, LockRow, EndSweep, CrashSweep, DeadlockVictim, Rollback, ReplayStep,
         ListLetters, ReadLetter, LoadEvent, EndReplay

\* PROCESSED is the end of an event's life.
THEOREM ProcessedForGood == ASSUME Alone PROVE Spec => ProcessedIsFinal
<1>1. IInv /\ SoleInv /\ [Next]_vars =>
        [\A e \in Events : row[e].status = "PROCESSED" => row'[e].status = "PROCESSED"]_vars
  BY ProcessedStays
<1>2. QED
  BY <1>1, Inductive, SoleInductive, PTL DEF Spec, ProcessedIsFinal

-----------------------------------------------------------------------------
(* Retry accounting, of many relays while nobody replays dead letters, or  *)
(* of one relay and one operator                                           *)

\* A copy never counts more failures than happened, and one fewer while the
\* failure of its event is waiting to be recorded.
CopiesCountFailures ==
  \A r \in Relays : \A e \in todo[r] :
    /\ seen[r][e].retries <= failures[e]
    /\ pc[r] = "failing" /\ IsNext(e, todo[r]) => seen[r][e].retries < failures[e]

Accounts == CopiesCountFailures /\ QuarantinedAfterRetries /\ NeverStranded

\* Relays that overwrite each other's counters keep the accounts, and so does a
\* replay that races with one relay only.
LEMMA AccountsStep ==
  ASSUME Operators = {} \/ (Alone /\ SoleInv), IInv, Accounts, TypeOK', [Next]_vars
  PROVE  Accounts'
<1> USE DEF IInv, Accounts, producerVars, tableVars, relayVars, operatorVars, historyVars
<1>1. ASSUME NEW e \in Events, Produce(e) PROVE Accounts'
  BY <1>1 DEF Produce, CreateEvent, EndTransaction, CopiesCountFailures,
              QuarantinedAfterRetries, NeverStranded
<1>2. ASSUME NEW r \in Relays, Fetch(r) PROVE Accounts'
  <2>1. CopiesCountFailures'
    BY <1>2, BatchEligible
       DEF Fetch, CopiesCountFailures, QuarantinedAfterRetries, TypeOK, IsNext
  <2>2. QED
    BY <1>2, <2>1 DEF Fetch, QuarantinedAfterRetries, NeverStranded
<1>3. ASSUME NEW r \in Relays, NEW e \in Events, PublishOk(r, e) PROVE Accounts'
  <2>1. CopiesCountFailures'
    BY <1>3 DEF PublishOk, CopiesCountFailures, TypeOK, IsNext
  <2>2. QED
    BY <1>3, <2>1 DEF PublishOk, QuarantinedAfterRetries, NeverStranded
<1>4. ASSUME NEW r \in Relays, NEW e \in Events, NEW arrived \in BOOLEAN,
             PublishFail(r, e, arrived)
      PROVE  Accounts'
  <2>1. /\ \A f \in Events : failures'[f] >= failures[f]
        /\ failures[e] < MaxRetries => failures'[e] = failures[e] + 1
        /\ failures[e] = MaxRetries => failures'[e] = MaxRetries
    BY <1>4, UpToPositive DEF PublishFail, TypeOK, UpTo
  <2>2. \A f \in Events : failures[f] \in 0..MaxRetries /\ failures'[f] \in 0..MaxRetries
    BY DEF TypeOK
  <2>3. \A s \in Relays : \A f \in todo[s] : f \in Events /\ seen[s][f].retries \in 0..MaxRetries
    BY DEF TypeOK, Row
  <2>4. \A f \in todo[r] : IsNext(f, todo[r]) => f = e
    BY <1>4 DEF PublishFail, IsNext, TypeOK
  <2>5. seen[r][e].retries < MaxRetries /\ e \in todo[r]
    BY <1>4 DEF PublishFail, IsNext, CopiesAreWaiting
  <2>6. CopiesCountFailures'
    <3> SUFFICES ASSUME NEW s \in Relays, NEW f \in todo[s]
                 PROVE  /\ seen[s][f].retries <= failures'[f]
                        /\ pc'[s] = "failing" /\ IsNext(f, todo[s]) =>
                             seen[s][f].retries < failures'[f]
      BY <1>4 DEF PublishFail, CopiesCountFailures, IsNext
    <3>1. /\ f \in Events
          /\ seen[s][f].retries \in 0..MaxRetries
          /\ failures[f] \in 0..MaxRetries
          /\ failures'[f] \in 0..MaxRetries
      BY <2>2, <2>3
    <3>2. seen[s][f].retries <= failures[f]
      BY DEF CopiesCountFailures
    <3>3. failures'[f] >= failures[f]
      BY <2>1, <3>1
    <3>4. seen[s][f].retries <= failures'[f]
      BY <3>1, <3>2, <3>3
    <3>5. ASSUME s = r, IsNext(f, todo[s]) PROVE seen[s][f].retries < failures'[f]
      <4>1. f = e
        BY <2>4, <3>5
      <4>2. QED
        BY <2>1, <2>5, <3>1, <3>2, <3>5, <4>1
    <3>6. ASSUME s # r, pc'[s] = "failing", IsNext(f, todo[s])
          PROVE  seen[s][f].retries < failures'[f]
      <4>1. pc[s] = "failing"
        BY <1>4, <3>6 DEF PublishFail, TypeOK
      <4>2. seen[s][f].retries < failures[f]
        BY <3>6, <4>1 DEF CopiesCountFailures
      <4>3. QED
        BY <3>1, <3>3, <4>2
    <3>7. QED
      BY <3>4, <3>5, <3>6
  <2>7. QuarantinedAfterRetries'
    BY <1>4, <2>1, <2>2 DEF PublishFail, QuarantinedAfterRetries, TypeOK, Row
  <2>8. QED
    BY <1>4, <2>6, <2>7 DEF PublishFail, NeverStranded
<1>5. ASSUME NEW r \in Relays, NEW e \in Events, RecordFailure(r, e) PROVE Accounts'
  <2> DEFINE count == seen[r][e].retries + 1
             next  == IF count >= MaxRetries THEN "DEAD_LETTER" ELSE "FAILED"
  <2>1. /\ seen[r][e].retries \in 0..MaxRetries
        /\ seen[r][e].retries < MaxRetries
        /\ seen[r][e].status \in {"PENDING", "FAILED"}
        /\ failures[e] \in 0..MaxRetries
        /\ count <= failures[e]
    <3>1. e \in todo[r] /\ pc[r] = "failing" /\ IsNext(e, todo[r])
      BY <1>5 DEF RecordFailure, IsNext
    <3>2. seen[r][e].retries \in 0..MaxRetries /\ failures[e] \in 0..MaxRetries
      BY DEF TypeOK, Row
    <3>3. seen[r][e].retries < MaxRetries /\ seen[r][e].status \in {"PENDING", "FAILED"}
      BY <3>1 DEF IInv, CopiesAreWaiting
    <3>4. count <= failures[e]
      BY <3>1, <3>2 DEF Accounts, CopiesCountFailures
    <3>5. QED
      BY <3>2, <3>3, <3>4
  <2>2. row' = [row EXCEPT ![e] = Flush(row[e], seen[r][e], [status |-> next, retries |-> count])]
    BY <1>5 DEF RecordFailure
  <2>3. /\ row'[e].retries = count
        /\ next = "DEAD_LETTER" => row'[e].status = "DEAD_LETTER"
        /\ next = "FAILED" => row'[e].status \in {"FAILED", row[e].status}
    BY <2>1, <2>2 DEF Flush, TypeOK
  <2>4. \A f \in Events \ {e} : row'[f] = row[f]
    BY <2>2 DEF TypeOK
  <2>5. CopiesCountFailures'
    <3> SUFFICES ASSUME NEW s \in Relays, NEW f \in todo'[s]
                 PROVE  /\ seen'[s][f].retries <= failures[f]
                        /\ pc'[s] = "failing" /\ IsNext(f, todo'[s]) =>
                             seen'[s][f].retries < failures[f]
      BY <1>5 DEF RecordFailure, CopiesCountFailures, IsNext
    <3>1. CASE s = r
      BY <1>5, <3>1 DEF RecordFailure, CopiesCountFailures, TypeOK
    <3>2. CASE s # r
      BY <1>5, <3>2 DEF RecordFailure, CopiesCountFailures, TypeOK
    <3>3. QED
      BY <3>1, <3>2
  <2>6. QuarantinedAfterRetries'
    <3> SUFFICES ASSUME NEW f \in Events
                 PROVE  /\ row'[f].retries <= failures[f]
                        /\ row'[f].status = "DEAD_LETTER" => failures[f] = MaxRetries
      BY <1>5 DEF RecordFailure, QuarantinedAfterRetries
    <3>1. CASE f # e
      BY <2>4, <3>1 DEF QuarantinedAfterRetries
    <3>2. CASE f = e
      <4>1. CASE count >= MaxRetries
        BY <2>1, <2>3, <3>2, <4>1
      <4>2. CASE ~(count >= MaxRetries)
        <5>1. row'[e].status \in {"FAILED", row[e].status} /\ row'[e].retries <= failures[e]
          BY <2>1, <2>3, <4>2
        <5>2. QED
          BY <3>2, <5>1 DEF QuarantinedAfterRetries
      <4>3. QED
        BY <4>1, <4>2
    <3>3. QED
      BY <3>1, <3>2
  <2>7. NeverStranded'
    BY <2>1, <2>3, <2>4 DEF NeverStranded
  <2>8. QED
    BY <2>5, <2>6, <2>7
<1>6. ASSUME NEW r \in Relays, MarkBatch(r) PROVE Accounts'
  <2>1. CopiesCountFailures'
    <3>1. /\ todo' = [todo EXCEPT ![r] = {}] /\ seen' = [seen EXCEPT ![r] = [e \in Events |-> Fresh]]
          /\ pc' = [pc EXCEPT ![r] = "idle"] /\ failures' = failures
      BY <1>6 DEF MarkBatch, SweepOver, historyVars
    <3>2. ASSUME NEW s \in Relays, NEW e \in todo'[s]
          PROVE  /\ seen'[s][e].retries <= failures'[e]
                 /\ pc'[s] = "failing" /\ IsNext(e, todo'[s]) => seen'[s][e].retries < failures'[e]
      <4>1. s # r
        BY <3>1, <3>2 DEF TypeOK
      <4>2. todo'[s] = todo[s] /\ seen'[s] = seen[s] /\ pc'[s] = pc[s]
        BY <3>1, <4>1 DEF TypeOK
      <4>3. QED
        BY <3>1, <3>2, <4>2 DEF CopiesCountFailures
    <3>3. QED
      BY <3>2 DEF CopiesCountFailures, IsNext
  <2>2. \A f \in Events : row'[f].retries = row[f].retries /\ row'[f].status \in {"PROCESSED", row[f].status}
    BY <1>6 DEF MarkBatch, TypeOK, Row
  <2>3. QED
    BY <1>6, <2>1, <2>2 DEF MarkBatch, QuarantinedAfterRetries, NeverStranded
<1>6a. ASSUME NEW r \in Relays, NEW e \in Events, LockRow(r, e) PROVE Accounts'
  BY <1>6a DEF LockRow, CopiesCountFailures, QuarantinedAfterRetries, NeverStranded, IsNext
<1>7. ASSUME NEW r \in Relays, EndSweep(r) \/ CrashSweep(r) \/ DeadlockVictim(r) PROVE Accounts'
  <2>1. CopiesCountFailures'
    <3>1. /\ todo' = [todo EXCEPT ![r] = {}] /\ seen' = [seen EXCEPT ![r] = [e \in Events |-> Fresh]]
          /\ pc' = [pc EXCEPT ![r] = "idle"] /\ failures' = failures
      BY <1>7 DEF EndSweep, CrashSweep, DeadlockVictim, Rollback, SweepOver
    <3>2. ASSUME NEW s \in Relays, NEW e \in todo'[s]
          PROVE  /\ seen'[s][e].retries <= failures'[e]
                 /\ pc'[s] = "failing" /\ IsNext(e, todo'[s]) => seen'[s][e].retries < failures'[e]
      <4>1. s # r
        BY <3>1, <3>2 DEF TypeOK
      <4>2. todo'[s] = todo[s] /\ seen'[s] = seen[s] /\ pc'[s] = pc[s]
        BY <3>1, <4>1 DEF TypeOK
      <4>3. QED
        BY <3>1, <3>2, <4>2 DEF CopiesCountFailures
    <3>3. QED
      BY <3>2 DEF CopiesCountFailures, IsNext
  <2>2. QED
    BY <1>7, <2>1 DEF EndSweep, CrashSweep, DeadlockVictim, Rollback, QuarantinedAfterRetries, NeverStranded
<1>8. ASSUME NEW o \in Operators, NEW d \in Letter, CommitReplay(o, d) PROVE Accounts'
  <2>1. Alone /\ SoleInv
    OBVIOUS
  <2>2. /\ d.event \in Events
        /\ row[d.event].status = "DEAD_LETTER"
        /\ row' = [row EXCEPT ![d.event] = Fresh]
    BY <1>8, <2>1, SoleReplayRow
  <2>3. /\ \A f \in Events : f # d.event => row'[f] = row[f] /\ failures'[f] = failures[f]
        /\ row'[d.event] = Fresh /\ failures'[d.event] = 0
    BY <1>8, <2>2 DEF CommitReplay, TypeOK
  <2>4. \A r \in Relays : \A e \in todo[r] : e \in Events /\ e # d.event
    BY <2>1, <2>2 DEF SoleInv, InHandIsCurrent, TypeOK
  <2>5. CopiesCountFailures'
    BY <1>8, <2>3, <2>4 DEF CommitReplay, CopiesCountFailures, IsNext
  <2>6. QuarantinedAfterRetries' /\ NeverStranded'
    BY <2>3 DEF QuarantinedAfterRetries, NeverStranded, Fresh
  <2>7. QED
    BY <2>5, <2>6
<1>9. ASSUME NEW o \in Operators, NEW d \in Letter,
             ReadLetter(o, d) \/ LoadEvent(o, d)
      PROVE  Accounts'
  BY <1>9 DEF ReadLetter, LoadEvent, CopiesCountFailures, QuarantinedAfterRetries,
              NeverStranded, IsNext
<1>10. ASSUME NEW o \in Operators, ListLetters(o) \/ EndReplay(o) PROVE Accounts'
  BY <1>10 DEF ListLetters, EndReplay, CopiesCountFailures, QuarantinedAfterRetries,
               NeverStranded, IsNext
<1>11. CASE UNCHANGED vars
  BY <1>11 DEF vars, CopiesCountFailures, QuarantinedAfterRetries, NeverStranded, IsNext
<1>12. QED
  BY <1>1, <1>2, <1>3, <1>4, <1>5, <1>6, <1>6a, <1>7, <1>8, <1>9, <1>10, <1>11
     DEF Next, SweepStep, Handle, ReplayStep

\* The accounts balance in every reachable state.
LEMMA AccountsInductive == ASSUME Operators = {} \/ Alone PROVE Spec => []Accounts
<1>1. Init => Accounts
  BY FreshType, OutboxAssumption
     DEF Init, Accounts, CopiesCountFailures, QuarantinedAfterRetries, NeverStranded, Fresh
<1>2. CASE Operators = {}
  <2>1. IInv /\ IInv' /\ Accounts /\ [Next]_vars => Accounts'
    BY <1>2, AccountsStep DEF IInv
  <2>2. QED
    BY <1>1, <2>1, Inductive, PTL DEF Spec
<1>3. CASE Alone
  <2>1. IInv /\ IInv' /\ SoleInv /\ Accounts /\ [Next]_vars => Accounts'
    BY <1>3, AccountsStep DEF IInv
  <2>2. Spec => []SoleInv
    BY <1>3, SoleInductive
  <2>3. QED
    BY <1>1, <2>1, <2>2, Inductive, PTL DEF Spec
<1>4. QED
  BY <1>2, <1>3

\* As long as no dead letter is replayed, or one relay and one operator are
\* alone, lost updates never quarantine an event before MaxRetries publishes
\* failed since its last replay, and retry_count never runs ahead of them.
THEOREM QuarantineIsEarned ==
  ASSUME Operators = {} \/ Alone PROVE Spec => []QuarantinedAfterRetries
<1>1. Accounts => QuarantinedAfterRetries
  BY DEF Accounts
<1>2. QED
  BY <1>1, AccountsInductive, PTL

\* Under the same condition no waiting event has its retries used up, where no
\* sweep would see it.
THEOREM NothingStranded ==
  ASSUME Operators = {} \/ Alone PROVE Spec => []NeverStranded
<1>1. Accounts => NeverStranded
  BY DEF Accounts
<1>2. QED
  BY <1>1, AccountsInductive, PTL
=============================================================================
