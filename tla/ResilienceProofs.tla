-------------------------- MODULE ResilienceProofs --------------------------
(***************************************************************************)
(* Theorems about what guards calls that may fail or be repeated:          *)
(* Idempotency, for any number of requests and keys, and CircuitBreaker,   *)
(* for any number of callers and any thresholds.  The two share nothing.   *)
(***************************************************************************)
EXTENDS Idempotency, CircuitBreaker, TLAPS

USE IdempotencyAssumption

\* A key that no fault and no gap between SET NX and GET has touched.
Clean(k) == k \notin faulted \cup gaps

\* While a request with a clean key is in flight, the lock is its own.
InFlightHoldsLock ==
  \A q \in Requests : InFlight(q) /\ Clean(keyOf[q]) => record[keyOf[q]] = InProgress(q)

\* A request with a clean key that took effect still holds the lock or has
\* its response stored: a lock whose owner is gone protects no effect.
EffectIsProtected ==
  \A q \in effective :
    Clean(keyOf[q]) =>
      \/ InFlight(q) /\ record[keyOf[q]] = InProgress(q)
      \/ record[keyOf[q]] = Completed(q)

\* A stored response was sent as a success to a request with that key.
StoredIsGenuine ==
  /\ \A k \in Keys : record[k].state = "completed" =>
       reply[record[k].by] = "ok" /\ keyOf[record[k].by] = k
  /\ \A q \in Requests : pc[q] = "saving" => reply[q] = "ok"
  /\ \A q \in Requests : reply[q] = "ok" => pc[q] \in {"saving", "done"}

LockInv == InFlightHoldsLock /\ EffectIsProtected

ReplyInv == StoredIsGenuine /\ ReplaysAreGenuine

\* No request holds the absent record, and records of requests are typed.
LEMMA RecordFacts ==
  ASSUME NEW q \in Requests
  PROVE  /\ InProgress(q) \in [state : {"in_progress", "completed"}, by : Requests]
         /\ Completed(q) \in [state : {"in_progress", "completed"}, by : Requests]
         /\ InProgress(q) # Absent /\ Completed(q) # Absent
         /\ \A p \in Requests : /\ InProgress(p) = InProgress(q) => p = q
                                /\ Completed(p) = Completed(q) => p = q
                                /\ InProgress(p) # Completed(q)
  BY DEF InProgress, Completed, Absent

-----------------------------------------------------------------------------
\* The variables keep their types; in particular a record always names the
\* request that wrote it.
LEMMA TypeInitially == Init => TypeOK
  BY DEF Init, TypeOK, Absent

LEMMA TypeStep == TypeOK /\ [Next]_vars => TypeOK'
<1> SUFFICES ASSUME TypeOK, [Next]_vars
             PROVE  TypeOK'
  OBVIOUS
<1> USE DEF Put, Goto, Answer, Fault
<1>1. ASSUME NEW q \in Requests, Acquire(q) \/ Refuse(q) \/ FallThrough(q) \/ ReadError(q)
      PROVE  TypeOK'
  BY <1>1, RecordFacts DEF TypeOK, Acquire, Refuse, FallThrough, ReadError
<1>2. ASSUME NEW q \in Requests, NEW executed \in BOOLEAN,
             AcquireError(q, executed) \/ SaveError(q, executed)
      PROVE  TypeOK'
  BY <1>2, RecordFacts DEF TypeOK, AcquireError, SaveError
<1>3. ASSUME NEW q \in Requests, Conflict(q) \/ Replay(q) PROVE TypeOK'
  <2>1. record[keyOf[q]].state = "completed" => record[keyOf[q]].by \in Requests
    BY DEF TypeOK, Absent
  <2>2. QED
    BY <1>3, <2>1 DEF TypeOK, Conflict, Replay
<1>4. ASSUME NEW q \in Requests, Commit(q) \/ Succeed(q) \/ Reject(q) \/ Save(q) \/ Crash(q)
      PROVE  TypeOK'
  BY <1>4, RecordFacts DEF TypeOK, Commit, Succeed, Reject, Save, Crash
<1>5. ASSUME NEW q \in Requests, NEW deleted \in BOOLEAN, Raise(q, deleted) PROVE TypeOK'
  BY <1>5 DEF TypeOK, Raise
<1>6. ASSUME NEW k \in Keys, Expire(k) PROVE TypeOK'
  BY <1>6 DEF TypeOK, Expire
<1>7. CASE UNCHANGED vars
  BY <1>7 DEF TypeOK, vars
<1>8. QED
  BY <1>1, <1>2, <1>3, <1>4, <1>5, <1>6, <1>7 DEF Next, Lock, Handler

-----------------------------------------------------------------------------
\* No step takes the lock from a request in flight, or the record from an
\* effect, without leaving a fault or a gap on the key.
LEMMA LockStep == TypeOK /\ TypeOK' /\ LockInv /\ [Next]_vars => LockInv'
<1> SUFFICES ASSUME TypeOK, TypeOK', LockInv, [Next]_vars
             PROVE  LockInv'
  OBVIOUS
<1> USE DEF LockInv, InFlightHoldsLock, EffectIsProtected, InFlight, Clean,
            Put, Goto, Answer, Fault
<1>1. ASSUME NEW q \in Requests, Acquire(q) PROVE LockInv'
  BY <1>1, RecordFacts DEF Acquire, TypeOK
<1>2. ASSUME NEW q \in Requests, Refuse(q) \/ Conflict(q) \/ Replay(q) PROVE LockInv'
  BY <1>2 DEF Refuse, Conflict, Replay, TypeOK
<1>3. ASSUME NEW q \in Requests, NEW executed \in BOOLEAN, AcquireError(q, executed)
      PROVE  LockInv'
  BY <1>3 DEF AcquireError, TypeOK
<1>4. ASSUME NEW q \in Requests, FallThrough(q) \/ ReadError(q) PROVE LockInv'
  BY <1>4 DEF FallThrough, ReadError, TypeOK
<1>5. ASSUME NEW q \in Requests, Commit(q) PROVE LockInv'
  BY <1>5 DEF Commit, TypeOK
<1>6. ASSUME NEW q \in Requests, Succeed(q) PROVE LockInv'
  BY <1>6 DEF Succeed, TypeOK
<1>7. ASSUME NEW q \in Requests, Reject(q) \/ Crash(q) PROVE LockInv'
  BY <1>7 DEF Reject, Crash, TypeOK
<1>8. ASSUME NEW q \in Requests, NEW deleted \in BOOLEAN, Raise(q, deleted) PROVE LockInv'
  BY <1>8, RecordFacts DEF Raise, TypeOK
<1>9. ASSUME NEW q \in Requests, Save(q) PROVE LockInv'
  BY <1>9, RecordFacts DEF Save, TypeOK
<1>10. ASSUME NEW q \in Requests, NEW executed \in BOOLEAN, SaveError(q, executed)
       PROVE  LockInv'
  BY <1>10 DEF SaveError, TypeOK
<1>11. ASSUME NEW k \in Keys, Expire(k) PROVE LockInv'
  BY <1>11, RecordFacts DEF Expire, TypeOK, InProgress, Completed
<1>12. CASE UNCHANGED vars
  BY <1>12 DEF vars
<1>13. QED
  BY <1>1, <1>2, <1>3, <1>4, <1>5, <1>6, <1>7, <1>8, <1>9, <1>10, <1>11, <1>12
     DEF Next, Lock, Handler

\* Only successes get stored, and only stored responses get replayed.
LEMMA ReplyStep == TypeOK /\ TypeOK' /\ ReplyInv /\ [Next]_vars => ReplyInv'
<1> SUFFICES ASSUME TypeOK, TypeOK', ReplyInv, [Next]_vars
             PROVE  ReplyInv'
  OBVIOUS
<1> USE DEF ReplyInv, StoredIsGenuine, ReplaysAreGenuine, Put, Goto, Answer, Fault
<1>1. ASSUME NEW q \in Requests, Acquire(q) \/ Refuse(q) \/ FallThrough(q) \/ ReadError(q)
      PROVE  ReplyInv'
  BY <1>1 DEF Acquire, Refuse, FallThrough, ReadError, TypeOK, InProgress
<1>2. ASSUME NEW q \in Requests, NEW executed \in BOOLEAN, AcquireError(q, executed)
      PROVE  ReplyInv'
  BY <1>2 DEF AcquireError, TypeOK, InProgress
<1>3. ASSUME NEW q \in Requests, Conflict(q) PROVE ReplyInv'
  BY <1>3 DEF Conflict, TypeOK, Absent
<1>4. ASSUME NEW q \in Requests, Replay(q) PROVE ReplyInv'
  BY <1>4 DEF Replay, TypeOK, Absent
<1>5. ASSUME NEW q \in Requests, Commit(q) \/ Crash(q) PROVE ReplyInv'
  BY <1>5 DEF Commit, Crash, TypeOK
<1>6. ASSUME NEW q \in Requests, Succeed(q) \/ Reject(q) PROVE ReplyInv'
  BY <1>6 DEF Succeed, Reject, TypeOK, Absent
<1>7. ASSUME NEW q \in Requests, NEW deleted \in BOOLEAN, Raise(q, deleted) PROVE ReplyInv'
  <2>1. CASE pc[q] = "saving"
    BY <1>7, <2>1 DEF Raise, TypeOK, Absent
  <2>2. CASE pc[q] # "saving"
    BY <1>7, <2>2 DEF Raise, TypeOK, Absent, InFlight
  <2>3. QED
    BY <2>1, <2>2
<1>8. ASSUME NEW q \in Requests, Save(q) PROVE ReplyInv'
  BY <1>8 DEF Save, TypeOK, Completed
<1>9. ASSUME NEW q \in Requests, NEW executed \in BOOLEAN, SaveError(q, executed)
      PROVE  ReplyInv'
  BY <1>9 DEF SaveError, TypeOK, Completed
<1>10. ASSUME NEW k \in Keys, Expire(k) PROVE ReplyInv'
  BY <1>10 DEF Expire, TypeOK, Absent
<1>11. CASE UNCHANGED vars
  BY <1>11 DEF vars
<1>12. QED
  BY <1>1, <1>2, <1>3, <1>4, <1>5, <1>6, <1>7, <1>8, <1>9, <1>10, <1>11
     DEF Next, Lock, Handler

-----------------------------------------------------------------------------
\* The variables keep their types.
THEOREM TypeCorrect == Spec => []TypeOK
<1>1. QED
  BY TypeInitially, TypeStep, PTL DEF Spec

\* Without faults and gaps the record remembers every effect: it blocks or
\* answers each retry of a request whose changes were committed.
THEOREM EffectsAreRemembered == Spec => []EffectIsRemembered
<1>1. Init => LockInv
  BY DEF Init, LockInv, InFlightHoldsLock, EffectIsProtected, InFlight
<1>2. LockInv => EffectIsRemembered
  BY DEF LockInv, EffectIsProtected, EffectIsRemembered, Clean
<1>3. QED
  BY <1>1, <1>2, TypeCorrect, LockStep, PTL DEF Spec

\* Without faults and gaps two requests with one key never both take effect.
THEOREM Idempotent == Spec => []AtMostOneEffect
<1>1. TypeOK /\ EffectIsRemembered => AtMostOneEffect
  <2> SUFFICES ASSUME TypeOK, EffectIsRemembered,
                      NEW p \in effective, NEW q \in effective,
                      keyOf[p] = keyOf[q], keyOf[p] \notin faulted \cup gaps
               PROVE  p = q
    BY DEF AtMostOneEffect
  <2>1. p \in Requests /\ q \in Requests
    BY DEF TypeOK
  <2>2. /\ record[keyOf[p]] \in {InProgress(p), Completed(p)}
        /\ record[keyOf[p]] \in {InProgress(q), Completed(q)}
    BY DEF EffectIsRemembered
  <2>3. QED
    BY <2>1, <2>2 DEF InProgress, Completed
<1>2. QED
  BY <1>1, TypeCorrect, EffectsAreRemembered, PTL

\* What is replayed was sent before, as a success, under the same key.
THEOREM GenuineReplays == Spec => []ReplaysAreGenuine
<1>1. Init => ReplyInv
  BY DEF Init, ReplyInv, StoredIsGenuine, ReplaysAreGenuine, Absent
<1>2. ReplyInv => ReplaysAreGenuine
  BY DEF ReplyInv
<1>3. QED
  BY <1>1, <1>2, TypeCorrect, ReplyStep, PTL DEF Spec

-----------------------------------------------------------------------------
(* The circuit breaker                                                     *)

HIDE IdempotencyAssumption
USE BreakerAssumption

\* A CLOSED breaker has counted no more failures than came in a row.
CountedFailuresAreConsecutive == state = "CLOSED" => failure_count <= streak

\* The clock of an OPEN breaker started no earlier than its last failure.
ClockStartsAtFailure == state = "OPEN" => age <= quiet

BreakerInv ==
  /\ CBTypeOK
  /\ CountersFitState
  /\ CountedFailuresAreConsecutive
  /\ ClockStartsAtFailure

\* A capped count stays in its range, is one more below the cap, and grows
\* no slower than a count it is not above.
LEMMA UpToFacts ==
  ASSUME NEW cap \in Nat, NEW n \in 0..cap
  PROVE  /\ UpTo(n, cap) \in 0..cap
         /\ n + 1 < cap => UpTo(n, cap) = n + 1
         /\ n + 1 >= cap => UpTo(n, cap) = cap
         /\ n <= UpTo(n, cap)
         /\ \A m \in 0..cap : m <= n => UpTo(m, cap) <= UpTo(n, cap)
  BY DEF UpTo

-----------------------------------------------------------------------------
(* Its invariant                                                           *)

LEMMA BreakerInitially == CBInit => BreakerInv
  BY DEF CBInit, BreakerInv, CBTypeOK, CountersFitState, CountedFailuresAreConsecutive,
         ClockStartsAtFailure

\* A success either leaves CLOSED and OPEN breakers as they are but for the
\* reset of the failures, or brings a HALF_OPEN one nearer to CLOSED.
LEMMA SucceedStep == ASSUME BreakerInv, NEW c \in Callers, CallSucceeds(c) PROVE BreakerInv'
<1> USE DEF BreakerInv, CBTypeOK, CountersFitState, CountedFailuresAreConsecutive,
            ClockStartsAtFailure
<1>1. CASE state = "HALF_OPEN" /\ success_count + 1 >= HalfOpenMaxTrials
  BY <1>1 DEF CallSucceeds, OnSuccess
<1>2. CASE state = "HALF_OPEN" /\ ~(success_count + 1 >= HalfOpenMaxTrials)
  BY <1>2 DEF CallSucceeds, OnSuccess
<1>3. CASE state # "HALF_OPEN"
  BY <1>3 DEF CallSucceeds, OnSuccess
<1>4. QED
  BY <1>1, <1>2, <1>3

\* A failure counts once in both counters, and trips the breaker exactly when
\* the threshold is reached or a trial was under way.
LEMMA FailStep == ASSUME BreakerInv, NEW c \in Callers, CallFails(c) PROVE BreakerInv'
<1> USE DEF BreakerInv, CBTypeOK, CountersFitState, CountedFailuresAreConsecutive,
            ClockStartsAtFailure
<1>1. /\ failure_count' = UpTo(failure_count, FailureThreshold)
      /\ streak' = UpTo(streak, FailureThreshold)
  BY DEF CallFails, OnFailure
<1>2. /\ failure_count' \in 0..FailureThreshold
      /\ streak' \in 0..FailureThreshold
      /\ failure_count <= streak => failure_count' <= streak'
  BY <1>1, UpToFacts
<1>3. CASE state = "HALF_OPEN" \/ failure_count' >= FailureThreshold
  <2>1. state' = "OPEN" /\ age' = 0
    BY <1>1, <1>3 DEF CallFails, OnFailure
  <2>2. failure_count' >= FailureThreshold
    <3>1. CASE state = "HALF_OPEN"
      BY <3>1, <1>1, UpToFacts
    <3>2. QED
      BY <3>1, <1>3
  <2>3. QED
    BY <1>2, <2>1, <2>2 DEF CallFails, OnFailure
<1>4. CASE ~(state = "HALF_OPEN" \/ failure_count' >= FailureThreshold)
  <2>1. state' = state /\ age' = age
    BY <1>1, <1>4 DEF CallFails, OnFailure
  <2>2. state = "CLOSED"
    BY <1>1, <1>4, UpToFacts
  <2>3. QED
    BY <1>2, <1>4, <2>1, <2>2 DEF CallFails, OnFailure
<1>5. QED
  BY <1>3, <1>4

LEMMA BreakerInductive == BreakerInv /\ [CBNext]_cbVars => BreakerInv'
<1> SUFFICES ASSUME BreakerInv, [CBNext]_cbVars
             PROVE  BreakerInv'
  OBVIOUS
<1> USE DEF BreakerInv, CBTypeOK, CountersFitState, CountedFailuresAreConsecutive,
            ClockStartsAtFailure
<1>1. ASSUME NEW c \in Callers, Enter(c) PROVE BreakerInv'
  <2>1. CASE Admit(c) \/ RejectCall(c)
    BY <2>1 DEF Admit, RejectCall, breakerVars, historyVars
  <2>2. CASE Probe(c)
    BY <2>2 DEF Probe
  <2>3. QED
    BY <1>1, <2>1, <2>2 DEF Enter
<1>2. ASSUME NEW c \in Callers, Leave(c) PROVE BreakerInv'
  <2>1. CASE CallEscapes(c)
    BY <2>1 DEF CallEscapes, breakerVars
  <2>2. QED
    BY <1>2, <2>1, SucceedStep, FailStep DEF Leave
<1>3. CASE Tick
  BY <1>3, UpToFacts DEF Tick
<1>4. CASE Flip
  BY <1>4 DEF Flip, breakerVars, historyVars
<1>5. CASE UNCHANGED cbVars
  BY <1>5 DEF cbVars, breakerVars, historyVars
<1>6. QED
  BY <1>1, <1>2, <1>3, <1>4, <1>5 DEF CBNext

LEMMA AlwaysBreakerInv == CBSpec => []BreakerInv
  BY BreakerInitially, BreakerInductive, PTL DEF CBSpec

\* Type correctness: in particular success_count never passes
\* half_open_max_trials, whichever calls report in whichever state.
THEOREM BreakerTypeCorrect == CBSpec => []CBTypeOK
<1>1. BreakerInv => CBTypeOK
  BY DEF BreakerInv
<1>2. QED
  BY <1>1, AlwaysBreakerInv, PTL

\* The counters of call, _on_success and _on_failure never lag behind the
\* state they decide.
THEOREM CountersAreConsistent == CBSpec => []CountersFitState
<1>1. BreakerInv => CountersFitState
  BY DEF BreakerInv
<1>2. QED
  BY <1>1, AlwaysBreakerInv, PTL

-----------------------------------------------------------------------------
(* Its transitions                                                         *)

\* What a step that changes the state of the breaker was.
LEMMA StateChanges ==
  ASSUME BreakerInv, [CBNext]_cbVars, state' # state
  PROVE  \/ state = "OPEN" /\ state' = "HALF_OPEN"
         \/ state = "HALF_OPEN" /\ state' = "CLOSED"
         \/ /\ state' = "OPEN"
            /\ failure_count' = FailureThreshold
<1>1. PICK c \in Callers : Probe(c) \/ CallSucceeds(c) \/ CallFails(c)
  BY DEF CBNext, Enter, Leave, Admit, RejectCall, CallEscapes, Tick, Flip, cbVars, breakerVars
<1>2. CASE Probe(c)
  BY <1>2 DEF Probe
<1>3. CASE CallSucceeds(c)
  BY <1>3 DEF CallSucceeds, OnSuccess
<1>4. CASE CallFails(c)
  <2>1. state' = "OPEN" /\ failure_count' \in 0..FailureThreshold
    BY <1>4, UpToFacts DEF CallFails, OnFailure, BreakerInv, CBTypeOK
  <2>2. CountersFitState'
    BY BreakerInductive DEF BreakerInv
  <2>3. QED
    BY <2>1, <2>2 DEF CountersFitState
<1>5. QED
  BY <1>1, <1>2, <1>3, <1>4

\* The breaker moves only along the edges its docstring names.
THEOREM TransitionsAreLegal == CBSpec => LegalTransitions
<1>1. BreakerInv /\ [CBNext]_cbVars =>
        [/\ state = "CLOSED" => state' \in {"CLOSED", "OPEN"}
         /\ state = "OPEN" => state' \in {"OPEN", "HALF_OPEN"}]_cbVars
  <2> SUFFICES ASSUME BreakerInv, [CBNext]_cbVars
               PROVE  /\ state = "CLOSED" => state' \in {"CLOSED", "OPEN"}
                      /\ state = "OPEN" => state' \in {"OPEN", "HALF_OPEN"}
    OBVIOUS
  <2>1. QED
    BY StateChanges DEF BreakerInv, CBTypeOK
<1>2. QED
  BY <1>1, AlwaysBreakerInv, PTL DEF LegalTransitions, CBSpec

\* A CLOSED breaker trips only after failure_threshold consecutive failures.
THEOREM TripsOnlyAfterStreak == CBSpec => TripsAfterStreak
<1>1. BreakerInv /\ [CBNext]_cbVars =>
        [state = "CLOSED" /\ state' = "OPEN" => streak' = FailureThreshold]_cbVars
  <2> SUFFICES ASSUME BreakerInv, [CBNext]_cbVars, state = "CLOSED", state' = "OPEN"
               PROVE  streak' = FailureThreshold
    OBVIOUS
  <2>1. PICK c \in Callers : CallFails(c)
    BY DEF CBNext, Enter, Leave, Admit, Probe, RejectCall, CallSucceeds, OnSuccess, CallEscapes, Tick,
           Flip, cbVars, breakerVars
  <2>2. failure_count' = FailureThreshold
    BY StateChanges
  <2>3. /\ failure_count' = UpTo(failure_count, FailureThreshold)
        /\ streak' = UpTo(streak, FailureThreshold)
    BY <2>1 DEF CallFails, OnFailure
  <2>4. /\ failure_count \in 0..FailureThreshold
        /\ streak \in 0..FailureThreshold
        /\ failure_count <= streak
    BY DEF BreakerInv, CBTypeOK, CountedFailuresAreConsecutive
  <2>5. UpTo(streak, FailureThreshold) = FailureThreshold
    <3>1. UpTo(failure_count, FailureThreshold) = FailureThreshold
      BY <2>2, <2>3
    <3>2. FailureThreshold \in Nat
      OBVIOUS
    <3>3. QED
      BY <2>4, <3>1, <3>2 DEF UpTo
  <2>6. QED
    BY <2>3, <2>5
<1>2. QED
  BY <1>1, AlwaysBreakerInv, PTL DEF TripsAfterStreak, CBSpec

\* An OPEN breaker lets a call through only recovery_timeout after the last
\* failure, although stale failures restart its clock and stale successes do
\* not.
THEOREM CooldownHolds == CBSpec => CooldownIsKept
<1>1. BreakerInv /\ [CBNext]_cbVars =>
        [\A c \in Callers :
           state = "OPEN" /\ phase[c] # "running" /\ phase'[c] = "running"
             => quiet = RecoveryTimeout]_cbVars
  <2> SUFFICES ASSUME BreakerInv, [CBNext]_cbVars, NEW c \in Callers,
                      state = "OPEN", phase[c] # "running", phase'[c] = "running"
               PROVE  quiet = RecoveryTimeout
    OBVIOUS
  <2>1. PICK d \in Callers : Probe(d)
    BY DEF CBNext, Enter, Leave, Admit, RejectCall, CallSucceeds, CallFails, CallEscapes, Tick, Flip, cbVars,
           BreakerInv, CBTypeOK
  <2>2. age = RecoveryTimeout
    BY <2>1 DEF Probe
  <2>3. QED
    BY <2>2 DEF BreakerInv, CBTypeOK, ClockStartsAtFailure
<1>2. QED
  BY <1>1, AlwaysBreakerInv, PTL DEF CooldownIsKept, CBSpec
=============================================================================
