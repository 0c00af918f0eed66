--------------------------- MODULE CircuitBreaker ---------------------------
(***************************************************************************)
(* CircuitBreaker (backend/src/app/core/circuit_breaker.py) shared by      *)
(* concurrent callers on one event loop.  The lock's critical sections do  *)
(* not suspend, so entering a call is one step and its end, with           *)
(* _on_success or _on_failure, another; between the two the breaker may go *)
(* through any number of states.                                           *)
(***************************************************************************)
EXTENDS Naturals

CONSTANTS
  Callers,            \* tasks that call through the breaker
  FailureThreshold,   \* failure_threshold, 5 by default
  RecoveryTimeout,    \* recovery_timeout in ticks, 30 s by default
  HalfOpenMaxTrials   \* half_open_max_trials, 2 by default

ASSUME BreakerAssumption ==
  /\ FailureThreshold \in Nat \ {0}
  /\ RecoveryTimeout \in Nat \ {0}
  /\ HalfOpenMaxTrials \in Nat \ {0}

VARIABLES
  state,          \* _state
  failure_count,  \* _failure_count, counted up to FailureThreshold
  success_count,  \* _success_count
  age,            \* ticks since _last_state_change, up to RecoveryTimeout
  phase,          \* phase[c]: where the caller is in call
  healthy,        \* whether the protected service works
  streak,         \* history: failures since the last success, capped
  quiet           \* history: ticks since the last failure, capped

breakerVars == <<state, failure_count, success_count, age>>
historyVars == <<streak, quiet>>
cbVars == <<breakerVars, phase, healthy, historyVars>>

CBTypeOK ==
  /\ state \in {"CLOSED", "OPEN", "HALF_OPEN"}
  /\ failure_count \in 0..FailureThreshold
  /\ success_count \in 0..HalfOpenMaxTrials
  /\ age \in 0..RecoveryTimeout
  /\ phase \in [Callers -> {"idle", "running", "rejected"}]
  /\ healthy \in BOOLEAN
  /\ streak \in 0..FailureThreshold
  /\ quiet \in 0..RecoveryTimeout

CBInit ==
  /\ state = "CLOSED"
  /\ failure_count = 0
  /\ success_count = 0
  /\ age = 0
  /\ phase = [c \in Callers |-> "idle"]
  /\ healthy \in BOOLEAN
  /\ streak = 0
  /\ quiet = 0

UpTo(n, cap) == IF n < cap THEN n + 1 ELSE cap

\* Mutated forms.  A "Broken" operator is a definition with a plausible bug in
\* it; the mutation runs put it in the definition's place to see the property
\* fail.  Nothing else uses it.

-----------------------------------------------------------------------------
(* Entering call: _check_state_transition, then the test for OPEN          *)

\* Broken: only a CLOSED breaker admits, so HALF_OPEN sees its first trial only.
BrokenAdmitClosedOnly(c) ==
  /\ phase[c] # "running"
  /\ state = "CLOSED"
  /\ phase' = [phase EXCEPT ![c] = "running"]
  /\ UNCHANGED <<breakerVars, healthy, streak, quiet>>

\* CLOSED or HALF_OPEN: the call goes ahead, however many already run.
Admit(c) ==
  /\ phase[c] # "running"
  /\ state # "OPEN"
  /\ phase' = [phase EXCEPT ![c] = "running"]
  /\ UNCHANGED <<breakerVars, healthy, streak, quiet>>

\* The cooldown is over: HALF_OPEN, and the call is the first trial.
Probe(c) ==
  /\ phase[c] # "running"
  /\ state = "OPEN"
  /\ age = RecoveryTimeout
  /\ state' = "HALF_OPEN"
  /\ success_count' = 0
  /\ age' = 0
  /\ phase' = [phase EXCEPT ![c] = "running"]
  /\ UNCHANGED <<failure_count, healthy, streak, quiet>>

\* CircuitOpenException.
RejectCall(c) ==
  /\ phase[c] # "running"
  /\ state = "OPEN"
  /\ age < RecoveryTimeout
  /\ phase' = [phase EXCEPT ![c] = "rejected"]
  /\ UNCHANGED <<breakerVars, healthy, historyVars>>

-----------------------------------------------------------------------------
(* The end of the protected call                                           *)

\* Broken: closing leaves the failures of before counted.
BrokenOnSuccessKeepsFailures ==
  LET count  == success_count + 1
      closes == state = "HALF_OPEN" /\ count >= HalfOpenMaxTrials
  IN  /\ state' = IF closes THEN "CLOSED" ELSE state
      /\ failure_count' = IF state = "CLOSED" THEN 0 ELSE failure_count
      /\ success_count' = IF closes THEN 0
                          ELSE IF state = "HALF_OPEN" THEN count ELSE success_count
      /\ age' = IF closes THEN 0 ELSE age

\* Broken: a success while CLOSED does not interrupt the count of failures.
BrokenOnSuccessNoReset ==
  LET count  == success_count + 1
      closes == state = "HALF_OPEN" /\ count >= HalfOpenMaxTrials
  IN  /\ state' = IF closes THEN "CLOSED" ELSE state
      /\ failure_count' = IF closes THEN 0 ELSE failure_count
      /\ success_count' = IF closes THEN 0
                          ELSE IF state = "HALF_OPEN" THEN count ELSE success_count
      /\ age' = IF closes THEN 0 ELSE age

\* _on_success, in whatever state the breaker is by now.
OnSuccess ==
  LET count  == success_count + 1
      closes == state = "HALF_OPEN" /\ count >= HalfOpenMaxTrials
  IN  /\ state' = IF closes THEN "CLOSED" ELSE state
      /\ failure_count' = IF closes \/ state = "CLOSED" THEN 0 ELSE failure_count
      /\ success_count' = IF closes THEN 0
                          ELSE IF state = "HALF_OPEN" THEN count ELSE success_count
      /\ age' = IF closes THEN 0 ELSE age

CallSucceeds(c) ==
  /\ phase[c] = "running"
  /\ healthy
  /\ OnSuccess
  /\ phase' = [phase EXCEPT ![c] = "idle"]
  /\ streak' = 0
  /\ UNCHANGED <<healthy, quiet>>

\* Broken: tripping does not stamp the time.
BrokenOnFailureKeepsClock ==
  LET count == UpTo(failure_count, FailureThreshold)
  IN  /\ failure_count' = count
      /\ state' = IF state = "HALF_OPEN" \/ count >= FailureThreshold THEN "OPEN" ELSE state
      /\ UNCHANGED <<success_count, age>>

\* _on_failure: it trips from any state, OPEN included.
OnFailure ==
  LET count == UpTo(failure_count, FailureThreshold)
      trips == state = "HALF_OPEN" \/ count >= FailureThreshold
  IN  /\ failure_count' = count
      /\ state' = IF trips THEN "OPEN" ELSE state
      /\ age' = IF trips THEN 0 ELSE age
      /\ UNCHANGED success_count

\* One of expected_exceptions.
CallFails(c) ==
  /\ phase[c] = "running"
  /\ ~healthy
  /\ OnFailure
  /\ phase' = [phase EXCEPT ![c] = "idle"]
  /\ streak' = UpTo(streak, FailureThreshold)
  /\ quiet' = 0
  /\ UNCHANGED <<healthy>>

\* Another exception, or a cancellation: the breaker learns nothing.
CallEscapes(c) ==
  /\ phase[c] = "running"
  /\ phase' = [phase EXCEPT ![c] = "idle"]
  /\ UNCHANGED <<breakerVars, healthy, streak, quiet>>

-----------------------------------------------------------------------------
(* The environment                                                         *)

\* Time passes; nothing looks beyond RecoveryTimeout.
Tick ==
  /\ age < RecoveryTimeout \/ quiet < RecoveryTimeout
  /\ age' = UpTo(age, RecoveryTimeout)
  /\ quiet' = UpTo(quiet, RecoveryTimeout)
  /\ UNCHANGED <<state, failure_count, success_count, phase, healthy, streak>>

\* The protected service breaks or recovers.
Flip ==
  /\ healthy' = ~healthy
  /\ UNCHANGED <<breakerVars, phase, historyVars>>

Enter(c) == Admit(c) \/ Probe(c) \/ RejectCall(c)
Leave(c) == CallSucceeds(c) \/ CallFails(c) \/ CallEscapes(c)

CBNext ==
  \/ \E c \in Callers : Enter(c) \/ Leave(c)
  \/ Tick
  \/ Flip

CBSpec == CBInit /\ [][CBNext]_cbVars

\* Callers keep calling, calls end, time passes, and no caller is cut off
\* each time its call would have succeeded.
CBFairness ==
  /\ \A c \in Callers : /\ WF_cbVars(Admit(c) \/ Probe(c))
                        /\ WF_cbVars(Leave(c))
                        /\ SF_cbVars(CallSucceeds(c))
  /\ WF_cbVars(Tick)

CBFairSpec == CBSpec /\ CBFairness

-----------------------------------------------------------------------------
(* Properties                                                              *)

\* The counters never lag behind the state, although calls that started in
\* one state report in another: a CLOSED breaker is below the threshold, any
\* other has reached it, and a HALF_OPEN one still lacks a success.
CountersFitState ==
  /\ state = "CLOSED" <=> failure_count < FailureThreshold
  /\ state = "HALF_OPEN" => success_count < HalfOpenMaxTrials

\* The state changes only along CLOSED -> OPEN -> HALF_OPEN -> CLOSED or OPEN
\* (circuit_breaker.py:5-7), whichever calls report late: no success from
\* before the trip closes an OPEN breaker, and a CLOSED one never goes to
\* HALF_OPEN.
LegalTransitions ==
  [][/\ state = "CLOSED" => state' \in {"CLOSED", "OPEN"}
     /\ state = "OPEN" => state' \in {"OPEN", "HALF_OPEN"}]_cbVars

\* "Consecutive failures before tripping to OPEN" (circuit_breaker.py:47): a
\* CLOSED breaker trips only after that many failures with no success between.
TripsAfterStreak ==
  [][state = "CLOSED" /\ state' = "OPEN" => streak' = FailureThreshold]_cbVars

\* After the last failure it heard of, an OPEN breaker lets nobody through
\* until the recovery timeout has passed.
CooldownIsKept ==
  [][\A c \in Callers :
       state = "OPEN" /\ phase[c] # "running" /\ phase'[c] = "running"
         => quiet = RecoveryTimeout]_cbVars

\* Once the protected service works for good the breaker closes for good.
RecoversWithTheService == <>[]healthy => <>[](state = "CLOSED")
=============================================================================
