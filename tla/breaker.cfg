\* Three callers, more than the threshold or the trials.
CONSTANTS
  Callers = {c1, c2, c3}
  FailureThreshold = 2
  RecoveryTimeout = 2
  HalfOpenMaxTrials = 2
SPECIFICATION CBFairSpec
INVARIANTS CountersFitState
PROPERTIES TripsAfterStreak CooldownIsKept RecoversWithTheService
