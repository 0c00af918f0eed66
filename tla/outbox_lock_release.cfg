\* Two relays, one failed publish in a batch of two.
CONSTANTS
  Events = {1, 2}
  Relays = {r1, r2}
  Daemons = {}
  Flaky = {1, 2}
  Operators = {}
  LetterIds = {1, 2}
  MaxRetries = 3
  BatchSize = 2
  DeliveryCap = 2
  MaxCrashes = 0
  None = None
SPECIFICATION Spec
SYMMETRY Interchangeable
INVARIANTS OneSweepPerEvent
CHECK_DEADLOCK FALSE
