\* One relay and one operator: retries, quarantine, replay, crashes.
CONSTANTS
  Events = {1, 2}
  Relays = {r1}
  Daemons = {}
  Flaky = {1, 2}
  Operators = {o1}
  LetterIds = {1, 2}
  MaxRetries = 3
  BatchSize = 2
  DeliveryCap = 2
  MaxCrashes = 2
  None = None
SPECIFICATION Spec
SYMMETRY Interchangeable
INVARIANTS NeverStranded LettersMatchStatus DuplicatesAreDoubted
PROPERTIES ProcessedIsFinal ImplementsDelivery
CHECK_DEADLOCK FALSE
