\* The cron and a daemon over three events, two retries, one crash, no operator.
CONSTANTS
  Events = {1, 2, 3}
  Relays = {r1, r2}
  Daemons = {r2}
  Flaky = {1, 2}
  Operators = {}
  LetterIds = {1, 2, 3, 4}
  MaxRetries = 2
  BatchSize = 3
  DeliveryCap = 1
  MaxCrashes = 1
  None = None
SPECIFICATION FairSpec
INVARIANTS ProcessedWasDelivered QuarantinedAfterRetries NeverStranded
PROPERTIES EventuallyDealtWith SweepsTerminate
CHECK_DEADLOCK FALSE
