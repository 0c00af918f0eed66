\* Two runs, over long enough for the first one's files to be pruned.
CONSTANTS
  Runs = {r1, r2}
  Retention = 1
  MaxAttempts = 2
  MaxDay = 2
  MaxVersion = 1
  None = None
SPECIFICATION Spec
INVARIANTS SureSnapshotsAreFresh
PROPERTIES LastDumpStays SuccessIsADump RunsEnd
CHECK_DEADLOCK FALSE
