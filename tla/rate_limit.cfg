\* Two requests in flight over three windows of three slots.
CONSTANTS
  Requests = {q1, q2}
  Limit = 3
  Window = 3
  MaxDelay = 4
  MaxTime = 7
SPECIFICATION Spec
SYMMETRY Interchangeable
INVARIANTS QuotaPerWindow QuotaInAnySpan RefusalsEnd
PROPERTIES TimeOnlyHelps
CHECK_DEADLOCK FALSE
