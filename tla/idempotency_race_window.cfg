\* Four requests compete for one key; no fault is needed.
CONSTANTS
  q1 = q1  q2 = q2  q3 = q3  q4 = q4  k1 = k1  k2 = k2
  Requests = {q1, q2, q3, q4}
  Keys = {k1}
  keyOf <- AllFour
  Nobody = Nobody
CHECK_DEADLOCK FALSE
SPECIFICATION Spec
INVARIANTS NoRaceWindow
