\* Three requests compete for one key, a fourth has its own.
CONSTANTS
  q1 = q1  q2 = q2  q3 = q3  q4 = q4  k1 = k1  k2 = k2
  Requests = {q1, q2, q3, q4}
  Keys = {k1, k2}
  keyOf <- ThreeAndOne
  Nobody = Nobody
CHECK_DEADLOCK FALSE
SPECIFICATION Spec
INVARIANTS AtMostOneEffect ReplaysAreGenuine EffectIsRemembered
