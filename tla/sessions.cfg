\* Two logins of one user in one tab, two calls under way, seconds of two ticks.
CONSTANTS
  Tokens = {t1, t2}
  Users = {u1}
  Calls = {c1, c2}
  Life = 4
  Second = 2
  MaxTime = 5
  None = None
SPECIFICATION Spec
INVARIANTS ConfirmedLogoutRevokes
PROPERTIES RevokedStaysRefused OnlyLoginSignsIn SpinnerEnds
CHECK_DEADLOCK FALSE
