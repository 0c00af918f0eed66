\* Two requests in flight, two workers starting, two accounts at most.
CONSTANTS
  Ids = {1, 2}
  Emails = {e1, e2}
  Passwords = {p1, p2}
  SeedEmail = e1
  SeedPassword = p1
  Handlers = {h1, h2}
  Workers = {w1, w2}
  MaxAsked = 1
  MaxRequests = 4
  None = None
SPECIFICATION Spec
SYMMETRY Interchangeable
INVARIANTS EmailsUnique
PROPERTIES OnlyAskedColumns GoneStaysGone OnlyAdministratorsPromote
CHECK_DEADLOCK FALSE
