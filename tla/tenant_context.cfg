\* Two tenants and a user; blocks nested up to two deep, so that a session may
\* be held under a block that is not its own; one identity of each kind: of the
\* caller's tenant or another, with a user or without, privileged or not.
CONSTANTS
  north = north
  south = south
  ann = ann
  Tenants = {north, south}
  Users = {ann}
  Tokens <- MCTokens
  Scopes <- MCScopes
  MaxDepth = 2
  None = None
SPECIFICATION Spec
INVARIANTS ActsForOwner RightsOfOneIdentity ContextRestored
