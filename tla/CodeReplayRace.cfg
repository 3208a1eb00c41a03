CONSTANTS
  None = None
  c1 = c1
  c2 = c2
  Client = {c1}
  User = {u1}
  Scope = {"read"}
  Code = {f1}
  AccessId = {a1}
  RefreshId = {r1}
  Request = {p1, p2}
  GrantTypes <- MCGrantTypes
  Scopes <- MCScopes
  Operations = {"authorize", "exchange"}
  Faults = FALSE
  MaxExpired = 0
SYMMETRY Symmetry
SPECIFICATION Spec
INVARIANTS
  ReplayRevokesTokens
\* with the ids used up and every token revoked nothing is left to do
CHECK_DEADLOCK FALSE
