CONSTANTS
  None = None
  c1 = c1
  c2 = c2
  Client = {c1}
  User = {u1}
  Scope = {"read"}
  Code = {f1}
  AccessId = {a1, a2, a3}
  RefreshId = {r1, r2, r3}
  Request = {p1, p2, p3}
  GrantTypes <- MCGrantTypes
  Scopes <- MCScopes
  Operations = {"authorize", "exchange", "refresh", "revoke"}
  Faults = FALSE
  MaxExpired = 0
SYMMETRY Symmetry
SPECIFICATION Spec
INVARIANTS
  GrantNeverForks
\* with the ids used up and every token revoked nothing is left to do
CHECK_DEADLOCK FALSE
