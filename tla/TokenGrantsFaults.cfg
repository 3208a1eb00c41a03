CONSTANTS
  None = None
  c1 = c1
  c2 = c2
  Client = {c1}
  User = {u1}
  Scope = {"read"}
  Code = {f1}
  AccessId = {a1, a2}
  RefreshId = {r1, r2}
  Request = {p1, p2}
  GrantTypes <- MCGrantTypes
  Scopes <- MCScopes
  Operations = {"authorize", "exchange", "refresh", "revoke", "cleanup",
                "resetPassword", "deleteClient"}
  Faults = TRUE
  MaxExpired = 2
SYMMETRY Symmetry
SPECIFICATION Spec
PROPERTIES
  ImplementsGrant
INVARIANTS
  RevokedGrantStaysDead
  CutGrantCannotRefresh
\* with the ids used up and every token revoked nothing is left to do
CHECK_DEADLOCK FALSE
