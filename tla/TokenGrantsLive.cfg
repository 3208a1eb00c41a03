CONSTANTS
  None = None
  c1 = c1
  c2 = c2
  Client = {c1, c2}
  User = {u1}
  Scope = {"read", "write"}
  Code = {f1}
  AccessId = {a1, a2}
  RefreshId = {r1, r2}
  Request = {p1, p2}
  GrantTypes <- MCGrantTypes
  Scopes <- MCScopes
  Operations = {"authorize", "exchange", "refresh", "revoke",
                "client_credentials", "token-exchange"}
  Faults = FALSE
  MaxExpired = 0
SPECIFICATION FairSpec
INVARIANTS
  TokensWithinGrant
PROPERTIES
  ReuseKillsGrant
\* with the ids used up and every token revoked nothing is left to do
CHECK_DEADLOCK FALSE
