--------------------------- MODULE MCTokenGrants ---------------------------
(* Small instances of TokenGrants for TLC *)
EXTENDS TokenGrants, TLC

CONSTANTS c1, c2

\* c1 uses every grant; c2 may only refresh and exchange tokens
MCGrantTypes == [c \in Client |-> IF c = c1
  THEN {"authorization_code", "refresh_token", "client_credentials", "token-exchange"}
  ELSE {"refresh_token", "token-exchange"}]

\* every client is registered for every scope except c2, which lacks "write"
MCScopes == [c \in Client |-> IF c = c1 THEN Scope ELSE Scope \ {"write"}]

\* Slots and tokens are interchangeable
Symmetry == Permutations(Request) \cup Permutations(AccessId) \cup Permutations(RefreshId)
=============================================================================
