------------------------------ MODULE MCClients ------------------------------
(* Small instances of Clients: mixes of operations that run together.  *)
EXTENDS Clients, TLC

Document(grants, public, responses, scopes) ==
  [grants |-> grants, public |-> public, uris |-> "good", responses |-> responses, scopes |-> scopes]

\* Confidential clients with fewer than all scopes named, and public ones; registration
\* refuses the last three, for a grant or for a response type without the code grant
Documents ==
  {Document({"code"}, FALSE, "none", scopes) : scopes \in SUBSET Scope \ {Scope}}
    \cup {Document({"code"}, TRUE, "code", {}), Document({"credentials"}, TRUE, "none", {}),
          Document({"exchange"}, TRUE, "none", {}), Document({"device"}, TRUE, "code", {})}

Mix(n, operations) == [clients |-> n, ops |-> operations]

Mixes ==
  {Mix(2, {"createToken", "revokeToken", "register", "expiry", "failure"}),
   Mix(1, {"createToken", "register", "selfUpdate", "selfDelete", "delete"}),
   Mix(1, {"createToken", "register", "selfUpdate", "update"}),
   Mix(1, {"create", "update", "delete"}),
   Mix(1, {"create", "update", "validate"}),
   Mix(2, {"create", "delete", "validate", "expiry"})}

Symmetry ==
  Permutations(Request) \cup Permutations(Client) \cup Permutations(Replica)
    \cup Permutations(Secret) \cup Permutations(Scope)
=============================================================================
