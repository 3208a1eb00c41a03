------------------------------ MODULE MCTenants ------------------------------
(* Small instances of Tenants: mixes of operations that run together.  *)
EXTENDS Tenants, TLC

Managing  == {"create", "update", "delete", "failure"}
Moving    == {"update", "request"}
Replacing == {"create", "delete", "request", "failure"}

Mixes == {Managing, Moving, Replacing}

Symmetry ==
  Permutations(Tenant) \cup Permutations(Request) \cup Permutations(Domain)
    \cup Permutations(Replica)
=============================================================================
