------------------------------- MODULE MCRbac -------------------------------
(* Small instances of Rbac: mixes of operations that run together.  *)
EXTENDS Rbac, TLC

Assigning   == {"check", "assign", "revoke", "addPermission"}
Updating    == {"check", "updateRole"}
Failing     == {"updateRole", "addPermission", "failure"}
Deleting    == {"deleteRole", "updateRole"}
Replacing   == {"deleteRole", "createRole"}
Permitting  == {"check", "createPermission", "updatePermission", "deletePermission"}
Withdrawing == {"deletePermission", "updateRole"}
Lapsing     == {"deleteRole", "assign", "revoke", "expiry"}
Removing    == {"check", "removePermission", "expiry"}

Mixes ==
  {Assigning, Updating, Failing, Deleting, Replacing, Permitting, Withdrawing, Lapsing, Removing}

\* Seeded permissions and super admins are told apart from the others
Symmetry ==
  Permutations(Request) \cup Permutations(Role) \cup Permutations(Name)
    \cup Permutations(Permission \ SystemPermission)
=============================================================================
