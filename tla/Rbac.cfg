SPECIFICATION Spec
CONSTANTS
  User = {u1, u2}
  SuperAdmin = {u2}
  Role = {r1, r2}
  Name = {n1}
  Permission = {q1, q2}
  SystemPermission = {q2}
  Request = {p1, p2}
  None = None
  Workload <- Mixes
INVARIANTS AllowedWasHeld RoleUpdateTakesEffect AssignedRolesExist
SYMMETRY Symmetry
\* with no permission left to check nothing may be left to do
CHECK_DEADLOCK FALSE
