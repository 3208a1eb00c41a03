SPECIFICATION Spec
CONSTANTS
  User = {u1, u2}
  Address = {e1, e2}
  Password = {w1, w2}
  Link = {l1, l2, l3}
  Code = {c1, c2}
  Request = {p1, p2}
  None = None
  Deleted = Deleted
  MaxLoginAttempts = 2
  MaxPasswordResetsPerHour = 1
  Workload <- Mixes
INVARIANTS LinkWorksOnce VerifiedIsProved ResetMailsBounded PasswordTakesEffectInTurn AdminLockHolds GuessesBounded
SYMMETRY Symmetry
CHECK_DEADLOCK FALSE
