CONSTANTS
  None = None
  DeviceCode = {d1}
  Client = {c1, c2}
  User = {u1, u2}
  Token = {t1, t2}
  Poller = {p1, p2}
  Decider = {q1, q2}
  Faults = TRUE
SYMMETRY Symmetry
SPECIFICATION Spec
INVARIANTS
  IssuedToApprover
  SingleUseInTurn
  DecisionIsKept
\* with the codes used up and expired nothing is left to do
CHECK_DEADLOCK FALSE
