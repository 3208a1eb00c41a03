CONSTANTS
  None = None
  Key = {k1}
  Body = {b1, b2}
  Run = {i1, i2, i3}
  Request = {p1, p2, p3}
  Faults = TRUE
SYMMETRY Symmetry
SPECIFICATION Spec
INVARIANTS
  TwiceOnlyWhenLost
  ReplayIsFaithful
  OneRunAtATime
PROPERTIES
  ResponseIsKept
\* with the row ids used up nothing is left to do
CHECK_DEADLOCK FALSE
