SPECIFICATION Spec
CONSTANTS
  Client = {c1, c2}
  Token = {t1}
  Secret = {s1, s2}
  Scope = {x1, x2}
  Metadata <- Documents
  Uses = {1, 2}
  Replica = {k1, k2}
  CacheLimit = 1
  Request = {p1, p2}
  None = None
  Workload <- Mixes
INVARIANTS
  TypeOK
  RegistrationsBounded
  SelfRegisteredWithinLimits
  DeletedStaysDeleted
  AcceptedSecretWasCurrent
SYMMETRY Symmetry
\* with the ids, tokens and secrets used up nothing is left to do
CHECK_DEADLOCK FALSE
