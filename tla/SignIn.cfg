SPECIFICATION Spec
CONSTANTS
  User = {u1}
  Browser = {b1}
  Session = {s1, s2}
  Scope = {read, write}
  Secret = {k1, k2}
  Recovery = {v1, v2}
  Request = {p1, p2}
  None = None
  MaxStep = 2
  MaxMFAFailures = 2
  Workload <- Mixes
INVARIANTS
  CodeCountsOnce
  AuthenticatorProven
  SecondFactorGuessesBounded
  PasswordSessionsEnd
  ConsentRemembered
  CodesConsented
  SuspendedSessionIssuesNoCode
SYMMETRY Symmetry
\* with the secrets, codes and session tokens used up nothing is left to do
CHECK_DEADLOCK FALSE
