SPECIFICATION FairSpec
CONSTANTS
  m1 = m1
  m2 = m2
  Mail = {m1, m2}
  Replica = {r1, r2}
  None = None
  MaxAttempts = 2
  BatchLimit = 2
  Load <- Loads
INVARIANTS DeliveriesBounded
PROPERTIES ImplementsOutbox MailSettles
CHECK_DEADLOCK FALSE
