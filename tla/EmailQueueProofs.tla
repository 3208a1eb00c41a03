-------------------------- MODULE EmailQueueProofs --------------------------
(***************************************************************************)
(* The e-mail queue implements the outbox for any number of mails,         *)
(* replicas, attempts and faults.  The argument counts chances: the status *)
(* of a mail that waits to be claimed, and every worker that has claimed   *)
(* it and not handed it over, is one chance to hand it over; only a        *)
(* takeover of a stale claim adds one.                                     *)
(***************************************************************************)
EXTENDS EmailQueue, FiniteSetTheorems, TLAPS

Has(r, m) == m \in batch[r] \/ current[r] = m

\* What the attempts columns and their copies say
Tries ==
  /\ \A m \in Mail :
       /\ status[m] \in {"none", "pending", "sending"} => attempts[m] < MaxAttempts
       /\ status[m] # "sent" => attempts[m] <= refused[m]
  /\ \A r \in Replica, m \in Mail :
       m \in batch[r] => copy[r][m] < MaxAttempts /\ copy[r][m] <= refused[m]
  /\ \A r \in Replica, m \in Mail :
       current[r] = m /\ reply[r] = "error" => copy[r][m] <= refused[m]

\* Mails that are not queued yet, and the bodies of those that are
Kept ==
  /\ \A m \in outbox : status[m] = "none"
  /\ \A m \in Mail : status[m] \in {"pending", "sending"} => m \in body
  /\ \A r \in Replica, m \in Mail : Has(r, m) => status[m] # "none"
  /\ \A r \in Replica : current[r] # None => reply[r] # "none" /\ current[r] \notin batch[r]

\* A mail nobody took over has one worker, and its row is as that worker left it
Alone ==
  \A m \in Mail, r, q \in Replica :
    reclaimed[m] = 0 /\ Has(r, m) => status[m] = "sending" /\ (Has(q, m) => q = r)

\* The workers that may still hand m over or send it back
Chances(m) == {r \in Replica : m \in batch[r] \/ (current[r] = m /\ reply[r] = "error")}

Waiting(m) == IF status[m] \in {"none", "pending"} THEN 1 ELSE 0

Counted ==
  \A m \in Mail : delivered[m] + Cardinality(Chances(m)) + Waiting(m) <= 1 + reclaimed[m]

QueueInv == TypeOK /\ Tries /\ Kept /\ Alone /\ Counted

-----------------------------------------------------------------------------
\* Tries keep the attempts within max_attempts.
LEMMA TypeNext ==
  ASSUME QueueInv, [Next]_vars
  PROVE  TypeOK'
<1> USE QueueAssumption DEF QueueInv, TypeOK, TableTypes, WorkerTypes, HistoryTypes, Status, Tries, table, worker, history
<1>1. ASSUME NEW m \in Mail, SendEmail(m) PROVE TypeOK'
  BY <1>1 DEF SendEmail
<1>2. ASSUME NEW m \in Mail, BecomesDue(m) PROVE TypeOK'
  BY <1>2 DEF BecomesDue
<1>3. ASSUME NEW m \in Mail, BecomesStale(m) PROVE TypeOK'
  BY <1>3 DEF BecomesStale
<1>4. ASSUME NEW r \in Replica, GetPendingEmails(r) PROVE TypeOK'
  BY <1>4 DEF GetPendingEmails, Claims, Claimable, Stale, Idle
<1>5. ASSUME NEW r \in Replica, NEW m \in Mail, SendAccepted(r, m) PROVE TypeOK'
  BY <1>5 DEF SendAccepted, Tried
<1>6. ASSUME NEW r \in Replica, NEW m \in Mail, SendRefused(r, m) PROVE TypeOK'
  BY <1>6 DEF SendRefused, Tried
<1>7. ASSUME NEW r \in Replica, NEW m \in Mail, SendRejectedLate(r, m) PROVE TypeOK'
  BY <1>7 DEF SendRejectedLate, Tried
<1>8. ASSUME NEW r \in Replica, NEW m \in Mail, SendHangs(r, m) PROVE TypeOK'
  BY <1>8 DEF SendHangs, Tried
<1>9. ASSUME NEW r \in Replica, Update(r) PROVE TypeOK'
  BY <1>9 DEF Update, Outcome, Bodies, Finish
<1>10. ASSUME NEW r \in Replica, UpdateFails(r) PROVE TypeOK'
  BY <1>10 DEF UpdateFails, Finish
<1>11. ASSUME NEW r \in Replica, Shutdown(r) PROVE TypeOK'
  BY <1>11 DEF Shutdown
<1>12. ASSUME NEW r \in Replica, Exit(r) PROVE TypeOK'
  BY <1>12 DEF Exit, Lose, Finish
<1>13. ASSUME NEW r \in Replica, Crash(r) PROVE TypeOK'
  BY <1>13 DEF Crash, Lose, Finish
<1>14. ASSUME NEW r \in Replica, Start(r) PROVE TypeOK'
  BY <1>14 DEF Start
<1>15. CASE UNCHANGED vars
  BY <1>15 DEF vars
<1> QED
  BY <1>1, <1>2, <1>3, <1>4, <1>5, <1>6, <1>7, <1>8, <1>9, <1>10, <1>11, <1>12, <1>13, <1>14, <1>15 DEF Next, Send

\* Copies are of rows with tries left.
LEMMA TriesNext ==
  ASSUME QueueInv, [Next]_vars
  PROVE  Tries'
<1> USE QueueAssumption DEF QueueInv, TypeOK, TableTypes, WorkerTypes, HistoryTypes, Status, Tries, Kept, table, worker, history
<1>1. ASSUME NEW m \in Mail, SendEmail(m) PROVE Tries'
  BY <1>1 DEF SendEmail
<1>2. ASSUME NEW m \in Mail, BecomesDue(m) PROVE Tries'
  BY <1>2 DEF BecomesDue
<1>3. ASSUME NEW m \in Mail, BecomesStale(m) PROVE Tries'
  BY <1>3 DEF BecomesStale
<1>4. ASSUME NEW r \in Replica, GetPendingEmails(r) PROVE Tries'
  BY <1>4 DEF GetPendingEmails, Claims, Claimable, Stale, Idle
<1>5. ASSUME NEW r \in Replica, NEW m \in Mail, SendAccepted(r, m) PROVE Tries'
  BY <1>5 DEF SendAccepted, Tried
<1>6. ASSUME NEW r \in Replica, NEW m \in Mail, SendRefused(r, m) PROVE Tries'
  BY <1>6 DEF SendRefused, Tried
<1>7. ASSUME NEW r \in Replica, NEW m \in Mail, SendRejectedLate(r, m) PROVE Tries'
  BY <1>7 DEF SendRejectedLate, Tried
<1>8. ASSUME NEW r \in Replica, NEW m \in Mail, SendHangs(r, m) PROVE Tries'
  BY <1>8 DEF SendHangs, Tried
<1>9. ASSUME NEW r \in Replica, Update(r) PROVE Tries'
  BY <1>9 DEF Update, Outcome, Bodies, Finish
<1>10. ASSUME NEW r \in Replica, UpdateFails(r) PROVE Tries'
  BY <1>10 DEF UpdateFails, Finish
<1>11. ASSUME NEW r \in Replica, Shutdown(r) PROVE Tries'
  BY <1>11 DEF Shutdown
<1>12. ASSUME NEW r \in Replica, Exit(r) PROVE Tries'
  BY <1>12 DEF Exit, Lose, Finish
<1>13. ASSUME NEW r \in Replica, Crash(r) PROVE Tries'
  BY <1>13 DEF Crash, Lose, Finish
<1>14. ASSUME NEW r \in Replica, Start(r) PROVE Tries'
  BY <1>14 DEF Start
<1>15. CASE UNCHANGED vars
  BY <1>15 DEF vars
<1> QED
  BY <1>1, <1>2, <1>3, <1>4, <1>5, <1>6, <1>7, <1>8, <1>9, <1>10, <1>11, <1>12, <1>13, <1>14, <1>15 DEF Next, Send

\* Rows are claimed after they are queued.
LEMMA KeptNext ==
  ASSUME QueueInv, [Next]_vars
  PROVE  Kept'
<1> USE QueueAssumption DEF QueueInv, TypeOK, TableTypes, WorkerTypes, HistoryTypes, Status, Kept, Has, table, worker, history
<1>1. ASSUME NEW m \in Mail, SendEmail(m) PROVE Kept'
  BY <1>1 DEF SendEmail
<1>2. ASSUME NEW m \in Mail, BecomesDue(m) PROVE Kept'
  BY <1>2 DEF BecomesDue
<1>3. ASSUME NEW m \in Mail, BecomesStale(m) PROVE Kept'
  BY <1>3 DEF BecomesStale
<1>4. ASSUME NEW r \in Replica, GetPendingEmails(r) PROVE Kept'
  BY <1>4 DEF GetPendingEmails, Claims, Claimable, Stale, Idle
<1>5. ASSUME NEW r \in Replica, NEW m \in Mail, SendAccepted(r, m) PROVE Kept'
  BY <1>5 DEF SendAccepted, Tried
<1>6. ASSUME NEW r \in Replica, NEW m \in Mail, SendRefused(r, m) PROVE Kept'
  BY <1>6 DEF SendRefused, Tried
<1>7. ASSUME NEW r \in Replica, NEW m \in Mail, SendRejectedLate(r, m) PROVE Kept'
  BY <1>7 DEF SendRejectedLate, Tried
<1>8. ASSUME NEW r \in Replica, NEW m \in Mail, SendHangs(r, m) PROVE Kept'
  BY <1>8 DEF SendHangs, Tried
<1>9. ASSUME NEW r \in Replica, Update(r) PROVE Kept'
  BY <1>9 DEF Update, Outcome, Bodies, Finish
<1>10. ASSUME NEW r \in Replica, UpdateFails(r) PROVE Kept'
  BY <1>10 DEF UpdateFails, Finish
<1>11. ASSUME NEW r \in Replica, Shutdown(r) PROVE Kept'
  BY <1>11 DEF Shutdown
<1>12. ASSUME NEW r \in Replica, Exit(r) PROVE Kept'
  BY <1>12 DEF Exit, Lose, Finish
<1>13. ASSUME NEW r \in Replica, Crash(r) PROVE Kept'
  BY <1>13 DEF Crash, Lose, Finish
<1>14. ASSUME NEW r \in Replica, Start(r) PROVE Kept'
  BY <1>14 DEF Start
<1>15. CASE UNCHANGED vars
  BY <1>15 DEF vars
<1> QED
  BY <1>1, <1>2, <1>3, <1>4, <1>5, <1>6, <1>7, <1>8, <1>9, <1>10, <1>11, <1>12, <1>13, <1>14, <1>15 DEF Next, Send

\* Only a takeover gives a mail a second worker.
LEMMA AloneNext ==
  ASSUME QueueInv, [Next]_vars
  PROVE  Alone'
<1> USE QueueAssumption DEF QueueInv, TypeOK, TableTypes, WorkerTypes, HistoryTypes, Status, Kept, Alone, Has, table, worker, history
<1>1. ASSUME NEW m \in Mail, SendEmail(m) PROVE Alone'
  BY <1>1 DEF SendEmail
<1>2. ASSUME NEW m \in Mail, BecomesDue(m) PROVE Alone'
  BY <1>2 DEF BecomesDue
<1>3. ASSUME NEW m \in Mail, BecomesStale(m) PROVE Alone'
  BY <1>3 DEF BecomesStale
<1>4. ASSUME NEW r \in Replica, GetPendingEmails(r) PROVE Alone'
  BY <1>4 DEF GetPendingEmails, Claims, Claimable, Stale, Idle
<1>5. ASSUME NEW r \in Replica, NEW m \in Mail, SendAccepted(r, m) PROVE Alone'
  BY <1>5 DEF SendAccepted, Tried
<1>6. ASSUME NEW r \in Replica, NEW m \in Mail, SendRefused(r, m) PROVE Alone'
  BY <1>6 DEF SendRefused, Tried
<1>7. ASSUME NEW r \in Replica, NEW m \in Mail, SendRejectedLate(r, m) PROVE Alone'
  BY <1>7 DEF SendRejectedLate, Tried
<1>8. ASSUME NEW r \in Replica, NEW m \in Mail, SendHangs(r, m) PROVE Alone'
  BY <1>8 DEF SendHangs, Tried
<1>9. ASSUME NEW r \in Replica, Update(r) PROVE Alone'
  BY <1>9 DEF Update, Outcome, Bodies, Finish
<1>10. ASSUME NEW r \in Replica, UpdateFails(r) PROVE Alone'
  BY <1>10 DEF UpdateFails, Finish
<1>11. ASSUME NEW r \in Replica, Shutdown(r) PROVE Alone'
  BY <1>11 DEF Shutdown
<1>12. ASSUME NEW r \in Replica, Exit(r) PROVE Alone'
  BY <1>12 DEF Exit, Lose, Finish
<1>13. ASSUME NEW r \in Replica, Crash(r) PROVE Alone'
  BY <1>13 DEF Crash, Lose, Finish
<1>14. ASSUME NEW r \in Replica, Start(r) PROVE Alone'
  BY <1>14 DEF Start
<1>15. CASE UNCHANGED vars
  BY <1>15 DEF vars
<1> QED
  BY <1>1, <1>2, <1>3, <1>4, <1>5, <1>6, <1>7, <1>8, <1>9, <1>10, <1>11, <1>12, <1>13, <1>14, <1>15 DEF Next, Send

-----------------------------------------------------------------------------
\* The chances of a mail are finitely many.
LEMMA ChancesFinite ==
  ASSUME NEW m
  PROVE  IsFiniteSet(Chances(m)) /\ Cardinality(Chances(m)) \in Nat
BY QueueAssumption, FS_Subset, FS_CardinalityType DEF Chances

\* A worker that gains or loses its chance changes the count by one; fewer workers, fewer chances.
LEMMA ChancesChange ==
  ASSUME NEW m, NEW r \in Replica
  PROVE  /\ r \notin Chances(m) => Cardinality(Chances(m) \cup {r}) = Cardinality(Chances(m)) + 1
         /\ r \in Chances(m) => Cardinality(Chances(m) \ {r}) = Cardinality(Chances(m)) - 1
         /\ \A S \in SUBSET Chances(m) : Cardinality(S) \in Nat /\ Cardinality(S) <= Cardinality(Chances(m))
<1>1. IsFiniteSet(Chances(m))
  BY ChancesFinite
<1> QED
  BY <1>1, FS_AddElement, FS_RemoveElement, FS_Subset, FS_CardinalityType

\* A step that leaves no mail more chances or deliveries keeps the count.
LEMMA CountedKept ==
  ASSUME QueueInv, TypeOK', NEW x \in Mail,
         Chances(x)' \subseteq Chances(x), Waiting(x)' = Waiting(x),
         UNCHANGED <<delivered, reclaimed>>
  PROVE  (delivered[x] + Cardinality(Chances(x)) + Waiting(x) <= 1 + reclaimed[x])'
<1>1. Cardinality(Chances(x)') \in Nat /\ Cardinality(Chances(x)') <= Cardinality(Chances(x))
  <2>1. IsFiniteSet(Chances(x))
    BY ChancesFinite
  <2> QED
    BY <2>1, FS_Subset, FS_CardinalityType
<1>2. Cardinality(Chances(x)) \in Nat /\ Waiting(x) \in Nat /\ delivered[x] \in Nat /\ reclaimed[x] \in Nat
  BY ChancesFinite DEF Waiting, QueueInv, TypeOK, HistoryTypes
<1>3. delivered[x] + Cardinality(Chances(x)) + Waiting(x) <= 1 + reclaimed[x]
  BY DEF QueueInv, Counted
<1> QED
  BY <1>1, <1>2, <1>3

\* Only a takeover adds a chance to hand a mail over.
LEMMA CountedNext ==
  ASSUME QueueInv, [Next]_vars
  PROVE  Counted'
<1> USE QueueAssumption DEF QueueInv, TypeOK, TableTypes, WorkerTypes, HistoryTypes, Status, Kept,
                            table, worker, history
<1>0. TypeOK'
  BY TypeNext
<1> SUFFICES ASSUME NEW x \in Mail
             PROVE  (delivered[x] + Cardinality(Chances(x)) + Waiting(x) <= 1 + reclaimed[x])'
  BY DEF Counted
<1> DEFINE Goal == (delivered[x] + Cardinality(Chances(x)) + Waiting(x) <= 1 + reclaimed[x])'
<1>a. /\ delivered[x] \in Nat /\ reclaimed[x] \in Nat /\ Cardinality(Chances(x)) \in Nat
      /\ delivered[x] + Cardinality(Chances(x)) + Waiting(x) <= 1 + reclaimed[x]
  BY ChancesFinite DEF Counted
<1>1. ASSUME NEW m \in Mail, SendEmail(m) \/ BecomesDue(m) \/ BecomesStale(m) PROVE Goal
  <2>1. Chances(x)' = Chances(x) /\ Waiting(x)' = Waiting(x) /\ UNCHANGED <<delivered, reclaimed>>
    BY <1>1 DEF SendEmail, BecomesDue, BecomesStale, Chances, Waiting
  <2> QED
    BY <1>0, <2>1, CountedKept
<1>2. ASSUME NEW r \in Replica, GetPendingEmails(r) PROVE Goal
  <2>1. PICK C \in Claims \ {{}} :
          /\ batch' = [batch EXCEPT ![r] = C]
          /\ status' = [m \in Mail |-> IF m \in C THEN "sending" ELSE status[m]]
          /\ reclaimed' = [m \in Mail |-> reclaimed[m] + IF m \in C /\ Stale(m) THEN 1 ELSE 0]
    BY <1>2 DEF GetPendingEmails
  <2>2. Idle(r) /\ UNCHANGED <<current, reply, delivered>>
    BY <1>2 DEF GetPendingEmails
  <2>3. C \subseteq Mail /\ \A m \in C : Claimable(m)
    BY <2>1 DEF Claims
  <2>4. CASE x \in C
    <3>1. r \notin Chances(x) /\ Chances(x)' = Chances(x) \cup {r}
      BY <2>1, <2>2, <2>3, <2>4 DEF Chances, Idle
    <3>2. Cardinality(Chances(x))' = Cardinality(Chances(x)) + 1
      BY <3>1, ChancesChange
    <3>3. Waiting(x)' = 0
      BY <2>1, <2>4 DEF Waiting
    <3>4. CASE Stale(x)
      <4>1. Waiting(x) = 0 /\ reclaimed'[x] = reclaimed[x] + 1
        BY <2>1, <2>4, <3>4 DEF Waiting, Stale
      <4> QED
        BY <1>a, <2>2, <3>2, <3>3, <4>1
    <3>5. CASE ~Stale(x)
      <4>1. Waiting(x) = 1 /\ reclaimed'[x] = reclaimed[x]
        BY <2>1, <2>3, <2>4, <3>5 DEF Waiting, Claimable
      <4> QED
        BY <1>a, <2>2, <3>2, <3>3, <4>1
    <3> QED
      BY <3>4, <3>5
  <2>5. CASE x \notin C
    <3>1. Chances(x)' = Chances(x) /\ Waiting(x)' = Waiting(x)
      BY <2>1, <2>2, <2>5 DEF Chances, Idle, Waiting
    <3>2. reclaimed'[x] = reclaimed[x]
      BY <2>1, <2>5
    <3> QED
      BY <1>a, <2>2, <3>1, <3>2
  <2> QED
    BY <2>4, <2>5
<1>3. ASSUME NEW r \in Replica, NEW m \in Mail, Send(r), NEW a, NEW taken \in BOOLEAN, Tried(r, m, a, taken),
             a # "error", UNCHANGED <<status, reclaimed>>
      PROVE  Goal
  <2>1. CASE x = m
    <3>1. r \in Chances(x) /\ Chances(x)' = Chances(x) \ {r}
      BY <1>3, <2>1 DEF Chances, Tried
    <3>2. Cardinality(Chances(x))' = Cardinality(Chances(x)) - 1
      BY <3>1, ChancesChange
    <3>3. Waiting(x)' = Waiting(x) /\ reclaimed'[x] = reclaimed[x] /\ delivered'[x] \in Nat
            /\ delivered'[x] <= delivered[x] + 1
      BY <1>3, <2>1 DEF Tried, Waiting
    <3> QED
      BY <1>a, <3>2, <3>3 DEF Waiting
  <2>2. CASE x # m
    <3>1. Chances(x)' = Chances(x) /\ Waiting(x)' = Waiting(x) /\ delivered'[x] = delivered[x]
      BY <1>3, <2>2 DEF Chances, Tried, Waiting
    <3> QED
      BY <1>a, <1>3, <3>1
  <2> QED
    BY <2>1, <2>2
<1>4. ASSUME NEW r \in Replica, NEW m \in Mail, SendRefused(r, m) PROVE Goal
  <2>1. Chances(x)' = Chances(x) /\ Waiting(x)' = Waiting(x)
    BY <1>4 DEF SendRefused, Tried, Chances, Waiting
  <2>2. delivered'[x] = delivered[x] /\ reclaimed' = reclaimed
    BY <1>4 DEF SendRefused, Tried
  <2> QED
    BY <1>a, <2>1, <2>2
<1>5. ASSUME NEW r \in Replica, Send(r) PROVE Goal
  <2>1. ASSUME NEW m \in Mail, SendAccepted(r, m) PROVE Goal
    BY <1>3, <1>5, <2>1 DEF SendAccepted
  <2>2. ASSUME NEW m \in Mail, SendRejectedLate(r, m) PROVE Goal
    BY <1>3, <1>5, <2>2 DEF SendRejectedLate
  <2>3. ASSUME NEW m \in Mail, SendHangs(r, m) PROVE Goal
    BY <1>3, <1>5, <2>3 DEF SendHangs
  <2> QED
    BY <1>4, <1>5, <2>1, <2>2, <2>3 DEF Send
<1>6. ASSUME NEW r \in Replica, Update(r) PROVE Goal
  <2> DEFINE m == current[r]
  <2>1. m \in Mail /\ m \notin batch[r] /\ UNCHANGED <<batch, delivered, reclaimed>>
          /\ current' = [current EXCEPT ![r] = None] /\ reply' = [reply EXCEPT ![r] = "none"]
    BY <1>6 DEF Update, Finish
  <2>2. CASE x = m /\ reply[r] = "error"
    <3>1. r \in Chances(x) /\ Chances(x)' = Chances(x) \ {r}
      BY <2>1, <2>2 DEF Chances
    <3>2. Cardinality(Chances(x))' = Cardinality(Chances(x)) - 1
      BY <3>1, ChancesChange
    <3>3. Waiting(x) \in {0, 1} /\ Waiting(x)' \in {0, 1}
      BY DEF Waiting
    <3> QED
      BY <1>a, <2>1, <3>2, <3>3
  <2>3. CASE x = m /\ reply[r] # "error"
    <3>1. reply[r] = "ok"
      BY <1>6, <2>1, <2>3 DEF Update
    <3>2. Chances(x)' = Chances(x)
      BY <2>1, <2>3, <3>1 DEF Chances
    <3>3. Waiting(x)' = 0 /\ Waiting(x) \in {0, 1}
      <4>1. status' = [status EXCEPT ![m] = "sent"]
        BY <1>6, <3>1 DEF Update, Outcome
      <4> QED
        BY <2>1, <2>3, <4>1 DEF Waiting
    <3> QED
      BY <1>a, <2>1, <3>2, <3>3
  <2>4. CASE x # m
    <3>1. Chances(x)' = Chances(x) /\ Waiting(x)' = Waiting(x)
      BY <1>6, <2>1, <2>4 DEF Update, Chances, Waiting
    <3> QED
      BY <1>a, <2>1, <3>1
  <2> QED
    BY <2>2, <2>3, <2>4
<1>7. ASSUME NEW r \in Replica, UpdateFails(r) \/ Exit(r) \/ Crash(r) PROVE Goal
  <2>1. Chances(x)' \subseteq Chances(x)
    BY <1>7 DEF UpdateFails, Exit, Crash, Lose, Finish, Chances
  <2>2. Waiting(x)' = Waiting(x) /\ UNCHANGED <<delivered, reclaimed>>
    BY <1>7 DEF UpdateFails, Exit, Crash, Lose, Finish, Waiting
  <2> QED
    BY <1>0, <2>1, <2>2, CountedKept
<1>8. ASSUME NEW r \in Replica, Shutdown(r) \/ Start(r) PROVE Goal
  <2>1. Chances(x)' = Chances(x) /\ Waiting(x)' = Waiting(x) /\ UNCHANGED <<delivered, reclaimed>>
    BY <1>8 DEF Shutdown, Start, Chances, Waiting
  <2> QED
    BY <1>0, <2>1, CountedKept
<1>9. CASE UNCHANGED vars
  <2>1. Chances(x)' = Chances(x) /\ Waiting(x)' = Waiting(x) /\ UNCHANGED <<delivered, reclaimed>>
    BY <1>9 DEF vars, Chances, Waiting
  <2> QED
    BY <1>0, <2>1, CountedKept
<1> QED
  BY <1>1, <1>2, <1>5, <1>6, <1>7, <1>8, <1>9 DEF Next

-----------------------------------------------------------------------------
\* The invariant holds at the start.
LEMMA QueueInvInit ==
  ASSUME Init
  PROVE  QueueInv
<1> USE QueueAssumption
<1>1. outbox \subseteq Mail /\ faults \in Nat
  BY DEF Init
<1>2. TypeOK
  BY <1>1 DEF Init, TypeOK, TableTypes, WorkerTypes, HistoryTypes, Status
<1>3. Tries /\ Kept /\ Alone
  BY <1>1 DEF Init, Tries, Kept, Alone, Has
<1>4. Counted
  <2>1. \A m \in Mail : Chances(m) = {}
    BY DEF Init, Chances
  <2>2. Cardinality({}) = 0
    BY FS_EmptySet
  <2>3. \A m \in Mail : Cardinality(Chances(m)) = 0
    BY <2>1, <2>2
  <2>4. \A m \in Mail : delivered[m] = 0 /\ reclaimed[m] = 0 /\ Waiting(m) = 1
    BY DEF Init, Waiting
  <2> QED
    BY <2>3, <2>4 DEF Counted
<1> QED
  BY <1>2, <1>3, <1>4 DEF QueueInv

\* Every reachable state satisfies the invariant.
LEMMA QueueInvariant == Spec => []QueueInv
<1>1. Init => QueueInv
  BY QueueInvInit
<1>2. QueueInv /\ [Next]_vars => QueueInv'
  BY TypeNext, TriesNext, KeptNext, AloneNext, CountedNext DEF QueueInv
<1> QED
  BY <1>1, <1>2, PTL DEF Spec

\* The rows, workers and history keep their types: no interleaving of claims and saves takes
\* the attempts of a row past max_attempts (processEmail).
THEOREM TypeCorrect == Spec => []TypeOK
BY QueueInvariant, PTL DEF QueueInv

\* A mail is delivered at most once more than it was taken over, for any number of workers
\* that hold the row at the same time (GetPendingEmails, processEmail).
THEOREM DeliveriesAreBounded == Spec => []DeliveriesBounded
<1>1. QueueInv => DeliveriesBounded
  <2> SUFFICES ASSUME QueueInv, NEW m \in Mail
               PROVE  delivered[m] <= 1 + reclaimed[m]
    BY DEF DeliveriesBounded
  <2>1. delivered[m] \in Nat /\ reclaimed[m] \in Nat /\ Waiting(m) \in Nat
    BY DEF QueueInv, TypeOK, HistoryTypes, Waiting
  <2>2. delivered[m] + Cardinality(Chances(m)) + Waiting(m) <= 1 + reclaimed[m]
    BY DEF QueueInv, Counted
  <2> QED
    BY <2>1, <2>2, ChancesFinite
<1> QED
  BY <1>1, QueueInvariant, PTL

-----------------------------------------------------------------------------
(* The refinement *)

\* A mail that nobody took over and that a worker may still hand over is queued, and
\* the mail server has not taken it.
LEMMA ChanceOpen ==
  ASSUME QueueInv, NEW m \in Mail, NEW r \in Replica, m \in batch[r], m \notin Contested
  PROVE  Stage[m] = "queued" /\ delivered[m] = 0
<1>1. reclaimed[m] = 0 /\ delivered[m] \in Nat /\ Waiting(m) \in Nat
  BY DEF Contested, QueueInv, TypeOK, HistoryTypes, Waiting
<1>2. status[m] = "sending"
  BY <1>1 DEF QueueInv, Alone, Has
<1>3. r \in Chances(m)
  BY DEF Chances
<1>4. Cardinality(Chances(m)) >= 1
  <2>1. Cardinality(Chances(m) \ {r}) = Cardinality(Chances(m)) - 1
    BY <1>3, ChancesChange
  <2>2. Cardinality(Chances(m) \ {r}) \in Nat
    BY ChancesChange
  <2> QED
    BY <2>1, <2>2, ChancesFinite
<1>5. delivered[m] + Cardinality(Chances(m)) + Waiting(m) <= 1 + reclaimed[m]
  BY DEF QueueInv, Counted
<1> QED
  BY <1>1, <1>2, <1>4, <1>5, ChancesFinite DEF Stage

\* Every step of the queue is a step of the outbox or leaves it as it is.
LEMMA StepRefines ==
  ASSUME QueueInv, QueueInv', [Next]_vars
  PROVE  [Promise!Next]_(Promise!vars)
<1> USE QueueAssumption DEF table, worker, history
<1> DEFINE Same == UNCHANGED <<Stage, body, delivered, refused, Contested>>
<1>a. TypeOK /\ TypeOK'
  BY DEF QueueInv
<1>b. ASSUME Same PROVE [Promise!Next]_(Promise!vars)
  BY <1>b DEF Promise!vars
<1>1. ASSUME NEW m \in Mail, SendEmail(m) PROVE Promise!Queue(m)
  <2>1. status[m] = "none"
    BY <1>1 DEF SendEmail, QueueInv, Kept
  <2>2. Stage[m] = "none" /\ Stage' = [Stage EXCEPT ![m] = "queued"]
    BY <1>1, <1>a, <2>1 DEF SendEmail, Stage, TypeOK, TableTypes
  <2> QED
    BY <1>1, <2>2 DEF SendEmail, Promise!Queue, Contested
<1>2. ASSUME NEW m \in Mail, BecomesDue(m) \/ BecomesStale(m) PROVE Same
  BY <1>2 DEF BecomesDue, BecomesStale, Stage, Contested
<1>3. ASSUME NEW r \in Replica, GetPendingEmails(r)
      PROVE  \E mails \in SUBSET Mail : Promise!TakeOver(mails)
  <2>1. PICK C \in Claims \ {{}} :
          /\ status' = [m \in Mail |-> IF m \in C THEN "sending" ELSE status[m]]
          /\ reclaimed' = [m \in Mail |-> reclaimed[m] + IF m \in C /\ Stale(m) THEN 1 ELSE 0]
    BY <1>3 DEF GetPendingEmails
  <2>2. C \subseteq Mail /\ \A m \in C : status[m] \in {"pending", "sending"}
    BY <2>1 DEF Claims, Claimable, Stale
  <2> DEFINE mails == {m \in C : Stale(m)}
  <2>3. Stage' = Stage
    BY <2>1, <2>2 DEF Stage
  <2>4. Contested' = Contested \cup mails
    BY <1>a, <2>1, <2>2 DEF Contested, TypeOK, HistoryTypes
  <2>5. mails \in SUBSET Mail /\ \A m \in mails : Stage[m] = "queued"
    BY <2>2 DEF Stage
  <2>6. UNCHANGED <<body, delivered, refused>>
    BY <1>3 DEF GetPendingEmails
  <2> QED
    BY <2>3, <2>4, <2>5, <2>6 DEF Promise!TakeOver
<1>4. ASSUME NEW r \in Replica, NEW m \in Mail, m \in batch[r], UNCHANGED <<table, reclaimed>>,
             delivered' = [delivered EXCEPT ![m] = @ + 1], UNCHANGED refused
      PROVE  Promise!HandOver(m)
  <2>1. UNCHANGED <<Stage, body, Contested>>
    BY <1>4 DEF Stage, Contested
  <2> QED
    BY <1>4, <2>1, ChanceOpen DEF Promise!HandOver
<1>5. ASSUME NEW r \in Replica, NEW m \in Mail, SendAccepted(r, m) PROVE Promise!HandOver(m)
  <2>1. m \in batch[r] /\ delivered' = [delivered EXCEPT ![m] = @ + 1]
    BY <1>5 DEF SendAccepted, Tried
  <2> QED
    BY <1>4, <1>5, <2>1 DEF SendAccepted
<1>6. ASSUME NEW r \in Replica, NEW m \in Mail, SendRefused(r, m) PROVE Promise!Fail(m)
  <2>1. UNCHANGED <<Stage, body, Contested>>
    BY <1>6 DEF SendRefused, Stage, Contested
  <2>2. m \in batch[r] /\ delivered' = delivered /\ refused' = [refused EXCEPT ![m] = @ + 1]
    BY <1>6, <1>a DEF SendRefused, Tried, TypeOK, HistoryTypes
  <2> QED
    BY <2>1, <2>2, ChanceOpen DEF Promise!Fail
<1>7. ASSUME NEW r \in Replica, NEW m \in Mail, SendRejectedLate(r, m) PROVE Same
  BY <1>7, <1>a DEF SendRejectedLate, Tried, TypeOK, HistoryTypes, Stage, Contested
<1>8. ASSUME NEW r \in Replica, NEW m \in Mail, SendHangs(r, m) PROVE Promise!HandOver(m) \/ Same
  <2>1. PICK taken \in BOOLEAN : Tried(r, m, "hung", taken)
    BY <1>8 DEF SendHangs
  <2>2. CASE taken
    <3>1. m \in batch[r] /\ delivered' = [delivered EXCEPT ![m] = @ + 1]
      BY <2>1, <2>2 DEF Tried
    <3> QED
      BY <1>4, <1>8, <3>1 DEF SendHangs
  <2>3. CASE ~taken
    BY <1>8, <1>a, <2>1, <2>3 DEF SendHangs, Tried, TypeOK, HistoryTypes, Stage, Contested
  <2> QED
    BY <2>2, <2>3
<1>9. ASSUME NEW r \in Replica, Update(r)
      PROVE  Same \/ \E m \in Mail, s \in {"queued", "sent", "failed"} : Promise!Settle(m, s)
  <2> DEFINE m == current[r]
  <2> DEFINE s == IF Outcome(r) = "pending" THEN "queued" ELSE Outcome(r)
  <2>1. m \in Mail /\ reply[r] \in {"ok", "error"} /\ status[m] # "none"
    BY <1>9, <1>a DEF Update, QueueInv, Kept, Has, TypeOK, WorkerTypes
  <2>2. Outcome(r) \in {"pending", "sent", "failed"}
    BY DEF Outcome
  <2>3. status' = [status EXCEPT ![m] = Outcome(r)] /\ body' = Bodies(r, m)
          /\ UNCHANGED <<delivered, refused, reclaimed>>
    BY <1>9 DEF Update
  <2>4. Stage' = [Stage EXCEPT ![m] = s] /\ Contested' = Contested
    BY <1>a, <2>1, <2>2, <2>3 DEF Stage, Contested, TypeOK, TableTypes
  <2>5. body' = IF s = "sent" THEN body \ {m} ELSE body \cup {m}
    BY <2>2, <2>3 DEF Bodies
  <2>6. s = "failed" => refused[m] >= MaxAttempts
    <3> SUFFICES ASSUME s = "failed" PROVE refused[m] >= MaxAttempts
      OBVIOUS
    <3>1. reply[r] = "error" /\ ~(copy[r][m] < MaxAttempts)
      BY <2>1 DEF Outcome
    <3>2. copy[r][m] <= refused[m] /\ copy[r][m] \in Nat /\ refused[m] \in Nat
      BY <1>a, <2>1, <3>1 DEF QueueInv, Tries, TypeOK, WorkerTypes, HistoryTypes
    <3> QED
      BY <3>1, <3>2
  <2>7. m \notin Contested => status[m] = "sending"
    BY <1>a, <2>1 DEF Contested, QueueInv, Alone, Has, TypeOK, HistoryTypes
  <2>8. CASE m \in Contested \/ s # "queued"
    <3>1. m \in Contested \/ (Stage[m] = "queued" /\ s # "queued")
      BY <2>1, <2>7, <2>8 DEF Stage
    <3>2. Promise!Settle(m, s)
      BY <2>3, <2>4, <2>5, <2>6, <3>1 DEF Promise!Settle
    <3>3. s \in {"queued", "sent", "failed"}
      BY <2>2
    <3> QED
      BY <2>1, <3>2, <3>3
  <2>9. CASE m \notin Contested /\ s = "queued"
    <3>1. Stage[m] = "queued" /\ m \in body
      BY <2>1, <2>7, <2>9 DEF Stage, QueueInv, Kept
    <3>2. Stage' = Stage /\ body' = body
      BY <2>1, <2>4, <2>5, <2>9, <3>1 DEF Stage
    <3> QED
      BY <2>3, <2>4, <3>2
  <2> QED
    BY <2>8, <2>9
<1>10. ASSUME NEW r \in Replica, UpdateFails(r) \/ Shutdown(r) \/ Exit(r) \/ Crash(r) \/ Start(r)
       PROVE  Same
  BY <1>10 DEF UpdateFails, Shutdown, Exit, Crash, Start, Stage, Contested
<1>11. CASE UNCHANGED vars
  BY <1>b, <1>11 DEF vars, Stage, Contested
<1>12. CASE Next
  <2>1. ASSUME NEW m \in Mail, SendEmail(m) \/ BecomesDue(m) \/ BecomesStale(m)
        PROVE  [Promise!Next]_(Promise!vars)
    BY <1>1, <1>2, <1>b, <2>1 DEF Promise!Next
  <2>2. ASSUME NEW r \in Replica, GetPendingEmails(r) PROVE [Promise!Next]_(Promise!vars)
    BY <1>3, <2>2 DEF Promise!Next
  <2>3. ASSUME NEW r \in Replica, Send(r) PROVE [Promise!Next]_(Promise!vars)
    BY <1>5, <1>6, <1>7, <1>8, <1>b, <2>3 DEF Send, Promise!Next
  <2>4. ASSUME NEW r \in Replica, Update(r) PROVE [Promise!Next]_(Promise!vars)
    BY <1>9, <1>b, <2>4 DEF Promise!Next
  <2>5. ASSUME NEW r \in Replica, UpdateFails(r) \/ Shutdown(r) \/ Exit(r) \/ Crash(r) \/ Start(r)
        PROVE  [Promise!Next]_(Promise!vars)
    BY <1>10, <1>b, <2>5
  <2> QED
    BY <1>12, <2>1, <2>2, <2>3, <2>4, <2>5 DEF Next
<1> QED
  BY <1>11, <1>12

\* The queue implements the outbox for any number of mails, workers and attempts, and through
\* any number of crashes, shutdowns, hung sends and failed saves: a mail that no second worker
\* took over is handed over at most once, settled once, given up only after max_attempts
\* failed tries, and its body erased once it is sent (GetPendingEmails, processEmail).
THEOREM QueueImplementsOutbox == Spec => ImplementsOutbox
<1>1. Init => Promise!Init
  <2> SUFFICES ASSUME Init PROVE Promise!Init
    OBVIOUS
  <2>1. Stage = [m \in Mail |-> "none"] /\ Contested = {}
    BY DEF Init, Stage, Contested
  <2> QED
    BY <2>1 DEF Init, Promise!Init
<1>2. QueueInv /\ QueueInv' /\ [Next]_vars => [Promise!Next]_(Promise!vars)
  BY StepRefines
<1> QED
  BY <1>1, <1>2, QueueInvariant, PTL DEF Spec, ImplementsOutbox, Promise!Spec
=============================================================================
