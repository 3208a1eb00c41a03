----------------------------- MODULE EmailQueue -----------------------------
(***************************************************************************)
(* The e-mail queue and its workers (internal/services/                    *)
(* email_service_impl.go, internal/repo/gorm/email.go, and the ticker in   *)
(* cmd/auth-server/main.go).                                               *)
(*                                                                         *)
(* Every replica runs one worker.  It claims a batch with one UPDATE ...   *)
(* RETURNING, then sends the mails of the batch one after the other and    *)
(* saves each whole row from the copy it got with the claim.  A claim is   *)
(* not renewed: after staleSendingAfter another worker may take the row,   *)
(* whether the first one has stopped or is only slow.                      *)
(*                                                                         *)
(* Left out: what a mail says (templates are rendered before it is         *)
(* queued), priorities (a claim may take any of the eligible rows), and    *)
(* RetryFailedEmails and the template operations, which nothing calls.     *)
(***************************************************************************)
EXTENDS Naturals, FiniteSets

CONSTANTS
  Mail, Replica,
  None,          \* no mail
  MaxAttempts,   \* email_queue.max_attempts
  BatchLimit,    \* mails per claim
  Load           \* what to consider: sets of mails to queue, with a number of faults

ASSUME QueueAssumption ==
  /\ IsFiniteSet(Replica) /\ IsFiniteSet(Mail)
  /\ None \notin Mail
  /\ MaxAttempts \in Nat \ {0}
  /\ BatchLimit \in Nat \ {0}
  /\ Load \subseteq (SUBSET Mail) \X Nat

VARIABLES
  status,      \* the email_queue table: status of a row, "none" before it exists,
  attempts,    \*   tries that were saved,
  due,         \*   mails with scheduled_at in the past,
  stale,       \*   mails with updated_at more than staleSendingAfter ago,
  body,        \*   mails whose bodies are stored
  process,     \* "up", "closing" (the root context is cancelled) or "down"
  batch,       \* mails a worker has claimed and not tried yet
  copy,        \* the attempts column in a worker's copies of its batch
  current,     \* the mail it has tried and not saved yet
  reply,       \* what the try came to
  outbox,      \* mails that requests have yet to queue
  faults,      \* crashes, shutdowns, hung sends and failed saves yet to come
  \* history
  delivered,   \* how often the mail server took a mail
  refused,     \* how often a try failed
  reclaimed    \* how often a mail was claimed because it was stale

table   == <<status, attempts, due, stale, body>>
worker  == <<batch, copy, current, reply>>
history == <<delivered, refused, reclaimed>>
vars    == <<table, outbox, process, worker, faults, history>>

Status == {"none", "pending", "sending", "sent", "failed"}

TableTypes ==
  /\ status \in [Mail -> Status]
  /\ attempts \in [Mail -> 0..MaxAttempts]
  /\ due \subseteq Mail
  /\ stale \subseteq Mail
  /\ body \subseteq Mail

WorkerTypes ==
  /\ process \in [Replica -> {"up", "closing", "down"}]
  /\ batch \in [Replica -> SUBSET Mail]
  /\ copy \in [Replica -> [Mail -> 0..MaxAttempts]]
  /\ current \in [Replica -> Mail \cup {None}]
  /\ reply \in [Replica -> {"none", "ok", "error", "hung"}]
  /\ outbox \subseteq Mail
  /\ faults \in Nat

HistoryTypes ==
  /\ delivered \in [Mail -> Nat]
  /\ refused \in [Mail -> Nat]
  /\ reclaimed \in [Mail -> Nat]

\* The table, the workers and the history have their types.
TypeOK == TableTypes /\ WorkerTypes /\ HistoryTypes

Init ==
  /\ status = [m \in Mail |-> "none"]
  /\ attempts = [m \in Mail |-> 0]
  /\ due = {} /\ stale = {} /\ body = {}
  /\ process = [r \in Replica |-> "up"]
  /\ batch = [r \in Replica |-> {}]
  /\ copy = [r \in Replica |-> [m \in Mail |-> 0]]
  /\ current = [r \in Replica |-> None]
  /\ reply = [r \in Replica |-> "none"]
  /\ \E l \in Load : outbox = l[1] /\ faults = l[2]
  /\ delivered = [m \in Mail |-> 0]
  /\ refused = [m \in Mail |-> 0]
  /\ reclaimed = [m \in Mail |-> 0]

-----------------------------------------------------------------------------
(* The queue *)

\* A request queues a mail that is due at once
SendEmail(m) ==
  /\ m \in outbox
  /\ outbox' = outbox \ {m}
  /\ status' = [status EXCEPT ![m] = "pending"]
  /\ due' = due \cup {m}
  /\ body' = body \cup {m}
  /\ UNCHANGED <<attempts, stale, process, worker, faults, history>>

\* The backoff of a mail ends
BecomesDue(m) ==
  /\ status[m] = "pending" /\ m \notin due
  /\ due' = due \cup {m}
  /\ UNCHANGED <<outbox, status, attempts, stale, body, process, worker, faults, history>>

\* A mail stays claimed for longer than staleSendingAfter
BecomesStale(m) ==
  /\ status[m] = "sending" /\ m \notin stale
  /\ stale' = stale \cup {m}
  /\ UNCHANGED <<outbox, status, attempts, due, body, process, worker, faults, history>>

-----------------------------------------------------------------------------
(* The worker of a replica *)

Idle(r) == batch[r] = {} /\ current[r] = None

Stale(m) == status[m] = "sending" /\ m \in stale

\* Mutant: rows that a stopped worker left behind are not taken over
ClaimableNotStale(m) == status[m] = "pending" /\ m \in due

\* Mutant: a row is taken over however recently it was claimed
ClaimableAtOnce(m) == (status[m] = "pending" /\ m \in due) \/ status[m] = "sending"

Claimable(m) == (status[m] = "pending" /\ m \in due) \/ Stale(m)

\* The mails that one claim takes: any of the claimable ones, up to the limit
Claims ==
  LET Ready == {m \in Mail : Claimable(m)}
  IN {C \in SUBSET Ready :
        /\ Cardinality(C) <= BatchLimit
        /\ C = Ready \/ Cardinality(C) = BatchLimit}

\* One tick of the queue processor claims a batch
GetPendingEmails(r) ==
  /\ process[r] = "up" /\ Idle(r)
  /\ \E C \in Claims \ {{}} :
       /\ batch' = [batch EXCEPT ![r] = C]
       /\ copy' = [copy EXCEPT ![r] = [m \in Mail |-> IF m \in C THEN attempts[m] ELSE 0]]
       /\ status' = [m \in Mail |-> IF m \in C THEN "sending" ELSE status[m]]
       /\ reclaimed' = [m \in Mail |-> reclaimed[m] + IF m \in C /\ Stale(m) THEN 1 ELSE 0]
       /\ stale' = stale \ C
  /\ UNCHANGED <<outbox, attempts, due, body, process, current, reply, faults, delivered, refused>>

\* Bookkeeping of a try that came to a, the mail server having taken the mail or not
Tried(r, m, a, taken) ==
  /\ m \in batch[r] /\ current[r] = None
  /\ process[r] # "down"
  /\ batch' = [batch EXCEPT ![r] = @ \ {m}]
  /\ current' = [current EXCEPT ![r] = m]
  /\ reply' = [reply EXCEPT ![r] = a]
  /\ delivered' = [delivered EXCEPT ![m] = @ + IF taken THEN 1 ELSE 0]

\* The mail is handed over and the server takes it
SendAccepted(r, m) ==
  /\ Tried(r, m, "ok", TRUE)
  /\ copy' = [copy EXCEPT ![r][m] = @ + 1]
  /\ UNCHANGED <<outbox, table, process, faults, refused, reclaimed>>

\* Every step up to writing the body can fail with an error
SendRefused(r, m) ==
  /\ Tried(r, m, "error", FALSE)
  /\ copy' = [copy EXCEPT ![r][m] = @ + 1]
  /\ refused' = [refused EXCEPT ![m] = @ + 1]
  /\ UNCHANGED <<outbox, table, process, faults, reclaimed>>

\* The server's answer to the body is read by the deferred Close, whose error
\* is dropped: a mail that the server rejects then counts as sent
SendRejectedLate(r, m) ==
  /\ Tried(r, m, "ok", FALSE)
  /\ copy' = [copy EXCEPT ![r][m] = @ + 1]
  /\ UNCHANGED <<outbox, table, process, faults, refused, reclaimed>>

\* No step of the exchange has a time limit: the worker may wait for good, before
\* or after the server took the mail.  Some other replica's worker does not hang.
SendHangs(r, m) ==
  /\ faults > 0
  /\ \E o \in Replica \ {r} : reply[o] # "hung"
  /\ \E taken \in BOOLEAN : Tried(r, m, "hung", taken)
  /\ faults' = faults - 1
  /\ UNCHANGED <<outbox, table, process, copy, refused, reclaimed>>

\* What processEmail writes to its copy after a try
Outcome(r) ==
  CASE reply[r] = "ok" -> "sent"
    [] reply[r] = "error" /\ copy[r][current[r]] < MaxAttempts -> "pending"
    [] OTHER -> "failed"

\* The worker is done with its current mail and drops its copy
Finish(r) ==
  /\ copy' = [copy EXCEPT ![r] = [m \in Mail |-> IF m \in batch'[r] THEN @[m] ELSE 0]]
  /\ current' = [current EXCEPT ![r] = None]
  /\ reply' = [reply EXCEPT ![r] = "none"]

\* Mutant: the bodies stay
BodiesKept(r, m) == body \cup {m}

\* The bodies are erased once a mail is sent; a copy that was not sent still has them
Bodies(r, m) == IF Outcome(r) = "sent" THEN body \ {m} ELSE body \cup {m}

\* The worker saves its copy of the row, whatever the row is by now
Update(r) ==
  LET m == current[r]
  IN /\ m # None /\ reply[r] # "hung"
     /\ process[r] = "up"
     /\ status' = [status EXCEPT ![m] = Outcome(r)]
     /\ attempts' = [attempts EXCEPT ![m] = copy[r][m]]
     /\ due' = IF Outcome(r) = "pending" THEN due \ {m} ELSE due
     /\ stale' = stale \ {m}
     /\ body' = Bodies(r, m)
     /\ UNCHANGED <<outbox, process, batch, faults, history>>
     /\ Finish(r)

\* The save fails: always while the process is closing, as the context is cancelled
UpdateFails(r) ==
  /\ current[r] # None /\ reply[r] # "hung"
  /\ \/ process[r] = "closing" /\ UNCHANGED faults
     \/ process[r] = "up" /\ faults > 0 /\ faults' = faults - 1
  /\ UNCHANGED <<outbox, table, process, batch, history>>
  /\ Finish(r)

-----------------------------------------------------------------------------
(* The process of a replica *)

\* SIGTERM cancels the root context; the batch goes on until the process exits
Shutdown(r) ==
  /\ process[r] = "up" /\ faults > 0
  /\ process' = [process EXCEPT ![r] = "closing"]
  /\ faults' = faults - 1
  /\ UNCHANGED <<outbox, table, worker, history>>

\* The process ends and the worker's batch with it
Lose(r) ==
  /\ process' = [process EXCEPT ![r] = "down"]
  /\ batch' = [batch EXCEPT ![r] = {}]
  /\ Finish(r)

Exit(r) ==
  /\ process[r] = "closing"
  /\ Lose(r)
  /\ UNCHANGED <<outbox, table, faults, history>>

Crash(r) ==
  /\ process[r] = "up" /\ faults > 0
  /\ Lose(r)
  /\ faults' = faults - 1
  /\ UNCHANGED <<outbox, table, history>>

Start(r) ==
  /\ process[r] = "down"
  /\ process' = [process EXCEPT ![r] = "up"]
  /\ UNCHANGED <<outbox, table, worker, faults, history>>

-----------------------------------------------------------------------------
Send(r) ==
  \E m \in Mail : SendAccepted(r, m) \/ SendRefused(r, m) \/ SendRejectedLate(r, m) \/ SendHangs(r, m)

Next ==
  \/ \E m \in Mail : SendEmail(m) \/ BecomesDue(m) \/ BecomesStale(m)
  \/ \E r \in Replica :
       \/ GetPendingEmails(r) \/ Send(r) \/ Update(r) \/ UpdateFails(r)
       \/ Shutdown(r) \/ Exit(r) \/ Crash(r) \/ Start(r)

Spec == Init /\ [][Next]_vars

\* Time passes, the ticker of a running process fires, a worker that does not
\* hang goes on, and a process that stopped is started again
Fairness ==
  /\ \A m \in Mail : WF_vars(BecomesDue(m)) /\ WF_vars(BecomesStale(m))
  /\ \A r \in Replica :
       /\ WF_vars(GetPendingEmails(r))
       /\ WF_vars(Send(r))
       /\ WF_vars(Update(r) \/ UpdateFails(r))
       /\ WF_vars(Exit(r))
       /\ WF_vars(Start(r))

FairSpec == Spec /\ Fairness

-----------------------------------------------------------------------------
(* Correctness *)

\* A mail is delivered at most once more than it was claimed after going stale,
\* whatever two workers that hold the same row save over each other
\* (GetPendingEmails, processEmail).
DeliveriesBounded == \A m \in Mail : delivered[m] <= 1 + reclaimed[m]

\* The stage of a mail: being claimed makes no difference to the one who queued it
Stage ==
  [m \in Mail |-> IF status[m] \in {"pending", "sending"} THEN "queued" ELSE status[m]]

Contested == {m \in Mail : reclaimed[m] > 0}

Promise == INSTANCE Outbox WITH
  stage <- Stage, stored <- body, handed <- delivered, failures <- refused, contested <- Contested

\* The queue keeps what the outbox promises, through claims, crashes, failed saves and
\* workers that save old copies over newer rows: a mail no second worker took over is handed
\* over at most once, never queued again once it is sent or given up, given up only after
\* max_attempts failed tries, and its body (with live links) is gone once it is sent
\* (GetPendingEmails, processEmail).
ImplementsOutbox == Promise!Spec

\* Every queued mail ends up sent or given up and stays so, though workers crash,
\* shut down, hang or fail to save.
MailSettles ==
  \A m \in Mail : status[m] # "none" ~> [](status[m] \in {"sent", "failed"})
=============================================================================
