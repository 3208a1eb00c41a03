------------------------------- MODULE Outbox -------------------------------
(***************************************************************************)
(* What the e-mail queue promises (SendEmail and ProcessEmailQueue of      *)
(* internal/services/email_service_impl.go), without replicas, claims or   *)
(* copies of rows.  A queued mail is handed to the mail server once and    *)
(* then settled for good: sent, its body erased, or given up after         *)
(* MaxAttempts failed tries.  The one exception is a mail whose worker was *)
(* taken for dead: it may be handed over again, and settled again.         *)
(***************************************************************************)
EXTENDS Naturals

CONSTANTS Mail, MaxAttempts

VARIABLES
  stage,      \* "none", "queued", "sent" or "failed"
  stored,     \* mails whose bodies are in the database
  handed,     \* how often the mail server took a mail
  failures,   \* how often a try failed
  contested   \* mails that a second worker took over

vars == <<stage, stored, handed, failures, contested>>

Init ==
  /\ stage = [m \in Mail |-> "none"]
  /\ stored = {}
  /\ handed = [m \in Mail |-> 0]
  /\ failures = [m \in Mail |-> 0]
  /\ contested = {}

Queue(m) ==
  /\ stage[m] = "none"
  /\ stage' = [stage EXCEPT ![m] = "queued"]
  /\ stored' = stored \cup {m}
  /\ UNCHANGED <<handed, failures, contested>>

HandOver(m) ==
  /\ m \in contested \/ (stage[m] = "queued" /\ handed[m] = 0)
  /\ handed' = [handed EXCEPT ![m] = @ + 1]
  /\ UNCHANGED <<stage, stored, failures, contested>>

Fail(m) ==
  /\ m \in contested \/ (stage[m] = "queued" /\ handed[m] = 0)
  /\ failures' = [failures EXCEPT ![m] = @ + 1]
  /\ UNCHANGED <<stage, stored, handed, contested>>

\* A contested mail may even go back to the queue
Settle(m, s) ==
  /\ m \in contested \/ (stage[m] = "queued" /\ s # "queued")
  /\ s = "failed" => failures[m] >= MaxAttempts
  /\ stage' = [stage EXCEPT ![m] = s]
  /\ stored' = IF s = "sent" THEN stored \ {m} ELSE stored \cup {m}
  /\ UNCHANGED <<handed, failures, contested>>

TakeOver(mails) ==
  /\ \A m \in mails : stage[m] = "queued"
  /\ contested' = contested \cup mails
  /\ UNCHANGED <<stage, stored, handed, failures>>

Next ==
  \/ \E m \in Mail : Queue(m) \/ HandOver(m) \/ Fail(m)
  \/ \E m \in Mail, s \in {"queued", "sent", "failed"} : Settle(m, s)
  \/ \E mails \in SUBSET Mail : TakeOver(mails)

Spec == Init /\ [][Next]_vars
=============================================================================
