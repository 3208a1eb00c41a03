---------------------------- MODULE DeviceGrant ----------------------------
(***************************************************************************)
(* The device authorization grant, RFC 8628                                *)
(* (internal/services/device_token_exchange.go, handlers/                  *)
(* oauth_device_handler.go, repo/gorm/device_code.go).  A device polls the *)
(* token endpoint with its device code while a user approves or denies the *)
(* request in a browser.  Both read the row, change their copy and Save    *)
(* the whole copy, so each can write back columns the other has changed.   *)
(*                                                                         *)
(* Save is gorm's: it updates every column of the row, and inserts the row *)
(* when no row has its id any more.  The properties are in DeviceOutcome.  *)
(***************************************************************************)
EXTENDS Naturals, FiniteSets, DeviceOutcome

CONSTANTS
  Client,      \* clients registered for the device_code grant
  User,        \* users who can sign in at the verification page
  Poller,      \* slots for token endpoint requests in progress
  Decider,     \* slots for verification page requests in progress
  None,        \* SQL NULL
  Faults       \* may a statement fail or a replica stop at any point?

ASSUME DeviceAssumption ==
  /\ Poller \cap Decider = {}
  /\ None \notin User \cup Client \cup DeviceCode
  /\ Faults \in BOOLEAN

Request == Poller \cup Decider

VARIABLES
  \* the device_codes table, with status
  user,        \* user_id
  polled,      \* how long ago last_polled_at is
  client,      \* client_id, fixed when the row is created
  expired,     \* codes whose expires_at has passed
  \* the requests in progress
  pc,          \* the statement the request runs next
  target,      \* the code it works on
  statusRead,  \* its copy of the row
  userRead,
  polledRead

table    == <<status, user, polled, client, expired>>
request  == <<pc, target, statusRead, userRead, polledRead>>
tokens   == <<tokenFor, tokenUser>>
history  == <<approvedBy, answer, raced>>
vars     == <<table, request, tokens, history>>

\* last_polled_at is NULL or at least the polling interval ago: "old"
Recency == {"old", "recent"}
RowStatus == {"pending", "approved", "denied"}
PC == {"idle", "deleteExpired", "recordPoll", "deleteDenied", "deleteApproved", "issue", "saveDecision"}

\* Tables, requests and issued tokens have their types.
TypeOK ==
  /\ status \in [DeviceCode -> RowStatus \cup {"none", "deleted"}]
  /\ user \in [DeviceCode -> User \cup {None}]
  /\ polled \in [DeviceCode -> Recency]
  /\ client \in [DeviceCode -> Client \cup {None}]
  /\ expired \subseteq DeviceCode
  /\ pc \in [Request -> PC]
  /\ target \in [Request -> DeviceCode \cup {None}]
  /\ statusRead \in [Request -> RowStatus \cup {"none"}]
  /\ userRead \in [Request -> User \cup {None}]
  /\ polledRead \in [Request -> Recency]
  /\ tokenFor \in [Token -> DeviceCode \cup {None}]
  /\ tokenUser \in [Token -> User \cup {None}]
  /\ approvedBy \in [DeviceCode -> SUBSET User]
  /\ answer \in [DeviceCode -> {"none", "approved", "denied"}]
  /\ raced \subseteq DeviceCode

Init ==
  /\ status = [d \in DeviceCode |-> "none"]
  /\ user = [d \in DeviceCode |-> None]
  /\ polled = [d \in DeviceCode |-> "old"]
  /\ client = [d \in DeviceCode |-> None]
  /\ expired = {}
  /\ pc = [p \in Request |-> "idle"]
  /\ target = [p \in Request |-> None]
  /\ statusRead = [p \in Request |-> "none"]
  /\ userRead = [p \in Request |-> None]
  /\ polledRead = [p \in Request |-> "old"]
  /\ tokenFor = [t \in Token |-> None]
  /\ tokenUser = [t \in Token |-> None]
  /\ approvedBy = [d \in DeviceCode |-> {}]
  /\ answer = [d \in DeviceCode |-> "none"]
  /\ raced = {}

-----------------------------------------------------------------------------
(* The statements *)

\* GetByDeviceCode and GetByUserCode find the row
Exists(d) == status[d] \in RowStatus

DeviceCodeCreate(d, c) ==
  /\ status[d] = "none"
  /\ status' = [status EXCEPT ![d] = "pending"]
  /\ client' = [client EXCEPT ![d] = c]
  /\ UNCHANGED <<user, polled, expired>>

\* Update: the whole row becomes the copy
DeviceCodeUpdate(d, newStatus, newUser, newPolled) ==
  /\ status' = [status EXCEPT ![d] = newStatus]
  /\ user' = [user EXCEPT ![d] = newUser]
  /\ polled' = [polled EXCEPT ![d] = newPolled]
  /\ UNCHANGED <<client, expired>>

DeviceCodeDeleteRows(codes) ==
  /\ status' = [d \in DeviceCode |-> IF d \in codes /\ Exists(d) THEN "deleted" ELSE status[d]]
  /\ UNCHANGED <<user, polled, client, expired>>

\* Mutant: the delete finds no row
DeviceCodeDeleteNothing(d) == DeviceCodeDeleteRows({})

DeviceCodeDelete(d) == DeviceCodeDeleteRows({d})

DeviceCodeDeleteExpired == DeviceCodeDeleteRows(expired)

-----------------------------------------------------------------------------
(* Requests *)

Begin(p, next, d, s, u, last) ==
  /\ pc' = [pc EXCEPT ![p] = next]
  /\ target' = [target EXCEPT ![p] = d]
  /\ statusRead' = [statusRead EXCEPT ![p] = s]
  /\ userRead' = [userRead EXCEPT ![p] = u]
  /\ polledRead' = [polledRead EXCEPT ![p] = last]

Return(p) == Begin(p, "idle", None, "none", None, "old")

Goto(p, next) ==
  /\ pc' = [pc EXCEPT ![p] = next]
  /\ UNCHANGED <<target, statusRead, userRead, polledRead>>

\* A request starts to work on d
Overlap(d) == raced' = IF \E q \in Request : target[q] = d THEN raced \cup {d} ELSE raced

\* POST /oauth/device_authorization
CreateDeviceAuthorization(d, c) ==
  /\ DeviceCodeCreate(d, c)
  /\ UNCHANGED <<request, tokens, history>>

\* A poll up to its second statement: the row is read and checked
ExchangeDeviceCode(p, d, c) ==
  /\ pc[p] = "idle"
  /\ Exists(d)
  /\ client[d] = c
  /\ \/ d \in expired /\ Begin(p, "deleteExpired", d, status[d], user[d], "old")
     \/ d \notin expired /\ Begin(p, "recordPoll", d, status[d], user[d], polled[d])
  /\ Overlap(d)
  /\ UNCHANGED <<table, tokens, approvedBy, answer>>

\* Mutant: a pending code is treated like an approved one
RecordPollUndecided(p) ==
  /\ pc[p] = "recordPoll"
  /\ DeviceCodeUpdate(target[p], statusRead[p], userRead[p], "recent")
  /\ Goto(p, "deleteApproved")
  /\ UNCHANGED <<tokens, history>>

\* Mutant: the poll saves a row with the defaults of the other columns
RecordPollDefaults(p) ==
  /\ pc[p] = "recordPoll"
  /\ DeviceCodeUpdate(target[p], "pending", None, "recent")
  /\ Return(p)
  /\ UNCHANGED <<tokens, history>>

(***************************************************************************)
(* last_polled_at is saved, with the rest of the copy (a failure is logged *)
(* only), and the poll goes on as the status in the copy says.             *)
(***************************************************************************)
RecordPoll(p) ==
  /\ pc[p] = "recordPoll"
  /\ \/ DeviceCodeUpdate(target[p], statusRead[p], userRead[p], "recent")
     \/ Faults /\ UNCHANGED table
  /\ \/ (polledRead[p] = "recent" \/ statusRead[p] = "pending") /\ Return(p)   \* slow_down, pending
     \/ polledRead[p] = "old" /\ statusRead[p] = "denied" /\ Goto(p, "deleteDenied")
     \/ polledRead[p] = "old" /\ statusRead[p] = "approved" /\ userRead[p] = None /\ Return(p)
     \/ polledRead[p] = "old" /\ statusRead[p] = "approved" /\ userRead[p] # None /\ Goto(p, "deleteApproved")
  /\ UNCHANGED <<tokens, history>>

\* expired_token and access_denied: the row is removed and the poll refused
DeleteRefused(p) ==
  /\ pc[p] \in {"deleteExpired", "deleteDenied"}
  /\ DeviceCodeDelete(target[p])
  /\ Return(p)
  /\ UNCHANGED <<tokens, history>>

\* DELETE reports no error when there is no row any more
DeleteApproved(p) ==
  /\ pc[p] = "deleteApproved"
  /\ DeviceCodeDelete(target[p])
  /\ Goto(p, "issue")
  /\ UNCHANGED <<tokens, history>>

\* issueTokens, in the family of the device code, and the response
IssueTokens(p, t) ==
  /\ pc[p] = "issue"
  /\ tokenFor[t] = None
  /\ tokenFor' = [tokenFor EXCEPT ![t] = target[p]]
  /\ tokenUser' = [tokenUser EXCEPT ![t] = userRead[p]]
  /\ Return(p)
  /\ UNCHANGED <<table, history>>

\* resolveDeviceCode up to its Update: a signed-in user decides on a pending code
ResolveDeviceCode(p, d, s, u) ==
  /\ pc[p] = "idle"
  /\ Exists(d)
  /\ d \notin expired
  /\ status[d] = "pending"
  /\ Begin(p, "saveDecision", d, s, u, polled[d])
  /\ Overlap(d)
  /\ UNCHANGED <<table, tokens, answer>>

ApproveDeviceCode(p, d, u) ==
  /\ ResolveDeviceCode(p, d, "approved", u)
  /\ approvedBy' = [approvedBy EXCEPT ![d] = @ \cup {u}]

DenyDeviceCode(p, d) ==
  /\ ResolveDeviceCode(p, d, "denied", user[d])
  /\ UNCHANGED approvedBy

\* The Update of resolveDeviceCode, and the page that tells the user
SaveDecision(p) ==
  /\ pc[p] = "saveDecision"
  /\ DeviceCodeUpdate(target[p], statusRead[p], userRead[p], polledRead[p])
  /\ answer' = [answer EXCEPT ![target[p]] = statusRead[p]]
  /\ Return(p)
  /\ UNCHANGED <<tokens, approvedBy, raced>>

\* A statement fails and its error is returned, or the replica stops
Abort(p) ==
  /\ Faults
  /\ pc[p] # "idle"
  /\ Return(p)
  /\ UNCHANGED <<table, tokens, history>>

\* The polling interval passes
IntervalPasses ==
  /\ \E d \in DeviceCode : polled[d] = "recent" /\ polled' = [polled EXCEPT ![d] = "old"]
  /\ UNCHANGED <<status, user, client, expired, request, tokens, history>>

Expire ==
  /\ \E d \in DeviceCode \ expired : Exists(d) /\ expired' = expired \cup {d}
  /\ UNCHANGED <<status, user, polled, client, request, tokens, history>>

\* The cleanup job
DeleteExpired ==
  /\ DeviceCodeDeleteExpired
  /\ UNCHANGED <<request, tokens, history>>

Poll(p) ==
  \/ \E d \in DeviceCode, c \in Client : ExchangeDeviceCode(p, d, c)
  \/ RecordPoll(p)
  \/ DeleteRefused(p)
  \/ DeleteApproved(p)
  \/ \E t \in Token : IssueTokens(p, t)

Decide(p) ==
  \/ \E d \in DeviceCode, u \in User : ApproveDeviceCode(p, d, u)
  \/ \E d \in DeviceCode : DenyDeviceCode(p, d)
  \/ SaveDecision(p)

Next ==
  \/ \E d \in DeviceCode, c \in Client : CreateDeviceAuthorization(d, c)
  \/ \E p \in Poller : Poll(p)
  \/ \E p \in Decider : Decide(p)
  \/ \E p \in Request : Abort(p)
  \/ IntervalPasses
  \/ Expire
  \/ DeleteExpired

Spec == Init /\ [][Next]_vars

-----------------------------------------------------------------------------
(***************************************************************************)
(* The inductive invariants.  Behind IssuedToApprover: wherever an         *)
(* approval is written down (the row, a copy of it) its user really        *)
(* approved.  Behind the other two: the one request at work on a code that *)
(* was never raced on has a copy that agrees with the row.                 *)
(***************************************************************************)

\* The row and every copy name an approver
ApprovalsInv ==
  /\ \A d \in DeviceCode : status[d] = "approved" => user[d] \in approvedBy[d]
  /\ \A p \in Request : pc[p] # "idle" =>
       /\ target[p] \in DeviceCode
       /\ statusRead[p] \in RowStatus
       /\ statusRead[p] = "approved" => userRead[p] \in approvedBy[target[p]]
  /\ \A p \in Request : pc[p] \in {"deleteApproved", "issue"} => statusRead[p] = "approved"
  /\ \A p \in Request : pc[p] = "saveDecision" => statusRead[p] \in {"approved", "denied"}

\* A code has been collected
Collected(d) == \E t \in Token : tokenFor[t] = d

\* Two requests at work on one code were noticed
AloneInv ==
  /\ \A p, q \in Request : p # q /\ target[p] = target[q] => target[p] \in {None} \cup raced
  /\ \A p \in Request : pc[p] = "idle" => target[p] = None
  /\ \A p \in Request : pc[p] # "idle" => status[target[p]] # "none"
  /\ \A d \in DeviceCode : status[d] = "none" => answer[d] = "none" /\ ~Collected(d)

\* Without races a collected code is gone for good, and a poll that reads a
\* decided row writes the decision back
InTurnInv ==
  /\ \A d \in DeviceCode \ raced :
       /\ Collected(d) => status[d] = "deleted"
       /\ \A p \in Request : target[p] = d =>
            /\ ~Collected(d)
            /\ pc[p] = "issue" => status[d] = "deleted"
            /\ pc[p] = "recordPoll" => answer[d] \in {"none", statusRead[p]}
  /\ SingleUseInTurn
  /\ DecisionIsKept

IInv == TypeOK /\ ApprovalsInv /\ IssuedToApprover
TurnInv == AloneInv /\ InTurnInv
=============================================================================
