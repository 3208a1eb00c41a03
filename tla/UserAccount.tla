---------------------------- MODULE UserAccount ----------------------------
(***************************************************************************)
(* User accounts: passwords, login and lockout, account status, sign-in    *)
(* sessions, e-mail verification and password reset                        *)
(* (internal/services/user_service_impl.go, handlers/user_handler.go,      *)
(* handlers/account_handler.go, repo/gorm/user.go, email.go, session.go).  *)
(*                                                                         *)
(* Nearly every operation reads the user, changes its copy and saves the   *)
(* whole row, so an operation can write back columns that another one has  *)
(* changed since.  Links and codes are consumed by conditional updates.    *)
(*                                                                         *)
(* Left out: the second factor (a login here is one of a user who has      *)
(* none), names and profile columns, the tokens that a reset revokes       *)
(* (TokenGrants) and the sending of mail.  A session is the pair of its    *)
(* user and of the password it was opened with.                            *)
(***************************************************************************)
EXTENDS Naturals, FiniteSets

CONSTANTS
  User, Address, Password,
  Link,                      \* password reset links
  Code,                      \* e-mail verification codes
  Request,                   \* slots for requests in progress
  None,                      \* no row, no value
  Deleted,                   \* a row with deleted_at set
  MaxLoginAttempts,
  MaxPasswordResetsPerHour,
  Workload                   \* mixes of operations to consider

\* Without "signup" there is one user; "expiry" is time and the cleanup job,
\* "failure" means that a statement may fail, or a replica stop, at any point
Operation ==
  {"signup", "login", "changePassword", "update", "delete", "lockUser", "unlockUser", "updateStatus",
   "sendVerification", "verifyEmail", "requestReset", "resetPassword", "expiry", "failure"}

ASSUME AccountAssumption ==
  /\ MaxLoginAttempts \in Nat \ {0}
  /\ MaxPasswordResetsPerHour \in Nat \ {0}
  /\ Workload \subseteq SUBSET Operation
  /\ IsFiniteSet(Request) /\ IsFiniteSet(Link)
  /\ Link \cap Code = {}
  /\ None \notin User \cup Link \cup Code

Status == {"pending", "active", "suspended", "locked"}

\* locked_until: NULL, in the future, in the past
Until == {"null", "running", "over"}

\* The columns of a user that decide anything; failed_login_attempts is only
\* compared with MaxLoginAttempts, so it counts no further
Row ==
  [id : User, email : Address, password : Password, status : Status, until : Until,
   failed : 0..MaxLoginAttempts, verified : BOOLEAN]

ASSUME RowAssumption == None \notin Row /\ Deleted \notin Row /\ None # Deleted

VARIABLES
  row,         \* the users table
  sessions,    \* the sessions table: pairs of a user and a password
  linkUser,    \* the password_resets table: whose link it is,
  linkStatus,  \*   and whether it has been used
  codeUser,    \* the email_verifications table: whose code it is,
  codeAddr,    \*   the address it was sent to,
  codeStatus,  \*   and whether it has been used
  aged,        \* links and codes past expires_at
  pc,          \* the statement a request runs next
  op,          \* what it is doing
  who,         \* the user it is doing it to
  copy,        \* its copy of a user row, already changed
  item,        \* the link or code it presented
  secret,      \* the password it presented
  ops,         \* the mix of operations
  \* history
  told,        \* the password a user was last told to have
  set,         \* how many passwords were set with each link
  proved,      \* addresses a user proved to own
  switched,    \* addresses a user with a verified address switched to
  guesses,     \* wrong passwords checked since the count was last cleared
  adminLocked, \* users an administrator locked for good
  disturbed    \* users two requests worked on at once, or one failed half-way on

tables   == <<row, sessions, linkUser, linkStatus, codeUser, codeAddr, codeStatus, aged>>
links    == <<linkUser, linkStatus>>
codes    == <<codeUser, codeAddr, codeStatus>>
request  == <<pc, op, who, copy, item, secret, ops>>
history  == <<told, set, proved, switched, guesses, adminLocked, disturbed>>
vars     == <<tables, request, history>>

PC ==
  {"idle", "readAttempt", "saveAttempt", "createSession", "save", "endSessions", "deleteUser",
   "startVerification", "deletePending", "createCode", "markVerified", "revokeLinks", "createLink",
   "markUsed"}

\* What a request is doing: "password" sets one, "block" suspends or locks,
\* "unblock" activates or unlocks, "edit" changes other columns
Doing ==
  {"none", "passed", "failed", "password", "block", "unblock", "edit", "delete", "verify", "send",
   "request", "reset"}

TableTypes ==
  /\ row \in [User -> Row \cup {None, Deleted}]
  /\ sessions \subseteq User \X Password
  /\ linkUser \in [Link -> User \cup {None}]
  /\ linkStatus \in [Link -> {"none", "unused", "used", "deleted"}]
  /\ codeUser \in [Code -> User \cup {None}]
  /\ codeAddr \in [Code -> Address \cup {None}]
  /\ codeStatus \in [Code -> {"none", "pending", "verified", "deleted"}]
  /\ aged \subseteq Link \cup Code

RequestTypes ==
  /\ pc \in [Request -> PC]
  /\ op \in [Request -> Doing]
  /\ who \in [Request -> User \cup {None}]
  /\ copy \in [Request -> Row \cup {None}]
  /\ item \in [Request -> Link \cup Code \cup {None}]
  /\ secret \in [Request -> Password \cup {None}]
  /\ ops \subseteq Operation

HistoryTypes ==
  /\ told \in [User -> Password \cup {None}]
  /\ set \in [Link -> 0..2]
  /\ proved \in [User -> SUBSET Address]
  /\ switched \in [User -> SUBSET Address]
  /\ guesses \in [User -> 0..(MaxLoginAttempts + 1)]
  /\ adminLocked \subseteq User
  /\ disturbed \subseteq User

\* Tables, requests and history have their types.
TypeOK == TableTypes /\ RequestTypes /\ HistoryTypes

Init ==
  /\ row = [u \in User |-> None]
  /\ sessions = {}
  /\ linkUser = [l \in Link |-> None]
  /\ linkStatus = [l \in Link |-> "none"]
  /\ codeUser = [c \in Code |-> None]
  /\ codeAddr = [c \in Code |-> None]
  /\ codeStatus = [c \in Code |-> "none"]
  /\ aged = {}
  /\ pc = [p \in Request |-> "idle"]
  /\ op = [p \in Request |-> "none"]
  /\ who = [p \in Request |-> None]
  /\ copy = [p \in Request |-> None]
  /\ item = [p \in Request |-> None]
  /\ secret = [p \in Request |-> None]
  /\ ops \in Workload
  /\ told = [u \in User |-> None]
  /\ set = [l \in Link |-> 0]
  /\ proved = [u \in User |-> {}]
  /\ switched = [u \in User |-> {}]
  /\ guesses = [u \in User |-> 0]
  /\ adminLocked = {}
  /\ disturbed = {}

-----------------------------------------------------------------------------
(* Statements *)

Faults == "failure" \in ops

\* GetByID and GetByEmail find the row: it is there and not soft-deleted
Exists(u) == row[u] \notin {None, Deleted}

IsLocked(r) == r.status = "locked" \/ r.until = "running"
IsSuspended(r) == r.status = "suspended"

\* The unique index on e-mail addresses of users that are not deleted
EmailFree(u, e) == \A v \in User \ {u} : Exists(v) => row[v].email # e

UserCreate(r) ==
  /\ row[r.id] = None
  /\ EmailFree(r.id, r.email)
  /\ row' = [row EXCEPT ![r.id] = r]

\* gorm's Save: every column; a row that was soft-deleted in between comes back
UserUpdate(r) ==
  /\ EmailFree(r.id, r.email)
  /\ row' = [row EXCEPT ![r.id] = r]

UserDelete(u) == row' = [row EXCEPT ![u] = IF Exists(u) THEN Deleted ELSE @]

\* Mutant: the sessions of the user stay
SessionDeleteNothing(u) == sessions' = sessions

SessionDeleteByUserID(u) == sessions' = {s \in sessions : s[1] # u}

\* A link counts, and works, for an hour
CountSince(u) == Cardinality({l \in Link : linkUser[l] = u /\ linkStatus[l] # "deleted" /\ l \notin aged})

ResetCreate(l, u) ==
  /\ linkStatus[l] = "none"
  /\ linkUser' = [linkUser EXCEPT ![l] = u]
  /\ linkStatus' = [linkStatus EXCEPT ![l] = "unused"]

ResetRevokeUnusedByUserID(u) ==
  /\ linkStatus' = [l \in Link |-> IF linkUser[l] = u /\ linkStatus[l] = "unused" THEN "used" ELSE linkStatus[l]]
  /\ UNCHANGED linkUser

VerificationCreate(c, u, e) ==
  /\ codeStatus[c] = "none"
  /\ codeUser' = [codeUser EXCEPT ![c] = u]
  /\ codeAddr' = [codeAddr EXCEPT ![c] = e]
  /\ codeStatus' = [codeStatus EXCEPT ![c] = "pending"]

VerificationDeletePendingByUserID(u) ==
  /\ codeStatus' = [c \in Code |-> IF codeUser[c] = u /\ codeStatus[c] = "pending" THEN "deleted" ELSE codeStatus[c]]
  /\ UNCHANGED <<codeUser, codeAddr>>

-----------------------------------------------------------------------------
(* Requests *)

\* A request starts on user u, having run its reads
Begin(p, doing, next, u, r, i, pw) ==
  /\ pc[p] = "idle"
  /\ pc' = [pc EXCEPT ![p] = next]
  /\ op' = [op EXCEPT ![p] = doing]
  /\ who' = [who EXCEPT ![p] = u]
  /\ copy' = [copy EXCEPT ![p] = r]
  /\ item' = [item EXCEPT ![p] = i]
  /\ secret' = [secret EXCEPT ![p] = pw]
  /\ disturbed' = IF \E q \in Request : who[q] = u THEN disturbed \cup {u} ELSE disturbed
  /\ UNCHANGED ops

Goto(p, next) ==
  /\ next # "idle"
  /\ pc' = [pc EXCEPT ![p] = next]
  /\ UNCHANGED <<op, who, copy, item, secret, ops>>

Return(p) ==
  /\ pc' = [pc EXCEPT ![p] = "idle"]
  /\ op' = [op EXCEPT ![p] = "none"]
  /\ who' = [who EXCEPT ![p] = None]
  /\ copy' = [copy EXCEPT ![p] = None]
  /\ item' = [item EXCEPT ![p] = None]
  /\ secret' = [secret EXCEPT ![p] = None]
  /\ UNCHANGED ops

\* POST /v1/users; where mail is set up a verification mail follows
Create(p, u, e, pw) ==
  /\ "signup" \in ops \/ \A v \in User : row[v] = None
  /\ UserCreate([id |-> u, email |-> e, password |-> pw, status |-> "pending", until |-> "null",
                 failed |-> 0, verified |-> FALSE])
  /\ \/ /\ "sendVerification" \in ops
        /\ Begin(p, "send", "startVerification", u, None, None, None)
     \/ "sendVerification" \notin ops /\ pc[p] = "idle" /\ UNCHANGED <<request, disturbed>>
  /\ told' = [told EXCEPT ![u] = pw]
  /\ UNCHANGED <<sessions, links, codes, aged, set, proved, switched, guesses, adminLocked>>

(***************************************************************************)
(* Login.  Authenticate reads the user by e-mail and compares the          *)
(* password; RecordLoginAttempt reads the user again, by the same e-mail,  *)
(* and saves the outcome; its errors are dropped.                          *)
(***************************************************************************)
Authenticate(p, u, pw) ==
  /\ "login" \in ops
  /\ Exists(u)
  /\ ~IsLocked(row[u])
  /\ Begin(p, IF pw = row[u].password THEN "passed" ELSE "failed", "readAttempt", u, row[u], None, pw)
  /\ guesses' = [guesses EXCEPT ![u] =
       IF u \in disturbed' \/ pw = row[u].password THEN 0
       ELSE IF @ <= MaxLoginAttempts THEN @ + 1 ELSE @]
  /\ UNCHANGED <<tables, told, set, proved, switched, adminLocked>>

Passed(r) ==
  [r EXCEPT !.failed = 0, !.until = "null", !.status = IF @ = "locked" THEN "active" ELSE @]

\* Mutant: the attempt that reaches the limit does not lock
FailedLate(r) ==
  IF r.failed >= MaxLoginAttempts
  THEN [r EXCEPT !.status = "locked", !.until = "running"]
  ELSE [r EXCEPT !.failed = @ + 1]

Failed(r) ==
  IF r.failed + 1 >= MaxLoginAttempts
  THEN [r EXCEPT !.failed = MaxLoginAttempts, !.status = "locked", !.until = "running"]
  ELSE [r EXCEPT !.failed = @ + 1]

\* The login goes on, or is refused
AfterAttempt(p) ==
  \/ op[p] = "passed" /\ Goto(p, "createSession")
  \/ op[p] = "failed" /\ Return(p)

\* The address may be another user's by now.  A read that fails, like an
\* address nobody has, only means no count
ReadAttempt(p) ==
  /\ pc[p] = "readAttempt"
  /\ \/ \E v \in User :
          /\ Exists(v) /\ row[v].email = copy[p].email
          /\ copy' = [copy EXCEPT ![p] = IF op[p] = "passed" THEN Passed(row[v]) ELSE Failed(row[v])]
          /\ pc' = [pc EXCEPT ![p] = "saveAttempt"]
          /\ UNCHANGED <<op, who, item, secret, ops>>
          /\ disturbed' = IF v = who[p] THEN disturbed ELSE disturbed \cup {v}
     \/ /\ Faults \/ \A v \in User : Exists(v) => row[v].email # copy[p].email
        /\ AfterAttempt(p)
        /\ disturbed' = disturbed \cup {who[p]}
  /\ UNCHANGED <<tables, told, set, proved, switched, guesses, adminLocked>>

SaveAttempt(p) ==
  /\ pc[p] = "saveAttempt"
  /\ \/ UserUpdate(copy[p]) /\ UNCHANGED disturbed
     \/ (Faults \/ ~EmailFree(copy[p].id, copy[p].email)) /\ UNCHANGED row /\ disturbed' = disturbed \cup {who[p]}
  /\ AfterAttempt(p)
  /\ UNCHANGED <<sessions, links, codes, aged, told, set, proved, switched, guesses, adminLocked>>

\* signIn: the session the browser had is ended and a new one is opened
CreateSession(p) ==
  /\ pc[p] = "createSession"
  /\ \/ sessions' = sessions \cup {<<who[p], secret[p]>>}
     \/ \E old \in sessions : sessions' = (sessions \ {old}) \cup {<<who[p], secret[p]>>}
  /\ Return(p)
  /\ UNCHANGED <<row, links, codes, aged, history>>

\* Logout, or the session expires and is removed
EndSession ==
  /\ \E s \in sessions : sessions' = sessions \ {s}
  /\ UNCHANGED <<row, links, codes, aged, request, history>>

(***************************************************************************)
(* Operations that read the user, change the copy and save it.             *)
(***************************************************************************)
Edit(p, doing, r) ==
  /\ Begin(p, doing, "save", r.id, r, None, None)
  /\ UNCHANGED <<tables, told, set, proved, guesses, adminLocked>>

ChangePassword(p, u, old, new) ==
  /\ "changePassword" \in ops
  /\ Exists(u)
  /\ row[u].password = old
  /\ Edit(p, "password", [row[u] EXCEPT !.password = new])
  /\ UNCHANGED switched

\* PUT /v1/users/:id with an e-mail address or a password or both; when the look for the
\* address fails the Save is tried all the same
Update(p, u, e, pw) ==
  /\ "update" \in ops
  /\ Exists(u)
  /\ EmailFree(u, e) \/ Faults
  /\ \/ pw = None /\ Edit(p, "edit", [row[u] EXCEPT !.email = e])
     \/ pw # None /\ Edit(p, "password", [row[u] EXCEPT !.email = e, !.password = pw])
  /\ switched' = [switched EXCEPT ![u] = IF row[u].verified /\ e # row[u].email THEN @ \cup {e} ELSE @]

\* UpdateStatus, SuspendUser, ActivateUser
UpdateStatus(p, u, s) ==
  /\ "updateStatus" \in ops
  /\ Exists(u)
  /\ Edit(p, IF s \in {"suspended", "locked"} THEN "block" ELSE "unblock", [row[u] EXCEPT !.status = s])
  /\ UNCHANGED switched

LockUser(p, u, until) ==
  /\ "lockUser" \in ops
  /\ Exists(u)
  /\ Edit(p, "block", [row[u] EXCEPT !.status = "locked", !.until = until])
  /\ UNCHANGED switched

UnlockUser(p, u) ==
  /\ "unlockUser" \in ops
  /\ Exists(u)
  /\ Edit(p, "unblock", [row[u] EXCEPT !.status = "active", !.failed = 0, !.until = "null"])
  /\ UNCHANGED switched

\* What a saved change means to the user and to the administrator
SaveHistory(p) ==
  LET r == copy[p] IN
  /\ told' = [told EXCEPT ![r.id] = IF op[p] \in {"password", "reset"} THEN r.password ELSE @]
  /\ set' = [l \in Link |-> IF op[p] = "reset" /\ item[p] = l /\ set[l] < 2 THEN set[l] + 1 ELSE set[l]]
  /\ guesses' = [guesses EXCEPT ![r.id] = IF op[p] \in {"reset", "block", "unblock"} THEN 0 ELSE @]
  /\ adminLocked' = IF op[p] = "block" /\ r.status = "locked" /\ r.until = "null"
                    THEN adminLocked \cup {r.id}
                    ELSE IF op[p] \in {"block", "unblock"} THEN adminLocked \ {r.id} ELSE adminLocked
  /\ UNCHANGED <<proved, switched, disturbed>>

Save(p) ==
  /\ pc[p] = "save"
  /\ UserUpdate(copy[p])
  /\ \/ op[p] \in {"password", "block", "reset"} /\ Goto(p, "endSessions")
     \/ op[p] \notin {"password", "block", "reset"} /\ Return(p)
  /\ SaveHistory(p)
  /\ UNCHANGED <<sessions, links, codes, aged>>

\* endSessions
EndSessions(p) ==
  /\ pc[p] = "endSessions"
  /\ SessionDeleteByUserID(who[p])
  /\ \/ op[p] = "reset" /\ Goto(p, "revokeLinks")
     \/ op[p] # "reset" /\ Return(p)
  /\ UNCHANGED <<row, links, codes, aged, history>>

Delete(p, u) ==
  /\ "delete" \in ops
  /\ Exists(u)
  /\ Begin(p, "delete", "deleteUser", u, None, None, None)
  /\ UNCHANGED <<tables, told, set, proved, switched, guesses, adminLocked>>

DeleteRow(p) ==
  /\ pc[p] = "deleteUser"
  /\ UserDelete(who[p])
  /\ Goto(p, "endSessions")
  /\ UNCHANGED <<sessions, links, codes, aged, history>>

-----------------------------------------------------------------------------
(* E-mail verification *)

SendVerificationEmail(p, u) ==
  /\ "sendVerification" \in ops
  /\ Exists(u)
  /\ Begin(p, "send", "startVerification", u, None, None, None)
  /\ UNCHANGED <<tables, told, set, proved, switched, guesses, adminLocked>>

StartVerification(p) ==
  /\ pc[p] = "startVerification"
  /\ \/ /\ Exists(who[p]) /\ ~row[who[p]].verified
        /\ pc' = [pc EXCEPT ![p] = "deletePending"]
        /\ copy' = [copy EXCEPT ![p] = row[who[p]]]
        /\ UNCHANGED <<op, who, item, secret, ops>>
     \/ (Exists(who[p]) => row[who[p]].verified) /\ Return(p)
  /\ UNCHANGED <<tables, history>>

DeletePending(p) ==
  /\ pc[p] = "deletePending"
  /\ VerificationDeletePendingByUserID(who[p])
  /\ Goto(p, "createCode")
  /\ UNCHANGED <<row, sessions, links, aged, history>>

CreateCode(p, c) ==
  /\ pc[p] = "createCode"
  /\ VerificationCreate(c, who[p], copy[p].email)
  /\ Return(p)
  /\ UNCHANGED <<row, sessions, links, aged, history>>

Verified(r) == [r EXCEPT !.verified = TRUE, !.status = IF @ = "pending" THEN "active" ELSE @]

\* Mutant: the code counts for whatever address the user has by now
VerifyEmailAnyAddress(p, c) ==
  LET u == codeUser[c] IN
  /\ "verifyEmail" \in ops
  /\ codeStatus[c] = "pending"
  /\ c \notin aged
  /\ Exists(u)
  /\ Begin(p, "verify", "markVerified", u, Verified(row[u]), c, None)
  /\ UNCHANGED <<tables, told, set, proved, switched, guesses, adminLocked>>

\* The code and its user are read; the address must still be the user's
VerifyEmail(p, c) ==
  LET u == codeUser[c] IN
  /\ "verifyEmail" \in ops
  /\ codeStatus[c] = "pending"
  /\ c \notin aged
  /\ Exists(u)
  /\ row[u].email = codeAddr[c]
  /\ Begin(p, "verify", "markVerified", u, Verified(row[u]), c, None)
  /\ UNCHANGED <<tables, told, set, proved, switched, guesses, adminLocked>>

MarkVerified(p) ==
  /\ pc[p] = "markVerified"
  /\ \/ /\ codeStatus[item[p]] = "pending"
        /\ codeStatus' = [codeStatus EXCEPT ![item[p]] = "verified"]
        /\ proved' = [proved EXCEPT ![who[p]] = @ \cup {codeAddr[item[p]]}]
        /\ Goto(p, "save")
     \/ codeStatus[item[p]] # "pending" /\ UNCHANGED <<codeStatus, proved>> /\ Return(p)
  /\ UNCHANGED <<row, sessions, links, codeUser, codeAddr, aged, told, set, switched, guesses, adminLocked, disturbed>>

-----------------------------------------------------------------------------
(* Password reset *)

\* Mutant: the limit itself still passes
RequestPasswordResetOneMore(p, u) ==
  /\ "requestReset" \in ops
  /\ Exists(u)
  /\ ~IsSuspended(row[u])
  /\ CountSince(u) <= MaxPasswordResetsPerHour
  /\ Begin(p, "request", "revokeLinks", u, None, None, None)
  /\ UNCHANGED <<tables, told, set, proved, switched, guesses, adminLocked>>

\* The user is read and the links of the last hour are counted
RequestPasswordReset(p, u) ==
  /\ "requestReset" \in ops
  /\ Exists(u)
  /\ ~IsSuspended(row[u])
  /\ CountSince(u) < MaxPasswordResetsPerHour
  /\ Begin(p, "request", "revokeLinks", u, None, None, None)
  /\ UNCHANGED <<tables, told, set, proved, switched, guesses, adminLocked>>

\* Before a new link is made, and after a reset
RevokeLinks(p) ==
  /\ pc[p] = "revokeLinks"
  /\ ResetRevokeUnusedByUserID(who[p])
  /\ \/ op[p] = "request" /\ Goto(p, "createLink")
     \/ op[p] = "reset" /\ Return(p)
  /\ UNCHANGED <<row, sessions, codes, aged, history>>

CreateLink(p, l) ==
  /\ pc[p] = "createLink"
  /\ ResetCreate(l, who[p])
  /\ Return(p)
  /\ UNCHANGED <<row, sessions, codes, aged, history>>

\* Mutant: every lock is lifted
WithPasswordUnlocked(r, pw) ==
  [r EXCEPT !.password = pw, !.failed = 0, !.until = "null", !.status = IF @ = "locked" THEN "active" ELSE @]

\* The lockout of failed logins is lifted, the lock of an administrator is not
WithPassword(r, pw) ==
  IF r.status = "locked" /\ r.until # "null"
  THEN [r EXCEPT !.password = pw, !.failed = 0, !.status = "active", !.until = "null"]
  ELSE [r EXCEPT !.password = pw, !.failed = 0]

\* The link and its user are read
ResetPassword(p, l, pw) ==
  LET u == linkUser[l] IN
  /\ "resetPassword" \in ops
  /\ linkStatus[l] = "unused"
  /\ l \notin aged
  /\ Exists(u)
  /\ ~IsSuspended(row[u])
  /\ Begin(p, "reset", "markUsed", u, WithPassword(row[u], pw), l, None)
  /\ UNCHANGED <<tables, told, set, proved, switched, guesses, adminLocked>>

\* Mutant: the link is marked whether or not it was used by now
MarkUsedAnyway(p) ==
  /\ pc[p] = "markUsed"
  /\ linkStatus' = [linkStatus EXCEPT ![item[p]] = "used"]
  /\ Goto(p, "save")
  /\ UNCHANGED <<row, sessions, linkUser, codes, aged, history>>

MarkUsed(p) ==
  /\ pc[p] = "markUsed"
  /\ \/ /\ linkStatus[item[p]] = "unused"
        /\ linkStatus' = [linkStatus EXCEPT ![item[p]] = "used"]
        /\ Goto(p, "save")
     \/ linkStatus[item[p]] # "unused" /\ UNCHANGED linkStatus /\ Return(p)
  /\ UNCHANGED <<row, sessions, linkUser, codes, aged, history>>

-----------------------------------------------------------------------------
(* Failures, time, and the cleanup job *)

\* A statement fails and its error is returned, or the replica stops
Abort(p) ==
  /\ pc[p] # "idle"
  /\ Faults \/ (pc[p] = "save" /\ ~EmailFree(copy[p].id, copy[p].email))
  /\ disturbed' = disturbed \cup {who[p]}
  /\ Return(p)
  /\ UNCHANGED <<tables, told, set, proved, switched, guesses, adminLocked>>

\* An hour, or a day, passes for a link or a code
Age ==
  /\ "expiry" \in ops
  /\ \E i \in (Link \cup Code) \ aged :
       /\ i \in Link => linkStatus[i] # "none"
       /\ i \in Code => codeStatus[i] # "none"
       /\ aged' = aged \cup {i}
  /\ UNCHANGED <<row, sessions, links, codes, request, history>>

\* locked_until passes
LockEnds(r) == IF r \in {None, Deleted} THEN r ELSE IF r.until = "running" THEN [r EXCEPT !.until = "over"] ELSE r

LockoutPasses ==
  /\ \E u \in User : Exists(u) /\ row[u].until = "running"
  /\ row' = [u \in User |-> LockEnds(row[u])]
  /\ copy' = [p \in Request |-> LockEnds(copy[p])]
  /\ UNCHANGED <<sessions, links, codes, aged, pc, op, who, item, secret, ops, history>>

CleanupExpired ==
  /\ "expiry" \in ops
  /\ linkStatus' = [l \in Link |-> IF l \in aged THEN "deleted" ELSE linkStatus[l]]
  /\ codeStatus' = [c \in Code |-> IF c \in aged THEN "deleted" ELSE codeStatus[c]]
  /\ UNCHANGED <<row, sessions, linkUser, codeUser, codeAddr, aged, request, history>>

\* The routes of the server, and the calls on accounts that have none
HandleLogin(p) == \E u \in User, pw \in Password : Authenticate(p, u, pw)
CreateUser(p) == \E u \in User, e \in Address, pw \in Password : Create(p, u, e, pw)
UpdateUser(p) == \E u \in User, e \in Address, pw \in Password \cup {None} : Update(p, u, e, pw)
PutPassword(p) == \E u \in User, old, new \in Password : ChangePassword(p, u, old, new)
DeleteUser(p) == \E u \in User : Delete(p, u)
ResendVerification(p) == \E u \in User : SendVerificationEmail(p, u)
OpenVerificationLink(p) == \E c \in Code : VerifyEmail(p, c)
ForgotPassword(p) == \E u \in User : RequestPasswordReset(p, u)
SubmitReset(p) == \E l \in Link, pw \in Password : ResetPassword(p, l, pw)
SetStatus(p) == \E u \in User, s \in Status : UpdateStatus(p, u, s)
Lock(p) == \E u \in User, until \in {"null", "running"} : LockUser(p, u, until)
Unlock(p) == \E u \in User : UnlockUser(p, u)

Start(p) ==
  \/ HandleLogin(p)
  \/ CreateUser(p)
  \/ UpdateUser(p)
  \/ PutPassword(p)
  \/ DeleteUser(p)
  \/ ResendVerification(p)
  \/ OpenVerificationLink(p)
  \/ ForgotPassword(p)
  \/ SubmitReset(p)
  \/ SetStatus(p)
  \/ Lock(p)
  \/ Unlock(p)

Continue(p) ==
  \/ ReadAttempt(p)
  \/ SaveAttempt(p)
  \/ CreateSession(p)
  \/ Save(p)
  \/ EndSessions(p)
  \/ DeleteRow(p)
  \/ StartVerification(p)
  \/ DeletePending(p)
  \/ \E c \in Code : CreateCode(p, c)
  \/ MarkVerified(p)
  \/ RevokeLinks(p)
  \/ \E l \in Link : CreateLink(p, l)
  \/ MarkUsed(p)

Next ==
  \/ \E p \in Request : Start(p)
  \/ \E p \in Request : Continue(p)
  \/ \E p \in Request : Abort(p)
  \/ EndSession
  \/ Age
  \/ LockoutPasses
  \/ CleanupExpired

Spec == Init /\ [][Next]_vars

-----------------------------------------------------------------------------
(* Properties *)

\* "The link expires in {{expires_minutes}} minutes and works once": however
\* many requests present a reset link, it sets at most one password
\* (ResetPassword, MarkUsed).
LinkWorksOnce == \A l \in Link : set[l] <= 1

\* email_verified is only true of an address that the user proved to own, or
\* switched to from a verified account (Update keeps the flag): no stale row
\* that is saved, and no code sent to an earlier address, verifies another
\* one (VerifyEmail, "not of an address the user switched to afterwards").
VerifiedIsProved ==
  \A u \in User : Exists(u) /\ row[u].verified => row[u].email \in proved[u] \cup switched[u]

\* "MaxPasswordResetsPerHour bounds reset emails per user": requests that
\* count before they create exceed the limit by fewer than there are at once.
ResetMailsBounded ==
  \A u \in User : CountSince(u) < MaxPasswordResetsPerHour + Cardinality(Request)

\* u is not being worked on
Quiet(u) == \A p \in Request : who[p] # u

\* "Your password has been changed and you have been signed out everywhere.
\* Sign in again with your new password" (account_handler.go): the password
\* the user was last told works and every session was opened with it.
\* A login that saves an older copy of the row breaks it (README, "Divergences").
PasswordTakesEffect ==
  \A u \in User : Exists(u) /\ Quiet(u) =>
    row[u].password = told[u] /\ \A s \in sessions : s[1] = u => s[2] = told[u]

\* The same for the users on whom no two requests worked at once and none
\* failed half-way: no sequence of logins, lockouts, resets, profile and status
\* changes leaves an old password or a session opened with one.
PasswordTakesEffectInTurn ==
  \A u \in User \ disturbed : Exists(u) /\ Quiet(u) =>
    row[u].password = told[u] /\ \A s \in sessions : s[1] = u => s[2] = told[u]

\* "an administrator's lock has none and stays" (ResetPassword), with the same
\* proviso: no login, reset or verification lifts it, and no session is open.
AdminLockHolds ==
  \A u \in adminLocked \ disturbed : Exists(u) =>
    IsLocked(row[u]) /\ (Quiet(u) => \A s \in sessions : s[1] # u)

\* MaxLoginAttempts: no more wrong passwords than that are checked before the
\* count is cleared, with the same proviso (RecordLoginAttempt).
GuessesBounded == \A u \in User \ disturbed : guesses[u] <= MaxLoginAttempts

\* "a failed-login lockout (it has an end time)" (ResetPassword): an account
\* whose locked_until has passed is not locked.  It does not hold (README, "Divergences").
LockoutEnds ==
  \A u \in User : Exists(u) /\ row[u].until = "over" => ~IsLocked(row[u])

-----------------------------------------------------------------------------
(***************************************************************************)
(* The inductive invariants.  FormInv: what a request that has reached a   *)
(* statement holds.  LinkInv: a link is claimed by the one request that    *)
(* sets a password with it.  AddressInv: a verified copy, like a verified  *)
(* row, has a proved address.  MailInv: a request that is about to make a  *)
(* link was under the limit when it counted.                               *)
(***************************************************************************)

WithCopy == {"readAttempt", "saveAttempt", "save", "deletePending", "createCode", "markVerified", "markUsed"}

TableForm ==
  /\ \A u \in User : Exists(u) => row[u].id = u
  /\ \A l \in Link : linkStatus[l] = "unused" => linkUser[l] \in User
  /\ \A c \in Code : codeStatus[c] = "pending" => codeUser[c] \in User /\ codeAddr[c] \in Address

RequestForm(p) ==
  /\ pc[p] = "idle" <=> who[p] = None
  /\ pc[p] \in WithCopy => copy[p] \in Row
  /\ op[p] = "passed" => secret[p] \in Password
  /\ pc[p] = "createSession" => op[p] = "passed"
  /\ pc[p] \in {"readAttempt", "saveAttempt"} => op[p] \in {"passed", "failed"}
  /\ pc[p] = "markVerified" => item[p] \in Code /\ copy[p].id = who[p]
  /\ op[p] = "reset" => item[p] \in Link
  /\ pc[p] = "markUsed" => op[p] = "reset"
  /\ pc[p] = "createLink" => op[p] = "request"

FormInv == TableForm /\ \A p \in Request : RequestForm(p)

LinkInv ==
  /\ \A l \in Link : linkStatus[l] \in {"none", "unused"} => set[l] = 0
  /\ \A p \in Request : op[p] = "reset" /\ pc[p] = "save" =>
       linkStatus[item[p]] \in {"used", "deleted"} /\ set[item[p]] = 0
  /\ \A p, q \in Request :
       op[p] = "reset" /\ op[q] = "reset" /\ pc[p] = "save" /\ pc[q] = "save" /\ item[p] = item[q] => p = q
  /\ LinkWorksOnce

\* These requests have a row to save; verification adds the address first
Saving == {"saveAttempt", "markUsed", "save"}

AddressInv ==
  /\ VerifiedIsProved
  /\ \A p \in Request : pc[p] \in Saving /\ copy[p].verified =>
       copy[p].email \in proved[copy[p].id] \cup switched[copy[p].id]
  /\ \A p \in Request : pc[p] = "markVerified" =>
       codeStatus[item[p]] # "none" /\ codeAddr[item[p]] = copy[p].email

MailInv ==
  \A u \in User :
    CountSince(u) + Cardinality({p \in Request : op[p] = "request" /\ who[p] = u})
      < MaxPasswordResetsPerHour + Cardinality(Request)

AccountInv == TypeOK /\ FormInv /\ LinkInv /\ AddressInv /\ MailInv

(***************************************************************************)
(* Requests that take turns.  A user who was never disturbed has at most   *)
(* one request working on it, and what that request read is still true.    *)
(***************************************************************************)

\* A wrong password was compared and the count is not saved yet
Counting(p) == op[p] = "failed" /\ pc[p] \in {"readAttempt", "saveAttempt"}

\* The count is a row's, and a lockout is one of the row
Tallied(u, r) == guesses[u] <= r.failed /\ (guesses[u] = MaxLoginAttempts => r.status = "locked")

LockedForGood(r) == r.status = "locked" /\ r.until = "null"

\* The user's row and sessions
Rest(u) ==
  /\ guesses[u] <= MaxLoginAttempts
  /\ row[u] = None => /\ Quiet(u) /\ guesses[u] = 0 /\ u \notin adminLocked
                      /\ \A s \in sessions : s[1] # u
  /\ Exists(u) =>
       /\ row[u].password = told[u]
       /\ (\A p \in Request : who[p] = u => ~Counting(p)) => Tallied(u, row[u])
       /\ u \in adminLocked => LockedForGood(row[u])
  /\ (\A p \in Request : who[p] = u => pc[p] # "endSessions") =>
       \A s \in sessions : s[1] = u => s[2] = told[u] /\ u \notin adminLocked

\* These requests hold a row that they read and may save
Writing == {"saveAttempt", "markVerified", "markUsed", "save"}

\* What request p of user u knows: the row that it saves is as good as the one there, in
\* what its saving does not settle
Work(p, u) ==
  /\ op[p] \in {"passed", "failed"} => u \notin adminLocked
  /\ op[p] = "passed" => secret[p] = told[u] /\ guesses[u] = 0
  /\ pc[p] = "readAttempt" => /\ Exists(u) /\ copy[p].email = row[u].email
                              /\ guesses[u] <= row[u].failed + 1
  /\ pc[p] \in Writing =>
       /\ Exists(u) /\ copy[p].id = u
       /\ op[p] \notin {"password", "reset"} => copy[p].password = told[u]
       /\ op[p] \notin {"reset", "block", "unblock"} => Tallied(u, copy[p])
       /\ op[p] \notin {"block", "unblock"} /\ u \in adminLocked => LockedForGood(copy[p])

EmailsUnique == \A u, v \in User : Exists(u) /\ Exists(v) /\ row[u].email = row[v].email => u = v

OneAtATime == \A p, q \in Request : who[p] = who[q] /\ who[p] \in User \ disturbed => p = q

\* A request that holds somebody else's row disturbs both
CopiesOwn == \A p \in Request : pc[p] \in Writing => copy[p].id = who[p] \/ copy[p].id \in disturbed

TurnInv ==
  /\ EmailsUnique /\ OneAtATime /\ CopiesOwn
  /\ \A u \in User \ disturbed : Rest(u) /\ \A p \in Request : who[p] = u => Work(p, u)
=============================================================================
