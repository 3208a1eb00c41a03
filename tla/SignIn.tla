------------------------------- MODULE SignIn -------------------------------
(***************************************************************************)
(* Signing in: the second factor, SSO sessions, consent and the browser    *)
(* flow that ends in an authorization code (internal/services/             *)
(* mfa_service_impl.go, session_service_impl.go, internal/handlers/        *)
(* oauth_authorize.go, oauth_mfa.go, oauth_logout.go, mfa_handler.go and   *)
(* the repositories they use).                                             *)
(*                                                                         *)
(* There is one client and one tenant.  A login here has the right         *)
(* password (UserAccount models passwords and the lockout); the prompt and *)
(* max_age parameters only decide whether the login page is shown, and a   *)
(* browser may show it at any time.  A TOTP code is the pair of the secret *)
(* and the time step it is made from; a set of recovery codes is one code. *)
(***************************************************************************)
EXTENDS Naturals, FiniteSets

CONSTANTS
  User, Browser, Session, Scope,
  Secret,          \* TOTP secrets
  Recovery,        \* recovery codes
  Request,         \* slots for requests in progress
  None,            \* no row, no value
  MaxStep,         \* TOTP time steps considered
  MaxMFAFailures,
  Workload         \* mixes of operations to consider

Operation ==
  {"login", "device", "authorize", "consent", "logout", "enroll", "disable", "reset", "regenerate",
   "guess", "status", "tick", "expiry", "failure"}

ASSUME SignInAssumption ==
  /\ IsFiniteSet(Request)
  /\ MaxStep \in Nat \ {0}
  /\ MaxMFAFailures \in Nat \ {0}
  /\ Workload \subseteq SUBSET Operation
  /\ None \notin User \cup Browser \cup Session \cup Secret \cup Recovery

Step == 1..MaxStep

\* The second factors a user can have; a wrong code is None
TOTP == [secret : Secret, step : Step]
Code == TOTP \cup Recovery

ASSUME CodeAssumption == Recovery \cap TOTP = {} /\ None \notin TOTP

\* user_mfa: whether the enrollment is confirmed, and if not whether it is recent;
\* failed_attempts is only compared with MaxMFAFailures
UserMFA ==
  [secret : Secret, confirmed : BOOLEAN, recent : BOOLEAN, lastStep : 0..MaxStep,
   failed : 0..MaxMFAFailures, locked : BOOLEAN]

\* How a session was opened: the amr of a password alone, or of two factors
AMR == {"pwd", "mfa"}

SessionRow == [user : User, amr : AMR]

ASSUME RowAssumption == None \notin UserMFA \cup SessionRow

\* What a request carries along
Context ==
  [doing : {"none", "login", "device", "authorize", "consent", "logout", "enroll", "confirm",
            "disable", "reset", "regenerate", "status"},
   browser : Browser \cup {None}, user : User \cup {None}, session : Session \cup {None},
   code : Code \cup {None}, amr : AMR, scope : SUBSET Scope, granted : SUBSET Scope]

Nothing ==
  [doing |-> "none", browser |-> None, user |-> None, session |-> None,
   code |-> None, amr |-> "pwd", scope |-> {}, granted |-> {}]

PC ==
  {"idle", "mfaRequired", "getUser", "getSettings", "useStep", "useRecoveryCode", "recordFailure",
   "endOldSession", "createSession", "hasConsent", "issueCode", "decideDevice", "getSession",
   "getSessionUser", "endSession", "getConsent", "upsertConsent", "checkEnrollment", "confirm",
   "endSessions", "getMFA", "deleteMFA", "isEnabled", "replaceCodes"}

VARIABLES
  status,     \* users: "active", "suspended" or "locked"
  mfa,        \* the user_mfa table
  recovery,   \* unused recovery codes of a user
  session,    \* the sessions table
  dated,      \* sessions past expires_at
  consent,    \* the scope a user granted the client
  cookie,     \* the session cookie of a browser
  pending,    \* the user and flow of the pending token in a browser's MFA form
  page,       \* the scope on a browser's consent page
  now,        \* the TOTP time step
  pc,         \* the statement a request runs next
  req,        \* what it carries along
  ops,        \* the mix of operations
  \* history
  spent,      \* secrets, recovery codes and session tokens made so far
  uses,       \* how often a user's second factor was accepted
  proven,     \* secrets a code of which was verified
  guesses,    \* wrong codes counted since the count was cleared or the lock ended
  approved,   \* the scope a user approved on consent pages
  barred,     \* requests whose user was suspended when they arrived and still is
  disturbed   \* users whose second factor or consent one request changed while another
              \* relied on what it had read, or changed and failed half-way

tables  == <<status, mfa, recovery, session, dated, consent>>
browser == <<cookie, pending, page>>
request == <<pc, req>>
history == <<spent, uses, proven, guesses, approved, barred, disturbed>>
vars    == <<tables, browser, now, request, ops, history>>

Pending == [user : User, purpose : {"login", "device"}]

\* Tables, browsers, requests and history have their types.
TypeOK ==
  /\ status \in [User -> {"active", "suspended", "locked"}]
  /\ mfa \in [User -> UserMFA \cup {None}]
  /\ recovery \in [User -> SUBSET Recovery]
  /\ session \in [Session -> SessionRow \cup {None}]
  /\ dated \subseteq Session
  /\ consent \in [User -> SUBSET Scope]
  /\ cookie \in [Browser -> Session \cup {None}]
  /\ pending \in [Browser -> Pending \cup {None}]
  /\ page \in [Browser -> SUBSET Scope]
  /\ now \in Step
  /\ pc \in [Request -> PC]
  /\ req \in [Request -> Context]
  /\ ops \subseteq Operation
  /\ spent \subseteq Secret \cup Recovery \cup Session
  /\ uses \in [User -> [Code -> Nat]]
  /\ proven \subseteq Secret
  /\ guesses \in [User -> Nat]
  /\ approved \in [User -> SUBSET Scope]
  /\ barred \subseteq Request
  /\ disturbed \subseteq User \X {"mfa", "consent"}

Init ==
  /\ status = [u \in User |-> "active"]
  /\ mfa = [u \in User |-> None]
  /\ recovery = [u \in User |-> {}]
  /\ session = [s \in Session |-> None]
  /\ dated = {}
  /\ consent = [u \in User |-> {}]
  /\ cookie = [b \in Browser |-> None]
  /\ pending = [b \in Browser |-> None]
  /\ page = [b \in Browser |-> {}]
  /\ now = 1
  /\ pc = [p \in Request |-> "idle"]
  /\ req = [p \in Request |-> Nothing]
  /\ ops \in Workload
  /\ spent = {}
  /\ uses = [u \in User |-> [c \in Code |-> 0]]
  /\ proven = {}
  /\ guesses = [u \in User |-> 0]
  /\ approved = [u \in User |-> {}]
  /\ barred = {}
  /\ disturbed = {}

-----------------------------------------------------------------------------
(* Requests *)

Begin(p, operation, next, context) ==
  /\ pc[p] = "idle" /\ operation \in ops
  /\ pc' = [pc EXCEPT ![p] = next]
  /\ req' = [req EXCEPT ![p] = context]
  /\ UNCHANGED ops

At(p, where) == pc[p] = where /\ UNCHANGED ops

Goto(p, next) == pc' = [pc EXCEPT ![p] = next] /\ UNCHANGED req

Know(p, next, context) ==
  /\ pc' = [pc EXCEPT ![p] = next]
  /\ req' = [req EXCEPT ![p] = context]

Return(p) == Know(p, "idle", Nothing)

Answered(p) == barred' = barred \ {p}

\* The requests other than p that work for user u
Others(p, u) == {q \in Request \ {p} : pc[q] # "idle" /\ req[q].user = u}

\* Request p changes the second factor of u after another has checked a code against it, or
\* has found that none is needed
Disturbing(p, u) ==
  IF \E q \in Others(p, u) : \/ pc[q] \in {"useStep", "confirm"}
                             \/ pc[q] \in {"endOldSession", "createSession"} /\ req[q].amr = "pwd"
  THEN {<<u, "mfa">>} ELSE {}

-----------------------------------------------------------------------------
(* Repositories *)

DeleteByTokenHash(s) == session' = [session EXCEPT ![s] = None]

DeleteByUserID(u) ==
  session' = [s \in Session |-> IF session[s] # None /\ session[s].user = u THEN None ELSE session[s]]

Enabled(u) == mfa[u] # None /\ mfa[u].confirmed

\* Mutant: an enrollment replaces any other
MaySavePendingAlways(u) == TRUE

\* An enrollment replaces one that is not confirmed
MaySavePending(u) == mfa[u] # None => ~mfa[u].confirmed

\* An upsert, which leaves confirmed_at alone
SavePending(u, secret) ==
  mfa' = [mfa EXCEPT ![u] = [secret |-> secret, confirmed |-> Enabled(u), recent |-> TRUE,
                             lastStep |-> 0, failed |-> 0, locked |-> FALSE]]

ReplaceRecoveryCodes(u, r) == recovery' = [recovery EXCEPT ![u] = {r}]

\* A time step counts once, for the authenticator that is enabled now
MayUseStep(u, step) == mfa[u] # None /\ mfa[u].confirmed /\ mfa[u].lastStep < step

Cleared(row, step) == [row EXCEPT !.lastStep = step, !.failed = 0, !.locked = FALSE]

\* Mutant: the lock comes a failure late
FailedLate(row) ==
  [row EXCEPT !.failed = IF @ < MaxMFAFailures THEN @ + 1 ELSE @,
              !.locked = @ \/ row.failed >= MaxMFAFailures]

\* The count is kept up to the limit, from which on every failure locks
Failed(row) ==
  [row EXCEPT !.failed = IF @ < MaxMFAFailures THEN @ + 1 ELSE @,
              !.locked = @ \/ row.failed + 1 >= MaxMFAFailures]

-----------------------------------------------------------------------------
(* Login *)

\* A request of user u arrives
Arrives(p, u) == barred' = IF status[u] = "suspended" THEN barred \cup {p} ELSE barred

\* Authenticate turns away locked users only
HandleLogin(p, b, u, purpose, scope) ==
  /\ Begin(p, purpose, "mfaRequired",
           [Nothing EXCEPT !.doing = purpose, !.browser = b, !.user = u, !.session = cookie[b],
                           !.scope = scope])
  /\ status[u] # "locked"
  /\ Arrives(p, u)
  /\ UNCHANGED <<tables, browser, now, spent, uses, proven, guesses, approved, disturbed>>

\* The statement after the last factor
Passed(doing) ==
  CASE doing = "login" -> "endOldSession"
    [] doing = "device" -> "decideDevice"
    [] doing = "disable" -> "getMFA"
    [] doing = "regenerate" -> "isEnabled"

\* With a second factor the browser gets a pending token and the MFA form
MfaRequired(p) ==
  /\ At(p, "mfaRequired")
  /\ LET u == req[p].user IN
     \/ /\ Enabled(u)
        /\ pending' = [pending EXCEPT ![req[p].browser] = [user |-> u, purpose |-> req[p].doing]]
        /\ Return(p) /\ Answered(p)
     \/ /\ ~Enabled(u)
        /\ Goto(p, Passed(req[p].doing))
        /\ UNCHANGED <<pending, barred>>
  /\ UNCHANGED <<tables, cookie, page, now, spent, uses, proven, guesses, approved, disturbed>>

\* The MFA form is submitted with a code
CompleteMFA(p, b, purpose, code, scope) ==
  /\ pending[b] # None /\ pending[b].purpose = purpose
  /\ Begin(p, purpose, "getUser",
           [Nothing EXCEPT !.doing = purpose, !.browser = b, !.user = pending[b].user,
                           !.session = cookie[b], !.code = code, !.amr = "mfa", !.scope = scope])
  /\ Arrives(p, pending[b].user)
  /\ UNCHANGED <<tables, browser, now, spent, uses, proven, guesses, approved, disturbed>>

\* The account may have been suspended or locked since the password step
GetUser(p) ==
  /\ At(p, "getUser")
  /\ IF status[req[p].user] = "active"
     THEN Goto(p, "getSettings") /\ UNCHANGED barred
     ELSE Return(p) /\ Answered(p)
  /\ UNCHANGED <<tables, browser, now, spent, uses, proven, guesses, approved, disturbed>>

\* mfa.Verify: the code is of this secret, of this time step or of one next to it
Verifies(code, secret) ==
  code \in TOTP /\ code.secret = secret /\ code.step \in (now - 1)..(now + 1)

\* mfaServiceImpl.Verify up to its first write
Verify(p) ==
  /\ At(p, "getSettings")
  /\ LET u == req[p].user
         code == req[p].code
     IN IF ~Enabled(u) \/ mfa[u].locked
        THEN Return(p) /\ Answered(p)
        ELSE /\ Goto(p, CASE Verifies(code, mfa[u].secret) -> "useStep"
                          [] code \in Recovery -> "useRecoveryCode"
                          [] OTHER -> "recordFailure")
             /\ UNCHANGED barred
  /\ UNCHANGED <<tables, browser, now, spent, uses, proven, guesses, approved, disturbed>>

Accept(u, code) == uses' = [uses EXCEPT ![u][code] = @ + 1]

\* A TOTP code is accepted once
UseStep(p) ==
  /\ At(p, "useStep")
  /\ LET u == req[p].user
         code == req[p].code
     IN \/ /\ MayUseStep(u, code.step)
           /\ mfa' = [mfa EXCEPT ![u] = Cleared(@, code.step)]
           /\ Accept(u, code)
           /\ guesses' = [guesses EXCEPT ![u] = 0]
           /\ Know(p, Passed(req[p].doing), [req[p] EXCEPT !.code = None])
        \/ /\ ~MayUseStep(u, code.step)
           /\ Know(p, "recordFailure", [req[p] EXCEPT !.code = None])
           /\ UNCHANGED <<mfa, uses, guesses>>
  /\ UNCHANGED <<status, recovery, session, dated, consent, browser, now, spent, proven, approved, barred, disturbed>>

\* A recovery code is deleted from the unused ones, and the count cleared, in one transaction
UseRecoveryCode(p) ==
  /\ At(p, "useRecoveryCode")
  /\ LET u == req[p].user
         code == req[p].code
     IN \/ /\ code \in recovery[u]
           /\ recovery' = [recovery EXCEPT ![u] = @ \ {code}]
           /\ mfa' = [mfa EXCEPT ![u] = IF @ = None THEN None ELSE Cleared(@, @.lastStep)]
           /\ Accept(u, code)
           /\ guesses' = [guesses EXCEPT ![u] = 0]
           /\ Know(p, Passed(req[p].doing), [req[p] EXCEPT !.code = None])
        \/ /\ code \notin recovery[u]
           /\ Know(p, "recordFailure", [req[p] EXCEPT !.code = None])
           /\ UNCHANGED <<recovery, mfa, uses, guesses>>
  /\ UNCHANGED <<status, session, dated, consent, browser, now, spent, proven, approved,
                 barred, disturbed>>

\* A wrong code counts whatever the count was when the settings were read
RecordFailure(p) ==
  /\ At(p, "recordFailure")
  /\ LET u == req[p].user IN
     \/ /\ mfa[u] # None
        /\ mfa' = [mfa EXCEPT ![u] = Failed(@)]
        /\ guesses' = [guesses EXCEPT ![u] = @ + 1]
     \/ /\ mfa[u] = None
        /\ UNCHANGED <<mfa, guesses>>
  /\ Return(p) /\ Answered(p)
  /\ UNCHANGED <<status, recovery, session, dated, consent, browser, now, spent, uses, proven,
                 approved, disturbed>>

\* signIn discards the session that the browser came with,
EndOldSession(p) ==
  /\ At(p, "endOldSession")
  /\ IF req[p].session = None THEN UNCHANGED session ELSE DeleteByTokenHash(req[p].session)
  /\ Goto(p, "createSession")
  /\ UNCHANGED <<status, mfa, recovery, dated, consent, browser, now, history>>

\* and stores a new one, whose token becomes the browser's cookie
CreateSession(p, s) ==
  /\ At(p, "createSession")
  /\ s \in Session \ spent
  /\ session' = [session EXCEPT ![s] = [user |-> req[p].user, amr |-> req[p].amr]]
  /\ spent' = spent \cup {s}
  /\ cookie' = [cookie EXCEPT ![req[p].browser] = s]
  /\ Goto(p, "hasConsent")
  /\ UNCHANGED <<status, mfa, recovery, dated, consent, pending, page, now, uses, proven, guesses,
                 approved, barred, disturbed>>

\* Mutant: the user's consent to anything is enough
HasConsentToSome(u, scope) == consent[u] # {}

HasConsent(u, scope) == scope \subseteq consent[u]

\* continueAuthorization: the code, or the consent page (always, with prompt=consent)
ContinueAuthorization(p) ==
  /\ At(p, "hasConsent")
  /\ \/ /\ HasConsent(req[p].user, req[p].scope)
        /\ Goto(p, "issueCode")
        /\ UNCHANGED <<page, barred>>
     \/ /\ page' = [page EXCEPT ![req[p].browser] = req[p].scope]
        /\ Return(p) /\ Answered(p)
  /\ UNCHANGED <<tables, cookie, pending, now, spent, uses, proven, guesses, approved,
                 disturbed>>

IssueAuthorizationCode(p) ==
  /\ At(p, "issueCode")
  /\ Return(p) /\ Answered(p)
  /\ UNCHANGED <<tables, browser, now, spent, uses, proven, guesses, approved, disturbed>>

\* The decision on a device code is DeviceGrant's
ApplyDeviceDecision(p) ==
  /\ At(p, "decideDevice")
  /\ Return(p) /\ Answered(p)
  /\ UNCHANGED <<tables, browser, now, spent, uses, proven, guesses, approved, disturbed>>

-----------------------------------------------------------------------------
(* The browser's session, consent and logout *)

\* The user a session token stands for, if any
SessionUser(s) == IF s # None /\ session[s] # None THEN {session[s].user} ELSE {}

\* A request that relies on the browser's session: it asks for a code, submits the
\* consent page, or signs out
WithSession(p, b, doing, scope) ==
  /\ Begin(p, doing, "getSession",
           [Nothing EXCEPT !.doing = doing, !.browser = b, !.session = cookie[b], !.scope = scope])
  /\ cookie[b] # None
  /\ barred' = IF \E u \in SessionUser(cookie[b]) : status[u] = "suspended" THEN barred \cup {p} ELSE barred
  /\ UNCHANGED <<tables, browser, now, spent, uses, proven, guesses, approved, disturbed>>

HandleAuthorize(p, b, scope) == WithSession(p, b, "authorize", scope)

HandleConsent(p, b) == page[b] # {} /\ WithSession(p, b, "consent", page[b])

HandleLogout(p, b) == WithSession(p, b, "logout", {})

\* Without a live session the answer is the login page, or the page after logout
NoSession(p) ==
  /\ cookie' = IF req[p].doing = "logout" THEN [cookie EXCEPT ![req[p].browser] = None] ELSE cookie
  /\ Return(p) /\ Answered(p)

\* GetSession: an expired session is deleted
GetSession(p) ==
  /\ At(p, "getSession")
  /\ LET s == req[p].session IN
     \/ /\ session[s] = None
        /\ NoSession(p)
        /\ UNCHANGED session
     \/ /\ session[s] # None /\ s \in dated
        /\ DeleteByTokenHash(s)
        /\ NoSession(p)
     \/ /\ session[s] # None /\ s \notin dated
        /\ Know(p, "getSessionUser",
                [req[p] EXCEPT !.user = session[s].user, !.amr = session[s].amr])
        /\ UNCHANGED <<session, cookie, barred>>
  /\ UNCHANGED <<status, mfa, recovery, dated, consent, pending, page, now, spent, uses, proven,
                 guesses, approved, disturbed>>

\* Mutant: the session is enough
SessionUserOKUnchecked(u) == TRUE

\* currentSession looks at the user as well
SessionUserOK(u) == status[u] # "suspended"

\* currentSession ends the session of a suspended user
GetSessionUser(p) ==
  /\ At(p, "getSessionUser")
  /\ \/ /\ Goto(p, IF ~SessionUserOK(req[p].user) \/ req[p].doing = "logout" THEN "endSession"
                   ELSE IF req[p].doing = "authorize" THEN "hasConsent" ELSE "getConsent")
        /\ UNCHANGED barred
     \/ \* the user declined
        /\ SessionUserOK(req[p].user) /\ req[p].doing = "consent"
        /\ Return(p) /\ Answered(p)
  /\ UNCHANGED <<tables, browser, now, spent, uses, proven, guesses, approved, disturbed>>

EndSession(p) ==
  /\ At(p, "endSession")
  /\ DeleteByTokenHash(req[p].session)
  /\ NoSession(p)
  /\ UNCHANGED <<status, mfa, recovery, dated, consent, pending, page, now, spent, uses, proven,
                 guesses, approved, disturbed>>

\* GrantConsent reads what the user has granted so far,
GetConsent(p) ==
  /\ At(p, "getConsent")
  /\ LET u == req[p].user IN
     /\ Know(p, "upsertConsent", [req[p] EXCEPT !.granted = consent[u]])
     /\ disturbed' = disturbed \cup
          IF \E q \in Others(p, u) : pc[q] = "upsertConsent" THEN {<<u, "consent">>} ELSE {}
  /\ UNCHANGED <<tables, browser, now, spent, uses, proven, guesses, approved, barred>>

\* Mutant: the new scope replaces the old one
UnionScopesNew(old, new) == new

UnionScopes(old, new) == old \cup new

\* and stores the union; the code is for the requested scope only
UpsertConsent(p) ==
  /\ At(p, "upsertConsent")
  /\ LET u == req[p].user IN
     /\ consent' = [consent EXCEPT ![u] = UnionScopes(req[p].granted, req[p].scope)]
     /\ approved' = [approved EXCEPT ![u] = @ \cup req[p].scope]
  /\ Goto(p, "issueCode")
  /\ UNCHANGED <<status, mfa, recovery, session, dated, browser, now, spent, uses, proven, guesses, barred, disturbed>>

-----------------------------------------------------------------------------
(* The second factor *)

\* A request of the user, or of an administrator, about the user's second factor
AboutMFA(p, u, operation, doing, next, code) ==
  /\ Begin(p, operation, next, [Nothing EXCEPT !.doing = doing, !.user = u, !.code = code])
  /\ UNCHANGED <<tables, browser, now, history>>

\* BeginTOTPEnrollment: a new secret, unless an authenticator is enabled
BeginTOTP(p, u, secret) ==
  /\ "enroll" \in ops /\ pc[p] = "idle"
  /\ MaySavePending(u)
  /\ secret \in Secret \ spent
  /\ SavePending(u, secret)
  /\ spent' = spent \cup {secret}
  /\ guesses' = [guesses EXCEPT ![u] = 0]
  /\ disturbed' = disturbed \cup Disturbing(p, u)
  /\ UNCHANGED <<status, recovery, session, dated, consent, browser, now, request, ops, uses, proven,
                 approved, barred>>

ConfirmTOTP(p, u, code) == AboutMFA(p, u, "enroll", "confirm", "checkEnrollment", code)

\* The enrollment is not confirmed, is recent, and the code is of its secret
CheckEnrollment(p) ==
  /\ At(p, "checkEnrollment")
  /\ LET u == req[p].user IN
     IF mfa[u] # None /\ ~mfa[u].confirmed /\ mfa[u].recent /\ Verifies(req[p].code, mfa[u].secret)
     THEN /\ Goto(p, "confirm")
          /\ proven' = proven \cup {mfa[u].secret}
     ELSE Return(p) /\ UNCHANGED proven
  /\ UNCHANGED <<tables, browser, now, spent, uses, guesses, approved, barred, disturbed>>

\* The enrollment of the user, whichever it is by now, is confirmed
MayConfirm(u) == mfa[u] # None /\ ~mfa[u].confirmed

\* Mutant: the time step of the code that enabled MFA is not recorded
ConfirmedUnused(row, step) == [Cleared(row, 0) EXCEPT !.confirmed = TRUE]

Confirmed(row, step) == [Cleared(row, step) EXCEPT !.confirmed = TRUE]

Confirm(p, r) ==
  /\ At(p, "confirm")
  /\ LET u == req[p].user
         code == req[p].code
     IN \/ /\ MayConfirm(u)
           /\ r \in Recovery \ spent
           /\ mfa' = [mfa EXCEPT ![u] = Confirmed(@, code.step)]
           /\ ReplaceRecoveryCodes(u, r)
           /\ spent' = spent \cup {r}
           /\ Accept(u, code)
           /\ guesses' = [guesses EXCEPT ![u] = 0]
           /\ disturbed' = disturbed \cup Disturbing(p, u)
           /\ Know(p, "endSessions", [req[p] EXCEPT !.code = None])
        \/ /\ ~MayConfirm(u)
           /\ Return(p)
           /\ UNCHANGED <<mfa, recovery, spent, uses, guesses, disturbed>>
  /\ UNCHANGED <<status, session, dated, consent, browser, now, proven, approved, barred>>

\* Mutant: no session is ended
EndedSessionsNone(u) == UNCHANGED session

EndedSessions(u) == DeleteByUserID(u)

\* Sessions opened with the password alone must not outlive the change
EndSessions(p) ==
  /\ At(p, "endSessions")
  /\ EndedSessions(req[p].user)
  /\ Return(p)
  /\ UNCHANGED <<status, mfa, recovery, dated, consent, browser, now, history>>

\* Disabling and new recovery codes take a current code; an administrator's reset does not
Disable(p, u, code) == AboutMFA(p, u, "disable", "disable", "getSettings", code)
Reset(p, u) == AboutMFA(p, u, "reset", "reset", "getMFA", None)
RegenerateRecoveryCodes(p, u, code) == AboutMFA(p, u, "regenerate", "regenerate", "getSettings", code)

GetMFA(p) ==
  /\ At(p, "getMFA")
  /\ IF mfa[req[p].user] = None THEN Return(p) ELSE Goto(p, "deleteMFA")
  /\ UNCHANGED <<tables, browser, now, history>>

DeleteMFA(p) ==
  /\ At(p, "deleteMFA")
  /\ LET u == req[p].user IN
     /\ mfa' = [mfa EXCEPT ![u] = None]
     /\ recovery' = [recovery EXCEPT ![u] = {}]
     /\ guesses' = [guesses EXCEPT ![u] = 0]
     /\ disturbed' = disturbed \cup Disturbing(p, u)
  /\ Goto(p, "endSessions")
  /\ UNCHANGED <<status, session, dated, consent, browser, now, spent, uses, proven, approved,
                 barred>>

IsEnabled(p) ==
  /\ At(p, "isEnabled")
  /\ IF Enabled(req[p].user) THEN Goto(p, "replaceCodes") ELSE Return(p)
  /\ UNCHANGED <<tables, browser, now, history>>

ReplaceCodes(p, r) ==
  /\ At(p, "replaceCodes")
  /\ r \in Recovery \ spent
  /\ ReplaceRecoveryCodes(req[p].user, r)
  /\ spent' = spent \cup {r}
  /\ Return(p)
  /\ UNCHANGED <<status, mfa, session, dated, consent, browser, now, uses, proven, guesses, approved, barred, disturbed>>

-----------------------------------------------------------------------------
(* Account status, time and failures *)

\* UpdateStatus: an administrator suspends, locks or activates the account
UpdateStatus(p, u, st) ==
  /\ "status" \in ops /\ pc[p] = "idle" /\ status[u] # st
  /\ status' = [status EXCEPT ![u] = st]
  /\ barred' = {q \in barred : req[q].user # u /\ u \notin SessionUser(req[q].session)}
  /\ IF st = "active" THEN UNCHANGED request
     ELSE Know(p, "endSessions", [Nothing EXCEPT !.doing = "status", !.user = u])
  /\ UNCHANGED <<mfa, recovery, session, dated, consent, browser, now, ops, spent, uses, proven,
                 guesses, approved, disturbed>>

Tick ==
  /\ "tick" \in ops /\ now < MaxStep
  /\ now' = now + 1
  /\ UNCHANGED <<tables, browser, request, ops, history>>

\* mfaEnrollmentWindow is over
EnrollmentExpires(u) ==
  /\ "expiry" \in ops
  /\ mfa[u] # None /\ ~mfa[u].confirmed /\ mfa[u].recent
  /\ mfa' = [mfa EXCEPT ![u].recent = FALSE]
  /\ UNCHANGED <<status, recovery, session, dated, consent, browser, now, request, ops, history>>

\* MFALockoutDuration is over; the count stays where it is
LockoutExpires(u) ==
  /\ "expiry" \in ops
  /\ mfa[u] # None /\ mfa[u].locked
  /\ mfa' = [mfa EXCEPT ![u].locked = FALSE]
  /\ guesses' = [guesses EXCEPT ![u] = 0]
  /\ UNCHANGED <<status, recovery, session, dated, consent, browser, now, request, ops, spent, uses,
                 proven, approved, barred, disturbed>>

\* mfaPendingTTL is over
PendingExpires(b) ==
  /\ "expiry" \in ops /\ pending[b] # None
  /\ pending' = [pending EXCEPT ![b] = None]
  /\ UNCHANGED <<tables, cookie, page, now, request, ops, history>>

SessionExpires(s) ==
  /\ "logout" \in ops /\ session[s] # None /\ s \notin dated
  /\ dated' = dated \cup {s}
  /\ UNCHANGED <<status, mfa, recovery, session, consent, browser, now, request, ops, history>>

\* The server's background job
CleanupExpiredSessions ==
  /\ \E s \in dated : session[s] # None
  /\ session' = [s \in Session |-> IF s \in dated THEN None ELSE session[s]]
  /\ UNCHANGED <<status, mfa, recovery, dated, consent, browser, now, request, ops, history>>

\* A statement of request p fails or its client goes away: the request ends where it is.
\* An error of EndSession is only logged, in signIn, in currentSession and in logout.
Abort(p) ==
  /\ "failure" \in ops /\ pc[p] \notin {"idle", "endOldSession", "endSession"}
  /\ Return(p) /\ Answered(p)
  /\ disturbed' = disturbed \cup
       IF pc[p] = "endSessions" THEN {<<req[p].user, "mfa">>} ELSE {}
  /\ UNCHANGED <<tables, browser, now, ops, spent, uses, proven, guesses, approved>>

-----------------------------------------------------------------------------
(* Specification *)

\* The codes a user can present: those that authenticators have shown by now, recovery
\* codes, and wrong ones
Presented ==
  {c \in TOTP : c.secret \in spent /\ c.step \in {now - 1, now}} \cup (Recovery \cap spent)
    \cup (IF "guess" \in ops THEN {None} ELSE {})

\* A bound: where consent is not in the mix, everything is asked for
Requested == IF "consent" \in ops THEN SUBSET Scope \ {{}} ELSE {Scope}

BrowserRequest(p, b) ==
  \/ \E scope \in Requested :
       \/ \E u \in User : HandleLogin(p, b, u, "login", scope)
       \/ \E code \in Presented : CompleteMFA(p, b, "login", code, scope)
       \/ HandleAuthorize(p, b, scope)
  \/ \E u \in User : HandleLogin(p, b, u, "device", {})
  \/ \E code \in Presented : CompleteMFA(p, b, "device", code, {})
  \/ HandleConsent(p, b)
  \/ HandleLogout(p, b)

AccountRequest(p, u) ==
  \/ \E secret \in Secret : BeginTOTP(p, u, secret)
  \/ \E code \in Presented : ConfirmTOTP(p, u, code) \/ Disable(p, u, code)
                             \/ RegenerateRecoveryCodes(p, u, code)
  \/ Reset(p, u)
  \/ \E st \in {"active", "suspended", "locked"} : UpdateStatus(p, u, st)

Statement(p) ==
  \/ MfaRequired(p) \/ GetUser(p) \/ Verify(p) \/ UseStep(p) \/ UseRecoveryCode(p)
  \/ RecordFailure(p) \/ EndOldSession(p) \/ (\E s \in Session : CreateSession(p, s))
  \/ ContinueAuthorization(p) \/ IssueAuthorizationCode(p) \/ ApplyDeviceDecision(p)
  \/ GetSession(p) \/ GetSessionUser(p) \/ EndSession(p) \/ GetConsent(p) \/ UpsertConsent(p)
  \/ CheckEnrollment(p) \/ (\E r \in Recovery : Confirm(p, r) \/ ReplaceCodes(p, r))
  \/ EndSessions(p) \/ GetMFA(p) \/ DeleteMFA(p) \/ IsEnabled(p)

Passing ==
  \/ Tick
  \/ \E u \in User : EnrollmentExpires(u) \/ LockoutExpires(u)
  \/ \E b \in Browser : PendingExpires(b)
  \/ \E s \in Session : SessionExpires(s)
  \/ CleanupExpiredSessions

Next ==
  \/ \E p \in Request :
       \/ \E b \in Browser : BrowserRequest(p, b)
       \/ \E u \in User : AccountRequest(p, u)
       \/ Statement(p)
       \/ Abort(p)
  \/ Passing

Spec == Init /\ [][Next]_vars

-----------------------------------------------------------------------------
(* Properties *)

Undisturbed(u, what) == <<u, what>> \notin disturbed

\* A second factor is accepted once, whatever logins, device approvals, confirmations and
\* changes of the authenticator run at the same time: the updates in UseStep, Confirm and
\* UseRecoveryCode carry their conditions.  A request that read the settings of an
\* authenticator which is replaced before its UseStep is the exception.
CodeCountsOnce ==
  \A u \in User : Undisturbed(u, "mfa") => \A c \in Code : uses[u][c] <= 1

\* The authenticator that is enabled is one whose code the user has shown; Confirm does not
\* name the secret, so an enrollment that is replaced while it is confirmed is the exception.
AuthenticatorProven ==
  \A u \in User : Enabled(u) /\ Undisturbed(u, "mfa") => mfa[u].secret \in proven

\* Wrong second factors are counted by the database, so requests that read the count at the
\* same time cannot exceed the limit by more than one try each.
SecondFactorGuessesBounded ==
  \A u \in User : guesses[u] <= (MaxMFAFailures - 1) + Cardinality(Request)

EndingSessions(u) == \E p \in Request : pc[p] = "endSessions" /\ req[p].user = u

\* Sessions opened with the password alone do not outlive the enabling of a second factor,
\* unless a login passed the check before, or the deletion of the sessions failed.
PasswordSessionsEnd ==
  \A u \in User : Enabled(u) /\ Undisturbed(u, "mfa") /\ ~EndingSessions(u) =>
    \A s \in Session : session[s] # None /\ session[s].user = u => session[s].amr = "mfa"

\* The stored consent is what the user approved, page after page, unless two consents of one
\* user for the client overlap.
ConsentRemembered ==
  \A u \in User : Undisturbed(u, "consent") => consent[u] = approved[u]

\* A code is issued for scopes that the user approved on a consent page, by whichever path.
CodesConsented ==
  \A p \in Request : pc[p] = "issueCode" => req[p].scope \subseteq approved[req[p].user]

\* While an account is suspended its sessions and its second factor lead to no code; what is
\* left is the login with the password alone.
SuspendedSessionIssuesNoCode ==
  \A p \in barred : pc[p] = "issueCode" => req[p].doing = "login" /\ req[p].amr = "pwd"

\* A request of a suspended user does not get to an authorization code ("a suspended user's
\* session must not issue codes", internal/handlers/tests/sso_handler_test.go:481).  A login
\* with the password alone does (README, "Divergences").
SuspendedGetsNoCode == \A p \in barred : pc[p] # "issueCode"
-----------------------------------------------------------------------------
(* The inductive invariant *)

\* What a request carries from statement to statement.
RequestForm(p) ==
  /\ pc[p] \notin {"idle", "getSession"} => req[p].user \in User
  /\ pc[p] \in {"mfaRequired", "getUser"} => req[p].doing \in {"login", "device"}
  /\ pc[p] = "mfaRequired" => req[p].amr = "pwd"
  /\ pc[p] \in {"getSettings", "useStep", "useRecoveryCode"} =>
       req[p].doing \in {"login", "device", "disable", "regenerate"}
  /\ pc[p] \in {"getUser", "getSettings", "useStep", "useRecoveryCode"} /\ req[p].doing = "login" =>
       req[p].amr = "mfa"
  /\ pc[p] \in {"endOldSession", "createSession"} => req[p].doing = "login"
  /\ pc[p] = "hasConsent" => req[p].doing \in {"login", "authorize"}
  /\ pc[p] \in {"getSession", "getSessionUser", "endSession"} =>
       req[p].doing \in {"authorize", "consent", "logout"} /\ req[p].session \in Session
  /\ req[p].doing \in {"login", "device", "authorize", "consent", "logout"} => req[p].browser \in Browser
  /\ pc[p] \in {"useStep", "confirm"} => req[p].code \in TOTP
  /\ pc[p] = "useRecoveryCode" => req[p].code \in Recovery
  /\ req[p].session \in spent \cup {None}

\* Requests have their form, and browsers hold tokens of sessions that were opened.
FormInv ==
  /\ \A p \in Request : RequestForm(p)
  /\ \A b \in Browser : cookie[b] \in spent \cup {None}

\* Nothing is stored as granted that was not approved; a user's only consent under way has
\* read what is stored.
ConsentInv ==
  /\ \A u \in User : consent[u] \subseteq approved[u]
  /\ \A p \in Request : pc[p] = "upsertConsent" => req[p].granted \subseteq approved[req[p].user]
  /\ CodesConsented
  /\ \A u \in User : Undisturbed(u, "consent") =>
       /\ consent[u] = approved[u]
       /\ \A p, q \in Request : pc[p] = "upsertConsent" /\ req[p].user = u =>
            /\ req[p].granted = consent[u]
            /\ pc[q] = "upsertConsent" /\ req[q].user = u => p = q

\* The requests of user u that have passed the check of the lock and may yet count a failure
Trying(u) ==
  {p \in Request : pc[p] \in {"useStep", "useRecoveryCode", "recordFailure"} /\ req[p].user = u}

\* Until the lock every wrong code is in the count, and those who passed the check before the
\* lock are as many as there are requests.
GuessInv ==
  \A u \in User :
    /\ mfa[u] = None => guesses[u] = 0
    /\ mfa[u] # None /\ ~mfa[u].locked => guesses[u] <= mfa[u].failed /\ guesses[u] < MaxMFAFailures
    /\ guesses[u] + Cardinality(Trying(u)) < MaxMFAFailures + Cardinality(Request)

\* A request about to use or confirm a code has one of the secret that is stored, which was
\* shown if it is confirmed or about to be.
SecretInv ==
  \A u \in User : Undisturbed(u, "mfa") =>
    /\ \A p \in Request : pc[p] \in {"useStep", "confirm"} /\ req[p].user = u =>
         mfa[u] # None /\ mfa[u].secret = req[p].code.secret
    /\ \A p \in Request : pc[p] = "confirm" /\ req[p].user = u => mfa[u].secret \in proven
    /\ Enabled(u) => mfa[u].secret \in proven

\* A code that was accepted cannot be again: its secret is no longer stored or its time step
\* is used up; a recovery code is no longer stored.
UseForm(u) ==
  /\ Undisturbed(u, "mfa") =>
       /\ mfa[u] # None => mfa[u].secret \in spent
       /\ \A c \in TOTP :
            /\ uses[u][c] <= 1
            /\ uses[u][c] # 0 => c.secret \in spent
            /\ uses[u][c] # 0 /\ mfa[u] # None /\ mfa[u].secret = c.secret =>
                 mfa[u].confirmed /\ c.step <= mfa[u].lastStep
  /\ recovery[u] \subseteq spent
  /\ \A r \in Recovery :
       /\ uses[u][r] <= 1
       /\ uses[u][r] # 0 => r \in spent
       /\ r \in recovery[u] => uses[u][r] = 0

UseInv == \A u \in User : UseForm(u)

\* Once a second factor is enabled no session is opened with the password alone, and those
\* there are will be ended.
PasswordInv ==
  \A u \in User : Enabled(u) /\ Undisturbed(u, "mfa") =>
    /\ \A p \in Request : pc[p] \in {"endOldSession", "createSession"} /\ req[p].user = u =>
         req[p].amr = "mfa"
    /\ EndingSessions(u) \/ \A s \in Session : session[s] # None /\ session[s].user = u => session[s].amr = "mfa"

\* A request of a user who is suspended all along gets past the check of the status only by a
\* login with the password alone.
BarredForm(p) ==
  /\ pc[p] \in {"mfaRequired", "getUser", "endOldSession", "createSession", "hasConsent", "issueCode",
                "decideDevice", "getSession", "getSessionUser", "endSession"}
  /\ pc[p] = "getSession" => \A u \in SessionUser(req[p].session) : status[u] = "suspended"
  /\ pc[p] # "getSession" => status[req[p].user] = "suspended"
  /\ pc[p] \in {"endOldSession", "createSession", "hasConsent", "issueCode"} =>
       req[p].doing = "login" /\ req[p].amr = "pwd"

BarredInv == \A p \in barred : BarredForm(p)

SignInInv ==
  TypeOK /\ FormInv /\ ConsentInv /\ GuessInv /\ SecretInv /\ UseInv /\ PasswordInv /\ BarredInv
=============================================================================
