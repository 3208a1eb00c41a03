# Verification of ShieldGate

ShieldGate is a multi-tenant OAuth 2.0 / OpenID Connect authorization server in
Go: gin handlers, services, gorm repositories over PostgreSQL, several replicas
behind a load balancer. This directory holds TLA+ models of its stateful parts,
the TLC runs that check them and TLAPS proofs of what matters most. Paths below
are relative to `src/internal/`.

Almost nothing in the server is protected by a transaction or a lock: a request
is a sequence of independent SQL statements, and what keeps requests from
disturbing each other is a conditional `UPDATE`, a unique index, the order of
two statements, or nothing. That is what the models are about. Everywhere, one
action is one statement together with the code up to the next one; requests are
slots that interleave at every statement; with faults on, any statement may
fail and any replica may stop between two statements.

## Inventory

| part | state | operations | what is hard | what makes it correct |
|---|---|---|---|---|
| Token service (`services/auth_service_impl.go`, `handlers/oauth_handler.go`) | authorization codes, access and refresh tokens, token families | code exchange, refresh with rotation, RFC 7009 revocation, client credentials, cleanup | two requests with one token, replay during an exchange, revocation in two statements | a grant never forks; a revoked grant stays dead; a detected reuse kills the grant |
| Token exchange, RFC 8693 (`services/device_token_exchange.go`) | access tokens | exchange of a subject token | chains over clients with different registrations | no token is worth more than the consent it descends from |
| Bulk revocation (`user_service_impl.go` `revokeUserCredentials`, `client_service_impl.go` `Delete`) | the same tables | password reset, client deletion | deletes access before refresh tokens while refreshes run | a grant that had to end cannot be refreshed |
| Device grant, RFC 8628 (`device_token_exchange.go`, `handlers/oauth_device_handler.go`) | device codes | request, poll, approve or deny, cleanup | whole-row `Save` of a poll and of a decision; `DELETE` that does not count | tokens only for a user who approved; one collection; a decision stands |
| Idempotency keys (`middleware/idempotency.go`) | `idempotency_keys` | claim, takeover, replay, completion, release, expiry | a handler slower than the stale limit, a crash between handler and completion | a replay answers that request; one run at a time; a response is kept |
| User accounts (`services/user_service_impl.go`, `handlers/user_handler.go`, `handlers/account_handler.go`) | users, sessions, reset links, verification codes | creation, login and lockout, profile, password, status, deletion, verification, reset | every operation reads a row, changes the copy and saves every column | links work once; verified addresses are proved; passwords, locks and limits take effect |
| Sessions and consent (`services/session_service_impl.go`, `handlers/oauth_authorize.go`) | sessions, consents | sign-in, logout, consent | consent is read, united and upserted | sessions end with the password; consent is not lost |
| Second factor (`services/mfa_service_impl.go`) | TOTP secrets, recovery codes, used steps | enrol, confirm, verify, disable | an enrolment replaced while it is confirmed; a code used twice | a step or recovery code counts once |
| E-mail queue (`services/email_service_impl.go`, `repo/gorm/email.go`) | queue rows, a worker per replica | enqueue, claim with SKIP LOCKED, send, retry | a mail slower than the stale limit, a crash after sending, a late save of an old copy | delivered again only after a takeover; given up only after all tries; every mail settles |
| Client registration, RFC 7591/7592 (`services/registration_service_impl.go`, `client_metadata.go`) | initial access tokens, clients | issue and revoke tokens; register, read, update, delete | uses counted in one statement, client created in another; updates chained over saved copies | no more registrations than uses; a registered client stays within its limits |
| Roles and permissions (`services/role_service_impl.go`, `permission_service_impl.go`, `middleware/authz.go`) | roles, permissions, assignments | create, update, delete, attach, assign, check | a check reads four tables one after the other; updates are loops of statements | what is allowed was held; an update takes effect; no assignment of a deleted role |
| Tenants (`services/tenant_service.go`, `middleware/tenant_resolver.go`) | tenants, a domain cache per replica | create, move, deactivate, delete, resolve | look before write; stale cache | domains are unique; staleness is bounded |
| Clients and secret cache (`services/client_service_impl.go`, `client_secret_cache.go`) | clients, a secret cache per replica | CRUD, rotation of secrets, verification | deletion against saves of old copies; rotation against cached checks | a deleted client stays deleted; a replaced secret is refused everywhere |
| Rate limiting, audit, signing keys, claims, metrics, configuration | little or none | | | |

How they interact: the token endpoint, the device page, the account pages and the
management API are handlers of the same process and share the tables. Account
operations end sessions and, on a reset, revoke tokens; sign-in opens sessions
that the authorization endpoint turns into codes; a ticker in `cmd/auth-server`
calls the cleanup of expired rows, and another drains the e-mail queue that the
account operations fill; the tenant resolver, the permission check and the
idempotency middleware run before the handlers of the management API. Replicas
exchange no messages: they meet in the database, and their caches (client
secrets, domains) learn of changes only by looking again.

## Modules

| module | models |
|---|---|
| `TokenStore` | the three token tables and the statements of `repo/gorm/auth_code.go`, `access_token.go`, `refresh_token.go`, `client.go` |
| `Grant` | what the token service promises of one grant, with no requests, tables or statements |
| `TokenGrants` | the operations of the token service, token exchange and bulk revocation over `TokenStore`; its properties and inductive invariant; implements `Grant` |
| `DeviceOutcome` | decisions on device codes and tokens issued for them, and what must be true of both |
| `DeviceGrant` | device authorization, polls, decisions, cleanup, over `DeviceOutcome` |
| `Idempotency` | the idempotency middleware and its table |
| `UserAccount` | users, sessions, reset links and verification codes and every operation on them |
| `SignIn` | the second factor, sessions, consent and the browser flow to an authorization code |
| `Outbox` | what the e-mail queue promises, with no replicas, claims or copies |
| `EmailQueue` | the e-mail queue with its workers, crashes and takeovers; implements `Outbox` |
| `Clients` | client management, dynamic registration, secret caches |
| `Rbac` | roles, permissions, assignments and the permission check |
| `Tenants` | tenants, their domains and the resolver's caches |
| `TokenGrantsProofs`, `IdempotencyProofs`, `UserAccountProofs`, `SignInProofs`, `EmailQueueProofs`, `ClientsProofs`, `RbacProofs`, `TenantsProofs` | theorems and proofs; those of `DeviceGrant` are in `TokenGrantsProofs` |
| `MCTokenGrants`, `MCDeviceGrant`, `MCIdempotency`, `MCUserAccount`, `MCSignIn`, `MCEmailQueue`, `MCClients`, `MCRbac`, `MCTenants` | small instances for TLC |

Conventions shared by the modules. A request slot has a `pc`, the statement it
runs next, and what it carries along (`req`, or the row it read). gorm's `Save`
writes every column of the copy a request holds and inserts a row that is gone;
a soft-deleted row comes back. `ops` or `mix`, chosen in `Init` from the constant
`Workload` (`Load` in `EmailQueue`), is the mix of operations of a behaviour: one
run covers several mixes without multiplying them. "failure" in a mix lets
statements fail and replicas stop half-way; "expiry" lets rows expire.

History variables only record. The properties that hold of requests that do not
overlap need one that says whether they did (`disturbed` and its likes), set as
narrowly as the code allows: a row is disturbed when a request writes it while
another relies on what it has read of it, or when an operation stops between two
of its statements, not merely when two requests run at once.

### TokenGrants

Codes double as the ids of token families, as in the code (`FamilyID`). Refresh
is `RefreshTokens` (reads), `LoadClient`, `ClaimRefresh` (the conditional
`UPDATE ... revoked = false`), `StoreAccess`, `StoreRefresh`, `ConfirmRefresh`
(the second look at the claimed row) and `Respond`; a lost claim continues with
`RevokeRefreshFamily` and `RevokeAccessFamily`. A token counts against a
property once it has reached its client (`delivered`). JWTs are taken to be
valid exactly when their row is there and has not expired, as `ValidateAccessToken`
decides. Scopes are sets. `MaxExpired` bounds how many rows expire in a behaviour.

`Grant` is what a client and a user see of a grant: it is consented to, opened, and
yields refresh tokens one after the other, the next only when the earlier ones are
used; and once it is over it yields nothing and nothing of it can be used.
`ImplementsGrant` maps a family to its phase (the status of the code, and "over" when
`Closed`: its exchange has ended and no refresh token that a client got has a row), `issued` to
the delivered refresh tokens of the family, and `used` to those that are not live. One
`DELETE` may end many grants, so a step of `Grant` is a step of each.

### DeviceGrant

A poll reads the row, saves its whole copy with a new `last_polled_at`
(`RecordPoll`), and, when the copy is approved, deletes the row and issues
tokens; a decision reads the row, checks that it is pending and saves its copy.
Issuing is one step here; its statements are in `TokenGrants`. What the decisions
and the tokens come to, and the properties of both, are in `DeviceOutcome`.

### Idempotency

`Begin` is the upsert that claims a new, expired or stale row; a refused claim
reads the row (`ReplayOrReject`) in a second statement. The stale limit of one
minute is the action `BecomesStale`, which may happen while the handler still
runs. Rows have ids, as the code's `Complete` and `Delete` address a row by id.
Header checks and the fingerprint are abstracted to the identity of a body.

### UserAccount

A request holds `copy`, the row it is going to save. A login is `Authenticate`,
`ReadAttempt` (the second read, by e-mail address), `SaveAttempt` (its error is
dropped) and `CreateSession`. A reset is `ResetPassword` (reads and checks),
`MarkUsed` (conditional), `Save`, `EndSessions`, `RevokeLinks`; the two token
deletions between the last two are in `TokenGrants`. `locked_until` is NULL,
running or over; time is `LockoutPasses` and `Age`. A session remembers the
password it was opened with, so that a property can say whose it is.

### SignIn

Begins where a login has shown the right password (`UserAccount` has passwords
and the lockout). `HandleLogin` goes on with `MfaRequired`, which leaves a pending
token in the browser's form or ends the old session and opens a new one;
`CompleteMFA` presents the form with a code and runs `GetUser`, `Verify`, and the
conditional `UseStep` or `UseRecoveryCode`, or `RecordFailure`. The authorization
endpoint, the consent page and logout begin with `GetSession` and
`GetSessionUser`; consent is `GetConsent`, `UpsertConsent`. Enrolment, confirmation
(`CheckEnrollment`, `Confirm`, `EndSessions`), disabling, reset and regeneration are
the operations of `mfa_service_impl.go`. A TOTP code is the pair of its secret
and time step, so that a code is "the same" exactly when the server could tell; a
set of recovery codes is one code. There is one client. `prompt` and `max_age`
only decide whether the login page is shown, and a browser may show it at any time.

History: `uses` counts acceptances of a code by user, `proven` has the secrets a code was
shown of, `approved` what was approved on pages, `guesses` wrong codes since the
counter was cleared, `barred` the requests that arrived while their user was
suspended and still is, `spent` the generated values, so that none is generated twice.

### EmailQueue and Outbox

A tick of a replica's worker is `GetPendingEmails` (one `UPDATE ... RETURNING` of
due rows and of rows claimed more than `staleSendingAfter` ago), then for each
mail of the batch a try (`SendAccepted`, `SendRefused`, `SendRejectedLate`,
`SendHangs`) and `Update`, the `Save` of the copy that came with the claim.
`BecomesDue` and `BecomesStale` are the passing of time. `Shutdown` cancels the
context, so that saves fail (`UpdateFails`) while the batch goes on; `Crash` and
`Exit` lose the batch; `Start` brings a replica back. `faults` bounds crashes,
shutdowns, hung exchanges and failed saves. SMTP is external: an exchange may
succeed, fail, fail after the body (which the code does not notice) or never end
(no step of it has a time limit).

`Outbox` is what whoever queues a mail may count on: a mail is handed over once
and then settled, with its body erased when it is sent, or given up after
`MaxAttempts` failed tries. Only a mail that a second worker took over
(`contested`) may be handed over again or go back to the queue.
`ImplementsOutbox` maps pending and sending to "queued", bodies, deliveries and
refusals to themselves, and the mails with a takeover to `contested`.

### Clients

Rows are saved from copies. Registration is `getToken`, `consume` (the conditional
`UPDATE` that counts a use), `insert`; self-service authenticates with the
registration token, reads, validates and saves or deletes. `Metadata` is reduced
to grants, publicness, response types, scopes and whether the URIs are acceptable. The
check of a secret reads the client, asks the replica's cache (keyed by client and hash),
else compares with bcrypt and remembers; a full cache is emptied first. A hash tells
only whether a secret is the one it was made of.

History: `registered` and `spent` account for the uses of a token, `ceiling` is
what a registered client was last allowed, `managed` are the registered clients
an administrator changed, `known` are the secrets a validation could have seen.

### Rbac

Every operation of the two services, one statement a step: `UpdateRole` saves the
row, lists what is attached, detaches all of it, then looks up and attaches what is
wanted, each in a statement of its own whose error may only be logged. The check
reads assignments, then role by role the role, its attachments and the
permissions. A permission is known by its name and all are on one resource.
`held` has the checks whose user had the permission since they began; `lost` and
`mixed` those during which something was taken away and something granted after it.
`RbacAssumption`: markers are not values, seeded permissions are permissions, and the
mixes are sets of operations.

### Tenants

Creation, update and deletion look, then write; creation and update take a failed look
for the domain as "not found"; the unique index on domains of tenants that are not
deleted has the last word. A request finds its tenant by its
token, a header or subdomain, or by its host through the replica's cache, whose
entries (negative ones too) live for `TTL` ticks of the clock; `right` remembers
when an answer was last right. A look-up that took time between its query and its
store is `late`.

## Runs

All bounds are the sizes of the sets of the cfg and the numbers below. Runs that
say `CHECK_DEADLOCK FALSE` use up their ids and then have nothing left to do.

| run | instance | shows |
|---|---|---|
| `grant_races` | 3 requests, 3 refresh and 3 access tokens, one code | `GrantNeverForks`; three requests are a winner, a loser and a revoker, three refresh tokens are two rotations |
| `grant_faults` | 2 requests, faults, expiry, cleanup, reset, client deletion | `RevokedGrantStaysDead`, `CutGrantCannotRefresh` and the refinement `ImplementsGrant` survive failed statements and stopped replicas |
| `grant_live` | 2 clients with different registrations, 2 scopes, fairness | `TokensWithinGrant`; `ReuseKillsGrant` |
| `code_replay_race` | expected violation | a code replayed between its consumption and the storing of its tokens revokes nothing |
| `device_races` | 2 polls, 2 decisions, 2 users, faults, expiry | `IssuedToApprover`; `SingleUseInTurn`, `DecisionIsKept` where requests did not overlap |
| `idempotency` | 3 requests, one key, 2 bodies, 3 rows, faults | `TwiceOnlyWhenLost`, `ReplayIsFaithful`, `OneRunAtATime`, `ResponseIsKept` |
| `user_accounts` | eight mixes; 2 requests, 2 users, 2 addresses, 2 passwords, 3 links, 2 codes; `MaxLoginAttempts = 2`, `MaxPasswordResetsPerHour = 1` | `LinkWorksOnce`, `VerifiedIsProved`, `ResetMailsBounded`; `PasswordTakesEffectInTurn`, `AdminLockHolds`, `GuessesBounded` for undisturbed users |
| `sign_in` | nine mixes; 2 requests, 2 sessions, 2 scopes, 2 secrets, 2 recovery codes, 2 time steps; `MaxMFAFailures = 2` | `CodeCountsOnce`, `AuthenticatorProven`, `SecondFactorGuessesBounded`, `PasswordSessionsEnd`, `ConsentRemembered`, `CodesConsented`, `SuspendedSessionIssuesNoCode` |
| `email_queue` | 2 replicas; one mail with two faults, or two mails in a batch with none; `MaxAttempts = 2`; fairness | `DeliveriesBounded`; the refinement `ImplementsOutbox`; `MailSettles` |
| `clients` | six mixes; 2 clients, 2 secrets, 2 scopes, 2 replicas with caches of one entry, a token of one or two uses, 2 requests | `RegistrationsBounded`, `SelfRegisteredWithinLimits`, `DeletedStaysDeleted`, `AcceptedSecretWasCurrent` |
| `rbac` | nine mixes; 2 users (one super admin), 2 roles of one name, 2 permissions (one seeded), 2 requests | `AllowedWasHeld`, `RoleUpdateTakesEffect`, `AssignedRolesExist` |
| `tenants` | three mixes; 2 tenants, 2 domains, 2 requests, one replica with a cache of one entry, `TTL = 1`, two ticks | `DomainsUnique`, `ResolvedWithinLifetime` |

`clients` and `tenants` also check `TypeOK`, where it bounds the caches; every module's
is part of a proved invariant. The inductive invariants of the proofs (`SignInInv`,
`ClientInv`, `TenantInv`, the `IInv` of `Rbac` and the others) hold in these instances too: put one among
the `INVARIANTS` of a cfg before changing a module that is proved about.

Why the bounds are enough to be interesting: every race above needs two or three
requests and at most two generations of a token, link, code or secret. Limits
that the code only compares are small (5 login attempts, 3 resets, 5 second
factors, 3 tries of a mail in the code), and the ids exceed them, so that the
violation of a bound is in reach: three links are one more than
`ResetMailsBounded` allows. Two roles of one name are what a check of names
before an insert has to keep apart. Caches of one entry are emptied by the next. A second replica
adds nothing to `tenants`, as caches do not see each other; in `clients` it matters,
because a secret is rotated on one and checked on the other. One mail with two
faults is enough for a hung or crashed worker and a second fault at the one that
took over. Each property has a mutant of the code that breaks it in its own run.

**Fairness.** `FairSpec` of `TokenGrants` has weak fairness of the steps of a
request that has started: Go schedules its goroutine and each statement returns,
with a result or an error. Nothing is assumed of clients, administrators, time or
the ticker. `ReuseKillsGrant` needs it because the revocation runs inside the
replaying request.

`FairSpec` of `EmailQueue` assumes that time passes (`BecomesDue`, `BecomesStale`), the
ticker of a running process fires (`GetPendingEmails`), a worker that does not
hang goes on (`Send`, `Update`, `UpdateFails`), a process told to stop does (`Exit`) and
is started again (`Start`; the deployment restarts it). Faults are finite in
number, and one replica's worker does not hang: with all of them hung the queue
does stand still. Nothing is assumed of the mail server, which may refuse
every try.

## Proofs

Each theorem holds for every number of requests, rows and values, from the
named assumptions of its module: sets of requests are finite where a cardinality
is taken; markers such as `None` are not rows or ids; limits and lifetimes that are
positive constants in the code are positive. Every proof has the same shape. An
inductive invariant is split into named parts; for each part there is a lemma
about the steps that leave it alone, and the actions that do not are taken one
by one; the theorem then follows from the invariant.

- `TokenGrantsProofs`: `TypeCorrect`, `NoFork`, `RevocationIsFinal`, from `IInv`.
  `SingleHolder`: a family has one holder of the right to store and hand out its next
  refresh token, namely the live token, the request that consumed the code, or the one
  that claimed the token, until the new token has reached its client. Without it two
  claims could both go on.
  `ExchangeComesFirst`: while a code is exchanged no refresh token of the family
  is out. `RevocationInv`: a revocation that counts as settled has closed the
  family, that is, no request that could still deliver a token of it passes its
  confirmation. `TokensStayWithinGrant` is from `GrantInv`: every stored row, and every
  row that a request may come to store, is rooted in a code and lies within what
  was consented to there, so that a chain of exchanges and refreshes over clients with
  different registrations cannot gain a scope. `CutGrantsAreOver` is from
  `CutInv`: the grants a bulk revocation has to end are those of its user or client, with
  spent codes, and are closed when it is over, although access tokens are deleted
  first and refreshes run in between.
  `ServiceImplementsGrant` is the refinement of `Grant`, family by family: a step that
  delivers a refresh token (`Respond` of an exchange, `ConfirmRefresh` of a rotation) is
  `Issue`, every other step is `Stay`, `Consent`, `Open`, `Use` or `End`. `Issue` needs all
  earlier tokens to be used; that is `SingleHolder`, by which the only live token of
  the family is the one on its way. That nothing comes after "over" is because a
  request hands over a token only while an exchange is under way or the row it claimed is
  still there when `ConfirmRefresh` looks again, and because the statuses of codes and
  refresh tokens only move forward.
- The same module, for `DeviceGrant` (an instance; `DeviceAssumption` is a hypothesis):
  `ApprovalIsReal` (every copy, like the row, that says approved names a user who
  approved), `CollectedOnce` and `DecisionStands` (on a code whose requests never
  overlapped there is at most one request, and its copy agrees with the row).
- `IdempotencyProofs`: `ReplaysAreFaithful`, `RunsExcludeEachOther`,
  `ResponsesAreKept`, `RunsAreNotRepeated`. Row ids are fresh, the holder of an id is
  unique, and a stored response belongs to the run that claimed the id; a run
  whose effect was not lost still holds its row or has stored its response in it,
  so nothing else can claim the key.
- `UserAccountProofs`: `TypeCorrect`, `LinksWorkOnce`, `VerificationIsProved`,
  `MailsAreBounded`, from `AccountInv`;
  `PasswordsTakeEffectInTurn`, `AdminLocksHold` and `GuessesAreBounded` from `TurnInv`. `LinkInv`: a request about to save a reset
  is the only one for its link, which is marked and unused so far. `AddressInv`:
  the copies waiting to be saved satisfy what the rows do, so a late Save cannot
  verify an address. `MailInv`: the links that count plus the requests under way
  stay below the limit plus the number of requests. `TurnInv`: addresses are unique,
  an undisturbed user has at most one request working on it, and the copy which that
  request is going to save agrees with the row in everything that the save does not
  settle itself (the password, the administrator's lock, the count of failures).
- `SignInProofs`: `TypeCorrect` and all seven properties of `sign_in`, from `SignInInv`.
  `UseInv`: of a code that was accepted the secret is no longer stored or its
  time step is used up, and a recovery code is no longer among the unused ones; that
  is why a second request with it is refused. `SecretInv`: a request about to use
  or confirm a code has one of the stored secret, which is proven. `GuessInv`: wrong codes
  counted, plus the requests that passed the check of the lock and may yet count
  one, stay below the limit plus the number of requests. `PasswordInv`: once a second
  factor is enabled no login under way that skipped it opens a session, and the
  sessions there are belong to two factors or are about to be deleted. `ConsentInv`: what
  is stored was approved, and the only consent under way has read what is stored.
  `BarredInv`: a request of a user suspended all along gets past the check of the
  status only as a login with the password alone.
- `ClientsProofs`: `TypeCorrect`, `TokenUsesBounded`, `RegisteredClientsLimited`,
  `DeletionsLast`, `SecretsCurrent`, from `ClientInv`: ids about to be inserted are
  apart; no use of a token is lost from its count; the policy and the ceiling of the token hold
  of rows and of the copies that are going to be saved; nobody holds a copy of an
  undisturbed deleted row; a cache entry is of the secret that its hash was made of, and a
  validation under way knows what was right when it looked.
- `RbacProofs`: `TypeCorrect`, `ChecksAreSound`, `RoleUpdatesTakeEffect`, `AssignedRolesStay`,
  from `IInv`. `FormInv`: what a request carries at each of its statements.
  `AssignInv`: a deletion past its look has found the role unassigned, and an assignment past
  its look has found the role, unless disturbed since; a request that waits is
  disturbed by whoever changes its role, so only those that move need work.
  `UpdateInv`: what is attached while an update runs is what it has left to detach, and
  afterwards what is wanted less what it has left to attach. `CheckInv`, behind
  `AllowedWasHeld`: while nothing has been taken away (`lost`) all that a check has read
  is still there (`Fresh`), so a flag means that the permission is held now; and after
  a loss, while nothing is granted (`mixed`), a check can find only what was held
  before (`Covered`). Four tables read one after the other thus act like one read
  at some moment of the check, unless a loss is followed by a grant.
- `TenantsProofs`: `TypeCorrect`, `DomainsStayUnique`, `AnswersFresh`, from `TenantInv`: a
  cache has one entry for a domain; the time an answer was last right does not go
  back; entries, and answers read from a table or a cache, expire within the lifetime
  after it.
- `EmailQueueProofs`: `TypeCorrect`, `DeliveriesAreBounded` and the refinement
  `QueueImplementsOutbox`, from `QueueInv`. `Counted`: deliveries, plus the workers
  that could still deliver the mail, plus one while it waits, are at most one
  more than its takeovers; so every delivery beyond the first is paid for by a
  takeover. `Alone`: a mail never taken over has one worker at most, and its row
  still says "sending". `Tries`: the attempts of a row and of any copy were really refused
  tries, however they overwrite each other, which is what "given up" needs.
  `Kept`: a mail that is not settled has its body.

Only model-checked: liveness (`ReuseKillsGrant`, `MailSettles`: the prover does not
handle fairness) and the violation run. Every other property of the runs is a theorem.

Two definitions changed because a proof could not be completed with them. `CodeCountsOnce` of
`SignIn` counted acceptances over all users, which is false for two of them: the code
of a user whose authenticator was replaced half-way may be accepted again while the
other is undisturbed. The instance of `sign_in` has one user; the count is by user now. And
two `CASE` expressions had arms that overlap, where TLC takes the first and TLA+ does
not say which.

## Divergences

Places where the code does not do what a comment, message, test or document says.
The first is a run. Of the others the definition is in its module and TLC gives a
counterexample when it is put among the `INVARIANTS` of the cfg named.

- `ReplayRevokesTokens` (`TokenGrants`, run `code_replay_race`). `docs/CONFORMANCE.md:39`
  says that a replayed code revokes the tokens issued from it. A replay between
  the consumption of the code and the storing of its tokens
  (`services/auth_service_impl.go:122`) finds none, and the tokens stored afterwards
  work.
- `CutGrantIsDead` (`TokenGrants`, `TokenGrantsFaults.cfg`). A reset "revokes their
  access and refresh tokens" (`services/user_service_impl.go:700`), and "tokens of a
  deleted client must stop working" (`services/client_service_impl.go:190`). Access tokens are deleted before refresh
  tokens (`user_service_impl.go:707`, `client_service_impl.go:192`), so a refresh between
  the two statements leaves an access token that works until it expires.
  `CutGrantCannotRefresh` is what does hold.
- `SingleUse` (`DeviceOutcome`, `DeviceGrantRaces.cfg`). "The device code is single-use:
  remove it before issuing tokens" (`services/device_token_exchange.go:176`, likewise
  `docs/ROADMAP.md:95`). The `DELETE` does not report whether it deleted a row: two
  polls that both read the approved row both get tokens. `SingleUseInTurn` holds.
- `PasswordTakesEffect` (`UserAccount`, `UserAccount.cfg`). "Your password has been
  changed and you have been signed out everywhere" (`handlers/account_handler.go:177`).
  A login attempt that read the row before the reset saves every column after it
  (`services/user_service_impl.go:631`) and with them the old password.
  `PasswordTakesEffectInTurn` holds.
- `LockoutEnds` (`UserAccount`, `UserAccount.cfg`). A failed-login lockout "has an end
  time" (`services/user_service_impl.go:571`), 30 minutes (`:38`). `IsLocked`
  (`models/models.go:1369`) is true of status "locked" whatever `locked_until` says, so
  it ends only with a reset or an administrator.
- `SuspendedGetsNoCode` (`SignIn`, `SignIn.cfg`). "a suspended user's session must not
  issue codes" (`handlers/tests/sso_handler_test.go:481`). Sessions and second factors
  do not (`SuspendedSessionIssuesNoCode`), but `Authenticate`
  (`services/user_service_impl.go:270`) turns away locked users only: a suspended user
  without a second factor logs in again and gets a code.

## What the models show besides the runs

- A poll that read a device code before the decision saves the pending copy over
  it; the user was told that the device is approved or denied. A poll can also
  put a collected code back. `DecisionIsKept` therefore excludes overlap.
- A handler that runs for more than a minute is joined by a second one for the
  same key; `OneRunAtATime` excludes runs that overran.
- Two reset requests at once leave two working links ("only the newest link
  works"), and pass the hourly limit together.
- Concurrent wrong passwords are counted once; concurrent wrong second factors
  are all counted, because the database adds them up.
- A login under way brings a soft-deleted user back, and one whose user changed
  address in between counts against the new owner of the address. In the same way
  an update under way brings back a deleted client, role or tenant.
- `Update` keeps `email_verified` for a new address.
- Failed logins turn a suspension into a lockout, which a password reset lifts.
- `Confirm` does not name the secret it confirms: an enrolment replaced at that
  moment enables an authenticator whose code was never shown.
- Two consents of one user at once may leave only one of the two scopes stored;
  the user is asked again.
- A login that passed the check for a second factor before it was enabled opens a
  password session after the others were ended.
- A registration that fails after `Consume` costs a use of the initial access token.
- A role may be assigned between the look for its users and its deletion.
- A mail the server rejects after its body counts as sent. A worker that hangs
  keeps the rest of its batch until they go stale; its late save may put a mail
  that another worker settled back into the queue.

## Not modelled

- Cryptography (JWT signing, TOTP, bcrypt, PKCE transforms), HTTP parsing, CSRF,
  CORS, page templates, metrics, tracing, configuration, migrations, start-up
  checks: no protocol state.
- Introspection, UserInfo, discovery and listings read only.
- The audit log is append-only, and a failed insert is logged.
- The rate limiter is one atomic `INCR` a window in Redis and lets requests pass
  when Redis fails.
- `RetryFailedEmails` and the operations on e-mail templates have no caller.
- Requests of different tenants touch disjoint rows, so each model but `Tenants`
  is one tenant. The modules are not composed: `UserAccount` and `SignIn` meet in the
  sessions table, `UserAccount` and `TokenGrants` in revocation, and each has the
  other's part as actions of its own.
- Lock, unlock, suspend and activate have no HTTP route; they are operations of
  the service's interface and are modelled as such.

## Plan

The models and proofs planned are done. What would be worth adding:

1. The composition of `UserAccount` and `SignIn` over one sessions table, so that a
   password reset and an enrolment meet in one behaviour.
2. What a resource server may rely on for access tokens, as `Grant` says it for refresh
   tokens; `CutGrantIsDead` shows that it is less than the documents say.
