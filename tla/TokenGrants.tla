---------------------------- MODULE TokenGrants ----------------------------
(***************************************************************************)
(* The token life cycle of the authorization server: the authorization     *)
(* code, refresh token, client credentials and token exchange grants,      *)
(* revocation by a client (RFC 7009), by reuse detection, by a password    *)
(* reset and by deleting a client, and the periodic cleanup                *)
(* (internal/services/auth_service_impl.go, device_token_exchange.go,      *)
(* user_service_impl.go, client_service_impl.go and their HTTP handlers).  *)
(*                                                                         *)
(* Requests run concurrently on any replica; between two SQL statements of *)
(* one request any other request may run.  A request therefore has a       *)
(* program counter that names the statement it runs next, and the values   *)
(* it read so far (they may be stale by then).                             *)
(*                                                                         *)
(* A request has authenticated its client before it starts here; the       *)
(* client may have been deleted since, so that is not checked again except *)
(* where the code does.                                                    *)
(***************************************************************************)
EXTENDS TokenStore

CONSTANTS
  Request,     \* slots for requests (and background jobs) in progress
  GrantTypes,  \* the grant types each client is registered for
  Scopes,      \* the scope each client is registered for
  Operations,  \* the operations a run lets clients and administrators start
  Faults,      \* may a statement fail or a replica stop at any point?
  MaxExpired   \* bound on the number of rows that reach their expires_at

ASSUME GrantsAssumption ==
  /\ GrantTypes \in [Client -> SUBSET {"authorization_code", "refresh_token",
                                       "client_credentials", "token-exchange"}]
  /\ Scopes \in [Client -> SUBSET Scope]
  /\ Faults \in BOOLEAN
  /\ MaxExpired \in Nat

VARIABLES
  \* the state of each request slot:
  pc,          \* the statement the request runs next
  op,          \* the grant it works for
  tok,         \* the refresh token presented
  row,         \* the columns it read, or will store
  newAccess,   \* the tokens it stored
  newRefresh,
  gone,        \* history: the refresh tokens of the family it revokes are gone,
               \* and whether the code exchange of that family was over by then
  delivered,   \* tokens returned to a client: the only ones a client can present
  revocation,  \* history: how far a family's revocation has got
  cutting,     \* history: grants a bulk revocation in progress has to end
  cut          \* history: grants that completed bulk revocations had to end

locals   == <<op, tok, row, newAccess, newRefresh, gone>>
request  == <<pc, op, tok, row, newAccess, newRefresh, gone>>
history  == <<revocation, cutting, cut>>
vars     == <<storeVars, request, delivered, history>>

PC == {"idle", "deleteCode", "loadClient", "deleteExpiredRefresh", "claim",
       "storeAccess", "storeRefresh", "respond", "confirm",
       "revokeRefresh", "revokeAccess", "storeExchanged",
       "cutUserRefresh", "cutClientAccess", "cutClientRefresh",
       "cleanAccess", "cleanRefresh"}

Op == {"none", "exchange", "refresh"}

Progress == {"no", "raced", "settled"}

RequestTypeOK ==
  /\ pc \in [Request -> PC]
  /\ op \in [Request -> Op]
  /\ tok \in [Request -> RefreshId \cup {None}]
  /\ row \in [Request -> Row]
  /\ newAccess \in [Request -> AccessId \cup {None}]
  /\ newRefresh \in [Request -> RefreshId \cup {None}]
  /\ gone \in [Request -> Progress]

\* Tables, requests and history have their types; in particular only tokens
\* that were stored are returned to clients.
TypeOK ==
  /\ StoreTypeOK
  /\ RequestTypeOK
  /\ delivered \subseteq AccessId \cup RefreshId
  /\ revocation \in [Code -> Progress]
  /\ cutting \in [Request -> SUBSET (Code \cup {None})]
  /\ cut \subseteq Code \cup {None}

Init ==
  /\ StoreInit
  /\ pc = [p \in Request |-> "idle"]
  /\ op = [p \in Request |-> "none"]
  /\ tok = [p \in Request |-> None]
  /\ row = [p \in Request |-> NoRow]
  /\ newAccess = [p \in Request |-> None]
  /\ newRefresh = [p \in Request |-> None]
  /\ gone = [p \in Request |-> "no"]
  /\ delivered = {}
  /\ revocation = [f \in Code |-> "no"]
  /\ cutting = [p \in Request |-> {}]
  /\ cut = {}

-----------------------------------------------------------------------------
(* What a token is good for *)

\* ValidateAccessToken: the JWT has not expired and its row is still there
Usable(a) == access[a] = "live" /\ a \notin expired

\* The request exchanges a code: it is consumed, the tokens not all handed out
ExchangesCode(p) ==
  /\ op[p] = "exchange"
  /\ pc[p] \in {"loadClient", "storeAccess", "storeRefresh", "respond"}

\* The request exchanges the code of family f
Exchanging(p, f) == ExchangesCode(p) /\ row[p].family = f

Starts(p, operation) ==
  /\ pc[p] = "idle"
  /\ operation \in Operations

\* The request goes on with statement next, knowing what it knew
Goto(p, next) == pc' = [pc EXCEPT ![p] = next]
Continue(p, next) == Goto(p, next) /\ UNCHANGED locals

\* The request goes on with statement next, knowing the columns w
Begin(p, next, o, t, w) ==
  /\ Goto(p, next)
  /\ op' = [op EXCEPT ![p] = o]
  /\ tok' = [tok EXCEPT ![p] = t]
  /\ row' = [row EXCEPT ![p] = w]
  /\ newAccess' = [newAccess EXCEPT ![p] = None]
  /\ newRefresh' = [newRefresh EXCEPT ![p] = None]
  /\ gone' = [gone EXCEPT ![p] = "no"]

Return(p) == Begin(p, "idle", "none", None, NoRow)

-----------------------------------------------------------------------------
(* Authorization code grant *)

\* The authorization endpoint stores a code once the user has consented
GenerateAuthorizationCode(f, c, u, s) ==
  /\ "authorize" \in Operations
  /\ s \subseteq Scopes[c]
  /\ AuthCodeCreate(f, [family |-> f, client |-> c, user |-> u, scope |-> s])
  /\ UNCHANGED <<accessTable, refreshTable, expired, clients, request, delivered, history>>

(***************************************************************************)
(* ExchangeAuthorizationCode up to its second statement.  The code is      *)
(* consumed first; the checks that follow (expiry, client, redirect_uri    *)
(* and PKCE verifier: "proven") fail with the code already consumed.       *)
(***************************************************************************)
ExchangeAuthorizationCode(p, f, c, proven) ==
  /\ AuthCodeConsume(f)
  /\ \/ /\ f \in expired
        /\ Begin(p, "deleteCode", "exchange", None, codeRow[f])
     \/ /\ f \notin expired /\ codeRow[f].client = c /\ proven
        /\ Begin(p, "loadClient", "exchange", None, codeRow[f])
     \/ /\ f \notin expired /\ ~(codeRow[f].client = c /\ proven)
        /\ UNCHANGED request
  /\ UNCHANGED <<accessTable, refreshTable, expired, clients, delivered, history>>

\* The code was consumed before: revoke what was issued for it
ReplayedAuthorizationCode(p, f) ==
  /\ code[f] = "used"
  /\ Begin(p, "revokeRefresh", "none", None, codeRow[f])
  /\ UNCHANGED <<storeVars, delivered, history>>

HandleAuthorizationCodeGrant(p) ==
  /\ Starts(p, "exchange")
  /\ \E f \in Code, c \in Client :
       /\ "authorization_code" \in GrantTypes[c]
       /\ \/ \E proven \in BOOLEAN : ExchangeAuthorizationCode(p, f, c, proven)
          \/ ReplayedAuthorizationCode(p, f)

DeleteExpiredCode(p) ==
  /\ pc[p] = "deleteCode"
  /\ AuthCodeDelete(row[p].family)
  /\ Return(p)
  /\ UNCHANGED <<accessTable, refreshTable, expired, clients, delivered, history>>

\* Client.GetByID; a deleted client gets invalid_grant
LoadClient(p) ==
  /\ pc[p] = "loadClient"
  /\ \/ /\ row[p].client \in clients
        /\ Continue(p, IF op[p] = "exchange" THEN "storeAccess" ELSE "claim")
     \/ /\ row[p].client \notin clients
        /\ Return(p)
  /\ UNCHANGED <<storeVars, delivered, history>>

-----------------------------------------------------------------------------
(* issueTokens *)

StoreAccess(p, a) ==
  /\ pc[p] = "storeAccess"
  /\ AccessCreate(a, row[p])
  /\ Goto(p, "storeRefresh")
  /\ newAccess' = [newAccess EXCEPT ![p] = a]
  /\ UNCHANGED <<op, tok, row, newRefresh, gone>>
  /\ UNCHANGED <<codeTable, refreshTable, expired, clients, delivered, history>>

StoreRefresh(p, r) ==
  /\ pc[p] = "storeRefresh"
  /\ RefreshCreate(r, row[p])
  /\ Goto(p, IF op[p] = "exchange" THEN "respond" ELSE "confirm")
  /\ newRefresh' = [newRefresh EXCEPT ![p] = r]
  /\ UNCHANGED <<op, tok, row, newAccess, gone>>
  /\ UNCHANGED <<codeTable, accessTable, expired, clients, delivered, history>>

\* The ID token is signed and the response written
Respond(p) ==
  /\ pc[p] = "respond"
  /\ delivered' = delivered \cup {newAccess[p], newRefresh[p]}
  /\ Return(p)
  /\ UNCHANGED <<storeVars, history>>

-----------------------------------------------------------------------------
(* Refresh token grant *)

\* The scope of the new tokens: the old one, or the subset the client asked for
Narrowed(old, requested) == IF requested = None THEN old.scope ELSE requested

\* RefreshTokens up to the statement after the first read
RefreshTokens(p, r, c, requested) ==
  /\ RefreshExists(r)
  /\ LET old == refreshRow[r] IN
       \/ /\ refresh[r] = "rotated"                  \* reuse of a rotated token
          /\ Begin(p, "revokeRefresh", "refresh", r, old)
       \/ /\ refresh[r] = "live" /\ r \in expired
          /\ Begin(p, "deleteExpiredRefresh", "refresh", r, old)
       \/ /\ refresh[r] = "live" /\ r \notin expired
          /\ old.client = c
          /\ Narrowed(old, requested) \subseteq old.scope
          /\ Begin(p, "loadClient", "refresh", r,
                   [family |-> old.family, client |-> old.client, user |-> old.user,
                    scope |-> Narrowed(old, requested)])
  /\ UNCHANGED <<storeVars, delivered, history>>

HandleRefreshTokenGrant(p) ==
  /\ Starts(p, "refresh")
  /\ \E r \in RefreshId \cap delivered, c \in Client, requested \in (SUBSET Scope) \cup {None} :
       /\ "refresh_token" \in GrantTypes[c]
       /\ RefreshTokens(p, r, c, requested)

DeleteExpiredRefresh(p) ==
  /\ pc[p] = "deleteExpiredRefresh"
  /\ RefreshDelete(tok[p])
  /\ Return(p)
  /\ UNCHANGED <<codeTable, accessTable, expired, clients, delivered, history>>

\* Of concurrent requests with the same token one claims it; the others,
\* and one whose token was deleted meanwhile, are treated as replays
ClaimRefresh(p) ==
  /\ pc[p] = "claim"
  /\ \/ /\ RefreshRevoke(tok[p])
        /\ Continue(p, "storeAccess")
     \/ /\ refresh[tok[p]] # "live"
        /\ Continue(p, "revokeRefresh")
        /\ UNCHANGED refreshTable
  /\ UNCHANGED <<codeTable, accessTable, expired, clients, delivered, history>>

\* Mutant: the new tokens are returned without a second look at the claimed one
ConfirmRefreshBlind(p) ==
  /\ pc[p] = "confirm"
  /\ delivered' = delivered \cup {newAccess[p], newRefresh[p]}
  /\ Return(p)
  /\ UNCHANGED <<storeVars, history>>

\* The new tokens are stored; is the claimed token still there?
ConfirmRefresh(p) ==
  /\ pc[p] = "confirm"
  /\ \/ /\ RefreshExists(tok[p])
        /\ delivered' = delivered \cup {newAccess[p], newRefresh[p]}
        /\ Return(p)
     \/ /\ ~RefreshExists(tok[p])
        /\ Continue(p, "revokeRefresh")
        /\ UNCHANGED delivered
  /\ UNCHANGED <<storeVars, history>>

-----------------------------------------------------------------------------
(* revokeTokenFamily: two statements, a failed one is logged and skipped *)

\* Mutant: revocation stops after the refresh tokens
RevokeRefreshFamilyOnly(p) ==
  /\ pc[p] = "revokeRefresh"
  /\ RefreshDeleteByFamilyID(row[p].family)
  /\ Return(p)
  /\ UNCHANGED <<codeTable, accessTable, expired, clients, delivered, history>>

RevokeRefreshFamily(p) ==
  /\ pc[p] = "revokeRefresh"
  /\ LET f == row[p].family IN
       \/ /\ RefreshDeleteByFamilyID(f)
          /\ gone' = [gone EXCEPT ![p] = IF \E q \in Request : Exchanging(q, f)
                                         THEN "raced" ELSE "settled"]
          /\ Goto(p, "revokeAccess")
          /\ UNCHANGED <<op, tok, row, newAccess, newRefresh>>
       \/ /\ Faults
          /\ Continue(p, "revokeAccess")
          /\ UNCHANGED refreshTable
  /\ UNCHANGED <<codeTable, accessTable, expired, clients, delivered, history>>

RevokeAccessFamily(p) ==
  /\ pc[p] = "revokeAccess"
  /\ LET f == row[p].family IN
       \/ /\ AccessDeleteByFamilyID(f)
          /\ revocation' = [revocation EXCEPT ![f] =
               IF @ = "settled" \/ gone[p] = "no" THEN @ ELSE gone[p]]
       \/ /\ Faults
          /\ UNCHANGED <<accessTable, revocation>>
  /\ Return(p)
  /\ UNCHANGED <<codeTable, refreshTable, expired, clients, delivered, cutting, cut>>

-----------------------------------------------------------------------------
(* RFC 7009 revocation: only the client the token was issued to *)

RevokeRefreshToken(p, r, c) ==
  /\ RefreshExists(r)
  /\ refreshRow[r].client = c
  /\ Begin(p, "revokeRefresh", "none", None, refreshRow[r])
  /\ UNCHANGED <<storeVars, delivered, history>>

\* GetByToken and Delete as one step: the row read cannot change in between
RevokeAccessToken(a, c) ==
  /\ access[a] = "live"
  /\ accessRow[a].client = c
  /\ AccessDelete(a)
  /\ UNCHANGED <<codeTable, refreshTable, expired, clients, request, delivered, history>>

HandleRevoke(p) ==
  /\ Starts(p, "revoke")
  /\ \E c \in Client :
       \/ \E r \in RefreshId \cap delivered : RevokeRefreshToken(p, r, c)
       \/ \E a \in AccessId \cap delivered : RevokeAccessToken(a, c)

-----------------------------------------------------------------------------
(* Grants without a refresh token *)

\* ValidateScopeForClient: nothing requested means all the client may have
ScopeForClient(c, requested) == IF requested = {} THEN Scopes[c] ELSE requested

GenerateClientCredentialsTokens(a, c, s) ==
  /\ AccessCreate(a, [family |-> None, client |-> c, user |-> None, scope |-> s])
  /\ delivered' = delivered \cup {a}
  /\ UNCHANGED <<codeTable, refreshTable, expired, clients, request, history>>

HandleClientCredentialsGrant(p) ==
  /\ Starts(p, "client_credentials")
  /\ \E a \in AccessId, c \in Client, requested \in SUBSET Scope :
       /\ "client_credentials" \in GrantTypes[c]
       /\ requested \subseteq Scopes[c]
       /\ GenerateClientCredentialsTokens(a, c, ScopeForClient(c, requested))

\* Mutant: the requested scope is checked against the client only
ExchangeTokenWidening(p, subject, c, requested) ==
  /\ Usable(subject)
  /\ LET s == Narrowed(accessRow[subject], requested) IN
       /\ s \subseteq Scopes[c]
       /\ Begin(p, "storeExchanged", "none", None,
                [family |-> None, client |-> c, user |-> accessRow[subject].user, scope |-> s])
  /\ UNCHANGED <<storeVars, delivered, history>>

\* ExchangeToken: the subject token is validated, then a token is stored for it
ExchangeToken(p, subject, c, requested) ==
  /\ Usable(subject)
  /\ LET s == Narrowed(accessRow[subject], requested) IN
       /\ s \subseteq accessRow[subject].scope
       /\ s \subseteq Scopes[c]
       /\ Begin(p, "storeExchanged", "none", None,
                [family |-> None, client |-> c, user |-> accessRow[subject].user, scope |-> s])
  /\ UNCHANGED <<storeVars, delivered, history>>

HandleTokenExchangeGrant(p) ==
  /\ Starts(p, "token-exchange")
  /\ \E subject \in AccessId \cap delivered, c \in Client, requested \in (SUBSET Scope) \cup {None} :
       /\ "token-exchange" \in GrantTypes[c]
       /\ ExchangeToken(p, subject, c, requested)

StoreExchanged(p, a) ==
  /\ pc[p] = "storeExchanged"
  /\ AccessCreate(a, row[p])
  /\ delivered' = delivered \cup {a}
  /\ Return(p)
  /\ UNCHANGED <<codeTable, refreshTable, expired, clients, history>>

-----------------------------------------------------------------------------
(* Bulk revocation: after a password reset, and when a client is deleted.  *)
(* The history variables note the families that had a delivered refresh    *)
(* token when the operation started: those grants are to end.              *)

DeliveredFamilies(ids) == {refreshRow[r].family : r \in ids \cap delivered}

RevokeUserCredentials(p, u) ==
  /\ Starts(p, "resetPassword")
  /\ AccessDeleteByUserID(u)
  /\ Begin(p, "cutUserRefresh", "none", None,
           [family |-> None, client |-> None, user |-> u, scope |-> {}])
  /\ cutting' = [cutting EXCEPT ![p] = DeliveredFamilies({r \in RefreshId : refreshRow[r].user = u})]
  /\ UNCHANGED <<codeTable, refreshTable, expired, clients, delivered, revocation, cut>>

\* The bulk revocation of p is over
CutDone(p) ==
  /\ cut' = cut \cup cutting[p]
  /\ cutting' = [cutting EXCEPT ![p] = {}]

CutUserRefresh(p) ==
  /\ pc[p] = "cutUserRefresh"
  /\ RefreshDeleteByUserID(row[p].user)
  /\ Return(p)
  /\ CutDone(p)
  /\ UNCHANGED <<codeTable, accessTable, expired, clients, delivered, revocation>>

DeleteClient(p, c) ==
  /\ Starts(p, "deleteClient")
  /\ c \in clients
  /\ ClientDelete(c)
  /\ Begin(p, "cutClientAccess", "none", None,
           [family |-> None, client |-> c, user |-> None, scope |-> {}])
  /\ cutting' = [cutting EXCEPT ![p] = DeliveredFamilies({r \in RefreshId : refreshRow[r].client = c})]
  /\ UNCHANGED <<codeTable, accessTable, refreshTable, expired, delivered, revocation, cut>>

CutClientAccess(p) ==
  /\ pc[p] = "cutClientAccess"
  /\ AccessDeleteByClientID(row[p].client)
  /\ Continue(p, "cutClientRefresh")
  /\ UNCHANGED <<codeTable, refreshTable, expired, clients, delivered, history>>

CutClientRefresh(p) ==
  /\ pc[p] = "cutClientRefresh"
  /\ RefreshDeleteByClientID(row[p].client)
  /\ Return(p)
  /\ CutDone(p)
  /\ UNCHANGED <<codeTable, accessTable, expired, clients, delivered, revocation>>

-----------------------------------------------------------------------------
(* Time, the cleanup job, failures *)

Expire ==
  /\ Cardinality(expired) < MaxExpired
  /\ \E id \in Code \cup AccessId \cup RefreshId : RowExpires(id)
  /\ UNCHANGED <<codeTable, accessTable, refreshTable, clients, request, delivered, history>>

\* A failed statement of the job is logged and the next one runs
CleanupExpiredTokens(p) ==
  /\ Starts(p, "cleanup")
  /\ AuthCodeDeleteExpired \/ (Faults /\ UNCHANGED codeTable)
  /\ Begin(p, "cleanAccess", "none", None, NoRow)
  /\ UNCHANGED <<accessTable, refreshTable, expired, clients, delivered, history>>

CleanupAccess(p) ==
  /\ pc[p] = "cleanAccess"
  /\ AccessDeleteExpired \/ (Faults /\ UNCHANGED accessTable)
  /\ Continue(p, "cleanRefresh")
  /\ UNCHANGED <<codeTable, refreshTable, expired, clients, delivered, history>>

CleanupRefresh(p) ==
  /\ pc[p] = "cleanRefresh"
  /\ RefreshDeleteExpired \/ (Faults /\ UNCHANGED refreshTable)
  /\ Return(p)
  /\ UNCHANGED <<codeTable, accessTable, expired, clients, delivered, history>>

(***************************************************************************)
(* A statement fails (the database, or the request's context was cancelled *)
(* because the client hung up) and the error is returned, or the replica   *)
(* stops.  What was stored stays stored.                                   *)
(***************************************************************************)
Abort(p) ==
  /\ Faults
  /\ pc[p] # "idle"
  /\ Return(p)
  /\ cutting' = [cutting EXCEPT ![p] = {}]
  /\ UNCHANGED <<storeVars, delivered, revocation, cut>>

-----------------------------------------------------------------------------
\* The steps of a request that has started
Step(p) ==
  \/ DeleteExpiredCode(p)
  \/ LoadClient(p)
  \/ \E a \in AccessId : StoreAccess(p, a)
  \/ \E r \in RefreshId : StoreRefresh(p, r)
  \/ Respond(p)
  \/ DeleteExpiredRefresh(p)
  \/ ClaimRefresh(p)
  \/ ConfirmRefresh(p)
  \/ RevokeRefreshFamily(p)
  \/ RevokeAccessFamily(p)
  \/ \E a \in AccessId : StoreExchanged(p, a)
  \/ CutUserRefresh(p)
  \/ CutClientAccess(p)
  \/ CutClientRefresh(p)
  \/ CleanupAccess(p)
  \/ CleanupRefresh(p)

\* A request arrives, or an administrator or the ticker starts an operation
Start(p) ==
  \/ HandleAuthorizationCodeGrant(p)
  \/ HandleRefreshTokenGrant(p)
  \/ HandleRevoke(p)
  \/ HandleClientCredentialsGrant(p)
  \/ HandleTokenExchangeGrant(p)
  \/ \E u \in User : RevokeUserCredentials(p, u)
  \/ \E c \in Client : DeleteClient(p, c)
  \/ CleanupExpiredTokens(p)

Authorize ==
  \E f \in Code, c \in Client, u \in User, s \in SUBSET Scope :
    GenerateAuthorizationCode(f, c, u, s)

Next ==
  \/ Authorize
  \/ \E p \in Request : Start(p) \/ Step(p) \/ Abort(p)
  \/ Expire

Spec == Init /\ [][Next]_vars

\* A request in progress goes on: Go schedules its goroutine and the database
\* answers.  Nothing makes clients, administrators or time act.
FairSpec == Spec /\ \A p \in Request : WF_vars(Step(p))

-----------------------------------------------------------------------------
(* Properties *)

\* A family is dead: no token of it that reached a client still works.
Dead(f) ==
  /\ \A r \in RefreshId \cap delivered : refreshRow[r].family = f => ~RefreshExists(r)
  /\ \A a \in AccessId \cap delivered : accessRow[a].family = f => access[a] # "live"

\* A grant never forks: a family has at most one refresh token that can be
\* rotated, whatever requests race on the code, on a token and on its claim
\* (RefreshTokens, ExchangeAuthorizationCode).
GrantNeverForks ==
  \A r1, r2 \in RefreshId :
    /\ refresh[r1] = "live"
    /\ refresh[r2] = "live"
    /\ refreshRow[r1].family = refreshRow[r2].family
    => r1 = r2

\* Once a revocation of a family (reuse of a refresh token, RFC 7009, replay of
\* a code whose exchange is over) has run, no token of the family that reached
\* a client works, now or later: a refresh that raced the revocation confirms
\* its claim after storing its tokens (RefreshTokens, revokeTokenFamily).
RevokedGrantStaysDead ==
  \A f \in Code : revocation[f] = "settled" => Dead(f)

\* A grant cut by a password reset or by deleting its client cannot be
\* refreshed any more: no refresh token of it that reached a client is stored.
CutGrantCannotRefresh ==
  \A r \in RefreshId \cap delivered : refreshRow[r].family \in cut => ~RefreshExists(r)

\* No token is worth more than the consent it descends from: along any chain
\* of exchanges, rotations and token exchanges a token keeps the user, stays
\* within the scope granted at the authorization endpoint and within its
\* client's registration; a family's tokens keep its client.
WithinGrant(w) ==
  /\ w.scope \subseteq Scopes[w.client]
  /\ w.family # None => /\ w.client = codeRow[w.family].client
                          /\ w.user = codeRow[w.family].user
                          /\ w.scope \subseteq codeRow[w.family].scope
  /\ w.user # None => \E f \in Code : /\ codeRow[f].user = w.user
                                        /\ w.scope \subseteq codeRow[f].scope

TokensWithinGrant ==
  /\ \A a \in AccessId : access[a] # "none" => WithinGrant(accessRow[a])
  /\ \A r \in RefreshId : refresh[r] # "none" => WithinGrant(refreshRow[r])

\* What docs/CONFORMANCE.md says of codes, "replay revokes the tokens issued
\* for the code": once the replay has been handled no token of the code works.
ReplayRevokesTokens ==
  \A f \in Code : revocation[f] # "no" => Dead(f)

\* What revokeUserCredentials and clientServiceImpl.Delete say of the tokens of
\* the user, or of the client: they are revoked, so a grant that existed
\* when the operation started has no working token when it is over.  A refresh between the two
\* statements leaves one (README, "Divergences").
CutGrantIsDead ==
  \A f \in cut : Dead(f)

\* A detected reuse is acted on: when a request starts to revoke a family whose
\* code is not being exchanged, the family eventually is dead.
ReuseKillsGrant ==
  \A p \in Request, f \in Code :
    (/\ pc[p] = "revokeRefresh"
     /\ row[p].family = f
     /\ \A q \in Request : ~Exchanging(q, f)) ~> Dead(f)

-----------------------------------------------------------------------------
(***************************************************************************)
(* The inductive invariant behind GrantNeverForks, RevokedGrantStaysDead   *)
(* and CutGrantCannotRefresh, in parts.                                    *)
(***************************************************************************)

\* Nothing exists in a family before its code is consumed
Untouched(f) == code[f] \in {"none", "fresh"}

\* The request holds the right to store the family's next refresh token
Issuing(p) ==
  \/ pc[p] \in {"storeAccess", "storeRefresh"}
  \/ pc[p] = "loadClient" /\ op[p] = "exchange"

\* The request has stored the family's next refresh token and may hand it to its client
Handing(p) == pc[p] \in {"respond", "confirm"}

\* The request works on behalf of a refresh token it was presented
Refreshing(p) ==
  /\ op[p] = "refresh"
  /\ pc[p] \in {"loadClient", "claim", "storeAccess", "storeRefresh", "confirm",
                    "deleteExpiredRefresh"}

\* No more token of the family can reach a client
Closed(f) ==
  /\ ~Untouched(f)
  /\ \A p \in Request : ~Exchanging(p, f)
  /\ \A r \in RefreshId \cap delivered : refreshRow[r].family = f => ~RefreshExists(r)

\* What rows and requests refer to
RowsInv ==
  /\ \A f \in Code : code[f] # "none" => codeRow[f].family = f
  /\ \A r \in RefreshId : refresh[r] # "none" =>
       refreshRow[r].family \in Code /\ ~Untouched(refreshRow[r].family)
  /\ \A a \in AccessId \cap delivered : access[a] # "none"
  /\ \A r \in RefreshId \cap delivered : refresh[r] # "none"

RequestsInv ==
  \A p \in Request :
    /\ (Issuing(p) \/ Refreshing(p) \/ pc[p] \in {"respond", "confirm", "revokeRefresh", "revokeAccess"}) =>
         row[p].family \in Code /\ ~Untouched(row[p].family)
    /\ Refreshing(p) => /\ tok[p] \in RefreshId \cap delivered
                        /\ refreshRow[tok[p]].family = row[p].family
    /\ pc[p] \in {"loadClient", "storeAccess", "storeRefresh"} => op[p] \in {"exchange", "refresh"}
    /\ pc[p] = "respond" => op[p] = "exchange"
    /\ pc[p] \in {"claim", "confirm"} => op[p] = "refresh"
    /\ pc[p] = "storeExchanged" => row[p].family = None
    /\ pc[p] # "revokeAccess" => gone[p] = "no"
    /\ pc[p] \in {"storeRefresh", "respond", "confirm"} =>
         /\ newAccess[p] \in AccessId
         /\ access[newAccess[p]] # "none"
         /\ accessRow[newAccess[p]].family = row[p].family
    /\ pc[p] \in {"respond", "confirm"} =>
         /\ newRefresh[p] \in RefreshId
         /\ refresh[newRefresh[p]] # "none"
         /\ refreshRow[newRefresh[p]].family = row[p].family

\* A family has one holder of the right to store and hand out its next refresh token: the
\* request that consumed the code or claimed the last token, while that token is live the
\* client; a token is on its way to its client once
SingleHolder ==
  /\ \A p, q \in Request :
       /\ Issuing(p) \/ Handing(p)
       /\ Issuing(q) \/ Handing(q)
       /\ row[p].family = row[q].family
       => p = q
  /\ \A p \in Request, r \in RefreshId :
       /\ Issuing(p) \/ Handing(p)
       /\ refresh[r] = "live" /\ refreshRow[r].family = row[p].family
       => Handing(p) /\ r = newRefresh[p]
  /\ \A p \in Request : Handing(p) => newRefresh[p] \notin delivered
  /\ GrantNeverForks

\* While the code is exchanged no refresh token of the family is out
ExchangeComesFirst ==
  /\ \A p, q \in Request :
       ExchangesCode(p) /\ ExchangesCode(q) /\ row[p].family = row[q].family => p = q
  /\ \A p \in Request, r \in RefreshId \cap delivered :
       ExchangesCode(p) => refreshRow[r].family # row[p].family

\* Revocations close a family before they count as settled
RevocationInv ==
  /\ \A p \in Request : pc[p] = "revokeAccess" /\ gone[p] = "settled" =>
       Closed(row[p].family)
  /\ \A f \in Code : revocation[f] = "settled" => Closed(f)
  /\ RevokedGrantStaysDead

IInv == TypeOK /\ RowsInv /\ RequestsInv /\ SingleHolder /\ ExchangeComesFirst /\ RevocationInv

(***************************************************************************)
(* What TokensWithinGrant and CutGrantCannotRefresh need besides.          *)
(***************************************************************************)

\* A client's row, within a consent that was given
Rooted(w) ==
  /\ w \in Row
  /\ w.client \in Client
  /\ w.family # None => code[w.family] # "none"
  /\ WithinGrant(w)

\* The request may come to store the row it knows
Storing(p) == pc[p] \in {"loadClient", "claim", "storeAccess", "storeRefresh", "storeExchanged"}

GrantInv ==
  /\ \A f \in Code : IF code[f] = "none" THEN codeRow[f] = NoRow ELSE Rooted(codeRow[f])
  /\ \A a \in AccessId : access[a] # "none" => Rooted(accessRow[a])
  /\ \A r \in RefreshId : refresh[r] # "none" => Rooted(refreshRow[r])
  /\ \A p \in Request : Storing(p) => Rooted(row[p])

\* The exchange of the code is over
Collected(f) ==
  /\ f \in Code /\ ~Untouched(f)
  /\ \A p \in Request : ~Exchanging(p, f)

\* The grants that a bulk revocation has to end are grants of its user or client, whose
\* codes are spent; when it is over they are closed
CutInv ==
  /\ \A p \in Request : cutting[p] # {} => pc[p] \in {"cutUserRefresh", "cutClientAccess", "cutClientRefresh"}
  /\ \A p \in Request : \A f \in cutting[p] :
       /\ Collected(f)
       /\ pc[p] = "cutUserRefresh" => codeRow[f].user = row[p].user
       /\ pc[p] \in {"cutClientAccess", "cutClientRefresh"} => codeRow[f].client = row[p].client
  /\ \A f \in cut : f \in Code /\ Closed(f)
-----------------------------------------------------------------------------
(* The grants that clients and users see *)

\* Where the grant of a code stands: over once no more token of it can reach a client
Phase(f) ==
  CASE code[f] = "none" -> "none"
    [] code[f] = "fresh" -> "consented"
    [] OTHER -> IF Closed(f) THEN "over" ELSE "open"

Issued(f) == {r \in RefreshId \cap delivered : refreshRow[r].family = f}

Spent(f) == {r \in Issued(f) : refresh[r] # "live"}

Promise == INSTANCE Grant WITH
  Grants <- Code, Token <- RefreshId,
  phase <- [f \in Code |-> Phase(f)], issued <- [f \in Code |-> Issued(f)],
  used <- [f \in Code |-> Spent(f)]

\* The token service keeps what a grant promises, with requests racing on its code, on a token
\* and on its claim, with failed statements and stopped replicas: the next refresh token
\* reaches a client only when all earlier ones have been used, and a grant that is over (its
\* exchange failed, or it was revoked, cut or cleaned up) yields nothing any more, whatever
\* a refresh under way has already claimed or stored (ClaimRefresh, ConfirmRefresh).
ImplementsGrant == Promise!Spec
=============================================================================
