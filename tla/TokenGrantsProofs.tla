------------------------- MODULE TokenGrantsProofs -------------------------
(* Proofs about the grants: TokenGrants, and at the end DeviceGrant, for   *)
(* any number of requests, codes, tokens, clients, users and scopes, with  *)
(* and without faults.                                                     *)
EXTENDS TokenGrants, DeviceOutcome, TLAPS

\* The initial tables and request slots have the right types.
LEMMA TypeInit == Init => TypeOK
  BY IdsAssumption DEF Init, TypeOK, StoreInit, StoreTypeOK, RequestTypeOK, Row, NoRow,
     CodeStatus, AccessStatus, RefreshStatus, Progress, PC, Op

\* What Begin leaves in a request slot has the right types.
LEMMA BeginType ==
  ASSUME RequestTypeOK, NEW p \in Request, NEW next \in PC, NEW o \in Op,
         NEW t \in RefreshId \cup {None}, NEW w \in Row, Begin(p, next, o, t, w)
  PROVE  RequestTypeOK'
  BY DEF RequestTypeOK, Begin, Goto, Progress

\* The same for a request that only moves on to its next statement.
LEMMA ContinueType ==
  ASSUME RequestTypeOK, NEW p \in Request, NEW next \in PC, Continue(p, next)
  PROVE  RequestTypeOK'
  BY DEF RequestTypeOK, Continue, Goto, locals

\* The same for a slot that becomes free.
LEMMA ReturnType ==
  ASSUME RequestTypeOK, NEW p \in Request, Return(p)
  PROVE  RequestTypeOK'
<1>1. "idle" \in PC /\ "none" \in Op /\ NoRow \in Row
  BY DEF PC, Op, NoRow, Row
<1> QED
  BY <1>1, BeginType DEF Return

\* The same for a step that no request takes part in.
LEMMA RequestUnchanged ==
  ASSUME RequestTypeOK, UNCHANGED request
  PROVE  RequestTypeOK'
  BY DEF RequestTypeOK, request

\* A narrowed scope is a scope.
LEMMA NarrowedType ==
  ASSUME NEW w \in Row, NEW requested \in (SUBSET Scope) \cup {None}
  PROVE  Narrowed(w, requested) \in SUBSET Scope
<1>1. CASE requested = None
  BY <1>1 DEF Narrowed, Row
<1>2. CASE requested # None
  BY <1>2 DEF Narrowed
<1> QED
  BY <1>1, <1>2

\* The families of refresh rows are codes (or None, for a row not stored yet).
LEMMA FamiliesType ==
  ASSUME StoreTypeOK, NEW ids \in SUBSET RefreshId
  PROVE  DeliveredFamilies(ids) \in SUBSET (Code \cup {None})
<1>1. ASSUME NEW r \in ids PROVE refreshRow[r].family \in Code \cup {None}
  BY DEF StoreTypeOK, Row
<1> QED
  BY <1>1 DEF DeliveredFamilies

\* Every step keeps the types: rows keep their shape, and a request only ever
\* holds ids and columns it was presented, read or stored.
LEMMA TypeNext == TypeOK /\ RequestsInv /\ [Next]_vars => TypeOK'
<1> SUFFICES ASSUME TypeOK, RequestsInv, [Next]_vars PROVE TypeOK'
  OBVIOUS
<1> USE GrantsAssumption, BeginType, ContinueType, ReturnType, RequestUnchanged
    DEF TypeOK, StoreTypeOK, codeTable, accessTable, refreshTable, storeVars, history,
        Starts, AuthCodeDeleteRows, AccessDeleteRows, RefreshDeleteRows, RefreshExists
<1>0. /\ CodeStatus = {"none", "fresh", "used", "deleted"}
      /\ AccessStatus = {"none", "live", "deleted"}
      /\ RefreshStatus = {"none", "live", "rotated", "deleted"}
      /\ Progress = {"no", "raced", "settled"}
  BY DEF CodeStatus, AccessStatus, RefreshStatus, Progress
<1>1. CASE Authorize
  BY <1>0, <1>1 DEF Authorize, GenerateAuthorizationCode, AuthCodeCreate, Row
<1>2. ASSUME NEW p \in Request, Start(p) PROVE TypeOK'
  <2>1. CASE HandleAuthorizationCodeGrant(p)
    <3>1. ASSUME NEW f \in Code, NEW c \in Client, NEW proven \in BOOLEAN,
                 ExchangeAuthorizationCode(p, f, c, proven)
          PROVE  TypeOK'
      BY <1>0, <3>1 DEF ExchangeAuthorizationCode, AuthCodeConsume, PC, Op
    <3>2. ASSUME NEW f \in Code, ReplayedAuthorizationCode(p, f) PROVE TypeOK'
      BY <3>2 DEF ReplayedAuthorizationCode, PC, Op
    <3> QED
      BY <2>1, <3>1, <3>2 DEF HandleAuthorizationCodeGrant
  <2>2. CASE HandleRefreshTokenGrant(p)
    <3> SUFFICES ASSUME NEW r \in RefreshId, NEW c \in Client, NEW requested \in (SUBSET Scope) \cup {None},
                        RefreshTokens(p, r, c, requested)
                 PROVE  TypeOK'
      BY <2>2 DEF HandleRefreshTokenGrant
    <3>1. refreshRow[r] \in Row
      OBVIOUS
    <3>2. Narrowed(refreshRow[r], requested) \in SUBSET Scope
      BY <3>1, NarrowedType
    <3>3. [family |-> refreshRow[r].family, client |-> refreshRow[r].client,
           user |-> refreshRow[r].user, scope |-> Narrowed(refreshRow[r], requested)] \in Row
      BY <3>1, <3>2 DEF Row
    <3>4. RequestTypeOK'
      BY <3>1, <3>3 DEF RefreshTokens, PC, Op
    <3> QED
      BY <3>4 DEF RefreshTokens
  <2>3. CASE HandleRevoke(p)
    <3>1. ASSUME NEW r \in RefreshId, NEW c \in Client, RevokeRefreshToken(p, r, c) PROVE TypeOK'
      BY <3>1 DEF RevokeRefreshToken, PC, Op
    <3>2. ASSUME NEW a \in AccessId, NEW c \in Client, RevokeAccessToken(a, c) PROVE TypeOK'
      BY <1>0, <3>2 DEF RevokeAccessToken, AccessDelete
    <3> QED
      BY <2>3, <3>1, <3>2 DEF HandleRevoke
  <2>4. CASE HandleClientCredentialsGrant(p)
    BY <1>0, <2>4 DEF HandleClientCredentialsGrant, GenerateClientCredentialsTokens, AccessCreate, ScopeForClient, Row
  <2>5. CASE HandleTokenExchangeGrant(p)
    <3> SUFFICES ASSUME NEW a \in AccessId, NEW c \in Client, NEW requested \in (SUBSET Scope) \cup {None},
                        ExchangeToken(p, a, c, requested)
                 PROVE  TypeOK'
      BY <2>5 DEF HandleTokenExchangeGrant
    <3>1. accessRow[a] \in Row
      OBVIOUS
    <3>2. Narrowed(accessRow[a], requested) \in SUBSET Scope
      BY <3>1, NarrowedType
    <3>3. [family |-> None, client |-> c, user |-> accessRow[a].user,
           scope |-> Narrowed(accessRow[a], requested)] \in Row
      BY <3>1, <3>2 DEF Row
    <3>4. RequestTypeOK'
      BY <3>3 DEF ExchangeToken, PC, Op
    <3> QED
      BY <3>4 DEF ExchangeToken
  <2>6. CASE \E u \in User : RevokeUserCredentials(p, u)
    <3> SUFFICES ASSUME NEW u \in User, RevokeUserCredentials(p, u) PROVE TypeOK'
      BY <2>6
    <3>1. [family |-> None, client |-> None, user |-> u, scope |-> {}] \in Row
      BY DEF Row
    <3>2. RequestTypeOK'
      BY <3>1 DEF RevokeUserCredentials, PC, Op
    <3>3. cutting' \in [Request -> SUBSET (Code \cup {None})]
      BY FamiliesType DEF RevokeUserCredentials
    <3> QED
      BY <1>0, <3>2, <3>3 DEF RevokeUserCredentials, AccessDeleteByUserID
  <2>7. CASE \E c \in Client : DeleteClient(p, c)
    <3> SUFFICES ASSUME NEW c \in Client, DeleteClient(p, c) PROVE TypeOK'
      BY <2>7
    <3>1. [family |-> None, client |-> c, user |-> None, scope |-> {}] \in Row
      BY DEF Row
    <3>2. RequestTypeOK'
      BY <3>1 DEF DeleteClient, PC, Op
    <3>3. cutting' \in [Request -> SUBSET (Code \cup {None})]
      BY FamiliesType DEF DeleteClient
    <3> QED
      BY <3>2, <3>3 DEF DeleteClient, ClientDelete
  <2>8. CASE CleanupExpiredTokens(p)
    <3>1. code' \in [Code -> CodeStatus] /\ UNCHANGED codeRow
      BY <1>0, <2>8 DEF CleanupExpiredTokens, AuthCodeDeleteExpired
    <3>2. NoRow \in Row /\ "cleanAccess" \in PC /\ "none" \in Op
      BY DEF Row, NoRow, PC, Op
    <3>3. RequestTypeOK'
      BY <2>8, <3>2 DEF CleanupExpiredTokens
    <3> QED
      BY <2>8, <3>1, <3>3 DEF CleanupExpiredTokens
  <2> QED
    BY <1>2, <2>1, <2>2, <2>3, <2>4, <2>5, <2>6, <2>7, <2>8 DEF Start
<1>3. ASSUME NEW p \in Request, Step(p) PROVE TypeOK'
  <2>1. CASE DeleteExpiredCode(p)
    BY <1>0, <2>1 DEF DeleteExpiredCode, AuthCodeDelete
  <2>2. CASE LoadClient(p)
    BY <2>2 DEF LoadClient, PC
  <2>3. CASE \E a \in AccessId : StoreAccess(p, a)
    BY <1>0, <2>3 DEF StoreAccess, AccessCreate, RequestTypeOK, Goto, PC
  <2>4. CASE \E r \in RefreshId : StoreRefresh(p, r)
    BY <1>0, <2>4 DEF StoreRefresh, RefreshCreate, RequestTypeOK, Goto, PC
  <2>5. CASE Respond(p)
    BY <2>5 DEF Respond, RequestsInv
  <2>6. CASE DeleteExpiredRefresh(p)
    BY <1>0, <2>6 DEF DeleteExpiredRefresh, RefreshDelete
  <2>7. CASE ClaimRefresh(p)
    BY <1>0, <2>7 DEF ClaimRefresh, RefreshRevoke, PC
  <2>8. CASE ConfirmRefresh(p)
    BY <2>8 DEF ConfirmRefresh, RequestsInv, PC
  <2>9. CASE RevokeRefreshFamily(p)
    <3>1. pc' = [pc EXCEPT ![p] = "revokeAccess"] /\ UNCHANGED <<op, tok, row, newAccess, newRefresh>>
      BY <2>9 DEF RevokeRefreshFamily, Continue, Goto, locals
    <3>2. gone' \in [Request -> Progress]
      <4>1. gone' = gone \/ gone' = [gone EXCEPT ![p] = "raced"] \/ gone' = [gone EXCEPT ![p] = "settled"]
        BY <2>9 DEF RevokeRefreshFamily, Continue, locals
      <4> QED
        BY <1>0, <4>1 DEF RequestTypeOK
    <3>3. RequestTypeOK'
      BY <3>1, <3>2 DEF RequestTypeOK, PC
    <3> QED
      BY <1>0, <2>9, <3>3 DEF RevokeRefreshFamily, RefreshDeleteByFamilyID
  <2>10. CASE RevokeAccessFamily(p)
    <3>1. gone[p] \in Progress
      BY DEF RequestTypeOK
    <3> QED
      BY <1>0, <2>10, <3>1 DEF RevokeAccessFamily, AccessDeleteByFamilyID
  <2>11. CASE \E a \in AccessId : StoreExchanged(p, a)
    BY <1>0, <2>11 DEF StoreExchanged, AccessCreate, RequestTypeOK
  <2>12. CASE CutUserRefresh(p)
    BY <1>0, <2>12 DEF CutUserRefresh, RefreshDeleteByUserID, CutDone
  <2>13. CASE CutClientAccess(p)
    BY <1>0, <2>13 DEF CutClientAccess, AccessDeleteByClientID, PC
  <2>14. CASE CutClientRefresh(p)
    BY <1>0, <2>14 DEF CutClientRefresh, RefreshDeleteByClientID, CutDone
  <2>15. CASE CleanupAccess(p)
    BY <1>0, <2>15 DEF CleanupAccess, AccessDeleteExpired, PC
  <2>16. CASE CleanupRefresh(p)
    BY <1>0, <2>16 DEF CleanupRefresh, RefreshDeleteExpired
  <2> QED
    BY <1>3, <2>1, <2>2, <2>3, <2>4, <2>5, <2>6, <2>7, <2>8, <2>9, <2>10, <2>11, <2>12,
       <2>13, <2>14, <2>15, <2>16 DEF Step
<1>4. ASSUME NEW p \in Request, Abort(p) PROVE TypeOK'
  BY <1>4 DEF Abort
<1>5. CASE Expire
  BY <1>5 DEF Expire, RowExpires
<1>6. CASE UNCHANGED vars
  BY <1>6 DEF vars
<1> QED
  BY <1>1, <1>2, <1>3, <1>4, <1>5, <1>6 DEF Next

-----------------------------------------------------------------------------
\* Rows keep what they refer to: a stored code names its own family, a stored refresh
\* token belongs to a family whose code is consumed, and clients hold stored tokens only.
LEMMA RowsNext == TypeOK /\ TypeOK' /\ RowsInv /\ RequestsInv /\ [Next]_vars => RowsInv'
<1> SUFFICES ASSUME TypeOK, TypeOK', RowsInv, RequestsInv, [Next]_vars PROVE RowsInv'
  OBVIOUS
<1> USE IdsAssumption DEF codeTable, accessTable, refreshTable, storeVars, history, locals, request, Goto, Continue, Begin, Return, Starts, AuthCodeDeleteRows, AccessDeleteRows, RefreshDeleteRows, RefreshExists, NoRow, TypeOK, StoreTypeOK, RequestTypeOK, Row, RowsInv, RequestsInv, Untouched, Issuing, Refreshing
<1>1. CASE Authorize
  BY <1>1 DEF Authorize, GenerateAuthorizationCode, AuthCodeCreate
<1>2. ASSUME NEW p \in Request, Start(p) PROVE RowsInv'
  <2>1. CASE HandleAuthorizationCodeGrant(p)
    <3>1. ASSUME NEW f \in Code, NEW c \in Client, NEW proven \in BOOLEAN,
                 ExchangeAuthorizationCode(p, f, c, proven)
          PROVE  RowsInv'
      <4> USE <2>1, <3>1 DEF HandleAuthorizationCodeGrant, ExchangeAuthorizationCode, AuthCodeConsume
      <4>1. CASE Begin(p, "deleteCode", "exchange", None, codeRow[f])
        BY <4>1
      <4>2. CASE Begin(p, "loadClient", "exchange", None, codeRow[f])
        BY <4>2
      <4>3. CASE UNCHANGED request
        BY <4>3
      <4> QED
        BY <4>1, <4>2, <4>3
    <3>2. ASSUME NEW f \in Code, ReplayedAuthorizationCode(p, f) PROVE RowsInv'
      BY <2>1, <3>2 DEF HandleAuthorizationCodeGrant, ReplayedAuthorizationCode
    <3> QED
      BY <2>1, <3>1, <3>2 DEF HandleAuthorizationCodeGrant
  <2>2. CASE HandleRefreshTokenGrant(p)
    <3> SUFFICES ASSUME NEW r \in RefreshId \cap delivered, NEW c \in Client,
                        NEW requested \in (SUBSET Scope) \cup {None}, RefreshTokens(p, r, c, requested)
                 PROVE  RowsInv'
      BY <2>2 DEF HandleRefreshTokenGrant
    <3> DEFINE narrowed == [family |-> refreshRow[r].family, client |-> refreshRow[r].client,
                            user |-> refreshRow[r].user, scope |-> Narrowed(refreshRow[r], requested)]
    <3>0. UNCHANGED <<storeVars, delivered, history>> /\ pc[p] = "idle" /\ RefreshExists(r)
      BY <2>2 DEF HandleRefreshTokenGrant, RefreshTokens
    <3>1. CASE Begin(p, "revokeRefresh", "refresh", r, refreshRow[r])
      BY <3>0, <3>1
    <3>2. CASE Begin(p, "deleteExpiredRefresh", "refresh", r, refreshRow[r])
      BY <3>0, <3>2
    <3>3. CASE Begin(p, "loadClient", "refresh", r, narrowed)
      <4>1. narrowed.family = refreshRow[r].family
        OBVIOUS
      <4> HIDE DEF narrowed
      <4> QED
        BY <3>0, <3>3, <4>1
    <3> QED
      BY <3>1, <3>2, <3>3 DEF RefreshTokens
  <2>3. CASE HandleRevoke(p)
    <3>1. ASSUME NEW r \in RefreshId, NEW c \in Client, RevokeRefreshToken(p, r, c) PROVE RowsInv'
      BY <2>3, <3>1 DEF HandleRevoke, RevokeRefreshToken
    <3>2. ASSUME NEW a \in AccessId, NEW c \in Client, RevokeAccessToken(a, c) PROVE RowsInv'
      BY <3>2 DEF RevokeAccessToken, AccessDelete
    <3> QED
      BY <2>3, <3>1, <3>2 DEF HandleRevoke
  <2>4. CASE HandleClientCredentialsGrant(p)
    BY <2>4 DEF HandleClientCredentialsGrant, GenerateClientCredentialsTokens, AccessCreate
  <2>5. CASE HandleTokenExchangeGrant(p)
    BY <2>5 DEF HandleTokenExchangeGrant, ExchangeToken
  <2>6. CASE \E u \in User : RevokeUserCredentials(p, u)
    BY <2>6 DEF RevokeUserCredentials, AccessDeleteByUserID
  <2>7. CASE \E c \in Client : DeleteClient(p, c)
    BY <2>7 DEF DeleteClient, ClientDelete
  <2>8. CASE CleanupExpiredTokens(p)
    <3>1. CASE AuthCodeDeleteExpired
      BY <2>8, <3>1 DEF CleanupExpiredTokens, AuthCodeDeleteExpired
    <3>2. CASE UNCHANGED codeTable
      BY <2>8, <3>2 DEF CleanupExpiredTokens
    <3> QED
      BY <2>8, <3>1, <3>2 DEF CleanupExpiredTokens
  <2> QED
    BY <1>2, <2>1, <2>2, <2>3, <2>4, <2>5, <2>6, <2>7, <2>8 DEF Start
<1>3. ASSUME NEW p \in Request, Step(p) PROVE RowsInv'
  <2>1. CASE DeleteExpiredCode(p)
    BY <2>1 DEF DeleteExpiredCode, AuthCodeDelete
  <2>2. CASE LoadClient(p)
    <3>1. CASE Continue(p, "storeAccess") /\ op[p] = "exchange"
      BY <2>2, <3>1 DEF LoadClient
    <3>2. CASE Continue(p, "claim") /\ op[p] # "exchange"
      BY <2>2, <3>2 DEF LoadClient
    <3>3. CASE Return(p)
      BY <2>2, <3>3 DEF LoadClient
    <3> QED
      BY <2>2, <3>1, <3>2, <3>3 DEF LoadClient
  <2>3. CASE \E a \in AccessId : StoreAccess(p, a)
    BY <2>3 DEF StoreAccess, AccessCreate
  <2>4. CASE \E r \in RefreshId : StoreRefresh(p, r)
    BY <2>4 DEF StoreRefresh, RefreshCreate
  <2>5. CASE Respond(p)
    BY <2>5 DEF Respond
  <2>6. CASE DeleteExpiredRefresh(p)
    BY <2>6 DEF DeleteExpiredRefresh, RefreshDelete
  <2>7. CASE ClaimRefresh(p)
    <3>1. CASE RefreshRevoke(tok[p]) /\ Continue(p, "storeAccess")
      BY <2>7, <3>1 DEF ClaimRefresh, RefreshRevoke
    <3>2. CASE Continue(p, "revokeRefresh") /\ UNCHANGED refreshTable
      BY <2>7, <3>2 DEF ClaimRefresh
    <3> QED
      BY <2>7, <3>1, <3>2 DEF ClaimRefresh
  <2>8. CASE ConfirmRefresh(p)
    <3>0. /\ newAccess[p] \in AccessId
          /\ newRefresh[p] \in RefreshId
          /\ newAccess[p] \notin RefreshId
          /\ newRefresh[p] \notin AccessId
          /\ access[newAccess[p]] # "none"
          /\ refresh[newRefresh[p]] # "none"
          /\ refreshRow[newRefresh[p]].family = row[p].family
          /\ accessRow[newAccess[p]].family = row[p].family
          /\ tok[p] \in RefreshId \cap delivered
          /\ refreshRow[tok[p]].family = row[p].family
      BY <2>8 DEF ConfirmRefresh
    <3>1. CASE delivered' = delivered \cup {newAccess[p], newRefresh[p]} /\ Return(p)
      BY <2>8, <3>0, <3>1 DEF ConfirmRefresh
    <3>2. CASE Continue(p, "revokeRefresh") /\ UNCHANGED delivered
      BY <2>8, <3>0, <3>2 DEF ConfirmRefresh
    <3> QED
      BY <2>8, <3>1, <3>2 DEF ConfirmRefresh
  <2>9. CASE RevokeRefreshFamily(p)
    <3>1. CASE RefreshDeleteByFamilyID(row[p].family)
      BY <2>9, <3>1 DEF RevokeRefreshFamily, RefreshDeleteByFamilyID
    <3>2. CASE Continue(p, "revokeAccess") /\ UNCHANGED refreshTable
      BY <2>9, <3>2 DEF RevokeRefreshFamily
    <3> QED
      BY <2>9, <3>1, <3>2 DEF RevokeRefreshFamily
  <2>10. CASE RevokeAccessFamily(p)
    BY <2>10 DEF RevokeAccessFamily, AccessDeleteByFamilyID
  <2>11. CASE \E a \in AccessId : StoreExchanged(p, a)
    BY <2>11 DEF StoreExchanged, AccessCreate
  <2>12. CASE CutUserRefresh(p)
    BY <2>12 DEF CutUserRefresh, RefreshDeleteByUserID, CutDone
  <2>13. CASE CutClientAccess(p)
    BY <2>13 DEF CutClientAccess, AccessDeleteByClientID
  <2>14. CASE CutClientRefresh(p)
    BY <2>14 DEF CutClientRefresh, RefreshDeleteByClientID, CutDone
  <2>15. CASE CleanupAccess(p)
    BY <2>15 DEF CleanupAccess, AccessDeleteExpired
  <2>16. CASE CleanupRefresh(p)
    <3>1. CASE RefreshDeleteExpired
      BY <2>16, <3>1 DEF CleanupRefresh, RefreshDeleteExpired
    <3>2. CASE UNCHANGED refreshTable
      BY <2>16, <3>2 DEF CleanupRefresh
    <3> QED
      BY <2>16, <3>1, <3>2 DEF CleanupRefresh
  <2> QED
    BY <1>3, <2>1, <2>2, <2>3, <2>4, <2>5, <2>6, <2>7, <2>8, <2>9, <2>10, <2>11, <2>12, <2>13, <2>14, <2>15, <2>16 DEF Step
<1>4. ASSUME NEW p \in Request, Abort(p) PROVE RowsInv'
  BY <1>4 DEF Abort
<1>5. CASE Expire
  BY <1>5 DEF Expire, RowExpires
<1>6. CASE UNCHANGED vars
  BY <1>6 DEF vars
<1> QED
  BY <1>1, <1>2, <1>3, <1>4, <1>5, <1>6 DEF Next

-----------------------------------------------------------------------------
\* A request knows what it read: the family it works in, the delivered refresh token it
\* rotates, and the tokens it has stored so far.
LEMMA RequestsNext == TypeOK /\ TypeOK' /\ RowsInv /\ RequestsInv /\ [Next]_vars => RequestsInv'
<1> SUFFICES ASSUME TypeOK, TypeOK', RowsInv, RequestsInv, [Next]_vars PROVE RequestsInv'
  OBVIOUS
<1> USE IdsAssumption DEF codeTable, accessTable, refreshTable, storeVars, history, locals, request, Goto, Continue, Begin, Return, Starts, AuthCodeDeleteRows, AccessDeleteRows, RefreshDeleteRows, RefreshExists, NoRow, TypeOK, StoreTypeOK, RequestTypeOK, Row, RowsInv, RequestsInv, Untouched, Issuing, Refreshing
<1>1. CASE Authorize
  BY <1>1 DEF Authorize, GenerateAuthorizationCode, AuthCodeCreate
<1>2. ASSUME NEW p \in Request, Start(p) PROVE RequestsInv'
  <2>1. CASE HandleAuthorizationCodeGrant(p)
    <3>1. ASSUME NEW f \in Code, NEW c \in Client, NEW proven \in BOOLEAN,
                 ExchangeAuthorizationCode(p, f, c, proven)
          PROVE  RequestsInv'
      <4> USE <2>1, <3>1 DEF HandleAuthorizationCodeGrant, ExchangeAuthorizationCode, AuthCodeConsume
      <4>1. CASE Begin(p, "deleteCode", "exchange", None, codeRow[f])
        BY <4>1
      <4>2. CASE Begin(p, "loadClient", "exchange", None, codeRow[f])
        BY <4>2
      <4>3. CASE UNCHANGED request
        BY <4>3
      <4> QED
        BY <4>1, <4>2, <4>3
    <3>2. ASSUME NEW f \in Code, ReplayedAuthorizationCode(p, f) PROVE RequestsInv'
      BY <2>1, <3>2, SMTT(30) DEF HandleAuthorizationCodeGrant, ReplayedAuthorizationCode
    <3> QED
      BY <2>1, <3>1, <3>2 DEF HandleAuthorizationCodeGrant
  <2>2. CASE HandleRefreshTokenGrant(p)
    <3> SUFFICES ASSUME NEW r \in RefreshId \cap delivered, NEW c \in Client,
                        NEW requested \in (SUBSET Scope) \cup {None}, RefreshTokens(p, r, c, requested)
                 PROVE  RequestsInv'
      BY <2>2 DEF HandleRefreshTokenGrant
    <3> DEFINE narrowed == [family |-> refreshRow[r].family, client |-> refreshRow[r].client,
                            user |-> refreshRow[r].user, scope |-> Narrowed(refreshRow[r], requested)]
    <3>0. UNCHANGED <<storeVars, delivered, history>> /\ pc[p] = "idle" /\ RefreshExists(r)
      BY <2>2 DEF HandleRefreshTokenGrant, RefreshTokens
    <3>1. CASE Begin(p, "revokeRefresh", "refresh", r, refreshRow[r])
      BY <3>0, <3>1
    <3>2. CASE Begin(p, "deleteExpiredRefresh", "refresh", r, refreshRow[r])
      BY <3>0, <3>2
    <3>3. CASE Begin(p, "loadClient", "refresh", r, narrowed)
      <4>1. narrowed.family = refreshRow[r].family
        OBVIOUS
      <4> HIDE DEF narrowed
      <4> QED
        BY <3>0, <3>3, <4>1
    <3> QED
      BY <3>1, <3>2, <3>3 DEF RefreshTokens
  <2>3. CASE HandleRevoke(p)
    <3>1. ASSUME NEW r \in RefreshId, NEW c \in Client, RevokeRefreshToken(p, r, c) PROVE RequestsInv'
      BY <2>3, <3>1 DEF HandleRevoke, RevokeRefreshToken
    <3>2. ASSUME NEW a \in AccessId, NEW c \in Client, RevokeAccessToken(a, c) PROVE RequestsInv'
      BY <3>2 DEF RevokeAccessToken, AccessDelete
    <3> QED
      BY <2>3, <3>1, <3>2 DEF HandleRevoke
  <2>4. CASE HandleClientCredentialsGrant(p)
    BY <2>4 DEF HandleClientCredentialsGrant, GenerateClientCredentialsTokens, AccessCreate
  <2>5. CASE HandleTokenExchangeGrant(p)
    BY <2>5 DEF HandleTokenExchangeGrant, ExchangeToken
  <2>6. CASE \E u \in User : RevokeUserCredentials(p, u)
    BY <2>6 DEF RevokeUserCredentials, AccessDeleteByUserID
  <2>7. CASE \E c \in Client : DeleteClient(p, c)
    BY <2>7 DEF DeleteClient, ClientDelete
  <2>8. CASE CleanupExpiredTokens(p)
    <3>1. CASE AuthCodeDeleteExpired
      BY <2>8, <3>1 DEF CleanupExpiredTokens, AuthCodeDeleteExpired
    <3>2. CASE UNCHANGED codeTable
      BY <2>8, <3>2 DEF CleanupExpiredTokens
    <3> QED
      BY <2>8, <3>1, <3>2 DEF CleanupExpiredTokens
  <2> QED
    BY <1>2, <2>1, <2>2, <2>3, <2>4, <2>5, <2>6, <2>7, <2>8 DEF Start
<1>3. ASSUME NEW p \in Request, Step(p) PROVE RequestsInv'
  <2>1. CASE DeleteExpiredCode(p)
    BY <2>1 DEF DeleteExpiredCode, AuthCodeDelete
  <2>2. CASE LoadClient(p)
    <3>1. CASE Continue(p, "storeAccess") /\ op[p] = "exchange"
      BY <2>2, <3>1 DEF LoadClient
    <3>2. CASE Continue(p, "claim") /\ op[p] # "exchange"
      BY <2>2, <3>2 DEF LoadClient
    <3>3. CASE Return(p)
      BY <2>2, <3>3 DEF LoadClient
    <3> QED
      BY <2>2, <3>1, <3>2, <3>3 DEF LoadClient
  <2>3. CASE \E a \in AccessId : StoreAccess(p, a)
    BY <2>3 DEF StoreAccess, AccessCreate
  <2>4. CASE \E r \in RefreshId : StoreRefresh(p, r)
    BY <2>4 DEF StoreRefresh, RefreshCreate
  <2>5. CASE Respond(p)
    BY <2>5 DEF Respond
  <2>6. CASE DeleteExpiredRefresh(p)
    BY <2>6 DEF DeleteExpiredRefresh, RefreshDelete
  <2>7. CASE ClaimRefresh(p)
    <3>1. CASE RefreshRevoke(tok[p]) /\ Continue(p, "storeAccess")
      BY <2>7, <3>1 DEF ClaimRefresh, RefreshRevoke
    <3>2. CASE Continue(p, "revokeRefresh") /\ UNCHANGED refreshTable
      BY <2>7, <3>2 DEF ClaimRefresh
    <3> QED
      BY <2>7, <3>1, <3>2 DEF ClaimRefresh
  <2>8. CASE ConfirmRefresh(p)
    <3>0. /\ newAccess[p] \in AccessId
          /\ newRefresh[p] \in RefreshId
          /\ newAccess[p] \notin RefreshId
          /\ newRefresh[p] \notin AccessId
          /\ access[newAccess[p]] # "none"
          /\ refresh[newRefresh[p]] # "none"
          /\ refreshRow[newRefresh[p]].family = row[p].family
          /\ accessRow[newAccess[p]].family = row[p].family
          /\ tok[p] \in RefreshId \cap delivered
          /\ refreshRow[tok[p]].family = row[p].family
      BY <2>8 DEF ConfirmRefresh
    <3>1. CASE delivered' = delivered \cup {newAccess[p], newRefresh[p]} /\ Return(p)
      BY <2>8, <3>0, <3>1 DEF ConfirmRefresh
    <3>2. CASE Continue(p, "revokeRefresh") /\ UNCHANGED delivered
      BY <2>8, <3>0, <3>2 DEF ConfirmRefresh
    <3> QED
      BY <2>8, <3>1, <3>2 DEF ConfirmRefresh
  <2>9. CASE RevokeRefreshFamily(p)
    <3>1. CASE RefreshDeleteByFamilyID(row[p].family)
      BY <2>9, <3>1 DEF RevokeRefreshFamily, RefreshDeleteByFamilyID
    <3>2. CASE Continue(p, "revokeAccess") /\ UNCHANGED refreshTable
      BY <2>9, <3>2 DEF RevokeRefreshFamily
    <3> QED
      BY <2>9, <3>1, <3>2 DEF RevokeRefreshFamily
  <2>10. CASE RevokeAccessFamily(p)
    BY <2>10 DEF RevokeAccessFamily, AccessDeleteByFamilyID
  <2>11. CASE \E a \in AccessId : StoreExchanged(p, a)
    BY <2>11 DEF StoreExchanged, AccessCreate
  <2>12. CASE CutUserRefresh(p)
    BY <2>12 DEF CutUserRefresh, RefreshDeleteByUserID, CutDone
  <2>13. CASE CutClientAccess(p)
    BY <2>13 DEF CutClientAccess, AccessDeleteByClientID
  <2>14. CASE CutClientRefresh(p)
    BY <2>14 DEF CutClientRefresh, RefreshDeleteByClientID, CutDone
  <2>15. CASE CleanupAccess(p)
    BY <2>15 DEF CleanupAccess, AccessDeleteExpired
  <2>16. CASE CleanupRefresh(p)
    <3>1. CASE RefreshDeleteExpired
      BY <2>16, <3>1 DEF CleanupRefresh, RefreshDeleteExpired
    <3>2. CASE UNCHANGED refreshTable
      BY <2>16, <3>2 DEF CleanupRefresh
    <3> QED
      BY <2>16, <3>1, <3>2 DEF CleanupRefresh
  <2> QED
    BY <1>3, <2>1, <2>2, <2>3, <2>4, <2>5, <2>6, <2>7, <2>8, <2>9, <2>10, <2>11, <2>12, <2>13, <2>14, <2>15, <2>16 DEF Step
<1>4. ASSUME NEW p \in Request, Abort(p) PROVE RequestsInv'
  BY <1>4 DEF Abort
<1>5. CASE Expire
  BY <1>5 DEF Expire, RowExpires
<1>6. CASE UNCHANGED vars
  BY <1>6 DEF vars
<1> QED
  BY <1>1, <1>2, <1>3, <1>4, <1>5, <1>6 DEF Next

-----------------------------------------------------------------------------
\* While a code is unused its family is empty: no request works in it and no
\* refresh token of it is stored, so the request that consumes it is alone.
LEMMA FreshCode ==
  ASSUME TypeOK, RowsInv, RequestsInv, NEW p \in Request, NEW f \in Code, code[f] = "fresh",
         Begin(p, "loadClient", "exchange", None, codeRow[f])
  PROVE  /\ row'[p].family = f /\ pc'[p] = "loadClient"
         /\ \A q \in Request \ {p} : /\ pc'[q] = pc[q] /\ op'[q] = op[q] /\ row'[q] = row[q]
                                     /\ newRefresh'[q] = newRefresh[q]
         /\ \A q \in Request \ {p} : Issuing(q) \/ Handing(q) \/ ExchangesCode(q) => row[q].family # f
         /\ \A r \in RefreshId : refresh[r] # "none" => refreshRow[r].family # f
         /\ \A r \in RefreshId \cap delivered : refreshRow[r].family # f
<1>1. row' = [row EXCEPT ![p] = codeRow[f]]
  BY DEF Begin
<1>2. codeRow[f].family = f /\ Untouched(f)
  BY DEF RowsInv, Untouched
<1>3. row'[p].family = f /\ pc'[p] = "loadClient"
  BY <1>1, <1>2 DEF TypeOK, RequestTypeOK, Begin, Goto
<1>4. \A q \in Request \ {p} : /\ pc'[q] = pc[q] /\ op'[q] = op[q] /\ row'[q] = row[q]
                               /\ newRefresh'[q] = newRefresh[q]
  BY DEF Begin, Goto, TypeOK, RequestTypeOK
<1>5. \A q \in Request : Issuing(q) \/ Handing(q) \/ ExchangesCode(q) => row[q].family # f
  BY <1>2 DEF RequestsInv, Issuing, Handing, ExchangesCode
<1>6. \A r \in RefreshId : refresh[r] # "none" => refreshRow[r].family # f
  BY <1>2 DEF RowsInv
<1> QED
  BY <1>3, <1>4, <1>5, <1>6 DEF RowsInv

\* The request that consumes a code becomes the one holder of its family.
LEMMA ConsumedCode ==
  ASSUME TypeOK, RowsInv, RequestsInv, NEW p \in Request, NEW f \in Code, code[f] = "fresh",
         Begin(p, "loadClient", "exchange", None, codeRow[f]),
         UNCHANGED <<refresh, refreshRow, delivered>>
  PROVE  /\ SingleHolder => SingleHolder'
         /\ ExchangeComesFirst => ExchangeComesFirst'
<1>1. \A q \in Request \ {p} : /\ Issuing(q)' => Issuing(q)
                               /\ Handing(q)' <=> Handing(q)
                               /\ ExchangesCode(q)' => ExchangesCode(q)
                               /\ row'[q] = row[q] /\ newRefresh'[q] = newRefresh[q]
  BY FreshCode DEF Issuing, Handing, ExchangesCode
<1>2. /\ \A q \in Request \ {p} : Issuing(q)' \/ Handing(q)' \/ ExchangesCode(q)'
                                    => row'[q].family # row'[p].family
      /\ \A r \in RefreshId : refresh'[r] # "none" => refreshRow'[r].family # row'[p].family
      /\ \A r \in RefreshId \cap delivered' : refreshRow'[r].family # row'[p].family
  BY <1>1, FreshCode
<1>3. ~Handing(p)'
  BY FreshCode DEF Handing
<1>4. SingleHolder => SingleHolder'
  BY <1>1, <1>2, <1>3 DEF SingleHolder, GrantNeverForks
<1>5. ExchangeComesFirst => ExchangeComesFirst'
  BY <1>1, <1>2 DEF ExchangeComesFirst
<1> QED
  BY <1>4, <1>5

-----------------------------------------------------------------------------
\* Requests that hold the next refresh token of their family, or the right to store it.
Holding(p) == Issuing(p) \/ Handing(p)

\* In this step no request gains such a right, stores such a token or hands it out,
HoldersCalm ==
  \A q \in Request : Holding(q)' =>
    /\ Holding(q) /\ (Handing(q)' <=> Handing(q))
    /\ row'[q] = row[q] /\ newRefresh'[q] = newRefresh[q]

\* and no refresh token becomes live or reaches a client.
TokensCalm ==
  \A r \in RefreshId :
    /\ refresh'[r] = "live" => refresh[r] = "live" /\ refreshRow'[r] = refreshRow[r]
    /\ r \in delivered' => r \in delivered

\* Such a step disturbs no holder.
LEMMA CalmHolders ==
  ASSUME RequestsInv, SingleHolder, HoldersCalm, TokensCalm
  PROVE  SingleHolder'
<1>1. \A p \in Request : (Issuing(p) \/ Handing(p))' =>
        /\ Issuing(p) \/ Handing(p)
        /\ Handing(p)' <=> Handing(p)
        /\ row'[p] = row[p] /\ newRefresh'[p] = newRefresh[p]
  BY DEF HoldersCalm, Holding
<1>2. \A r \in RefreshId : refresh'[r] = "live" => refresh[r] = "live" /\ refreshRow'[r] = refreshRow[r]
  BY DEF TokensCalm
<1>3. \A p \in Request : Handing(p) /\ newRefresh[p] \in delivered' => newRefresh[p] \in delivered
  BY DEF TokensCalm, RequestsInv, Handing
<1> QED
  BY <1>1, <1>2, <1>3 DEF SingleHolder, GrantNeverForks

\* A request that begins anything but the exchange of a code gains no right.
LEMMA BeginCalm ==
  ASSUME RequestTypeOK, NEW p \in Request, NEW next, NEW o, NEW t, NEW w, Begin(p, next, o, t, w),
         next \notin {"storeAccess", "storeRefresh", "respond", "confirm"},
         next = "loadClient" => o # "exchange"
  PROVE  HoldersCalm
<1>1. /\ \A q \in Request \ {p} : /\ pc'[q] = pc[q] /\ op'[q] = op[q] /\ row'[q] = row[q]
                                  /\ newRefresh'[q] = newRefresh[q]
      /\ pc'[p] = next /\ op'[p] = o
  BY DEF Begin, Goto, RequestTypeOK
<1> QED
  BY <1>1 DEF HoldersCalm, Holding, Issuing, Handing

\* A request that ends gives up what it had.
LEMMA ReturnCalm ==
  ASSUME RequestTypeOK, NEW p \in Request, Return(p)
  PROVE  HoldersCalm
  BY BeginCalm DEF Return

\* Nor does one that goes on to a statement that needs none, or that had it.
LEMMA ContinueCalm ==
  ASSUME RequestTypeOK, NEW p \in Request, NEW next, Continue(p, next),
         next \notin {"storeRefresh", "loadClient", "respond", "confirm"},
         next = "storeAccess" => Issuing(p) /\ ~Handing(p)
  PROVE  HoldersCalm
<1>1. /\ \A q \in Request : op'[q] = op[q] /\ row'[q] = row[q] /\ newRefresh'[q] = newRefresh[q]
      /\ \A q \in Request \ {p} : pc'[q] = pc[q]
      /\ pc'[p] = next
  BY DEF Continue, Goto, locals, RequestTypeOK
<1>2. \A q \in Request \ {p} : /\ Holding(q)' <=> Holding(q)
                               /\ Handing(q)' <=> Handing(q)
  BY <1>1 DEF Holding, Issuing, Handing
<1>3. Holding(p)' => Holding(p) /\ ~Handing(p) /\ ~Handing(p)'
  BY <1>1 DEF Holding, Issuing, Handing
<1> QED
  BY <1>1, <1>2, <1>3 DEF HoldersCalm

\* A step that no request takes part in changes no right.
LEMMA UnchangedCalm ==
  ASSUME UNCHANGED request
  PROVE  HoldersCalm
  BY DEF HoldersCalm, Holding, Issuing, Handing, request

\* Requests that arrive touch no refresh token.
LEMMA StartTokensCalm ==
  ASSUME NEW p \in Request, Start(p)
  PROVE  TokensCalm
<1>1. UNCHANGED refreshTable
  BY DEF Start, HandleAuthorizationCodeGrant, ExchangeAuthorizationCode, ReplayedAuthorizationCode,
     HandleRefreshTokenGrant, RefreshTokens, HandleRevoke, RevokeRefreshToken, RevokeAccessToken,
     HandleClientCredentialsGrant, GenerateClientCredentialsTokens, HandleTokenExchangeGrant, ExchangeToken,
     RevokeUserCredentials, DeleteClient, CleanupExpiredTokens, storeVars, refreshTable
<1>2. delivered' = delivered \/ \E a \in AccessId : delivered' = delivered \cup {a}
  BY DEF Start, HandleAuthorizationCodeGrant, ExchangeAuthorizationCode, ReplayedAuthorizationCode,
     HandleRefreshTokenGrant, RefreshTokens, HandleRevoke, RevokeRefreshToken, RevokeAccessToken,
     HandleClientCredentialsGrant, GenerateClientCredentialsTokens, HandleTokenExchangeGrant, ExchangeToken,
     RevokeUserCredentials, DeleteClient, CleanupExpiredTokens
<1> QED
  BY <1>1, <1>2, IdsAssumption DEF TokensCalm, refreshTable

\* Of the requests that arrive only the exchange of a fresh code gains a right.
LEMMA StartHolder ==
  ASSUME TypeOK, RowsInv, RequestsInv, SingleHolder, NEW p \in Request, Start(p)
  PROVE  SingleHolder'
<1> USE BeginCalm, UnchangedCalm DEF TypeOK
<1>1. CASE HoldersCalm
  BY <1>1, StartTokensCalm, CalmHolders
<1>2. CASE HandleAuthorizationCodeGrant(p)
  <2>1. ASSUME NEW f \in Code, NEW c \in Client, NEW proven \in BOOLEAN,
               ExchangeAuthorizationCode(p, f, c, proven)
        PROVE  SingleHolder'
    <3>1. code[f] = "fresh" /\ UNCHANGED <<refresh, refreshRow, delivered>>
      BY <2>1 DEF ExchangeAuthorizationCode, AuthCodeConsume, refreshTable
    <3>2. \/ Begin(p, "deleteCode", "exchange", None, codeRow[f])
          \/ Begin(p, "loadClient", "exchange", None, codeRow[f])
          \/ UNCHANGED request
      BY <2>1 DEF ExchangeAuthorizationCode
    <3>3. CASE Begin(p, "loadClient", "exchange", None, codeRow[f])
      BY <3>1, <3>3, ConsumedCode
    <3>4. CASE Begin(p, "deleteCode", "exchange", None, codeRow[f])
      BY <1>1, <3>4
    <3> QED
      BY <1>1, <3>2, <3>3, <3>4
  <2>2. ASSUME NEW f \in Code, ReplayedAuthorizationCode(p, f) PROVE HoldersCalm
    BY <2>2 DEF ReplayedAuthorizationCode
  <2> QED
    BY <1>1, <1>2, <2>1, <2>2 DEF HandleAuthorizationCodeGrant
<1>3. CASE HandleRefreshTokenGrant(p)
  <2> SUFFICES ASSUME NEW r \in RefreshId, NEW c \in Client,
                      NEW requested \in (SUBSET Scope) \cup {None}, RefreshTokens(p, r, c, requested)
               PROVE  HoldersCalm
    BY <1>1, <1>3 DEF HandleRefreshTokenGrant
  <2>1. \E next \in {"revokeRefresh", "deleteExpiredRefresh", "loadClient"} : \E t, w :
          Begin(p, next, "refresh", t, w)
    BY DEF RefreshTokens
  <2> QED
    BY <2>1
<1>4. CASE HandleRevoke(p)
  <2>1. ASSUME NEW r \in RefreshId, NEW c \in Client, RevokeRefreshToken(p, r, c) PROVE HoldersCalm
    BY <2>1 DEF RevokeRefreshToken
  <2>2. ASSUME NEW a \in AccessId, NEW c \in Client, RevokeAccessToken(a, c) PROVE HoldersCalm
    BY <2>2 DEF RevokeAccessToken
  <2> QED
    BY <1>1, <1>4, <2>1, <2>2 DEF HandleRevoke
<1>5. CASE HandleClientCredentialsGrant(p)
  BY <1>1, <1>5 DEF HandleClientCredentialsGrant, GenerateClientCredentialsTokens
<1>6. CASE HandleTokenExchangeGrant(p)
  <2> SUFFICES ASSUME NEW a \in AccessId, NEW c \in Client,
                      NEW requested \in (SUBSET Scope) \cup {None}, ExchangeToken(p, a, c, requested)
               PROVE  HoldersCalm
    BY <1>1, <1>6 DEF HandleTokenExchangeGrant
  <2>1. \E w : Begin(p, "storeExchanged", "none", None, w)
    BY DEF ExchangeToken
  <2> QED
    BY <2>1
<1>7. ASSUME NEW u \in User, RevokeUserCredentials(p, u) PROVE HoldersCalm
  BY <1>7 DEF RevokeUserCredentials
<1>8. ASSUME NEW c \in Client, DeleteClient(p, c) PROVE HoldersCalm
  BY <1>8 DEF DeleteClient
<1>9. CASE CleanupExpiredTokens(p)
  BY <1>1, <1>9 DEF CleanupExpiredTokens
<1> QED
  BY <1>1, <1>2, <1>3, <1>4, <1>5, <1>6, <1>7, <1>8, <1>9 DEF Start

\* The right is handed on with the token: stored by the request that held it,
LEMMA StoreHolder ==
  ASSUME TypeOK, RowsInv, RequestsInv, SingleHolder, NEW p \in Request, NEW r \in RefreshId,
         StoreRefresh(p, r)
  PROVE  SingleHolder'
<1>1. /\ pc[p] = "storeRefresh" /\ pc'[p] \in {"respond", "confirm"} /\ newRefresh'[p] = r
      /\ \A q \in Request : op'[q] = op[q] /\ row'[q] = row[q]
      /\ \A q \in Request \ {p} : pc'[q] = pc[q] /\ newRefresh'[q] = newRefresh[q]
  BY DEF StoreRefresh, Goto, TypeOK, RequestTypeOK
<1>2. /\ refresh[r] = "none" /\ refreshRow'[r] = row[p] /\ refresh'[r] = "live"
      /\ \A s \in RefreshId \ {r} : refresh'[s] = refresh[s] /\ refreshRow'[s] = refreshRow[s]
      /\ delivered' = delivered /\ r \notin delivered
  BY DEF StoreRefresh, RefreshCreate, TypeOK, StoreTypeOK, RowsInv
<1>3. Issuing(p) /\ ~Issuing(p)' /\ Handing(p)'
  BY <1>1 DEF Issuing, Handing
<1>4. \A q \in Request \ {p} : (Issuing(q)' <=> Issuing(q)) /\ (Handing(q)' <=> Handing(q))
  BY <1>1 DEF Issuing, Handing
<1>5. \A q, o \in Request : (Issuing(q) \/ Handing(q))' /\ (Issuing(o) \/ Handing(o))'
                              /\ row'[q].family = row'[o].family => q = o
  BY <1>1, <1>3, <1>4 DEF SingleHolder
<1>6. ASSUME NEW q \in Request, (Issuing(q) \/ Handing(q))', NEW s \in RefreshId,
             refresh'[s] = "live", refreshRow'[s].family = row'[q].family
      PROVE  Handing(q)' /\ s = newRefresh'[q]
  <2>1. CASE q = p
    <3>1. s = r
      BY <1>1, <1>2, <1>3, <1>6, <2>1 DEF SingleHolder, Handing
    <3> QED
      BY <1>1, <1>3, <2>1, <3>1
  <2>2. CASE q # p
    <3>1. s # r
      BY <1>1, <1>2, <1>3, <1>4, <1>6, <2>2 DEF SingleHolder
    <3> QED
      BY <1>1, <1>2, <1>4, <1>6, <2>2, <3>1 DEF SingleHolder
  <2> QED
    BY <2>1, <2>2
<1>7. \A q \in Request : Handing(q)' => newRefresh'[q] \notin delivered'
  BY <1>1, <1>2, <1>4 DEF SingleHolder
<1>8. GrantNeverForks'
  <2>1. \A s \in RefreshId \ {r} : refresh[s] = "live" => refreshRow[s].family # row[p].family
    BY <1>1, <1>3 DEF SingleHolder, Handing
  <2> QED
    BY <1>2, <2>1 DEF GrantNeverForks, SingleHolder
<1> QED
  BY <1>5, <1>6, <1>7, <1>8 DEF SingleHolder

\* given up as the token goes out,
LEMMA DeliveryHolder ==
  ASSUME TypeOK, RequestsInv, SingleHolder, NEW p \in Request, Handing(p), Return(p),
         UNCHANGED refreshTable, delivered' = delivered \cup {newAccess[p], newRefresh[p]}
  PROVE  SingleHolder'
<1>1. /\ \A q \in Request \ {p} : /\ pc'[q] = pc[q] /\ op'[q] = op[q] /\ row'[q] = row[q]
                                  /\ newRefresh'[q] = newRefresh[q]
      /\ pc'[p] = "idle"
  BY DEF Return, Begin, Goto, TypeOK, RequestTypeOK
<1>2. \A q \in Request : (Issuing(q) \/ Handing(q))' => q # p
  BY <1>1 DEF Issuing, Handing
<1>3. \A q \in Request \ {p} : (Issuing(q)' <=> Issuing(q)) /\ (Handing(q)' <=> Handing(q))
  BY <1>1 DEF Issuing, Handing
<1>4. ASSUME NEW q \in Request \ {p}, Handing(q) PROVE newRefresh[q] \notin delivered'
  <2>1. newRefresh[q] \in RefreshId /\ newAccess[p] \in AccessId
    BY <1>4 DEF RequestsInv, Handing
  <2>2. row[q].family # row[p].family
    BY <1>4 DEF SingleHolder
  <2>3. newRefresh[q] # newRefresh[p]
    BY <1>4, <2>2 DEF RequestsInv, Handing
  <2> QED
    BY <1>4, <2>1, <2>3, IdsAssumption DEF SingleHolder
<1>5. UNCHANGED <<refresh, refreshRow>>
  BY DEF refreshTable
<1> QED
  BY <1>1, <1>2, <1>3, <1>4, <1>5 DEF SingleHolder, GrantNeverForks

\* and taken by the request whose claim finds the token live.
LEMMA ClaimHolder ==
  ASSUME TypeOK, RowsInv, RequestsInv, SingleHolder, NEW p \in Request, pc[p] = "claim",
         RefreshRevoke(tok[p]), Continue(p, "storeAccess"), UNCHANGED delivered
  PROVE  SingleHolder'
<1>1. /\ \A q \in Request : op'[q] = op[q] /\ row'[q] = row[q] /\ newRefresh'[q] = newRefresh[q]
      /\ \A q \in Request \ {p} : pc'[q] = pc[q]
      /\ pc'[p] = "storeAccess"
  BY DEF Continue, Goto, locals, TypeOK, RequestTypeOK
<1>2. /\ tok[p] \in RefreshId \cap delivered /\ refreshRow[tok[p]].family = row[p].family
      /\ refresh[tok[p]] = "live"
  BY DEF RequestsInv, Refreshing, RefreshRevoke
<1>3. /\ refresh'[tok[p]] = "rotated"
      /\ \A s \in RefreshId \ {tok[p]} : refresh'[s] = refresh[s]
      /\ refreshRow' = refreshRow
  BY <1>2 DEF RefreshRevoke, TypeOK, StoreTypeOK
<1>4. /\ \A q \in Request \ {p} : (Issuing(q)' <=> Issuing(q)) /\ (Handing(q)' <=> Handing(q))
      /\ ~Handing(p)'
  BY <1>1 DEF Issuing, Handing
<1>5. \A q \in Request : Issuing(q) \/ Handing(q) => row[q].family # row[p].family
  BY <1>2 DEF SingleHolder
<1>6. \A q, o \in Request : (Issuing(q) \/ Handing(q))' /\ (Issuing(o) \/ Handing(o))'
                              /\ row'[q].family = row'[o].family => q = o
  BY <1>1, <1>4, <1>5 DEF SingleHolder
<1>7. ASSUME NEW q \in Request, (Issuing(q) \/ Handing(q))', NEW s \in RefreshId,
             refresh'[s] = "live", refreshRow'[s].family = row'[q].family
      PROVE  Handing(q)' /\ s = newRefresh'[q]
  <2>1. s # tok[p] /\ refresh[s] = "live" /\ refreshRow[s].family = row[q].family
    BY <1>1, <1>3, <1>7
  <2>2. q # p
    BY <1>2, <2>1 DEF SingleHolder, GrantNeverForks
  <2> QED
    BY <1>1, <1>4, <1>7, <2>1, <2>2 DEF SingleHolder
<1>8. \A q \in Request : Handing(q)' => newRefresh'[q] \notin delivered'
  BY <1>1, <1>4 DEF SingleHolder
<1>9. GrantNeverForks'
  BY <1>3 DEF GrantNeverForks, SingleHolder
<1> QED
  BY <1>6, <1>7, <1>8, <1>9 DEF SingleHolder

\* The steps of requests under way that do neither store, deliver nor claim a refresh token
\* touch refresh tokens only to delete them.
LEMMA StepTokensCalm ==
  ASSUME TypeOK, NEW p \in Request, Step(p), ~Respond(p), ~ConfirmRefresh(p), ~ClaimRefresh(p),
         ~\E r \in RefreshId : StoreRefresh(p, r)
  PROVE  TokensCalm
<1>1. CASE UNCHANGED <<refreshTable, delivered>>
  BY <1>1 DEF TokensCalm, refreshTable
<1>2. ASSUME NEW ids, RefreshDeleteRows(ids), delivered' = delivered PROVE TokensCalm
  BY <1>2 DEF TokensCalm, RefreshDeleteRows
<1>3. CASE RevokeRefreshFamily(p) \/ CutUserRefresh(p) \/ CutClientRefresh(p) \/ CleanupRefresh(p)
             \/ DeleteExpiredRefresh(p)
  BY <1>1, <1>2, <1>3
  DEF RevokeRefreshFamily, RefreshDeleteByFamilyID, CutUserRefresh, RefreshDeleteByUserID, CutClientRefresh,
      RefreshDeleteByClientID, CleanupRefresh, RefreshDeleteExpired, DeleteExpiredRefresh, RefreshDelete
<1>4. ASSUME NEW a \in AccessId, StoreExchanged(p, a) PROVE TokensCalm
  BY <1>4, IdsAssumption DEF StoreExchanged, TokensCalm, refreshTable
<1> QED
  BY <1>1, <1>3, <1>4
  DEF Step, DeleteExpiredCode, LoadClient, StoreAccess, RevokeAccessFamily, CutClientAccess, CleanupAccess,
      storeVars, refreshTable

\* Such steps gain no right either.
LEMMA StepHoldersCalm ==
  ASSUME TypeOK, RequestsInv, NEW p \in Request, Step(p), ~Respond(p), ~ConfirmRefresh(p), ~ClaimRefresh(p),
         ~\E r \in RefreshId : StoreRefresh(p, r)
  PROVE  HoldersCalm
<1> USE ReturnCalm, ContinueCalm DEF TypeOK
<1>1. CASE DeleteExpiredCode(p) \/ DeleteExpiredRefresh(p) \/ RevokeAccessFamily(p) \/ CutUserRefresh(p)
             \/ CutClientRefresh(p) \/ CleanupRefresh(p) \/ \E a \in AccessId : StoreExchanged(p, a)
  <2>1. Return(p)
    BY <1>1 DEF DeleteExpiredCode, DeleteExpiredRefresh, RevokeAccessFamily, CutUserRefresh,
       CutClientRefresh, CleanupRefresh, StoreExchanged
  <2> QED
    BY <2>1
<1>2. CASE LoadClient(p)
  <2>1. CASE Continue(p, "storeAccess") /\ op[p] = "exchange"
    BY <1>2, <2>1 DEF LoadClient, Issuing, Handing
  <2>2. CASE Continue(p, "claim") \/ Return(p)
    BY <2>2
  <2> QED
    BY <1>2, <2>1, <2>2 DEF LoadClient
<1>3. ASSUME NEW a \in AccessId, StoreAccess(p, a) PROVE HoldersCalm
  <2>1. /\ pc[p] = "storeAccess" /\ pc'[p] = "storeRefresh"
        /\ \A q \in Request : op'[q] = op[q] /\ row'[q] = row[q] /\ newRefresh'[q] = newRefresh[q]
        /\ \A q \in Request \ {p} : pc'[q] = pc[q]
    BY <1>3 DEF StoreAccess, Goto, RequestTypeOK
  <2> QED
    BY <2>1 DEF HoldersCalm, Holding, Issuing, Handing
<1>4. CASE RevokeRefreshFamily(p)
  <2>1. /\ \A q \in Request : op'[q] = op[q] /\ row'[q] = row[q] /\ newRefresh'[q] = newRefresh[q]
        /\ \A q \in Request \ {p} : pc'[q] = pc[q]
        /\ pc'[p] = "revokeAccess"
    BY <1>4 DEF RevokeRefreshFamily, Continue, locals, Goto, RequestTypeOK
  <2> QED
    BY <2>1 DEF HoldersCalm, Holding, Issuing, Handing
<1>5. CASE CutClientAccess(p) \/ CleanupAccess(p)
  <2>1. Continue(p, "cutClientRefresh") \/ Continue(p, "cleanRefresh")
    BY <1>5 DEF CutClientAccess, CleanupAccess
  <2> QED
    BY <2>1
<1> QED
  BY <1>1, <1>2, <1>3, <1>4, <1>5 DEF Step

\* The right to store and hand out the next refresh token of a family is handed from the code
\* to the request that consumed it, to the client with the token, to the request that claims it.
LEMMA SingleHolderNext ==
  TypeOK /\ RowsInv /\ RequestsInv /\ SingleHolder /\ [Next]_vars => SingleHolder'
<1> SUFFICES ASSUME TypeOK, RowsInv, RequestsInv, SingleHolder, [Next]_vars PROVE SingleHolder'
  OBVIOUS
<1>1. ASSUME NEW p \in Request, Start(p) PROVE SingleHolder'
  BY <1>1, StartHolder
<1>2. ASSUME NEW p \in Request, Step(p) PROVE SingleHolder'
  <2>1. CASE \E r \in RefreshId : StoreRefresh(p, r)
    BY <2>1, StoreHolder
  <2>2. CASE Respond(p)
    BY <2>2, DeliveryHolder DEF Respond, Handing, storeVars, refreshTable
  <2>3. CASE ConfirmRefresh(p)
    <3>1. CASE delivered' = delivered \cup {newAccess[p], newRefresh[p]} /\ Return(p)
      BY <2>3, <3>1, DeliveryHolder DEF ConfirmRefresh, Handing, storeVars, refreshTable
    <3>2. CASE Continue(p, "revokeRefresh") /\ UNCHANGED delivered
      <4>1. HoldersCalm
        BY <3>2, ContinueCalm DEF TypeOK
      <4>2. TokensCalm
        BY <2>3, <3>2 DEF ConfirmRefresh, TokensCalm, storeVars
      <4> QED
        BY <4>1, <4>2, CalmHolders
    <3> QED
      BY <2>3, <3>1, <3>2 DEF ConfirmRefresh
  <2>4. CASE ClaimRefresh(p)
    <3>1. CASE RefreshRevoke(tok[p]) /\ Continue(p, "storeAccess")
      BY <2>4, <3>1, ClaimHolder DEF ClaimRefresh
    <3>2. CASE Continue(p, "revokeRefresh") /\ UNCHANGED refreshTable
      <4>1. HoldersCalm
        BY <3>2, ContinueCalm DEF TypeOK
      <4>2. TokensCalm
        BY <2>4, <3>2 DEF ClaimRefresh, TokensCalm, refreshTable
      <4> QED
        BY <4>1, <4>2, CalmHolders
    <3> QED
      BY <2>4, <3>1, <3>2 DEF ClaimRefresh
  <2> QED
    BY <1>2, <2>1, <2>2, <2>3, <2>4, StepTokensCalm, StepHoldersCalm, CalmHolders
<1>3. ASSUME NEW p \in Request, Abort(p) PROVE SingleHolder'
  <2>1. HoldersCalm /\ TokensCalm
    BY <1>3, ReturnCalm DEF Abort, TypeOK, TokensCalm, storeVars
  <2> QED
    BY <2>1, CalmHolders
<1>4. CASE Authorize \/ Expire \/ UNCHANGED vars
  <2>1. UNCHANGED <<request, refresh, refreshRow, delivered>>
    BY <1>4 DEF Authorize, GenerateAuthorizationCode, Expire, vars, storeVars, refreshTable
  <2> QED
    BY <2>1, UnchangedCalm, CalmHolders DEF TokensCalm
<1> QED
  BY <1>1, <1>2, <1>3, <1>4 DEF Next

-----------------------------------------------------------------------------
\* The exchange of a code is over before any refresh token of its family is handed out.
LEMMA ExchangeFirstNext == TypeOK /\ TypeOK' /\ RowsInv /\ RequestsInv /\ ExchangeComesFirst /\ [Next]_vars => ExchangeComesFirst'
<1> SUFFICES ASSUME TypeOK, TypeOK', RowsInv, RequestsInv, ExchangeComesFirst, [Next]_vars PROVE ExchangeComesFirst'
  OBVIOUS
<1> USE IdsAssumption DEF codeTable, accessTable, refreshTable, storeVars, history, locals, request, Goto, Continue, Begin, Return, Starts, AuthCodeDeleteRows, AccessDeleteRows, RefreshDeleteRows, RefreshExists, NoRow, TypeOK, StoreTypeOK, RequestTypeOK, Row, RowsInv, RequestsInv, Untouched, Issuing, Refreshing, ExchangeComesFirst, ExchangesCode
<1>1. CASE Authorize
  BY <1>1 DEF Authorize, GenerateAuthorizationCode, AuthCodeCreate
<1>2. ASSUME NEW p \in Request, Start(p) PROVE ExchangeComesFirst'
  <2>1. CASE HandleAuthorizationCodeGrant(p)
    <3>1. ASSUME NEW f \in Code, NEW c \in Client, NEW proven \in BOOLEAN,
                 ExchangeAuthorizationCode(p, f, c, proven)
          PROVE  ExchangeComesFirst'
      <4> USE <2>1, <3>1 DEF HandleAuthorizationCodeGrant, ExchangeAuthorizationCode, AuthCodeConsume
      <4>1. CASE Begin(p, "deleteCode", "exchange", None, codeRow[f])
        BY <4>1
      <4>2. CASE Begin(p, "loadClient", "exchange", None, codeRow[f])
        <5>1. code[f] = "fresh" /\ UNCHANGED <<refresh, refreshRow, delivered>>
          OBVIOUS
        <5> HIDE DEF TypeOK, RowsInv, RequestsInv, ExchangeComesFirst, Begin
        <5> QED
          BY <4>2, <5>1, ConsumedCode
      <4>3. CASE UNCHANGED request
        BY <4>3
      <4> QED
        BY <4>1, <4>2, <4>3
    <3>2. ASSUME NEW f \in Code, ReplayedAuthorizationCode(p, f) PROVE ExchangeComesFirst'
      BY <2>1, <3>2 DEF HandleAuthorizationCodeGrant, ReplayedAuthorizationCode
    <3> QED
      BY <2>1, <3>1, <3>2 DEF HandleAuthorizationCodeGrant
  <2>2. CASE HandleRefreshTokenGrant(p)
    <3> SUFFICES ASSUME NEW r \in RefreshId \cap delivered, NEW c \in Client,
                        NEW requested \in (SUBSET Scope) \cup {None}, RefreshTokens(p, r, c, requested)
                 PROVE  ExchangeComesFirst'
      BY <2>2 DEF HandleRefreshTokenGrant
    <3> DEFINE narrowed == [family |-> refreshRow[r].family, client |-> refreshRow[r].client,
                            user |-> refreshRow[r].user, scope |-> Narrowed(refreshRow[r], requested)]
    <3>0. UNCHANGED <<storeVars, delivered, history>> /\ pc[p] = "idle" /\ RefreshExists(r)
      BY <2>2 DEF HandleRefreshTokenGrant, RefreshTokens
    <3>1. CASE Begin(p, "revokeRefresh", "refresh", r, refreshRow[r])
      BY <3>0, <3>1
    <3>2. CASE Begin(p, "deleteExpiredRefresh", "refresh", r, refreshRow[r])
      BY <3>0, <3>2
    <3>3. CASE Begin(p, "loadClient", "refresh", r, narrowed)
      <4>1. narrowed.family = refreshRow[r].family
        OBVIOUS
      <4> HIDE DEF narrowed
      <4> QED
        BY <3>0, <3>3, <4>1
    <3> QED
      BY <3>1, <3>2, <3>3 DEF RefreshTokens
  <2>3. CASE HandleRevoke(p)
    <3>1. ASSUME NEW r \in RefreshId, NEW c \in Client, RevokeRefreshToken(p, r, c) PROVE ExchangeComesFirst'
      BY <2>3, <3>1 DEF HandleRevoke, RevokeRefreshToken
    <3>2. ASSUME NEW a \in AccessId, NEW c \in Client, RevokeAccessToken(a, c) PROVE ExchangeComesFirst'
      BY <3>2 DEF RevokeAccessToken, AccessDelete
    <3> QED
      BY <2>3, <3>1, <3>2 DEF HandleRevoke
  <2>4. CASE HandleClientCredentialsGrant(p)
    BY <2>4 DEF HandleClientCredentialsGrant, GenerateClientCredentialsTokens, AccessCreate
  <2>5. CASE HandleTokenExchangeGrant(p)
    BY <2>5 DEF HandleTokenExchangeGrant, ExchangeToken
  <2>6. CASE \E u \in User : RevokeUserCredentials(p, u)
    BY <2>6 DEF RevokeUserCredentials, AccessDeleteByUserID
  <2>7. CASE \E c \in Client : DeleteClient(p, c)
    BY <2>7 DEF DeleteClient, ClientDelete
  <2>8. CASE CleanupExpiredTokens(p)
    <3>1. CASE AuthCodeDeleteExpired
      BY <2>8, <3>1 DEF CleanupExpiredTokens, AuthCodeDeleteExpired
    <3>2. CASE UNCHANGED codeTable
      BY <2>8, <3>2 DEF CleanupExpiredTokens
    <3> QED
      BY <2>8, <3>1, <3>2 DEF CleanupExpiredTokens
  <2> QED
    BY <1>2, <2>1, <2>2, <2>3, <2>4, <2>5, <2>6, <2>7, <2>8 DEF Start
<1>3. ASSUME NEW p \in Request, Step(p) PROVE ExchangeComesFirst'
  <2>1. CASE DeleteExpiredCode(p)
    BY <2>1 DEF DeleteExpiredCode, AuthCodeDelete
  <2>2. CASE LoadClient(p)
    <3>1. CASE Continue(p, "storeAccess") /\ op[p] = "exchange"
      BY <2>2, <3>1 DEF LoadClient
    <3>2. CASE Continue(p, "claim") /\ op[p] # "exchange"
      BY <2>2, <3>2 DEF LoadClient
    <3>3. CASE Return(p)
      BY <2>2, <3>3 DEF LoadClient
    <3> QED
      BY <2>2, <3>1, <3>2, <3>3 DEF LoadClient
  <2>3. CASE \E a \in AccessId : StoreAccess(p, a)
    BY <2>3 DEF StoreAccess, AccessCreate
  <2>4. CASE \E r \in RefreshId : StoreRefresh(p, r)
    BY <2>4 DEF StoreRefresh, RefreshCreate
  <2>5. CASE Respond(p)
    BY <2>5 DEF Respond
  <2>6. CASE DeleteExpiredRefresh(p)
    BY <2>6 DEF DeleteExpiredRefresh, RefreshDelete
  <2>7. CASE ClaimRefresh(p)
    <3>1. CASE RefreshRevoke(tok[p]) /\ Continue(p, "storeAccess")
      BY <2>7, <3>1 DEF ClaimRefresh, RefreshRevoke
    <3>2. CASE Continue(p, "revokeRefresh") /\ UNCHANGED refreshTable
      BY <2>7, <3>2 DEF ClaimRefresh
    <3> QED
      BY <2>7, <3>1, <3>2 DEF ClaimRefresh
  <2>8. CASE ConfirmRefresh(p)
    <3>0. /\ newAccess[p] \in AccessId
          /\ newRefresh[p] \in RefreshId
          /\ newAccess[p] \notin RefreshId
          /\ newRefresh[p] \notin AccessId
          /\ access[newAccess[p]] # "none"
          /\ refresh[newRefresh[p]] # "none"
          /\ refreshRow[newRefresh[p]].family = row[p].family
          /\ accessRow[newAccess[p]].family = row[p].family
          /\ tok[p] \in RefreshId \cap delivered
          /\ refreshRow[tok[p]].family = row[p].family
      BY <2>8 DEF ConfirmRefresh
    <3>1. CASE delivered' = delivered \cup {newAccess[p], newRefresh[p]} /\ Return(p)
      BY <2>8, <3>0, <3>1 DEF ConfirmRefresh
    <3>2. CASE Continue(p, "revokeRefresh") /\ UNCHANGED delivered
      BY <2>8, <3>0, <3>2 DEF ConfirmRefresh
    <3> QED
      BY <2>8, <3>1, <3>2 DEF ConfirmRefresh
  <2>9. CASE RevokeRefreshFamily(p)
    <3>1. \A q \in Request : ExchangesCode(q)' => ExchangesCode(q) /\ row'[q] = row[q]
      BY <2>9 DEF RevokeRefreshFamily
    <3>2. UNCHANGED <<refreshRow, delivered>>
      BY <2>9 DEF RevokeRefreshFamily, RefreshDeleteByFamilyID
    <3> QED
      BY <3>1, <3>2
  <2>10. CASE RevokeAccessFamily(p)
    BY <2>10 DEF RevokeAccessFamily, AccessDeleteByFamilyID
  <2>11. CASE \E a \in AccessId : StoreExchanged(p, a)
    BY <2>11 DEF StoreExchanged, AccessCreate
  <2>12. CASE CutUserRefresh(p)
    BY <2>12 DEF CutUserRefresh, RefreshDeleteByUserID, CutDone
  <2>13. CASE CutClientAccess(p)
    BY <2>13 DEF CutClientAccess, AccessDeleteByClientID
  <2>14. CASE CutClientRefresh(p)
    BY <2>14 DEF CutClientRefresh, RefreshDeleteByClientID, CutDone
  <2>15. CASE CleanupAccess(p)
    BY <2>15 DEF CleanupAccess, AccessDeleteExpired
  <2>16. CASE CleanupRefresh(p)
    <3>1. CASE RefreshDeleteExpired
      BY <2>16, <3>1 DEF CleanupRefresh, RefreshDeleteExpired
    <3>2. CASE UNCHANGED refreshTable
      BY <2>16, <3>2 DEF CleanupRefresh
    <3> QED
      BY <2>16, <3>1, <3>2 DEF CleanupRefresh
  <2> QED
    BY <1>3, <2>1, <2>2, <2>3, <2>4, <2>5, <2>6, <2>7, <2>8, <2>9, <2>10, <2>11, <2>12, <2>13, <2>14, <2>15, <2>16 DEF Step
<1>4. ASSUME NEW p \in Request, Abort(p) PROVE ExchangeComesFirst'
  BY <1>4 DEF Abort
<1>5. CASE Expire
  BY <1>5 DEF Expire, RowExpires
<1>6. CASE UNCHANGED vars
  BY <1>6 DEF vars
<1> QED
  BY <1>1, <1>2, <1>3, <1>4, <1>5, <1>6 DEF Next

-----------------------------------------------------------------------------
\* Once the refresh tokens of a family are gone, no request can bring one back to a client:
\* a rotation of it confirms its claim after storing, finds it gone and hands nothing out.
LEMMA RevocationNext == TypeOK /\ TypeOK' /\ RowsInv /\ RequestsInv /\ ExchangeComesFirst /\ RevocationInv /\ [Next]_vars => RevocationInv'
<1> SUFFICES ASSUME TypeOK, TypeOK', RowsInv, RequestsInv, ExchangeComesFirst, RevocationInv, [Next]_vars PROVE RevocationInv'
  OBVIOUS
<1> USE IdsAssumption DEF codeTable, accessTable, refreshTable, storeVars, history, locals, request, Goto, Continue, Begin, Return, Starts, AuthCodeDeleteRows, AccessDeleteRows, RefreshDeleteRows, RefreshExists, NoRow, TypeOK, StoreTypeOK, RequestTypeOK, Row, RowsInv, RequestsInv, Untouched, Issuing, Refreshing, ExchangeComesFirst, ExchangesCode, Exchanging, RevocationInv, RevokedGrantStaysDead, Dead, Closed
<1>1. CASE Authorize
  BY <1>1 DEF Authorize, GenerateAuthorizationCode, AuthCodeCreate
<1>2. ASSUME NEW p \in Request, Start(p) PROVE RevocationInv'
  <2>1. CASE HandleAuthorizationCodeGrant(p)
    <3>1. ASSUME NEW f \in Code, NEW c \in Client, NEW proven \in BOOLEAN,
                 ExchangeAuthorizationCode(p, f, c, proven)
          PROVE  RevocationInv'
      <4> USE <2>1, <3>1 DEF HandleAuthorizationCodeGrant, ExchangeAuthorizationCode, AuthCodeConsume
      <4>1. CASE Begin(p, "deleteCode", "exchange", None, codeRow[f])
        <5>1. ASSUME NEW g \in Code, Closed(g) PROVE Closed(g)'
          BY <4>1, <5>1
        <5>2. ASSUME NEW q \in Request, (pc[q] = "revokeAccess" /\ gone[q] = "settled")'
              PROVE  Closed(row[q].family)'
          <6>1. pc[q] = "revokeAccess" /\ gone[q] = "settled" /\ row'[q] = row[q]
            BY <4>1, <5>2
          <6> HIDE DEF Closed
          <6> QED
            BY <5>1, <6>1
        <5>3. \A g \in Code : Dead(g) => Dead(g)'
          BY <4>1
        <5> HIDE DEF Closed, Dead
        <5> QED
          BY <5>1, <5>2, <5>3
      <4>2. CASE Begin(p, "loadClient", "exchange", None, codeRow[f])
        <5>1. ASSUME NEW g \in Code, Closed(g) PROVE Closed(g)'
          <6>1. g # f /\ ~Untouched(g)' /\ codeRow[f].family = f
            BY <5>1
          <6>2. \A q \in Request : ~Exchanging(q, g)'
            <7>1. \A q \in Request \ {p} : pc'[q] = pc[q] /\ op'[q] = op[q] /\ row'[q] = row[q]
              BY <4>2
            <7>2. row'[p].family = f
              BY <4>2, <6>1
            <7> HIDE DEF TypeOK, RowsInv, RequestsInv, ExchangeComesFirst, RevocationInv, ExchangeAuthorizationCode
            <7>3. ~Exchanging(p, g)'
              BY <6>1, <7>2
            <7>4. ASSUME NEW q \in Request \ {p} PROVE Exchanging(q, g)' => Exchanging(q, g)
              BY <7>1
            <7>5. \A q \in Request : ~Exchanging(q, g)
              BY <5>1
            <7> HIDE DEF Exchanging
            <7> QED
              BY <7>3, <7>4, <7>5
          <6> QED
            BY <5>1, <6>1, <6>2
        <5>2. ASSUME NEW q \in Request, (pc[q] = "revokeAccess" /\ gone[q] = "settled")'
              PROVE  Closed(row[q].family)'
          <6>1. pc[q] = "revokeAccess" /\ gone[q] = "settled" /\ row'[q] = row[q]
            BY <4>2, <5>2
          <6> HIDE DEF Closed
          <6> QED
            BY <5>1, <6>1
        <5>3. \A g \in Code : Dead(g) => Dead(g)'
          BY <4>2
        <5> HIDE DEF Closed, Dead
        <5> QED
          BY <5>1, <5>2, <5>3
      <4>3. CASE UNCHANGED request
        BY <4>3
      <4> QED
        BY <4>1, <4>2, <4>3
    <3>2. ASSUME NEW f \in Code, ReplayedAuthorizationCode(p, f) PROVE RevocationInv'
      BY <2>1, <3>2 DEF HandleAuthorizationCodeGrant, ReplayedAuthorizationCode
    <3> QED
      BY <2>1, <3>1, <3>2 DEF HandleAuthorizationCodeGrant
  <2>2. CASE HandleRefreshTokenGrant(p)
    <3> SUFFICES ASSUME NEW r \in RefreshId \cap delivered, NEW c \in Client,
                        NEW requested \in (SUBSET Scope) \cup {None}, RefreshTokens(p, r, c, requested)
                 PROVE  RevocationInv'
      BY <2>2 DEF HandleRefreshTokenGrant
    <3> DEFINE narrowed == [family |-> refreshRow[r].family, client |-> refreshRow[r].client,
                            user |-> refreshRow[r].user, scope |-> Narrowed(refreshRow[r], requested)]
    <3>0. UNCHANGED <<storeVars, delivered, history>> /\ pc[p] = "idle" /\ RefreshExists(r)
      BY <2>2 DEF HandleRefreshTokenGrant, RefreshTokens
    <3>1. CASE Begin(p, "revokeRefresh", "refresh", r, refreshRow[r])
      BY <3>0, <3>1
    <3>2. CASE Begin(p, "deleteExpiredRefresh", "refresh", r, refreshRow[r])
      BY <3>0, <3>2
    <3>3. CASE Begin(p, "loadClient", "refresh", r, narrowed)
      <4>1. narrowed.family = refreshRow[r].family
        OBVIOUS
      <4> HIDE DEF narrowed
      <4> QED
        BY <3>0, <3>3, <4>1
    <3> QED
      BY <3>1, <3>2, <3>3 DEF RefreshTokens
  <2>3. CASE HandleRevoke(p)
    <3>1. ASSUME NEW r \in RefreshId, NEW c \in Client, RevokeRefreshToken(p, r, c) PROVE RevocationInv'
      BY <2>3, <3>1 DEF HandleRevoke, RevokeRefreshToken
    <3>2. ASSUME NEW a \in AccessId, NEW c \in Client, RevokeAccessToken(a, c) PROVE RevocationInv'
      BY <3>2 DEF RevokeAccessToken, AccessDelete
    <3> QED
      BY <2>3, <3>1, <3>2 DEF HandleRevoke
  <2>4. CASE HandleClientCredentialsGrant(p)
    BY <2>4 DEF HandleClientCredentialsGrant, GenerateClientCredentialsTokens, AccessCreate
  <2>5. CASE HandleTokenExchangeGrant(p)
    BY <2>5 DEF HandleTokenExchangeGrant, ExchangeToken
  <2>6. CASE \E u \in User : RevokeUserCredentials(p, u)
    BY <2>6 DEF RevokeUserCredentials, AccessDeleteByUserID
  <2>7. CASE \E c \in Client : DeleteClient(p, c)
    BY <2>7 DEF DeleteClient, ClientDelete
  <2>8. CASE CleanupExpiredTokens(p)
    <3>1. CASE AuthCodeDeleteExpired
      BY <2>8, <3>1 DEF CleanupExpiredTokens, AuthCodeDeleteExpired
    <3>2. CASE UNCHANGED codeTable
      BY <2>8, <3>2 DEF CleanupExpiredTokens
    <3> QED
      BY <2>8, <3>1, <3>2 DEF CleanupExpiredTokens
  <2> QED
    BY <1>2, <2>1, <2>2, <2>3, <2>4, <2>5, <2>6, <2>7, <2>8 DEF Start
<1>3. ASSUME NEW p \in Request, Step(p) PROVE RevocationInv'
  <2>1. CASE DeleteExpiredCode(p)
    BY <2>1 DEF DeleteExpiredCode, AuthCodeDelete
  <2>2. CASE LoadClient(p)
    <3>1. CASE Continue(p, "storeAccess") /\ op[p] = "exchange"
      BY <2>2, <3>1 DEF LoadClient
    <3>2. CASE Continue(p, "claim") /\ op[p] # "exchange"
      BY <2>2, <3>2 DEF LoadClient
    <3>3. CASE Return(p)
      BY <2>2, <3>3 DEF LoadClient
    <3> QED
      BY <2>2, <3>1, <3>2, <3>3 DEF LoadClient
  <2>3. CASE \E a \in AccessId : StoreAccess(p, a)
    BY <2>3 DEF StoreAccess, AccessCreate
  <2>4. CASE \E r \in RefreshId : StoreRefresh(p, r)
    BY <2>4 DEF StoreRefresh, RefreshCreate
  <2>5. CASE Respond(p)
    BY <2>5 DEF Respond
  <2>6. CASE DeleteExpiredRefresh(p)
    BY <2>6 DEF DeleteExpiredRefresh, RefreshDelete
  <2>7. CASE ClaimRefresh(p)
    <3>1. CASE RefreshRevoke(tok[p]) /\ Continue(p, "storeAccess")
      BY <2>7, <3>1 DEF ClaimRefresh, RefreshRevoke
    <3>2. CASE Continue(p, "revokeRefresh") /\ UNCHANGED refreshTable
      BY <2>7, <3>2 DEF ClaimRefresh
    <3> QED
      BY <2>7, <3>1, <3>2 DEF ClaimRefresh
  <2>8. CASE ConfirmRefresh(p)
    <3>0. /\ newAccess[p] \in AccessId
          /\ newRefresh[p] \in RefreshId
          /\ newAccess[p] \notin RefreshId
          /\ newRefresh[p] \notin AccessId
          /\ access[newAccess[p]] # "none"
          /\ refresh[newRefresh[p]] # "none"
          /\ refreshRow[newRefresh[p]].family = row[p].family
          /\ accessRow[newAccess[p]].family = row[p].family
          /\ tok[p] \in RefreshId \cap delivered
          /\ refreshRow[tok[p]].family = row[p].family
      BY <2>8 DEF ConfirmRefresh
    <3>1. CASE delivered' = delivered \cup {newAccess[p], newRefresh[p]} /\ Return(p)
      BY <2>8, <3>0, <3>1, SMTT(30) DEF ConfirmRefresh
    <3>2. CASE Continue(p, "revokeRefresh") /\ UNCHANGED delivered
      BY <2>8, <3>0, <3>2 DEF ConfirmRefresh
    <3> QED
      BY <2>8, <3>1, <3>2 DEF ConfirmRefresh
  <2>9. CASE RevokeRefreshFamily(p)
    <3>1. /\ \A f \in Code : Closed(f) => Closed(f)'
          /\ UNCHANGED <<codeTable, accessTable, delivered, row, revocation>>
          /\ pc' = [pc EXCEPT ![p] = "revokeAccess"]
      BY <2>9 DEF RevokeRefreshFamily, RefreshDeleteByFamilyID
    <3>2. RevokedGrantStaysDead'
      BY <2>9, <3>1 DEF RevokeRefreshFamily, RefreshDeleteByFamilyID
    <3>3. \A q \in Request \ {p} : gone'[q] = gone[q]
      BY <2>9 DEF RevokeRefreshFamily
    <3>4. gone'[p] = "settled" => Closed(row[p].family)'
      <4>1. CASE RefreshDeleteByFamilyID(row[p].family)
        <5> SUFFICES ASSUME gone'[p] = "settled" PROVE Closed(row[p].family)'
          OBVIOUS
        <5>1. row[p].family \in Code /\ ~Untouched(row[p].family)'
          BY <2>9 DEF RevokeRefreshFamily
        <5>2. \A q \in Request : ~Exchanging(q, row[p].family)
          BY <2>9, SMTT(30) DEF RevokeRefreshFamily
        <5>3. \A q \in Request : ~Exchanging(q, row[p].family)'
          BY <2>9, <3>1, <5>2 DEF RevokeRefreshFamily
        <5>4. \A r \in RefreshId : refreshRow'[r].family = row[p].family => ~RefreshExists(r)'
          BY <4>1 DEF RefreshDeleteByFamilyID
        <5> QED
          BY <3>1, <5>1, <5>3, <5>4
      <4>2. CASE Continue(p, "revokeAccess") /\ UNCHANGED refreshTable
        BY <2>9, <4>2 DEF RevokeRefreshFamily
      <4> QED
        BY <2>9, <4>1, <4>2 DEF RevokeRefreshFamily
    <3> HIDE DEF Closed, RevokedGrantStaysDead
    <3> QED
      BY <3>1, <3>2, <3>3, <3>4
  <2>10. CASE RevokeAccessFamily(p)
    BY <2>10, SMTT(30) DEF RevokeAccessFamily, AccessDeleteByFamilyID
  <2>11. CASE \E a \in AccessId : StoreExchanged(p, a)
    BY <2>11 DEF StoreExchanged, AccessCreate
  <2>12. CASE CutUserRefresh(p)
    BY <2>12 DEF CutUserRefresh, RefreshDeleteByUserID, CutDone
  <2>13. CASE CutClientAccess(p)
    BY <2>13 DEF CutClientAccess, AccessDeleteByClientID
  <2>14. CASE CutClientRefresh(p)
    BY <2>14 DEF CutClientRefresh, RefreshDeleteByClientID, CutDone
  <2>15. CASE CleanupAccess(p)
    BY <2>15 DEF CleanupAccess, AccessDeleteExpired
  <2>16. CASE CleanupRefresh(p)
    <3>1. CASE RefreshDeleteExpired
      BY <2>16, <3>1 DEF CleanupRefresh, RefreshDeleteExpired
    <3>2. CASE UNCHANGED refreshTable
      BY <2>16, <3>2 DEF CleanupRefresh
    <3> QED
      BY <2>16, <3>1, <3>2 DEF CleanupRefresh
  <2> QED
    BY <1>3, <2>1, <2>2, <2>3, <2>4, <2>5, <2>6, <2>7, <2>8, <2>9, <2>10, <2>11, <2>12, <2>13, <2>14, <2>15, <2>16 DEF Step
<1>4. ASSUME NEW p \in Request, Abort(p) PROVE RevocationInv'
  BY <1>4 DEF Abort
<1>5. CASE Expire
  BY <1>5 DEF Expire, RowExpires
<1>6. CASE UNCHANGED vars
  BY <1>6 DEF vars
<1> QED
  BY <1>1, <1>2, <1>3, <1>4, <1>5, <1>6 DEF Next

-----------------------------------------------------------------------------
\* With empty tables and idle requests every part of the invariant holds.
LEMMA InvInit == Init => IInv
<1> SUFFICES ASSUME Init PROVE IInv
  OBVIOUS
<1>1. TypeOK
  BY TypeInit
<1>2. RowsInv /\ RequestsInv
  BY IdsAssumption DEF Init, StoreInit, RowsInv, RequestsInv, Issuing, Refreshing
<1>3. SingleHolder /\ ExchangeComesFirst
  BY DEF Init, StoreInit, SingleHolder, GrantNeverForks, ExchangeComesFirst, Issuing, Handing, ExchangesCode
<1>4. RevocationInv
  BY DEF Init, StoreInit, RevocationInv, RevokedGrantStaysDead
<1> QED
  BY <1>1, <1>2, <1>3, <1>4 DEF IInv

\* Every step of every request keeps the invariant.
LEMMA InvNext == IInv /\ [Next]_vars => IInv'
<1> SUFFICES ASSUME IInv, [Next]_vars PROVE IInv'
  OBVIOUS
<1>1. TypeOK'
  BY TypeNext DEF IInv
<1>2. RowsInv' /\ RequestsInv'
  BY <1>1, RowsNext, RequestsNext DEF IInv
<1>3. SingleHolder' /\ ExchangeComesFirst'
  BY <1>1, SingleHolderNext, ExchangeFirstNext DEF IInv
<1>4. RevocationInv'
  BY <1>1, RevocationNext DEF IInv
<1> QED
  BY <1>1, <1>2, <1>3, <1>4 DEF IInv

\* The inductive invariant holds in every reachable state.
THEOREM Invariance == Spec => []IInv
  BY InvInit, InvNext, PTL DEF Spec

\* Tables, requests and history always have their types.
THEOREM TypeCorrect == Spec => []TypeOK
<1>1. IInv => TypeOK
  BY DEF IInv
<1> QED
  BY <1>1, Invariance, PTL

\* However many requests race on a code and on its refresh tokens, whatever
\* fails in between, a grant never has two refresh tokens that can be rotated
\* (docs/CONFORMANCE.md: "concurrent replay cannot fork the grant").
THEOREM NoFork == Spec => []GrantNeverForks
<1>1. IInv => GrantNeverForks
  BY DEF IInv, SingleHolder
<1> QED
  BY <1>1, Invariance, PTL

\* Once both statements of a revocation have run on a family whose code is not
\* being exchanged, no client ever again holds a working token of it.
THEOREM RevocationIsFinal == Spec => []RevokedGrantStaysDead
<1>1. IInv => RevokedGrantStaysDead
  BY DEF IInv, RevocationInv
<1> QED
  BY <1>1, Invariance, PTL

-----------------------------------------------------------------------------
\* A code that was stored stays stored, used or deleted, and its columns never change.
LEMMA CodeStep ==
  ASSUME TypeOK, [Next]_vars
  PROVE  \/ Authorize
         \/ UNCHANGED codeRow /\ \A f \in Code : code'[f] = "none" <=> code[f] = "none"
<1> USE DEF TypeOK, StoreTypeOK, codeTable, storeVars, AuthCodeDeleteRows
<1> DEFINE Kept == UNCHANGED codeRow /\ \A f \in Code : code'[f] = "none" <=> code[f] = "none"
<1>1. ASSUME NEW p \in Request, Start(p) PROVE Kept
  <2>1. CASE HandleAuthorizationCodeGrant(p)
    BY <2>1 DEF HandleAuthorizationCodeGrant, ExchangeAuthorizationCode, AuthCodeConsume, ReplayedAuthorizationCode
  <2>2. CASE CleanupExpiredTokens(p)
    BY <2>2 DEF CleanupExpiredTokens, AuthCodeDeleteExpired
  <2> QED
    BY <1>1, <2>1, <2>2
    DEF Start, HandleRefreshTokenGrant, RefreshTokens, HandleRevoke, RevokeRefreshToken, RevokeAccessToken,
        HandleClientCredentialsGrant, GenerateClientCredentialsTokens, HandleTokenExchangeGrant, ExchangeToken,
        RevokeUserCredentials, DeleteClient
<1>2. ASSUME NEW p \in Request, Step(p) PROVE Kept
  <2>1. CASE DeleteExpiredCode(p)
    BY <2>1 DEF DeleteExpiredCode, AuthCodeDelete
  <2> QED
    BY <1>2, <2>1
    DEF Step, LoadClient, StoreAccess, StoreRefresh, Respond, DeleteExpiredRefresh, ClaimRefresh, ConfirmRefresh,
        RevokeRefreshFamily, RevokeAccessFamily, StoreExchanged, CutUserRefresh, CutClientAccess,
        CutClientRefresh, CleanupAccess, CleanupRefresh
<1>3. ASSUME NEW p \in Request, Abort(p) PROVE Kept
  BY <1>3 DEF Abort
<1>4. CASE Expire
  BY <1>4 DEF Expire
<1>5. CASE UNCHANGED vars
  BY <1>5 DEF vars
<1> QED
  BY <1>1, <1>2, <1>3, <1>4, <1>5 DEF Next

\* What is within a consent stays within it: consents are only added.
LEMMA RootedKept ==
  ASSUME TypeOK, GrantInv, [Next]_vars, NEW w, Rooted(w)
  PROVE  Rooted(w)'
<1> USE DEF Rooted, WithinGrant
<1>1. w.family \in Code \cup {None}
  BY DEF Row
<1>2. CASE UNCHANGED codeRow /\ \A f \in Code : code'[f] = "none" <=> code[f] = "none"
  BY <1>1, <1>2
<1>3. CASE Authorize
  <2> PICK f \in Code, c \in Client, u \in User, s \in SUBSET Scope : GenerateAuthorizationCode(f, c, u, s)
    BY <1>3 DEF Authorize
  <2>1. /\ code[f] = "none" /\ codeRow[f].user = None
        /\ \A g \in Code \ {f} : code'[g] = code[g] /\ codeRow'[g] = codeRow[g]
    BY DEF GenerateAuthorizationCode, AuthCodeCreate, GrantInv, NoRow, TypeOK, StoreTypeOK
  <2>2. w.family # None => w.family \in Code \ {f}
    BY <1>1, <2>1
  <2>3. w.user # None => \E g \in Code \ {f} : codeRow[g].user = w.user /\ w.scope \subseteq codeRow[g].scope
    BY <2>1
  <2>4. w.user # None => \E g \in Code : codeRow'[g].user = w.user /\ w.scope \subseteq codeRow'[g].scope
    BY <2>1, <2>3
  <2> QED
    BY <2>1, <2>2, <2>4
<1> QED
  BY <1>2, <1>3, CodeStep

\* Where the rows of access tokens come from.
LEMMA AccessStep ==
  ASSUME TypeOK, [Next]_vars, NEW a \in AccessId, access'[a] # "none"
  PROVE  \/ access[a] # "none" /\ accessRow'[a] = accessRow[a]
         \/ \E p \in Request : Storing(p) /\ accessRow'[a] = row[p]
         \/ \E c \in Client : \E s \in SUBSET Scopes[c] :
              accessRow'[a] = [family |-> None, client |-> c, user |-> None, scope |-> s]
<1> USE DEF TypeOK, StoreTypeOK, accessTable, storeVars, AccessDeleteRows
<1> DEFINE Same == access'[a] # "none" => access[a] # "none" /\ accessRow'[a] = accessRow[a]
<1>1. ASSUME NEW p \in Request, Start(p), ~HandleClientCredentialsGrant(p) PROVE Same
  BY <1>1
  DEF Start, HandleAuthorizationCodeGrant, ExchangeAuthorizationCode, ReplayedAuthorizationCode,
      HandleRefreshTokenGrant, RefreshTokens, HandleRevoke, RevokeRefreshToken, RevokeAccessToken, AccessDelete,
      HandleTokenExchangeGrant, ExchangeToken, RevokeUserCredentials, AccessDeleteByUserID, DeleteClient,
      CleanupExpiredTokens
<1>2. ASSUME NEW p \in Request, HandleClientCredentialsGrant(p)
      PROVE  Same \/ \E c \in Client : \E s \in SUBSET Scopes[c] :
               accessRow'[a] = [family |-> None, client |-> c, user |-> None, scope |-> s]
  <2> PICK b \in AccessId, c \in Client, requested \in SUBSET Scope :
             requested \subseteq Scopes[c] /\ GenerateClientCredentialsTokens(b, c, ScopeForClient(c, requested))
    BY <1>2 DEF HandleClientCredentialsGrant
  <2>1. ScopeForClient(c, requested) \in SUBSET Scopes[c]
    BY DEF ScopeForClient
  <2> QED
    BY <2>1 DEF GenerateClientCredentialsTokens, AccessCreate
<1>3. ASSUME NEW p \in Request, Step(p)
      PROVE  Same \/ (Storing(p) /\ accessRow'[a] = row[p])
  <2>1. ASSUME NEW b \in AccessId, StoreAccess(p, b) \/ StoreExchanged(p, b)
        PROVE  Same \/ (Storing(p) /\ accessRow'[a] = row[p])
    BY <2>1 DEF StoreAccess, StoreExchanged, AccessCreate, Storing
  <2>2. CASE RevokeAccessFamily(p) \/ CutClientAccess(p) \/ CleanupAccess(p)
    BY <2>2 DEF RevokeAccessFamily, AccessDeleteByFamilyID, CutClientAccess, AccessDeleteByClientID, CleanupAccess,
       AccessDeleteExpired
  <2> QED
    BY <1>3, <2>1, <2>2
    DEF Step, DeleteExpiredCode, LoadClient, StoreRefresh, Respond, DeleteExpiredRefresh, ClaimRefresh,
        ConfirmRefresh, RevokeRefreshFamily, CutUserRefresh, CutClientRefresh, CleanupRefresh
<1>4. CASE Authorize \/ Expire \/ \E p \in Request : Abort(p)
  BY <1>4 DEF Authorize, GenerateAuthorizationCode, Expire, Abort
<1>5. CASE UNCHANGED vars
  BY <1>5 DEF vars
<1> QED
  BY <1>1, <1>2, <1>3, <1>4, <1>5 DEF Next

\* Where the rows of refresh tokens come from.
LEMMA RefreshStep ==
  ASSUME TypeOK, RequestsInv, [Next]_vars, NEW r \in RefreshId, refresh'[r] # "none"
  PROVE  \/ refresh[r] # "none" /\ refreshRow'[r] = refreshRow[r]
         \/ \E p \in Request : Storing(p) /\ refreshRow'[r] = row[p]
<1> USE DEF TypeOK, StoreTypeOK, refreshTable, storeVars, RefreshDeleteRows, RefreshExists
<1> DEFINE Same == refresh'[r] # "none" => refresh[r] # "none" /\ refreshRow'[r] = refreshRow[r]
<1>1. ASSUME NEW p \in Request, Start(p) PROVE Same
  BY <1>1
  DEF Start, HandleAuthorizationCodeGrant, ExchangeAuthorizationCode, ReplayedAuthorizationCode,
      HandleRefreshTokenGrant, RefreshTokens, HandleRevoke, RevokeRefreshToken, RevokeAccessToken,
      HandleClientCredentialsGrant, GenerateClientCredentialsTokens, HandleTokenExchangeGrant, ExchangeToken,
      RevokeUserCredentials, DeleteClient, CleanupExpiredTokens
<1>2. ASSUME NEW p \in Request, Step(p) PROVE Same \/ (Storing(p) /\ refreshRow'[r] = row[p])
  <2>1. ASSUME NEW b \in RefreshId, StoreRefresh(p, b) PROVE Same \/ (Storing(p) /\ refreshRow'[r] = row[p])
    BY <2>1 DEF StoreRefresh, RefreshCreate, Storing
  <2>2. CASE ClaimRefresh(p)
    <3>1. tok[p] \in RefreshId
      BY <2>2 DEF ClaimRefresh, RequestsInv, Refreshing
    <3> QED
      BY <2>2, <3>1 DEF ClaimRefresh, RefreshRevoke
  <2>3. CASE RevokeRefreshFamily(p) \/ CutUserRefresh(p) \/ CutClientRefresh(p) \/ CleanupRefresh(p) \/ DeleteExpiredRefresh(p)
    BY <2>3 DEF RevokeRefreshFamily, RefreshDeleteByFamilyID, CutUserRefresh, RefreshDeleteByUserID, CutClientRefresh,
       RefreshDeleteByClientID, CleanupRefresh, RefreshDeleteExpired, DeleteExpiredRefresh, RefreshDelete
  <2> QED
    BY <1>2, <2>1, <2>2, <2>3
    DEF Step, DeleteExpiredCode, LoadClient, StoreAccess, Respond, ConfirmRefresh, RevokeAccessFamily, StoreExchanged,
        CutClientAccess, CleanupAccess
<1>3. CASE Authorize \/ Expire \/ \E p \in Request : Abort(p)
  BY <1>3 DEF Authorize, GenerateAuthorizationCode, Expire, Abort
<1>4. CASE UNCHANGED vars
  BY <1>4 DEF vars
<1> QED
  BY <1>1, <1>2, <1>3, <1>4 DEF Next

\* A request slot only changes in a step of its own request.
LEMMA SlotStep ==
  ASSUME TypeOK, [Next]_vars, NEW q \in Request
  PROVE  \/ Start(q) \/ Step(q) \/ Abort(q)
         \/ pc'[q] = pc[q] /\ op'[q] = op[q] /\ row'[q] = row[q] /\ cutting'[q] = cutting[q]
<1> USE DEF TypeOK, RequestTypeOK, request, locals, history, Goto, Continue, Begin, Return
<1> DEFINE Same == pc'[q] = pc[q] /\ op'[q] = op[q] /\ row'[q] = row[q] /\ cutting'[q] = cutting[q]
<1>1. ASSUME NEW p \in Request, p # q, Start(p) PROVE Same
  <2>1. CASE HandleAuthorizationCodeGrant(p) \/ CleanupExpiredTokens(p)
    BY <1>1, <2>1 DEF HandleAuthorizationCodeGrant, ExchangeAuthorizationCode, ReplayedAuthorizationCode,
       CleanupExpiredTokens
  <2>2. CASE HandleRefreshTokenGrant(p)
    <3> PICK r \in RefreshId, c \in Client, requested \in (SUBSET Scope) \cup {None} :
               RefreshTokens(p, r, c, requested)
      BY <2>2 DEF HandleRefreshTokenGrant
    <3>1. UNCHANGED history /\ \E next, o, t, w : Begin(p, next, o, t, w)
      <4> HIDE DEF Begin
      <4> QED
        BY DEF RefreshTokens
    <3> QED
      BY <1>1, <3>1
  <2>3. CASE HandleTokenExchangeGrant(p)
    <3> PICK a \in AccessId, c \in Client, requested \in (SUBSET Scope) \cup {None} :
               ExchangeToken(p, a, c, requested)
      BY <2>3 DEF HandleTokenExchangeGrant
    <3>1. UNCHANGED history /\ \E next, o, t, w : Begin(p, next, o, t, w)
      <4> HIDE DEF Begin
      <4> QED
        BY DEF ExchangeToken
    <3> QED
      BY <1>1, <3>1
  <2>4. CASE HandleRevoke(p) \/ HandleClientCredentialsGrant(p)
    BY <1>1, <2>4 DEF HandleRevoke, RevokeRefreshToken, RevokeAccessToken, HandleClientCredentialsGrant,
       GenerateClientCredentialsTokens
  <2>5. CASE \E u \in User : RevokeUserCredentials(p, u)
    BY <1>1, <2>5 DEF RevokeUserCredentials
  <2>6. CASE \E c \in Client : DeleteClient(p, c)
    BY <1>1, <2>6 DEF DeleteClient
  <2> QED
    BY <1>1, <2>1, <2>2, <2>3, <2>4, <2>5, <2>6 DEF Start
<1>2. ASSUME NEW p \in Request, p # q, Step(p) PROVE Same
  BY <1>2
  DEF Step, DeleteExpiredCode, LoadClient, StoreAccess, StoreRefresh, Respond, DeleteExpiredRefresh, ClaimRefresh,
      ConfirmRefresh, RevokeRefreshFamily, RevokeAccessFamily, StoreExchanged, CutUserRefresh, CutClientAccess,
      CutClientRefresh, CutDone, CleanupAccess, CleanupRefresh
<1>3. ASSUME NEW p \in Request, p # q, Abort(p) PROVE Same
  BY <1>3 DEF Abort
<1>4. CASE Authorize \/ Expire
  BY <1>4 DEF Authorize, GenerateAuthorizationCode, Expire
<1>5. CASE UNCHANGED vars
  BY <1>5 DEF vars
<1> QED
  BY <1>1, <1>2, <1>3, <1>4, <1>5 DEF Next

\* What a request may come to store is within a consent: it was read from a code, or from a
\* refresh token or a subject token and only narrowed.
LEMMA RowStep ==
  ASSUME TypeOK, RowsInv, GrantInv, [Next]_vars, NEW p \in Request, Storing(p)'
  PROVE  Rooted(row'[p])
<1> USE DEF TypeOK, RequestTypeOK, request, locals, Goto, Continue, Begin, Return, Storing
<1>1. CASE pc'[p] = pc[p] /\ row'[p] = row[p]
  BY <1>1 DEF GrantInv
<1>2. CASE Start(p)
  <2>1. CASE HandleAuthorizationCodeGrant(p)
    <3>1. ASSUME NEW f \in Code, NEW c \in Client, NEW proven \in BOOLEAN, ExchangeAuthorizationCode(p, f, c, proven)
          PROVE  Rooted(row'[p])
      <4>1. code[f] = "fresh" /\ row'[p] = codeRow[f]
        BY <2>1, <3>1 DEF HandleAuthorizationCodeGrant, Starts, ExchangeAuthorizationCode, AuthCodeConsume
      <4> QED
        BY <4>1 DEF GrantInv
    <3>2. ASSUME NEW f \in Code PROVE ~ReplayedAuthorizationCode(p, f)
      BY DEF ReplayedAuthorizationCode
    <3> QED
      BY <2>1, <3>1, <3>2 DEF HandleAuthorizationCodeGrant
  <2>2. CASE HandleRefreshTokenGrant(p)
    <3> PICK r \in RefreshId \cap delivered, c \in Client, requested \in (SUBSET Scope) \cup {None} :
               RefreshTokens(p, r, c, requested)
      BY <2>2 DEF HandleRefreshTokenGrant
    <3> DEFINE narrowed == [family |-> refreshRow[r].family, client |-> refreshRow[r].client,
                            user |-> refreshRow[r].user, scope |-> Narrowed(refreshRow[r], requested)]
    <3>1. Narrowed(refreshRow[r], requested) \subseteq refreshRow[r].scope /\ row'[p] = narrowed
      BY DEF RefreshTokens
    <3>2. Rooted(refreshRow[r])
      BY DEF GrantInv, RowsInv
    <3>3. narrowed \in Row
      BY <3>1, <3>2 DEF Rooted, Row
    <3>4. /\ narrowed.family = refreshRow[r].family /\ narrowed.client = refreshRow[r].client
          /\ narrowed.user = refreshRow[r].user /\ narrowed.scope \subseteq refreshRow[r].scope
      BY <3>1
    <3> HIDE DEF narrowed
    <3>5. Rooted(narrowed)
      BY <3>2, <3>3, <3>4 DEF Rooted, WithinGrant
    <3> QED
      BY <3>1, <3>5
  <2>3. CASE HandleTokenExchangeGrant(p)
    <3> PICK a \in AccessId \cap delivered, c \in Client, requested \in (SUBSET Scope) \cup {None} :
               ExchangeToken(p, a, c, requested)
      BY <2>3 DEF HandleTokenExchangeGrant
    <3> DEFINE w == [family |-> None, client |-> c, user |-> accessRow[a].user,
                     scope |-> Narrowed(accessRow[a], requested)]
    <3>1. /\ Narrowed(accessRow[a], requested) \subseteq accessRow[a].scope \cap Scopes[c]
          /\ row'[p] = w
      BY DEF ExchangeToken
    <3>2. Rooted(accessRow[a])
      BY DEF GrantInv, ExchangeToken, Usable
    <3>3. w \in Row
      BY <3>1, <3>2 DEF Rooted, Row
    <3>4. /\ w.family = None /\ w.client = c /\ w.user = accessRow[a].user
          /\ w.scope \subseteq accessRow[a].scope \cap Scopes[c]
      BY <3>1
    <3> HIDE DEF w
    <3>5. Rooted(w)
      BY <3>2, <3>3, <3>4 DEF Rooted, WithinGrant
    <3> QED
      BY <3>1, <3>5
  <2>4. CASE HandleRevoke(p) \/ HandleClientCredentialsGrant(p)
    BY <2>4 DEF HandleRevoke, RevokeRefreshToken, RevokeAccessToken, HandleClientCredentialsGrant,
       GenerateClientCredentialsTokens, Starts
  <2>5. ~(\E u \in User : RevokeUserCredentials(p, u)) /\ ~(\E c \in Client : DeleteClient(p, c)) /\ ~CleanupExpiredTokens(p)
    BY DEF RevokeUserCredentials, DeleteClient, CleanupExpiredTokens
  <2> QED
    BY <1>2, <2>1, <2>2, <2>3, <2>4, <2>5 DEF Start
<1>3. CASE Step(p)
  <2>1. Storing(p) /\ row'[p] = row[p]
    BY <1>3
    DEF Step, DeleteExpiredCode, LoadClient, StoreAccess, StoreRefresh, Respond, DeleteExpiredRefresh, ClaimRefresh,
        ConfirmRefresh, RevokeRefreshFamily, RevokeAccessFamily, StoreExchanged, CutUserRefresh, CutClientAccess,
        CutClientRefresh, CleanupAccess, CleanupRefresh
  <2> QED
    BY <2>1 DEF GrantInv
<1>4. ~Abort(p)
  BY DEF Abort
<1> QED
  BY <1>1, <1>2, <1>3, <1>4, SlotStep

\* Every step keeps every row within a consent.
LEMMA GrantNext == TypeOK /\ RowsInv /\ RequestsInv /\ GrantInv /\ [Next]_vars => GrantInv'
<1> SUFFICES ASSUME TypeOK, RowsInv, RequestsInv, GrantInv, [Next]_vars PROVE GrantInv'
  OBVIOUS
<1>1. ASSUME NEW f \in Code
      PROVE  (IF code[f] = "none" THEN codeRow[f] = NoRow ELSE Rooted(codeRow[f]))'
  <2>1. CASE UNCHANGED codeRow /\ \A g \in Code : code'[g] = "none" <=> code[g] = "none"
    <3>1. CASE code[f] = "none"
      BY <2>1, <3>1 DEF GrantInv, NoRow
    <3>2. CASE code[f] # "none"
      <4> PICK w : w = codeRow[f]
        OBVIOUS
      <4>1. Rooted(w)'
        BY <3>2, RootedKept DEF GrantInv
      <4>2. w = codeRow'[f]
        BY <2>1
      <4> QED
        BY <2>1, <3>2, <4>1, <4>2
    <3> QED
      BY <3>1, <3>2
  <2>2. ASSUME NEW g \in Code, NEW c \in Client, NEW u \in User, NEW s \in SUBSET Scope,
               GenerateAuthorizationCode(g, c, u, s)
        PROVE  (IF code[f] = "none" THEN codeRow[f] = NoRow ELSE Rooted(codeRow[f]))'
    <3> DEFINE w == [family |-> g, client |-> c, user |-> u, scope |-> s]
    <3>1. /\ code' = [code EXCEPT ![g] = "fresh"] /\ codeRow' = [codeRow EXCEPT ![g] = w]
          /\ s \subseteq Scopes[c]
      BY <2>2 DEF GenerateAuthorizationCode, AuthCodeCreate
    <3>2. w \in Row /\ w.family = g /\ w.client = c /\ w.user = u /\ w.scope = s
      BY DEF Row
    <3> HIDE DEF w
    <3>3. code'[g] = "fresh" /\ codeRow'[g] = w
      BY <3>1 DEF TypeOK, StoreTypeOK
    <3>4. CASE f = g
      BY <3>1, <3>2, <3>3, <3>4 DEF Rooted, WithinGrant
    <3>5. CASE f # g /\ code[f] = "none"
      BY <3>1, <3>5 DEF GrantInv, NoRow, TypeOK, StoreTypeOK
    <3>6. CASE f # g /\ code[f] # "none"
      <4> PICK v : v = codeRow[f]
        OBVIOUS
      <4>1. Rooted(v)'
        BY <3>6, RootedKept DEF GrantInv
      <4>2. v = codeRow'[f] /\ code'[f] = code[f]
        BY <3>1, <3>6 DEF TypeOK, StoreTypeOK
      <4> QED
        BY <3>6, <4>1, <4>2
    <3> QED
      BY <3>4, <3>5, <3>6
  <2> QED
    BY <2>1, <2>2, CodeStep DEF Authorize
<1>2. ASSUME NEW a \in AccessId, access'[a] # "none" PROVE Rooted(accessRow[a])'
  <2> PICK w : w = accessRow'[a]
    OBVIOUS
  <2>1. Rooted(w)
    <3>1. CASE access[a] # "none" /\ accessRow'[a] = accessRow[a]
      BY <3>1 DEF GrantInv
    <3>2. ASSUME NEW p \in Request, Storing(p) /\ accessRow'[a] = row[p] PROVE Rooted(w)
      BY <3>2 DEF GrantInv
    <3>3. ASSUME NEW c \in Client, NEW s \in SUBSET Scopes[c],
                 accessRow'[a] = [family |-> None, client |-> c, user |-> None, scope |-> s]
          PROVE  Rooted(w)
      <4>1. s \in SUBSET Scope
        BY GrantsAssumption
      <4>2. w \in Row /\ w.family = None /\ w.client = c /\ w.user = None /\ w.scope = s
        BY <3>3, <4>1 DEF Row
      <4> QED
        BY <4>2 DEF Rooted, WithinGrant
    <3> QED
      BY <1>2, <3>1, <3>2, <3>3, AccessStep
  <2>2. Rooted(w)'
    BY <2>1, RootedKept
  <2> QED
    BY <2>2
<1>3. ASSUME NEW r \in RefreshId, refresh'[r] # "none" PROVE Rooted(refreshRow[r])'
  <2> PICK w : w = refreshRow'[r]
    OBVIOUS
  <2>1. Rooted(w)
    BY <1>3, RefreshStep DEF GrantInv
  <2>2. Rooted(w)'
    BY <2>1, RootedKept
  <2> QED
    BY <2>2
<1>4. ASSUME NEW p \in Request, Storing(p)' PROVE Rooted(row[p])'
  <2> PICK w : w = row'[p]
    OBVIOUS
  <2>1. Rooted(w)
    BY <1>4, RowStep
  <2>2. Rooted(w)'
    BY <2>1, RootedKept
  <2> QED
    BY <2>2
<1> QED
  BY <1>1, <1>2, <1>3, <1>4 DEF GrantInv

-----------------------------------------------------------------------------
\* The status of a code only moves forward.
LEMMA CodeForward ==
  ASSUME TypeOK, [Next]_vars, NEW f \in Code
  PROVE  \/ code'[f] = code[f]
         \/ code[f] = "none" /\ code'[f] = "fresh"
         \/ code[f] = "fresh" /\ code'[f] \in {"used", "deleted"}
         \/ code[f] = "used" /\ code'[f] = "deleted"
<1> USE DEF TypeOK, StoreTypeOK, CodeStatus, codeTable, storeVars, AuthCodeDeleteRows
<1> DEFINE Forward == \/ code'[f] = code[f]
                      \/ code[f] = "none" /\ code'[f] = "fresh"
                      \/ code[f] = "fresh" /\ code'[f] \in {"used", "deleted"}
                      \/ code[f] = "used" /\ code'[f] = "deleted"
<1>1. ASSUME NEW p \in Request, Start(p) PROVE Forward
  <2>1. CASE HandleAuthorizationCodeGrant(p)
    BY <2>1 DEF HandleAuthorizationCodeGrant, ExchangeAuthorizationCode, AuthCodeConsume, ReplayedAuthorizationCode
  <2>2. CASE CleanupExpiredTokens(p)
    BY <2>2 DEF CleanupExpiredTokens, AuthCodeDeleteExpired
  <2> QED
    BY <1>1, <2>1, <2>2
    DEF Start, HandleRefreshTokenGrant, RefreshTokens, HandleRevoke, RevokeRefreshToken, RevokeAccessToken,
        HandleClientCredentialsGrant, GenerateClientCredentialsTokens, HandleTokenExchangeGrant, ExchangeToken,
        RevokeUserCredentials, DeleteClient
<1>2. ASSUME NEW p \in Request, Step(p) PROVE Forward
  <2>1. CASE DeleteExpiredCode(p)
    BY <2>1 DEF DeleteExpiredCode, AuthCodeDelete
  <2> QED
    BY <1>2, <2>1
    DEF Step, LoadClient, StoreAccess, StoreRefresh, Respond, DeleteExpiredRefresh, ClaimRefresh, ConfirmRefresh,
        RevokeRefreshFamily, RevokeAccessFamily, StoreExchanged, CutUserRefresh, CutClientAccess,
        CutClientRefresh, CleanupAccess, CleanupRefresh
<1>3. CASE Authorize
  BY <1>3 DEF Authorize, GenerateAuthorizationCode, AuthCodeCreate
<1>4. CASE Expire \/ \E p \in Request : Abort(p)
  BY <1>4 DEF Expire, Abort
<1>5. CASE UNCHANGED vars
  BY <1>5 DEF vars
<1> QED
  BY <1>1, <1>2, <1>3, <1>4, <1>5 DEF Next

\* A spent code stays spent.
LEMMA SpentStep ==
  ASSUME TypeOK, [Next]_vars, NEW f \in Code, ~Untouched(f)
  PROVE  ~Untouched(f)'
  BY CodeForward DEF Untouched

\* An exchange goes on with the row it began with, or begins with a fresh code.
LEMMA ExchangeStep ==
  ASSUME TypeOK, RequestsInv, [Next]_vars, NEW p \in Request, ExchangesCode(p)'
  PROVE  \/ ExchangesCode(p) /\ row'[p] = row[p]
         \/ \E f \in Code : code[f] = "fresh" /\ row'[p] = codeRow[f]
<1> USE DEF TypeOK, RequestTypeOK, request, locals, Goto, Continue, Begin, Return, ExchangesCode
<1>1. CASE Start(p)
  <2>1. CASE HandleAuthorizationCodeGrant(p)
    BY <2>1 DEF HandleAuthorizationCodeGrant, Starts, ExchangeAuthorizationCode, AuthCodeConsume, ReplayedAuthorizationCode
  <2>2. ASSUME NEW r \in RefreshId, NEW c \in Client, NEW requested \in (SUBSET Scope) \cup {None}
        PROVE  ~RefreshTokens(p, r, c, requested)
    <3>1. ASSUME NEW next, NEW t, NEW w PROVE ~Begin(p, next, "refresh", t, w)
      OBVIOUS
    <3> HIDE DEF Begin
    <3> QED
      BY <3>1 DEF RefreshTokens
  <2>3. ASSUME NEW a \in AccessId, NEW c \in Client, NEW requested \in (SUBSET Scope) \cup {None}
        PROVE  ~ExchangeToken(p, a, c, requested)
    BY DEF ExchangeToken
  <2>4. ASSUME HandleRevoke(p) \/ HandleClientCredentialsGrant(p) PROVE FALSE
    BY <2>4 DEF HandleRevoke, RevokeRefreshToken, RevokeAccessToken, HandleClientCredentialsGrant,
       GenerateClientCredentialsTokens, Starts
  <2>5. ~(\E u \in User : RevokeUserCredentials(p, u)) /\ ~(\E c \in Client : DeleteClient(p, c)) /\ ~CleanupExpiredTokens(p)
    BY DEF RevokeUserCredentials, DeleteClient, CleanupExpiredTokens
  <2> QED
    BY <1>1, <2>1, <2>2, <2>3, <2>4, <2>5 DEF Start, HandleRefreshTokenGrant, HandleTokenExchangeGrant
<1>2. CASE Step(p)
  <2> DEFINE Same == ExchangesCode(p) /\ row'[p] = row[p]
  <2>1. ~Return(p) /\ (\A next : Continue(p, next) => op[p] = "exchange" /\ row'[p] = row[p] /\ pc'[p] = next)
    OBVIOUS
  <2>2. CASE \E a \in AccessId : StoreAccess(p, a)
    BY <2>2 DEF StoreAccess
  <2>3. CASE \E r \in RefreshId : StoreRefresh(p, r)
    BY <2>3 DEF StoreRefresh
  <2>4. ~RevokeRefreshFamily(p)
    BY DEF RevokeRefreshFamily
  <2> HIDE DEF Return, Continue, Goto, Begin
  <2>5. CASE LoadClient(p)
    BY <2>1, <2>5 DEF LoadClient
  <2>6. CASE ClaimRefresh(p)
    <3>1. pc[p] = "claim" /\ (Continue(p, "storeAccess") \/ Continue(p, "revokeRefresh"))
      BY <2>6 DEF ClaimRefresh
    <3> QED
      BY <2>1, <3>1 DEF RequestsInv
  <2>7. ~CutClientAccess(p) /\ ~CleanupAccess(p) /\ ~ConfirmRefresh(p)
    BY <2>1 DEF CutClientAccess, CleanupAccess, ConfirmRefresh
  <2> QED
    BY <1>2, <2>1, <2>2, <2>3, <2>4, <2>5, <2>6, <2>7
    DEF Step, DeleteExpiredCode, Respond, DeleteExpiredRefresh, RevokeAccessFamily, StoreExchanged, CutUserRefresh,
        CutClientRefresh, CleanupRefresh
<1>3. ~Abort(p)
  BY DEF Abort
<1> QED
  BY <1>1, <1>2, <1>3, SlotStep

\* Once the exchange of a code is over, it is over for good.
LEMMA CollectedKept ==
  ASSUME TypeOK, RowsInv, RequestsInv, [Next]_vars, NEW f, Collected(f)
  PROVE  Collected(f)'
<1>1. f \in Code /\ ~Untouched(f)'
  BY SpentStep DEF Collected
<1>2. ASSUME NEW p \in Request, Exchanging(p, f)' PROVE FALSE
  <2>1. CASE ExchangesCode(p) /\ row'[p] = row[p]
    BY <1>2, <2>1 DEF Collected, Exchanging
  <2>2. ASSUME NEW g \in Code, code[g] = "fresh", row'[p] = codeRow[g] PROVE FALSE
    <3>1. codeRow[g].family = g
      BY <2>2 DEF RowsInv
    <3> QED
      BY <1>2, <2>2, <3>1 DEF Collected, Exchanging, Untouched
  <2> QED
    BY <1>2, <2>1, <2>2, ExchangeStep DEF Exchanging
<1> QED
  BY <1>1, <1>2 DEF Collected

\* The row of a refresh token never changes, and once deleted it does not come back.
LEMMA RefreshKept ==
  ASSUME TypeOK, RequestsInv, [Next]_vars, NEW r \in RefreshId, refresh[r] # "none"
  PROVE  refreshRow'[r] = refreshRow[r] /\ (RefreshExists(r)' => RefreshExists(r))
<1> USE DEF TypeOK, StoreTypeOK, RefreshStatus, refreshTable, storeVars, RefreshDeleteRows, RefreshExists
<1> DEFINE Same == refreshRow'[r] = refreshRow[r] /\ (RefreshExists(r)' => RefreshExists(r))
<1>1. ASSUME NEW p \in Request, Start(p) PROVE Same
  BY <1>1
  DEF Start, HandleAuthorizationCodeGrant, ExchangeAuthorizationCode, ReplayedAuthorizationCode,
      HandleRefreshTokenGrant, RefreshTokens, HandleRevoke, RevokeRefreshToken, RevokeAccessToken,
      HandleClientCredentialsGrant, GenerateClientCredentialsTokens, HandleTokenExchangeGrant, ExchangeToken,
      RevokeUserCredentials, DeleteClient, CleanupExpiredTokens
<1>2. ASSUME NEW p \in Request, Step(p) PROVE Same
  <2>1. ASSUME NEW b \in RefreshId, StoreRefresh(p, b) PROVE Same
    BY <2>1 DEF StoreRefresh, RefreshCreate
  <2>2. CASE ClaimRefresh(p)
    <3>1. tok[p] \in RefreshId
      BY <2>2 DEF ClaimRefresh, RequestsInv, Refreshing
    <3> QED
      BY <2>2, <3>1 DEF ClaimRefresh, RefreshRevoke
  <2>3. CASE RevokeRefreshFamily(p) \/ CutUserRefresh(p) \/ CutClientRefresh(p) \/ CleanupRefresh(p) \/ DeleteExpiredRefresh(p)
    BY <2>3 DEF RevokeRefreshFamily, RefreshDeleteByFamilyID, CutUserRefresh, RefreshDeleteByUserID, CutClientRefresh,
       RefreshDeleteByClientID, CleanupRefresh, RefreshDeleteExpired, DeleteExpiredRefresh, RefreshDelete
  <2> QED
    BY <1>2, <2>1, <2>2, <2>3
    DEF Step, DeleteExpiredCode, LoadClient, StoreAccess, Respond, ConfirmRefresh, RevokeAccessFamily, StoreExchanged,
        CutClientAccess, CleanupAccess
<1>3. CASE Authorize \/ Expire \/ \E p \in Request : Abort(p)
  BY <1>3 DEF Authorize, GenerateAuthorizationCode, Expire, Abort
<1>4. CASE UNCHANGED vars
  BY <1>4 DEF vars
<1> QED
  BY <1>1, <1>2, <1>3, <1>4 DEF Next

\* A refresh token reaches its client at the end of an exchange, or of a rotation that
\* found the rotated token still there.
LEMMA DeliveryStep ==
  ASSUME TypeOK, [Next]_vars, NEW r \in RefreshId, r \in delivered'
  PROVE  \/ r \in delivered
         \/ \E p \in Request : r = newRefresh[p] /\ (pc[p] = "respond" \/ (pc[p] = "confirm" /\ RefreshExists(tok[p])))
<1> USE IdsAssumption DEF TypeOK, RequestTypeOK
<1>1. ASSUME NEW p \in Request, Start(p) PROVE r \in delivered
  <2>1. CASE HandleClientCredentialsGrant(p)
    BY <2>1 DEF HandleClientCredentialsGrant, GenerateClientCredentialsTokens
  <2>2. ASSUME ~HandleClientCredentialsGrant(p) PROVE delivered' = delivered
    BY <1>1, <2>2
    DEF Start, HandleAuthorizationCodeGrant, ExchangeAuthorizationCode, ReplayedAuthorizationCode,
        HandleRefreshTokenGrant, RefreshTokens, HandleRevoke, RevokeRefreshToken, RevokeAccessToken,
        HandleTokenExchangeGrant, ExchangeToken, RevokeUserCredentials, DeleteClient, CleanupExpiredTokens
  <2> QED
    BY <2>1, <2>2
<1>2. ASSUME NEW p \in Request, Step(p)
      PROVE  \/ r \in delivered
             \/ r = newRefresh[p] /\ (pc[p] = "respond" \/ (pc[p] = "confirm" /\ RefreshExists(tok[p])))
  <2>1. r # newAccess[p]
    OBVIOUS
  <2>2. CASE Respond(p) \/ ConfirmRefresh(p)
    BY <2>1, <2>2 DEF Respond, ConfirmRefresh
  <2>3. CASE \E a \in AccessId : StoreExchanged(p, a)
    BY <2>3 DEF StoreExchanged
  <2> QED
    BY <1>2, <2>2, <2>3
    DEF Step, DeleteExpiredCode, LoadClient, StoreAccess, StoreRefresh, DeleteExpiredRefresh, ClaimRefresh,
        RevokeRefreshFamily, RevokeAccessFamily, CutUserRefresh, CutClientAccess,
        CutClientRefresh, CleanupAccess, CleanupRefresh
<1>3. CASE Authorize \/ Expire \/ \E p \in Request : Abort(p)
  BY <1>3 DEF Authorize, GenerateAuthorizationCode, Expire, Abort
<1>4. CASE UNCHANGED vars
  BY <1>4 DEF vars
<1> QED
  BY <1>1, <1>2, <1>3, <1>4 DEF Next

\* A closed family stays closed.
LEMMA ClosedKept ==
  ASSUME TypeOK, RowsInv, RequestsInv, [Next]_vars, NEW f \in Code, Closed(f)
  PROVE  Closed(f)'
<1>1. Collected(f)'
  BY CollectedKept DEF Collected, Closed
<1>2. ASSUME NEW r \in RefreshId, r \in delivered', (refreshRow[r].family = f)', RefreshExists(r)' PROVE FALSE
  <2>1. CASE r \in delivered
    <3>1. refresh[r] # "none"
      BY <2>1 DEF RowsInv
    <3> QED
      BY <1>2, <2>1, <3>1, RefreshKept DEF Closed
  <2>2. ASSUME NEW p \in Request, r = newRefresh[p],
               pc[p] = "respond" \/ (pc[p] = "confirm" /\ RefreshExists(tok[p]))
        PROVE  FALSE
    <3>1. refresh[r] # "none" /\ refreshRow[r].family = row[p].family
      BY <2>2 DEF RequestsInv
    <3>2. row[p].family = f
      BY <1>2, <3>1, RefreshKept
    <3>3. CASE pc[p] = "respond"
      BY <3>2, <3>3 DEF RequestsInv, Closed, Exchanging, ExchangesCode
    <3>4. CASE pc[p] = "confirm" /\ RefreshExists(tok[p])
      BY <3>2, <3>4 DEF RequestsInv, Refreshing, Closed
    <3> QED
      BY <2>2, <3>3, <3>4
  <2> QED
    BY <1>2, <2>1, <2>2, DeliveryStep
<1> QED
  BY <1>1, <1>2 DEF Closed, Collected

\* Every step keeps the grants that had to end closed.
LEMMA CutNext ==
  TypeOK /\ RowsInv /\ RequestsInv /\ ExchangeComesFirst /\ GrantInv /\ CutInv /\ [Next]_vars => CutInv'
<1> SUFFICES ASSUME TypeOK, RowsInv, RequestsInv, ExchangeComesFirst, GrantInv, CutInv, [Next]_vars PROVE CutInv'
  OBVIOUS
<1> DEFINE Cutting == {"cutUserRefresh", "cutClientAccess", "cutClientRefresh"}
           OfUser(f, u) == Collected(f) /\ codeRow[f].user = u
           OfClient(f, c) == Collected(f) /\ codeRow[f].client = c
<1>0. \A f \in Code : ~Untouched(f) => codeRow'[f] = codeRow[f]
  BY CodeStep DEF Authorize, GenerateAuthorizationCode, AuthCodeCreate, Untouched, TypeOK, StoreTypeOK
<1>1. ASSUME NEW f, Collected(f) PROVE Collected(f)' /\ codeRow'[f] = codeRow[f]
  BY <1>0, <1>1, CollectedKept DEF Collected
<1>2. ASSUME NEW r \in RefreshId \cap delivered
      PROVE  /\ Collected(refreshRow[r].family)
             /\ codeRow[refreshRow[r].family].user = refreshRow[r].user
             /\ codeRow[refreshRow[r].family].client = refreshRow[r].client
  <2>1. refresh[r] # "none" /\ refreshRow[r].family \in Code /\ ~Untouched(refreshRow[r].family)
    BY DEF RowsInv
  <2>2. \A p \in Request : ~Exchanging(p, refreshRow[r].family)
    BY DEF ExchangeComesFirst, Exchanging
  <2>3. refreshRow[r].family # None /\ Rooted(refreshRow[r])
    BY <2>1, IdsAssumption DEF GrantInv
  <2> QED
    BY <2>1, <2>2, <2>3 DEF Collected, Rooted, WithinGrant
<1> USE DEF TypeOK, RequestTypeOK, locals, history, Goto, Continue, Begin, Return, Starts
\* cutting and cut in the steps of one request
<1>3. ASSUME NEW p \in Request, Start(p) \/ Step(p) \/ Abort(p)
      PROVE  \/ cutting'[p] = {}
             \/ /\ pc[p] = "cutClientAccess" /\ pc'[p] = "cutClientRefresh"
                /\ row'[p] = row[p] /\ cutting'[p] = cutting[p]
             \/ /\ pc'[p] = "cutUserRefresh"
                /\ \A f \in cutting'[p] : OfUser(f, row'[p].user)
             \/ /\ pc'[p] = "cutClientAccess"
                /\ \A f \in cutting'[p] : OfClient(f, row'[p].client)
  <2>1. ASSUME NEW u \in User, RevokeUserCredentials(p, u)
        PROVE  pc'[p] = "cutUserRefresh" /\ \A f \in cutting'[p] : OfUser(f, row'[p].user)
    <3>1. /\ pc'[p] = "cutUserRefresh" /\ row'[p].user = u
          /\ cutting'[p] = DeliveredFamilies({r \in RefreshId : refreshRow[r].user = u})
      BY <2>1 DEF RevokeUserCredentials
    <3> QED
      BY <1>2, <3>1 DEF DeliveredFamilies
  <2>2. ASSUME NEW c \in Client, DeleteClient(p, c)
        PROVE  pc'[p] = "cutClientAccess" /\ \A f \in cutting'[p] : OfClient(f, row'[p].client)
    <3>1. /\ pc'[p] = "cutClientAccess" /\ row'[p].client = c
          /\ cutting'[p] = DeliveredFamilies({r \in RefreshId : refreshRow[r].client = c})
      BY <2>2 DEF DeleteClient
    <3> QED
      BY <1>2, <3>1 DEF DeliveredFamilies
  <2>3. CASE /\ Start(p)
             /\ ~\E u \in User : RevokeUserCredentials(p, u)
             /\ ~\E c \in Client : DeleteClient(p, c)
    <3> HIDE DEF Begin
    <3>1. pc[p] = "idle" /\ cutting' = cutting
      BY <2>3
      DEF Start, HandleAuthorizationCodeGrant, ExchangeAuthorizationCode, ReplayedAuthorizationCode,
          HandleRefreshTokenGrant, RefreshTokens, HandleRevoke, RevokeRefreshToken, RevokeAccessToken,
          HandleClientCredentialsGrant, GenerateClientCredentialsTokens, HandleTokenExchangeGrant, ExchangeToken,
          CleanupExpiredTokens
    <3> QED
      BY <3>1 DEF CutInv
  <2>4. CASE Step(p) /\ pc[p] \in Cutting
    BY <2>4
    DEF Step, DeleteExpiredCode, LoadClient, StoreAccess, StoreRefresh, Respond, DeleteExpiredRefresh, ClaimRefresh,
        ConfirmRefresh, RevokeRefreshFamily, RevokeAccessFamily, StoreExchanged, CutUserRefresh, CutClientAccess,
        CutClientRefresh, CutDone, CleanupAccess, CleanupRefresh
  <2>5. CASE Step(p) /\ pc[p] \notin Cutting
    <3> HIDE DEF Begin, Return, Goto, Continue
    <3>1. cutting' = cutting
      BY <2>5
      DEF Step, DeleteExpiredCode, LoadClient, StoreAccess, StoreRefresh, Respond, DeleteExpiredRefresh, ClaimRefresh,
          ConfirmRefresh, RevokeRefreshFamily, RevokeAccessFamily, StoreExchanged, CutUserRefresh, CutClientAccess,
          CutClientRefresh, CleanupAccess, CleanupRefresh
    <3> QED
      BY <2>5, <3>1 DEF CutInv
  <2>6. CASE Abort(p)
    BY <2>6 DEF Abort
  <2> QED
    BY <1>3, <2>1, <2>2, <2>3, <2>4, <2>5, <2>6
<1>4. \A p \in Request : cutting'[p] # {} => pc'[p] \in Cutting
  BY <1>3, SlotStep DEF CutInv
<1>5. ASSUME NEW p \in Request, NEW f \in cutting'[p]
      PROVE  /\ Collected(f)'
             /\ pc'[p] = "cutUserRefresh" => codeRow'[f].user = row'[p].user
             /\ pc'[p] \in {"cutClientAccess", "cutClientRefresh"} => codeRow'[f].client = row'[p].client
  <2>1. CASE pc'[p] = pc[p] /\ row'[p] = row[p] /\ cutting'[p] = cutting[p]
    BY <1>1, <2>1 DEF CutInv
  <2>2. CASE /\ pc[p] = "cutClientAccess" /\ pc'[p] = "cutClientRefresh"
             /\ row'[p] = row[p] /\ cutting'[p] = cutting[p]
    BY <1>1, <2>2 DEF CutInv
  <2>3. CASE pc'[p] = "cutUserRefresh" /\ OfUser(f, row'[p].user)
    BY <1>1, <2>3
  <2>4. CASE pc'[p] = "cutClientAccess" /\ OfClient(f, row'[p].client)
    BY <1>1, <2>4
  <2> QED
    BY <1>3, <1>5, <2>1, <2>2, <2>3, <2>4, SlotStep
<1>6. ASSUME NEW f \in cut' PROVE f \in Code /\ Closed(f)'
  <2>1. CASE f \in cut
    BY <2>1, ClosedKept DEF CutInv
  <2>2. ASSUME NEW p \in Request, f \in cutting[p], CutUserRefresh(p) \/ CutClientRefresh(p)
        PROVE  f \in Code /\ Closed(f)'
    <3>1. Collected(f) /\ Collected(f)'
      BY <1>1, <2>2 DEF CutInv
    <3>2. ASSUME NEW r \in RefreshId \cap delivered, refreshRow[r].family = f PROVE ~RefreshExists(r)'
      <4>1. codeRow[f].user = refreshRow[r].user /\ codeRow[f].client = refreshRow[r].client
        BY <1>2, <3>2
      <4>2. CASE CutUserRefresh(p)
        BY <2>2, <4>1, <4>2 DEF CutUserRefresh, RefreshDeleteByUserID, RefreshDeleteRows, RefreshExists, CutInv
      <4>3. CASE CutClientRefresh(p)
        BY <2>2, <4>1, <4>3 DEF CutClientRefresh, RefreshDeleteByClientID, RefreshDeleteRows, RefreshExists, CutInv
      <4> QED
        BY <2>2, <4>2, <4>3
    <3>3. delivered' = delivered /\ refreshRow' = refreshRow
      BY <2>2 DEF CutUserRefresh, CutClientRefresh, RefreshDeleteByUserID, RefreshDeleteByClientID, RefreshDeleteRows
    <3> QED
      BY <3>1, <3>2, <3>3 DEF Closed, Collected
  <2>3. f \in cut \/ \E p \in Request : f \in cutting[p] /\ (CutUserRefresh(p) \/ CutClientRefresh(p))
    <3> HIDE DEF Begin, Return, Goto, Continue
    <3>1. ASSUME NEW p \in Request, Start(p) PROVE cut' = cut
      BY <3>1
      DEF Start, HandleAuthorizationCodeGrant, ExchangeAuthorizationCode, ReplayedAuthorizationCode,
          HandleRefreshTokenGrant, RefreshTokens, HandleRevoke, RevokeRefreshToken, RevokeAccessToken,
          HandleClientCredentialsGrant, GenerateClientCredentialsTokens, HandleTokenExchangeGrant, ExchangeToken,
          RevokeUserCredentials, DeleteClient, CleanupExpiredTokens
    <3>2. ASSUME NEW p \in Request, Step(p)
          PROVE  cut' = cut \/ (cut' = cut \cup cutting[p] /\ (CutUserRefresh(p) \/ CutClientRefresh(p)))
      BY <3>2
      DEF Step, DeleteExpiredCode, LoadClient, StoreAccess, StoreRefresh, Respond, DeleteExpiredRefresh, ClaimRefresh,
          ConfirmRefresh, RevokeRefreshFamily, RevokeAccessFamily, StoreExchanged, CutUserRefresh, CutClientAccess,
          CutClientRefresh, CutDone, CleanupAccess, CleanupRefresh
    <3>3. CASE Authorize \/ Expire \/ \E p \in Request : Abort(p)
      BY <3>3 DEF Authorize, GenerateAuthorizationCode, Expire, Abort
    <3>4. CASE UNCHANGED vars
      BY <3>4 DEF vars
    <3> QED
      BY <1>6, <3>1, <3>2, <3>3, <3>4 DEF Next
  <2> QED
    BY <2>1, <2>2, <2>3
<1> QED
  BY <1>4, <1>5, <1>6 DEF CutInv

\* The invariant with the rows' consents and the grants that had to end.
THEOREM GrantInvariance == Spec => [](IInv /\ GrantInv /\ CutInv)
<1>1. Init => GrantInv /\ CutInv
  BY DEF Init, StoreInit, GrantInv, CutInv, Storing
<1>2. IInv /\ GrantInv /\ CutInv /\ [Next]_vars => (GrantInv /\ CutInv)'
  BY GrantNext, CutNext DEF IInv
<1> QED
  BY <1>1, <1>2, Invariance, PTL DEF Spec

\* Along any chain of exchanges, rotations and token exchanges, by any number of clients and
\* requests, no token is worth more than the consent it descends from.
THEOREM TokensStayWithinGrant == Spec => []TokensWithinGrant
<1>1. GrantInv => TokensWithinGrant
  BY DEF GrantInv, TokensWithinGrant, Rooted
<1> QED
  BY <1>1, GrantInvariance, PTL

\* After a password reset or the deletion of a client, no refresh that raced it leaves its
\* client a refresh token of a grant that had to end.
THEOREM CutGrantsAreOver == Spec => []CutGrantCannotRefresh
<1>1. CutInv => CutGrantCannotRefresh
  BY DEF CutInv, CutGrantCannotRefresh, Closed
<1> QED
  BY <1>1, GrantInvariance, PTL

-----------------------------------------------------------------------------
(* Refinement: what becomes of a grant *)

\* A stored refresh token that is not live never becomes live.
LEMMA SpentKept ==
  ASSUME TypeOK, RequestsInv, [Next]_vars, NEW r \in RefreshId, refresh[r] # "none", refresh'[r] = "live"
  PROVE  refresh[r] = "live"
<1> USE DEF TypeOK, StoreTypeOK, refreshTable, storeVars
<1>1. ASSUME NEW p \in Request, Start(p) PROVE refresh'[r] = refresh[r]
  BY <1>1
  DEF Start, HandleAuthorizationCodeGrant, ExchangeAuthorizationCode, ReplayedAuthorizationCode,
      HandleRefreshTokenGrant, RefreshTokens, HandleRevoke, RevokeRefreshToken, RevokeAccessToken,
      HandleClientCredentialsGrant, GenerateClientCredentialsTokens, HandleTokenExchangeGrant, ExchangeToken,
      RevokeUserCredentials, DeleteClient, CleanupExpiredTokens
<1>2. ASSUME NEW p \in Request, Step(p) PROVE refresh[r] = "live"
  <2>1. ASSUME NEW b \in RefreshId, StoreRefresh(p, b) PROVE refresh[r] = "live"
    BY <2>1 DEF StoreRefresh, RefreshCreate
  <2>2. CASE ClaimRefresh(p)
    <3>1. tok[p] \in RefreshId
      BY <2>2 DEF ClaimRefresh, RequestsInv, Refreshing
    <3> QED
      BY <2>2, <3>1 DEF ClaimRefresh, RefreshRevoke
  <2>3. CASE Respond(p) \/ ConfirmRefresh(p)
    BY <2>3 DEF Respond, ConfirmRefresh
  <2>4. ASSUME TokensCalm PROVE refresh[r] = "live"
    BY <2>4 DEF TokensCalm
  <2> QED
    BY <1>2, <2>1, <2>2, <2>3, <2>4, StepTokensCalm
<1>3. CASE Authorize \/ Expire \/ \E p \in Request : Abort(p)
  BY <1>3 DEF Authorize, GenerateAuthorizationCode, Expire, Abort
<1>4. CASE UNCHANGED vars
  BY <1>4 DEF vars
<1> QED
  BY <1>1, <1>2, <1>3, <1>4 DEF Next

\* A step that hands out a refresh token hands out one, changes no table, and comes from a
\* request whose grant is not over.
LEMMA HandOver ==
  ASSUME TypeOK, RowsInv, RequestsInv, SingleHolder, [Next]_vars,
         NEW r \in RefreshId, r \in delivered', r \notin delivered
  PROVE  /\ UNCHANGED <<code, refresh, refreshRow>>
         /\ RefreshId \cap delivered' = (RefreshId \cap delivered) \cup {r}
         /\ refresh[r] # "none" /\ refreshRow[r].family \in Code
         /\ ~Untouched(refreshRow[r].family) /\ ~Closed(refreshRow[r].family)
         /\ \A s \in RefreshId \cap delivered :
              refreshRow[s].family = refreshRow[r].family => refresh[s] # "live"
<1>1. PICK p \in Request : /\ Handing(p)
                           /\ Respond(p) \/ (ConfirmRefresh(p) /\ RefreshExists(tok[p]))
                           /\ delivered' = delivered \cup {newAccess[p], newRefresh[p]}
  <2>1. ASSUME TokensCalm PROVE FALSE
    BY <2>1 DEF TokensCalm
  <2>2. ASSUME UNCHANGED delivered PROVE FALSE
    BY <2>2
  <2>3. ASSUME NEW p \in Request, Start(p) PROVE FALSE
    BY <2>1, <2>3, StartTokensCalm
  <2>4. ASSUME NEW p \in Request, Step(p) PROVE Respond(p) \/ ConfirmRefresh(p)
    BY <2>1, <2>2, <2>4, StepTokensCalm DEF StoreRefresh, ClaimRefresh
  <2>5. ~(Authorize \/ Expire \/ UNCHANGED vars \/ \E p \in Request : Abort(p))
    BY <2>2 DEF Authorize, GenerateAuthorizationCode, Expire, Abort, vars
  <2>6. PICK p \in Request : Respond(p) \/ ConfirmRefresh(p)
    BY <2>3, <2>4, <2>5 DEF Next
  <2>7. CASE Respond(p)
    BY <2>7 DEF Respond, Handing
  <2>8. CASE ConfirmRefresh(p)
    BY <2>2, <2>8 DEF ConfirmRefresh, Handing
  <2> QED
    BY <2>6, <2>7, <2>8
<1>2. /\ newAccess[p] \in AccessId /\ newRefresh[p] \in RefreshId
      /\ refresh[newRefresh[p]] # "none" /\ refreshRow[newRefresh[p]].family = row[p].family
      /\ row[p].family \in Code /\ ~Untouched(row[p].family)
  BY <1>1 DEF RequestsInv, Handing
<1>3. r = newRefresh[p] /\ RefreshId \cap delivered' = (RefreshId \cap delivered) \cup {r}
  BY <1>1, <1>2, IdsAssumption
<1>4. UNCHANGED <<code, refresh, refreshRow>>
  BY <1>1 DEF Respond, ConfirmRefresh, storeVars
<1>5. ~Closed(row[p].family)
  <2>1. CASE Respond(p)
    BY <2>1 DEF Respond, RequestsInv, Closed, Exchanging, ExchangesCode
  <2>2. CASE ConfirmRefresh(p) /\ RefreshExists(tok[p])
    BY <2>2 DEF ConfirmRefresh, RequestsInv, Refreshing, Closed
  <2> QED
    BY <1>1, <2>1, <2>2
<1>6. ASSUME NEW s \in RefreshId \cap delivered, refreshRow[s].family = row[p].family
      PROVE  refresh[s] # "live"
  BY <1>1, <1>3, <1>6 DEF SingleHolder
<1> QED
  BY <1>2, <1>3, <1>4, <1>5, <1>6

\* What a client was handed it keeps.
LEMMA DeliveredGrows ==
  ASSUME [Next]_vars
  PROVE  delivered \subseteq delivered'
<1>1. ASSUME NEW p \in Request, Start(p) PROVE delivered \subseteq delivered'
  BY <1>1
  DEF Start, HandleAuthorizationCodeGrant, ExchangeAuthorizationCode, ReplayedAuthorizationCode,
      HandleRefreshTokenGrant, RefreshTokens, HandleRevoke, RevokeRefreshToken, RevokeAccessToken,
      HandleClientCredentialsGrant, GenerateClientCredentialsTokens, HandleTokenExchangeGrant, ExchangeToken,
      RevokeUserCredentials, DeleteClient, CleanupExpiredTokens
<1>2. ASSUME NEW p \in Request, Step(p) PROVE delivered \subseteq delivered'
  BY <1>2
  DEF Step, DeleteExpiredCode, LoadClient, StoreAccess, StoreRefresh, Respond, DeleteExpiredRefresh, ClaimRefresh,
      ConfirmRefresh, RevokeRefreshFamily, RevokeAccessFamily, StoreExchanged, CutUserRefresh, CutClientAccess,
      CutClientRefresh, CleanupAccess, CleanupRefresh
<1>3. CASE Authorize \/ Expire \/ \E p \in Request : Abort(p)
  BY <1>3 DEF Authorize, GenerateAuthorizationCode, Expire, Abort
<1>4. CASE UNCHANGED vars
  BY <1>4 DEF vars
<1> QED
  BY <1>1, <1>2, <1>3, <1>4 DEF Next

\* Before its code is consumed a grant has issued nothing; once it is over nothing of it is
\* left to use.
LEMMA PhaseFacts ==
  ASSUME IInv, NEW f \in Code
  PROVE  /\ Phase(f) \in {"none", "consented", "open", "over"}
         /\ Phase(f) = "none" <=> code[f] = "none"
         /\ Phase(f) = "consented" <=> code[f] = "fresh"
         /\ Phase(f) = "over" <=> ~Untouched(f) /\ Closed(f)
         /\ Spent(f) \subseteq Issued(f)
         /\ Untouched(f) => Issued(f) = {}
         /\ Phase(f) = "over" => Spent(f) = Issued(f)
<1>1. /\ Phase(f) \in {"none", "consented", "open", "over"}
      /\ Phase(f) = "none" <=> code[f] = "none"
      /\ Phase(f) = "consented" <=> code[f] = "fresh"
      /\ Phase(f) = "over" <=> ~Untouched(f) /\ Closed(f)
  BY DEF Phase, Untouched
<1>2. Spent(f) \subseteq Issued(f)
  BY DEF Spent
<1>3. Untouched(f) => Issued(f) = {}
  BY DEF IInv, RowsInv, Issued
<1>4. Closed(f) => Spent(f) = Issued(f)
  BY DEF Closed, Spent, Issued, RefreshExists
<1> QED
  BY <1>1, <1>2, <1>3, <1>4

\* A step that hands out no token of the grant leaves it, moves it on, uses tokens of it or
\* ends it.
LEMMA GrantQuietStep ==
  ASSUME IInv, IInv', [Next]_vars, NEW f \in Code, Issued(f)' = Issued(f)
  PROVE  Promise!Step(f)
<1>1. /\ Spent(f) \subseteq Issued(f)
      /\ Spent(f)' \subseteq Issued(f)
  BY PhaseFacts DEF Spent
<1>2. Spent(f) \subseteq Spent(f)'
  <2> SUFFICES ASSUME NEW r \in Spent(f) PROVE r \in Spent(f)'
    OBVIOUS
  <2>1. r \in RefreshId \cap delivered /\ refresh[r] # "live" /\ r \in Issued(f)'
    BY DEF Spent, Issued
  <2>2. refresh[r] # "none"
    BY <2>1 DEF IInv, RowsInv
  <2> QED
    BY <2>1, <2>2, SpentKept DEF IInv, Spent
<1>3. Phase(f)' = "over" => Spent(f)' = Issued(f)
  <2>1. Phase(f)' = "over" => Closed(f)'
    BY DEF Phase
  <2>2. Closed(f)' => Spent(f)' = Issued(f)'
    BY DEF Closed, Spent, Issued, RefreshExists
  <2> QED
    BY <2>1, <2>2
<1>4. Phase(f) = "over" => Phase(f)' = "over"
  <2>1. Phase(f) = "over" => ~Untouched(f) /\ Closed(f)
    BY PhaseFacts
  <2>2. ~Untouched(f)' /\ Closed(f)' => Phase(f)' = "over"
    BY DEF Phase, Untouched
  <2> QED
    BY <2>1, <2>2, SpentStep, ClosedKept DEF IInv
<1>5. /\ Phase(f) = "none" => Phase(f)' \in {"none", "consented"}
      /\ Phase(f) = "consented" => Phase(f)' \in {"consented", "open", "over"}
      /\ Phase(f) = "open" => Phase(f)' \in {"open", "over"}
  BY CodeForward, PhaseFacts DEF Phase, IInv, TypeOK, StoreTypeOK, CodeStatus
<1>6. Phase(f) \in {"none", "consented"} => Issued(f) = {}
  BY PhaseFacts DEF Untouched
<1>7. Phase(f) \in {"none", "consented", "open", "over"} /\ (Phase(f) = "over" => Spent(f) = Issued(f))
  BY PhaseFacts
<1>8. CASE Phase(f) \in {"none", "consented", "over"} /\ Phase(f)' = Phase(f)
  <2>1. Spent(f)' = Spent(f)
    BY <1>1, <1>2, <1>6, <1>7, <1>8
  <2> QED
    BY <1>8, <2>1 DEF Promise!Step, Promise!Stay, Promise!Keep
<1>9. CASE Phase(f) = "none" /\ Phase(f)' = "consented"
  BY <1>1, <1>2, <1>6, <1>9 DEF Promise!Step, Promise!Consent, Promise!Keep
<1>10. CASE Phase(f) = "consented" /\ Phase(f)' = "open"
  BY <1>1, <1>2, <1>6, <1>10 DEF Promise!Step, Promise!Open, Promise!Keep
<1>11. CASE Phase(f) \in {"consented", "open"} /\ Phase(f)' = "over"
  BY <1>3, <1>11 DEF Promise!Step, Promise!End
<1>12. CASE Phase(f) = "open" /\ Phase(f)' = "open"
  <2>1. Spent(f)' = Spent(f) \cup Spent(f)' /\ Spent(f)' \in SUBSET Issued(f)
    BY <1>1, <1>2
  <2>2. Promise!Use(f, Spent(f)')
    BY <1>12, <2>1 DEF Promise!Use
  <2> QED
    BY <2>1, <2>2 DEF Promise!Step
<1> QED
  BY <1>4, <1>5, <1>7, <1>8, <1>9, <1>10, <1>11, <1>12

\* A step that hands out a token of the grant issues the next one: all earlier ones have been
\* used, and the grant is not over.
LEMMA GrantIssueStep ==
  ASSUME IInv, IInv', [Next]_vars, NEW f \in Code, Issued(f)' # Issued(f)
  PROVE  Promise!Step(f)
<1>1. ASSUME NEW r \in RefreshId \cap delivered PROVE r \in delivered' /\ refreshRow'[r] = refreshRow[r]
  BY DeliveredGrows, RefreshKept DEF IInv, RowsInv
<1>2. PICK r \in RefreshId : r \in delivered' /\ r \notin delivered
  BY <1>1 DEF Issued
<1>3. /\ UNCHANGED <<code, refresh, refreshRow>>
      /\ RefreshId \cap delivered' = (RefreshId \cap delivered) \cup {r}
      /\ ~Untouched(refreshRow[r].family) /\ ~Closed(refreshRow[r].family)
      /\ \A s \in RefreshId \cap delivered :
           refreshRow[s].family = refreshRow[r].family => refresh[s] # "live"
  BY <1>2, HandOver DEF IInv
<1>4. refreshRow[r].family = f
  BY <1>3 DEF Issued
<1>5. Phase(f) = "open" /\ Issued(f) = Spent(f)
  BY <1>3, <1>4 DEF Phase, Untouched, Issued, Spent
<1>6. Issued(f)' = Issued(f) \cup {r} /\ \A g \in Code : r \notin Issued(g)
  BY <1>2, <1>3, <1>4 DEF Issued
<1>7. Spent(f)' = {s \in Issued(f) \cup {r} : refresh[s] # "live"}
  BY <1>3, <1>6 DEF Spent
<1>8. Phase(f)' \in {"open", "over"}
  BY <1>3, <1>4 DEF Phase, Untouched
<1>9. CASE refresh[r] = "live"
  <2>1. Spent(f)' = Spent(f)
    BY <1>5, <1>7, <1>9 DEF Spent
  <2>2. ~Closed(f)'
    BY <1>2, <1>3, <1>4, <1>9 DEF Closed, RefreshExists
  <2>3. Phase(f)' = "open"
    BY <1>3, <1>4, <2>2 DEF Phase, Untouched
  <2>4. Promise!Issue(f, r)
    BY <1>5, <1>6, <2>1, <2>3 DEF Promise!Issue
  <2> QED
    BY <2>4 DEF Promise!Step
<1>10. CASE refresh[r] # "live"
  <2>1. Spent(f)' = Issued(f)'
    BY <1>5, <1>6, <1>7, <1>10 DEF Spent
  <2>2. Promise!Issue(f, r)
    BY <1>5, <1>6, <1>8, <2>1 DEF Promise!Issue
  <2> QED
    BY <2>2 DEF Promise!Step
<1> QED
  BY <1>9, <1>10

\* The token service, with its requests, tables and statements, implements the grants: each
\* step is for every grant a step of the promise or none.
THEOREM ServiceImplementsGrant == Spec => ImplementsGrant
<1>1. Init => Promise!Init
  <2> SUFFICES ASSUME Init PROVE Promise!Init
    OBVIOUS
  <2>1. \A f \in Code : Phase(f) = "none" /\ Issued(f) = {} /\ Spent(f) = {}
    BY DEF Init, StoreInit, Phase, Issued, Spent
  <2> QED
    BY <2>1 DEF Promise!Init
<1>2. IInv /\ IInv' /\ [Next]_vars => [Promise!Next]_(Promise!vars)
  BY GrantQuietStep, GrantIssueStep DEF Promise!Next
<1> QED
  BY <1>1, <1>2, Invariance, PTL DEF Spec, ImplementsGrant, Promise!Spec

-----------------------------------------------------------------------------
(* The other grant: device codes.  Tables and requests of DeviceGrant are   *)
(* its own, so it is an instance here, over what DeviceOutcome has; users,  *)
(* clients and faults are shared, and what DeviceGrant assumes of its       *)
(* constants is a hypothesis.                                               *)

CONSTANTS Poller, Decider

VARIABLES
  deviceUser, devicePolled, deviceClient, deviceExpired, devicePc, deviceTarget,
  deviceStatusRead, deviceUserRead, devicePolledRead

Device == INSTANCE DeviceGrant WITH
  user <- deviceUser, polled <- devicePolled, client <- deviceClient,
  expired <- deviceExpired, pc <- devicePc, target <- deviceTarget,
  statusRead <- deviceStatusRead, userRead <- deviceUserRead, polledRead <- devicePolledRead

\* With an empty table and idle requests the invariant holds.
LEMMA DeviceInit == Device!DeviceAssumption /\ Device!Init => Device!IInv
  BY DEF Device!DeviceAssumption, Device!Init, Device!IInv, Device!TypeOK, Device!ApprovalsInv,
         Device!IssuedToApprover, Device!PC, Device!RowStatus, Device!Recency

\* Every step keeps types and approvals: a copy of a row is taken from the row
\* as it is, and only ApproveDeviceCode writes a new approval into a copy.
LEMMA DeviceNext ==
  Device!DeviceAssumption /\ Device!IInv /\ [Device!Next]_(Device!vars) => Device!IInv'
<1> SUFFICES ASSUME Device!DeviceAssumption, Device!IInv, [Device!Next]_(Device!vars) PROVE Device!IInv'
  OBVIOUS
<1> USE DEF Device!DeviceAssumption, Device!IInv, Device!TypeOK, Device!ApprovalsInv,
           Device!IssuedToApprover, Device!table, Device!request, Device!tokens, Device!history,
           Device!PC, Device!RowStatus, Device!Recency, Device!Request, Device!Exists,
           Device!Begin, Device!Return, Device!Goto, Device!DeviceCodeUpdate,
           Device!DeviceCodeDeleteRows
<1>1. ASSUME NEW d \in DeviceCode, NEW c \in Client, Device!CreateDeviceAuthorization(d, c)
      PROVE  Device!IInv'
  BY <1>1 DEF Device!CreateDeviceAuthorization, Device!DeviceCodeCreate
<1>2. ASSUME NEW p \in Poller, Device!Poll(p) PROVE Device!IInv'
  <2>1. ASSUME NEW d \in DeviceCode, NEW c \in Client, Device!ExchangeDeviceCode(p, d, c)
        PROVE  Device!IInv'
    BY <2>1 DEF Device!ExchangeDeviceCode, Device!Overlap
  <2>2. CASE Device!RecordPoll(p)
    <3>1. CASE Device!DeviceCodeUpdate(deviceTarget[p], deviceStatusRead[p], deviceUserRead[p], "recent")
      BY <2>2, <3>1 DEF Device!RecordPoll
    <3>2. CASE UNCHANGED Device!table
      BY <2>2, <3>2 DEF Device!RecordPoll
    <3> QED
      BY <2>2, <3>1, <3>2 DEF Device!RecordPoll
  <2>3. CASE Device!DeleteRefused(p)
    BY <2>3 DEF Device!DeleteRefused, Device!DeviceCodeDelete
  <2>4. CASE Device!DeleteApproved(p)
    BY <2>4 DEF Device!DeleteApproved, Device!DeviceCodeDelete
  <2>5. ASSUME NEW t \in Token, Device!IssueTokens(p, t) PROVE Device!IInv'
    BY <2>5 DEF Device!IssueTokens
  <2> QED
    BY <1>2, <2>1, <2>2, <2>3, <2>4, <2>5 DEF Device!Poll
<1>3. ASSUME NEW p \in Decider, Device!Decide(p) PROVE Device!IInv'
  <2>1. ASSUME NEW d \in DeviceCode, NEW u \in User, Device!ApproveDeviceCode(p, d, u)
        PROVE  Device!IInv'
    BY <2>1 DEF Device!ApproveDeviceCode, Device!ResolveDeviceCode, Device!Overlap
  <2>2. ASSUME NEW d \in DeviceCode, Device!DenyDeviceCode(p, d) PROVE Device!IInv'
    BY <2>2 DEF Device!DenyDeviceCode, Device!ResolveDeviceCode, Device!Overlap
  <2>3. CASE Device!SaveDecision(p)
    BY <2>3 DEF Device!SaveDecision
  <2> QED
    BY <1>3, <2>1, <2>2, <2>3 DEF Device!Decide
<1>4. ASSUME NEW p \in Device!Request, Device!Abort(p) PROVE Device!IInv'
  BY <1>4 DEF Device!Abort
<1>5. CASE Device!IntervalPasses
  BY <1>5 DEF Device!IntervalPasses
<1>6. CASE Device!Expire
  BY <1>6 DEF Device!Expire
<1>7. CASE Device!DeleteExpired
  BY <1>7 DEF Device!DeleteExpired, Device!DeviceCodeDeleteExpired
<1>8. CASE UNCHANGED Device!vars
  BY <1>8 DEF Device!vars
<1> QED
  BY <1>1, <1>2, <1>3, <1>4, <1>5, <1>6, <1>7, <1>8 DEF Device!Next

\* At the start nobody works on a code.
LEMMA DeviceTurnInit == Device!DeviceAssumption /\ Device!Init => Device!TurnInv
  BY DEF Device!DeviceAssumption, Device!Init, Device!TurnInv, Device!AloneInv, Device!InTurnInv,
         Device!Collected, Device!SingleUseInTurn, Device!DecisionIsKept

\* Every step notices when it meets another request on its code.
LEMMA DeviceAloneNext ==
  Device!DeviceAssumption /\ Device!IInv /\ Device!AloneInv /\ [Device!Next]_(Device!vars) => Device!AloneInv'
<1> SUFFICES ASSUME Device!DeviceAssumption, Device!IInv, Device!AloneInv, [Device!Next]_(Device!vars)
             PROVE  Device!AloneInv'
  OBVIOUS
<1> USE DEF Device!DeviceAssumption, Device!IInv, Device!TypeOK, Device!ApprovalsInv,
           Device!AloneInv, Device!Collected, Device!table, Device!request, Device!tokens,
           Device!history, Device!PC, Device!RowStatus, Device!Request, Device!Exists,
           Device!Begin, Device!Return, Device!Goto
<1>1. ASSUME NEW d \in DeviceCode, NEW c \in Client, Device!CreateDeviceAuthorization(d, c)
      PROVE  Device!AloneInv'
  BY <1>1 DEF Device!CreateDeviceAuthorization, Device!DeviceCodeCreate
<1>2. ASSUME NEW p \in Poller, NEW d \in DeviceCode, NEW c \in Client, Device!ExchangeDeviceCode(p, d, c)
      PROVE  Device!AloneInv'
  BY <1>2 DEF Device!ExchangeDeviceCode, Device!Overlap
<1>3. ASSUME NEW p \in Poller, Device!RecordPoll(p) PROVE Device!AloneInv'
  BY <1>3 DEF Device!RecordPoll, Device!DeviceCodeUpdate
<1>4. ASSUME NEW p \in Poller, Device!DeleteRefused(p) \/ Device!DeleteApproved(p)
      PROVE  Device!AloneInv'
  BY <1>4 DEF Device!DeleteRefused, Device!DeleteApproved, Device!DeviceCodeDelete,
         Device!DeviceCodeDeleteRows
<1>5. ASSUME NEW p \in Poller, NEW t \in Token, Device!IssueTokens(p, t) PROVE Device!AloneInv'
  BY <1>5 DEF Device!IssueTokens
<1>6. ASSUME NEW p \in Decider, NEW d \in DeviceCode, NEW st \in {"approved", "denied"},
             NEW u \in User \cup {None}, Device!ResolveDeviceCode(p, d, st, u)
      PROVE  Device!AloneInv'
  BY <1>6 DEF Device!ResolveDeviceCode, Device!Overlap
<1>7. ASSUME NEW p \in Decider, Device!SaveDecision(p) PROVE Device!AloneInv'
  BY <1>7 DEF Device!SaveDecision, Device!DeviceCodeUpdate
<1>8. ASSUME NEW p \in Device!Request, Device!Abort(p) PROVE Device!AloneInv'
  BY <1>8 DEF Device!Abort
<1>9. CASE Device!IntervalPasses \/ Device!Expire
  BY <1>9 DEF Device!IntervalPasses, Device!Expire
<1>10. CASE Device!DeleteExpired
  BY <1>10 DEF Device!DeleteExpired, Device!DeviceCodeDeleteExpired, Device!DeviceCodeDeleteRows
<1>11. CASE UNCHANGED Device!vars
  BY <1>11 DEF Device!vars
<1>12. ASSUME NEW p \in Decider, Device!Decide(p) PROVE Device!AloneInv'
  BY <1>6, <1>7, <1>12 DEF Device!Decide, Device!ApproveDeviceCode, Device!DenyDeviceCode
<1> QED
  BY <1>1, <1>2, <1>3, <1>4, <1>5, <1>8, <1>9, <1>10, <1>11, <1>12 DEF Device!Next, Device!Poll

\* Without races the copy of the request at work agrees with the row.
LEMMA DeviceInTurnNext ==
  Device!DeviceAssumption /\ Device!IInv /\ Device!TurnInv /\ [Device!Next]_(Device!vars) => Device!InTurnInv'
<1> SUFFICES ASSUME Device!DeviceAssumption, Device!IInv, Device!TurnInv, [Device!Next]_(Device!vars)
             PROVE  Device!InTurnInv'
  OBVIOUS
<1> USE DEF Device!DeviceAssumption, Device!IInv, Device!TypeOK, Device!ApprovalsInv,
           Device!TurnInv, Device!AloneInv, Device!InTurnInv, Device!Collected,
           Device!SingleUseInTurn, Device!DecisionIsKept, Device!table, Device!request,
           Device!tokens, Device!history, Device!PC, Device!RowStatus, Device!Request,
           Device!Exists, Device!Begin, Device!Return, Device!Goto
<1>1. ASSUME NEW d \in DeviceCode, NEW c \in Client, Device!CreateDeviceAuthorization(d, c)
      PROVE  Device!InTurnInv'
  BY <1>1 DEF Device!CreateDeviceAuthorization, Device!DeviceCodeCreate
<1>2. ASSUME NEW p \in Poller, NEW d \in DeviceCode, NEW c \in Client, Device!ExchangeDeviceCode(p, d, c)
      PROVE  Device!InTurnInv'
  BY <1>2 DEF Device!ExchangeDeviceCode, Device!Overlap
<1>3. ASSUME NEW p \in Poller, Device!RecordPoll(p) PROVE Device!InTurnInv'
  BY <1>3 DEF Device!RecordPoll, Device!DeviceCodeUpdate
<1>4. ASSUME NEW p \in Poller, Device!DeleteRefused(p) \/ Device!DeleteApproved(p)
      PROVE  Device!InTurnInv'
  <2>1. /\ deviceTarget[p] \in DeviceCode
        /\ status' = [d \in DeviceCode |->
             IF d = deviceTarget[p] /\ Device!Exists(d) THEN "deleted" ELSE status[d]]
        /\ UNCHANGED <<Device!tokens, Device!history>>
    BY <1>4 DEF Device!DeleteRefused, Device!DeleteApproved, Device!DeviceCodeDelete,
           Device!DeviceCodeDeleteRows
  <2>2. status'[deviceTarget[p]] = "deleted"
    BY <1>4, <2>1 DEF Device!DeleteRefused, Device!DeleteApproved
  <2>3. CASE Device!DeleteRefused(p)
    BY <2>1, <2>2, <2>3 DEF Device!DeleteRefused
  <2>4. CASE Device!DeleteApproved(p)
    BY <2>1, <2>2, <2>4 DEF Device!DeleteApproved
  <2> QED
    BY <1>4, <2>3, <2>4
<1>5. ASSUME NEW p \in Poller, NEW t \in Token, Device!IssueTokens(p, t) PROVE Device!InTurnInv'
  BY <1>5 DEF Device!IssueTokens
<1>6. ASSUME NEW p \in Decider, NEW d \in DeviceCode, NEW st \in {"approved", "denied"},
             NEW u \in User \cup {None}, Device!ResolveDeviceCode(p, d, st, u)
      PROVE  Device!InTurnInv'
  BY <1>6 DEF Device!ResolveDeviceCode, Device!Overlap
<1>7. ASSUME NEW p \in Decider, Device!SaveDecision(p) PROVE Device!InTurnInv'
  BY <1>7 DEF Device!SaveDecision, Device!DeviceCodeUpdate
<1>8. ASSUME NEW p \in Device!Request, Device!Abort(p) PROVE Device!InTurnInv'
  BY <1>8 DEF Device!Abort
<1>9. CASE Device!IntervalPasses \/ Device!Expire
  BY <1>9 DEF Device!IntervalPasses, Device!Expire
<1>10. CASE Device!DeleteExpired
  BY <1>10 DEF Device!DeleteExpired, Device!DeviceCodeDeleteExpired, Device!DeviceCodeDeleteRows
<1>11. CASE UNCHANGED Device!vars
  BY <1>11 DEF Device!vars
<1>12. ASSUME NEW p \in Decider, Device!Decide(p) PROVE Device!InTurnInv'
  BY <1>6, <1>7, <1>12 DEF Device!Decide, Device!ApproveDeviceCode, Device!DenyDeviceCode
<1> QED
  BY <1>1, <1>2, <1>3, <1>4, <1>5, <1>8, <1>9, <1>10, <1>11, <1>12 DEF Device!Next, Device!Poll

\* Tokens are only ever issued to a user who approved the device code, however
\* the saves of polls and decisions overwrite each other.
THEOREM ApprovalIsReal ==
  ASSUME Device!DeviceAssumption PROVE Device!Spec => []IssuedToApprover
<1>1. Device!Init => Device!IInv
  BY DeviceInit
<1>2. Device!IInv /\ [Device!Next]_(Device!vars) => Device!IInv'
  BY DeviceNext
<1>3. Device!IInv => IssuedToApprover
  BY DEF Device!IInv, Device!IssuedToApprover, IssuedToApprover
<1> QED
  BY <1>1, <1>2, <1>3, PTL DEF Device!Spec

\* Requests that take turns: the invariant of a code that no two of them raced for.
THEOREM DeviceTurns ==
  ASSUME Device!DeviceAssumption PROVE Device!Spec => [](Device!IInv /\ Device!TurnInv)
<1>1. Device!Init => Device!IInv /\ Device!TurnInv
  BY DeviceInit, DeviceTurnInit
<1>2. Device!IInv /\ Device!TurnInv /\ [Device!Next]_(Device!vars) => (Device!IInv /\ Device!TurnInv)'
  BY DeviceNext, DeviceAloneNext, DeviceInTurnNext DEF Device!TurnInv
<1> QED
  BY <1>1, <1>2, PTL DEF Device!Spec

\* A code that no two requests were at work on at once is collected once.
THEOREM CollectedOnce ==
  ASSUME Device!DeviceAssumption PROVE Device!Spec => []SingleUseInTurn
<1>1. Device!IInv /\ Device!TurnInv => SingleUseInTurn
  BY DEF Device!TurnInv, Device!InTurnInv, Device!SingleUseInTurn, SingleUseInTurn
<1> QED
  BY <1>1, DeviceTurns, PTL

\* And the decision on it stands until it is collected or expires.
THEOREM DecisionStands ==
  ASSUME Device!DeviceAssumption PROVE Device!Spec => []DecisionIsKept
<1>1. Device!IInv /\ Device!TurnInv => DecisionIsKept
  BY DEF Device!TurnInv, Device!InTurnInv, Device!DecisionIsKept, DecisionIsKept
<1> QED
  BY <1>1, DeviceTurns, PTL
=============================================================================
