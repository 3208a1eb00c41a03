----------------------------- MODULE TokenStore -----------------------------
(***************************************************************************)
(* The tables the token service works on and the SQL statements that       *)
(* change them (internal/repo/gorm/{auth_code,access_token,refresh_token,  *)
(* client}.go).  Each operator below is ONE statement: PostgreSQL runs a   *)
(* single statement atomically, and nothing in the repository layer opens  *)
(* a transaction around two of them, so statements of concurrent requests  *)
(* interleave freely.                                                      *)
(*                                                                         *)
(* Ids are never reused: codes and tokens are random strings.  A row has a *)
(* status that moves forward only (it is created, maybe marked, deleted)   *)
(* and contents that are fixed when it is created.  All statements carry   *)
(* the tenant id, so one tenant is modelled.                               *)
(***************************************************************************)
EXTENDS FiniteSets, Naturals

CONSTANTS
  Code,        \* authorization codes; the row id of a code names its family
  AccessId,    \* access tokens
  RefreshId,   \* refresh tokens
  Client,      \* registered clients
  User,        \* users
  Scope,       \* scope values
  None         \* SQL NULL, uuid.Nil

ASSUME IdsAssumption ==
  /\ None \notin Code \cup AccessId \cup RefreshId \cup Client \cup User
  /\ Code \cap AccessId = {}
  /\ Code \cap RefreshId = {}
  /\ AccessId \cap RefreshId = {}

VARIABLES
  code,        \* authorization_codes: status of the row of each code
  codeRow,     \* what the row binds the code to
  access,      \* access_tokens: status of each row
  accessRow,
  refresh,     \* refresh_tokens: status of each row
  refreshRow,
  expired,     \* ids whose expires_at has passed
  clients      \* clients that have a (not soft-deleted) row

codeTable    == <<code, codeRow>>
accessTable  == <<access, accessRow>>
refreshTable == <<refresh, refreshRow>>
storeVars    == <<code, codeRow, access, accessRow, refresh, refreshRow, expired, clients>>

(***************************************************************************)
(* The columns the token service reads back from a row.  A token that no   *)
(* user stands behind has user None; one outside any rotation family (its  *)
(* family_id is a fresh UUID no other row has) has family None.            *)
(***************************************************************************)
Row == [family : Code \cup {None}, client : Client \cup {None},
        user : User \cup {None}, scope : SUBSET Scope]

NoRow == [family |-> None, client |-> None, user |-> None, scope |-> {}]

\* used_at IS NULL is "fresh"; used_at set is "used"
CodeStatus    == {"none", "fresh", "used", "deleted"}
AccessStatus  == {"none", "live", "deleted"}
\* revoked_at IS NULL is "live"; revoked_at set is "rotated"
RefreshStatus == {"none", "live", "rotated", "deleted"}

StoreTypeOK ==
  /\ code \in [Code -> CodeStatus]
  /\ codeRow \in [Code -> Row]
  /\ access \in [AccessId -> AccessStatus]
  /\ accessRow \in [AccessId -> Row]
  /\ refresh \in [RefreshId -> RefreshStatus]
  /\ refreshRow \in [RefreshId -> Row]
  /\ expired \subseteq Code \cup AccessId \cup RefreshId
  /\ clients \subseteq Client

StoreInit ==
  /\ code = [f \in Code |-> "none"]
  /\ codeRow = [f \in Code |-> NoRow]
  /\ access = [a \in AccessId |-> "none"]
  /\ accessRow = [a \in AccessId |-> NoRow]
  /\ refresh = [r \in RefreshId |-> "none"]
  /\ refreshRow = [r \in RefreshId |-> NoRow]
  /\ expired = {}
  /\ clients = Client

-----------------------------------------------------------------------------
(* authorization_codes *)

AuthCodeCreate(f, row) ==
  /\ code[f] = "none"
  /\ code' = [code EXCEPT ![f] = "fresh"]
  /\ codeRow' = [codeRow EXCEPT ![f] = row]

\* UPDATE ... SET used_at WHERE used_at IS NULL RETURNING *: claims the code
AuthCodeConsume(f) ==
  /\ code[f] = "fresh"
  /\ code' = [code EXCEPT ![f] = "used"]
  /\ UNCHANGED codeRow

\* DELETE of the rows of a set of codes
AuthCodeDeleteRows(codes) ==
  /\ code' = [f \in Code |->
                IF f \in codes /\ code[f] \in {"fresh", "used"} THEN "deleted" ELSE code[f]]
  /\ UNCHANGED codeRow

AuthCodeDelete(f) == AuthCodeDeleteRows({f})

AuthCodeDeleteExpired == AuthCodeDeleteRows(expired)

-----------------------------------------------------------------------------
(* access_tokens *)

AccessCreate(a, row) ==
  /\ access[a] = "none"
  /\ access' = [access EXCEPT ![a] = "live"]
  /\ accessRow' = [accessRow EXCEPT ![a] = row]

\* DELETE of the rows of a set of ids
AccessDeleteRows(ids) ==
  /\ access' = [a \in AccessId |->
                  IF a \in ids /\ access[a] = "live" THEN "deleted" ELSE access[a]]
  /\ UNCHANGED accessRow

AccessDelete(a) == AccessDeleteRows({a})

AccessDeleteByFamilyID(f) == AccessDeleteRows({a \in AccessId : accessRow[a].family = f})

AccessDeleteByUserID(u) == AccessDeleteRows({a \in AccessId : accessRow[a].user = u})

AccessDeleteByClientID(c) == AccessDeleteRows({a \in AccessId : accessRow[a].client = c})

AccessDeleteExpired == AccessDeleteRows(expired)

-----------------------------------------------------------------------------
(* refresh_tokens *)

RefreshCreate(r, row) ==
  /\ refresh[r] = "none"
  /\ refresh' = [refresh EXCEPT ![r] = "live"]
  /\ refreshRow' = [refreshRow EXCEPT ![r] = row]

\* GetByToken finds the row, rotated or not
RefreshExists(r) == refresh[r] \in {"live", "rotated"}

\* Mutant: the claim without its condition on revoked_at
RefreshRevokeUnconditional(r) ==
  /\ RefreshExists(r)
  /\ refresh' = [refresh EXCEPT ![r] = "rotated"]
  /\ UNCHANGED refreshRow

\* UPDATE ... SET revoked_at WHERE revoked_at IS NULL: claims the token
RefreshRevoke(r) ==
  /\ refresh[r] = "live"
  /\ refresh' = [refresh EXCEPT ![r] = "rotated"]
  /\ UNCHANGED refreshRow

RefreshDeleteRows(ids) ==
  /\ refresh' = [r \in RefreshId |->
                   IF r \in ids /\ RefreshExists(r) THEN "deleted" ELSE refresh[r]]
  /\ UNCHANGED refreshRow

RefreshDelete(r) == RefreshDeleteRows({r})

\* Mutant: rotated tokens are kept when the family is deleted
RefreshDeleteLiveByFamilyID(f) ==
  RefreshDeleteRows({r \in RefreshId : refreshRow[r].family = f /\ refresh[r] = "live"})

RefreshDeleteByFamilyID(f) == RefreshDeleteRows({r \in RefreshId : refreshRow[r].family = f})

\* Mutant: rotated tokens are kept when the user's tokens are deleted
RefreshDeleteLiveByUserID(u) ==
  RefreshDeleteRows({r \in RefreshId : refreshRow[r].user = u /\ refresh[r] = "live"})

RefreshDeleteByUserID(u) == RefreshDeleteRows({r \in RefreshId : refreshRow[r].user = u})

RefreshDeleteByClientID(c) == RefreshDeleteRows({r \in RefreshId : refreshRow[r].client = c})

RefreshDeleteExpired == RefreshDeleteRows(expired)

-----------------------------------------------------------------------------
(* clients *)

\* Soft delete: the row is no longer found by any query
ClientDelete(c) == clients' = clients \ {c}

\* Time passes and the expires_at of a stored row is reached
RowExpires(id) ==
  /\ id \notin expired
  /\ \/ id \in Code /\ code[id] \in {"fresh", "used"}
     \/ id \in AccessId /\ access[id] = "live"
     \/ id \in RefreshId /\ RefreshExists(id)
  /\ expired' = expired \cup {id}
=============================================================================
