------------------------------ MODULE Clients ------------------------------
(***************************************************************************)
(* The clients of one tenant: management (internal/services/               *)
(* client_service_impl.go), dynamic registration with initial access       *)
(* tokens (registration_service_impl.go, client_metadata.go) and the       *)
(* check of a client's secret with its cache per replica                   *)
(* (client_secret_cache.go).  A change reads the row, edits its copy and   *)
(* saves the whole row; every statement is a step.  Revoking the tokens of *)
(* a deleted client is in TokenGrants.                                     *)
(***************************************************************************)
EXTENDS Naturals, FiniteSets

CONSTANTS
  Client,      \* client ids, generated
  Token,       \* initial access tokens, generated
  Secret,      \* client secrets, generated
  Scope,
  Metadata,    \* what registrations and updates send
  Uses,        \* the values of max_uses considered
  Replica,     \* servers, each with its cache
  CacheLimit,  \* maxCachedClientSecrets
  Request,     \* slots for requests in progress
  None,
  Workload     \* mixes of operations, and of how many clients, to consider

Operation ==
  {"createToken", "revokeToken", "register", "selfUpdate", "selfDelete", "create", "update",
   "delete", "validate", "expiry", "failure"}

GrantType == {"code", "refresh", "credentials", "device", "exchange"}

\* Redirect URIs and names are reduced to whether there are good ones, response types to
\* none, code alone, or something else
MetadataTypes == [grants : SUBSET GrantType, public : BOOLEAN, uris : {"none", "good", "bad"},
                  responses : {"none", "code", "other"}, scopes : SUBSET Scope]

\* bcrypt: every hash is of one secret, and tells only whether a secret is that one
Hash == [of : Secret]
HashOf(s) == [of |-> s]
Matches(hash, s) == hash # None /\ hash.of = s

ClientRow ==
  [live : BOOLEAN, dynamic : BOOLEAN, public : BOOLEAN, hash : Hash \cup {None},
   scopes : SUBSET Scope, grants : SUBSET GrantType]

TokenRow == [scopes : SUBSET Scope, max : Uses, uses : Nat, revoked : BOOLEAN, expired : BOOLEAN]

\* A request: its parameters (keep when an update leaves is_public alone), and the row it
\* read or is about to insert
Context ==
  [doing : Operation \cup {"none"}, client : Client \cup {None}, token : Token \cup {None},
   meta : Metadata \cup {None}, secret : Secret \cup {None}, replica : Replica \cup {None},
   row : ClientRow \cup {None}, keep : BOOLEAN]

Nothing ==
  [doing |-> "none", client |-> None, token |-> None, meta |-> None, secret |-> None,
   replica |-> None, row |-> None, keep |-> FALSE]

ASSUME ClientsAssumption ==
  /\ None \notin Client \cup Token \cup Secret \cup Metadata \cup Replica
  /\ Metadata \subseteq MetadataTypes
  /\ Uses \subseteq Nat
  /\ CacheLimit \in Nat \ {0}
  /\ IsFiniteSet(Request)
  /\ Workload \subseteq [ops : SUBSET Operation, clients : Nat]

ASSUME NoneAssumption == None \notin Hash /\ None \notin ClientRow /\ None \notin TokenRow

VARIABLES
  client,      \* the clients table; a deleted client keeps its row
  token,       \* initial_access_tokens
  cache,       \* per replica the entries: client and hash are the key, mac is of the secret
  pc, req, mix,
  generated,   \* secrets that have been generated
  \* history
  registered,  \* clients registered with each token
  spent,       \* uses of each token after which no client was created
  ceiling,     \* scopes each registered client was last allowed to have
  deleted,     \* clients that have been deleted
  managed,     \* registered clients an administrator has changed
  disturbed,   \* clients saved or deleted while another request held a copy to save
  known        \* per validation, the secrets that were the client's since it began

tables  == <<client, token, cache>>
request == <<pc, req, mix>>
history == <<registered, spent, ceiling, deleted, managed, disturbed>>
vars    == <<tables, request, generated, history, known>>

PC ==
  {"idle", "getToken", "consume", "insert", "authorize", "getByID", "save", "delete",
   "getClient", "compare", "remember", "accepted"}

\* Tables, caches, requests and history have their types.
TypeOK ==
  /\ client \in [Client -> ClientRow \cup {None}]
  /\ token \in [Token -> TokenRow \cup {None}]
  /\ \A k \in Replica :
       /\ cache[k] \subseteq [client : Client, hash : Hash, mac : Secret]
       /\ Cardinality(cache[k]) <= CacheLimit
  /\ pc \in [Request -> PC]
  /\ req \in [Request -> Context]
  /\ mix \in [ops : SUBSET Operation, clients : Nat]
  /\ generated \subseteq Secret
  /\ registered \in [Token -> Nat] /\ spent \in [Token -> Nat]
  /\ ceiling \in [Client -> SUBSET Scope]
  /\ deleted \subseteq Client /\ managed \subseteq Client /\ disturbed \subseteq Client
  /\ known \in [Request -> SUBSET (Secret \cup {None})]

Init ==
  /\ client = [c \in Client |-> None]
  /\ token = [t \in Token |-> None]
  /\ cache = [k \in Replica |-> {}]
  /\ pc = [p \in Request |-> "idle"]
  /\ req = [p \in Request |-> Nothing]
  /\ mix \in Workload
  /\ generated = {}
  /\ registered = [t \in Token |-> 0]
  /\ spent = [t \in Token |-> 0]
  /\ ceiling = [c \in Client |-> {}]
  /\ deleted = {} /\ managed = {} /\ disturbed = {}
  /\ known = [p \in Request |-> {}]

-----------------------------------------------------------------------------
(* Rows *)

Live(c) == client[c] # None /\ client[c].live

\* Mutant: look-ups find deleted rows too
FindDeleted(c) == IF client[c] = None THEN None ELSE [client[c] EXCEPT !.live = TRUE]

\* GetByID and GetByClientID see only rows that are not deleted
Find(c) == IF Live(c) THEN client[c] ELSE None

\* An id that no row and no request has; a bound: there are at most mix.clients clients
Fresh(c) ==
  LET used == {d \in Client : client[d] # None \/ \E p \in Request : req[p].client = d}
  IN c \notin used /\ Cardinality(used) < mix.clients

Know(p, next, context) ==
  /\ pc' = [pc EXCEPT ![p] = next]
  /\ req' = [req EXCEPT ![p] = context]
  /\ UNCHANGED mix

Goto(p, next) == Know(p, next, req[p])
Return(p) == Know(p, "idle", Nothing)

Start(p, operation, next, context) ==
  /\ pc[p] = "idle" /\ operation \in mix.ops
  /\ Know(p, next, [context EXCEPT !.doing = operation])
  /\ UNCHANGED <<tables, generated, history>>

\* Others that hold a copy of the row and will save it
Disturb(p, c) ==
  disturbed' = disturbed \cup
    (IF \E q \in Request \ {p} : pc[q] = "save" /\ req[q].client = c THEN {c} ELSE {})

\* Save writes the whole copy; when the row was deleted meanwhile it inserts it again
Save(p, c, row) ==
  /\ client' = [client EXCEPT ![c] = row]
  /\ Disturb(p, c)

\* A secret for a confidential client that has none, else what there is
Secrets(public, hash) ==
  CASE public -> {None}
    [] ~public /\ hash = None -> {HashOf(s) : s \in Secret \ generated}
    [] OTHER -> {hash}

Generated(hash) == generated' = generated \cup (IF hash = None THEN {} ELSE {hash.of})

-----------------------------------------------------------------------------
(* Metadata *)

dynamicGrantTypes == {"code", "refresh", "credentials", "device"}

\* No grants means the code grant
Grants(meta) == IF meta.grants = {} THEN {"code"} ELSE meta.grants

validateClientMetadata(meta) ==
  /\ Grants(meta) \subseteq dynamicGrantTypes
  /\ "refresh" \in Grants(meta) => Grants(meta) \cap {"code", "device"} # {}
  /\ meta.responses # "none" => meta.responses = "code" /\ "code" \in Grants(meta)
  /\ meta.public => "credentials" \notin Grants(meta)
  /\ meta.uris # "bad"
  /\ "code" \in Grants(meta) => meta.uris = "good"

\* Mutant: any scope will do
ScopesOfAny(meta, limit) == IF meta.scopes = {} THEN limit ELSE meta.scopes

\* The scopes asked for, by default all; None when they go beyond the limit
ScopesOf(meta, limit) ==
  IF meta.scopes = {} THEN limit
  ELSE IF meta.scopes \subseteq limit THEN meta.scopes ELSE None

-----------------------------------------------------------------------------
(* Initial access tokens *)

CreateInitialAccessToken(t, scopes, max) ==
  /\ "createToken" \in mix.ops /\ token[t] = None
  /\ scopes # {}
  /\ token' = [token EXCEPT ![t] = [scopes |-> scopes, max |-> max, uses |-> 0,
                                    revoked |-> FALSE, expired |-> FALSE]]
  /\ UNCHANGED <<client, cache, request, generated, history>>

RevokeInitialAccessToken(t) ==
  /\ "revokeToken" \in mix.ops /\ token[t] # None /\ ~token[t].revoked
  /\ token' = [token EXCEPT ![t].revoked = TRUE]
  /\ UNCHANGED <<client, cache, request, generated, history>>

TokenExpires(t) ==
  /\ "expiry" \in mix.ops /\ token[t] # None
  /\ token' = [token EXCEPT ![t].expired = TRUE]
  /\ UNCHANGED <<client, cache, request, generated, history>>

-----------------------------------------------------------------------------
(* Registration *)

Register(p, t, meta) ==
  Start(p, "register", "getToken", [Nothing EXCEPT !.token = t, !.meta = meta])

\* The token is looked up whatever its state, and the metadata held against it
GetByHash(p) ==
  /\ pc[p] = "getToken"
  /\ LET t == req[p].token IN
     IF token[t] # None /\ validateClientMetadata(req[p].meta) /\ ScopesOf(req[p].meta, token[t].scopes) # None
     THEN Know(p, "consume",
               [req[p] EXCEPT !.row =
                 [live |-> TRUE, dynamic |-> TRUE, public |-> req[p].meta.public, hash |-> None,
                  scopes |-> ScopesOf(req[p].meta, token[t].scopes), grants |-> Grants(req[p].meta)]])
     ELSE Return(p)
  /\ UNCHANGED <<tables, generated, history>>

\* Mutant: the token is not checked again when it is used
ConsumableAtRead(t) == ~token[t].revoked /\ ~token[t].expired

\* The WHERE clause of the UPDATE that counts the use
Consumable(t) == ~token[t].revoked /\ ~token[t].expired /\ token[t].uses < token[t].max

Consume(p) ==
  /\ pc[p] = "consume"
  /\ LET t == req[p].token IN
     IF Consumable(t)
     THEN /\ token' = [token EXCEPT ![t].uses = @ + 1]
          /\ \E c \in Client, hash \in Secrets(req[p].row.public, None) :
               /\ Fresh(c)
               /\ Know(p, "insert", [req[p] EXCEPT !.client = c, !.row.hash = hash])
               /\ Generated(hash)
     ELSE Return(p) /\ UNCHANGED <<token, generated>>
  /\ UNCHANGED <<client, cache, history>>

\* Registration and the management API insert alike
Insert(p) ==
  /\ pc[p] = "insert"
  /\ LET c == req[p].client
         t == req[p].token
     IN /\ client' = [client EXCEPT ![c] = req[p].row]
        /\ registered' = IF t = None THEN registered ELSE [registered EXCEPT ![t] = @ + 1]
        /\ ceiling' = [ceiling EXCEPT ![c] = IF t = None THEN @ ELSE token[t].scopes]
  /\ Return(p)
  /\ UNCHANGED <<token, cache, generated, spent, deleted, managed, disturbed>>

-----------------------------------------------------------------------------
(* A registered client changes or deletes itself with its registration access token *)

Authorized(c) == Find(c) # None /\ Find(c).dynamic

SelfUpdate(p, c, meta) ==
  Start(p, "selfUpdate", "authorize", [Nothing EXCEPT !.client = c, !.meta = meta])

SelfDelete(p, c) == Start(p, "selfDelete", "authorize", [Nothing EXCEPT !.client = c])

\* Scope only narrows and the client type stays
Acceptable(meta, row) ==
  /\ validateClientMetadata(meta)
  /\ meta.public = row.public
  /\ ScopesOf(meta, row.scopes) # None

authorize(p) ==
  /\ pc[p] = "authorize"
  /\ LET c == req[p].client
         row == Find(c)
         meta == req[p].meta
     IN CASE ~Authorized(c) -> Return(p)
          [] Authorized(c) /\ req[p].doing = "selfDelete" -> Goto(p, "getByID")
          [] OTHER ->
               IF Acceptable(meta, row)
               THEN Know(p, "save", [req[p] EXCEPT !.row =
                      [row EXCEPT !.scopes = ScopesOf(meta, row.scopes), !.grants = Grants(meta)]])
               ELSE Return(p)
  /\ UNCHANGED <<tables, generated, history>>

-----------------------------------------------------------------------------
(* The management API *)

Given(new, old) == IF new = {} THEN old ELSE new

Create(p, c, meta) ==
  /\ Fresh(c)
  /\ meta.uris # "none" /\ meta.grants # {}
  /\ \E hash \in Secrets(meta.public, None) :
       /\ pc[p] = "idle" /\ "create" \in mix.ops
       /\ Know(p, "insert",
               [Nothing EXCEPT !.doing = "create", !.client = c, !.row =
                 [live |-> TRUE, dynamic |-> FALSE, public |-> meta.public, hash |-> hash,
                  scopes |-> meta.scopes, grants |-> meta.grants]])
       /\ Generated(hash)
  /\ UNCHANGED <<tables, history>>

\* With keep the request does not have is_public, whatever meta says
Update(p, c, meta, keep) ==
  /\ keep => ~meta.public
  /\ Start(p, "update", "getByID", [Nothing EXCEPT !.client = c, !.meta = meta, !.keep = keep])

Delete(p, c) == Start(p, "delete", "getByID", [Nothing EXCEPT !.client = c])

\* Only what the request names changes; a public client loses its secret, one that
\* becomes confidential gets a new one
GetByID(p) ==
  /\ pc[p] = "getByID"
  /\ LET row == Find(req[p].client)
         meta == req[p].meta
         public == IF req[p].keep THEN row.public ELSE meta.public
     IN CASE row = None -> Return(p) /\ UNCHANGED generated
          [] row # None /\ req[p].doing # "update" -> Goto(p, "delete") /\ UNCHANGED generated
          [] OTHER ->
               \E hash \in IF req[p].keep THEN {row.hash} ELSE Secrets(public, row.hash) :
                 /\ Know(p, "save", [req[p] EXCEPT !.row =
                      [row EXCEPT !.scopes = Given(meta.scopes, @), !.grants = Given(meta.grants, @),
                                  !.public = public, !.hash = hash]])
                 /\ Generated(hash)
  /\ UNCHANGED <<tables, history>>

SaveRow(p) ==
  /\ pc[p] = "save"
  /\ LET c == req[p].client
         scopes == req[p].meta.scopes
     IN /\ Save(p, c, req[p].row)
        /\ ceiling' = [ceiling EXCEPT ![c] =
             CASE scopes = {} \/ ~req[p].row.dynamic -> @
               [] scopes # {} /\ req[p].row.dynamic /\ req[p].doing = "update" -> scopes
               [] OTHER -> @ \cap scopes]
        /\ managed' = managed \cup (IF req[p].doing = "update" /\ req[p].row.dynamic THEN {c} ELSE {})
  /\ Return(p)
  /\ UNCHANGED <<token, cache, generated, registered, spent, deleted>>

SoftDelete(p) ==
  /\ pc[p] = "delete"
  /\ LET c == req[p].client IN
     /\ client' = [client EXCEPT ![c].live = FALSE]
     /\ Disturb(p, c)
     /\ deleted' = deleted \cup {c}
  /\ Return(p)
  /\ UNCHANGED <<token, cache, generated, registered, spent, ceiling, managed>>

-----------------------------------------------------------------------------
(* A client authenticates *)

ValidateClient(p, k, c, s) ==
  Start(p, "validate", "getClient", [Nothing EXCEPT !.client = c, !.replica = k, !.secret = s])

GetByClientID(p) ==
  /\ pc[p] = "getClient"
  /\ LET row == Find(req[p].client)
         s == req[p].secret
     IN CASE row = None -> Return(p)
          [] row # None /\ row.public -> IF s = None THEN Goto(p, "accepted") ELSE Return(p)
          [] OTHER -> IF s = None \/ row.hash = None THEN Return(p)
                      ELSE Know(p, "compare", [req[p] EXCEPT !.row = row])
  /\ UNCHANGED <<tables, generated, history>>

\* Mutant: the cache is keyed by the client alone
VerifiedByClient(k, c, hash, s) ==
  \E e \in cache[k] : e.client = c /\ e.mac = s

verified(k, c, hash, s) ==
  \E e \in cache[k] : e.client = c /\ e.hash = hash /\ e.mac = s

\* A secret the cache does not vouch for goes through bcrypt
Compare(p) ==
  /\ pc[p] = "compare"
  /\ LET hash == req[p].row.hash
         s == req[p].secret
     IN CASE verified(req[p].replica, req[p].client, hash, s) -> Goto(p, "accepted")
          [] ~verified(req[p].replica, req[p].client, hash, s) /\ Matches(hash, s) -> Goto(p, "remember")
          [] OTHER -> Return(p)
  /\ UNCHANGED <<tables, generated, history>>

\* Mutant: the cache grows without end
RememberedAll(entries, entry) ==
  {e \in entries : e.client # entry.client \/ e.hash # entry.hash} \cup {entry}

\* A full cache is emptied first; one entry per client and hash
Remembered(entries, entry) ==
  {e \in IF Cardinality(entries) >= CacheLimit THEN {} ELSE entries :
     e.client # entry.client \/ e.hash # entry.hash} \cup {entry}

remember(p) ==
  /\ pc[p] = "remember"
  /\ cache' = [cache EXCEPT ![req[p].replica] =
       Remembered(@, [client |-> req[p].client, hash |-> req[p].row.hash, mac |-> req[p].secret])]
  /\ Goto(p, "accepted")
  /\ UNCHANGED <<client, token, generated, history>>

\* What the authenticated client then does is in TokenGrants and DeviceGrant
Serve(p) ==
  /\ pc[p] = "accepted"
  /\ Return(p)
  /\ UNCHANGED <<tables, generated, history>>

EntryExpires(k, e) ==
  /\ "expiry" \in mix.ops
  /\ cache' = [cache EXCEPT ![k] = @ \ {e}]
  /\ UNCHANGED <<client, token, request, generated, history>>

-----------------------------------------------------------------------------
(* Specification *)

\* A statement fails, or the replica stops; a use that was counted stays counted
Fail(p) ==
  /\ "failure" \in mix.ops /\ pc[p] \notin {"idle", "compare", "remember", "accepted"}
  /\ spent' = IF pc[p] = "insert" /\ req[p].token # None
              THEN [spent EXCEPT ![req[p].token] = @ + 1] ELSE spent
  /\ Return(p)
  /\ UNCHANGED <<tables, generated, registered, ceiling, deleted, managed, disturbed>>

\* The secret that is right for a client, None when it has to send none
Right(c) ==
  CASE ~Live(c) -> {}
    [] Live(c) /\ client[c].public -> {None}
    [] OTHER -> IF client[c].hash = None THEN {} ELSE {client[c].hash.of}

Observe ==
  known' = [p \in Request |->
    IF req[p].doing' = "validate"
    THEN (IF req[p].doing = "validate" THEN known[p] ELSE {}) \cup Right(req[p].client)'
    ELSE {}]

\* Requests for other ids end at the look-up
Known == {c \in Client : client[c] # None}

Step ==
  \/ \E t \in Token :
       \/ \E scopes \in SUBSET Scope, max \in Uses : CreateInitialAccessToken(t, scopes, max)
       \/ RevokeInitialAccessToken(t)
       \/ TokenExpires(t)
  \/ \E p \in Request, meta \in Metadata :
       \/ \E t \in Token : Register(p, t, meta)
       \/ \E c \in Client : Create(p, c, meta)
       \/ \E c \in Known : SelfUpdate(p, c, meta) \/ Update(p, c, meta, FALSE) \/ Update(p, c, meta, TRUE)
  \/ \E p \in Request, c \in Known :
       \/ SelfDelete(p, c) \/ Delete(p, c)
       \/ \E k \in Replica, s \in generated \cup {None} : ValidateClient(p, k, c, s)
  \/ \E p \in Request :
       \/ GetByHash(p) \/ Consume(p) \/ Insert(p)
       \/ authorize(p) \/ GetByID(p) \/ SaveRow(p) \/ SoftDelete(p)
       \/ GetByClientID(p) \/ Compare(p) \/ remember(p) \/ Serve(p)
       \/ Fail(p)
  \/ \E k \in Replica : \E e \in cache[k] : EntryExpires(k, e)

Next == Step /\ Observe

Spec == Init /\ [][Next]_vars

-----------------------------------------------------------------------------
(* Properties *)

Registering(t) == {p \in Request : pc[p] = "insert" /\ req[p].token = t}

\* However many registrations run at a time, an initial access token registers at most
\* max_uses clients, and each of its uses is a client, one about to be inserted, or one
\* lost to a failure after the use was counted (Register, Consume).
RegistrationsBounded ==
  \A t \in Token : token[t] # None =>
    /\ token[t].uses = registered[t] + spent[t] + Cardinality(Registering(t))
    /\ token[t].uses <= token[t].max

\* A client that registered itself never has more than the policy and its initial access
\* token allow, whatever it updates and in whatever order: no token exchange, no client
\* credentials without a secret, and scopes that were narrowed stay narrowed unless
\* two updates overlap (validateClientMetadata, Update).
SelfRegisteredWithinLimits ==
  \A c \in Client : Live(c) /\ client[c].dynamic =>
    /\ c \notin managed =>
         /\ client[c].grants \subseteq dynamicGrantTypes
         /\ client[c].public => "credentials" \notin client[c].grants
         /\ client[c].public <=> client[c].hash = None
    /\ c \notin disturbed => client[c].scopes \subseteq ceiling[c]

\* A deleted client stays deleted unless an update that had read its row before saves it
\* after (Delete, Save).
DeletedStaysDeleted ==
  \A c \in deleted \ disturbed : ~Live(c)

\* A client is authenticated only by the secret that its row held at some moment of the
\* request: what a cache remembers of an earlier secret, on any replica, is worth nothing
\* after the secret was replaced or the client deleted (ValidateClient, clientSecretCache).
AcceptedSecretWasCurrent ==
  \A p \in Request : pc[p] = "accepted" => req[p].secret \in known[p]

-----------------------------------------------------------------------------
(***************************************************************************)
(* The inductive invariant, in parts.  FormInv: what a request that has    *)
(* reached a statement holds.                                              *)
(***************************************************************************)

RequestForm(p) ==
  LET r == req[p] IN
  /\ pc[p] = "idle" => r = Nothing
  /\ r.doing = "validate" <=> pc[p] \in {"getClient", "compare", "remember", "accepted"}
  /\ pc[p] \in {"getToken", "consume"} => r.token \in Token /\ r.meta \in Metadata
  /\ pc[p] \in {"consume", "insert"} => r.row \in ClientRow /\ (r.token # None => token[r.token] # None)
  /\ pc[p] \notin {"idle", "getToken", "consume"} => r.client \in Client
  /\ pc[p] = "insert" => client[r.client] = None
  /\ pc[p] \in {"authorize", "getByID", "save", "delete"} => client[r.client] # None /\ r.token = None
  /\ pc[p] = "authorize" => r.doing = "selfDelete" \/ r.meta \in Metadata
  /\ pc[p] = "getByID" => r.doing # "update" \/ r.meta \in Metadata
  /\ pc[p] = "save" => r.row \in ClientRow /\ r.meta \in Metadata
  /\ r.doing = "validate" => r.replica \in Replica
  /\ pc[p] \in {"compare", "remember"} => r.row \in ClientRow /\ r.row.hash \in Hash /\ r.secret \in Secret

\* Two clients about to be inserted have different ids
InsertsApart ==
  \A p, q \in Request : pc[p] = "insert" /\ pc[q] = "insert" /\ req[p].client = req[q].client => p = q

FormInv == InsertsApart /\ \A p \in Request : RequestForm(p)

\* One entry per validation that bcrypt let pass: the remembered secret is the hash's
CacheInv ==
  /\ cache \in [Replica -> SUBSET [client : Client, hash : Hash, mac : Secret]]
  /\ \A k \in Replica : IsFiniteSet(cache[k]) /\ \A e \in cache[k] : e.hash = HashOf(e.mac)

\* A token that does not exist yet has no uses
CountInv ==
  /\ \A t \in Token : token[t] = None => registered[t] = 0 /\ spent[t] = 0
  /\ RegistrationsBounded

WithinPolicy(row) ==
  /\ row.grants \subseteq dynamicGrantTypes
  /\ row.public => "credentials" \notin row.grants
WithSecret(row) == row.public <=> row.hash = None

\* The policy holds of the rows of registered clients, and of those that will be saved
RequestPolicy(p) ==
  LET r == req[p] IN
  /\ pc[p] \in {"consume", "insert"} /\ r.row.dynamic => WithinPolicy(r.row)
  /\ pc[p] = "insert" /\ r.row.dynamic => WithSecret(r.row)
  /\ pc[p] = "save" /\ r.row.dynamic /\ r.doing # "update" /\ r.client \notin managed =>
       WithinPolicy(r.row) /\ WithSecret(r.row)

RowPolicy ==
  \A c \in Client \ managed : client[c] # None /\ client[c].dynamic =>
    WithinPolicy(client[c]) /\ WithSecret(client[c])

PolicyInv == RowPolicy /\ \A p \in Request : RequestPolicy(p)

\* So do the limits on scopes, unless updates overlapped
RequestScopes(p) ==
  LET r == req[p] IN
  /\ pc[p] \in {"consume", "insert"} =>
       IF r.token = None THEN ~r.row.dynamic ELSE r.row.scopes \subseteq token[r.token].scopes
  /\ pc[p] = "save" /\ r.row.dynamic /\ r.client \notin disturbed =>
       /\ r.meta.scopes # {} => r.row.scopes = r.meta.scopes
       /\ r.meta.scopes = {} \/ r.doing # "update" => r.row.scopes \subseteq ceiling[r.client]

RowScopes ==
  \A c \in Client \ disturbed : Live(c) /\ client[c].dynamic => client[c].scopes \subseteq ceiling[c]

ScopeInv == RowScopes /\ \A p \in Request : RequestScopes(p)

\* Nobody holds a copy of a deleted row that was not disturbed
DeleteInv ==
  /\ \A c \in deleted : client[c] # None
  /\ \A c \in deleted \ disturbed : ~Live(c) /\ \A p \in Request : pc[p] = "save" => req[p].client # c

\* What a validation has read of its client's secret was right
RequestSecrets(p) ==
  LET r == req[p] IN
  /\ r.doing = "validate" => Right(r.client) \subseteq known[p]
  /\ pc[p] \in {"compare", "remember"} => r.row.hash.of \in known[p]
  /\ pc[p] = "remember" => r.row.hash = HashOf(r.secret)
  /\ pc[p] = "accepted" => r.secret \in known[p]

ClientInv ==
  /\ TypeOK /\ FormInv /\ CacheInv /\ CountInv /\ PolicyInv /\ ScopeInv /\ DeleteInv
  /\ \A p \in Request : RequestSecrets(p)
=============================================================================
