--------------------------- MODULE ClientsProofs ---------------------------
(***************************************************************************)
(* That the rows of clients, the uses of initial access tokens and the     *)
(* caches of secrets keep what Clients promises, for any number of         *)
(* clients, tokens, secrets, scopes, replicas and requests.  ClientInv is  *)
(* shown inductive: a step moves one request (or none), so each part says  *)
(* something of every row and something of every request, and the requests *)
(* that do not move keep theirs (FrameStep).                               *)
(***************************************************************************)
EXTENDS Clients, FiniteSetTheorems, TLAPS

-----------------------------------------------------------------------------
(* Requests and rows *)

\* The requests that do not move
Same(Q) == \A q \in Q : pc'[q] = pc[q] /\ req'[q] = req[q]

\* A request that holds nothing is a request.
LEMMA NothingFacts ==
  /\ Nothing \in Context
  /\ Nothing.doing = "none" /\ Nothing.token = None /\ Nothing.client = None /\ Nothing.row = None
BY DEF Nothing, Context

\* The fields of a request have their types.
LEMMA ContextFields ==
  ASSUME NEW r \in Context
  PROVE  /\ r.doing \in Operation \cup {"none"} /\ r.client \in Client \cup {None}
         /\ r.token \in Token \cup {None} /\ r.meta \in Metadata \cup {None}
         /\ r.secret \in Secret \cup {None} /\ r.replica \in Replica \cup {None}
         /\ r.row \in ClientRow \cup {None} /\ r.keep \in BOOLEAN
BY DEF Context

\* Keeping a row in a request changes nothing else of it.
LEMMA ContextRow ==
  ASSUME NEW r \in Context, NEW x \in ClientRow
  PROVE  LET s == [r EXCEPT !.row = x] IN
         /\ s \in Context /\ s.row = x
         /\ s.doing = r.doing /\ s.client = r.client /\ s.token = r.token /\ s.meta = r.meta
         /\ s.secret = r.secret /\ s.replica = r.replica /\ s.keep = r.keep
<1>1. [r EXCEPT !.row = x] \in Context
  BY DEF Context
<1> QED BY <1>1 DEF Context

\* The fields of a row have their types.
LEMMA RowFields ==
  ASSUME NEW row \in ClientRow
  PROVE  /\ row # None
         /\ row.live \in BOOLEAN /\ row.dynamic \in BOOLEAN /\ row.public \in BOOLEAN
         /\ row.hash \in Hash \cup {None} /\ row.scopes \in SUBSET Scope
         /\ row.grants \in SUBSET GrantType
BY NoneAssumption DEF ClientRow

\* A hash is of one secret.
LEMMA HashFacts ==
  ASSUME NEW h \in Hash
  PROVE  h # None /\ h.of \in Secret /\ h = HashOf(h.of)
BY NoneAssumption DEF Hash, HashOf

\* Who reads a live row reads a row.
LEMMA FindFacts ==
  ASSUME TypeOK, NEW c \in Client, Find(c) # None
  PROVE  Live(c) /\ Find(c) = client[c] /\ client[c] \in ClientRow
BY DEF TypeOK, Find, Live

\* The secret generated for a client that has none, or none for a public one.
LEMMA SecretsFacts ==
  ASSUME NEW public \in BOOLEAN, NEW h \in Hash \cup {None}, NEW hash \in Secrets(public, h)
  PROVE  hash \in Hash \cup {None} /\ (public <=> hash = None)
<1>1. CASE public
  BY <1>1 DEF Secrets
<1>2. CASE ~public /\ h = None
  BY <1>2, NoneAssumption DEF Secrets, Hash, HashOf
<1>3. CASE ~public /\ h # None
  BY <1>3, NoneAssumption DEF Secrets
<1> QED BY <1>1, <1>2, <1>3

\* Generated secrets are secrets.
LEMMA GeneratedFacts ==
  ASSUME TypeOK, NEW hash \in Hash \cup {None}, Generated(hash)
  PROVE  generated' \subseteq Secret
BY HashFacts DEF TypeOK, Generated

\* Metadata has its type.
LEMMA MetaFields ==
  ASSUME NEW meta \in Metadata
  PROVE  /\ meta # None /\ meta.public \in BOOLEAN /\ meta.scopes \in SUBSET Scope
         /\ meta.grants \in SUBSET GrantType /\ Grants(meta) \in SUBSET GrantType
BY ClientsAssumption DEF MetadataTypes, Grants, GrantType

\* What a request is allowed is what it asks for, or by default all there is.
LEMMA ScopesOfFacts ==
  ASSUME NEW meta \in Metadata, NEW limit \in SUBSET Scope, ScopesOf(meta, limit) # None
  PROVE  /\ ScopesOf(meta, limit) \in SUBSET limit
         /\ meta.scopes # {} => ScopesOf(meta, limit) = meta.scopes
BY DEF ScopesOf

\* What a request knows after a step of it.
LEMMA KnowFacts ==
  ASSUME TypeOK, NEW p \in Request, NEW next \in PC, NEW context \in Context, Know(p, next, context)
  PROVE  /\ pc' \in [Request -> PC] /\ req' \in [Request -> Context] /\ mix' = mix
         /\ pc'[p] = next /\ req'[p] = context /\ Same(Request \ {p})
BY DEF TypeOK, Know, Same

\* A request that returns holds nothing.
LEMMA ReturnFacts ==
  ASSUME TypeOK, NEW p \in Request, Return(p)
  PROVE  /\ pc' \in [Request -> PC] /\ req' \in [Request -> Context] /\ mix' = mix
         /\ pc'[p] = "idle" /\ req'[p] = Nothing /\ Same(Request \ {p})
<1>1. "idle" \in PC /\ Know(p, "idle", Nothing)
  BY DEF Return, PC
<1> QED BY <1>1, NothingFacts, KnowFacts

\* A request that goes on keeps what it holds.
LEMMA GotoFacts ==
  ASSUME TypeOK, NEW p \in Request, NEW next \in PC, Goto(p, next)
  PROVE  /\ pc' \in [Request -> PC] /\ req' \in [Request -> Context] /\ mix' = mix
         /\ pc'[p] = next /\ req'[p] = req[p] /\ Same(Request \ {p})
<1>1. req[p] \in Context /\ Know(p, next, req[p])
  BY DEF TypeOK, Goto
<1> QED BY <1>1, KnowFacts

-----------------------------------------------------------------------------
(* Requests that do not move *)

\* A validation goes on knowing what it knew, and comes to know what is right now.
LEMMA ObserveFacts ==
  ASSUME Observe, NEW q \in Request
  PROVE  /\ req'[q].doing = "validate" => Right(req[q].client)' \subseteq known'[q]
         /\ req[q].doing = "validate" /\ req'[q].doing = "validate" => known[q] \subseteq known'[q]
BY DEF Observe, Right, Live

\* What validations know are secrets, or that none is needed.
LEMMA KnownTypes ==
  ASSUME TypeOK, Observe, client' \in [Client -> ClientRow \cup {None}],
         \A q \in Request : RequestForm(q)'
  PROVE  known' \in [Request -> SUBSET (Secret \cup {None})]
<1> SUFFICES ASSUME NEW q \in Request, req'[q].doing = "validate"
             PROVE  Right(req[q].client)' \in SUBSET (Secret \cup {None})
  BY DEF Observe, TypeOK
<1> SUFFICES ASSUME NEW c \in Client, req'[q].client = c
             PROVE  Right(req[q].client)' \in SUBSET (Secret \cup {None})
  BY DEF RequestForm
<1>1. CASE ~(client'[c] # None /\ client'[c].live)
  BY <1>1 DEF Right, Live
<1>2. CASE client'[c] # None /\ client'[c].live
  <2>1. client'[c] \in ClientRow
    BY <1>2
  <2>2. client'[c].hash \in Hash \cup {None} /\ client'[c].public \in BOOLEAN
    BY <2>1, RowFields
  <2>3. client'[c].hash # None => client'[c].hash.of \in Secret
    BY <2>2, HashFacts
  <2> QED BY <1>2, <2>2, <2>3 DEF Right, Live
<1> QED BY <1>1, <1>2

\* What the requests in Q rely on: rows and tokens stay, ids about to be inserted stay
\* free, and a copy about to be saved stays as good as it was.
Kept(Q) ==
  /\ \A c \in Client : client[c] # None => client'[c] # None
  /\ \A t \in Token : token[t] # None => token'[t] # None /\ token'[t].scopes = token[t].scopes
  /\ managed \subseteq managed' /\ disturbed \subseteq disturbed'
  /\ \A q \in Q : pc[q] = "insert" => client'[req[q].client] = None
  /\ \A q \in Q : pc[q] = "save" /\ req[q].client \notin disturbed' =>
                    ceiling'[req[q].client] = ceiling[req[q].client]

\* Requests that do not move keep the form of their statement.
LEMMA FrameForm ==
  ASSUME TypeOK, FormInv, NEW Q \in SUBSET Request, Same(Q), Kept(Q), NEW q \in Q
  PROVE  RequestForm(q)'
<1>1. RequestForm(q) /\ q \in Request /\ req[q] \in Context
  BY DEF FormInv, TypeOK
<1>2. pc'[q] = pc[q] /\ req'[q] = req[q]
  BY DEF Same
<1>3. req[q].token \in Token \cup {None}
  BY <1>1, ContextFields
<1>4. /\ pc[q] = "insert" => client'[req[q].client] = None
      /\ req[q].client \in Client /\ client[req[q].client] # None => client'[req[q].client] # None
      /\ req[q].token \in Token /\ token[req[q].token] # None => token'[req[q].token] # None
  BY DEF Kept
<1>5. pc[q] \in {"authorize", "getByID", "save", "delete"} => req[q].client \in Client
  BY <1>1 DEF RequestForm
<1> QED BY <1>1, <1>2, <1>3, <1>4, <1>5 DEF RequestForm

\* And what the policy and the ceilings say of what they will save.
LEMMA FrameRows ==
  ASSUME TypeOK, FormInv, PolicyInv, ScopeInv, NEW Q \in SUBSET Request, Same(Q), Kept(Q), NEW q \in Q
  PROVE  RequestPolicy(q)' /\ RequestScopes(q)'
<1>1. RequestForm(q) /\ RequestPolicy(q) /\ RequestScopes(q) /\ q \in Request /\ req[q] \in Context
  BY DEF FormInv, PolicyInv, ScopeInv, TypeOK
<1>2. pc'[q] = pc[q] /\ req'[q] = req[q]
  BY DEF Same
<1>3. req[q].token \in Token \cup {None}
  BY <1>1, ContextFields
<1>4. managed \subseteq managed' /\ disturbed \subseteq disturbed'
  BY DEF Kept
<1>5. RequestPolicy(q)'
  BY <1>1, <1>2, <1>4 DEF RequestPolicy
<1>6. pc[q] \in {"consume", "insert"} /\ req[q].token # None =>
        token'[req[q].token].scopes = token[req[q].token].scopes
  BY <1>1, <1>3 DEF RequestForm, Kept
<1>7. pc[q] = "save" /\ req[q].client \notin disturbed' => ceiling'[req[q].client] = ceiling[req[q].client]
  BY DEF Kept
<1>8. RequestScopes(q)'
  BY <1>1, <1>2, <1>4, <1>6, <1>7 DEF RequestScopes
<1> QED BY <1>5, <1>8

\* And what they know of secrets.
LEMMA FrameSecrets ==
  ASSUME FormInv, \A q \in Request : RequestSecrets(q), Observe,
         NEW Q \in SUBSET Request, Same(Q), NEW q \in Q
  PROVE  RequestSecrets(q)'
<1>1. RequestForm(q) /\ RequestSecrets(q) /\ q \in Request
  BY DEF FormInv
<1>2. pc'[q] = pc[q] /\ req'[q] = req[q]
  BY DEF Same
<1>3. req[q].doing = "validate" =>
        Right(req[q].client)' \subseteq known'[q] /\ known[q] \subseteq known'[q]
  BY <1>1, <1>2, ObserveFacts
<1>4. pc[q] \in {"compare", "remember", "accepted"} => req[q].doing = "validate"
  BY <1>1 DEF RequestForm
<1> QED BY <1>1, <1>2, <1>3, <1>4 DEF RequestSecrets

-----------------------------------------------------------------------------
(* Steps that leave the tables alone *)

\* The registrations of a token that are about to insert, when none joins or leaves them.
LEMMA RegisteringSame ==
  ASSUME \A q \in Request, t \in Token :
           (pc'[q] = "insert" /\ req'[q].token = t) <=> (pc[q] = "insert" /\ req[q].token = t),
         NEW t \in Token
  PROVE  Registering(t)' = Registering(t)
BY DEF Registering

\* The requests that are about to insert, when the one that moves is not.
LEMMA InsertingSame ==
  ASSUME NEW p \in Request, Same(Request \ {p}), None \notin Token,
         pc[p] = "insert" => req[p].token = None, pc'[p] = "insert" => req'[p].token = None
  PROVE  \A t \in Token : Registering(t)' = Registering(t)
<1> SUFFICES ASSUME NEW q \in Request, NEW t \in Token
             PROVE  (pc'[q] = "insert" /\ req'[q].token = t) <=> (pc[q] = "insert" /\ req[q].token = t)
  BY RegisteringSame
<1>1. CASE q = p
  BY <1>1
<1>2. CASE q # p
  BY <1>2 DEF Same
<1> QED BY <1>1, <1>2

\* The form of all requests, from that of the one that moves and of the others.
LEMMA FormStep ==
  ASSUME FormInv, NEW p \in Request, Same(Request \ {p}),
         \A q \in Request : RequestForm(q)',
         pc'[p] = "insert" =>
           \A q \in Request \ {p} : pc[q] = "insert" => req[q].client # req'[p].client
  PROVE  FormInv'
<1>1. ASSUME NEW q \in Request, NEW s \in Request, pc'[q] = "insert", pc'[s] = "insert",
             req'[q].client = req'[s].client
      PROVE  q = s
  <2>1. CASE q # p /\ s # p
    <3>1. pc'[q] = pc[q] /\ req'[q] = req[q] /\ pc'[s] = pc[s] /\ req'[s] = req[s]
      BY <2>1 DEF Same
    <3> QED BY <1>1, <3>1 DEF FormInv, InsertsApart
  <2>2. CASE q = p /\ s # p
    <3>1. pc'[s] = pc[s] /\ req'[s] = req[s]
      BY <2>2 DEF Same
    <3> QED BY <1>1, <2>2, <3>1
  <2>3. CASE q # p /\ s = p
    <3>1. pc'[q] = pc[q] /\ req'[q] = req[q]
      BY <2>3 DEF Same
    <3> QED BY <1>1, <2>3, <3>1
  <2> QED BY <2>1, <2>2, <2>3
<1> QED BY <1>1 DEF FormInv, InsertsApart

\* A step that only moves a request: the tables and the other requests are as before.
LEMMA QuietStep ==
  ASSUME ClientInv, Observe, NEW p \in Request, Same(Request \ {p}),
         pc' \in [Request -> PC], req' \in [Request -> Context], mix' = mix,
         UNCHANGED tables, UNCHANGED history, generated' \subseteq Secret,
         pc[p] # "insert",
         pc'[p] = "insert" =>
           /\ req'[p].token = None
           /\ \A q \in Request \ {p} : pc[q] = "insert" => req[q].client # req'[p].client,
         pc'[p] = "save" => req'[p].client \notin deleted \ disturbed,
         RequestForm(p)', RequestPolicy(p)', RequestScopes(p)', RequestSecrets(p)'
  PROVE  ClientInv'
<1> TypeOK /\ FormInv /\ CacheInv /\ CountInv /\ PolicyInv /\ ScopeInv /\ DeleteInv
    /\ \A q \in Request : RequestSecrets(q)
  BY DEF ClientInv
<1>u. /\ client' = client /\ token' = token /\ cache' = cache /\ registered' = registered
      /\ spent' = spent /\ ceiling' = ceiling /\ deleted' = deleted /\ managed' = managed
      /\ disturbed' = disturbed
  BY DEF tables, history
<1>1. Kept(Request \ {p})
  BY <1>u DEF Kept, FormInv, RequestForm
<1>2. \A q \in Request : RequestForm(q)'
  <2>1. \A q \in Request \ {p} : RequestForm(q)'
    BY <1>1, FrameForm
  <2> QED BY <2>1
<1>3. \A q \in Request : RequestPolicy(q)' /\ RequestScopes(q)' /\ RequestSecrets(q)'
  <2>1. \A q \in Request \ {p} : RequestPolicy(q)' /\ RequestScopes(q)'
    BY <1>1, FrameRows
  <2>2. \A q \in Request \ {p} : RequestSecrets(q)'
    BY FrameSecrets
  <2> QED BY <2>1, <2>2
<1>4. FormInv'
  BY <1>2, FormStep
<1>5. TypeOK'
  <2>1. known' \in [Request -> SUBSET (Secret \cup {None})]
    BY <1>u, <1>2, KnownTypes DEF TypeOK
  <2> QED BY <1>u, <2>1 DEF TypeOK
<1>6. CacheInv'
  BY <1>u DEF CacheInv
<1>7. CountInv'
  <2>1. \A t \in Token : Registering(t)' = Registering(t)
    BY InsertingSame, ClientsAssumption
  <2> QED BY <1>u, <2>1 DEF CountInv, RegistrationsBounded
<1>8. PolicyInv'
  BY <1>u, <1>3 DEF PolicyInv, RowPolicy
<1>9. ScopeInv'
  BY <1>u, <1>3 DEF ScopeInv, RowScopes, Live
<1>10. DeleteInv'
  BY <1>u DEF DeleteInv, Live, Same
<1> QED BY <1>3, <1>4, <1>5, <1>6, <1>7, <1>8, <1>9, <1>10 DEF ClientInv

\* A request that goes to a statement before which nothing is to be kept.
LEMMA PlainStep ==
  ASSUME ClientInv, Observe, NEW p \in Request, Same(Request \ {p}),
         pc' \in [Request -> PC], req' \in [Request -> Context], mix' = mix,
         UNCHANGED tables, UNCHANGED history, generated' \subseteq Secret,
         pc[p] # "insert",
         pc'[p] \notin {"consume", "insert", "save", "compare", "remember", "accepted"},
         RequestForm(p)'
  PROVE  ClientInv'
<1>1. RequestPolicy(p)' /\ RequestScopes(p)'
  BY DEF RequestPolicy, RequestScopes
<1>2. RequestSecrets(p)'
  BY ObserveFacts DEF RequestSecrets
<1> QED BY <1>1, <1>2, QuietStep

\* An idle request holds nothing, so that it is of the right form.
LEMMA IdleForm ==
  ASSUME NEW p \in Request, pc'[p] = "idle", req'[p] = Nothing
  PROVE  RequestForm(p)'
BY NothingFacts DEF RequestForm

\* A request that ends without having changed anything.
LEMMA ReturnStep ==
  ASSUME ClientInv, Observe, NEW p \in Request, Return(p), UNCHANGED tables, UNCHANGED history,
         UNCHANGED generated, pc[p] # "insert"
  PROVE  ClientInv'
<1>1. TypeOK
  BY DEF ClientInv
<1>2. /\ pc' \in [Request -> PC] /\ req' \in [Request -> Context] /\ mix' = mix
      /\ pc'[p] = "idle" /\ req'[p] = Nothing /\ Same(Request \ {p})
  BY <1>1, ReturnFacts
<1>3. RequestForm(p)'
  BY <1>2, IdleForm
<1>4. generated' \subseteq Secret
  BY <1>1 DEF TypeOK
<1> QED BY <1>2, <1>3, <1>4, PlainStep

\* What a request that begins holds.
LEMMA StartFacts ==
  ASSUME TypeOK, NEW p \in Request, NEW operation \in Operation, NEW next \in PC, NEW context \in Context,
         Start(p, operation, next, context)
  PROVE  /\ pc' \in [Request -> PC] /\ req' \in [Request -> Context] /\ mix' = mix
         /\ Same(Request \ {p}) /\ pc[p] = "idle" /\ pc'[p] = next
         /\ req'[p] = [context EXCEPT !.doing = operation]
         /\ UNCHANGED tables /\ UNCHANGED history /\ generated' \subseteq Secret
<1>1. /\ [context EXCEPT !.doing = operation] \in Context
      /\ Know(p, next, [context EXCEPT !.doing = operation])
  BY DEF Context, Start
<1>2. /\ pc' \in [Request -> PC] /\ req' \in [Request -> Context] /\ mix' = mix
      /\ pc'[p] = next /\ req'[p] = [context EXCEPT !.doing = operation] /\ Same(Request \ {p})
  BY <1>1, KnowFacts
<1>3. pc[p] = "idle" /\ UNCHANGED tables /\ UNCHANGED history /\ generated' \subseteq Secret
  BY DEF Start, TypeOK
<1> QED BY <1>2, <1>3

\* Its fields.
LEMMA DoingFields ==
  ASSUME NEW context \in Context, NEW operation \in Operation
  PROVE  LET r == [context EXCEPT !.doing = operation] IN
         /\ r.doing = operation /\ r.client = context.client /\ r.token = context.token
         /\ r.meta = context.meta /\ r.replica = context.replica
BY DEF Context

\* A request that begins, from the form of what it holds.
LEMMA StartStep ==
  ASSUME ClientInv, Observe, NEW p \in Request, NEW operation \in Operation,
         NEW next \in {"getToken", "authorize", "getByID", "getClient"}, NEW context \in Context,
         Start(p, operation, next, context), RequestForm(p)'
  PROVE  ClientInv'
<1>1. TypeOK /\ next \in PC
  BY DEF ClientInv, PC
<1>2. /\ pc' \in [Request -> PC] /\ req' \in [Request -> Context] /\ mix' = mix
      /\ Same(Request \ {p}) /\ pc[p] = "idle" /\ pc'[p] = next
      /\ UNCHANGED tables /\ UNCHANGED history /\ generated' \subseteq Secret
  BY <1>1, StartFacts, Zenon
<1> QED BY <1>2, PlainStep

\* A registration begins.
LEMMA RegisterStep ==
  ASSUME ClientInv, Observe, NEW p \in Request, NEW t \in Token, NEW meta \in Metadata, Register(p, t, meta)
  PROVE  ClientInv'
<1> DEFINE context == [Nothing EXCEPT !.token = t, !.meta = meta]
<1>1. context \in Context /\ context.token = t /\ context.meta = meta /\ context.client = None
  BY DEF Nothing, Context
<1> HIDE DEF context
<1>2. "register" \in Operation /\ "getToken" \in PC /\ TypeOK /\ Start(p, "register", "getToken", context)
  BY DEF Operation, PC, ClientInv, Register, context
<1>3. pc'[p] = "getToken" /\ req'[p] = [context EXCEPT !.doing = "register"] /\ UNCHANGED tables
  BY <1>1, <1>2, StartFacts, Zenon
<1>f. /\ req'[p].doing = "register" /\ req'[p].client = context.client /\ req'[p].token = context.token
      /\ req'[p].meta = context.meta /\ req'[p].replica = context.replica
  BY <1>1, <1>2, <1>3, DoingFields
<1>4. RequestForm(p)'
  BY <1>1, <1>3, <1>f DEF RequestForm
<1> QED BY <1>1, <1>2, <1>4, StartStep

\* A registered client begins to change itself, or an administrator to change or delete one.
LEMMA ChangeStep ==
  ASSUME ClientInv, Observe, NEW p \in Request, NEW c \in Client, client[c] # None,
         NEW operation \in Operation, NEW next \in PC, NEW context \in Context,
         operation # "validate", next = "authorize" \/ next = "getByID",
         context.client = c, context.token = None,
         next = "authorize" => operation = "selfDelete" \/ context.meta \in Metadata,
         next = "getByID" => operation # "update" \/ context.meta \in Metadata,
         Start(p, operation, next, context)
  PROVE  ClientInv'
<1>1. TypeOK
  BY DEF ClientInv
<1>2. pc'[p] = next /\ req'[p] = [context EXCEPT !.doing = operation] /\ UNCHANGED tables
  BY <1>1 DEF Start, Know, TypeOK
<1>f. /\ req'[p].doing = operation /\ req'[p].client = context.client /\ req'[p].token = context.token
      /\ req'[p].meta = context.meta /\ req'[p].replica = context.replica
  BY <1>1, <1>2, DoingFields
<1>3. client' = client
  BY <1>2 DEF tables
<1>4. RequestForm(p)'
  BY <1>1, <1>2, <1>3, <1>f DEF RequestForm
<1>5. next \in {"getToken", "authorize", "getByID", "getClient"}
  OBVIOUS
<1> QED BY <1>4, <1>5, StartStep

\* The four such requests.
LEMMA ChangesStep ==
  ASSUME ClientInv, Observe, NEW p \in Request, NEW c \in Known,
         \/ SelfDelete(p, c) \/ Delete(p, c)
         \/ \E meta \in Metadata : SelfUpdate(p, c, meta) \/ Update(p, c, meta, FALSE) \/ Update(p, c, meta, TRUE)
  PROVE  ClientInv'
<1>0. c \in Client /\ client[c] # None
  BY DEF Known
<1>s. {"selfUpdate", "selfDelete", "update", "delete"} \subseteq Operation /\ {"authorize", "getByID"} \subseteq PC
  BY DEF Operation, PC
<1>1. CASE SelfDelete(p, c) \/ Delete(p, c)
  <2> DEFINE context == [Nothing EXCEPT !.client = c]
  <2>1. context \in Context /\ context.token = None /\ context.client = c
    BY <1>0 DEF Nothing, Context
  <2>2. \/ Start(p, "selfDelete", "authorize", context)
        \/ Start(p, "delete", "getByID", context)
    BY <1>1 DEF SelfDelete, Delete
  <2> HIDE DEF context
  <2> QED BY <1>0, <1>s, <2>1, <2>2, ChangeStep
<1>2. ASSUME NEW meta \in Metadata, SelfUpdate(p, c, meta)
      PROVE  ClientInv'
  <2> DEFINE context == [Nothing EXCEPT !.client = c, !.meta = meta]
  <2>1. context \in Context /\ context.token = None /\ context.client = c /\ context.meta = meta
    BY <1>0 DEF Nothing, Context
  <2>2. Start(p, "selfUpdate", "authorize", context)
    BY <1>2 DEF SelfUpdate
  <2> HIDE DEF context
  <2> QED BY <1>0, <1>s, <2>1, <2>2, ChangeStep
<1>3. ASSUME NEW meta \in Metadata, NEW keep \in BOOLEAN, Update(p, c, meta, keep)
      PROVE  ClientInv'
  <2> DEFINE context == [Nothing EXCEPT !.client = c, !.meta = meta, !.keep = keep]
  <2>1. context \in Context /\ context.token = None /\ context.client = c /\ context.meta = meta
    BY <1>0 DEF Nothing, Context
  <2>2. Start(p, "update", "getByID", context)
    BY <1>3 DEF Update
  <2> HIDE DEF context
  <2> QED BY <1>0, <1>s, <2>1, <2>2, ChangeStep
<1> QED BY <1>1, <1>2, <1>3

\* A client begins to authenticate.
LEMMA ValidateStep ==
  ASSUME ClientInv, Observe, NEW p \in Request, NEW c \in Known, NEW k \in Replica,
         NEW s \in Secret \cup {None}, ValidateClient(p, k, c, s)
  PROVE  ClientInv'
<1> DEFINE context == [Nothing EXCEPT !.client = c, !.replica = k, !.secret = s]
<1>0. c \in Client
  BY DEF Known
<1>1. context \in Context /\ context.client = c /\ context.replica = k
  BY <1>0 DEF Nothing, Context
<1>2. "validate" \in Operation /\ "getClient" \in PC /\ TypeOK /\ Start(p, "validate", "getClient", context)
  BY DEF Operation, PC, ClientInv, ValidateClient
<1> HIDE DEF context
<1>3. pc'[p] = "getClient" /\ req'[p] = [context EXCEPT !.doing = "validate"] /\ UNCHANGED tables
  BY <1>1, <1>2, StartFacts, Zenon
<1>f. /\ req'[p].doing = "validate" /\ req'[p].client = context.client /\ req'[p].token = context.token
      /\ req'[p].meta = context.meta /\ req'[p].replica = context.replica
  BY <1>1, <1>2, <1>3, DoingFields
<1>4. RequestForm(p)'
  BY <1>0, <1>1, <1>3, <1>f DEF RequestForm
<1> QED BY <1>1, <1>2, <1>4, StartStep

\* Whoever waits for a statement is not about to insert, and holds a request.
LEMMA AtStatement ==
  ASSUME ClientInv, NEW p \in Request
  PROVE  /\ TypeOK /\ RequestForm(p) /\ RequestPolicy(p) /\ RequestScopes(p) /\ RequestSecrets(p)
         /\ req[p] \in Context /\ generated \subseteq Secret
BY DEF ClientInv, TypeOK, FormInv, PolicyInv, ScopeInv

\* A registration whose token and metadata will do holds a row that both allow.
LEMMA RegisteredRow ==
  ASSUME TypeOK, NEW t \in Token, token[t] # None, NEW meta \in Metadata,
         validateClientMetadata(meta), ScopesOf(meta, token[t].scopes) # None, NEW row,
         row = [live |-> TRUE, dynamic |-> TRUE, public |-> meta.public, hash |-> None,
                scopes |-> ScopesOf(meta, token[t].scopes), grants |-> Grants(meta)]
  PROVE  row \in ClientRow /\ WithinPolicy(row) /\ row.scopes \subseteq token[t].scopes
<1>1. token[t].scopes \in SUBSET Scope
  BY DEF TypeOK, TokenRow
<1>2. ScopesOf(meta, token[t].scopes) \in SUBSET token[t].scopes
  BY <1>1, ScopesOfFacts
<1>3. meta.public \in BOOLEAN /\ Grants(meta) \in SUBSET GrantType
  BY MetaFields
<1>4. row \in ClientRow
  BY <1>1, <1>2, <1>3 DEF ClientRow
<1>5. WithinPolicy(row)
  BY DEF WithinPolicy, validateClientMetadata
<1> QED BY <1>2, <1>4, <1>5

\* The registration reads its token.
LEMMA GetByHashStep ==
  ASSUME ClientInv, Observe, NEW p \in Request, GetByHash(p)
  PROVE  ClientInv'
<1>0. /\ TypeOK /\ RequestForm(p) /\ req[p] \in Context /\ generated \subseteq Secret
  BY AtStatement
<1>1. /\ pc[p] = "getToken" /\ UNCHANGED tables /\ UNCHANGED history /\ UNCHANGED generated
  BY DEF GetByHash
<1> SUFFICES ASSUME NEW t \in Token, NEW meta \in Metadata, req[p].token = t, req[p].meta = meta
             PROVE  ClientInv'
  BY <1>0, <1>1 DEF RequestForm
<1>2. CASE Return(p)
  BY <1>1, <1>2, ReturnStep
<1>3. CASE ~Return(p)
  <2> DEFINE new == [live |-> TRUE, dynamic |-> TRUE, public |-> meta.public, hash |-> None,
                     scopes |-> ScopesOf(meta, token[t].scopes), grants |-> Grants(meta)]
  <2>1. /\ token[t] # None /\ validateClientMetadata(meta) /\ ScopesOf(meta, token[t].scopes) # None
        /\ Know(p, "consume", [req[p] EXCEPT !.row = new])
    BY <1>3 DEF GetByHash
  <2>2. new \in ClientRow /\ WithinPolicy(new) /\ new.scopes \subseteq token[t].scopes
    BY <1>0, <2>1, RegisteredRow
  <2> HIDE DEF new
  <2> DEFINE r == [req[p] EXCEPT !.row = new]
  <2>3. /\ r \in Context /\ r.row = new /\ r.token = t /\ r.meta = meta /\ r.doing = req[p].doing
    BY <1>0, <2>2, ContextRow
  <2>4. Know(p, "consume", r)
    BY <2>1
  <2> HIDE DEF r
  <2>5. "consume" \in PC /\ req[p].doing # "validate"
    BY <1>0, <1>1 DEF PC, RequestForm
  <2>6. /\ pc' \in [Request -> PC] /\ req' \in [Request -> Context] /\ mix' = mix
        /\ pc'[p] = "consume" /\ req'[p] = r /\ Same(Request \ {p})
    BY <1>0, <2>3, <2>4, <2>5, KnowFacts
  <2>7. token' = token
    BY <1>1 DEF tables
  <2>8. RequestForm(p)'
    BY <2>1, <2>2, <2>3, <2>5, <2>6, <2>7 DEF RequestForm
  <2>9. RequestPolicy(p)' /\ RequestScopes(p)' /\ RequestSecrets(p)'
    <3>1. t # None
      BY ClientsAssumption
    <3>2. RequestPolicy(p)'
      BY <2>2, <2>3, <2>6 DEF RequestPolicy
    <3>3. RequestScopes(p)'
      BY <2>2, <2>3, <2>6, <2>7, <3>1 DEF RequestScopes
    <3>4. RequestSecrets(p)'
      BY <2>3, <2>5, <2>6 DEF RequestSecrets
    <3> QED BY <3>2, <3>3, <3>4
  <2>10. generated' \subseteq Secret /\ pc[p] # "insert" /\ pc'[p] # "insert" /\ pc'[p] # "save"
    BY <1>0, <1>1, <2>6
  <2> QED BY <1>1, <2>6, <2>8, <2>9, <2>10, QuietStep
<1> QED BY <1>2, <1>3

\* What a registered client may make of its row
Narrowed(row, meta) == [row EXCEPT !.scopes = ScopesOf(meta, row.scopes), !.grants = Grants(meta)]

\* A client that changes itself has no more than it had, and stays within the policy.
LEMMA NarrowedRow ==
  ASSUME NEW row \in ClientRow, NEW meta \in Metadata, Acceptable(meta, row)
  PROVE  LET new == Narrowed(row, meta) IN
         /\ new \in ClientRow /\ WithinPolicy(new) /\ (WithSecret(row) => WithSecret(new))
         /\ new.dynamic = row.dynamic /\ new.scopes \subseteq row.scopes
         /\ meta.scopes # {} => new.scopes = meta.scopes
<1> DEFINE new == Narrowed(row, meta)
<1>1. row.scopes \in SUBSET Scope
  BY RowFields
<1>2. /\ ScopesOf(meta, row.scopes) \in SUBSET row.scopes
      /\ meta.scopes # {} => ScopesOf(meta, row.scopes) = meta.scopes
  BY <1>1, ScopesOfFacts DEF Acceptable
<1>3. Grants(meta) \in SUBSET GrantType
  BY MetaFields
<1>4. new \in ClientRow
  BY <1>1, <1>2, <1>3 DEF ClientRow, Narrowed
<1>5. /\ new.public = row.public /\ new.hash = row.hash /\ new.dynamic = row.dynamic
      /\ new.scopes = ScopesOf(meta, row.scopes) /\ new.grants = Grants(meta)
  BY DEF ClientRow, Narrowed
<1> HIDE DEF new
<1>6. WithinPolicy(new)
  BY <1>5 DEF WithinPolicy, Acceptable, validateClientMetadata
<1>7. WithSecret(row) => WithSecret(new)
  BY <1>5 DEF WithSecret
<1>8. new.scopes \subseteq row.scopes /\ (meta.scopes # {} => new.scopes = meta.scopes)
  BY <1>2, <1>5
<1> QED BY <1>4, <1>5, <1>6, <1>7, <1>8 DEF new

\* A request that has read a live row goes on to save its copy.
LEMMA CopyStep ==
  ASSUME ClientInv, Observe, NEW p \in Request, pc[p] = "authorize" \/ pc[p] = "getByID",
         NEW c \in Client, req[p].client = c, Live(c), NEW meta \in Metadata, req[p].meta = meta,
         NEW new \in ClientRow, Know(p, "save", [req[p] EXCEPT !.row = new]),
         UNCHANGED tables, UNCHANGED history, generated' \subseteq Secret,
         new.dynamic = client[c].dynamic,
         new.dynamic /\ req[p].doing # "update" /\ c \notin managed => WithinPolicy(new) /\ WithSecret(new),
         meta.scopes # {} => new.scopes = meta.scopes,
         meta.scopes = {} \/ req[p].doing # "update" => new.scopes \subseteq client[c].scopes
  PROVE  ClientInv'
<1>0. /\ TypeOK /\ RequestForm(p) /\ req[p] \in Context
  BY AtStatement
<1>1. client' = client /\ token' = token /\ managed' = managed /\ disturbed' = disturbed /\ ceiling' = ceiling
  BY DEF tables, history
<1> DEFINE r == [req[p] EXCEPT !.row = new]
<1>2. r \in Context /\ r.row = new /\ r.token = req[p].token /\ r.meta = meta /\ r.doing = req[p].doing
      /\ r.client = c
  BY <1>0, ContextRow
<1>3. "save" \in PC /\ Know(p, "save", r)
  BY DEF PC
<1> HIDE DEF r
<1>4. req[p].doing # "validate" /\ req[p].token = None
  BY <1>0 DEF RequestForm
<1>5. /\ pc' \in [Request -> PC] /\ req' \in [Request -> Context] /\ mix' = mix
      /\ pc'[p] = "save" /\ req'[p] = r /\ Same(Request \ {p})
  BY <1>0, <1>2, <1>3, KnowFacts
<1>6. RequestForm(p)'
  BY <1>1, <1>2, <1>4, <1>5 DEF RequestForm, Live
<1>7. RequestPolicy(p)'
  BY <1>1, <1>2, <1>5 DEF RequestPolicy
<1>8. RequestScopes(p)'
  <2>1. new.dynamic /\ c \notin disturbed => client[c].scopes \subseteq ceiling[c]
    BY DEF ClientInv, ScopeInv, RowScopes
  <2> QED BY <1>1, <1>2, <1>5, <2>1 DEF RequestScopes
<1>9. RequestSecrets(p)'
  BY <1>2, <1>4, <1>5 DEF RequestSecrets
<1>10. req'[p].client \notin deleted \ disturbed
  BY <1>2, <1>5 DEF ClientInv, DeleteInv
<1>11. pc[p] # "insert" /\ pc'[p] # "insert"
  BY <1>5
<1> QED BY <1>5, <1>6, <1>7, <1>8, <1>9, <1>10, <1>11, QuietStep

\* A registered client's request finds its row.
LEMMA AuthorizeStep ==
  ASSUME ClientInv, Observe, NEW p \in Request, authorize(p)
  PROVE  ClientInv'
<1>0. TypeOK /\ RequestForm(p) /\ req[p] \in Context /\ generated \subseteq Secret
  BY AtStatement
<1>1. pc[p] = "authorize" /\ UNCHANGED tables /\ UNCHANGED history /\ UNCHANGED generated
  BY DEF authorize
<1> SUFFICES ASSUME NEW c \in Client, req[p].client = c
             PROVE  ClientInv'
  BY <1>0, <1>1 DEF RequestForm
<1>2. CASE Return(p)
  BY <1>1, <1>2, ReturnStep
<1>3. CASE ~Return(p) /\ req[p].doing = "selfDelete"
  <2>1. Goto(p, "getByID") /\ "getByID" \in PC
    BY <1>3 DEF authorize, PC
  <2>2. /\ pc' \in [Request -> PC] /\ req' \in [Request -> Context] /\ mix' = mix
        /\ pc'[p] = "getByID" /\ req'[p] = req[p] /\ Same(Request \ {p})
    BY <1>0, <2>1, GotoFacts
  <2>3. RequestForm(p)'
    BY <1>0, <1>1, <1>3, <2>2 DEF RequestForm, tables
  <2>4. pc[p] # "insert" /\ pc'[p] \notin {"consume", "insert", "save", "compare", "remember", "accepted"}
    BY <1>1, <2>2
  <2>5. generated' \subseteq Secret
    BY <1>0, <1>1
  <2> QED BY <1>1, <2>2, <2>3, <2>4, <2>5, PlainStep
<1>4. CASE ~Return(p) /\ req[p].doing # "selfDelete"
  <2> SUFFICES ASSUME NEW meta \in Metadata, req[p].meta = meta
               PROVE  ClientInv'
    BY <1>0, <1>1, <1>4 DEF RequestForm
  <2> DEFINE new == Narrowed(client[c], meta)
  <2>1. Find(c) # None
    BY <1>4 DEF authorize, Authorized
  <2>2. Live(c) /\ Find(c) = client[c] /\ client[c] \in ClientRow
    BY <1>0, <2>1, FindFacts
  <2>3. Acceptable(meta, client[c]) /\ Know(p, "save", [req[p] EXCEPT !.row = new])
    BY <1>4, <2>2 DEF authorize, Narrowed
  <2>4. /\ new \in ClientRow /\ WithinPolicy(new) /\ (WithSecret(client[c]) => WithSecret(new))
        /\ new.dynamic = client[c].dynamic /\ new.scopes \subseteq client[c].scopes
        /\ meta.scopes # {} => new.scopes = meta.scopes
    BY <2>2, <2>3, NarrowedRow
  <2> HIDE DEF new
  <2>5. new.dynamic /\ c \notin managed => WithinPolicy(new) /\ WithSecret(new)
    BY <2>2, <2>4 DEF ClientInv, PolicyInv, RowPolicy, Live
  <2>6. generated' \subseteq Secret
    BY <1>0, <1>1
  <2> QED BY <1>1, <2>2, <2>3, <2>4, <2>5, <2>6, CopyStep
<1> QED BY <1>2, <1>3, <1>4

\* What an administrator may make of a row
Edited(row, meta, public, hash) ==
  [row EXCEPT !.scopes = Given(meta.scopes, @), !.grants = Given(meta.grants, @),
              !.public = public, !.hash = hash]

\* What the administrator does not name stays as it was.
LEMMA EditedRow ==
  ASSUME NEW row \in ClientRow, NEW meta \in Metadata, NEW public \in BOOLEAN, NEW hash \in Hash \cup {None}
  PROVE  LET new == Edited(row, meta, public, hash) IN
         /\ new \in ClientRow /\ new.dynamic = row.dynamic
         /\ meta.scopes # {} => new.scopes = meta.scopes
         /\ meta.scopes = {} => new.scopes = row.scopes
<1> DEFINE new == Edited(row, meta, public, hash)
<1>1. row.scopes \in SUBSET Scope /\ row.grants \in SUBSET GrantType
  BY RowFields
<1>2. meta.scopes \in SUBSET Scope /\ meta.grants \in SUBSET GrantType
  BY MetaFields
<1>3. Given(meta.scopes, row.scopes) \in SUBSET Scope /\ Given(meta.grants, row.grants) \in SUBSET GrantType
  BY <1>1, <1>2 DEF Given
<1>4. new \in ClientRow
  BY <1>3 DEF ClientRow, Edited
<1>5. new.dynamic = row.dynamic /\ new.scopes = Given(meta.scopes, row.scopes)
  BY DEF ClientRow, Edited
<1> HIDE DEF new
<1>6. (meta.scopes # {} => new.scopes = meta.scopes) /\ (meta.scopes = {} => new.scopes = row.scopes)
  BY <1>5 DEF Given
<1> QED BY <1>4, <1>5, <1>6 DEF new

\* An administrator's request, or a client's own deletion, finds the row.
LEMMA GetByIDStep ==
  ASSUME ClientInv, Observe, NEW p \in Request, GetByID(p)
  PROVE  ClientInv'
<1>0. TypeOK /\ RequestForm(p) /\ req[p] \in Context /\ generated \subseteq Secret
  BY AtStatement
<1>1. pc[p] = "getByID" /\ UNCHANGED tables /\ UNCHANGED history
  BY DEF GetByID
<1> SUFFICES ASSUME NEW c \in Client, req[p].client = c
             PROVE  ClientInv'
  BY <1>0, <1>1 DEF RequestForm
<1>2. CASE Find(c) = None
  <2>1. Return(p) /\ UNCHANGED generated
    BY <1>2 DEF GetByID
  <2> QED BY <1>1, <2>1, ReturnStep
<1>3. CASE Find(c) # None /\ req[p].doing # "update"
  <2>1. Goto(p, "delete") /\ "delete" \in PC /\ UNCHANGED generated
    BY <1>3 DEF GetByID, PC
  <2>2. /\ pc' \in [Request -> PC] /\ req' \in [Request -> Context] /\ mix' = mix
        /\ pc'[p] = "delete" /\ req'[p] = req[p] /\ Same(Request \ {p})
    BY <1>0, <2>1, GotoFacts
  <2>3. RequestForm(p)'
    BY <1>0, <1>1, <2>2 DEF RequestForm, tables
  <2>4. pc[p] # "insert" /\ pc'[p] \notin {"consume", "insert", "save", "compare", "remember", "accepted"}
    BY <1>1, <2>2
  <2>5. generated' \subseteq Secret
    BY <1>0, <2>1
  <2> QED BY <1>1, <2>2, <2>3, <2>4, <2>5, PlainStep
<1>4. CASE Find(c) # None /\ req[p].doing = "update"
  <2> SUFFICES ASSUME NEW meta \in Metadata, req[p].meta = meta
               PROVE  ClientInv'
    BY <1>0, <1>1, <1>4 DEF RequestForm
  <2>1. Live(c) /\ Find(c) = client[c] /\ client[c] \in ClientRow
    BY <1>0, <1>4, FindFacts
  <2>2. client[c].hash \in Hash \cup {None} /\ client[c].public \in BOOLEAN
    BY <2>1, RowFields
  <2>3. meta.public \in BOOLEAN /\ req[p].keep \in BOOLEAN
    BY <1>0, MetaFields, ContextFields
  <2> DEFINE public == IF req[p].keep THEN client[c].public ELSE meta.public
  <2>4. public \in BOOLEAN
    BY <2>2, <2>3
  <2>5. PICK hash \in IF req[p].keep THEN {client[c].hash} ELSE Secrets(public, client[c].hash) :
          Know(p, "save", [req[p] EXCEPT !.row = Edited(client[c], meta, public, hash)]) /\ Generated(hash)
    BY <1>4, <2>1 DEF GetByID, Edited
  <2> HIDE DEF public
  <2>6. hash \in Hash \cup {None}
    BY <2>2, <2>4, <2>5, SecretsFacts
  <2> DEFINE new == Edited(client[c], meta, public, hash)
  <2>7. Know(p, "save", [req[p] EXCEPT !.row = new]) /\ generated' \subseteq Secret
    BY <1>0, <2>5, <2>6, GeneratedFacts
  <2>8. /\ new \in ClientRow /\ new.dynamic = client[c].dynamic
        /\ meta.scopes # {} => new.scopes = meta.scopes
        /\ meta.scopes = {} => new.scopes = client[c].scopes
    BY <2>1, <2>4, <2>6, EditedRow
  <2> HIDE DEF new
  <2> QED BY <1>1, <1>4, <2>1, <2>7, <2>8, CopyStep
<1> QED BY <1>2, <1>3, <1>4

\* A new id is nobody's.
LEMMA FreshFacts ==
  ASSUME NEW c \in Client, Fresh(c)
  PROVE  client[c] = None /\ \A q \in Request : req[q].client # c
BY DEF Fresh

\* The row and the request of a client that an administrator creates
CreatedRow(meta, hash) ==
  [live |-> TRUE, dynamic |-> FALSE, public |-> meta.public, hash |-> hash,
   scopes |-> meta.scopes, grants |-> meta.grants]
Creation(c, row) == [Nothing EXCEPT !.doing = "create", !.client = c, !.row = row]

\* They have their types.
LEMMA CreationFacts ==
  ASSUME NEW meta \in Metadata, NEW hash \in Hash \cup {None}, NEW c \in Client
  PROVE  LET row == CreatedRow(meta, hash)
             r == Creation(c, row)
         IN /\ row \in ClientRow /\ ~row.dynamic
            /\ r \in Context /\ r.doing = "create" /\ r.client = c /\ r.row = row /\ r.token = None
<1> DEFINE row == CreatedRow(meta, hash)
<1>1. meta.public \in BOOLEAN /\ meta.scopes \in SUBSET Scope /\ meta.grants \in SUBSET GrantType
  BY MetaFields
<1>2. row \in ClientRow /\ ~row.dynamic
  BY <1>1 DEF CreatedRow, ClientRow
<1> HIDE DEF row
<1>3. "create" \in Operation
  BY DEF Operation
<1>4. LET r == Creation(c, row) IN
      r \in Context /\ r.doing = "create" /\ r.client = c /\ r.row = row /\ r.token = None
  BY <1>2, <1>3 DEF Creation, Nothing, Context
<1> QED BY <1>2, <1>4 DEF row

\* An administrator creates a client.
LEMMA CreateStep ==
  ASSUME ClientInv, Observe, NEW p \in Request, NEW c \in Client, NEW meta \in Metadata, Create(p, c, meta)
  PROVE  ClientInv'
<1>0. TypeOK
  BY DEF ClientInv
<1>1. PICK hash \in Secrets(meta.public, None) :
        /\ pc[p] = "idle" /\ Generated(hash)
        /\ Know(p, "insert", Creation(c, CreatedRow(meta, hash)))
  BY DEF Create, Creation, CreatedRow
<1>2. UNCHANGED tables /\ UNCHANGED history /\ Fresh(c)
  BY DEF Create
<1>3. hash \in Hash \cup {None}
  <2>1. meta.public \in BOOLEAN
    BY MetaFields
  <2> QED BY <1>1, <2>1, SecretsFacts
<1>4. generated' \subseteq Secret
  BY <1>0, <1>1, <1>3, GeneratedFacts
<1> DEFINE row == CreatedRow(meta, hash)
<1> DEFINE r == Creation(c, row)
<1>5. /\ row \in ClientRow /\ ~row.dynamic
      /\ r \in Context /\ r.doing = "create" /\ r.client = c /\ r.row = row /\ r.token = None
  BY <1>3, CreationFacts
<1>6. "insert" \in PC /\ Know(p, "insert", r)
  BY <1>1 DEF PC
<1> HIDE DEF r, row
<1>7. /\ pc' \in [Request -> PC] /\ req' \in [Request -> Context] /\ mix' = mix
      /\ pc'[p] = "insert" /\ req'[p] = r /\ Same(Request \ {p})
  BY <1>0, <1>5, <1>6, KnowFacts
<1>8. client[c] = None /\ \A q \in Request : req[q].client # c
  BY <1>2, FreshFacts
<1>9. client' = client
  BY <1>2 DEF tables
<1>10. RequestForm(p)'
  BY <1>5, <1>7, <1>8, <1>9 DEF RequestForm
<1>11. RequestPolicy(p)' /\ RequestScopes(p)' /\ RequestSecrets(p)'
  BY <1>5, <1>7 DEF RequestPolicy, RequestScopes, RequestSecrets
<1>12. /\ pc[p] # "insert" /\ pc'[p] # "save" /\ req'[p].token = None
       /\ \A q \in Request \ {p} : pc[q] = "insert" => req[q].client # req'[p].client
  BY <1>1, <1>5, <1>7, <1>8
<1> QED BY <1>2, <1>4, <1>7, <1>10, <1>11, <1>12, QuietStep

\* A validation that goes on without a change of the tables.
LEMMA GoOnStep ==
  ASSUME ClientInv, Observe, NEW p \in Request, req[p].doing = "validate", NEW next \in PC,
         Goto(p, next), UNCHANGED tables, UNCHANGED history, UNCHANGED generated,
         next = "remember" \/ next = "accepted",
         next = "remember" => pc[p] = "compare" /\ req[p].row.hash = HashOf(req[p].secret),
         next = "accepted" => req[p].secret \in known[p]
  PROVE  ClientInv'
<1>0. TypeOK /\ RequestForm(p) /\ RequestSecrets(p) /\ generated \subseteq Secret
  BY AtStatement
<1>1. /\ pc' \in [Request -> PC] /\ req' \in [Request -> Context] /\ mix' = mix
      /\ pc'[p] = next /\ req'[p] = req[p] /\ Same(Request \ {p})
  BY <1>0, GotoFacts
<1>2. Right(req[p].client)' \subseteq known'[p] /\ known[p] \subseteq known'[p]
  BY <1>1, ObserveFacts
<1>3. RequestForm(p)'
  BY <1>0, <1>1 DEF RequestForm
<1>4. RequestPolicy(p)' /\ RequestScopes(p)'
  BY <1>1 DEF RequestPolicy, RequestScopes
<1>5. RequestSecrets(p)'
  BY <1>0, <1>1, <1>2 DEF RequestSecrets
<1>6. pc[p] # "insert" /\ pc'[p] # "insert" /\ pc'[p] # "save"
  BY <1>0, <1>1 DEF RequestForm
<1>7. generated' \subseteq Secret
  BY <1>0
<1> QED BY <1>1, <1>3, <1>4, <1>5, <1>6, <1>7, QuietStep

\* A validation finds its client.
LEMMA GetByClientIDStep ==
  ASSUME ClientInv, Observe, NEW p \in Request, GetByClientID(p)
  PROVE  ClientInv'
<1>0. TypeOK /\ RequestForm(p) /\ RequestSecrets(p) /\ req[p] \in Context /\ generated \subseteq Secret
  BY AtStatement
<1>1. pc[p] = "getClient" /\ UNCHANGED tables /\ UNCHANGED history /\ UNCHANGED generated
  BY DEF GetByClientID
<1>2. req[p].doing = "validate" /\ req[p].replica \in Replica /\ req[p].secret \in Secret \cup {None}
  BY <1>0, <1>1, ContextFields DEF RequestForm
<1> SUFFICES ASSUME NEW c \in Client, req[p].client = c
             PROVE  ClientInv'
  BY <1>0, <1>1 DEF RequestForm
<1>3. CASE Return(p)
  BY <1>1, <1>3, ReturnStep
<1>4. CASE ~Return(p) /\ Find(c).public
  <2>1. Find(c) # None /\ req[p].secret = None /\ Goto(p, "accepted")
    BY <1>4 DEF GetByClientID
  <2>2. Live(c) /\ client[c].public
    BY <1>0, <1>4, <2>1, FindFacts
  <2>3. None \in known[p]
    BY <1>0, <1>2, <2>2 DEF RequestSecrets, Right
  <2>4. "accepted" \in PC
    BY DEF PC
  <2> QED BY <1>1, <1>2, <2>1, <2>3, <2>4, GoOnStep
<1>5. CASE ~Return(p) /\ ~Find(c).public
  <2>1. /\ Find(c) # None /\ req[p].secret # None /\ Find(c).hash # None
        /\ Know(p, "compare", [req[p] EXCEPT !.row = Find(c)])
    BY <1>5 DEF GetByClientID
  <2>2. Live(c) /\ Find(c) = client[c] /\ client[c] \in ClientRow
    BY <1>0, <2>1, FindFacts
  <2>3. client[c].hash \in Hash
    BY <2>1, <2>2, RowFields
  <2>4. client[c].hash.of \in known[p]
    BY <1>0, <1>2, <1>5, <2>1, <2>2 DEF RequestSecrets, Right
  <2> DEFINE r == [req[p] EXCEPT !.row = client[c]]
  <2>5. /\ r \in Context /\ r.row = client[c] /\ r.client = c /\ r.doing = "validate"
        /\ r.replica = req[p].replica /\ r.secret = req[p].secret
    BY <1>0, <1>2, <2>2, ContextRow
  <2>6. "compare" \in PC /\ Know(p, "compare", r)
    BY <2>1, <2>2 DEF PC
  <2> HIDE DEF r
  <2>7. /\ pc' \in [Request -> PC] /\ req' \in [Request -> Context] /\ mix' = mix
        /\ pc'[p] = "compare" /\ req'[p] = r /\ Same(Request \ {p})
    BY <1>0, <2>5, <2>6, KnowFacts
  <2>8. RequestForm(p)'
    BY <1>2, <2>1, <2>2, <2>3, <2>5, <2>7 DEF RequestForm
  <2>9. RequestPolicy(p)' /\ RequestScopes(p)'
    BY <2>7 DEF RequestPolicy, RequestScopes
  <2>10. Right(req[p].client)' \subseteq known'[p] /\ known[p] \subseteq known'[p]
    BY <1>2, <2>5, <2>7, ObserveFacts
  <2>11. RequestSecrets(p)'
    BY <2>4, <2>5, <2>7, <2>10 DEF RequestSecrets
  <2>12. pc[p] # "insert" /\ pc'[p] # "insert" /\ pc'[p] # "save" /\ generated' \subseteq Secret
    BY <1>0, <1>1, <2>7
  <2> QED BY <1>1, <2>7, <2>8, <2>9, <2>11, <2>12, QuietStep
<1> QED BY <1>3, <1>4, <1>5

\* A validation holds the secret against the cache and the hash.
LEMMA CompareStep ==
  ASSUME ClientInv, Observe, NEW p \in Request, Compare(p)
  PROVE  ClientInv'
<1>0. TypeOK /\ RequestForm(p) /\ RequestSecrets(p) /\ req[p] \in Context
  BY AtStatement
<1>1. pc[p] = "compare" /\ UNCHANGED tables /\ UNCHANGED history /\ UNCHANGED generated
  BY DEF Compare
<1>2. /\ req[p].doing = "validate" /\ req[p].replica \in Replica /\ req[p].secret \in Secret
      /\ req[p].row.hash \in Hash /\ req[p].row.hash.of \in known[p]
  BY <1>0, <1>1 DEF RequestForm, RequestSecrets
<1>p. "accepted" \in PC /\ "remember" \in PC
  BY DEF PC
<1>3. CASE Return(p)
  BY <1>1, <1>3, ReturnStep
<1>4. CASE verified(req[p].replica, req[p].client, req[p].row.hash, req[p].secret)
  <2>1. Goto(p, "accepted")
    BY <1>4 DEF Compare
  <2>2. req[p].row.hash = HashOf(req[p].secret)
    BY <1>2, <1>4 DEF verified, ClientInv, CacheInv
  <2>3. req[p].secret \in known[p]
    BY <1>2, <2>2 DEF HashOf
  <2> QED BY <1>1, <1>2, <1>p, <2>1, <2>3, GoOnStep
<1>5. CASE ~Return(p) /\ ~verified(req[p].replica, req[p].client, req[p].row.hash, req[p].secret)
  <2>1. Goto(p, "remember") /\ Matches(req[p].row.hash, req[p].secret)
    BY <1>5 DEF Compare
  <2>2. req[p].row.hash = HashOf(req[p].secret)
    BY <1>2, <2>1, HashFacts DEF Matches
  <2> QED BY <1>1, <1>2, <1>p, <2>1, <2>2, GoOnStep
<1> QED BY <1>3, <1>4, <1>5

\* An authenticated client is served.
LEMMA ServeStep ==
  ASSUME ClientInv, Observe, NEW p \in Request, Serve(p)
  PROVE  ClientInv'
<1>1. pc[p] # "insert" /\ Return(p) /\ UNCHANGED tables /\ UNCHANGED history /\ UNCHANGED generated
  BY DEF Serve
<1> QED BY <1>1, ReturnStep

-----------------------------------------------------------------------------
(* Steps that change the tables *)

\* TypeOK without what validations know
TableTypes ==
  /\ client \in [Client -> ClientRow \cup {None}]
  /\ token \in [Token -> TokenRow \cup {None}]
  /\ \A k \in Replica :
       /\ cache[k] \subseteq [client : Client, hash : Hash, mac : Secret]
       /\ Cardinality(cache[k]) <= CacheLimit
  /\ pc \in [Request -> PC] /\ req \in [Request -> Context]
  /\ mix \in [ops : SUBSET Operation, clients : Nat]
  /\ generated \subseteq Secret
  /\ registered \in [Token -> Nat] /\ spent \in [Token -> Nat]
  /\ ceiling \in [Client -> SUBSET Scope]
  /\ deleted \subseteq Client /\ managed \subseteq Client /\ disturbed \subseteq Client

\* The parts there are.
LEMMA PartsHold ==
  ASSUME ClientInv
  PROVE  /\ TableTypes /\ InsertsApart /\ RowPolicy /\ RowScopes
         /\ TypeOK /\ FormInv /\ CacheInv /\ CountInv /\ PolicyInv /\ ScopeInv /\ DeleteInv
         /\ \A q \in Request : RequestForm(q) /\ RequestPolicy(q) /\ RequestScopes(q) /\ RequestSecrets(q)
BY DEF ClientInv, TypeOK, TableTypes, FormInv, PolicyInv, ScopeInv

\* A step that moves the requests outside Q: those in Q keep what is said of them.
LEMMA MoveStep ==
  ASSUME ClientInv, Observe, NEW Q \in SUBSET Request, Same(Q), Kept(Q),
         TableTypes', InsertsApart', CacheInv', CountInv', RowPolicy', RowScopes', DeleteInv',
         \A q \in Request \ Q : RequestForm(q)' /\ RequestPolicy(q)' /\ RequestScopes(q)' /\ RequestSecrets(q)'
  PROVE  ClientInv'
<1>1. /\ TypeOK /\ FormInv /\ PolicyInv /\ ScopeInv
      /\ \A q \in Request : RequestSecrets(q)
  BY PartsHold
<1>2. \A q \in Q : RequestForm(q)'
  BY <1>1, FrameForm
<1>3. \A q \in Q : RequestPolicy(q)' /\ RequestScopes(q)'
  BY <1>1, FrameRows
<1>4. \A q \in Q : RequestSecrets(q)'
  BY <1>1, FrameSecrets
<1>5. \A q \in Request : RequestForm(q)' /\ RequestPolicy(q)' /\ RequestScopes(q)' /\ RequestSecrets(q)'
  BY <1>2, <1>3, <1>4
<1>6. known' \in [Request -> SUBSET (Secret \cup {None})]
  <2>1. client' \in [Client -> ClientRow \cup {None}]
    BY DEF TableTypes
  <2> QED BY <1>1, <1>5, <2>1, KnownTypes
<1>7. TypeOK'
  BY <1>6 DEF TypeOK, TableTypes
<1>8. FormInv'
  BY <1>5 DEF FormInv
<1>9. PolicyInv' /\ ScopeInv'
  BY <1>5 DEF PolicyInv, ScopeInv
<1> QED BY <1>5, <1>7, <1>8, <1>9 DEF ClientInv

\* A request that ends with the step keeps nothing to speak of.
LEMMA EndStep ==
  ASSUME ClientInv, Observe, NEW p \in Request, Return(p), Kept(Request \ {p}),
         TableTypes', CacheInv', CountInv', RowPolicy', RowScopes', DeleteInv'
  PROVE  ClientInv'
<1>1. TypeOK /\ InsertsApart
  BY PartsHold
<1>2. pc'[p] = "idle" /\ req'[p] = Nothing /\ Same(Request \ {p})
  BY <1>1, ReturnFacts
<1>3. /\ RequestForm(p)' /\ RequestPolicy(p)' /\ RequestScopes(p)' /\ RequestSecrets(p)'
  BY <1>2, IdleForm, NothingFacts DEF RequestPolicy, RequestScopes, RequestSecrets
<1>4. InsertsApart'
  BY <1>1, <1>2 DEF InsertsApart, Same
<1>5. \A q \in Request \ (Request \ {p}) : q = p
  OBVIOUS
<1> QED BY <1>2, <1>3, <1>4, <1>5, MoveStep

\* A step that moves no request.
LEMMA StillStep ==
  ASSUME ClientInv, Observe, UNCHANGED request, UNCHANGED history, UNCHANGED client, Kept(Request),
         TableTypes', CacheInv', CountInv'
  PROVE  ClientInv'
<1>1. InsertsApart /\ RowPolicy /\ RowScopes /\ DeleteInv
  BY PartsHold
<1>2. pc' = pc /\ req' = req /\ managed' = managed /\ disturbed' = disturbed /\ deleted' = deleted
      /\ ceiling' = ceiling /\ client' = client
  BY DEF request, history
<1>3. InsertsApart' /\ RowPolicy' /\ RowScopes' /\ DeleteInv'
  BY <1>1, <1>2 DEF InsertsApart, RowPolicy, RowScopes, DeleteInv, Live
<1>4. Same(Request)
  BY <1>2 DEF Same
<1> QED BY <1>3, <1>4, MoveStep

\* Tokens that change nothing of what is counted.
LEMMA TokenStep ==
  ASSUME ClientInv, Observe, UNCHANGED request, UNCHANGED history, UNCHANGED <<client, cache, generated>>,
         NEW t \in Token, NEW row \in TokenRow, token' = [token EXCEPT ![t] = row],
         IF token[t] = None THEN row.uses = 0
         ELSE row.uses = token[t].uses /\ row.max = token[t].max /\ row.scopes = token[t].scopes
  PROVE  ClientInv'
<1>1. TableTypes /\ CacheInv /\ CountInv /\ FormInv
  BY PartsHold
<1>2. /\ pc' = pc /\ req' = req /\ mix' = mix /\ managed' = managed /\ disturbed' = disturbed
      /\ deleted' = deleted /\ ceiling' = ceiling /\ registered' = registered /\ spent' = spent
  BY DEF request, history
<1>3. row # None /\ row.uses \in Nat /\ row.max \in Nat
  BY NoneAssumption, ClientsAssumption DEF TokenRow
<1>4. token'[t] = row /\ \A s \in Token \ {t} : token'[s] = token[s]
  BY <1>1 DEF TableTypes
<1>5. TableTypes'
  BY <1>1, <1>2 DEF TableTypes
<1>6. Kept(Request)
  BY <1>1, <1>2, <1>3, <1>4 DEF Kept, FormInv, RequestForm
<1>7. CacheInv'
  BY <1>1 DEF CacheInv
<1>8. \A s \in Token : Registering(s)' = Registering(s)
  BY <1>2 DEF Registering
<1>9. token[t] = None => registered[t] = 0 /\ spent[t] = 0 /\ Cardinality(Registering(t)) = 0
  <2> HAVE token[t] = None
  <2>1. Registering(t) = {}
    BY <1>1, ClientsAssumption DEF Registering, FormInv, RequestForm
  <2> QED BY <1>1, <2>1, FS_EmptySet DEF CountInv
<1>10. CountInv'
  <2>1. \A s \in Token : token'[s] = None => registered'[s] = 0 /\ spent'[s] = 0
    BY <1>1, <1>2, <1>3, <1>4 DEF CountInv
  <2>2. ASSUME NEW s \in Token, token'[s] # None
        PROVE  /\ token'[s].uses = registered'[s] + spent'[s] + Cardinality(Registering(s)')
               /\ token'[s].uses <= token'[s].max
    <3>1. CASE s # t
      BY <1>1, <1>2, <1>4, <1>8, <2>2, <3>1 DEF CountInv, RegistrationsBounded
    <3>2. CASE s = t /\ token[t] = None
      BY <1>2, <1>3, <1>4, <1>8, <1>9, <3>2
    <3>3. CASE s = t /\ token[t] # None
      BY <1>1, <1>2, <1>4, <1>8, <3>3 DEF CountInv, RegistrationsBounded
    <3> QED BY <3>1, <3>2, <3>3
  <2> QED BY <2>1, <2>2 DEF CountInv, RegistrationsBounded
<1> QED BY <1>5, <1>6, <1>7, <1>10, StillStep

\* A token is created, revoked, or expires.
LEMMA TokensStep ==
  ASSUME ClientInv, Observe, NEW t \in Token,
         \/ \E scopes \in SUBSET Scope, max \in Uses : CreateInitialAccessToken(t, scopes, max)
         \/ RevokeInitialAccessToken(t) \/ TokenExpires(t)
  PROVE  ClientInv'
<1>1. token \in [Token -> TokenRow \cup {None}]
  BY PartsHold DEF TableTypes
<1>2. ASSUME NEW scopes \in SUBSET Scope, NEW max \in Uses, CreateInitialAccessToken(t, scopes, max)
      PROVE  ClientInv'
  <2> DEFINE row == [scopes |-> scopes, max |-> max, uses |-> 0, revoked |-> FALSE, expired |-> FALSE]
  <2>1. row \in TokenRow /\ row.uses = 0
    BY DEF TokenRow
  <2>2. token' = [token EXCEPT ![t] = row] /\ token[t] = None
    BY <1>2 DEF CreateInitialAccessToken
  <2>3. UNCHANGED request /\ UNCHANGED history /\ UNCHANGED <<client, cache, generated>>
    BY <1>2 DEF CreateInitialAccessToken
  <2> HIDE DEF row
  <2> QED BY <2>1, <2>2, <2>3, TokenStep
<1>3. CASE RevokeInitialAccessToken(t)
  <2> DEFINE row == [token[t] EXCEPT !.revoked = TRUE]
  <2>1. token[t] # None /\ token' = [token EXCEPT ![t] = row]
    BY <1>3 DEF RevokeInitialAccessToken
  <2>2. row \in TokenRow /\ row.uses = token[t].uses /\ row.max = token[t].max /\ row.scopes = token[t].scopes
    BY <1>1, <2>1 DEF TokenRow
  <2>3. UNCHANGED request /\ UNCHANGED history /\ UNCHANGED <<client, cache, generated>>
    BY <1>3 DEF RevokeInitialAccessToken
  <2> HIDE DEF row
  <2> QED BY <2>1, <2>2, <2>3, TokenStep
<1>4. CASE TokenExpires(t)
  <2> DEFINE row == [token[t] EXCEPT !.expired = TRUE]
  <2>1. token[t] # None /\ token' = [token EXCEPT ![t] = row]
    BY <1>4 DEF TokenExpires
  <2>2. row \in TokenRow /\ row.uses = token[t].uses /\ row.max = token[t].max /\ row.scopes = token[t].scopes
    BY <1>1, <2>1 DEF TokenRow
  <2>3. UNCHANGED request /\ UNCHANGED history /\ UNCHANGED <<client, cache, generated>>
    BY <1>4 DEF TokenExpires
  <2> HIDE DEF row
  <2> QED BY <2>1, <2>2, <2>3, TokenStep
<1> QED BY <1>2, <1>3, <1>4

\* Requests about to insert are finitely many, and one more or less of them counts one.
LEMMA RegisteringCount ==
  ASSUME NEW t \in Token
  PROVE  IsFiniteSet(Registering(t)) /\ Cardinality(Registering(t)) \in Nat
<1>1. Registering(t) \subseteq Request
  BY DEF Registering
<1> QED BY <1>1, ClientsAssumption, FS_Subset, FS_CardinalityType

\* The request that has got an id and, unless public, a secret
Prepared(r, c, hash) == [r EXCEPT !.client = c, !.row.hash = hash]

\* It has its types.
LEMMA PreparedFacts ==
  ASSUME NEW r \in Context, r.row \in ClientRow, NEW c \in Client, NEW hash \in Hash \cup {None}
  PROVE  LET s == Prepared(r, c, hash) IN
         /\ s \in Context /\ s.client = c /\ s.doing = r.doing /\ s.token = r.token
         /\ s.row \in ClientRow /\ s.row.hash = hash /\ s.row.public = r.row.public
         /\ s.row.dynamic = r.row.dynamic /\ s.row.scopes = r.row.scopes /\ s.row.grants = r.row.grants
<1> DEFINE row == [r.row EXCEPT !.hash = hash]
<1>1. /\ row \in ClientRow /\ row.hash = hash /\ row.public = r.row.public
      /\ row.dynamic = r.row.dynamic /\ row.scopes = r.row.scopes /\ row.grants = r.row.grants
  BY DEF ClientRow
<1>2. Prepared(r, c, hash) = [r EXCEPT !.client = c, !.row = row]
  BY DEF Prepared, Context
<1> HIDE DEF row
<1>3. LET s == [r EXCEPT !.client = c, !.row = row] IN
      s \in Context /\ s.client = c /\ s.doing = r.doing /\ s.token = r.token /\ s.row = row
  BY <1>1 DEF Context
<1> QED BY <1>1, <1>2, <1>3

\* A registration uses its token.
LEMMA ConsumeStep ==
  ASSUME ClientInv, Observe, NEW p \in Request, Consume(p)
  PROVE  ClientInv'
<1>0. /\ TableTypes /\ TypeOK /\ CountInv /\ CacheInv /\ RowPolicy /\ RowScopes /\ DeleteInv /\ InsertsApart
      /\ FormInv /\ RequestForm(p) /\ RequestPolicy(p) /\ RequestScopes(p)
  BY PartsHold
<1>1. /\ pc[p] = "consume" /\ UNCHANGED client /\ UNCHANGED cache /\ UNCHANGED history /\ req[p] \in Context
  BY <1>0 DEF Consume, TypeOK
<1>2. /\ req[p].row \in ClientRow /\ req[p].doing # "validate"
      /\ req[p].row.dynamic => WithinPolicy(req[p].row)
  BY <1>0, <1>1 DEF RequestForm, RequestPolicy
<1> SUFFICES ASSUME NEW t \in Token, req[p].token = t
             PROVE  ClientInv'
  BY <1>0, <1>1 DEF RequestForm
<1>3. token[t] # None /\ req[p].row.scopes \subseteq token[t].scopes /\ t # None
  BY <1>0, <1>1, ClientsAssumption DEF RequestForm, RequestScopes
<1>4. token[t] \in TokenRow /\ token[t].uses \in Nat /\ token[t].max \in Nat
  BY <1>0, <1>3, ClientsAssumption DEF TableTypes, TokenRow
<1>5. CASE ~Consumable(t)
  <2>1. Return(p) /\ UNCHANGED tables /\ UNCHANGED history /\ UNCHANGED generated
    BY <1>1, <1>5 DEF Consume, tables
  <2> QED BY <1>1, <2>1, ReturnStep
<1>6. CASE Consumable(t)
  <2>1. token' = [token EXCEPT ![t] = [token[t] EXCEPT !.uses = @ + 1]]
    BY <1>6 DEF Consume
  <2>2. PICK c \in Client, hash \in Secrets(req[p].row.public, None) :
          /\ Fresh(c) /\ Generated(hash) /\ Know(p, "insert", Prepared(req[p], c, hash))
    BY <1>6 DEF Consume, Prepared
  <2>3. hash \in Hash \cup {None} /\ (req[p].row.public <=> hash = None)
    <3>1. req[p].row.public \in BOOLEAN
      BY <1>2, RowFields
    <3> QED BY <2>2, <3>1, SecretsFacts
  <2>4. generated' \subseteq Secret
    BY <1>0, <2>2, <2>3, GeneratedFacts
  <2>5. client[c] = None /\ \A q \in Request : req[q].client # c
    BY <2>2, FreshFacts
  <2> DEFINE r == Prepared(req[p], c, hash)
  <2>6. /\ r \in Context /\ r.client = c /\ r.doing = req[p].doing /\ r.token = t
        /\ r.row \in ClientRow /\ r.row.hash = hash /\ r.row.public = req[p].row.public
        /\ r.row.dynamic = req[p].row.dynamic /\ r.row.scopes = req[p].row.scopes
        /\ r.row.grants = req[p].row.grants
    BY <1>1, <1>2, <2>3, PreparedFacts
  <2>7. "insert" \in PC /\ Know(p, "insert", r)
    BY <2>2 DEF PC
  <2> HIDE DEF r
  <2>8. /\ pc' \in [Request -> PC] /\ req' \in [Request -> Context] /\ mix' = mix
        /\ pc'[p] = "insert" /\ req'[p] = r /\ Same(Request \ {p})
    BY <1>0, <2>6, <2>7, KnowFacts
  <2>9. /\ [token[t] EXCEPT !.uses = @ + 1] \in TokenRow /\ \A s \in Token \ {t} : token'[s] = token[s]
        /\ token'[t] \in TokenRow /\ token'[t].scopes = token[t].scopes
        /\ token'[t].uses = token[t].uses + 1 /\ token'[t].max = token[t].max /\ token'[t] # None
    BY <1>0, <1>4, <2>1, NoneAssumption DEF TableTypes, TokenRow
  <2>10. TableTypes'
    <3>1. token' \in [Token -> TokenRow \cup {None}]
      BY <1>0, <2>1, <2>9 DEF TableTypes
    <3> QED BY <1>0, <1>1, <2>4, <2>8, <3>1 DEF TableTypes, history
  <2>11. Kept(Request \ {p})
    BY <1>0, <1>1, <2>9 DEF Kept, history, FormInv, RequestForm
  <2>12. RequestForm(p)'
    BY <1>1, <1>2, <2>5, <2>6, <2>8, <2>9 DEF RequestForm
  <2>13. RequestPolicy(p)'
    BY <1>2, <2>3, <2>6, <2>8 DEF RequestPolicy, WithinPolicy, WithSecret
  <2>14. RequestScopes(p)' /\ RequestSecrets(p)'
    BY <1>2, <1>3, <2>6, <2>8, <2>9 DEF RequestScopes, RequestSecrets
  <2>15. InsertsApart'
    BY <1>0, <2>5, <2>6, <2>8 DEF InsertsApart, Same
  <2>16. CacheInv' /\ RowPolicy' /\ RowScopes'
    BY <1>0, <1>1 DEF CacheInv, RowPolicy, RowScopes, Live, history
  <2>17. DeleteInv'
    BY <1>0, <1>1, <2>8 DEF DeleteInv, Live, history, Same
  <2>18. CountInv'
    <3>1. Registering(t)' = Registering(t) \cup {p} /\ p \notin Registering(t)
      BY <1>1, <2>6, <2>8 DEF Registering, Same
    <3>2. Cardinality(Registering(t)') = Cardinality(Registering(t)) + 1
      BY <3>1, RegisteringCount, FS_AddElement
    <3>3. \A s \in Token \ {t} : Registering(s)' = Registering(s)
      BY <1>1, <2>6, <2>8 DEF Registering, Same
    <3>4. registered' = registered /\ spent' = spent
      BY <1>1 DEF history
    <3>5. \A s \in Token : token'[s] = None => registered'[s] = 0 /\ spent'[s] = 0
      BY <1>0, <2>9, <3>4 DEF CountInv
    <3>6. ASSUME NEW s \in Token, token'[s] # None
          PROVE  /\ token'[s].uses = registered'[s] + spent'[s] + Cardinality(Registering(s)')
                 /\ token'[s].uses <= token'[s].max
      <4>1. CASE s # t
        BY <1>0, <2>9, <3>3, <3>4, <3>6, <4>1 DEF CountInv, RegistrationsBounded
      <4>2. CASE s = t
        <5>1. token[t].uses = registered[t] + spent[t] + Cardinality(Registering(t))
          BY <1>0, <1>3 DEF CountInv, RegistrationsBounded
        <5>2. token[t].uses < token[t].max
          BY <1>6 DEF Consumable
        <5>3. registered[t] \in Nat /\ spent[t] \in Nat /\ Cardinality(Registering(t)) \in Nat
          BY <1>0, RegisteringCount DEF TableTypes
        <5> QED BY <1>4, <2>9, <3>2, <3>4, <4>2, <5>1, <5>2, <5>3
      <4> QED BY <4>1, <4>2
    <3> QED BY <3>5, <3>6 DEF CountInv, RegistrationsBounded
  <2>19. \A q \in Request \ (Request \ {p}) : q = p
    OBVIOUS
  <2> QED BY <2>8, <2>10, <2>11, <2>12, <2>13, <2>14, <2>15, <2>16, <2>17, <2>18, <2>19, MoveStep
<1> QED BY <1>5, <1>6

\* A use whose insertion is over, one way or the other, is still counted once.
LEMMA CountLeft ==
  ASSUME ClientInv, NEW p \in Request, pc[p] = "insert", pc'[p] = "idle", Same(Request \ {p}), token' = token,
         registered' \in [Token -> Nat], spent' \in [Token -> Nat],
         \A s \in Token : s # req[p].token => registered'[s] = registered[s] /\ spent'[s] = spent[s],
         \A s \in Token : s = req[p].token => registered'[s] + spent'[s] = registered[s] + spent[s] + 1
  PROVE  CountInv'
<1>0. CountInv /\ TableTypes /\ RequestForm(p) /\ req[p] \in Context
  BY PartsHold DEF TypeOK
<1>1. \A s \in Token : s # req[p].token => Registering(s)' = Registering(s)
  BY DEF Registering, Same
<1>2. \A s \in Token : s = req[p].token => token[s] # None
  BY <1>0, ClientsAssumption DEF RequestForm
<1>3. \A s \in Token : token'[s] = None => registered'[s] = 0 /\ spent'[s] = 0
  BY <1>0, <1>2 DEF CountInv
<1>4. ASSUME NEW s \in Token, token'[s] # None
      PROVE  /\ token'[s].uses = registered'[s] + spent'[s] + Cardinality(Registering(s)')
             /\ token'[s].uses <= token'[s].max
  <2>1. CASE s # req[p].token
    BY <1>0, <1>1, <1>4, <2>1 DEF CountInv, RegistrationsBounded
  <2>2. CASE s = req[p].token
    <3>1. Registering(s)' = Registering(s) \ {p} /\ p \in Registering(s)
      BY <2>2 DEF Registering, Same
    <3>2. IsFiniteSet(Registering(s)) /\ Cardinality(Registering(s)) \in Nat
      BY RegisteringCount
    <3>3. Cardinality(Registering(s)') = Cardinality(Registering(s)) - 1
      BY <3>1, <3>2, FS_RemoveElement
    <3>4. /\ token[s].uses = registered[s] + spent[s] + Cardinality(Registering(s))
          /\ token[s].uses <= token[s].max
      BY <1>0, <1>4 DEF CountInv, RegistrationsBounded
    <3>5. /\ registered[s] \in Nat /\ spent[s] \in Nat /\ registered'[s] \in Nat /\ spent'[s] \in Nat
          /\ registered'[s] + spent'[s] = registered[s] + spent[s] + 1
      BY <1>0, <2>2 DEF TableTypes
    <3> QED BY <3>2, <3>3, <3>4, <3>5
  <2> QED BY <2>1, <2>2
<1> QED BY <1>3, <1>4 DEF CountInv, RegistrationsBounded

\* A client is inserted.
LEMMA InsertStep ==
  ASSUME ClientInv, Observe, NEW p \in Request, Insert(p)
  PROVE  ClientInv'
<1>0. /\ TableTypes /\ TypeOK /\ CountInv /\ CacheInv /\ RowPolicy /\ RowScopes /\ DeleteInv /\ InsertsApart
      /\ FormInv /\ RequestForm(p) /\ RequestPolicy(p) /\ RequestScopes(p)
  BY PartsHold
<1>1. /\ pc[p] = "insert" /\ Return(p) /\ req[p] \in Context /\ token' = token /\ cache' = cache
      /\ generated' = generated /\ spent' = spent /\ deleted' = deleted /\ managed' = managed
      /\ disturbed' = disturbed
  BY <1>0 DEF Insert, TypeOK
<1>2. /\ req[p].row \in ClientRow /\ req[p].client \in Client /\ client[req[p].client] = None
      /\ req[p].token \in Token \cup {None} /\ req[p].row # None
      /\ req[p].row.dynamic => WithinPolicy(req[p].row) /\ WithSecret(req[p].row)
  BY <1>0, <1>1, ContextFields, RowFields DEF RequestForm, RequestPolicy
<1> SUFFICES ASSUME NEW c \in Client, NEW row \in ClientRow, NEW t \in Token \cup {None},
                    req[p].client = c, req[p].row = row, req[p].token = t
             PROVE  ClientInv'
  BY <1>2
<1>3. /\ client' = [client EXCEPT ![c] = row]
      /\ registered' = IF t = None THEN registered ELSE [registered EXCEPT ![t] = @ + 1]
      /\ ceiling' = [ceiling EXCEPT ![c] = IF t = None THEN ceiling[c] ELSE token[t].scopes]
  BY DEF Insert
<1>4. /\ pc' \in [Request -> PC] /\ req' \in [Request -> Context] /\ mix' = mix
      /\ pc'[p] = "idle" /\ Same(Request \ {p})
  BY <1>0, <1>1, ReturnFacts
<1>5. t # None => token[t] \in TokenRow /\ token[t].scopes \in SUBSET Scope
  BY <1>0, <1>1 DEF RequestForm, TableTypes, TokenRow
<1>6. /\ client'[c] = row /\ \A d \in Client \ {c} : client'[d] = client[d] /\ ceiling'[d] = ceiling[d]
      /\ ceiling'[c] = IF t = None THEN ceiling[c] ELSE token[t].scopes
  BY <1>0, <1>3 DEF TableTypes
<1>7. registered' \in [Token -> Nat]
  BY <1>0, <1>3 DEF TableTypes
<1>8. TableTypes'
  <2>1. client' \in [Client -> ClientRow \cup {None}]
    BY <1>0, <1>3 DEF TableTypes
  <2>2. ceiling' \in [Client -> SUBSET Scope]
    BY <1>0, <1>3, <1>5 DEF TableTypes
  <2> QED BY <1>0, <1>1, <1>4, <1>7, <2>1, <2>2 DEF TableTypes
<1>9. Kept(Request \ {p})
  <2>1. \A q \in Request \ {p} : pc[q] = "insert" => req[q].client \in Client \ {c}
    BY <1>0, <1>1 DEF InsertsApart, FormInv, RequestForm
  <2>2. \A q \in Request \ {p} : pc[q] = "save" => req[q].client \in Client \ {c}
    BY <1>0, <1>2 DEF FormInv, RequestForm
  <2>3. \A q \in Request \ {p} : pc[q] = "insert" => client'[req[q].client] = None
    BY <1>0, <1>6, <2>1 DEF FormInv, RequestForm
  <2>4. \A d \in Client : client[d] # None => client'[d] # None
    BY <1>2, <1>6
  <2> QED BY <1>1, <1>6, <2>2, <2>3, <2>4 DEF Kept
<1>10. CacheInv'
  BY <1>0, <1>1 DEF CacheInv
<1>11. CountInv'
  <2>1. \A s \in Token : s # t => registered'[s] = registered[s] /\ spent'[s] = spent[s]
    BY <1>0, <1>1, <1>3 DEF TableTypes
  <2>2. \A s \in Token : s = t => registered'[s] + spent'[s] = registered[s] + spent[s] + 1
    BY <1>0, <1>1, <1>3, ClientsAssumption DEF TableTypes
  <2>3. spent' \in [Token -> Nat]
    BY <1>0, <1>1 DEF TableTypes
  <2> QED BY <1>1, <1>4, <1>7, <2>1, <2>2, <2>3, CountLeft
<1>12. RowPolicy'
  BY <1>0, <1>1, <1>2, <1>6 DEF RowPolicy
<1>13. RowScopes'
  <2>1. row.dynamic => t # None /\ row.scopes \subseteq token[t].scopes
    BY <1>0, <1>1 DEF RequestScopes
  <2> QED BY <1>0, <1>1, <1>6, <2>1 DEF RowScopes, Live
<1>14. DeleteInv'
  <2>1. deleted \subseteq Client \ {c}
    BY <1>0, <1>2 DEF DeleteInv, TableTypes
  <2>2. \A d \in deleted : client'[d] = client[d]
    BY <1>6, <2>1
  <2>3. \A q \in Request : pc'[q] = "save" => pc[q] = "save" /\ req'[q] = req[q]
    BY <1>4 DEF Same
  <2> QED BY <1>0, <1>1, <2>2, <2>3 DEF DeleteInv, Live
<1> QED BY <1>1, <1>8, <1>9, <1>10, <1>11, <1>12, <1>13, <1>14, EndStep

\* A statement fails.
LEMMA FailStep ==
  ASSUME ClientInv, Observe, NEW p \in Request, Fail(p)
  PROVE  ClientInv'
<1>0. /\ TableTypes /\ TypeOK /\ CountInv /\ CacheInv /\ RowPolicy /\ RowScopes /\ DeleteInv
      /\ FormInv /\ RequestForm(p)
  BY PartsHold
<1>1. /\ Return(p) /\ UNCHANGED tables /\ UNCHANGED generated /\ registered' = registered /\ ceiling' = ceiling
      /\ deleted' = deleted /\ managed' = managed /\ disturbed' = disturbed
      /\ spent' = IF pc[p] = "insert" /\ req[p].token # None
                  THEN [spent EXCEPT ![req[p].token] = @ + 1] ELSE spent
  BY DEF Fail
<1>2. CASE pc[p] # "insert"
  <2>1. UNCHANGED history
    BY <1>1, <1>2 DEF history
  <2> QED BY <1>1, <1>2, <2>1, ReturnStep
<1>3. CASE pc[p] = "insert"
  <2>1. client' = client /\ token' = token /\ cache' = cache /\ generated' = generated
    BY <1>1 DEF tables
  <2>2. /\ pc' \in [Request -> PC] /\ req' \in [Request -> Context] /\ mix' = mix
        /\ pc'[p] = "idle" /\ Same(Request \ {p})
    BY <1>0, <1>1, ReturnFacts
  <2>3. req[p].token \in Token \cup {None}
    BY <1>0, ContextFields DEF TypeOK
  <2>4. spent' \in [Token -> Nat] /\ registered' \in [Token -> Nat]
    BY <1>0, <1>1, <2>3 DEF TableTypes
  <2>5. TableTypes'
    BY <1>0, <1>1, <2>1, <2>2, <2>4 DEF TableTypes
  <2>6. Kept(Request \ {p})
    BY <1>0, <1>1, <2>1 DEF Kept, FormInv, RequestForm
  <2>7. CacheInv' /\ RowPolicy' /\ RowScopes'
    BY <1>0, <1>1, <2>1 DEF CacheInv, RowPolicy, RowScopes, Live
  <2>8. DeleteInv'
    BY <1>0, <1>1, <2>1, <2>2 DEF DeleteInv, Live, Same
  <2>9. CountInv'
    <3>1. \A s \in Token : s # req[p].token => registered'[s] = registered[s] /\ spent'[s] = spent[s]
      BY <1>0, <1>1, <1>3, <2>3 DEF TableTypes
    <3>2. \A s \in Token : s = req[p].token => registered'[s] + spent'[s] = registered[s] + spent[s] + 1
      BY <1>0, <1>1, <1>3, <2>3, ClientsAssumption DEF TableTypes
    <3> QED BY <1>3, <2>1, <2>2, <2>4, <3>1, <3>2, CountLeft
  <2> QED BY <1>1, <2>5, <2>6, <2>7, <2>8, <2>9, EndStep
<1> QED BY <1>2, <1>3

\* Where a request's copy becomes stale, the client counts as disturbed.
LEMMA DisturbFacts ==
  ASSUME NEW p \in Request, NEW c \in Client, Disturb(p, c), disturbed \subseteq Client
  PROVE  /\ disturbed \subseteq disturbed' /\ disturbed' \subseteq Client
         /\ \A q \in Request \ {p} : pc[q] = "save" /\ req[q].client = c => c \in disturbed'
BY DEF Disturb

\* No registration begins or ends: the counts stand.
LEMMA CountSame ==
  ASSUME CountInv, \A s \in Token : Registering(s)' = Registering(s),
         token' = token, registered' = registered, spent' = spent
  PROVE  CountInv'
BY DEF CountInv, RegistrationsBounded

\* A copy is saved.
LEMMA SaveStep ==
  ASSUME ClientInv, Observe, NEW p \in Request, SaveRow(p)
  PROVE  ClientInv'
<1>0. /\ TableTypes /\ TypeOK /\ CountInv /\ CacheInv /\ RowPolicy /\ RowScopes /\ DeleteInv
      /\ FormInv /\ RequestForm(p) /\ RequestPolicy(p) /\ RequestScopes(p)
  BY PartsHold
<1>1. /\ pc[p] = "save" /\ Return(p) /\ token' = token /\ cache' = cache /\ generated' = generated
      /\ registered' = registered /\ spent' = spent /\ deleted' = deleted
  BY DEF SaveRow
<1>2. /\ req[p].row \in ClientRow /\ req[p].client \in Client /\ req[p].meta \in Metadata
      /\ client[req[p].client] # None /\ req[p].row # None /\ req[p].meta.scopes \in SUBSET Scope
  BY <1>0, <1>1, RowFields, MetaFields DEF RequestForm
<1> SUFFICES ASSUME NEW c \in Client, NEW row \in ClientRow, NEW scopes \in SUBSET Scope,
                    req[p].client = c, req[p].row = row, req[p].meta.scopes = scopes
             PROVE  ClientInv'
  BY <1>2
<1>3. /\ client' = [client EXCEPT ![c] = row] /\ Disturb(p, c)
      /\ managed' = managed \cup (IF req[p].doing = "update" /\ row.dynamic THEN {c} ELSE {})
  BY DEF SaveRow, Save
<1>4. ceiling' = [ceiling EXCEPT ![c] =
        IF scopes = {} \/ ~row.dynamic THEN ceiling[c]
        ELSE IF req[p].doing = "update" THEN scopes ELSE ceiling[c] \cap scopes]
  BY DEF SaveRow
<1>5. /\ pc' \in [Request -> PC] /\ req' \in [Request -> Context] /\ mix' = mix
      /\ pc'[p] = "idle" /\ Same(Request \ {p})
  BY <1>0, <1>1, ReturnFacts
<1>6. /\ disturbed \subseteq disturbed' /\ disturbed' \subseteq Client
      /\ \A q \in Request \ {p} : pc[q] = "save" /\ req[q].client = c => c \in disturbed'
  BY <1>0, <1>3, DisturbFacts DEF TableTypes
<1>7. client'[c] = row /\ \A d \in Client \ {c} : client'[d] = client[d] /\ ceiling'[d] = ceiling[d]
  BY <1>0, <1>3, <1>4 DEF TableTypes
<1>8. ceiling'[c] = IF scopes = {} \/ ~row.dynamic THEN ceiling[c]
                    ELSE IF req[p].doing = "update" THEN scopes ELSE ceiling[c] \cap scopes
  BY <1>0, <1>4 DEF TableTypes
<1>9. TableTypes'
  <2>1. client' \in [Client -> ClientRow \cup {None}]
    BY <1>0, <1>3 DEF TableTypes
  <2>2. ceiling' \in [Client -> SUBSET Scope]
    BY <1>0, <1>4 DEF TableTypes
  <2>3. managed' \subseteq Client
    BY <1>0, <1>3 DEF TableTypes
  <2> QED BY <1>0, <1>1, <1>5, <1>6, <2>1, <2>2, <2>3 DEF TableTypes
<1>10. Kept(Request \ {p})
  <2>1. \A d \in Client : client[d] # None => client'[d] # None
    BY <1>2, <1>7
  <2>2. \A q \in Request \ {p} : pc[q] = "insert" => client'[req[q].client] = None
    BY <1>0, <1>2, <1>7 DEF FormInv, RequestForm
  <2>3. \A q \in Request \ {p} : pc[q] = "save" /\ req[q].client \notin disturbed' =>
          ceiling'[req[q].client] = ceiling[req[q].client]
    BY <1>0, <1>6, <1>7 DEF FormInv, RequestForm
  <2> QED BY <1>1, <1>3, <1>6, <2>1, <2>2, <2>3 DEF Kept
<1>11. CacheInv'
  BY <1>0, <1>1 DEF CacheInv
<1>12. CountInv'
  <2>1. \A s \in Token : Registering(s)' = Registering(s)
    BY <1>1, <1>5, InsertingSame, ClientsAssumption
  <2> QED BY <1>0, <1>1, <2>1, CountSame
<1>13. RowPolicy'
  <2>1. c \notin managed' /\ row.dynamic => WithinPolicy(row) /\ WithSecret(row)
    BY <1>0, <1>1, <1>3 DEF RequestPolicy
  <2> QED BY <1>0, <1>3, <1>7, <2>1 DEF RowPolicy
<1>14. RowScopes'
  <2>1. c \notin disturbed' /\ row.dynamic => row.scopes \subseteq ceiling'[c]
    BY <1>0, <1>1, <1>6, <1>8 DEF RequestScopes
  <2> QED BY <1>0, <1>6, <1>7, <2>1 DEF RowScopes, Live
<1>15. DeleteInv'
  <2>1. \A d \in deleted : client'[d] # None
    BY <1>0, <1>2, <1>7 DEF DeleteInv, TableTypes
  <2>2. c \notin deleted \ disturbed
    BY <1>0, <1>1 DEF DeleteInv
  <2>3. \A q \in Request : pc'[q] = "save" => pc[q] = "save" /\ req'[q] = req[q]
    BY <1>5 DEF Same
  <2>4. ASSUME NEW d \in deleted \ disturbed'
        PROVE  ~Live(d)' /\ \A q \in Request : pc'[q] = "save" => req'[q].client # d
    <3>1. d \in deleted \ disturbed /\ d \in Client \ {c}
      BY <1>0, <1>6, <2>2 DEF TableTypes
    <3>2. client'[d] = client[d]
      BY <1>7, <3>1
    <3> QED BY <1>0, <2>3, <3>1, <3>2 DEF DeleteInv, Live
  <2> QED BY <1>1, <2>1, <2>4 DEF DeleteInv
<1> QED BY <1>1, <1>9, <1>10, <1>11, <1>12, <1>13, <1>14, <1>15, EndStep

\* A client is deleted: its row stays and is not live.
LEMMA SoftDeleteStep ==
  ASSUME ClientInv, Observe, NEW p \in Request, SoftDelete(p)
  PROVE  ClientInv'
<1>0. /\ TableTypes /\ TypeOK /\ CountInv /\ CacheInv /\ RowPolicy /\ RowScopes /\ DeleteInv
      /\ FormInv /\ RequestForm(p)
  BY PartsHold
<1>1. /\ pc[p] = "delete" /\ Return(p) /\ token' = token /\ cache' = cache /\ generated' = generated
      /\ registered' = registered /\ spent' = spent /\ ceiling' = ceiling /\ managed' = managed
  BY DEF SoftDelete
<1> SUFFICES ASSUME NEW c \in Client, req[p].client = c, client[c] # None
             PROVE  ClientInv'
  BY <1>0, <1>1 DEF RequestForm
<1>2. client[c] \in ClientRow
  BY <1>0 DEF TableTypes
<1>3. /\ client' = [client EXCEPT ![c] = [client[c] EXCEPT !.live = FALSE]]
      /\ Disturb(p, c) /\ deleted' = deleted \cup {c}
  BY DEF SoftDelete
<1>4. /\ pc' \in [Request -> PC] /\ req' \in [Request -> Context] /\ mix' = mix
      /\ pc'[p] = "idle" /\ Same(Request \ {p})
  BY <1>0, <1>1, ReturnFacts
<1>5. /\ disturbed \subseteq disturbed' /\ disturbed' \subseteq Client
      /\ \A q \in Request \ {p} : pc[q] = "save" /\ req[q].client = c => c \in disturbed'
  BY <1>0, <1>3, DisturbFacts DEF TableTypes
<1>6. /\ client'[c] \in ClientRow /\ client'[c] # None /\ ~client'[c].live
      /\ client'[c].dynamic = client[c].dynamic /\ client'[c].public = client[c].public
      /\ client'[c].grants = client[c].grants /\ client'[c].hash = client[c].hash
  <2>1. client'[c] = [client[c] EXCEPT !.live = FALSE]
    BY <1>0, <1>3 DEF TableTypes
  <2>2. LET row == [client[c] EXCEPT !.live = FALSE] IN
        /\ row \in ClientRow /\ ~row.live /\ row.dynamic = client[c].dynamic /\ row.public = client[c].public
        /\ row.grants = client[c].grants /\ row.hash = client[c].hash
    BY <1>2 DEF ClientRow
  <2> QED BY <2>1, <2>2, RowFields
<1>7. \A d \in Client \ {c} : client'[d] = client[d]
  BY <1>0, <1>3 DEF TableTypes
<1>8. TableTypes'
  <2>1. client' \in [Client -> ClientRow \cup {None}]
    <3>1. [client[c] EXCEPT !.live = FALSE] \in ClientRow
      BY <1>2 DEF ClientRow
    <3> QED BY <1>0, <1>3, <3>1 DEF TableTypes
  <2>2. deleted' \subseteq Client
    BY <1>0, <1>3 DEF TableTypes
  <2> QED BY <1>0, <1>1, <1>4, <1>5, <2>1, <2>2 DEF TableTypes
<1>9. Kept(Request \ {p})
  <2>1. \A d \in Client : client[d] # None => client'[d] # None
    BY <1>6, <1>7
  <2>2. \A q \in Request \ {p} : pc[q] = "insert" => client'[req[q].client] = None
    BY <1>0, <1>7 DEF FormInv, RequestForm
  <2> QED BY <1>1, <1>5, <2>1, <2>2 DEF Kept
<1>10. CacheInv'
  BY <1>0, <1>1 DEF CacheInv
<1>11. CountInv'
  <2>1. \A s \in Token : Registering(s)' = Registering(s)
    BY <1>1, <1>4, InsertingSame, ClientsAssumption
  <2> QED BY <1>0, <1>1, <2>1, CountSame
<1>12. RowPolicy'
  <2>1. WithinPolicy(client[c]) => WithinPolicy(client'[c])
    BY <1>6 DEF WithinPolicy
  <2>2. WithSecret(client[c]) => WithSecret(client'[c])
    BY <1>6 DEF WithSecret
  <2> QED BY <1>0, <1>1, <1>6, <1>7, <2>1, <2>2 DEF RowPolicy
<1>13. RowScopes'
  BY <1>0, <1>1, <1>5, <1>6, <1>7 DEF RowScopes, Live
<1>14. DeleteInv'
  <2>1. \A q \in Request : pc'[q] = "save" => q \in Request \ {p} /\ pc[q] = "save" /\ req'[q] = req[q]
    BY <1>4 DEF Same
  <2>2. \A d \in deleted' : client'[d] # None
    BY <1>0, <1>3, <1>6, <1>7 DEF DeleteInv, TableTypes
  <2>3. ASSUME NEW d \in deleted' \ disturbed'
        PROVE  ~Live(d)' /\ \A q \in Request : pc'[q] = "save" => req'[q].client # d
    <3>1. CASE d = c
      BY <1>5, <1>6, <2>1, <2>3, <3>1 DEF Live
    <3>2. CASE d # c
      <4>1. d \in deleted \ disturbed /\ d \in Client \ {c}
        BY <1>0, <1>3, <1>5, <3>2 DEF TableTypes
      <4>2. client'[d] = client[d]
        BY <1>7, <4>1
      <4> QED BY <1>0, <2>1, <4>1, <4>2 DEF DeleteInv, Live
    <3> QED BY <3>1, <3>2
  <2> QED BY <2>2, <2>3 DEF DeleteInv
<1> QED BY <1>1, <1>8, <1>9, <1>10, <1>11, <1>12, <1>13, <1>14, EndStep

\* The cache never holds more than its limit, one entry at least.
LEMMA RememberedFacts ==
  ASSUME NEW entries, IsFiniteSet(entries), Cardinality(entries) <= CacheLimit, NEW entry
  PROVE  /\ IsFiniteSet(Remembered(entries, entry)) /\ Cardinality(Remembered(entries, entry)) <= CacheLimit
         /\ Remembered(entries, entry) \subseteq entries \cup {entry}
<1> DEFINE kept == {e \in IF Cardinality(entries) >= CacheLimit THEN {} ELSE entries :
                      e.client # entry.client \/ e.hash # entry.hash}
<1>1. Remembered(entries, entry) = kept \cup {entry} /\ kept \subseteq entries
  BY DEF Remembered
<1>2. Cardinality(entries) \in Nat /\ CacheLimit \in Nat /\ CacheLimit > 0
  BY FS_CardinalityType, ClientsAssumption
<1>3. IsFiniteSet(kept) /\ Cardinality(kept) <= Cardinality(entries) /\ Cardinality(kept) \in Nat
  BY <1>1, FS_Subset, FS_CardinalityType
<1>4. Cardinality(entries) >= CacheLimit => kept = {}
  OBVIOUS
<1>5. Cardinality(kept) < CacheLimit
  <2>1. CASE Cardinality(entries) >= CacheLimit
    BY <1>2, <1>4, <2>1, FS_EmptySet
  <2>2. CASE ~(Cardinality(entries) >= CacheLimit)
    BY <1>2, <1>3, <2>2
  <2> QED BY <2>1, <2>2
<1> HIDE DEF kept
<1>6. /\ IsFiniteSet(kept \cup {entry})
      /\ Cardinality(kept \cup {entry}) = IF entry \in kept THEN Cardinality(kept) ELSE Cardinality(kept) + 1
  BY <1>3, FS_AddElement
<1>7. Cardinality(kept \cup {entry}) <= CacheLimit
  BY <1>2, <1>3, <1>5, <1>6
<1> QED BY <1>1, <1>6, <1>7

\* A validation that bcrypt let pass goes on, and a cache may change.
LEMMA CacheStep ==
  ASSUME ClientInv, Observe, NEW p \in Request, Goto(p, "accepted"), pc[p] = "remember",
         UNCHANGED <<client, token, generated>>, UNCHANGED history, CacheInv',
         \A k \in Replica : Cardinality(cache'[k]) <= CacheLimit
  PROVE  ClientInv'
<1>0. /\ TableTypes /\ TypeOK /\ CountInv /\ RowPolicy /\ RowScopes /\ DeleteInv /\ InsertsApart
      /\ FormInv /\ RequestForm(p) /\ RequestSecrets(p) /\ "accepted" \in PC
  BY PartsHold DEF PC
<1>1. /\ pc' \in [Request -> PC] /\ req' \in [Request -> Context] /\ mix' = mix
      /\ pc'[p] = "accepted" /\ req'[p] = req[p] /\ Same(Request \ {p})
  BY <1>0, GotoFacts
<1>2. /\ registered' = registered /\ spent' = spent /\ ceiling' = ceiling /\ deleted' = deleted
      /\ managed' = managed /\ disturbed' = disturbed
  BY DEF history
<1>3. TableTypes'
  <2>1. \A k \in Replica : cache'[k] \subseteq [client : Client, hash : Hash, mac : Secret]
    BY DEF CacheInv
  <2> QED BY <1>0, <1>1, <1>2, <2>1 DEF TableTypes
<1>4. Kept(Request \ {p})
  BY <1>0, <1>2 DEF Kept, FormInv, RequestForm
<1>5. RequestForm(p)'
  BY <1>0, <1>1 DEF RequestForm
<1>6. RequestPolicy(p)' /\ RequestScopes(p)'
  BY <1>1 DEF RequestPolicy, RequestScopes
<1>7. RequestSecrets(p)'
  <2>1. req[p].doing = "validate" /\ req[p].secret \in known[p]
    BY <1>0 DEF RequestForm, RequestSecrets, HashOf
  <2>2. Right(req[p].client)' \subseteq known'[p] /\ known[p] \subseteq known'[p]
    BY <1>1, <2>1, ObserveFacts
  <2> QED BY <1>1, <2>1, <2>2 DEF RequestSecrets
<1>8. InsertsApart'
  BY <1>0, <1>1 DEF InsertsApart, Same
<1>9. RowPolicy' /\ RowScopes'
  BY <1>0, <1>2 DEF RowPolicy, RowScopes, Live
<1>10. DeleteInv'
  BY <1>0, <1>1, <1>2 DEF DeleteInv, Live, Same
<1>11. CountInv'
  <2>1. \A s \in Token : Registering(s)' = Registering(s)
    BY <1>1, InsertingSame, ClientsAssumption
  <2> QED BY <1>0, <1>2, <2>1, CountSame
<1>12. \A q \in Request \ (Request \ {p}) : q = p
  OBVIOUS
<1> QED BY <1>1, <1>3, <1>4, <1>5, <1>6, <1>7, <1>8, <1>9, <1>10, <1>11, <1>12, MoveStep

\* A validation that bcrypt let pass is remembered.
LEMMA RememberStep ==
  ASSUME ClientInv, Observe, NEW p \in Request, remember(p)
  PROVE  ClientInv'
<1>0. TableTypes /\ CacheInv /\ RequestForm(p) /\ RequestSecrets(p)
  BY PartsHold
<1>1. /\ pc[p] = "remember" /\ Goto(p, "accepted") /\ UNCHANGED <<client, token, generated>> /\ UNCHANGED history
  BY DEF remember
<1> SUFFICES ASSUME NEW k \in Replica, NEW c \in Client, NEW s \in Secret, NEW h \in Hash,
                    req[p].replica = k, req[p].client = c, req[p].secret = s, req[p].row.hash = h
             PROVE  ClientInv'
  BY <1>0, <1>1 DEF RequestForm
<1>2. h = HashOf(s)
  BY <1>0, <1>1 DEF RequestSecrets
<1> DEFINE entry == [client |-> c, hash |-> h, mac |-> s]
<1>3. entry \in [client : Client, hash : Hash, mac : Secret] /\ entry.hash = HashOf(entry.mac)
  BY <1>2
<1>4. cache' = [cache EXCEPT ![k] = Remembered(cache[k], entry)]
  BY DEF remember
<1> HIDE DEF entry
<1>5. cache[k] \in SUBSET [client : Client, hash : Hash, mac : Secret] /\ IsFiniteSet(cache[k])
      /\ Cardinality(cache[k]) <= CacheLimit /\ \A e \in cache[k] : e.hash = HashOf(e.mac)
  BY <1>0 DEF CacheInv, TableTypes
<1>6. /\ IsFiniteSet(Remembered(cache[k], entry)) /\ Cardinality(Remembered(cache[k], entry)) <= CacheLimit
      /\ Remembered(cache[k], entry) \subseteq cache[k] \cup {entry}
  BY <1>5, RememberedFacts
<1>7. cache'[k] = Remembered(cache[k], entry) /\ \A j \in Replica \ {k} : cache'[j] = cache[j]
  BY <1>0, <1>4 DEF CacheInv
<1>8. Remembered(cache[k], entry) \in SUBSET [client : Client, hash : Hash, mac : Secret]
  BY <1>3, <1>5, <1>6
<1>9. CacheInv'
  <2>1. cache' \in [Replica -> SUBSET [client : Client, hash : Hash, mac : Secret]]
    BY <1>0, <1>4, <1>8 DEF CacheInv
  <2>2. \A j \in Replica : IsFiniteSet(cache'[j])
    BY <1>0, <1>6, <1>7 DEF CacheInv
  <2>3. \A j \in Replica : \A e \in cache'[j] : e.hash = HashOf(e.mac)
    BY <1>0, <1>3, <1>5, <1>6, <1>7 DEF CacheInv
  <2> QED BY <2>1, <2>2, <2>3 DEF CacheInv
<1>10. \A j \in Replica : Cardinality(cache'[j]) <= CacheLimit
  BY <1>0, <1>6, <1>7 DEF TableTypes
<1> QED BY <1>1, <1>9, <1>10, CacheStep

\* A remembered secret expires.
LEMMA EntryExpiresStep ==
  ASSUME ClientInv, Observe, NEW k \in Replica, NEW e \in cache[k], EntryExpires(k, e)
  PROVE  ClientInv'
<1>0. TableTypes /\ CacheInv /\ CountInv /\ FormInv
  BY PartsHold
<1>1. /\ cache' = [cache EXCEPT ![k] = cache[k] \ {e}] /\ UNCHANGED request /\ UNCHANGED history
      /\ UNCHANGED client /\ token' = token /\ generated' = generated
  BY DEF EntryExpires
<1>2. pc' = pc /\ req' = req /\ mix' = mix
  BY <1>1 DEF request
<1>3. /\ registered' = registered /\ spent' = spent /\ ceiling' = ceiling /\ deleted' = deleted
      /\ managed' = managed /\ disturbed' = disturbed
  BY <1>1 DEF history
<1>4. cache'[k] = cache[k] \ {e} /\ \A j \in Replica \ {k} : cache'[j] = cache[j]
  BY <1>0, <1>1 DEF CacheInv
<1>5. /\ IsFiniteSet(cache[k] \ {e}) /\ Cardinality(cache[k] \ {e}) <= Cardinality(cache[k])
      /\ Cardinality(cache[k]) \in Nat /\ Cardinality(cache[k] \ {e}) \in Nat
  <2>1. IsFiniteSet(cache[k]) /\ cache[k] \ {e} \subseteq cache[k]
    BY <1>0 DEF CacheInv
  <2> QED BY <2>1, FS_Subset, FS_CardinalityType
<1>6. CacheInv'
  <2>1. cache' \in [Replica -> SUBSET [client : Client, hash : Hash, mac : Secret]]
    BY <1>0, <1>1 DEF CacheInv
  <2>2. \A j \in Replica : IsFiniteSet(cache'[j])
    BY <1>0, <1>4, <1>5 DEF CacheInv
  <2>3. \A j \in Replica : \A f \in cache'[j] : f.hash = HashOf(f.mac)
    BY <1>0, <1>4 DEF CacheInv
  <2> QED BY <2>1, <2>2, <2>3 DEF CacheInv
<1>7. \A j \in Replica : Cardinality(cache'[j]) <= CacheLimit
  <2>1. Cardinality(cache[k]) <= CacheLimit /\ CacheLimit \in Nat
    BY <1>0, ClientsAssumption DEF TableTypes
  <2>2. Cardinality(cache'[k]) <= CacheLimit
    BY <1>4, <1>5, <2>1
  <2> QED BY <1>0, <1>4, <2>2 DEF TableTypes
<1>8. TableTypes'
  <2>1. \A j \in Replica : cache'[j] \subseteq [client : Client, hash : Hash, mac : Secret]
    BY <1>6 DEF CacheInv
  <2> QED BY <1>0, <1>1, <1>2, <1>3, <1>7, <2>1 DEF TableTypes
<1>9. Kept(Request)
  BY <1>0, <1>1, <1>3 DEF Kept, FormInv, RequestForm
<1>10. CountInv'
  <2>1. \A s \in Token : Registering(s)' = Registering(s)
    BY <1>2 DEF Registering
  <2> QED BY <1>0, <1>1, <1>3, <2>1, CountSame
<1> QED BY <1>1, <1>6, <1>8, <1>9, <1>10, StillStep

-----------------------------------------------------------------------------
(* The theorems *)

\* Nothing has happened: no rows, no uses, idle requests and empty caches.
LEMMA ClientInit ==
  ASSUME Init
  PROVE  ClientInv
<1>1. \A k \in Replica : cache[k] = {} /\ IsFiniteSet(cache[k]) /\ Cardinality(cache[k]) <= CacheLimit
  <2>1. IsFiniteSet({}) /\ Cardinality({}) = 0
    BY FS_EmptySet
  <2> QED BY <2>1, ClientsAssumption DEF Init
<1>2. \A p \in Request : pc[p] = "idle" /\ req[p] = Nothing
  BY DEF Init
<1>3. TypeOK
  <2>1. "idle" \in PC /\ mix \in [ops : SUBSET Operation, clients : Nat]
    BY ClientsAssumption DEF Init, PC
  <2> QED BY <1>1, <2>1, NothingFacts DEF Init, TypeOK
<1>4. FormInv
  BY <1>2, NothingFacts DEF FormInv, InsertsApart, RequestForm
<1>5. CacheInv
  BY <1>1 DEF CacheInv, Init
<1>6. CountInv
  BY DEF CountInv, RegistrationsBounded, Init
<1>7. PolicyInv /\ ScopeInv
  BY <1>2 DEF PolicyInv, RowPolicy, RequestPolicy, ScopeInv, RowScopes, RequestScopes, Live, Init
<1>8. DeleteInv
  BY <1>2 DEF DeleteInv, Init
<1>9. \A p \in Request : RequestSecrets(p)
  BY <1>2, NothingFacts DEF RequestSecrets
<1> QED BY <1>3, <1>4, <1>5, <1>6, <1>7, <1>8, <1>9 DEF ClientInv

\* Every step keeps the invariant.
LEMMA ClientNext ==
  ASSUME ClientInv, Next
  PROVE  ClientInv'
<1>0. Step /\ Observe
  BY DEF Next
<1>g. generated \subseteq Secret
  BY PartsHold DEF TableTypes
<1>1. ASSUME NEW t \in Token,
             \/ \E scopes \in SUBSET Scope, max \in Uses : CreateInitialAccessToken(t, scopes, max)
             \/ RevokeInitialAccessToken(t) \/ TokenExpires(t)
      PROVE  ClientInv'
  BY <1>0, <1>1, TokensStep
<1>2. ASSUME NEW p \in Request, NEW meta \in Metadata,
             \/ \E t \in Token : Register(p, t, meta)
             \/ \E c \in Client : Create(p, c, meta)
             \/ \E c \in Known : SelfUpdate(p, c, meta) \/ Update(p, c, meta, FALSE) \/ Update(p, c, meta, TRUE)
      PROVE  ClientInv'
  <2>1. CASE \E t \in Token : Register(p, t, meta)
    BY <1>0, <2>1, RegisterStep
  <2>2. CASE \E c \in Client : Create(p, c, meta)
    BY <1>0, <2>2, CreateStep
  <2>3. CASE \E c \in Known : SelfUpdate(p, c, meta) \/ Update(p, c, meta, FALSE) \/ Update(p, c, meta, TRUE)
    BY <1>0, <2>3, ChangesStep
  <2> QED BY <1>2, <2>1, <2>2, <2>3
<1>3. ASSUME NEW p \in Request, NEW c \in Known,
             \/ SelfDelete(p, c) \/ Delete(p, c)
             \/ \E k \in Replica, s \in generated \cup {None} : ValidateClient(p, k, c, s)
      PROVE  ClientInv'
  <2>1. CASE SelfDelete(p, c) \/ Delete(p, c)
    BY <1>0, <2>1, ChangesStep
  <2>2. CASE \E k \in Replica, s \in generated \cup {None} : ValidateClient(p, k, c, s)
    BY <1>0, <1>g, <2>2, ValidateStep
  <2> QED BY <1>3, <2>1, <2>2
<1>4. ASSUME NEW p \in Request,
             \/ GetByHash(p) \/ Consume(p) \/ Insert(p)
             \/ authorize(p) \/ GetByID(p) \/ SaveRow(p) \/ SoftDelete(p)
             \/ GetByClientID(p) \/ Compare(p) \/ remember(p) \/ Serve(p)
             \/ Fail(p)
      PROVE  ClientInv'
  BY <1>0, <1>4, GetByHashStep, ConsumeStep, InsertStep, AuthorizeStep, GetByIDStep, SaveStep,
     SoftDeleteStep, GetByClientIDStep, CompareStep, RememberStep, ServeStep, FailStep
<1>5. ASSUME NEW k \in Replica, NEW e \in cache[k], EntryExpires(k, e)
      PROVE  ClientInv'
  BY <1>0, <1>5, EntryExpiresStep
<1> QED BY <1>0, <1>1, <1>2, <1>3, <1>4, <1>5 DEF Step

\* Nor does a step that changes nothing.
LEMMA ClientStutter ==
  ASSUME ClientInv, UNCHANGED vars
  PROVE  ClientInv'
<1>1. /\ client' = client /\ token' = token /\ cache' = cache /\ pc' = pc /\ req' = req /\ mix' = mix
      /\ generated' = generated /\ registered' = registered /\ spent' = spent /\ ceiling' = ceiling
      /\ deleted' = deleted /\ managed' = managed /\ disturbed' = disturbed /\ known' = known
  BY DEF vars, tables, request, history
<1>2. TypeOK' /\ CacheInv' /\ CountInv'
  BY <1>1 DEF ClientInv, TypeOK, CacheInv, CountInv, RegistrationsBounded, Registering
<1>3. FormInv' /\ PolicyInv'
  BY <1>1 DEF ClientInv, FormInv, InsertsApart, RequestForm, PolicyInv, RowPolicy, RequestPolicy
<1>4. ScopeInv' /\ DeleteInv'
  BY <1>1 DEF ClientInv, ScopeInv, RowScopes, RequestScopes, DeleteInv, Live
<1>5. \A p \in Request : RequestSecrets(p)'
  BY <1>1 DEF ClientInv, RequestSecrets, Right, Live
<1> QED BY <1>2, <1>3, <1>4, <1>5 DEF ClientInv

\* ClientInv is an invariant: rows, tokens, caches and the requests that hold copies of
\* rows stay consistent whatever runs together.
THEOREM ClientInvariance == Spec => []ClientInv
<1>1. Init => ClientInv
  BY ClientInit
<1>2. ClientInv /\ [Next]_vars => ClientInv'
  BY ClientNext, ClientStutter
<1> QED BY <1>1, <1>2, PTL DEF Spec

\* Tables, caches, requests and history have their types, and no cache of client secrets
\* outgrows maxCachedClientSecrets.
THEOREM TypeCorrect == Spec => []TypeOK
<1>1. ClientInv => TypeOK
  BY DEF ClientInv
<1> QED BY <1>1, ClientInvariance, PTL

\* However many registrations run at a time, an initial access token registers at most
\* max_uses clients, and no use of it is lost from the count.
THEOREM TokenUsesBounded == Spec => []RegistrationsBounded
<1>1. ClientInv => RegistrationsBounded
  BY DEF ClientInv, CountInv
<1> QED BY <1>1, ClientInvariance, PTL

\* A client that registered itself stays within the policy and its initial access token,
\* whatever it updates.
THEOREM RegisteredClientsLimited == Spec => []SelfRegisteredWithinLimits
<1>1. ClientInv => SelfRegisteredWithinLimits
  BY DEF ClientInv, PolicyInv, RowPolicy, ScopeInv, RowScopes, SelfRegisteredWithinLimits, WithinPolicy,
         WithSecret, Live
<1> QED BY <1>1, ClientInvariance, PTL

\* A deleted client comes back only by the save of a copy that was read before.
THEOREM DeletionsLast == Spec => []DeletedStaysDeleted
<1>1. ClientInv => DeletedStaysDeleted
  BY DEF ClientInv, DeleteInv, DeletedStaysDeleted
<1> QED BY <1>1, ClientInvariance, PTL

\* A client is authenticated only by a secret that was its own during the request, on
\* whatever replica and whatever the caches remember.
THEOREM SecretsCurrent == Spec => []AcceptedSecretWasCurrent
<1>1. ClientInv => AcceptedSecretWasCurrent
  BY DEF ClientInv, RequestSecrets, AcceptedSecretWasCurrent
<1> QED BY <1>1, ClientInvariance, PTL
=============================================================================
