--------------------------- MODULE TenantsProofs ---------------------------
(***************************************************************************)
(* That no two tenants have one domain, and that no answer of a cache      *)
(* outlives the cache's lifetime, for any number of tenants, domains,      *)
(* replicas and requests and any lifetime.  TenantInv is shown inductive;  *)
(* the one fact that ties caches to the table is that the time an answer   *)
(* was last right never goes back (ObserveFacts).                          *)
(***************************************************************************)
EXTENDS Tenants, FiniteSetTheorems, FunctionTheorems, TLAPS

-----------------------------------------------------------------------------
(* Requests and answers *)

\* The requests that do not move
Same(Q) == \A q \in Q : pc'[q] = pc[q] /\ req'[q] = req[q]

\* A request that holds nothing is a request.
LEMMA NothingFacts == Nothing \in Context
<1>1. 0 \in Time
  BY TenantsAssumption DEF Time
<1> QED BY <1>1 DEF Nothing, Context, Answer

\* The fields of a request have their types.
LEMMA ContextFields ==
  ASSUME NEW r \in Context
  PROVE  /\ r.tenant \in Answer /\ r.row \in Row \cup {None} /\ r.domain \in Domain \cup {None}
         /\ r.active \in BOOLEAN \cup {None} /\ r.replica \in Replica \cup {None} /\ r.at \in Time
         /\ r.late \in BOOLEAN
BY DEF Context

\* What a request knows after a step of it.
LEMMA KnowFacts ==
  ASSUME TypeOK, NEW p \in Request, NEW next \in PC, NEW context \in Context, Know(p, next, context)
  PROVE  /\ pc' \in [Request -> PC] /\ req' \in [Request -> Context] /\ now' = now /\ ops' = ops
         /\ pc'[p] = next /\ req'[p] = context /\ Same(Request \ {p})
BY DEF TypeOK, Know, Same

\* An answer is a tenant or none.
LEMMA RightTypes ==
  ASSUME NEW d \in Domain
  PROVE  Right(d) \in Answer /\ Right(d)' \in Answer
<1>1. {t \in ByDomain(d) : tenant[t].active} \subseteq Tenant
  BY DEF ByDomain
<1>2. {t \in ByDomain(d) : tenant[t].active}' \subseteq Tenant
  BY DEF ByDomain
<1>3. Right(d) \in Answer
  BY <1>1 DEF Right, Answer
<1>4. Right(d)' \in Answer
  BY <1>2 DEF Right, Answer
<1> QED BY <1>3, <1>4

\* The time an answer was last right never goes back, and is now for what is right.
LEMMA ObserveFacts ==
  ASSUME TypeOK, LookInv, Observe, now' \in Time, now <= now'
  PROVE  /\ right' \in [Domain \X Answer -> Time \cup {None}]
         /\ \A d \in Domain : right'[<<d, Right(d)'>>] = now'
         /\ \A pair \in Domain \X Answer :
              /\ right[pair] # None => right'[pair] # None /\ right[pair] <= right'[pair]
              /\ right'[pair] # None => right'[pair] <= now'
<1>1. right' \in [Domain \X Answer -> Time \cup {None}]
  BY DEF Observe, TypeOK
<1>2. \A d \in Domain : right'[<<d, Right(d)'>>] = now'
  <2> TAKE d \in Domain
  <2>1. <<d, Right(d)'>> \in Domain \X Answer
    BY RightTypes
  <2> QED BY <2>1 DEF Observe, Right, ByDomain, Live
<1>3. \A pair \in Domain \X Answer : right'[pair] = now' \/ right'[pair] = right[pair]
  BY DEF Observe
<1>4. Time \subseteq Nat /\ None \notin Time
  BY TenantsAssumption DEF Time
<1>5. \A pair \in Domain \X Answer :
        /\ right[pair] # None => right'[pair] # None /\ right[pair] <= right'[pair]
        /\ right'[pair] # None => right'[pair] <= now'
  <2> TAKE pair \in Domain \X Answer
  <2>1. right[pair] \in Time \cup {None} /\ now \in Nat /\ now' \in Nat /\ now' # None
    BY <1>4 DEF TypeOK
  <2>2. right[pair] # None => right[pair] \in Nat /\ right[pair] <= now
    BY <1>4, <2>1 DEF LookInv
  <2> QED BY <1>3, <2>1, <2>2
<1> QED BY <1>1, <1>2, <1>5

\* An entry as good as it was stays so.
LEMMA EntryKept ==
  ASSUME TypeOK, LookInv, Observe, now' \in Time, now <= now', NEW e \in Entry, EntryLook(e)
  PROVE  EntryLook(e)'
<1>1. e.domain \in Domain /\ e.answer \in Answer /\ e.expires \in Nat
  BY TenantsAssumption DEF Entry
<1>0. <<e.domain, e.answer>> \in Domain \X Answer
  BY <1>1
<1> SUFFICES ASSUME NEW pair \in Domain \X Answer, pair = <<e.domain, e.answer>>
             PROVE  EntryLook(e)'
  BY <1>0, Zenon
<1>2. right[pair] # None => right'[pair] # None /\ right[pair] <= right'[pair]
  BY ObserveFacts
<1>3. right[pair] \in Time \cup {None} /\ right'[pair] \in Time \cup {None}
  BY ObserveFacts DEF TypeOK
<1>4. Time \subseteq Nat /\ TTL \in Nat
  BY TenantsAssumption DEF Time
<1>5. ~e.late => right[pair] # None /\ e.expires <= right[pair] + TTL
  BY DEF EntryLook
<1>6. right[pair] # None => right[pair] \in Nat /\ right'[pair] \in Nat
  BY <1>2, <1>3, <1>4
<1>7. ~e.late => right'[pair] # None /\ e.expires <= right'[pair] + TTL
  <2> HAVE ~e.late
  <2>1. right[pair] \in Nat /\ right'[pair] \in Nat /\ right[pair] <= right'[pair] /\ right'[pair] # None
    BY <1>2, <1>5, <1>6
  <2>2. e.expires <= right[pair] + TTL
    BY <1>5
  <2> QED BY <1>1, <1>4, <2>1, <2>2
<1> QED BY <1>7 DEF EntryLook

\* So does an answer, of a request that does not move.
LEMMA LookKept ==
  ASSUME TypeOK, LookInv, Observe, now' \in Time, now <= now', NEW q \in Request, RequestForm(q),
         pc'[q] = pc[q], req'[q] = req[q]
  PROVE  RequestLook(q)'
<1> SUFFICES ASSUME pc[q] \in {"store", "resolved"}
             PROVE  RequestLook(q)'
  BY DEF RequestLook
<1>1. req[q].domain \in Domain /\ req[q].tenant \in Answer /\ req[q].at \in Time
  BY ContextFields DEF RequestForm, TypeOK
<1>0. <<req[q].domain, req[q].tenant>> \in Domain \X Answer
  BY <1>1
<1> SUFFICES ASSUME NEW pair \in Domain \X Answer, pair = <<req[q].domain, req[q].tenant>>
             PROVE  RequestLook(q)'
  BY <1>0, Zenon
<1>2. right[pair] # None => right'[pair] # None /\ right[pair] <= right'[pair]
  BY ObserveFacts
<1>3. right[pair] \in Time \cup {None} /\ right'[pair] \in Time \cup {None}
  BY ObserveFacts DEF TypeOK
<1>4. Time \subseteq Nat /\ TTL \in Nat
  BY TenantsAssumption DEF Time
<1>5. /\ pc[q] = "store" => right[pair] # None /\ req[q].at <= right[pair]
      /\ pc[q] = "resolved" /\ ~req[q].late => right[pair] # None /\ req[q].at < right[pair] + TTL
  BY DEF LookInv, RequestLook
<1>6. right[pair] # None => right[pair] \in Nat /\ right'[pair] \in Nat /\ req[q].at \in Nat
  BY <1>1, <1>2, <1>3, <1>4
<1>7. pc[q] = "store" => right'[pair] # None /\ req[q].at <= right'[pair]
  BY <1>2, <1>5, <1>6
<1>8. pc[q] = "resolved" /\ ~req[q].late => right'[pair] # None /\ req[q].at < right'[pair] + TTL
  <2> HAVE pc[q] = "resolved" /\ ~req[q].late
  <2>1. /\ right[pair] \in Nat /\ right'[pair] \in Nat /\ right[pair] <= right'[pair] /\ right'[pair] # None
        /\ req[q].at \in Nat
    BY <1>2, <1>5, <1>6
  <2>2. req[q].at < right[pair] + TTL
    BY <1>5
  <2> QED BY <1>4, <2>1, <2>2
<1> QED BY <1>7, <1>8 DEF RequestLook

-----------------------------------------------------------------------------
(* Steps *)

\* A cache with one entry per domain has as many entries as domains.
LEMMA OneEach ==
  ASSUME NEW entries, IsFiniteSet(entries), \A e, f \in entries : e.domain = f.domain => e = f
  PROVE  Cardinality({e.domain : e \in entries}) = Cardinality(entries)
<1> DEFINE domains == {e.domain : e \in entries}
<1> DEFINE f == [e \in entries |-> e.domain]
<1>1. f \in [entries -> domains] /\ \A a, b \in entries : f[a] = f[b] => a = b
  OBVIOUS
<1>2. \A d \in domains : \E e \in entries : f[e] = d
  OBVIOUS
<1>3. f \in Bijection(entries, domains)
  <2> HIDE DEF f, domains
  <2> QED BY <1>1, <1>2, Fun_IsBij
<1>4. ExistsBijection(entries, domains)
  BY <1>3 DEF ExistsBijection
<1> QED BY <1>4, FS_Bijection

\* The parts of the invariant.
LEMMA PartsHold ==
  ASSUME TenantInv
  PROVE  /\ TypeOK /\ CacheInv /\ DomainsUnique /\ LookInv
         /\ \A p \in Request : RequestForm(p) /\ RequestLook(p) /\ req[p] \in Context
BY DEF TenantInv, LookInv, TypeOK

\* A step of requests outside Q: those in Q and the caches are as good as before.
LEMMA MoveStep ==
  ASSUME TenantInv, Observe, NEW Q \in SUBSET Request, Same(Q), now' \in Time, now <= now', ops' = ops,
         pc' \in [Request -> PC], req' \in [Request -> Context],
         tenant' \in [Tenant -> Row \cup {None}], \A t \in Tenant : tenant[t] # None => tenant'[t] # None,
         CacheInv', \A k \in Replica : Cardinality(cache'[k]) <= CacheLimit,
         \A k \in Replica : \A e \in cache'[k] : e \in cache[k] \/ EntryLook(e)',
         DomainsUnique', \A q \in Request \ Q : RequestForm(q)' /\ RequestLook(q)'
  PROVE  TenantInv'
<1>0. TypeOK /\ CacheInv /\ LookInv /\ \A q \in Request : RequestForm(q) /\ req[q] \in Context
  BY PartsHold
<1>1. /\ right' \in [Domain \X Answer -> Time \cup {None}]
      /\ \A d \in Domain : right'[<<d, Right(d)'>>] = now'
      /\ \A pair \in Domain \X Answer : right'[pair] # None => right'[pair] <= now'
  BY <1>0, ObserveFacts
<1>2. TypeOK'
  <2>1. \A k \in Replica : Cardinality({e.domain : e \in cache'[k]}) = Cardinality(cache'[k])
    BY OneEach DEF CacheInv
  <2>2. \A k \in Replica : cache'[k] \subseteq Entry
    BY DEF CacheInv
  <2> QED BY <1>0, <1>1, <2>1, <2>2 DEF TypeOK
<1>3. \A q \in Q : RequestForm(q)'
  BY <1>0 DEF RequestForm, Same
<1>4. \A q \in Q : RequestLook(q)'
  BY <1>0, LookKept DEF Same
<1>5. \A k \in Replica : \A e \in cache'[k] : EntryLook(e)'
  <2> TAKE k \in Replica
  <2> TAKE e \in cache'[k]
  <2>1. CASE e \in cache[k]
    <3>1. e \in Entry /\ EntryLook(e)
      BY <1>0, <2>1 DEF CacheInv, LookInv
    <3> QED BY <1>0, <3>1, EntryKept
  <2>2. CASE EntryLook(e)'
    BY <2>2
  <2> QED BY <2>1, <2>2
<1>6. LookInv'
  <2>1. \A q \in Request : RequestLook(q)'
    BY <1>4
  <2>2. \A d \in Domain : (right[<<d, Right(d)>>] = now)'
    BY <1>1
  <2> QED BY <1>1, <1>5, <2>1, <2>2 DEF LookInv
<1>7. \A q \in Request : RequestForm(q)'
  BY <1>3
<1> QED BY <1>2, <1>6, <1>7 DEF TenantInv

\* A step of a request that leaves the caches alone.
LEMMA ServiceStep ==
  ASSUME TenantInv, Observe, NEW p \in Request, NEW next \in PC, NEW context \in Context,
         Know(p, next, context), cache' = cache,
         tenant' \in [Tenant -> Row \cup {None}], \A t \in Tenant : tenant[t] # None => tenant'[t] # None,
         DomainsUnique', RequestForm(p)', RequestLook(p)'
  PROVE  TenantInv'
<1>0. TypeOK /\ CacheInv
  BY PartsHold
<1>1. /\ pc' \in [Request -> PC] /\ req' \in [Request -> Context] /\ now' = now /\ ops' = ops
      /\ Same(Request \ {p})
  BY <1>0, KnowFacts
<1>2. now' \in Time /\ now <= now'
  BY <1>0, <1>1, TenantsAssumption DEF TypeOK, Time
<1>3. CacheInv' /\ (\A k \in Replica : Cardinality(cache'[k]) <= CacheLimit)
      /\ (\A k \in Replica : \A e \in cache'[k] : e \in cache[k] \/ EntryLook(e)')
  BY <1>0 DEF CacheInv, TypeOK
<1>4. \A q \in Request \ (Request \ {p}) : q = p
  OBVIOUS
<1> QED BY <1>1, <1>2, <1>3, <1>4, MoveStep

\* A step of a request that leaves the table alone too.
LEMMA QuietStep ==
  ASSUME TenantInv, Observe, NEW p \in Request, NEW next \in PC, NEW context \in Context,
         Know(p, next, context), cache' = cache, tenant' = tenant, RequestForm(p)', RequestLook(p)'
  PROVE  TenantInv'
<1>1. DomainsUnique' /\ tenant' \in [Tenant -> Row \cup {None}]
  BY PartsHold DEF DomainsUnique, Live, TypeOK
<1> QED BY <1>1, ServiceStep

\* A request that ends keeps nothing to speak of.
LEMMA EndStep ==
  ASSUME TenantInv, Observe, NEW p \in Request, Return(p), cache' = cache,
         tenant' \in [Tenant -> Row \cup {None}], \A t \in Tenant : tenant[t] # None => tenant'[t] # None,
         DomainsUnique'
  PROVE  TenantInv'
<1>1. "idle" \in PC /\ Know(p, "idle", Nothing)
  BY DEF PC, Return
<1>2. pc'[p] = "idle"
  BY <1>1, NothingFacts, KnowFacts, PartsHold
<1>3. RequestForm(p)' /\ RequestLook(p)'
  BY <1>2 DEF RequestForm, RequestLook
<1> QED BY <1>1, <1>3, NothingFacts, ServiceStep

\* Nor does one that ends without a change.
LEMMA ReturnStep ==
  ASSUME TenantInv, Observe, NEW p \in Request, Return(p), cache' = cache, tenant' = tenant
  PROVE  TenantInv'
<1>1. DomainsUnique' /\ tenant' \in [Tenant -> Row \cup {None}]
  BY PartsHold DEF DomainsUnique, Live, TypeOK
<1> QED BY <1>1, EndStep

\* A request that begins, or goes on to a statement that does not answer.
LEMMA PlainStep ==
  ASSUME TenantInv, Observe, NEW p \in Request, NEW next \in PC, NEW context \in Context,
         Know(p, next, context), cache' = cache, tenant' = tenant,
         next # "store", next # "resolved",
         next = "getByDomain" \/ next = "insert" => context.tenant \in Tenant /\ context.domain \in Domain,
         next \in {"getByID", "checkDomain", "save", "checkDelete", "delete"} =>
           context.tenant \in Tenant /\ tenant[context.tenant] # None,
         next \in {"checkDomain", "save"} => context.row \in Row,
         next \in {"resolve", "query"} => context.domain \in Domain /\ context.replica \in Replica
  PROVE  TenantInv'
<1>1. pc'[p] = next /\ req'[p] = context
  BY PartsHold, KnowFacts
<1>2. RequestForm(p)'
  BY <1>1 DEF RequestForm
<1>3. RequestLook(p)'
  BY <1>1 DEF RequestLook
<1> QED BY <1>2, <1>3, QuietStep

\* The creation of a tenant begins.
LEMMA CreateStep ==
  ASSUME TenantInv, Observe, NEW p \in Request, NEW t \in Tenant, NEW d \in Domain, Create(p, t, d)
  PROVE  TenantInv'
<1> DEFINE context == [Nothing EXCEPT !.tenant = t, !.domain = d]
<1>1. context \in Context /\ context.tenant = t /\ context.domain = d
  BY NothingFacts DEF Nothing, Context, Answer
<1>2. "getByDomain" \in PC /\ Know(p, "getByDomain", context) /\ cache' = cache /\ tenant' = tenant
  BY DEF Create, Start, PC
<1> HIDE DEF context
<1> QED BY <1>1, <1>2, PlainStep

\* A change of a tenant begins.
LEMMA UpdateStep ==
  ASSUME TenantInv, Observe, NEW p \in Request, NEW t \in Known, NEW d \in Domain \cup {None},
         NEW active \in BOOLEAN \cup {None}, Update(p, t, d, active)
  PROVE  TenantInv'
<1> DEFINE context == [Nothing EXCEPT !.tenant = t, !.domain = d, !.active = active]
<1>0. t \in Tenant /\ tenant[t] # None
  BY DEF Known
<1>1. context \in Context /\ context.tenant = t
  BY <1>0, NothingFacts DEF Nothing, Context, Answer
<1>2. "getByID" \in PC /\ Know(p, "getByID", context) /\ cache' = cache /\ tenant' = tenant
  BY DEF Update, Start, PC
<1> HIDE DEF context
<1> QED BY <1>0, <1>1, <1>2, PlainStep

\* A deletion begins.
LEMMA DeleteStep ==
  ASSUME TenantInv, Observe, NEW p \in Request, NEW t \in Known, Delete(p, t)
  PROVE  TenantInv'
<1> DEFINE context == [Nothing EXCEPT !.tenant = t]
<1>0. t \in Tenant /\ tenant[t] # None
  BY DEF Known
<1>1. context \in Context /\ context.tenant = t
  BY <1>0, NothingFacts DEF Nothing, Context, Answer
<1>2. "checkDelete" \in PC /\ Know(p, "checkDelete", context) /\ cache' = cache /\ tenant' = tenant
  BY DEF Delete, Start, PC
<1> HIDE DEF context
<1> QED BY <1>0, <1>1, <1>2, PlainStep

\* A request to be served begins.
LEMMA RequestStep ==
  ASSUME TenantInv, Observe, NEW p \in Request, NEW k \in Replica, NEW named \in Answer, NEW d \in Domain,
         extractTenantID(p, k, named, d)
  PROVE  TenantInv'
<1> DEFINE context == [Nothing EXCEPT !.replica = k, !.tenant = named, !.domain = d]
<1> DEFINE next == IF named # None THEN "named" ELSE "resolve"
<1>1. context \in Context /\ context.domain = d /\ context.replica = k
  BY NothingFacts DEF Nothing, Context, Answer
<1>2. Know(p, next, context) /\ cache' = cache /\ tenant' = tenant
  BY DEF extractTenantID, Start
<1>3. next \in PC /\ (next = "named" \/ next = "resolve")
  BY DEF PC
<1> HIDE DEF context, next
<1> QED BY <1>1, <1>2, <1>3, PlainStep

\* A statement that only looks: the request goes on as it is, or ends.
LEMMA LookStep ==
  ASSUME TenantInv, Observe, NEW p \in Request, cache' = cache, tenant' = tenant, NEW next \in PC,
         Goto(p, next) \/ Return(p),
         \/ pc[p] = "getByDomain" /\ next = "insert"
         \/ pc[p] = "checkDomain" /\ next = "save"
         \/ pc[p] = "checkDelete" /\ next = "delete"
         \/ pc[p] = "resolve" /\ next = "query"
  PROVE  TenantInv'
<1>1. RequestForm(p) /\ req[p] \in Context
  BY PartsHold
<1>2. CASE Return(p)
  BY <1>2, ReturnStep
<1>3. CASE Goto(p, next)
  <2>1. Know(p, next, req[p])
    BY <1>3 DEF Goto
  <2>2. /\ next = "insert" => req[p].tenant \in Tenant /\ req[p].domain \in Domain
        /\ next = "save" \/ next = "delete" => req[p].tenant \in Tenant /\ tenant[req[p].tenant] # None
        /\ next = "save" => req[p].row \in Row
        /\ next = "query" => req[p].domain \in Domain /\ req[p].replica \in Replica
    BY <1>1 DEF RequestForm
  <2>3. next \in {"insert", "save", "delete", "query"}
    OBVIOUS
  <2> QED BY <1>1, <2>1, <2>2, <2>3, PlainStep
<1> QED BY <1>2, <1>3

\* The looks before an insert, a save and a deletion.
LEMMA LooksStep ==
  ASSUME TenantInv, Observe, NEW p \in Request, GetByDomain(p) \/ CheckDomain(p) \/ CheckDelete(p)
  PROVE  TenantInv'
<1>0. {"insert", "save", "delete"} \subseteq PC
  BY DEF PC
<1>1. CASE GetByDomain(p)
  <2>1. pc[p] = "getByDomain" /\ (Goto(p, "insert") \/ Return(p)) /\ cache' = cache /\ tenant' = tenant
    BY <1>1 DEF GetByDomain
  <2> QED BY <1>0, <2>1, LookStep
<1>2. CASE CheckDomain(p)
  <2>1. pc[p] = "checkDomain" /\ (Goto(p, "save") \/ Return(p)) /\ cache' = cache /\ tenant' = tenant
    BY <1>2 DEF CheckDomain
  <2> QED BY <1>0, <2>1, LookStep
<1>3. CASE CheckDelete(p)
  <2>1. pc[p] = "checkDelete" /\ (Goto(p, "delete") \/ Return(p)) /\ cache' = cache /\ tenant' = tenant
    BY <1>3 DEF CheckDelete
  <2> QED BY <1>0, <2>1, LookStep
<1> QED BY <1>1, <1>2, <1>3

\* The copy of a row, with what an update changes, is a row.
LEMMA EditedRow ==
  ASSUME NEW p \in Request, req[p] \in Context, NEW row \in Row
  PROVE  Edited(p, row) \in Row
<1>1. req[p].domain \in Domain \cup {None} /\ req[p].active \in BOOLEAN \cup {None}
  BY ContextFields
<1> QED BY <1>1 DEF Edited, Row

\* An update reads its row.
LEMMA GetByIDStep ==
  ASSUME TenantInv, Observe, NEW p \in Request, GetByID(p)
  PROVE  TenantInv'
<1>0. TypeOK /\ RequestForm(p) /\ req[p] \in Context
  BY PartsHold
<1>1. pc[p] = "getByID" /\ cache' = cache /\ tenant' = tenant
  BY DEF GetByID
<1> SUFFICES ASSUME NEW t \in Tenant, req[p].tenant = t, tenant[t] # None
             PROVE  TenantInv'
  BY <1>0, <1>1 DEF RequestForm
<1>2. CASE ~Live(t)
  BY <1>1, <1>2, ReturnStep DEF GetByID
<1>3. CASE Live(t)
  <2> DEFINE row == Edited(p, tenant[t])
  <2> DEFINE next == IF req[p].domain = None THEN "save" ELSE "checkDomain"
  <2>1. row \in Row
    BY <1>0, EditedRow DEF TypeOK
  <2>2. Know(p, next, [req[p] EXCEPT !.row = row])
    BY <1>3 DEF GetByID
  <2>3. next \in PC /\ (next = "save" \/ next = "checkDomain")
    BY DEF PC
  <2> HIDE DEF row, next
  <2> DEFINE r == [req[p] EXCEPT !.row = row]
  <2>4. r \in Context /\ r.tenant = t /\ r.row = row
    BY <1>0, <2>1 DEF Context
  <2> HIDE DEF r
  <2>5. Know(p, next, r)
    BY <2>2 DEF r
  <2> QED BY <1>1, <2>1, <2>3, <2>4, <2>5, PlainStep
<1> QED BY <1>2, <1>3

\* A row is written where the index allows it: domains stay apart.
LEMMA WriteStep ==
  ASSUME TenantInv, Observe, NEW p \in Request, Return(p), cache' = cache, NEW t \in Tenant, NEW row \in Row,
         IF IndexAllows(row.domain, t) THEN tenant' = [tenant EXCEPT ![t] = row] ELSE UNCHANGED tenant
  PROVE  TenantInv'
<1>0. TypeOK /\ DomainsUnique
  BY PartsHold
<1>1. CASE ~IndexAllows(row.domain, t)
  BY <1>1, ReturnStep
<1>2. CASE IndexAllows(row.domain, t)
  <2>1. tenant' = [tenant EXCEPT ![t] = row]
    BY <1>2
  <2>2. tenant' \in [Tenant -> Row \cup {None}]
    BY <1>0, <2>1 DEF TypeOK
  <2>3. tenant'[t] = row /\ \A u \in Tenant \ {t} : tenant'[u] = tenant[u]
    BY <1>0, <2>1 DEF TypeOK
  <2>4. \A u \in Tenant : tenant[u] # None => tenant'[u] # None
    BY <2>3, TenantsAssumption
  <2>5. \A u \in Tenant \ {t} : Live(u) => tenant[u].domain # row.domain
    BY <1>2 DEF IndexAllows
  <2>6. DomainsUnique'
    BY <1>0, <2>3, <2>5 DEF DomainsUnique, Live
  <2> QED BY <2>2, <2>4, <2>6, EndStep
<1> QED BY <1>1, <1>2

\* A tenant is inserted or saved.
LEMMA WritesStep ==
  ASSUME TenantInv, Observe, NEW p \in Request, Insert(p) \/ Save(p)
  PROVE  TenantInv'
<1>0. RequestForm(p)
  BY PartsHold
<1>1. CASE Insert(p)
  <2>1. req[p].tenant \in Tenant /\ req[p].domain \in Domain /\ Return(p) /\ cache' = cache
    BY <1>0, <1>1 DEF RequestForm, Insert
  <2> DEFINE row == [domain |-> req[p].domain, active |-> TRUE, live |-> TRUE]
  <2>2. row \in Row /\ row.domain = req[p].domain
    BY <2>1 DEF Row
  <2>3. IF IndexAllows(row.domain, req[p].tenant) THEN tenant' = [tenant EXCEPT ![req[p].tenant] = row]
        ELSE UNCHANGED tenant
    BY <1>1 DEF Insert
  <2> HIDE DEF row
  <2> QED BY <2>1, <2>2, <2>3, WriteStep
<1>2. CASE Save(p)
  <2>1. req[p].tenant \in Tenant /\ req[p].row \in Row /\ Return(p) /\ cache' = cache
    BY <1>0, <1>2 DEF RequestForm, Save
  <2>2. IF IndexAllows(req[p].row.domain, req[p].tenant)
        THEN tenant' = [tenant EXCEPT ![req[p].tenant] = req[p].row] ELSE UNCHANGED tenant
    BY <1>2 DEF Save
  <2> QED BY <2>1, <2>2, WriteStep
<1> QED BY <1>1, <1>2

\* A tenant is deleted: its row stays and is not live.
LEMMA SoftDeleteStep ==
  ASSUME TenantInv, Observe, NEW p \in Request, SoftDelete(p)
  PROVE  TenantInv'
<1>0. TypeOK /\ DomainsUnique /\ RequestForm(p)
  BY PartsHold
<1>1. pc[p] = "delete" /\ Return(p) /\ cache' = cache
  BY DEF SoftDelete
<1> SUFFICES ASSUME NEW t \in Tenant, req[p].tenant = t, tenant[t] # None
             PROVE  TenantInv'
  BY <1>0, <1>1 DEF RequestForm
<1> DEFINE row == [tenant[t] EXCEPT !.live = FALSE]
<1>2. tenant' = [tenant EXCEPT ![t] = row]
  BY DEF SoftDelete
<1>3. row \in Row /\ ~row.live
  BY <1>0 DEF TypeOK, Row
<1> HIDE DEF row
<1>4. tenant' \in [Tenant -> Row \cup {None}]
  BY <1>0, <1>2, <1>3 DEF TypeOK
<1>5. tenant'[t] = row /\ \A u \in Tenant \ {t} : tenant'[u] = tenant[u]
  BY <1>0, <1>2 DEF TypeOK
<1>6. \A u \in Tenant : tenant[u] # None => tenant'[u] # None
  BY <1>3, <1>5, TenantsAssumption
<1>7. DomainsUnique'
  BY <1>0, <1>3, <1>5 DEF DomainsUnique, Live
<1> QED BY <1>1, <1>4, <1>6, <1>7, EndStep

\* What an answered request holds.
LEMMA AnsweredFacts ==
  ASSUME TypeOK, NEW p \in Request, NEW answer \in Answer, NEW late \in BOOLEAN, Answered(p, answer, late)
  PROVE  /\ pc' \in [Request -> PC] /\ req' \in [Request -> Context] /\ now' = now /\ ops' = ops
         /\ pc'[p] = "resolved" /\ Same(Request \ {p})
         /\ req'[p].tenant = answer /\ req'[p].at = now /\ req'[p].late = late
         /\ req'[p].domain = req[p].domain
<1> DEFINE r == [req[p] EXCEPT !.tenant = answer, !.at = now, !.late = late]
<1>1. req[p] \in Context /\ now \in Time
  BY DEF TypeOK
<1>2. r \in Context /\ r.tenant = answer /\ r.at = now /\ r.late = late /\ r.domain = req[p].domain
  BY <1>1 DEF Context
<1>3. "resolved" \in PC /\ Know(p, "resolved", r)
  BY DEF PC, Answered
<1> HIDE DEF r
<1> QED BY <1>2, <1>3, KnowFacts

\* An answer is good when what was right less than a lifetime ago is.
LEMMA AnsweredLook ==
  ASSUME NEW p \in Request, pc'[p] = "resolved", NEW d \in Domain, NEW answer \in Answer, now \in Nat,
         req'[p].domain = d, req'[p].tenant = answer, req'[p].at = now,
         ~req'[p].late => right'[<<d, answer>>] # None /\ now < right'[<<d, answer>>] + TTL
  PROVE  RequestForm(p)' /\ RequestLook(p)'
BY DEF RequestForm, RequestLook

\* The cache answers, or the domain is to be looked up.
LEMMA ResolveStep ==
  ASSUME TenantInv, Observe, NEW p \in Request, Resolve(p)
  PROVE  TenantInv'
<1>0. TypeOK /\ CacheInv /\ DomainsUnique /\ LookInv /\ RequestForm(p) /\ req[p] \in Context
  BY PartsHold
<1>1. pc[p] = "resolve" /\ cache' = cache /\ tenant' = tenant
  BY DEF Resolve
<1> SUFFICES ASSUME NEW k \in Replica, NEW d \in Domain, req[p].replica = k, req[p].domain = d
             PROVE  TenantInv'
  BY <1>0, <1>1 DEF RequestForm
<1>2. CASE Goto(p, "query")
  <2>1. "query" \in PC
    BY DEF PC
  <2> QED BY <1>1, <1>2, <2>1, LookStep
<1>3. ASSUME NEW e \in cache[k], Usable(e, d), Answered(p, e.answer, e.late)
      PROVE  TenantInv'
  <2>1. /\ e \in Entry /\ EntryLook(e) /\ e.answer \in Answer /\ e.late \in BOOLEAN /\ e.domain = d
        /\ e.expires \in Nat /\ now < e.expires
    BY <1>0, <1>3, TenantsAssumption DEF CacheInv, LookInv, Entry, Usable
  <2>2. /\ pc' \in [Request -> PC] /\ req' \in [Request -> Context] /\ now' = now /\ ops' = ops
        /\ pc'[p] = "resolved" /\ Same(Request \ {p})
        /\ req'[p].tenant = e.answer /\ req'[p].at = now /\ req'[p].late = e.late /\ req'[p].domain = d
    BY <1>0, <1>3, <2>1, AnsweredFacts
  <2>3. now' \in Time /\ now <= now' /\ now \in Nat
    BY <1>0, <2>2, TenantsAssumption DEF TypeOK, Time
  <2>4. EntryLook(e)'
    BY <1>0, <2>1, <2>3, EntryKept
  <2>5. right'[<<d, e.answer>>] # None => right'[<<d, e.answer>>] \in Nat
    <3>1. <<d, e.answer>> \in Domain \X Answer
      BY <2>1
    <3>2. right' \in [Domain \X Answer -> Time \cup {None}]
      BY <1>0, <2>3, ObserveFacts
    <3>3. Time \subseteq Nat
      BY TenantsAssumption DEF Time
    <3> QED BY <3>1, <3>2, <3>3
  <2>6. ~e.late => right'[<<d, e.answer>>] # None /\ e.expires <= right'[<<d, e.answer>>] + TTL
    BY <2>1, <2>4 DEF EntryLook
  <2>7. ~e.late => right'[<<d, e.answer>>] # None /\ now < right'[<<d, e.answer>>] + TTL
    BY <2>1, <2>3, <2>5, <2>6, TenantsAssumption
  <2>8. RequestForm(p)' /\ RequestLook(p)'
    BY <2>1, <2>2, <2>3, <2>7, AnsweredLook
  <2>9. CacheInv' /\ DomainsUnique' /\ tenant' \in [Tenant -> Row \cup {None}]
        /\ \A j \in Replica : Cardinality(cache'[j]) <= CacheLimit
    BY <1>0, <1>1 DEF CacheInv, DomainsUnique, Live, TypeOK
  <2>10. \A q \in Request \ (Request \ {p}) : q = p
    OBVIOUS
  <2> QED BY <1>1, <2>2, <2>3, <2>8, <2>9, <2>10, MoveStep
<1> QED BY <1>2, <1>3 DEF Resolve

\* The look-up finds what is right.
LEMMA QueryStep ==
  ASSUME TenantInv, Observe, NEW p \in Request, Query(p)
  PROVE  TenantInv'
<1>0. TypeOK /\ LookInv /\ RequestForm(p) /\ req[p] \in Context
  BY PartsHold
<1>1. pc[p] = "query" /\ cache' = cache /\ tenant' = tenant
  BY DEF Query
<1> SUFFICES ASSUME NEW k \in Replica, NEW d \in Domain, req[p].replica = k, req[p].domain = d
             PROVE  TenantInv'
  BY <1>0, <1>1 DEF RequestForm
<1>2. CASE Return(p)
  BY <1>1, <1>2, ReturnStep
<1>3. CASE Know(p, "store", [req[p] EXCEPT !.tenant = Right(d), !.at = now])
  <2> SUFFICES ASSUME NEW answer \in Answer, answer = Right(d)
               PROVE  TenantInv'
    BY RightTypes
  <2> DEFINE r == [req[p] EXCEPT !.tenant = answer, !.at = now]
  <2>1. now \in Time /\ Time \subseteq Nat
    BY <1>0, TenantsAssumption DEF TypeOK, Time
  <2>2. r \in Context /\ r.tenant = answer /\ r.at = now /\ r.domain = d /\ r.replica = k
    BY <1>0, <2>1 DEF Context
  <2>3. "store" \in PC /\ Know(p, "store", r)
    BY <1>3 DEF PC
  <2> HIDE DEF r
  <2>4. pc'[p] = "store" /\ req'[p] = r /\ now' = now
    BY <1>0, <2>3 DEF Know, TypeOK
  <2>5. right'[<<d, answer>>] # None /\ now <= right'[<<d, answer>>]
    <3>1. <<d, answer>> \in Domain \X Answer /\ right[<<d, answer>>] = now
      BY <1>0 DEF LookInv
    <3>2. now' \in Time /\ now <= now' /\ now # None
      BY <2>1, <2>4, TenantsAssumption
    <3> QED BY <1>0, <3>1, <3>2, ObserveFacts
  <2>6. RequestForm(p)' /\ RequestLook(p)'
    BY <2>2, <2>4, <2>5 DEF RequestForm, RequestLook
  <2> QED BY <1>1, <2>2, <2>3, <2>6, QuietStep
<1> QED BY <1>2, <1>3 DEF Query

\* The cache never holds more than its limit, and one entry for a domain.
LEMMA CachedFacts ==
  ASSUME NEW entries, IsFiniteSet(entries), Cardinality(entries) <= CacheLimit,
         \A e, f \in entries : e.domain = f.domain => e = f, NEW entry
  PROVE  LET new == Cached(entries, entry) IN
         /\ IsFiniteSet(new) /\ Cardinality(new) <= CacheLimit /\ new \subseteq entries \cup {entry}
         /\ \A e, f \in new : e.domain = f.domain => e = f
<1> DEFINE kept == {e \in IF Cardinality(entries) >= CacheLimit THEN {} ELSE entries : e.domain # entry.domain}
<1>1. Cached(entries, entry) = kept \cup {entry} /\ kept \subseteq entries /\ \A e \in kept : e.domain # entry.domain
  BY DEF Cached
<1>2. Cardinality(entries) \in Nat /\ CacheLimit \in Nat /\ CacheLimit > 0
  BY FS_CardinalityType, TenantsAssumption
<1>3. IsFiniteSet(kept) /\ Cardinality(kept) <= Cardinality(entries) /\ Cardinality(kept) \in Nat
  BY <1>1, FS_Subset, FS_CardinalityType
<1>4. Cardinality(entries) >= CacheLimit => kept = {}
  OBVIOUS
<1>5. Cardinality(kept) < CacheLimit
  <2>1. CASE Cardinality(entries) >= CacheLimit
    BY <1>2, <1>4, <2>1, FS_EmptySet
  <2>2. CASE ~(Cardinality(entries) >= CacheLimit)
    BY <1>2, <1>3, <2>2
  <2> QED BY <2>1, <2>2
<1> HIDE DEF kept
<1>6. /\ IsFiniteSet(kept \cup {entry})
      /\ Cardinality(kept \cup {entry}) = IF entry \in kept THEN Cardinality(kept) ELSE Cardinality(kept) + 1
  BY <1>3, FS_AddElement
<1>7. Cardinality(kept \cup {entry}) <= CacheLimit
  BY <1>2, <1>3, <1>5, <1>6
<1>8. \A e, f \in kept \cup {entry} : e.domain = f.domain => e = f
  BY <1>1
<1> QED BY <1>1, <1>6, <1>7, <1>8

\* The answer of a look-up is cached.
LEMMA StoreStep ==
  ASSUME TenantInv, Observe, NEW p \in Request, Store(p)
  PROVE  TenantInv'
<1>0. TypeOK /\ CacheInv /\ DomainsUnique /\ LookInv /\ RequestForm(p) /\ RequestLook(p) /\ req[p] \in Context
  BY PartsHold
<1>1. pc[p] = "store" /\ tenant' = tenant
  BY DEF Store
<1>2. req[p].tenant \in Answer /\ req[p].at \in Time
  BY <1>0, ContextFields
<1> SUFFICES ASSUME NEW k \in Replica, NEW d \in Domain, NEW answer \in Answer, NEW late \in BOOLEAN,
                    req[p].replica = k, req[p].domain = d, req[p].tenant = answer,
                    late = (req[p].at # now)
             PROVE  TenantInv'
  BY <1>0, <1>1, <1>2 DEF RequestForm
<1> SUFFICES ASSUME NEW entry, entry = [domain |-> d, answer |-> answer, expires |-> now + TTL, late |-> late]
             PROVE  TenantInv'
  OBVIOUS
<1>3. cache' = [cache EXCEPT ![k] = Cached(cache[k], entry)] /\ Answered(p, answer, late)
  BY DEF Store
<1>4. now \in Nat /\ now <= MaxTime /\ Time \subseteq Nat /\ TTL \in Nat /\ TTL > 0 /\ MaxTime \in Nat
  BY <1>0, TenantsAssumption DEF TypeOK, Time
<1>5. /\ entry \in Entry /\ entry.domain = d /\ entry.answer = answer /\ entry.expires = now + TTL
      /\ entry.late = late
  BY <1>4 DEF Entry
<1>6. /\ pc' \in [Request -> PC] /\ req' \in [Request -> Context] /\ now' = now /\ ops' = ops
      /\ pc'[p] = "resolved" /\ Same(Request \ {p})
      /\ req'[p].tenant = answer /\ req'[p].at = now /\ req'[p].late = late /\ req'[p].domain = d
  BY <1>0, <1>3, AnsweredFacts
<1>7. now' \in Time /\ now <= now'
  BY <1>0, <1>4, <1>6 DEF TypeOK
<1>8. <<d, answer>> \in Domain \X Answer /\ right[<<d, answer>>] # None /\ req[p].at <= right[<<d, answer>>]
  BY <1>0, <1>1 DEF RequestLook
<1>9. right'[<<d, answer>>] # None /\ right'[<<d, answer>>] \in Nat /\ right[<<d, answer>>] <= right'[<<d, answer>>]
      /\ right[<<d, answer>>] \in Nat
  <2>1. right' \in [Domain \X Answer -> Time \cup {None}]
    BY <1>0, <1>7, ObserveFacts
  <2>2. right'[<<d, answer>>] # None /\ right[<<d, answer>>] <= right'[<<d, answer>>]
    BY <1>0, <1>7, <1>8, ObserveFacts
  <2> QED BY <1>0, <1>4, <1>8, <2>1, <2>2 DEF TypeOK
<1>10. ~late => now <= right'[<<d, answer>>]
  <2>1. ~late => req[p].at = now
    BY Zenon
  <2>2. req[p].at \in Nat
    BY <1>2, <1>4
  <2> QED BY <1>4, <1>8, <1>9, <2>1, <2>2
<1>11. EntryLook(entry)'
  <2>1. ~late => now + TTL <= right'[<<d, answer>>] + TTL
    BY <1>4, <1>9, <1>10
  <2> QED BY <1>5, <1>9, <2>1 DEF EntryLook
<1>12. RequestForm(p)' /\ RequestLook(p)'
  <2>1. ~req'[p].late => right'[<<d, answer>>] # None /\ now < right'[<<d, answer>>] + TTL
    BY <1>4, <1>6, <1>9, <1>10
  <2> QED BY <1>4, <1>6, <2>1, AnsweredLook
<1>13. /\ cache[k] \subseteq Entry /\ IsFiniteSet(cache[k]) /\ Cardinality(cache[k]) <= CacheLimit
       /\ \A e, f \in cache[k] : e.domain = f.domain => e = f
  BY <1>0 DEF CacheInv, TypeOK
<1>14. LET new == Cached(cache[k], entry) IN
       /\ IsFiniteSet(new) /\ Cardinality(new) <= CacheLimit /\ new \subseteq cache[k] \cup {entry}
       /\ \A e, f \in new : e.domain = f.domain => e = f
  BY <1>13, CachedFacts
<1>15. cache'[k] = Cached(cache[k], entry) /\ \A j \in Replica \ {k} : cache'[j] = cache[j]
  BY <1>0, <1>3 DEF CacheInv
<1>16. CacheInv'
  <2>1. Cached(cache[k], entry) \in SUBSET Entry
    BY <1>5, <1>13, <1>14
  <2>2. cache' \in [Replica -> SUBSET Entry]
    BY <1>0, <1>3, <2>1 DEF CacheInv
  <2>3. \A j \in Replica : IsFiniteSet(cache'[j]) /\ \A e, f \in cache'[j] : e.domain = f.domain => e = f
    BY <1>0, <1>14, <1>15 DEF CacheInv
  <2> QED BY <2>2, <2>3 DEF CacheInv
<1>17. \A j \in Replica : Cardinality(cache'[j]) <= CacheLimit
  BY <1>0, <1>14, <1>15 DEF TypeOK
<1>18. \A j \in Replica : \A e \in cache'[j] : e \in cache[j] \/ EntryLook(e)'
  <2>1. \A e \in cache'[k] : e \in cache[k] \/ e = entry
    BY <1>14, <1>15
  <2>2. \A e \in cache'[k] : e \in cache[k] \/ EntryLook(e)'
    BY <1>11, <2>1
  <2>3. \A j \in Replica \ {k} : \A e \in cache'[j] : e \in cache[j]
    BY <1>15
  <2> QED BY <2>2, <2>3
<1>19. DomainsUnique' /\ tenant' \in [Tenant -> Row \cup {None}]
  BY <1>0, <1>1 DEF DomainsUnique, Live, TypeOK
<1>20. \A q \in Request \ (Request \ {p}) : q = p
  OBVIOUS
<1> QED BY <1>1, <1>6, <1>7, <1>12, <1>16, <1>17, <1>18, <1>19, <1>20, MoveStep

\* Time passes.
LEMMA TickStep ==
  ASSUME TenantInv, Observe, Tick
  PROVE  TenantInv'
<1>0. TypeOK /\ CacheInv /\ DomainsUnique
  BY PartsHold
<1>1. /\ now' = now + 1 /\ now < MaxTime /\ tenant' = tenant /\ cache' = cache /\ pc' = pc /\ req' = req
      /\ ops' = ops
  BY DEF Tick
<1>2. now' \in Time /\ now <= now'
  BY <1>0, <1>1, TenantsAssumption DEF TypeOK, Time
<1>3. CacheInv' /\ DomainsUnique' /\ tenant' \in [Tenant -> Row \cup {None}]
      /\ \A j \in Replica : Cardinality(cache'[j]) <= CacheLimit
  BY <1>0, <1>1 DEF CacheInv, DomainsUnique, Live, TypeOK
<1>4. Same(Request) /\ pc' \in [Request -> PC] /\ req' \in [Request -> Context]
  BY <1>0, <1>1 DEF Same, TypeOK
<1> QED BY <1>1, <1>2, <1>3, <1>4, MoveStep

-----------------------------------------------------------------------------
(* The theorems *)

\* One tenant, empty caches and idle requests; what is right is right since time 0.
LEMMA TenantInit ==
  ASSUME Init
  PROVE  TenantInv
<1>0. 0 \in Time /\ 0 # None
  BY TenantsAssumption DEF Time
<1>1. PICK t \in Tenant, d \in Domain :
        tenant = [u \in Tenant |-> IF u = t THEN [domain |-> d, active |-> TRUE, live |-> TRUE] ELSE None]
  BY DEF Init
<1>2. tenant \in [Tenant -> Row \cup {None}] /\ \A u \in Tenant \ {t} : tenant[u] = None
  BY <1>1 DEF Row
<1>3. \A k \in Replica : cache[k] = {} /\ IsFiniteSet(cache[k]) /\ Cardinality(cache[k]) <= CacheLimit
  <2>1. IsFiniteSet({}) /\ Cardinality({}) = 0
    BY FS_EmptySet
  <2> QED BY <2>1, TenantsAssumption DEF Init
<1>4. CacheInv
  BY <1>3 DEF CacheInv, Init
<1>5. \A p \in Request : pc[p] = "idle"
  BY DEF Init
<1>6. right \in [Domain \X Answer -> Time \cup {None}]
  BY <1>0 DEF Init
<1>7. TypeOK
  <2>1. \A k \in Replica : Cardinality({e.domain : e \in cache[k]}) = Cardinality(cache[k])
    BY <1>4, OneEach DEF CacheInv
  <2>2. now \in Time /\ pc \in [Request -> PC] /\ req \in [Request -> Context] /\ ops \subseteq Operation
    BY <1>0, NothingFacts, TenantsAssumption DEF Init, PC
  <2> QED BY <1>2, <1>3, <1>6, <2>1, <2>2 DEF TypeOK
<1>8. \A p \in Request : RequestForm(p) /\ RequestLook(p)
  BY <1>5 DEF RequestForm, RequestLook
<1>9. DomainsUnique
  BY <1>2 DEF DomainsUnique, Live
<1>10. LookInv
  <2>1. \A c \in Domain : right[<<c, Right(c)>>] = now
    <3> TAKE c \in Domain
    <3>1. <<c, Right(c)>> \in Domain \X Answer
      BY RightTypes
    <3> QED BY <3>1 DEF Init
  <2>2. \A pair \in Domain \X Answer : right[pair] # None => right[pair] <= now
    BY DEF Init
  <2> QED BY <1>3, <1>8, <2>1, <2>2 DEF LookInv
<1> QED BY <1>4, <1>7, <1>8, <1>9, <1>10 DEF TenantInv

\* Every step keeps the invariant.
LEMMA TenantNext ==
  ASSUME TenantInv, Next
  PROVE  TenantInv'
<1>0. Step /\ Observe
  BY DEF Next
<1>1. ASSUME NEW p \in Request, NEW t \in Tenant, NEW d \in Domain, Create(p, t, d)
      PROVE  TenantInv'
  BY <1>0, <1>1, CreateStep
<1>2. ASSUME NEW p \in Request, NEW t \in Known,
             \/ \E d \in Domain : Update(p, t, d, None)
             \/ \E active \in BOOLEAN : Update(p, t, None, active)
             \/ Delete(p, t)
      PROVE  TenantInv'
  <2>1. CASE \E d \in Domain : Update(p, t, d, None)
    BY <1>0, <2>1, UpdateStep
  <2>2. CASE \E active \in BOOLEAN : Update(p, t, None, active)
    BY <1>0, <2>2, UpdateStep
  <2>3. CASE Delete(p, t)
    BY <1>0, <2>3, DeleteStep
  <2> QED BY <1>2, <2>1, <2>2, <2>3
<1>3. ASSUME NEW p \in Request, NEW k \in Replica, NEW named \in Answer, NEW d \in Domain,
             extractTenantID(p, k, named, d)
      PROVE  TenantInv'
  BY <1>0, <1>3, RequestStep
<1>4. ASSUME NEW p \in Request, Serve(p) \/ Fail(p)
      PROVE  TenantInv'
  <2>1. Return(p) /\ cache' = cache /\ tenant' = tenant
    BY <1>4 DEF Serve, Fail
  <2> QED BY <1>0, <2>1, ReturnStep
<1>5. ASSUME NEW p \in Request,
             \/ GetByDomain(p) \/ Insert(p) \/ GetByID(p) \/ CheckDomain(p) \/ Save(p) \/ CheckDelete(p)
             \/ SoftDelete(p) \/ Resolve(p) \/ Query(p) \/ Store(p) \/ Serve(p) \/ Fail(p)
      PROVE  TenantInv'
  BY <1>0, <1>4, <1>5, LooksStep, WritesStep, GetByIDStep, SoftDeleteStep, ResolveStep, QueryStep, StoreStep
<1>6. CASE Tick
  BY <1>0, <1>6, TickStep
<1> QED BY <1>0, <1>1, <1>2, <1>3, <1>5, <1>6 DEF Step

\* Nor does a step that changes nothing break it.
LEMMA TenantStutter ==
  ASSUME TenantInv, UNCHANGED vars
  PROVE  TenantInv'
<1>1. /\ tenant' = tenant /\ cache' = cache /\ now' = now /\ pc' = pc /\ req' = req /\ ops' = ops
      /\ right' = right
  BY DEF vars
<1>2. TypeOK' /\ CacheInv' /\ DomainsUnique'
  BY <1>1 DEF TenantInv, TypeOK, CacheInv, DomainsUnique, Live
<1>3. \A p \in Request : RequestForm(p)'
  BY <1>1 DEF TenantInv, RequestForm
<1>4. \A d \in Domain : Right(d)' = Right(d)
  BY <1>1 DEF Right, ByDomain, Live
<1>5. \A d \in Domain : (right[<<d, Right(d)>>] = now)'
  BY <1>1, <1>4 DEF TenantInv, LookInv
<1>6. LookInv'
  BY <1>1, <1>5 DEF TenantInv, LookInv, EntryLook, RequestLook
<1> QED BY <1>2, <1>3, <1>6 DEF TenantInv

\* TenantInv is an invariant: rows, caches and the requests between their statements stay
\* consistent whatever runs together.
THEOREM TenantInvariance == Spec => []TenantInv
<1>1. Init => TenantInv
  BY TenantInit
<1>2. TenantInv /\ [Next]_vars => TenantInv'
  BY TenantNext, TenantStutter
<1> QED BY <1>1, <1>2, PTL DEF Spec

\* Rows, caches and requests have their types, and no cache of domains outgrows
\* maxCachedDomains or has two entries for a domain.
THEOREM TypeCorrect == Spec => []TypeOK
<1>1. TenantInv => TypeOK
  BY DEF TenantInv
<1> QED BY <1>1, TenantInvariance, PTL

\* No two tenants that are not deleted have one domain, whatever creations, moves and saves
\* of stale copies run together.
THEOREM DomainsStayUnique == Spec => []DomainsUnique
<1>1. TenantInv => DomainsUnique
  BY DEF TenantInv
<1> QED BY <1>1, TenantInvariance, PTL

\* A request is sent to a tenant only if the domain was that active tenant's less than a
\* cache lifetime ago, for every lifetime and every replica.
THEOREM AnswersFresh == Spec => []ResolvedWithinLifetime
<1>1. TenantInv => ResolvedWithinLifetime
  BY DEF TenantInv, LookInv, RequestLook, ResolvedWithinLifetime
<1> QED BY <1>1, TenantInvariance, PTL
=============================================================================
