------------------------------ MODULE Tenants ------------------------------
(***************************************************************************)
(* Tenants (internal/services/tenant_service.go, repo/gorm/tenant.go) and  *)
(* how a request finds its tenant: by its token, a header or a subdomain,  *)
(* else by the domain it was sent to, which every replica looks up and     *)
(* caches for a minute (internal/middleware/middleware.go,                 *)
(* tenant_resolver.go).  A change reads the row and saves its copy.        *)
(***************************************************************************)
EXTENDS Naturals, FiniteSets

CONSTANTS
  Tenant, Domain,
  Replica,       \* servers, each with its cache
  Request,       \* slots for requests in progress
  None,
  TTL,           \* how long a look-up is cached, in ticks
  CacheLimit,    \* maxCachedDomains
  MaxTime,       \* a bound on the clock
  Workload       \* mixes of operations to consider

Operation == {"create", "update", "delete", "request", "failure"}
Time == 0..MaxTime

Row == [domain : Domain, active : BOOLEAN, live : BOOLEAN]

\* What a look-up gave, None when there is no active tenant
Answer == Tenant \cup {None}

Entry == [domain : Domain, answer : Answer, expires : 0..(MaxTime + TTL), late : BOOLEAN]

\* A request: the tenant, the copy of its row and the new values (None: left alone), or the
\* replica and the host; and when it looked the host up
Context ==
  [tenant : Answer, row : Row \cup {None}, domain : Domain \cup {None}, active : BOOLEAN \cup {None},
   replica : Replica \cup {None}, at : Time, late : BOOLEAN]

Nothing ==
  [tenant |-> None, row |-> None, domain |-> None, active |-> None, replica |-> None,
   at |-> 0, late |-> FALSE]

ASSUME TenantsAssumption ==
  /\ None \notin Tenant \cup Domain \cup Replica /\ None \notin Row /\ None \notin Time
  /\ MaxTime \in Nat /\ TTL \in Nat \ {0} /\ CacheLimit \in Nat \ {0}
  /\ Workload \subseteq SUBSET Operation

VARIABLES
  tenant,    \* the tenants table; a deleted tenant keeps its row
  cache,     \* per replica the resolver's entries
  now, pc, req, ops,
  right      \* history: when each answer was last right for each domain, None for never

vars == <<tenant, cache, now, pc, req, ops, right>>

PC == {"idle", "getByDomain", "insert", "getByID", "checkDomain", "save", "checkDelete", "delete",
       "resolve", "query", "store", "resolved", "named"}

\* Rows, caches and requests have their types, and a cache stays within its limit.
TypeOK ==
  /\ tenant \in [Tenant -> Row \cup {None}]
  /\ \A k \in Replica :
       /\ cache[k] \subseteq Entry
       /\ Cardinality({e.domain : e \in cache[k]}) = Cardinality(cache[k])
       /\ Cardinality(cache[k]) <= CacheLimit
  /\ now \in Time
  /\ pc \in [Request -> PC]
  /\ req \in [Request -> Context]
  /\ ops \subseteq Operation
  /\ right \in [Domain \X Answer -> Time \cup {None}]

-----------------------------------------------------------------------------
(* Rows *)

Live(t) == tenant[t] # None /\ tenant[t].live

\* Mutant: no index keeps domains apart
IndexAllowsAny(d, t) == TRUE

\* The unique index on the domains of tenants that are not deleted
IndexAllows(d, t) == \A u \in Tenant \ {t} : Live(u) => tenant[u].domain # d

\* GetByDomain
ByDomain(d) == {t \in Tenant : Live(t) /\ tenant[t].domain = d}

\* What Resolve is to answer: the active tenant of the domain
Right(d) ==
  LET found == {t \in ByDomain(d) : tenant[t].active}
  IN IF found = {} THEN None ELSE CHOOSE t \in found : TRUE

Init ==
  /\ \E t \in Tenant, d \in Domain :
       tenant = [u \in Tenant |-> IF u = t THEN [domain |-> d, active |-> TRUE, live |-> TRUE] ELSE None]
  /\ cache = [k \in Replica |-> {}]
  /\ now = 0
  /\ pc = [p \in Request |-> "idle"]
  /\ req = [p \in Request |-> Nothing]
  /\ ops \in Workload
  /\ right = [pair \in Domain \X Answer |-> IF pair[2] = Right(pair[1]) THEN 0 ELSE None]

Know(p, next, context) ==
  /\ pc' = [pc EXCEPT ![p] = next]
  /\ req' = [req EXCEPT ![p] = context]
  /\ UNCHANGED <<now, ops>>

Goto(p, next) == Know(p, next, req[p])
Return(p) == Know(p, "idle", Nothing)

Start(p, operation, next, context) ==
  /\ pc[p] = "idle" /\ operation \in ops
  /\ Know(p, next, context)
  /\ UNCHANGED <<tenant, cache>>

-----------------------------------------------------------------------------
(* The tenant service *)

Create(p, t, d) ==
  /\ tenant[t] = None /\ \A q \in Request : req[q].tenant # t
  /\ Start(p, "create", "getByDomain", [Nothing EXCEPT !.tenant = t, !.domain = d])

Update(p, t, d, active) ==
  Start(p, "update", "getByID", [Nothing EXCEPT !.tenant = t, !.domain = d, !.active = active])

Delete(p, t) == Start(p, "delete", "checkDelete", [Nothing EXCEPT !.tenant = t])

\* The look before the insert; a look-up that fails is taken to have found nothing
GetByDomain(p) ==
  /\ pc[p] = "getByDomain"
  /\ \/ ByDomain(req[p].domain) = {} /\ Goto(p, "insert")
     \/ ByDomain(req[p].domain) # {} /\ Return(p)
     \/ "failure" \in ops /\ Goto(p, "insert")
  /\ UNCHANGED <<tenant, cache>>

Insert(p) ==
  /\ pc[p] = "insert"
  /\ LET t == req[p].tenant
         d == req[p].domain
     IN IF IndexAllows(d, t)
        THEN tenant' = [tenant EXCEPT ![t] = [domain |-> d, active |-> TRUE, live |-> TRUE]]
        ELSE UNCHANGED tenant
  /\ Return(p)
  /\ UNCHANGED cache

\* The copy, with what the request changes
Edited(p, row) ==
  [row EXCEPT !.domain = IF req[p].domain = None THEN @ ELSE req[p].domain,
              !.active = IF req[p].active = None THEN @ ELSE req[p].active]

GetByID(p) ==
  /\ pc[p] = "getByID"
  /\ LET t == req[p].tenant IN
     IF Live(t)
     THEN Know(p, IF req[p].domain = None THEN "save" ELSE "checkDomain",
               [req[p] EXCEPT !.row = Edited(p, tenant[t])])
     ELSE Return(p)
  /\ UNCHANGED <<tenant, cache>>

\* Likewise the look before the Save of a new domain
CheckDomain(p) ==
  /\ pc[p] = "checkDomain"
  /\ LET others == ByDomain(req[p].domain) \ {req[p].tenant} IN
     \/ others = {} /\ Goto(p, "save")
     \/ others # {} /\ Return(p)
     \/ "failure" \in ops /\ Goto(p, "save")
  /\ UNCHANGED <<tenant, cache>>

\* Save writes the whole copy, and inserts it again when the row was deleted meanwhile
Save(p) ==
  /\ pc[p] = "save"
  /\ LET t == req[p].tenant IN
     IF IndexAllows(req[p].row.domain, t)
     THEN tenant' = [tenant EXCEPT ![t] = req[p].row]
     ELSE UNCHANGED tenant
  /\ Return(p)
  /\ UNCHANGED cache

CheckDelete(p) ==
  /\ pc[p] = "checkDelete"
  /\ IF Live(req[p].tenant) THEN Goto(p, "delete") ELSE Return(p)
  /\ UNCHANGED <<tenant, cache>>

SoftDelete(p) ==
  /\ pc[p] = "delete"
  /\ tenant' = [tenant EXCEPT ![req[p].tenant].live = FALSE]
  /\ Return(p)
  /\ UNCHANGED cache

-----------------------------------------------------------------------------
(* A request finds its tenant *)

\* The tenant of the token, of the header or of the subdomain goes before the domain, and is
\* not looked up in the table
extractTenantID(p, k, named, d) ==
  Start(p, "request", IF named # None THEN "named" ELSE "resolve",
        [Nothing EXCEPT !.replica = k, !.tenant = named, !.domain = d])

\* Mutant: an entry never expires
UsableForever(e, d) == e.domain = d

Usable(e, d) == e.domain = d /\ now < e.expires

Answered(p, answer, late) ==
  Know(p, "resolved", [req[p] EXCEPT !.tenant = answer, !.at = now, !.late = late])

Resolve(p) ==
  /\ pc[p] = "resolve"
  /\ LET hits == {e \in cache[req[p].replica] : Usable(e, req[p].domain)} IN
     IF hits # {}
     THEN \E e \in hits : Answered(p, e.answer, e.late)
     ELSE Goto(p, "query")
  /\ UNCHANGED <<tenant, cache>>

\* The look-up; when it fails there is no tenant and nothing is cached
Query(p) ==
  /\ pc[p] = "query"
  /\ \/ Know(p, "store", [req[p] EXCEPT !.tenant = Right(req[p].domain), !.at = now])
     \/ "failure" \in ops /\ Return(p)
  /\ UNCHANGED <<tenant, cache>>

\* Mutant: the cache grows without end
CachedAll(entries, entry) == {e \in entries : e.domain # entry.domain} \cup {entry}

\* A full cache is emptied first; late if time passed since the look-up
Cached(entries, entry) ==
  {e \in IF Cardinality(entries) >= CacheLimit THEN {} ELSE entries : e.domain # entry.domain}
    \cup {entry}

Store(p) ==
  /\ pc[p] = "store"
  /\ LET late == req[p].at # now
         entry == [domain |-> req[p].domain, answer |-> req[p].tenant, expires |-> now + TTL, late |-> late]
     IN /\ cache' = [cache EXCEPT ![req[p].replica] = Cached(@, entry)]
        /\ Answered(p, req[p].tenant, late)
  /\ UNCHANGED tenant

\* Without a tenant the OAuth endpoints report the error and TenantContext ends the others
Serve(p) ==
  /\ pc[p] \in {"resolved", "named"}
  /\ Return(p)
  /\ UNCHANGED <<tenant, cache>>

-----------------------------------------------------------------------------
(* Specification *)

\* Only requests that resolve a domain care
Tick ==
  /\ "request" \in ops /\ now < MaxTime
  /\ now' = now + 1
  /\ UNCHANGED <<tenant, cache, pc, req, ops>>

\* A statement of a change fails and its error is returned, or the replica stops
Fail(p) ==
  /\ "failure" \in ops /\ pc[p] \notin {"idle", "resolve", "query", "store", "resolved", "named"}
  /\ Return(p)
  /\ UNCHANGED <<tenant, cache>>

Observe ==
  right' = [pair \in Domain \X Answer |-> IF (pair[2] = Right(pair[1]))' THEN now' ELSE right[pair]]

\* Changes to other ids end at the look-up; a bound: an update has a domain or is_active
Known == {t \in Tenant : tenant[t] # None}

Step ==
  \/ \E p \in Request, t \in Tenant, d \in Domain : Create(p, t, d)
  \/ \E p \in Request, t \in Known :
       \/ \E d \in Domain : Update(p, t, d, None)
       \/ \E active \in BOOLEAN : Update(p, t, None, active)
       \/ Delete(p, t)
  \/ \E p \in Request, k \in Replica, named \in Answer, d \in Domain : extractTenantID(p, k, named, d)
  \/ \E p \in Request :
       \/ GetByDomain(p) \/ Insert(p) \/ GetByID(p) \/ CheckDomain(p) \/ Save(p) \/ CheckDelete(p)
       \/ SoftDelete(p) \/ Resolve(p) \/ Query(p) \/ Store(p) \/ Serve(p) \/ Fail(p)
  \/ Tick

Next == Step /\ Observe

Spec == Init /\ [][Next]_vars

-----------------------------------------------------------------------------
(* Properties *)

\* Two tenants never have one domain, however creations, moves, deletions and saves that bring
\* a deleted tenant back interleave: the index decides where the look before the write is too
\* early or fails (Create, Update).
DomainsUnique ==
  \A t, u \in Tenant : Live(t) /\ Live(u) /\ tenant[t].domain = tenant[u].domain => t = u

\* A request is sent to a tenant only if the domain was that active tenant's less than a cache
\* lifetime ago: a tenant that moved, was deactivated or deleted is out of reach of its
\* domain after that, on every replica, unless the look-up itself was slow (Resolve).
ResolvedWithinLifetime ==
  \A p \in Request : pc[p] = "resolved" /\ ~req[p].late =>
    /\ right[<<req[p].domain, req[p].tenant>>] # None
    /\ req[p].at < right[<<req[p].domain, req[p].tenant>>] + TTL

-----------------------------------------------------------------------------
(* The inductive invariant, in parts *)

\* What a request that has reached a statement holds
RequestForm(p) ==
  LET r == req[p] IN
  /\ pc[p] \in {"getByDomain", "insert"} => r.tenant \in Tenant /\ r.domain \in Domain
  /\ pc[p] \in {"getByID", "checkDomain", "save", "checkDelete", "delete"} =>
       r.tenant \in Tenant /\ tenant[r.tenant] # None
  /\ pc[p] \in {"checkDomain", "save"} => r.row \in Row
  /\ pc[p] \in {"resolve", "query", "store", "resolved"} => r.domain \in Domain
  /\ pc[p] \in {"resolve", "query", "store"} => r.replica \in Replica

\* A cache has one entry for a domain
CacheInv ==
  /\ cache \in [Replica -> SUBSET Entry]
  /\ \A k \in Replica : IsFiniteSet(cache[k]) /\ \A e, f \in cache[k] : e.domain = f.domain => e = f

\* Neither an entry of a cache nor an answer outlives by more than the lifetime the last
\* time it was right
EntryLook(e) ==
  ~e.late => right[<<e.domain, e.answer>>] # None /\ e.expires <= right[<<e.domain, e.answer>>] + TTL

RequestLook(p) ==
  LET r == req[p]
      last == right[<<r.domain, r.tenant>>]
  IN /\ pc[p] = "store" => last # None /\ r.at <= last
     /\ pc[p] = "resolved" /\ ~r.late => last # None /\ r.at < last + TTL

\* What is right now is known to be, and nothing is known to be right later
LookInv ==
  /\ \A d \in Domain : right[<<d, Right(d)>>] = now
  /\ \A pair \in Domain \X Answer : right[pair] # None => right[pair] <= now
  /\ \A k \in Replica : \A e \in cache[k] : EntryLook(e)
  /\ \A p \in Request : RequestLook(p)

TenantInv ==
  TypeOK /\ CacheInv /\ (\A p \in Request : RequestForm(p)) /\ DomainsUnique /\ LookInv
=============================================================================
