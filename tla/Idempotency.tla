---------------------------- MODULE Idempotency ----------------------------
(***************************************************************************)
(* POST requests with an Idempotency-Key (internal/middleware/             *)
(* idempotency.go, repo/gorm/idempotency.go).  A key (of one tenant and    *)
(* principal) has at most one row.  A request claims the key with one      *)
(* upsert that also takes over a dead row, runs the handler, then stores   *)
(* the response in, or releases, the row that carries its own fresh id.    *)
(***************************************************************************)
EXTENDS Naturals, FiniteSets

CONSTANTS
  Key,           \* idempotency keys
  Body,          \* request fingerprints (method, URI and body)
  Run,           \* row ids: a fresh UUID for every request that reaches Begin
  Request,       \* slots for requests in progress
  None,
  Faults         \* may a statement fail or a replica stop at any point?

ASSUME IdempotencyAssumption ==
  /\ None \notin Run \cup Body \cup Key
  /\ Faults \in BOOLEAN

VARIABLES
  \* the idempotency_keys table
  rowId,       \* id of the row of each key, None when there is no row
  rowBody,     \* request_hash
  rowResponse, \* the run whose response is stored, None while status_code is 0
  stale,       \* keys whose row was created more than idempotencyStaleAfter ago
  expired,     \* keys whose row has passed expires_at
  \* the requests in progress
  pc, key, body, id,
  \* the runs of the handler
  runKey,      \* the key and the body the handler was run for
  runBody,
  outcome,     \* how the run went
  replayed,    \* the stored responses sent: the run, and the request answered
  \* history
  overran,     \* runs under way when their row was a minute old, or expired
  lost         \* runs that were cut off or whose response was not stored, or has expired

table   == <<rowId, rowBody, rowResponse, stale, expired>>
request == <<pc, key, body, id>>
runs    == <<runKey, runBody, outcome>>
history == <<replayed, overran, lost>>
vars    == <<table, request, runs, history>>

\* "ok" is a response below 500 that is small enough to store; "failed" covers
\* a 5xx response, a panic and a response that is too large
Outcome == {"none", "running", "ok", "failed"}
PC == {"idle", "lookup", "running", "complete", "release"}

\* Rows, requests and runs have their types.
TypeOK ==
  /\ rowId \in [Key -> Run \cup {None}]
  /\ rowBody \in [Key -> Body \cup {None}]
  /\ rowResponse \in [Key -> Run \cup {None}]
  /\ stale \subseteq Key
  /\ expired \subseteq Key
  /\ pc \in [Request -> PC]
  /\ key \in [Request -> Key \cup {None}]
  /\ body \in [Request -> Body \cup {None}]
  /\ id \in [Request -> Run \cup {None}]
  /\ runKey \in [Run -> Key \cup {None}]
  /\ runBody \in [Run -> Body \cup {None}]
  /\ outcome \in [Run -> Outcome]
  /\ replayed \subseteq Run \X Key \X Body
  /\ overran \subseteq Run
  /\ lost \subseteq Run

Init ==
  /\ rowId = [k \in Key |-> None]
  /\ rowBody = [k \in Key |-> None]
  /\ rowResponse = [k \in Key |-> None]
  /\ stale = {}
  /\ expired = {}
  /\ pc = [p \in Request |-> "idle"]
  /\ key = [p \in Request |-> None]
  /\ body = [p \in Request |-> None]
  /\ id = [p \in Request |-> None]
  /\ runKey = [i \in Run |-> None]
  /\ runBody = [i \in Run |-> None]
  /\ outcome = [i \in Run |-> "none"]
  /\ replayed = {}
  /\ overran = {}
  /\ lost = {}

-----------------------------------------------------------------------------
(* The statements *)

Exists(k) == rowId[k] # None
InProgress(k) == rowResponse[k] = None

\* Mutant: any row still in progress is taken over
ClaimableAnyInProgress(k) == ~Exists(k) \/ k \in expired \/ InProgress(k)

\* Mutant: a finished row is taken over like an abandoned one
ClaimableFinished(k) == ~Exists(k) \/ k \in expired \/ k \in stale

\* Begin's upsert inserts, or takes over an expired or an abandoned row
Claimable(k) == ~Exists(k) \/ k \in expired \/ (InProgress(k) /\ k \in stale)

Upsert(k, i, b) ==
  /\ rowId' = [rowId EXCEPT ![k] = i]
  /\ rowBody' = [rowBody EXCEPT ![k] = b]
  /\ rowResponse' = [rowResponse EXCEPT ![k] = None]
  /\ stale' = stale \ {k}
  /\ expired' = expired \ {k}

\* Mutant: the response goes into whatever row the key has now
StoreResponseByKey(i) ==
  /\ rowResponse' = [k \in Key |-> IF Exists(k) /\ k = runKey[i] THEN i ELSE rowResponse[k]]
  /\ UNCHANGED <<rowId, rowBody, stale, expired>>

\* UPDATE ... WHERE id = i: no row has the id any more after a takeover
StoreResponse(i) ==
  /\ rowResponse' = [k \in Key |-> IF rowId[k] = i THEN i ELSE rowResponse[k]]
  /\ UNCHANGED <<rowId, rowBody, stale, expired>>

\* DELETE of the rows of a set of keys
DeleteRows(keys) ==
  /\ rowId' = [k \in Key |-> IF k \in keys THEN None ELSE rowId[k]]
  /\ rowBody' = [k \in Key |-> IF k \in keys THEN None ELSE rowBody[k]]
  /\ rowResponse' = [k \in Key |-> IF k \in keys THEN None ELSE rowResponse[k]]
  /\ stale' = stale \ keys
  /\ expired' = expired \ keys

\* Mutant: the release removes whatever row the key has now
DeleteRowOfKey(i) == DeleteRows({runKey[i]})

DeleteRow(i) == DeleteRows({k \in Key : rowId[k] = i})

DeleteExpired ==
  /\ expired # {}
  /\ DeleteRows(expired)
  /\ UNCHANGED <<request, runs, history>>

-----------------------------------------------------------------------------
(* A request *)

Enter(p, next, k, b, i) ==
  /\ pc' = [pc EXCEPT ![p] = next]
  /\ key' = [key EXCEPT ![p] = k]
  /\ body' = [body EXCEPT ![p] = b]
  /\ id' = [id EXCEPT ![p] = i]

Return(p) == Enter(p, "idle", None, None, None)

Goto(p, next) ==
  /\ pc' = [pc EXCEPT ![p] = next]
  /\ UNCHANGED <<key, body, id>>

Begin(p, k, b, i) ==
  /\ pc[p] = "idle"
  /\ outcome[i] = "none"
  /\ \/ /\ Claimable(k)
        /\ Upsert(k, i, b)
        /\ Enter(p, "running", k, b, i)
        /\ runKey' = [runKey EXCEPT ![i] = k]
        /\ runBody' = [runBody EXCEPT ![i] = b]
        /\ outcome' = [outcome EXCEPT ![i] = "running"]
     \/ /\ ~Claimable(k)
        /\ Enter(p, "lookup", k, b, None)
        /\ UNCHANGED <<table, runs>>
  /\ UNCHANGED history

\* Begin's second statement and replayOrReject: 409 when the row is gone or in
\* progress, 422 when the key was used for another request, else the response
ReplayOrReject(p) ==
  /\ pc[p] = "lookup"
  /\ LET k == key[p] IN
       IF Exists(k) /\ rowBody[k] = body[p] /\ ~InProgress(k)
       THEN replayed' = replayed \cup {<<rowResponse[k], k, body[p]>>}
       ELSE UNCHANGED replayed
  /\ Return(p)
  /\ UNCHANGED <<table, runs, overran, lost>>

\* c.Next(): the handler runs and answers
HandlerReturns(p) ==
  /\ pc[p] = "running"
  /\ \/ Goto(p, "complete") /\ outcome' = [outcome EXCEPT ![id[p]] = "ok"]
     \/ Goto(p, "release") /\ outcome' = [outcome EXCEPT ![id[p]] = "failed"]
  /\ UNCHANGED <<table, runKey, runBody, history>>

\* The response is stored; when that fails the deferred function releases the key
Complete(p) ==
  /\ pc[p] = "complete"
  /\ \/ StoreResponse(id[p]) /\ Return(p) /\ UNCHANGED lost
     \/ Faults /\ UNCHANGED table /\ Goto(p, "release") /\ lost' = lost \cup {id[p]}
  /\ UNCHANGED <<runs, replayed, overran>>

\* The deferred Delete; its failure is logged
Release(p) ==
  /\ pc[p] = "release"
  /\ DeleteRow(id[p]) \/ (Faults /\ UNCHANGED table)
  /\ Return(p)
  /\ UNCHANGED <<runs, history>>

\* The replica stops: the row stays as it is
Crash(p) ==
  /\ Faults
  /\ pc[p] # "idle"
  /\ Return(p)
  /\ lost' = lost \cup ({id[p]} \cap Run)
  /\ UNCHANGED <<table, runs, replayed, overran>>

\* The runs that are under way, their response not stored yet
UnderWay == {id[p] : p \in {q \in Request : pc[q] \in {"running", "complete", "release"}}}

\* A minute has passed since the row was created; nothing stops its handler
BecomesStale(k) ==
  /\ Exists(k)
  /\ k \notin stale
  /\ stale' = stale \cup {k}
  /\ overran' = overran \cup ({rowId[k]} \cap UnderWay)
  /\ UNCHANGED <<rowId, rowBody, rowResponse, expired, request, runs, replayed, lost>>

\* The retention time (24 hours) has passed
Expires(k) ==
  /\ Exists(k)
  /\ k \notin expired
  /\ expired' = expired \cup {k}
  /\ overran' = overran \cup ({rowId[k]} \cap UnderWay)
  /\ lost' = lost \cup {rowId[k]}
  /\ UNCHANGED <<rowId, rowBody, rowResponse, stale, request, runs, replayed>>

Next ==
  \/ \E p \in Request, k \in Key, b \in Body, i \in Run : Begin(p, k, b, i)
  \/ \E p \in Request :
       ReplayOrReject(p) \/ HandlerReturns(p) \/ Complete(p) \/ Release(p) \/ Crash(p)
  \/ \E k \in Key : BecomesStale(k) \/ Expires(k)
  \/ DeleteExpired

Spec == Init /\ [][Next]_vars

-----------------------------------------------------------------------------
(* Properties *)

\* A replayed response is the answer to that very request: it comes from a run
\* of the handler with the same key and the same body that succeeded, even
\* when keys were taken over, expired or released while runs were under way
\* (Begin, Complete, replayOrReject).
ReplayIsFaithful ==
  \A r \in replayed :
    runKey[r[1]] = r[2] /\ runBody[r[1]] = r[3] /\ outcome[r[1]] = "ok"

\* "Same key while the first request is still running: 409" (Idempotency): two
\* handlers run at the same time for one key only if the one that came first
\* was still running when its row was a minute old (idempotencyStaleAfter).
OneRunAtATime ==
  \A p, q \in Request :
    /\ pc[p] = "running" /\ pc[q] = "running"
    /\ key[p] = key[q] /\ p # q
    => id[p] \in overran \/ id[q] \in overran

\* A request is carried out twice for one key only if the first run was cut off (a replica
\* stopped, before or after the handler took effect), its response was not stored or has
\* expired, or it took more than a minute; a run that answered with an error does not count
\* (Begin, Complete, the deferred Delete).
TwiceOnlyWhenLost ==
  \A i, j \in Run :
    /\ i # j /\ runKey[i] = runKey[j]
    /\ outcome[i] \in {"running", "ok"} /\ outcome[j] \in {"running", "ok"}
    => i \in lost \cup overran \/ j \in lost \cup overran

\* A stored response is kept until it expires: no late completion, release or
\* takeover by another request of the key replaces or removes it, so every
\* retry in the retention time finds it (Begin, Complete, Delete).
ResponseIsKept ==
  [][\A k \in Key : rowResponse[k] # None /\ k \notin expired => rowResponse'[k] = rowResponse[k]]_vars

-----------------------------------------------------------------------------
(***************************************************************************)
(* The inductive invariants behind ReplayIsFaithful and OneRunAtATime.     *)
(***************************************************************************)

\* A row belongs to the run that claimed its key last, and the response stored
\* in it is that run's own
RowsInv ==
  \A k \in Key :
    /\ rowId[k] # None => runKey[rowId[k]] = k /\ runBody[rowId[k]] = rowBody[k]
    /\ rowId[k] # None => outcome[rowId[k]] # "none"
    /\ rowResponse[k] # None => rowResponse[k] = rowId[k] /\ outcome[rowId[k]] = "ok"

\* A request works on the run it claimed the key with
RequestsInv ==
  \A p \in Request :
    /\ pc[p] \in {"idle", "lookup"} => id[p] = None
    /\ pc[p] = "lookup" => key[p] \in Key /\ body[p] \in Body
    /\ pc[p] \in {"running", "complete", "release"} =>
         key[p] \in Key /\ id[p] \in Run /\ runKey[id[p]] = key[p]
    /\ pc[p] = "running" => outcome[id[p]] = "running"
    /\ pc[p] = "complete" => outcome[id[p]] = "ok"
    /\ pc[p] = "release" => outcome[id[p]] \in {"ok", "failed"}

\* No run starts twice
IdsInv ==
  \A p, q \in Request : pc[p] \in {"running", "complete", "release"} /\ id[p] = id[q] => p = q

\* A run that has not overrun keeps its row: it is its own and still in progress
HoldersInv ==
  \A p \in Request : pc[p] \in {"running", "complete", "release"} =>
    /\ \A k \in Key : rowResponse[k] # id[p]
    /\ id[p] \notin overran => /\ rowId[key[p]] = id[p]
                               /\ key[p] \notin stale
                               /\ key[p] \notin expired

ReplayInv == TypeOK /\ RowsInv /\ RequestsInv /\ IdsInv /\ ReplayIsFaithful
RunInv == ReplayInv /\ HoldersInv

\* A run that was not lost and did not overrun has the row of its key: it is under way, or
\* its response is there
KeptInv ==
  \A i \in Run : i \notin lost \cup overran =>
    /\ outcome[i] = "running" => \E p \in Request : pc[p] = "running" /\ id[p] = i
    /\ outcome[i] = "ok" =>
         /\ rowId[runKey[i]] = i /\ runKey[i] \in Key \ expired
         /\ \/ rowResponse[runKey[i]] = i
            \/ \E p \in Request : pc[p] = "complete" /\ id[p] = i
=============================================================================
