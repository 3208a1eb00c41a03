------------------------- MODULE IdempotencyProofs -------------------------
(* Proofs about Idempotency, for any number of keys, bodies and requests,  *)
(* however slow handlers are, with and without faults.                     *)
EXTENDS Idempotency, TLAPS

\* With an empty table and idle requests the invariant holds.
LEMMA InvInit == Init => RunInv
<1> SUFFICES ASSUME Init PROVE RunInv
  OBVIOUS
<1>1. TypeOK
  BY DEF Init, TypeOK, PC, Outcome
<1> QED
  BY <1>1, IdempotencyAssumption DEF Init, RunInv, ReplayInv, RowsInv, RequestsInv, IdsInv, ReplayIsFaithful, HoldersInv

\* Every step keeps the types.
LEMMA TypeNext == TypeOK /\ RequestsInv /\ RowsInv /\ [Next]_vars => TypeOK'
<1> SUFFICES ASSUME TypeOK, RequestsInv, RowsInv, [Next]_vars PROVE TypeOK'
  OBVIOUS
<1> USE DEF TypeOK, table, request, runs, history, Enter, Return, Goto
<1>0. /\ PC = {"idle", "lookup", "running", "complete", "release"}
      /\ Outcome = {"none", "running", "ok", "failed"}
  BY DEF PC, Outcome
<1>1. ASSUME NEW p \in Request, NEW k \in Key, NEW b \in Body, NEW i \in Run, Begin(p, k, b, i)
      PROVE  TypeOK'
  BY <1>0, <1>1 DEF Begin, Upsert
<1>2. ASSUME NEW p \in Request, ReplayOrReject(p) PROVE TypeOK'
  BY <1>0, <1>2 DEF ReplayOrReject, InProgress, RequestsInv
<1>3. ASSUME NEW p \in Request, HandlerReturns(p) PROVE TypeOK'
  BY <1>0, <1>3 DEF HandlerReturns
<1>4. ASSUME NEW p \in Request, Complete(p) PROVE TypeOK'
  BY <1>0, <1>4 DEF Complete, StoreResponse, RequestsInv
<1>5. ASSUME NEW p \in Request, Release(p) PROVE TypeOK'
  BY <1>0, <1>5 DEF Release, DeleteRow, DeleteRows
<1>6. ASSUME NEW p \in Request, Crash(p) PROVE TypeOK'
  BY <1>0, <1>6 DEF Crash
<1>7. ASSUME NEW k \in Key, BecomesStale(k) \/ Expires(k) PROVE TypeOK'
  BY <1>7 DEF BecomesStale, Expires, Exists
<1>8. CASE DeleteExpired
  BY <1>8 DEF DeleteExpired, DeleteRows
<1>9. CASE UNCHANGED vars
  BY <1>9 DEF vars
<1> QED
  BY <1>1, <1>2, <1>3, <1>4, <1>5, <1>6, <1>7, <1>8, <1>9 DEF Next

\* Every step keeps rows, requests and runs together.
LEMMA RunsNext == ReplayInv /\ TypeOK' /\ [Next]_vars => RowsInv' /\ RequestsInv' /\ IdsInv'
<1> DEFINE Goal == RowsInv /\ RequestsInv /\ IdsInv
<1> SUFFICES ASSUME ReplayInv, TypeOK', [Next]_vars PROVE Goal'
  OBVIOUS
<1> USE IdempotencyAssumption
    DEF ReplayInv, TypeOK, RowsInv, RequestsInv, IdsInv, table, request, runs, history, Enter, Return, Goto,
        Exists, InProgress
<1>1. ASSUME NEW p \in Request, NEW k \in Key, NEW b \in Body, NEW i \in Run, Begin(p, k, b, i)
      PROVE  Goal'
  <2>1. CASE Claimable(k) /\ Upsert(k, i, b)
    <3>1. \A k2 \in Key : rowId[k2] # i
      BY <1>1 DEF Begin
    <3>2. \A q \in Request : id[q] # i
      BY <1>1 DEF Begin, PC
    <3>3. RowsInv'
      BY <1>1, <2>1, <3>1 DEF Begin, Upsert
    <3>4. RequestsInv'
      BY <1>1, <2>1, <3>2 DEF Begin
    <3>5. IdsInv'
      BY <1>1, <2>1, <3>2 DEF Begin
    <3> QED
      BY <3>3, <3>4, <3>5
  <2>2. CASE ~Claimable(k)
    BY <1>1, <2>2 DEF Begin
  <2> QED
    BY <1>1, <2>1, <2>2 DEF Begin
<1>2. ASSUME NEW p \in Request, ReplayOrReject(p) PROVE Goal'
  BY <1>2 DEF ReplayOrReject
<1>3. ASSUME NEW p \in Request, HandlerReturns(p) PROVE Goal'
  BY <1>3 DEF HandlerReturns
<1>4. ASSUME NEW p \in Request, Complete(p) PROVE Goal'
  BY <1>4 DEF Complete, StoreResponse
<1>5. ASSUME NEW p \in Request, Release(p) PROVE Goal'
  BY <1>5 DEF Release, DeleteRow, DeleteRows
<1>6. ASSUME NEW p \in Request, Crash(p) PROVE Goal'
  BY <1>6 DEF Crash
<1>7. ASSUME NEW k \in Key, BecomesStale(k) \/ Expires(k) PROVE Goal'
  BY <1>7 DEF BecomesStale, Expires
<1>8. CASE DeleteExpired
  BY <1>8 DEF DeleteExpired, DeleteRows
<1>9. CASE UNCHANGED vars
  BY <1>9 DEF vars
<1> QED
  BY <1>1, <1>2, <1>3, <1>4, <1>5, <1>6, <1>7, <1>8, <1>9 DEF Next

\* What is replayed was right when it was sent, and a finished run stays as it was.
LEMMA FaithfulNext == ReplayInv /\ TypeOK' /\ [Next]_vars => ReplayIsFaithful'
<1> SUFFICES ASSUME ReplayInv, TypeOK', [Next]_vars PROVE ReplayIsFaithful'
  OBVIOUS
<1> USE DEF ReplayInv, TypeOK, ReplayIsFaithful, table, request, runs, history
<1>1. ASSUME NEW p \in Request, NEW k \in Key, NEW b \in Body, NEW i \in Run, Begin(p, k, b, i)
      PROVE  ReplayIsFaithful'
  BY <1>1 DEF Begin
<1>2. ASSUME NEW p \in Request, ReplayOrReject(p) PROVE ReplayIsFaithful'
  <2>1. CASE UNCHANGED replayed
    BY <1>2, <2>1 DEF ReplayOrReject
  <2>2. CASE /\ rowBody[key[p]] = body[p]
             /\ rowResponse[key[p]] # None
             /\ replayed' = replayed \cup {<<rowResponse[key[p]], key[p], body[p]>>}
    <3>1. key[p] \in Key
      BY <1>2 DEF ReplayOrReject, RequestsInv
    <3>2. /\ runKey[rowResponse[key[p]]] = key[p]
          /\ runBody[rowResponse[key[p]]] = body[p]
          /\ outcome[rowResponse[key[p]]] = "ok"
      BY <2>2, <3>1, IdempotencyAssumption DEF RowsInv
    <3> QED
      BY <1>2, <2>2, <3>2 DEF ReplayOrReject
  <2> QED
    BY <1>2, <2>1, <2>2 DEF ReplayOrReject, Exists, InProgress
<1>3. ASSUME NEW p \in Request, HandlerReturns(p) PROVE ReplayIsFaithful'
  BY <1>3 DEF HandlerReturns, RequestsInv
<1>4. ASSUME NEW p \in Request, Complete(p) \/ Release(p) \/ Crash(p) PROVE ReplayIsFaithful'
  BY <1>4 DEF Complete, Release, Crash
<1>5. ASSUME NEW k \in Key, BecomesStale(k) \/ Expires(k) PROVE ReplayIsFaithful'
  BY <1>5 DEF BecomesStale, Expires
<1>6. CASE DeleteExpired
  BY <1>6 DEF DeleteExpired
<1>7. CASE UNCHANGED vars
  BY <1>7 DEF vars
<1> QED
  BY <1>1, <1>2, <1>3, <1>4, <1>5, <1>6, <1>7 DEF Next

\* A request keeps the row it claimed until it is done, or has overrun.
LEMMA HoldersNext == RunInv /\ TypeOK' /\ [Next]_vars => HoldersInv'
<1> SUFFICES ASSUME RunInv, TypeOK', [Next]_vars PROVE HoldersInv'
  OBVIOUS
<1> USE IdempotencyAssumption
    DEF RunInv, ReplayInv, HoldersInv, TypeOK, RequestsInv, IdsInv, table, request, runs, history, Enter,
        Return, Goto, Exists, InProgress
<1>1. ASSUME NEW p \in Request, NEW k \in Key, NEW b \in Body, NEW i \in Run, Begin(p, k, b, i)
      PROVE  HoldersInv'
  <2>1. CASE Claimable(k) /\ Upsert(k, i, b)
    <3>1. \A k2 \in Key : rowResponse[k2] # i
      BY <1>1 DEF Begin, RowsInv
    <3>2. \A q \in Request : pc[q] \in {"running", "complete", "release"} /\ key[q] = k => id[q] \in overran
      BY <1>1, <2>1 DEF Begin, Claimable
    <3>3. pc'[p] = "running" /\ id'[p] = i /\ key'[p] = k
      BY <1>1, <2>1 DEF Begin
    <3>4. ASSUME NEW q \in Request, q # p
          PROVE  pc'[q] = pc[q] /\ id'[q] = id[q] /\ key'[q] = key[q]
      BY <1>1, <2>1, <3>4 DEF Begin
    <3>5. overran' = overran
      BY <1>1 DEF Begin
    <3>6. HoldersInv!(p)'
      BY <2>1, <3>1, <3>3, <3>5 DEF Upsert
    <3>7. ASSUME NEW q \in Request, q # p PROVE HoldersInv!(q)'
      BY <2>1, <3>2, <3>4, <3>5, <3>7 DEF Upsert
    <3> QED
      BY <3>6, <3>7
  <2>2. CASE ~Claimable(k)
    BY <1>1, <2>2 DEF Begin
  <2> QED
    BY <1>1, <2>1, <2>2 DEF Begin
<1>2. ASSUME NEW p \in Request, ReplayOrReject(p) PROVE HoldersInv'
  BY <1>2 DEF ReplayOrReject
<1>3. ASSUME NEW p \in Request, HandlerReturns(p) PROVE HoldersInv'
  BY <1>3 DEF HandlerReturns
<1>4. ASSUME NEW p \in Request, Complete(p) PROVE HoldersInv'
  BY <1>4 DEF Complete, StoreResponse
<1>5. ASSUME NEW p \in Request, Release(p) PROVE HoldersInv'
  BY <1>5 DEF Release, DeleteRow, DeleteRows
<1>6. ASSUME NEW p \in Request, Crash(p) PROVE HoldersInv'
  BY <1>6 DEF Crash
<1>7. ASSUME NEW k \in Key, BecomesStale(k) \/ Expires(k) PROVE HoldersInv'
  BY <1>7 DEF BecomesStale, Expires, UnderWay
<1>8. CASE DeleteExpired
  BY <1>8 DEF DeleteExpired, DeleteRows
<1>9. CASE UNCHANGED vars
  BY <1>9 DEF vars
<1> QED
  BY <1>1, <1>2, <1>3, <1>4, <1>5, <1>6, <1>7, <1>8, <1>9 DEF Next

\* The inductive invariant holds in every reachable state.
THEOREM Invariance == Spec => []RunInv
<1>1. RunInv /\ [Next]_vars => RunInv'
  BY TypeNext, RunsNext, FaithfulNext, HoldersNext DEF RunInv, ReplayInv
<1> QED
  BY <1>1, InvInit, PTL DEF Spec

\* A replayed response always answers that very request, whatever fails, is
\* slow or expires.
THEOREM ReplaysAreFaithful == Spec => []ReplayIsFaithful
<1>1. RunInv => ReplayIsFaithful
  BY DEF RunInv, ReplayInv
<1> QED
  BY <1>1, Invariance, PTL

\* The handler never runs twice at a time for one key unless the first run was
\* still under way when its row came to count as abandoned.
THEOREM RunsExcludeEachOther == Spec => []OneRunAtATime
<1>1. RunInv => OneRunAtATime
  BY DEF RunInv, ReplayInv, HoldersInv, IdsInv, OneRunAtATime
<1> QED
  BY <1>1, Invariance, PTL

\* A run that is neither lost nor overrun keeps the row of its key.
LEMMA KeptInvNext == RunInv /\ TypeOK' /\ KeptInv /\ [Next]_vars => KeptInv'
<1> SUFFICES ASSUME RunInv, TypeOK', KeptInv, [Next]_vars, NEW i \in Run,
                    i \notin lost' \cup overran'
             PROVE  KeptInv!(i)!2'
  BY DEF KeptInv
<1> USE IdempotencyAssumption
    DEF RunInv, ReplayInv, TypeOK, HoldersInv, RowsInv, RequestsInv, IdsInv, table, request, runs, history,
        Enter, Return, Goto, Exists, InProgress
<1>0. i \notin lost \cup overran
  BY DEF Next, vars, Begin, ReplayOrReject, HandlerReturns, Complete, Release, Crash, BecomesStale, Expires,
         DeleteExpired
<1>a. KeptInv!(i)!2
  BY <1>0 DEF KeptInv
<1>1. ASSUME NEW p \in Request, NEW k \in Key, NEW b \in Body, NEW j \in Run, Begin(p, k, b, j)
      PROVE  KeptInv!(i)!2'
  <2>1. CASE Claimable(k) /\ Upsert(k, j, b)
    <3>1. ASSUME i = j PROVE KeptInv!(i)!2'
      BY <1>1, <2>1, <3>1 DEF Begin
    <3>2. ASSUME i # j, outcome[i] = "running" PROVE KeptInv!(i)!2'
      BY <1>1, <1>a, <2>1, <3>2 DEF Begin
    <3>3. ASSUME i # j, outcome[i] = "ok" PROVE KeptInv!(i)!2'
      <4>1. k # runKey[i]
        BY <1>0, <1>a, <2>1, <3>3 DEF Claimable
      <4> QED
        BY <1>1, <1>a, <2>1, <3>3, <4>1 DEF Begin, Upsert
    <3> QED
      BY <1>1, <2>1, <3>1, <3>2, <3>3 DEF Begin
  <2>2. CASE ~Claimable(k)
    BY <1>1, <1>a, <2>2 DEF Begin
  <2> QED
    BY <1>1, <2>1, <2>2 DEF Begin
<1>2. ASSUME NEW p \in Request, ReplayOrReject(p) PROVE KeptInv!(i)!2'
  BY <1>2, <1>a DEF ReplayOrReject
<1>3. ASSUME NEW p \in Request, HandlerReturns(p) PROVE KeptInv!(i)!2'
  BY <1>3, <1>a DEF HandlerReturns
<1>4. ASSUME NEW p \in Request, Complete(p) PROVE KeptInv!(i)!2'
  BY <1>4, <1>a DEF Complete, StoreResponse
<1>5. ASSUME NEW p \in Request, Release(p) PROVE KeptInv!(i)!2'
  BY <1>5, <1>a DEF Release, DeleteRow, DeleteRows
<1>6. ASSUME NEW p \in Request, Crash(p) PROVE KeptInv!(i)!2'
  BY <1>6, <1>a DEF Crash
<1>7. ASSUME NEW k \in Key, BecomesStale(k) \/ Expires(k) PROVE KeptInv!(i)!2'
  BY <1>7, <1>a DEF BecomesStale, Expires
<1>8. CASE DeleteExpired
  BY <1>8, <1>a DEF DeleteExpired, DeleteRows
<1>9. CASE UNCHANGED vars
  BY <1>9, <1>a DEF vars
<1> QED
  BY <1>1, <1>2, <1>3, <1>4, <1>5, <1>6, <1>7, <1>8, <1>9 DEF Next

\* A request is carried out twice for one key only if the first run was cut off, overran, or
\* its response was not stored or has expired.
THEOREM RunsAreNotRepeated == Spec => []TwiceOnlyWhenLost
<1>1. Init => KeptInv
  BY DEF Init, KeptInv
<1>2. RunInv /\ RunInv' /\ KeptInv /\ [Next]_vars => KeptInv'
  BY KeptInvNext DEF RunInv, ReplayInv
<1>3. RunInv /\ KeptInv => TwiceOnlyWhenLost
  <2> SUFFICES ASSUME RunInv, KeptInv, NEW i \in Run, NEW j \in Run, runKey[i] = runKey[j],
                      outcome[i] \in {"running", "ok"}, outcome[j] \in {"running", "ok"},
                      i \notin lost \cup overran, j \notin lost \cup overran
               PROVE  i = j
    BY DEF TwiceOnlyWhenLost
  <2>1. ASSUME NEW n \in Run, n \notin lost \cup overran, outcome[n] \in {"running", "ok"}
        PROVE  rowId[runKey[n]] = n
    BY <2>1 DEF RunInv, ReplayInv, KeptInv, HoldersInv, RequestsInv
  <2> QED
    BY <2>1
<1> QED
  BY <1>1, <1>2, <1>3, Invariance, PTL DEF Spec

\* A step that leaves the retention time aside keeps every stored response.
LEMMA KeptNext ==
  ASSUME RunInv, [Next]_vars, NEW k \in Key, rowResponse[k] # None, k \notin expired
  PROVE  rowResponse'[k] = rowResponse[k]
<1> USE IdempotencyAssumption
    DEF RunInv, ReplayInv, TypeOK, HoldersInv, RowsInv, RequestsInv, table, Exists, InProgress
<1>1. ASSUME NEW p \in Request, NEW k2 \in Key, NEW b \in Body, NEW i \in Run, Begin(p, k2, b, i)
      PROVE  rowResponse'[k] = rowResponse[k]
  BY <1>1 DEF Begin, Upsert, Claimable
<1>2. ASSUME NEW p \in Request, ReplayOrReject(p) \/ HandlerReturns(p) \/ Crash(p)
      PROVE  rowResponse'[k] = rowResponse[k]
  BY <1>2 DEF ReplayOrReject, HandlerReturns, Crash
<1>3. ASSUME NEW p \in Request, Complete(p) PROVE rowResponse'[k] = rowResponse[k]
  BY <1>3 DEF Complete, StoreResponse
<1>4. ASSUME NEW p \in Request, Release(p) PROVE rowResponse'[k] = rowResponse[k]
  BY <1>4 DEF Release, DeleteRow, DeleteRows
<1>5. ASSUME NEW k2 \in Key, BecomesStale(k2) \/ Expires(k2) PROVE rowResponse'[k] = rowResponse[k]
  BY <1>5 DEF BecomesStale, Expires
<1>6. CASE DeleteExpired
  BY <1>6 DEF DeleteExpired, DeleteRows
<1>7. CASE UNCHANGED vars
  BY <1>7 DEF vars
<1> QED
  BY <1>1, <1>2, <1>3, <1>4, <1>5, <1>6, <1>7 DEF Next

\* A stored response is kept until it expires, whatever older requests of the
\* key still do.
THEOREM ResponsesAreKept == Spec => ResponseIsKept
<1>1. RunInv /\ [Next]_vars =>
        [\A k \in Key : rowResponse[k] # None /\ k \notin expired => rowResponse'[k] = rowResponse[k]]_vars
  BY KeptNext
<1> QED
  BY <1>1, Invariance, PTL DEF Spec, ResponseIsKept
=============================================================================
