---------------------------- MODULE SignInProofs ----------------------------
(***************************************************************************)
(* What signing in promises, for any number of users, browsers, sessions,  *)
(* secrets and requests: a second factor counts once, wrong ones are       *)
(* bounded, sessions of a password alone end, codes are consented to, and  *)
(* a suspended user's session leads to none.  SignInInv is shown           *)
(* inductive, part by part: for each part there is a lemma about the steps *)
(* that leave it alone, and the actions that do not are taken one by one.  *)
(***************************************************************************)
EXTENDS SignIn, FiniteSetTheorems, TLAPS

-----------------------------------------------------------------------------
(* Requests and their contexts *)

\* The requests but those of Q do not move
Same(Q) == \A q \in Request \ Q : pc'[q] = pc[q] /\ req'[q] = req[q]

\* A request that carries nothing is a request.
LEMMA NothingFacts == Nothing \in Context
BY SignInAssumption DEF Nothing, Context, AMR

\* The fields of a request have their types.
LEMMA ContextFields ==
  ASSUME NEW r \in Context
  PROVE  /\ r.browser \in Browser \cup {None} /\ r.user \in User \cup {None}
         /\ r.session \in Session \cup {None} /\ r.code \in Code \cup {None} /\ r.amr \in AMR
         /\ r.scope \in SUBSET Scope /\ r.granted \in SUBSET Scope
BY DEF Context

\* What a request knows after a step of it.
LEMMA KnowFacts ==
  ASSUME TypeOK, NEW p \in Request, NEW next \in PC, NEW context \in Context, Know(p, next, context)
  PROVE  /\ pc' \in [Request -> PC] /\ req' \in [Request -> Context]
         /\ pc'[p] = next /\ req'[p] = context /\ Same({p})
BY DEF TypeOK, Know, Same

\* A request that goes on with what it carries, or ends.
LEMMA GotoFacts ==
  ASSUME TypeOK, NEW p \in Request
  PROVE  /\ \A next : Goto(p, next) => Know(p, next, req[p])
         /\ req[p] \in Context
         /\ Return(p) => Know(p, "idle", Nothing)
<1>1. req[p] \in Context /\ req = [req EXCEPT ![p] = req[p]]
  BY DEF TypeOK
<1> QED BY <1>1 DEF Goto, Know, Return

-----------------------------------------------------------------------------
(* Steps that leave a part of the invariant alone *)

\* Requests that do not move keep their form, as tokens of sessions are only added.
LEMMA FormKept ==
  ASSUME FormInv, NEW Q \in SUBSET Request, Same(Q), \A p \in Q : RequestForm(p)', spent \subseteq spent',
         \A b \in Browser : cookie'[b] \in spent' \cup {None}
  PROVE  FormInv'
<1> SUFFICES ASSUME NEW q \in Request, q \notin Q
             PROVE  RequestForm(q)'
  BY DEF FormInv
<1>1. pc'[q] = pc[q] /\ req'[q] = req[q] /\ RequestForm(q)
  BY DEF Same, FormInv
<1> QED BY <1>1 DEF RequestForm

\* Steps that store no consent and issue no code that was not consented to.
LEMMA ConsentKept ==
  ASSUME ConsentInv, NEW Q \in SUBSET Request, Same(Q), consent' = consent, approved' = approved,
         disturbed \subseteq disturbed', \A p \in Q : pc'[p] # "upsertConsent",
         \A p \in Q : pc'[p] = "issueCode" => req'[p].scope \subseteq approved[req'[p].user]
  PROVE  ConsentInv'
<1>1. /\ \A p \in Request : pc'[p] = "upsertConsent" => pc[p] = pc'[p] /\ req'[p] = req[p]
      /\ \A p \in Request : pc'[p] = "issueCode" =>
           \/ pc[p] = pc'[p] /\ req'[p] = req[p]
           \/ req'[p].scope \subseteq approved[req'[p].user]
  BY DEF Same
<1>2. \A p \in Request : pc'[p] = "upsertConsent" => req'[p].granted \subseteq approved'[req'[p].user]
  BY <1>1 DEF ConsentInv
<1>3. CodesConsented'
  BY <1>1 DEF ConsentInv, CodesConsented
<1>4. ASSUME NEW u \in User, Undisturbed(u, "consent")'
      PROVE  /\ consent'[u] = approved'[u]
             /\ \A p, q \in Request : pc'[p] = "upsertConsent" /\ req'[p].user = u =>
                  /\ req'[p].granted = consent'[u]
                  /\ pc'[q] = "upsertConsent" /\ req'[q].user = u => p = q
  <2>1. Undisturbed(u, "consent")
    BY <1>4 DEF Undisturbed
  <2> QED BY <1>1, <2>1 DEF ConsentInv
<1>5. \A u \in User : consent'[u] \subseteq approved'[u]
  BY DEF ConsentInv
<1> QED BY <1>2, <1>3, <1>4, <1>5 DEF ConsentInv

\* Sets of requests are finite.
LEMMA Counts ==
  ASSUME NEW u
  PROVE  /\ IsFiniteSet(Trying(u)) /\ Cardinality(Trying(u)) \in Nat
         /\ Cardinality(Trying(u)) <= Cardinality(Request) /\ Cardinality(Request) \in Nat
         /\ IsFiniteSet(Trying(u)') /\ Cardinality(Trying(u)') \in Nat
         /\ Cardinality(Trying(u)') <= Cardinality(Request)
<1>1. Trying(u) \subseteq Request /\ Trying(u)' \subseteq Request
  BY DEF Trying
<1> QED BY <1>1, FS_Subset, FS_CardinalityType, SignInAssumption

\* A user whose wrong codes are counted as before, or no longer.
LEMMA GuessKept ==
  ASSUME GuessInv, TypeOK, TypeOK', NEW Q \in SUBSET Request, Same(Q),
         \A p \in Q : pc'[p] \in {"useStep", "useRecoveryCode", "recordFailure"} =>
           pc[p] \in {"useStep", "useRecoveryCode", "recordFailure"} /\ req'[p].user = req[p].user,
         \A u \in User :
           \/ guesses'[u] = 0
           \/ /\ guesses'[u] = guesses[u]
              /\ mfa'[u] = None <=> mfa[u] = None
              /\ mfa[u] # None => mfa'[u].failed = mfa[u].failed /\ mfa'[u].locked = mfa[u].locked
  PROVE  GuessInv'
<1> SUFFICES ASSUME NEW u \in User
             PROVE  /\ mfa'[u] = None => guesses'[u] = 0
                    /\ mfa'[u] # None /\ ~mfa'[u].locked =>
                         guesses'[u] <= mfa'[u].failed /\ guesses'[u] < MaxMFAFailures
                    /\ guesses'[u] + Cardinality(Trying(u)') < MaxMFAFailures + Cardinality(Request)
  BY DEF GuessInv
<1>1. Trying(u)' \subseteq Trying(u)
  BY DEF Trying, Same
<1>2. Cardinality(Trying(u)') <= Cardinality(Trying(u))
  BY <1>1, Counts, FS_Subset
<1>3. MaxMFAFailures \in Nat /\ MaxMFAFailures > 0
  BY SignInAssumption
<1>4. /\ guesses[u] \in Nat /\ guesses'[u] \in Nat
      /\ mfa'[u] # None => mfa'[u] \in UserMFA /\ mfa'[u].failed \in 0..MaxMFAFailures
  BY DEF TypeOK, UserMFA
<1>5. /\ mfa[u] = None => guesses[u] = 0
      /\ mfa[u] # None /\ ~mfa[u].locked => guesses[u] <= mfa[u].failed /\ guesses[u] < MaxMFAFailures
      /\ guesses[u] + Cardinality(Trying(u)) < MaxMFAFailures + Cardinality(Request)
  BY DEF GuessInv
<1>6. CASE guesses'[u] = 0
  BY <1>3, <1>4, <1>6, Counts
<1>7. CASE guesses'[u] # 0
  <2>1. /\ guesses'[u] = guesses[u]
        /\ mfa'[u] = None <=> mfa[u] = None
        /\ mfa[u] # None => mfa'[u].failed = mfa[u].failed /\ mfa'[u].locked = mfa[u].locked
    BY <1>7
  <2>2. guesses'[u] + Cardinality(Trying(u)') < MaxMFAFailures + Cardinality(Request)
    BY <1>2, <1>3, <1>4, <1>5, <2>1, Counts
  <2> QED BY <1>5, <2>1, <2>2
<1> QED BY <1>6, <1>7

\* The authenticator of user u stays the same
SameSecret(u) ==
  /\ mfa'[u] = None <=> mfa[u] = None
  /\ mfa[u] # None => mfa'[u].secret = mfa[u].secret /\ mfa'[u].confirmed = mfa[u].confirmed

\* Steps that leave undisturbed authenticators the same.
LEMMA SecretKept ==
  ASSUME SecretInv, NEW Q \in SUBSET Request, Same(Q), disturbed \subseteq disturbed', proven \subseteq proven',
         \A p \in Q : pc'[p] \notin {"useStep", "confirm"}, \A u \in User : SameSecret(u)
  PROVE  SecretInv'
<1> SUFFICES ASSUME NEW u \in User, Undisturbed(u, "mfa")'
             PROVE  /\ \A p \in Request : pc'[p] \in {"useStep", "confirm"} /\ req'[p].user = u =>
                         mfa'[u] # None /\ mfa'[u].secret = req'[p].code.secret
                    /\ \A p \in Request : pc'[p] = "confirm" /\ req'[p].user = u => mfa'[u].secret \in proven'
                    /\ Enabled(u)' => mfa'[u].secret \in proven'
  BY DEF SecretInv
<1>1. Undisturbed(u, "mfa")
  BY DEF Undisturbed
<1>2. \A p \in Request : pc'[p] \in {"useStep", "confirm"} => pc[p] = pc'[p] /\ req'[p] = req[p]
  BY DEF Same
<1>3. SameSecret(u)
  OBVIOUS
<1> QED BY <1>1, <1>2, <1>3 DEF SecretInv, SameSecret, Enabled

\* A user none of whose second factors is accepted or made, and no time step set back.
LEMMA UseFormKept ==
  ASSUME NEW u \in User, UseForm(u), uses'[u] = uses[u], spent \subseteq spent', disturbed \subseteq disturbed',
         recovery'[u] \subseteq recovery[u],
         mfa'[u] = None \/ (SameSecret(u) /\ mfa'[u].lastStep = mfa[u].lastStep)
  PROVE  UseForm(u)'
<1>1. ASSUME Undisturbed(u, "mfa")'
      PROVE  /\ mfa'[u] # None => mfa'[u].secret \in spent'
             /\ \A c \in TOTP :
                  /\ uses'[u][c] <= 1
                  /\ uses'[u][c] # 0 => c.secret \in spent'
                  /\ uses'[u][c] # 0 /\ mfa'[u] # None /\ mfa'[u].secret = c.secret =>
                       mfa'[u].confirmed /\ c.step <= mfa'[u].lastStep
  <2>1. Undisturbed(u, "mfa")
    BY <1>1 DEF Undisturbed
  <2> QED BY <2>1 DEF UseForm, SameSecret
<1>2. recovery'[u] \subseteq spent'
  BY DEF UseForm
<1>3. \A r \in Recovery :
        /\ uses'[u][r] <= 1
        /\ uses'[u][r] # 0 => r \in spent'
        /\ r \in recovery'[u] => uses'[u][r] = 0
  BY DEF UseForm
<1> QED BY <1>1, <1>2, <1>3 DEF UseForm

\* Steps that do so to no user.
LEMMA UseKept ==
  ASSUME UseInv, uses' = uses, spent \subseteq spent', disturbed \subseteq disturbed',
         \A u \in User : recovery'[u] \subseteq recovery[u],
         \A u \in User : mfa'[u] = None \/ (SameSecret(u) /\ mfa'[u].lastStep = mfa[u].lastStep)
  PROVE  UseInv'
BY UseFormKept DEF UseInv

\* Steps that enable no second factor, open no session, and do not end the deletion of any.
LEMMA PasswordKept ==
  ASSUME PasswordInv, NEW Q \in SUBSET Request, Same(Q), disturbed \subseteq disturbed',
         \A u \in User : Enabled(u)' => Enabled(u),
         \A s \in Session : session'[s] \in {session[s], None},
         \A p \in Q : pc[p] # "endSessions",
         \A p \in Q : pc'[p] \in {"endOldSession", "createSession"} =>
           \/ req'[p].amr = "mfa" \/ ~Enabled(req[p].user)'
           \/ pc[p] \in {"endOldSession", "createSession"} /\ req'[p] = req[p]
  PROVE  PasswordInv'
<1> SUFFICES ASSUME NEW u \in User, Enabled(u)', Undisturbed(u, "mfa")'
             PROVE  /\ \A p \in Request : pc'[p] \in {"endOldSession", "createSession"} /\ req'[p].user = u =>
                         req'[p].amr = "mfa"
                    /\ EndingSessions(u)' \/ \A s \in Session :
                         session'[s] # None /\ session'[s].user = u => session'[s].amr = "mfa"
  BY DEF PasswordInv
<1>1. Enabled(u) /\ Undisturbed(u, "mfa")
  BY DEF Undisturbed
<1>2. \A p \in Request : pc'[p] \in {"endOldSession", "createSession"} =>
           \/ req'[p].amr = "mfa" \/ ~Enabled(req[p].user)'
           \/ pc[p] \in {"endOldSession", "createSession"} /\ req'[p] = req[p]
  BY DEF Same
<1>3. EndingSessions(u) => EndingSessions(u)'
  BY DEF EndingSessions, Same
<1>4. \A p \in Request : pc'[p] \in {"endOldSession", "createSession"} /\ req'[p].user = u => req'[p].amr = "mfa"
  BY <1>1, <1>2 DEF PasswordInv, Enabled
<1>5. EndingSessions(u)' \/ \A s \in Session : session'[s] # None /\ session'[s].user = u => session'[s].amr = "mfa"
  BY <1>1, <1>3 DEF PasswordInv
<1> QED BY <1>4, <1>5

\* Steps that change no account's status: the sessions that requests came with stay whose
\* they are, or end.
LEMMA BarredKept ==
  ASSUME BarredInv, FormInv, TypeOK, NEW Q \in SUBSET Request, Same(Q), status' = status,
         barred' \subseteq barred \cup Q, \A p \in Q : p \in barred' => BarredForm(p)',
         \A s \in Session : s \in spent => session'[s] \in {session[s], None}
  PROVE  BarredInv'
<1> SUFFICES ASSUME NEW q \in barred', q \notin Q
             PROVE  BarredForm(q)'
  BY DEF BarredInv
<1>1. q \in Request /\ q \in barred
  BY DEF TypeOK
<1>2. pc'[q] = pc[q] /\ req'[q] = req[q] /\ RequestForm(q) /\ BarredForm(q)
  BY <1>1 DEF Same, FormInv, BarredInv
<1>3. ASSUME pc'[q] = "getSession"
      PROVE  \A u \in SessionUser(req[q].session)' : status'[u] = "suspended"
  <2>1. PICK s \in Session : s = req[q].session
    BY <1>2, <1>3 DEF RequestForm
  <2>2. s \in spent /\ s # None
    BY <1>2, <2>1, SignInAssumption DEF RequestForm
  <2>3. \A u \in SessionUser(s) : status[u] = "suspended"
    BY <1>2, <1>3, <2>1 DEF BarredForm
  <2>4. req'[q].session = s
    BY <1>2, <2>1
  <2>5. \A u \in (IF session'[s] # None THEN {session'[s].user} ELSE {}) : status'[u] = "suspended"
    BY <2>2, <2>3 DEF SessionUser
  <2> QED BY <2>2, <2>4, <2>5 DEF SessionUser
<1> QED BY <1>2, <1>3 DEF BarredForm

-----------------------------------------------------------------------------
(* Steps that change no second factor and no consent *)

\* Request p goes on; of the tables only that of sessions may change, and only by deletions
Moves(p, next, context) ==
  /\ Know(p, next, context)
  /\ status' = status /\ mfa' = mfa /\ recovery' = recovery /\ dated' = dated /\ consent' = consent
  /\ now' = now /\ ops' = ops /\ spent' = spent /\ uses' = uses /\ guesses' = guesses /\ approved' = approved
  /\ session' \in [Session -> SessionRow \cup {None}]
  /\ \A s \in Session : session'[s] \in {session[s], None}
  /\ cookie' \in [Browser -> Session \cup {None}]
  /\ \A b \in Browser : cookie'[b] \in {cookie[b], None}
  /\ pending' \in [Browser -> Pending \cup {None}]
  /\ page' \in [Browser -> SUBSET Scope]
  /\ barred' \subseteq barred \cup {p}
  /\ disturbed \subseteq disturbed' /\ disturbed' \subseteq User \X {"mfa", "consent"}
  /\ proven \subseteq proven' /\ proven' \subseteq Secret

\* What such a step keeps, by the statement it leads to.
LEMMA MoveStep ==
  ASSUME SignInInv, NEW p \in Request, NEW next \in PC, NEW context \in Context, Moves(p, next, context),
         RequestForm(p)', p \in barred' => BarredForm(p)'
  PROVE  /\ pc'[p] = next /\ req'[p] = context /\ Same({p})
         /\ TypeOK' /\ FormInv' /\ UseInv' /\ BarredInv'
         /\ next # "upsertConsent" /\ (next = "issueCode" => context.scope \subseteq approved[context.user]) =>
              ConsentInv'
         /\ next \notin {"useStep", "useRecoveryCode", "recordFailure"} => GuessInv'
         /\ next \notin {"useStep", "confirm"} => SecretInv'
         /\ pc[p] # "endSessions" /\ (\/ next \notin {"endOldSession", "createSession"}
                                      \/ context.amr = "mfa" \/ ~Enabled(context.user)
                                      \/ pc[p] = "endOldSession" /\ context = req[p]) => PasswordInv'
<1>0. TypeOK /\ FormInv /\ ConsentInv /\ GuessInv /\ SecretInv /\ UseInv /\ PasswordInv /\ BarredInv
  BY DEF SignInInv
<1>1. /\ pc' \in [Request -> PC] /\ req' \in [Request -> Context]
      /\ pc'[p] = next /\ req'[p] = context /\ Same({p})
  BY <1>0, KnowFacts DEF Moves
<1>2. TypeOK'
  BY <1>0, <1>1 DEF Moves, TypeOK
<1>3. FormInv'
  <2>1. \A b \in Browser : cookie'[b] \in spent' \cup {None}
    BY <1>0 DEF Moves, FormInv
  <2> QED BY <1>0, <1>1, <2>1, FormKept DEF Moves
<1>4. \A u \in User : SameSecret(u) /\ (Enabled(u)' => Enabled(u))
  BY DEF Moves, SameSecret, Enabled
<1>5. UseInv'
  <2>1. \A u \in User : SameSecret(u) /\ mfa'[u].lastStep = mfa[u].lastStep
    BY <1>4 DEF Moves
  <2> QED BY <1>0, <2>1, UseKept DEF Moves
<1>6. BarredInv'
  BY <1>0, <1>1, BarredKept DEF Moves
<1>7. ASSUME next # "upsertConsent", next = "issueCode" => context.scope \subseteq approved[context.user]
      PROVE  ConsentInv'
  BY <1>0, <1>1, <1>7, ConsentKept DEF Moves
<1>8. ASSUME next \notin {"useStep", "useRecoveryCode", "recordFailure"}
      PROVE  GuessInv'
  <2>1. \A u \in User : /\ guesses'[u] = guesses[u]
                        /\ mfa'[u] = None <=> mfa[u] = None
                        /\ mfa[u] # None => mfa'[u].failed = mfa[u].failed /\ mfa'[u].locked = mfa[u].locked
    BY DEF Moves
  <2> QED BY <1>0, <1>1, <1>2, <1>8, <2>1, GuessKept
<1>9. ASSUME next \notin {"useStep", "confirm"}
      PROVE  SecretInv'
  BY <1>0, <1>1, <1>4, <1>9, SecretKept DEF Moves
<1>10. ASSUME pc[p] # "endSessions", \/ next \notin {"endOldSession", "createSession"}
                                     \/ context.amr = "mfa" \/ ~Enabled(context.user)
                                     \/ pc[p] = "endOldSession" /\ context = req[p]
       PROVE  PasswordInv'
  <2>1. Enabled(req[p].user)' => Enabled(context.user)
    BY <1>1 DEF Moves, Enabled
  <2>2. pc'[p] \in {"endOldSession", "createSession"} =>
           \/ req'[p].amr = "mfa" \/ ~Enabled(req[p].user)'
           \/ pc[p] \in {"endOldSession", "createSession"} /\ req'[p] = req[p]
    BY <1>1, <1>10, <2>1
  <2> QED BY <1>0, <1>1, <1>4, <1>10, <2>2, PasswordKept DEF Moves
<1> QED BY <1>1, <1>2, <1>3, <1>5, <1>6, <1>7, <1>8, <1>9, <1>10

\* The statements that no part but the forms speaks of
Plain ==
  PC \ {"upsertConsent", "issueCode", "useStep", "useRecoveryCode", "recordFailure", "confirm",
        "endOldSession", "createSession"}

\* A step to one of them.
LEMMA PlainStep ==
  ASSUME SignInInv, NEW p \in Request, NEW next \in Plain, NEW context \in Context, Moves(p, next, context),
         pc[p] # "endSessions", RequestForm(p)', p \in barred' => BarredForm(p)'
  PROVE  SignInInv'
<1>1. /\ next \in PC /\ next # "upsertConsent" /\ next # "issueCode"
      /\ next \notin {"useStep", "useRecoveryCode", "recordFailure"}
      /\ next \notin {"useStep", "confirm"} /\ next \notin {"endOldSession", "createSession"}
  BY DEF Plain
<1>2. /\ TypeOK' /\ FormInv' /\ UseInv' /\ BarredInv'
      /\ next # "upsertConsent" /\ (next = "issueCode" => context.scope \subseteq approved[context.user]) =>
           ConsentInv'
      /\ next \notin {"useStep", "useRecoveryCode", "recordFailure"} => GuessInv'
      /\ next \notin {"useStep", "confirm"} => SecretInv'
      /\ pc[p] # "endSessions" /\ (\/ next \notin {"endOldSession", "createSession"}
                                   \/ context.amr = "mfa" \/ ~Enabled(context.user)
                                   \/ pc[p] = "endOldSession" /\ context = req[p]) => PasswordInv'
  BY <1>1, MoveStep, Zenon
<1>3. PasswordInv'
  BY <1>1, <1>2
<1> QED BY <1>1, <1>2, <1>3 DEF SignInInv

\* A request that ends, whatever it was doing.
LEMMA EndStep ==
  ASSUME SignInInv, NEW p \in Request, Moves(p, "idle", Nothing), pc[p] # "endSessions", p \notin barred'
  PROVE  SignInInv'
<1>1. TypeOK /\ "idle" \in Plain
  BY DEF SignInInv, Plain, PC
<1>2. pc'[p] = "idle" /\ req'[p] = Nothing
  BY <1>1, NothingFacts, KnowFacts DEF Moves, Plain
<1>3. RequestForm(p)'
  BY <1>2 DEF RequestForm, Nothing
<1> QED BY <1>1, <1>3, NothingFacts, PlainStep

-----------------------------------------------------------------------------
(* Requests begin *)

\* A request that carries nothing but the user and what the user sent.
LEMMA BeginMoves ==
  ASSUME TypeOK, NEW p \in Request, NEW operation, NEW next \in PC, NEW context \in Context,
         Begin(p, operation, next, context), UNCHANGED <<tables, browser, now>>,
         UNCHANGED <<spent, uses, proven, guesses, approved, disturbed>>, barred' \subseteq barred \cup {p}
  PROVE  Moves(p, next, context) /\ pc[p] = "idle" /\ pc'[p] = next /\ req'[p] = context
<1>1. Know(p, next, context) /\ ops' = ops /\ pc[p] = "idle"
  BY DEF Begin, Know
<1>2. pc'[p] = next /\ req'[p] = context
  BY <1>1, KnowFacts
<1>3. /\ session' = session /\ cookie' = cookie /\ pending' = pending /\ page' = page
      /\ status' = status /\ mfa' = mfa /\ recovery' = recovery /\ dated' = dated /\ consent' = consent
      /\ now' = now
  BY DEF tables, browser
<1>4. Moves(p, next, context)
  BY <1>1, <1>3 DEF Moves, TypeOK
<1> QED BY <1>1, <1>2, <1>4

\* An idle request is not barred.
LEMMA IdleNotBarred ==
  ASSUME SignInInv, NEW p \in Request, pc[p] = "idle"
  PROVE  p \notin barred
BY DEF SignInInv, BarredInv, BarredForm

\* A login arrives.
LEMMA HandleLoginStep ==
  ASSUME SignInInv, NEW p \in Request, NEW b \in Browser, NEW u \in User, NEW purpose \in {"login", "device"},
         NEW scope \in SUBSET Scope, HandleLogin(p, b, u, purpose, scope)
  PROVE  SignInInv'
<1>0. TypeOK /\ FormInv /\ cookie[b] \in (Session \cup {None}) \cap (spent \cup {None})
  BY DEF SignInInv, TypeOK, FormInv
<1> SUFFICES ASSUME NEW context,
                    context = [Nothing EXCEPT !.doing = purpose, !.browser = b, !.user = u,
                                              !.session = cookie[b], !.scope = scope]
             PROVE  SignInInv'
  OBVIOUS
<1>1. /\ context \in Context /\ context.doing = purpose /\ context.browser = b /\ context.user = u
      /\ context.session = cookie[b] /\ context.amr = "pwd"
  BY <1>0, SignInAssumption DEF Nothing, Context, AMR
<1>2. "mfaRequired" \in PC /\ "mfaRequired" \in Plain
  BY DEF PC, Plain
<1>3. /\ Begin(p, purpose, "mfaRequired", context) /\ UNCHANGED <<tables, browser, now>>
      /\ UNCHANGED <<spent, uses, proven, guesses, approved, disturbed>> /\ barred' \subseteq barred \cup {p}
  BY DEF HandleLogin, Arrives
<1>4. Moves(p, "mfaRequired", context) /\ pc[p] = "idle" /\ pc'[p] = "mfaRequired" /\ req'[p] = context
  BY <1>0, <1>1, <1>2, <1>3, BeginMoves
<1>5. RequestForm(p)'
  BY <1>0, <1>1, <1>4 DEF RequestForm, Moves
<1>6. p \in barred' => BarredForm(p)'
  <2>1. p \in barred' => status[u] = "suspended"
    BY <1>4, IdleNotBarred DEF HandleLogin, Arrives
  <2> QED BY <1>1, <1>4, <2>1 DEF BarredForm, Moves
<1> QED BY <1>1, <1>2, <1>4, <1>5, <1>6, PlainStep

\* The MFA form is submitted.
LEMMA CompleteMFAStep ==
  ASSUME SignInInv, NEW p \in Request, NEW b \in Browser, NEW purpose \in {"login", "device"},
         NEW code \in Code \cup {None}, NEW scope \in SUBSET Scope, CompleteMFA(p, b, purpose, code, scope)
  PROVE  SignInInv'
<1>0. TypeOK /\ FormInv /\ cookie[b] \in (Session \cup {None}) \cap (spent \cup {None})
  BY DEF SignInInv, TypeOK, FormInv
<1>1. PICK u \in User : u = pending[b].user
  BY <1>0 DEF CompleteMFA, TypeOK, Pending
<1> SUFFICES ASSUME NEW context,
                    context = [Nothing EXCEPT !.doing = purpose, !.browser = b, !.user = u,
                                 !.session = cookie[b], !.code = code, !.amr = "mfa", !.scope = scope]
             PROVE  SignInInv'
  OBVIOUS
<1>2. /\ context \in Context /\ context.doing = purpose /\ context.browser = b /\ context.user = u
      /\ context.session = cookie[b] /\ context.amr = "mfa"
  BY <1>0, SignInAssumption DEF Nothing, Context, AMR
<1>3. "getUser" \in PC /\ "getUser" \in Plain
  BY DEF PC, Plain
<1>4. /\ Begin(p, purpose, "getUser", context) /\ UNCHANGED <<tables, browser, now>>
      /\ UNCHANGED <<spent, uses, proven, guesses, approved, disturbed>> /\ barred' \subseteq barred \cup {p}
  BY <1>1 DEF CompleteMFA, Arrives
<1>5. Moves(p, "getUser", context) /\ pc[p] = "idle" /\ pc'[p] = "getUser" /\ req'[p] = context
  BY <1>0, <1>2, <1>3, <1>4, BeginMoves
<1>6. RequestForm(p)'
  BY <1>0, <1>2, <1>5 DEF RequestForm, Moves
<1>7. p \in barred' => BarredForm(p)'
  <2>1. p \in barred' => status[u] = "suspended"
    BY <1>1, <1>5, IdleNotBarred DEF CompleteMFA, Arrives
  <2> QED BY <1>2, <1>5, <2>1 DEF BarredForm, Moves
<1> QED BY <1>2, <1>3, <1>5, <1>6, <1>7, PlainStep

\* A request with the cookie of a session.
LEMMA WithSessionStep ==
  ASSUME SignInInv, NEW p \in Request, NEW b \in Browser, NEW doing \in {"authorize", "consent", "logout"},
         NEW scope \in SUBSET Scope, WithSession(p, b, doing, scope)
  PROVE  SignInInv'
<1>0. TypeOK /\ FormInv /\ cookie[b] \in Session /\ cookie[b] \in spent
  BY DEF SignInInv, TypeOK, FormInv, WithSession
<1> SUFFICES ASSUME NEW context,
                    context = [Nothing EXCEPT !.doing = doing, !.browser = b, !.session = cookie[b], !.scope = scope]
             PROVE  SignInInv'
  OBVIOUS
<1>1. /\ context \in Context /\ context.doing = doing /\ context.browser = b
      /\ context.session = cookie[b]
  BY <1>0, SignInAssumption DEF Nothing, Context, AMR
<1>2. "getSession" \in PC /\ "getSession" \in Plain
  BY DEF PC, Plain
<1>3. /\ Begin(p, doing, "getSession", context) /\ UNCHANGED <<tables, browser, now>>
      /\ UNCHANGED <<spent, uses, proven, guesses, approved, disturbed>> /\ barred' \subseteq barred \cup {p}
  BY DEF WithSession
<1>4. Moves(p, "getSession", context) /\ pc[p] = "idle" /\ pc'[p] = "getSession" /\ req'[p] = context
  BY <1>0, <1>1, <1>2, <1>3, BeginMoves
<1>5. RequestForm(p)'
  BY <1>0, <1>1, <1>4 DEF RequestForm, Moves
<1>6. ASSUME p \in barred'
      PROVE  BarredForm(p)'
  <2>1. \E u \in SessionUser(cookie[b]) : status[u] = "suspended"
    BY <1>4, <1>6, IdleNotBarred DEF WithSession
  <2>2. \A u \in SessionUser(cookie[b]) : status[u] = "suspended"
    BY <2>1 DEF SessionUser
  <2>3. session' = session /\ status' = status
    BY <1>3 DEF tables
  <2>4. req'[p].session = cookie[b] /\ pc'[p] = "getSession"
    BY <1>1, <1>4
  <2>5. \A u \in SessionUser(req[p].session)' : status'[u] = "suspended"
    BY <2>2, <2>3, <2>4 DEF SessionUser
  <2> QED BY <2>4, <2>5 DEF BarredForm
<1> QED BY <1>1, <1>2, <1>4, <1>5, <1>6, PlainStep

\* A request about a user's second factor.
LEMMA AboutMFAStep ==
  ASSUME SignInInv, NEW p \in Request, NEW u \in User, NEW operation, NEW code \in Code \cup {None},
         NEW doing \in {"confirm", "disable", "reset", "regenerate"},
         NEW next \in {"checkEnrollment", "getSettings", "getMFA"},
         next = "getSettings" => doing \in {"disable", "regenerate"},
         AboutMFA(p, u, operation, doing, next, code)
  PROVE  SignInInv'
<1>0. TypeOK
  BY DEF SignInInv
<1> SUFFICES ASSUME NEW context, context = [Nothing EXCEPT !.doing = doing, !.user = u, !.code = code]
             PROVE  SignInInv'
  OBVIOUS
<1>1. context \in Context /\ context.doing = doing /\ context.user = u /\ context.session = None
  BY SignInAssumption DEF Nothing, Context, AMR
<1>2. next \in PC /\ next \in Plain
  BY DEF PC, Plain
<1>3. /\ Begin(p, operation, next, context) /\ UNCHANGED <<tables, browser, now>>
      /\ UNCHANGED <<spent, uses, proven, guesses, approved, disturbed>> /\ barred' = barred
  BY DEF AboutMFA, history
<1>4. Moves(p, next, context) /\ pc[p] = "idle" /\ pc'[p] = next /\ req'[p] = context
  BY <1>0, <1>1, <1>2, <1>3, BeginMoves
<1>5. RequestForm(p)'
  BY <1>1, <1>4 DEF RequestForm
<1>6. p \notin barred'
  BY <1>3, <1>4, IdleNotBarred
<1> QED BY <1>1, <1>2, <1>4, <1>5, <1>6, PlainStep

-----------------------------------------------------------------------------
(* Statements that read, and the sessions that they end *)

\* A statement that changes nothing but where its request is.
LEMMA QuietMoves ==
  ASSUME TypeOK, NEW p \in Request, NEW next, NEW context, Know(p, next, context),
         UNCHANGED <<tables, browser, now, ops>>, UNCHANGED <<spent, uses, proven, guesses, approved, disturbed>>,
         barred' \subseteq barred
  PROVE  Moves(p, next, context)
<1>1. /\ session' = session /\ cookie' = cookie /\ pending' = pending /\ page' = page
      /\ status' = status /\ mfa' = mfa /\ recovery' = recovery /\ dated' = dated /\ consent' = consent
      /\ now' = now /\ ops' = ops
  BY DEF tables, browser
<1> QED BY <1>1 DEF Moves, TypeOK

\* One that ends its request.
LEMMA QuietEnd ==
  ASSUME SignInInv, NEW p \in Request, Return(p), Answered(p), pc[p] # "endSessions",
         UNCHANGED <<tables, browser, now, ops>>, UNCHANGED <<spent, uses, proven, guesses, approved, disturbed>>
  PROVE  SignInInv'
<1>1. TypeOK /\ Know(p, "idle", Nothing) /\ barred' \subseteq barred /\ p \notin barred'
  BY GotoFacts DEF SignInInv, Answered
<1> QED BY <1>1, QuietMoves, EndStep

\* What the parts say of a request between its statements.
LEMMA AtStatement ==
  ASSUME SignInInv, NEW p \in Request
  PROVE  /\ TypeOK /\ RequestForm(p) /\ req[p] \in Context /\ (p \in barred => BarredForm(p))
         /\ pc[p] \notin {"idle", "getSession"} => req[p].user \in User
BY GotoFacts DEF SignInInv, FormInv, BarredInv, RequestForm

\* With a second factor the login stops at the form; without one no factor is needed.
LEMMA MfaRequiredStep ==
  ASSUME SignInInv, NEW p \in Request, MfaRequired(p)
  PROVE  SignInInv'
<1>0. /\ pc[p] = "mfaRequired" /\ ops' = ops /\ TypeOK /\ RequestForm(p) /\ req[p] \in Context
      /\ req[p].user \in User /\ (p \in barred => BarredForm(p))
  BY AtStatement DEF MfaRequired, At
<1>1. req[p].doing \in {"login", "device"} /\ req[p].amr = "pwd" /\ req[p].browser \in Browser
  BY <1>0 DEF RequestForm
<1>2. CASE Enabled(req[p].user)
  <2>1. /\ pending' = [pending EXCEPT ![req[p].browser] = [user |-> req[p].user, purpose |-> req[p].doing]]
        /\ Return(p) /\ Answered(p)
        /\ UNCHANGED <<tables, cookie, page, now, spent, uses, proven, guesses, approved, disturbed>>
    BY <1>0, <1>2 DEF MfaRequired
  <2>2. [user |-> req[p].user, purpose |-> req[p].doing] \in Pending
    BY <1>0, <1>1 DEF Pending
  <2>3. pending' \in [Browser -> Pending \cup {None}]
    BY <1>0, <2>1, <2>2 DEF TypeOK
  <2>4. Know(p, "idle", Nothing) /\ p \notin barred' /\ barred' \subseteq barred
    BY <2>1 DEF Return, Answered
  <2>5. Moves(p, "idle", Nothing)
    BY <1>0, <2>1, <2>3, <2>4 DEF Moves, TypeOK, tables
  <2> QED BY <1>0, <2>4, <2>5, EndStep
<1>3. CASE ~Enabled(req[p].user)
  <2> SUFFICES ASSUME NEW next, next = Passed(req[p].doing)
               PROVE  SignInInv'
    OBVIOUS
  <2>1. next = IF req[p].doing = "login" THEN "endOldSession" ELSE "decideDevice"
    BY <1>1 DEF Passed
  <2>2. /\ Goto(p, next) /\ barred' = barred /\ UNCHANGED <<tables, browser, now, ops>>
        /\ UNCHANGED <<spent, uses, proven, guesses, approved, disturbed>>
    BY <1>0, <1>3 DEF MfaRequired, browser
  <2>3. next \in PC /\ Know(p, next, req[p])
    BY <1>0, <2>1, <2>2, GotoFacts DEF PC
  <2>4. Moves(p, next, req[p])
    BY <1>0, <2>2, <2>3, QuietMoves
  <2>5. pc'[p] = next /\ req'[p] = req[p] /\ status' = status /\ spent' = spent
    BY <1>0, <2>3, <2>4, KnowFacts DEF Moves
  <2>6. RequestForm(p)'
    BY <1>0, <1>1, <2>1, <2>5 DEF RequestForm
  <2>7. p \in barred' => BarredForm(p)'
    BY <1>0, <1>1, <2>1, <2>2, <2>5 DEF BarredForm
  <2>8. /\ TypeOK' /\ FormInv' /\ UseInv' /\ BarredInv' /\ ConsentInv' /\ GuessInv' /\ SecretInv' /\ PasswordInv'
    BY <1>0, <1>3, <2>1, <2>3, <2>4, <2>6, <2>7, MoveStep
  <2> QED BY <2>8 DEF SignInInv
<1> QED BY <1>2, <1>3

\* The account is looked at again after the password step.
LEMMA GetUserStep ==
  ASSUME SignInInv, NEW p \in Request, GetUser(p)
  PROVE  SignInInv'
<1>0. /\ pc[p] = "getUser" /\ ops' = ops /\ TypeOK /\ RequestForm(p) /\ req[p] \in Context
      /\ req[p].user \in User /\ (p \in barred => BarredForm(p))
  BY AtStatement DEF GetUser, At
<1>1. /\ UNCHANGED <<tables, browser, now, ops>>
      /\ UNCHANGED <<spent, uses, proven, guesses, approved, disturbed>>
  BY <1>0 DEF GetUser
<1>2. CASE status[req[p].user] # "active"
  BY <1>0, <1>1, <1>2, QuietEnd DEF GetUser
<1>3. CASE status[req[p].user] = "active"
  <2>1. Know(p, "getSettings", req[p]) /\ barred' = barred
    BY <1>0, <1>3, GotoFacts DEF GetUser
  <2>2. Moves(p, "getSettings", req[p]) /\ "getSettings" \in PC /\ "getSettings" \in Plain
    BY <1>0, <1>1, <2>1, QuietMoves DEF PC, Plain
  <2>3. pc'[p] = "getSettings" /\ req'[p] = req[p]
    BY <1>0, <2>1, <2>2, KnowFacts
  <2>4. RequestForm(p)'
    BY <1>0, <1>1, <2>3 DEF RequestForm
  <2>5. p \notin barred'
    BY <1>0, <1>3, <2>1 DEF BarredForm
  <2> QED BY <1>0, <2>2, <2>4, <2>5, PlainStep
<1> QED BY <1>2, <1>3

\* The decision on a device code, and the code itself, end their request.
LEMMA IssueStep ==
  ASSUME SignInInv, NEW p \in Request, IssueAuthorizationCode(p) \/ ApplyDeviceDecision(p)
  PROVE  SignInInv'
<1>1. /\ pc[p] # "endSessions" /\ Return(p) /\ Answered(p) /\ UNCHANGED <<tables, browser, now, ops>>
      /\ UNCHANGED <<spent, uses, proven, guesses, approved, disturbed>>
  BY DEF IssueAuthorizationCode, ApplyDeviceDecision, At
<1> QED BY <1>1, QuietEnd

\* Steps of the requests about a second factor that only look.
LEMMA LooksStep ==
  ASSUME SignInInv, NEW p \in Request, GetMFA(p) \/ IsEnabled(p)
  PROVE  SignInInv'
<1>0. /\ pc[p] \in {"getMFA", "isEnabled"} /\ ops' = ops /\ TypeOK /\ RequestForm(p) /\ req[p] \in Context
      /\ req[p].user \in User /\ p \notin barred
  BY AtStatement DEF GetMFA, IsEnabled, At, BarredForm
<1>1. /\ UNCHANGED <<tables, browser, now, ops>> /\ barred' = barred
      /\ UNCHANGED <<spent, uses, proven, guesses, approved, disturbed>>
  BY <1>0 DEF GetMFA, IsEnabled, history
<1>2. CASE Return(p)
  BY <1>0, <1>1, <1>2, QuietEnd DEF Answered
<1>3. ASSUME NEW next \in {"deleteMFA", "replaceCodes"}, Goto(p, next)
      PROVE  SignInInv'
  <2>1. Know(p, next, req[p]) /\ next \in PC /\ next \in Plain
    BY <1>0, <1>3, GotoFacts DEF PC, Plain
  <2>2. Moves(p, next, req[p])
    BY <1>0, <1>1, <2>1, QuietMoves
  <2>3. pc'[p] = next /\ req'[p] = req[p] /\ spent' = spent
    BY <1>0, <2>1, <2>2, KnowFacts DEF Moves
  <2>4. RequestForm(p)'
    BY <1>0, <2>3 DEF RequestForm
  <2> QED BY <1>0, <1>1, <2>1, <2>2, <2>4, PlainStep
<1> QED BY <1>2, <1>3 DEF GetMFA, IsEnabled

\* A code is checked while its user is not locked: who passes may count one more failure.
LEMMA VerifyStep ==
  ASSUME SignInInv, NEW p \in Request, Verify(p)
  PROVE  SignInInv'
<1>0. /\ pc[p] = "getSettings" /\ ops' = ops /\ TypeOK /\ RequestForm(p) /\ req[p] \in Context
      /\ req[p].user \in User /\ p \notin barred
  BY AtStatement DEF Verify, At, BarredForm
<1>1. /\ UNCHANGED <<tables, browser, now, ops>>
      /\ UNCHANGED <<spent, uses, proven, guesses, approved, disturbed>>
  BY <1>0 DEF Verify
<1> SUFFICES ASSUME NEW u \in User, u = req[p].user
             PROVE  SignInInv'
  BY <1>0
<1>2. CASE ~Enabled(u) \/ mfa[u].locked
  <2>1. Return(p) /\ Answered(p)
    BY <1>2 DEF Verify
  <2> QED BY <1>0, <1>1, <2>1, QuietEnd
<1>3. CASE Enabled(u) /\ ~mfa[u].locked
  <2> SUFFICES ASSUME NEW next,
                      next = CASE Verifies(req[p].code, mfa[u].secret) -> "useStep"
                               [] req[p].code \in Recovery -> "useRecoveryCode"
                               [] OTHER -> "recordFailure"
               PROVE  SignInInv'
    OBVIOUS
  <2>1. /\ next \in {"useStep", "useRecoveryCode", "recordFailure"} /\ next \in PC
        /\ next = "useStep" => Verifies(req[p].code, mfa[u].secret)
        /\ next = "useRecoveryCode" => req[p].code \in Recovery
    <3>1. CASE Verifies(req[p].code, mfa[u].secret)
      <4>1. req[p].code \notin Recovery
        BY <3>1, CodeAssumption DEF Verifies
      <4> QED BY <3>1, <4>1 DEF PC
    <3>2. CASE ~Verifies(req[p].code, mfa[u].secret)
      BY <3>2 DEF PC
    <3> QED BY <3>1, <3>2
  <2>2. Goto(p, next) /\ barred' = barred
    BY <1>3 DEF Verify
  <2>3. Know(p, next, req[p])
    BY <1>0, <2>2, GotoFacts
  <2>4. Moves(p, next, req[p])
    BY <1>0, <1>1, <2>2, <2>3, QuietMoves
  <2>5. pc'[p] = next /\ req'[p] = req[p] /\ Same({p})
    BY <1>0, <2>1, <2>3, KnowFacts
  <2>6. RequestForm(p)'
    BY <1>0, <1>1, <2>1, <2>5 DEF RequestForm, Verifies
  <2>7. TypeOK' /\ FormInv' /\ UseInv' /\ BarredInv' /\ ConsentInv' /\ PasswordInv'
    <3>1. next # "upsertConsent" /\ next # "issueCode" /\ next \notin {"endOldSession", "createSession"}
      BY <2>1
    <3> QED BY <1>0, <2>1, <2>2, <2>4, <2>6, <3>1, MoveStep
  <2>8. mfa' = mfa /\ guesses' = guesses /\ disturbed' = disturbed /\ proven' = proven
    BY <2>4, <1>1 DEF Moves
  <2>9. GuessInv'
    <3> SUFFICES ASSUME NEW v \in User
                 PROVE  guesses[v] + Cardinality(Trying(v)') < MaxMFAFailures + Cardinality(Request)
      BY <2>8 DEF SignInInv, GuessInv
    <3>1. /\ mfa[v] # None /\ ~mfa[v].locked => guesses[v] < MaxMFAFailures
          /\ guesses[v] + Cardinality(Trying(v)) < MaxMFAFailures + Cardinality(Request)
          /\ guesses[v] \in Nat /\ MaxMFAFailures \in Nat
      BY SignInAssumption DEF SignInInv, GuessInv, TypeOK
    <3>2. CASE v = u
      BY <1>3, <3>1, <3>2, Counts DEF Enabled
    <3>3. CASE v # u
      <4>1. Trying(v)' \subseteq Trying(v)
        BY <2>5, <3>3 DEF Trying, Same
      <4>2. Cardinality(Trying(v)') <= Cardinality(Trying(v))
        BY <4>1, Counts, FS_Subset
      <4> QED BY <3>1, <4>2, Counts
    <3> QED BY <3>2, <3>3
  <2>10. SecretInv'
    <3> SUFFICES ASSUME NEW v \in User, Undisturbed(v, "mfa")
                 PROVE  /\ \A q \in Request : pc'[q] \in {"useStep", "confirm"} /\ req'[q].user = v =>
                             mfa[v] # None /\ mfa[v].secret = req'[q].code.secret
                        /\ \A q \in Request : pc'[q] = "confirm" /\ req'[q].user = v => mfa[v].secret \in proven
                        /\ Enabled(v) => mfa[v].secret \in proven
      BY <2>8 DEF SecretInv, Undisturbed, Enabled
    <3>1. /\ \A q \in Request : pc[q] \in {"useStep", "confirm"} /\ req[q].user = v =>
               mfa[v] # None /\ mfa[v].secret = req[q].code.secret
          /\ \A q \in Request : pc[q] = "confirm" /\ req[q].user = v => mfa[v].secret \in proven
          /\ Enabled(v) => mfa[v].secret \in proven
      BY DEF SignInInv, SecretInv
    <3>2. pc'[p] = "useStep" /\ req'[p].user = v => mfa[v] # None /\ mfa[v].secret = req'[p].code.secret
      BY <1>3, <2>1, <2>5 DEF Verifies, Enabled
    <3>3. \A q \in Request \ {p} : pc'[q] = pc[q] /\ req'[q] = req[q]
      BY <2>5 DEF Same
    <3> QED BY <2>1, <2>5, <3>1, <3>2, <3>3
  <2> QED BY <2>7, <2>9, <2>10 DEF SignInInv
<1> QED BY <1>2, <1>3

\* The browser's old session is discarded.
LEMMA EndOldSessionStep ==
  ASSUME SignInInv, NEW p \in Request, EndOldSession(p)
  PROVE  SignInInv'
<1>0. /\ pc[p] = "endOldSession" /\ ops' = ops /\ TypeOK /\ RequestForm(p) /\ req[p] \in Context
      /\ req[p].user \in User /\ (p \in barred => BarredForm(p))
  BY AtStatement DEF EndOldSession, At
<1>1. /\ status' = status /\ mfa' = mfa /\ recovery' = recovery /\ dated' = dated /\ consent' = consent
      /\ cookie' = cookie /\ pending' = pending /\ page' = page /\ now' = now
      /\ spent' = spent /\ uses' = uses /\ proven' = proven /\ guesses' = guesses /\ approved' = approved
      /\ barred' = barred /\ disturbed' = disturbed
  BY DEF EndOldSession, browser, history
<1>2. session' \in [Session -> SessionRow \cup {None}] /\ \A s \in Session : session'[s] \in {session[s], None}
  BY <1>0 DEF EndOldSession, DeleteByTokenHash, TypeOK
<1>3. Know(p, "createSession", req[p]) /\ "createSession" \in PC
  BY <1>0, GotoFacts DEF EndOldSession, PC
<1>4. Moves(p, "createSession", req[p])
  BY <1>0, <1>1, <1>2, <1>3 DEF Moves, TypeOK
<1>5. pc'[p] = "createSession" /\ req'[p] = req[p]
  BY <1>0, <1>3, KnowFacts
<1>6. RequestForm(p)' /\ (p \in barred' => BarredForm(p)')
  BY <1>0, <1>1, <1>5 DEF RequestForm, BarredForm
<1>7. TypeOK' /\ FormInv' /\ UseInv' /\ BarredInv' /\ ConsentInv' /\ GuessInv' /\ SecretInv' /\ PasswordInv'
  BY <1>0, <1>3, <1>4, <1>6, MoveStep
<1> QED BY <1>7 DEF SignInInv

\* The code, where the user consented, or the consent page.
LEMMA ContinueStep ==
  ASSUME SignInInv, NEW p \in Request, ContinueAuthorization(p)
  PROVE  SignInInv'
<1>0. /\ pc[p] = "hasConsent" /\ ops' = ops /\ TypeOK /\ RequestForm(p) /\ req[p] \in Context
      /\ req[p].user \in User /\ (p \in barred => BarredForm(p))
  BY AtStatement DEF ContinueAuthorization, At
<1>1. /\ UNCHANGED <<tables, cookie, pending, now, ops>>
      /\ UNCHANGED <<spent, uses, proven, guesses, approved, disturbed>>
  BY <1>0 DEF ContinueAuthorization
<1>2. CASE /\ HasConsent(req[p].user, req[p].scope)
           /\ Goto(p, "issueCode")
           /\ UNCHANGED <<page, barred>>
  <2>1. Know(p, "issueCode", req[p]) /\ "issueCode" \in PC /\ UNCHANGED <<tables, browser, now, ops>>
    BY <1>0, <1>1, <1>2, GotoFacts DEF PC, browser
  <2>2. Moves(p, "issueCode", req[p])
    BY <1>0, <1>1, <1>2, <2>1, QuietMoves
  <2>3. pc'[p] = "issueCode" /\ req'[p] = req[p]
    BY <1>0, <2>1, KnowFacts
  <2>4. RequestForm(p)' /\ (p \in barred' => BarredForm(p)')
    <3>1. status' = status /\ spent' = spent
      BY <2>2 DEF Moves
    <3> QED BY <1>0, <1>2, <2>3, <3>1 DEF RequestForm, BarredForm
  <2>5. req[p].scope \subseteq approved[req[p].user]
    BY <1>0, <1>2 DEF HasConsent, SignInInv, ConsentInv
  <2>6. TypeOK' /\ FormInv' /\ UseInv' /\ BarredInv' /\ ConsentInv' /\ GuessInv' /\ SecretInv' /\ PasswordInv'
    BY <1>0, <2>1, <2>2, <2>4, <2>5, MoveStep
  <2> QED BY <2>6 DEF SignInInv
<1>3. CASE /\ page' = [page EXCEPT ![req[p].browser] = req[p].scope]
           /\ Return(p) /\ Answered(p)
  <2>1. page' \in [Browser -> SUBSET Scope]
    BY <1>0, <1>3, ContextFields DEF TypeOK
  <2>2. Know(p, "idle", Nothing) /\ p \notin barred' /\ barred' \subseteq barred
    BY <1>3 DEF Return, Answered
  <2>3. Moves(p, "idle", Nothing)
    BY <1>0, <1>1, <2>1, <2>2 DEF Moves, TypeOK, tables
  <2> QED BY <1>0, <2>2, <2>3, EndStep
<1> QED BY <1>2, <1>3 DEF ContinueAuthorization

\* A session is deleted, and the cookie with it at logout.
LEMMA SessionEnds ==
  ASSUME SignInInv, NEW p \in Request, pc[p] \in {"getSession", "endSession"}, ops' = ops, NoSession(p),
         UNCHANGED <<status, mfa, recovery, dated, consent, pending, page, now>>,
         UNCHANGED <<spent, uses, proven, guesses, approved, disturbed>>,
         session' = session \/ DeleteByTokenHash(req[p].session)
  PROVE  SignInInv'
<1>0. TypeOK
  BY AtStatement
<1>1. session' \in [Session -> SessionRow \cup {None}] /\ \A s \in Session : session'[s] \in {session[s], None}
  BY <1>0 DEF DeleteByTokenHash, TypeOK
<1>2. cookie' \in [Browser -> Session \cup {None}] /\ \A b \in Browser : cookie'[b] \in {cookie[b], None}
  BY <1>0 DEF NoSession, TypeOK
<1>3. Know(p, "idle", Nothing) /\ p \notin barred' /\ barred' \subseteq barred
  BY DEF NoSession, Return, Answered
<1>4. Moves(p, "idle", Nothing)
  BY <1>0, <1>1, <1>2, <1>3 DEF Moves, TypeOK
<1> QED BY <1>3, <1>4, EndStep

\* The session behind the cookie is looked up, and deleted where it has expired or is to end.
LEMMA GetSessionStep ==
  ASSUME SignInInv, NEW p \in Request, GetSession(p) \/ EndSession(p)
  PROVE  SignInInv'
<1>0. /\ pc[p] \in {"getSession", "endSession"} /\ ops' = ops /\ TypeOK /\ RequestForm(p) /\ req[p] \in Context
      /\ (p \in barred => BarredForm(p)) /\ req[p].session \in Session /\ req[p].session # None
      /\ UNCHANGED <<status, mfa, recovery, dated, consent, pending, page, now>>
      /\ UNCHANGED <<spent, uses, proven, guesses, approved, disturbed>>
  BY AtStatement, SignInAssumption DEF GetSession, EndSession, At, RequestForm
<1>1. CASE NoSession(p) /\ (session' = session \/ DeleteByTokenHash(req[p].session))
  BY <1>0, <1>1, SessionEnds
<1> SUFFICES ASSUME NEW s \in Session, s = req[p].session, pc[p] = "getSession",
                    session[s] # None, UNCHANGED <<session, cookie, barred>>,
                    Know(p, "getSessionUser", [req[p] EXCEPT !.user = session[s].user, !.amr = session[s].amr])
             PROVE  SignInInv'
  BY <1>0, <1>1 DEF GetSession, EndSession, At
<1> SUFFICES ASSUME NEW context,
                    context = [req[p] EXCEPT !.user = session[s].user, !.amr = session[s].amr]
             PROVE  SignInInv'
  OBVIOUS
<1>2. session[s].user \in User /\ session[s].amr \in AMR
  BY <1>0 DEF TypeOK, SessionRow
<1>3. /\ context \in Context /\ context.user = session[s].user /\ context.doing = req[p].doing
      /\ context.session = s /\ context.browser = req[p].browser
  BY <1>0, <1>2 DEF Context
<1>4. Know(p, "getSessionUser", context) /\ "getSessionUser" \in PC /\ "getSessionUser" \in Plain
  BY DEF PC, Plain
<1>5. UNCHANGED <<tables, browser, now, ops>> /\ barred' = barred
  BY <1>0 DEF tables, browser
<1>6. Moves(p, "getSessionUser", context)
  BY <1>0, <1>4, <1>5, QuietMoves
<1>7. pc'[p] = "getSessionUser" /\ req'[p] = context
  BY <1>0, <1>4 DEF Know, TypeOK
<1>8. RequestForm(p)'
  BY <1>0, <1>2, <1>3, <1>7 DEF RequestForm
<1>9. p \in barred' => BarredForm(p)'
  <2>1. p \in barred => status[session[s].user] = "suspended"
    BY <1>0 DEF BarredForm, SessionUser
  <2> QED BY <1>0, <1>3, <1>5, <1>7, <2>1 DEF BarredForm
<1> QED BY <1>3, <1>4, <1>6, <1>8, <1>9, PlainStep

\* currentSession turns away a suspended user.
LEMMA GetSessionUserStep ==
  ASSUME SignInInv, NEW p \in Request, GetSessionUser(p)
  PROVE  SignInInv'
<1>0. /\ pc[p] = "getSessionUser" /\ ops' = ops /\ TypeOK /\ RequestForm(p) /\ req[p] \in Context
      /\ req[p].user \in User /\ (p \in barred => BarredForm(p))
  BY AtStatement DEF GetSessionUser, At
<1>1. /\ UNCHANGED <<tables, browser, now, ops>>
      /\ UNCHANGED <<spent, uses, proven, guesses, approved, disturbed>>
  BY <1>0 DEF GetSessionUser
<1>2. CASE Return(p) /\ Answered(p)
  BY <1>0, <1>1, <1>2, QuietEnd
<1> SUFFICES ASSUME NEW next, Goto(p, next), barred' = barred,
                    next = IF ~SessionUserOK(req[p].user) \/ req[p].doing = "logout" THEN "endSession"
                           ELSE IF req[p].doing = "authorize" THEN "hasConsent" ELSE "getConsent"
             PROVE  SignInInv'
  BY <1>2 DEF GetSessionUser
<1>3. req[p].doing \in {"authorize", "consent", "logout"} /\ next \in {"endSession", "hasConsent", "getConsent"}
  BY <1>0 DEF RequestForm
<1>4. next \in PC /\ next \in Plain /\ Know(p, next, req[p])
  BY <1>0, <1>3, GotoFacts DEF PC, Plain
<1>5. Moves(p, next, req[p])
  BY <1>0, <1>1, <1>4, QuietMoves
<1>6. pc'[p] = next /\ req'[p] = req[p]
  BY <1>0, <1>4, KnowFacts
<1>7. status' = status /\ spent' = spent
  BY <1>5 DEF Moves
<1>8. RequestForm(p)'
  BY <1>0, <1>3, <1>6, <1>7 DEF RequestForm
<1>9. p \in barred' => BarredForm(p)'
  <2>1. p \in barred => next = "endSession"
    BY <1>0 DEF BarredForm, SessionUserOK
  <2> QED BY <1>0, <1>6, <1>7, <2>1 DEF BarredForm
<1> QED BY <1>0, <1>4, <1>5, <1>8, <1>9, PlainStep

\* Other consents of the user under way make the copy that is read here unreliable.
LEMMA GetConsentStep ==
  ASSUME SignInInv, NEW p \in Request, GetConsent(p)
  PROVE  SignInInv'
<1>0. /\ pc[p] = "getConsent" /\ ops' = ops /\ TypeOK /\ RequestForm(p) /\ req[p] \in Context
      /\ req[p].user \in User /\ p \notin barred
  BY AtStatement DEF GetConsent, At, BarredForm
<1>1. UNCHANGED <<tables, browser, now, ops>> /\ UNCHANGED <<spent, uses, proven, guesses, approved, barred>>
  BY <1>0 DEF GetConsent
<1> SUFFICES ASSUME NEW u \in User, u = req[p].user
             PROVE  SignInInv'
  BY <1>0
<1>2. PICK context \in Context :
        /\ context.granted = consent[u] /\ context.user = u /\ context.doing = req[p].doing
        /\ context.session = req[p].session /\ context.browser = req[p].browser
        /\ Know(p, "upsertConsent", context)
  <2>1. Know(p, "upsertConsent", [req[p] EXCEPT !.granted = consent[u]])
    BY DEF GetConsent
  <2>2. consent[u] \in SUBSET Scope
    BY <1>0 DEF TypeOK
  <2> SUFFICES ASSUME NEW context, context = [req[p] EXCEPT !.granted = consent[u]]
               PROVE  /\ context \in Context /\ context.granted = consent[u] /\ context.user = u
                      /\ context.doing = req[p].doing
                      /\ context.session = req[p].session /\ context.browser = req[p].browser
    BY <2>1
  <2> QED BY <1>0, <2>2 DEF Context
<1>3. Know(p, "upsertConsent", context) /\ "upsertConsent" \in PC
  BY <1>2 DEF PC
<1>4. /\ disturbed \subseteq disturbed' /\ disturbed' \subseteq User \X {"mfa", "consent"}
      /\ (\E q \in Others(p, u) : pc[q] = "upsertConsent") => <<u, "consent">> \in disturbed'
  BY <1>0 DEF GetConsent, TypeOK
<1>5. Moves(p, "upsertConsent", context)
  BY <1>0, <1>1, <1>3, <1>4 DEF Moves, TypeOK, tables, browser
<1>6. pc'[p] = "upsertConsent" /\ req'[p] = context /\ Same({p})
  BY <1>0, <1>2, <1>3, KnowFacts
<1>7. RequestForm(p)' /\ p \notin barred'
  BY <1>0, <1>1, <1>2, <1>6 DEF RequestForm
<1>8. TypeOK' /\ FormInv' /\ UseInv' /\ BarredInv' /\ GuessInv' /\ SecretInv' /\ PasswordInv'
  <2>1. /\ TypeOK' /\ FormInv' /\ UseInv' /\ BarredInv' /\ GuessInv' /\ SecretInv'
        /\ pc[p] # "endSessions" /\ (\/ "upsertConsent" \notin {"endOldSession", "createSession"}
                                     \/ context.amr = "mfa" \/ ~Enabled(context.user)
                                     \/ pc[p] = "endOldSession" /\ context = req[p]) => PasswordInv'
    BY <1>3, <1>5, <1>7, MoveStep
  <2> QED BY <1>0, <2>1
<1>9. ConsentInv'
  <2>0. ConsentInv /\ consent' = consent /\ approved' = approved
    BY <1>5 DEF SignInInv, Moves
  <2>1. \A q \in Request \ {p} : pc'[q] = pc[q] /\ req'[q] = req[q]
    BY <1>6 DEF Same
  <2>2. \A q \in Request : pc'[q] = "upsertConsent" => req'[q].granted \subseteq approved'[req'[q].user]
    <3>1. req'[p].granted \subseteq approved'[req'[p].user]
      BY <1>2, <1>6, <2>0 DEF ConsentInv
    <3> QED BY <2>0, <2>1, <3>1 DEF ConsentInv
  <2>3. CodesConsented'
    BY <1>6, <2>0, <2>1 DEF ConsentInv, CodesConsented
  <2>4. ASSUME NEW v \in User, Undisturbed(v, "consent")'
        PROVE  /\ consent'[v] = approved'[v]
               /\ \A q, r \in Request : pc'[q] = "upsertConsent" /\ req'[q].user = v =>
                    /\ req'[q].granted = consent'[v]
                    /\ pc'[r] = "upsertConsent" /\ req'[r].user = v => q = r
    <3>1. Undisturbed(v, "consent")
      BY <1>4, <2>4 DEF Undisturbed
    <3>2. /\ consent[v] = approved[v]
          /\ \A q, r \in Request : pc[q] = "upsertConsent" /\ req[q].user = v =>
               /\ req[q].granted = consent[v]
               /\ pc[r] = "upsertConsent" /\ req[r].user = v => q = r
      BY <2>0, <3>1 DEF ConsentInv
    <3>3. v = u => \A q \in Request \ {p} : ~(pc[q] = "upsertConsent" /\ req[q].user = v)
      BY <1>4, <2>4 DEF Others, Undisturbed
    <3>4. req'[p].user = u /\ req'[p].granted = consent[u]
      BY <1>2, <1>6
    <3> QED BY <2>0, <2>1, <3>2, <3>3, <3>4
  <2>5. \A v \in User : consent'[v] \subseteq approved'[v]
    BY <2>0 DEF ConsentInv
  <2> QED BY <2>2, <2>3, <2>4, <2>5 DEF ConsentInv
<1> QED BY <1>8, <1>9 DEF SignInInv

\* A code of the stored secret proves the enrollment.
LEMMA CheckEnrollmentStep ==
  ASSUME SignInInv, NEW p \in Request, CheckEnrollment(p)
  PROVE  SignInInv'
<1>0. /\ pc[p] = "checkEnrollment" /\ ops' = ops /\ TypeOK /\ RequestForm(p) /\ req[p] \in Context
      /\ req[p].user \in User /\ p \notin barred
  BY AtStatement DEF CheckEnrollment, At, BarredForm
<1>1. UNCHANGED <<tables, browser, now, ops>> /\ UNCHANGED <<spent, uses, guesses, approved, barred, disturbed>>
  BY <1>0 DEF CheckEnrollment
<1> SUFFICES ASSUME NEW u \in User, u = req[p].user
             PROVE  SignInInv'
  BY <1>0
<1>2. CASE Return(p) /\ UNCHANGED proven
  <2>1. Answered(p)
    BY <1>0, <1>1 DEF Answered
  <2> QED BY <1>0, <1>1, <1>2, <2>1, QuietEnd
<1>3. CASE /\ mfa[u] # None /\ Verifies(req[p].code, mfa[u].secret)
           /\ Goto(p, "confirm")
           /\ proven' = proven \cup {mfa[u].secret}
  <2>1. Know(p, "confirm", req[p]) /\ "confirm" \in PC
    BY <1>0, <1>3, GotoFacts DEF PC
  <2>2. mfa[u].secret \in Secret
    BY <1>0, <1>3 DEF TypeOK, UserMFA
  <2>3. Moves(p, "confirm", req[p])
    BY <1>0, <1>1, <1>3, <2>1, <2>2 DEF Moves, TypeOK, tables, browser
  <2>4. pc'[p] = "confirm" /\ req'[p] = req[p] /\ Same({p})
    BY <1>0, <2>1, KnowFacts
  <2>5. RequestForm(p)' /\ p \notin barred'
    BY <1>0, <1>1, <1>3, <2>4 DEF RequestForm, Verifies
  <2>6. TypeOK' /\ FormInv' /\ UseInv' /\ BarredInv' /\ ConsentInv' /\ GuessInv' /\ PasswordInv'
    BY <1>0, <2>1, <2>3, <2>5, MoveStep
  <2>7. SecretInv'
    <3>0. mfa' = mfa
      BY <2>3 DEF Moves
    <3> SUFFICES ASSUME NEW v \in User, Undisturbed(v, "mfa")
                 PROVE  /\ \A q \in Request : pc'[q] \in {"useStep", "confirm"} /\ req'[q].user = v =>
                             mfa[v] # None /\ mfa[v].secret = req'[q].code.secret
                        /\ \A q \in Request : pc'[q] = "confirm" /\ req'[q].user = v => mfa[v].secret \in proven'
                        /\ Enabled(v) => mfa[v].secret \in proven'
      BY <1>1, <3>0 DEF SecretInv, Undisturbed, Enabled
    <3>1. /\ \A q \in Request : pc[q] \in {"useStep", "confirm"} /\ req[q].user = v =>
               mfa[v] # None /\ mfa[v].secret = req[q].code.secret
          /\ \A q \in Request : pc[q] = "confirm" /\ req[q].user = v => mfa[v].secret \in proven
          /\ Enabled(v) => mfa[v].secret \in proven
      BY DEF SignInInv, SecretInv
    <3>2. req'[p].user = v => mfa[v] # None /\ mfa[v].secret = req'[p].code.secret /\ mfa[v].secret \in proven'
      BY <1>3, <2>4 DEF Verifies
    <3>3. \A q \in Request \ {p} : pc'[q] = pc[q] /\ req'[q] = req[q]
      BY <2>4 DEF Same
    <3> QED BY <1>3, <3>1, <3>2, <3>3
  <2> QED BY <2>6, <2>7 DEF SignInInv
<1> QED BY <1>2, <1>3 DEF CheckEnrollment

\* Deleting the sessions, or failing to: in the latter case the user counts as disturbed.
LEMMA EndSessionsStep ==
  ASSUME SignInInv, NEW p \in Request, EndSessions(p) \/ (Abort(p) /\ pc[p] = "endSessions")
  PROVE  SignInInv'
<1>0. /\ pc[p] = "endSessions" /\ ops' = ops /\ TypeOK /\ RequestForm(p) /\ req[p] \in Context
      /\ req[p].user \in User /\ p \notin barred
  BY AtStatement DEF EndSessions, Abort, At, BarredForm
<1>1. /\ status' = status /\ mfa' = mfa /\ recovery' = recovery /\ dated' = dated /\ consent' = consent
      /\ cookie' = cookie /\ pending' = pending /\ page' = page /\ now' = now
      /\ spent' = spent /\ uses' = uses /\ proven' = proven /\ guesses' = guesses /\ approved' = approved
      /\ barred' \subseteq barred /\ Return(p)
  BY DEF EndSessions, Abort, Answered, browser, history, tables
<1> SUFFICES ASSUME NEW u \in User, u = req[p].user
             PROVE  SignInInv'
  BY <1>0
<1>2. session' \in [Session -> SessionRow \cup {None}] /\ \A s \in Session : session'[s] \in {session[s], None}
  BY <1>0 DEF EndSessions, EndedSessions, DeleteByUserID, Abort, tables, TypeOK
<1>3. disturbed \subseteq disturbed' /\ disturbed' \subseteq User \X {"mfa", "consent"}
  BY <1>0 DEF EndSessions, Abort, history, TypeOK
<1>4. \/ <<u, "mfa">> \in disturbed'
      \/ \A s \in Session : session'[s] # None => session'[s].user # u
  BY <1>0 DEF EndSessions, EndedSessions, DeleteByUserID, Abort
<1>5. Know(p, "idle", Nothing) /\ "idle" \in PC /\ Nothing \in Context
  BY <1>1, NothingFacts DEF Return, PC
<1>6. Moves(p, "idle", Nothing)
  BY <1>0, <1>1, <1>2, <1>3, <1>5 DEF Moves, TypeOK
<1>7. pc'[p] = "idle" /\ req'[p] = Nothing /\ Same({p})
  BY <1>0, <1>5, KnowFacts
<1>8. RequestForm(p)' /\ p \notin barred'
  BY <1>0, <1>1, <1>7 DEF RequestForm, Nothing
<1>9. TypeOK' /\ FormInv' /\ UseInv' /\ BarredInv' /\ ConsentInv' /\ GuessInv' /\ SecretInv'
  BY <1>5, <1>6, <1>8, MoveStep
<1>10. PasswordInv'
  <2> SUFFICES ASSUME NEW v \in User, Enabled(v), Undisturbed(v, "mfa")'
               PROVE  /\ \A q \in Request : pc'[q] \in {"endOldSession", "createSession"} /\ req'[q].user = v =>
                           req'[q].amr = "mfa"
                      /\ EndingSessions(v)' \/ \A s \in Session :
                           session'[s] # None /\ session'[s].user = v => session'[s].amr = "mfa"
    BY <1>1 DEF PasswordInv, Enabled
  <2>1. \A q \in Request \ {p} : pc'[q] = pc[q] /\ req'[q] = req[q]
    BY <1>7 DEF Same
  <2>2. Undisturbed(v, "mfa")
    BY <1>3 DEF Undisturbed
  <2>3. /\ \A q \in Request : pc[q] \in {"endOldSession", "createSession"} /\ req[q].user = v => req[q].amr = "mfa"
        /\ EndingSessions(v) \/ \A s \in Session : session[s] # None /\ session[s].user = v => session[s].amr = "mfa"
    BY <2>2 DEF SignInInv, PasswordInv
  <2>4. \A q \in Request : pc'[q] \in {"endOldSession", "createSession"} /\ req'[q].user = v => req'[q].amr = "mfa"
    BY <1>7, <2>1, <2>3
  <2>5. CASE v = u
    BY <1>4, <2>4, <2>5 DEF Undisturbed
  <2>6. CASE v # u
    <3>1. EndingSessions(v) => EndingSessions(v)'
      BY <2>1, <2>6 DEF EndingSessions
    <3> QED BY <1>2, <2>3, <2>4, <3>1
  <2> QED BY <2>5, <2>6
<1> QED BY <1>9, <1>10 DEF SignInInv

\* A request that fails anywhere else just ends.
LEMMA AbortStep ==
  ASSUME SignInInv, NEW p \in Request, Abort(p)
  PROVE  SignInInv'
<1>1. CASE pc[p] = "endSessions"
  BY <1>1, EndSessionsStep
<1>2. CASE pc[p] # "endSessions"
  <2>1. /\ Return(p) /\ Answered(p) /\ UNCHANGED <<tables, browser, now, ops>>
        /\ UNCHANGED <<spent, uses, proven, guesses, approved, disturbed>>
    BY <1>2 DEF Abort
  <2> QED BY <1>2, <2>1, QuietEnd
<1> QED BY <1>1, <1>2

-----------------------------------------------------------------------------
(* Statements that change a second factor *)

\* A row whose count is cleared is one of the same authenticator,
LEMMA ClearedFacts ==
  ASSUME NEW row \in UserMFA, NEW step \in 0..MaxStep
  PROVE  /\ Cleared(row, step) \in UserMFA /\ Cleared(row, step) # None
         /\ Cleared(row, step).secret = row.secret /\ Cleared(row, step).confirmed = row.confirmed
         /\ Cleared(row, step).lastStep = step
         /\ Cleared(row, step).failed = 0 /\ Cleared(row, step).locked = FALSE
<1>0. 0 \in 0..MaxMFAFailures
  BY SignInAssumption
<1>1. Cleared(row, step) \in UserMFA
  BY <1>0 DEF Cleared, UserMFA
<1>2. Cleared(row, step) # None
  BY <1>1, RowAssumption
<1> QED BY <1>1, <1>2 DEF Cleared, UserMFA

\* and so is one that is confirmed,
LEMMA ConfirmedFacts ==
  ASSUME NEW row \in UserMFA, NEW step \in 0..MaxStep
  PROVE  /\ Confirmed(row, step) \in UserMFA /\ Confirmed(row, step) # None
         /\ Confirmed(row, step).secret = row.secret /\ Confirmed(row, step).confirmed = TRUE
         /\ Confirmed(row, step).lastStep = step
<1> SUFFICES ASSUME NEW cleared \in UserMFA, cleared = Cleared(row, step)
             PROVE  /\ Confirmed(row, step) \in UserMFA /\ Confirmed(row, step) # None
                    /\ Confirmed(row, step).secret = row.secret /\ Confirmed(row, step).confirmed = TRUE
                    /\ Confirmed(row, step).lastStep = step
  BY ClearedFacts
<1>1. cleared.secret = row.secret /\ cleared.lastStep = step
  BY ClearedFacts
<1>2. Confirmed(row, step) = [cleared EXCEPT !.confirmed = TRUE]
  BY DEF Confirmed
<1>3. Confirmed(row, step) \in UserMFA
  BY <1>2 DEF UserMFA
<1>4. Confirmed(row, step) # None
  BY <1>3, RowAssumption
<1> QED BY <1>1, <1>2, <1>3, <1>4 DEF UserMFA

\* or counted up, which leaves the lock open only below the limit.
LEMMA FailedFacts ==
  ASSUME NEW row \in UserMFA
  PROVE  /\ Failed(row) \in UserMFA /\ Failed(row) # None
         /\ Failed(row).secret = row.secret /\ Failed(row).confirmed = row.confirmed
         /\ Failed(row).lastStep = row.lastStep
         /\ ~Failed(row).locked => ~row.locked /\ row.failed + 1 < MaxMFAFailures /\ Failed(row).failed = row.failed + 1
<1>0. row.failed \in 0..MaxMFAFailures /\ MaxMFAFailures \in Nat /\ row.locked \in BOOLEAN
  BY SignInAssumption DEF UserMFA
<1>1. (IF row.failed < MaxMFAFailures THEN row.failed + 1 ELSE row.failed) \in 0..MaxMFAFailures
  BY <1>0
<1>2. (row.locked \/ row.failed + 1 >= MaxMFAFailures) \in BOOLEAN
  OBVIOUS
<1>3. Failed(row) \in UserMFA
  BY <1>1, <1>2 DEF Failed, UserMFA
<1>4. /\ Failed(row).secret = row.secret /\ Failed(row).confirmed = row.confirmed
      /\ Failed(row).lastStep = row.lastStep
  BY DEF Failed, UserMFA
<1>5. /\ Failed(row).failed = IF row.failed < MaxMFAFailures THEN row.failed + 1 ELSE row.failed
      /\ Failed(row).locked = (row.locked \/ row.failed + 1 >= MaxMFAFailures)
  BY DEF Failed, UserMFA
<1>6. ~Failed(row).locked => ~row.locked /\ row.failed + 1 < MaxMFAFailures /\ Failed(row).failed = row.failed + 1
  <2>1. ~Failed(row).locked => ~(row.locked \/ row.failed + 1 >= MaxMFAFailures)
    BY <1>5, Zenon
  <2> QED BY <1>0, <1>5, <2>1
<1>7. Failed(row) # None
  BY <1>3, RowAssumption
<1> QED BY <1>3, <1>4, <1>6, <1>7

\* A code is counted for its user and no other is.
LEMMA AcceptFacts ==
  ASSUME TypeOK, NEW u \in User, NEW code \in Code, Accept(u, code)
  PROVE  /\ uses' \in [User -> [Code -> Nat]] /\ \A v \in User \ {u} : uses'[v] = uses[v]
         /\ uses'[u][code] = uses[u][code] + 1 /\ \A c \in Code \ {code} : uses'[u][c] = uses[u][c]
<1>1. PICK old \in [Code -> Nat] : old = uses[u]
  BY DEF TypeOK
<1>2. PICK new : new = [old EXCEPT ![code] = @ + 1]
  OBVIOUS
<1>3. new \in [Code -> Nat] /\ new[code] = old[code] + 1 /\ \A c \in Code \ {code} : new[c] = old[c]
  BY <1>2
<1>4. uses' = [uses EXCEPT ![u] = new]
  BY <1>1, <1>2 DEF Accept
<1>5. uses \in [User -> [Code -> Nat]]
  BY DEF TypeOK
<1>6. uses'[u] = new /\ uses' \in [User -> [Code -> Nat]] /\ \A v \in User \ {u} : uses'[v] = uses[v]
  BY <1>3, <1>4, <1>5
<1> QED BY <1>1, <1>3, <1>6

\* A request that forgets the code that it brought.
LEMMA ForgetFacts ==
  ASSUME NEW r \in Context, NEW context, context = [r EXCEPT !.code = None]
  PROVE  /\ context \in Context /\ context.doing = r.doing /\ context.user = r.user /\ context.amr = r.amr
         /\ context.session = r.session /\ context.browser = r.browser
BY DEF Context

\* A wrong code is about to be counted.
LEMMA WrongCodeStep ==
  ASSUME SignInInv, NEW p \in Request, pc[p] \in {"useStep", "useRecoveryCode"},
         Know(p, "recordFailure", [req[p] EXCEPT !.code = None]),
         UNCHANGED <<tables, browser, now, ops>>, UNCHANGED <<spent, uses, proven, guesses, approved, disturbed>>,
         barred' = barred
  PROVE  SignInInv'
<1>0. TypeOK /\ RequestForm(p) /\ req[p] \in Context /\ req[p].user \in User /\ p \notin barred
  BY AtStatement DEF BarredForm
<1>1. PICK context : context = [req[p] EXCEPT !.code = None]
  OBVIOUS
<1>2. /\ context \in Context /\ context.doing = req[p].doing /\ context.user = req[p].user
      /\ context.session = req[p].session /\ context.browser = req[p].browser
  BY <1>0, <1>1, ForgetFacts
<1>3. Know(p, "recordFailure", context) /\ "recordFailure" \in PC
  BY <1>1 DEF PC
<1>4. Moves(p, "recordFailure", context)
  BY <1>0, <1>3, QuietMoves
<1>5. pc'[p] = "recordFailure" /\ req'[p] = context /\ Same({p})
  BY <1>0, <1>2, <1>3, KnowFacts
<1>6. RequestForm(p)' /\ p \notin barred'
  BY <1>0, <1>2, <1>5 DEF RequestForm
<1>7. TypeOK' /\ FormInv' /\ UseInv' /\ BarredInv' /\ ConsentInv' /\ SecretInv' /\ PasswordInv'
  <2>1. pc[p] # "endSessions" /\ "recordFailure" \notin {"endOldSession", "createSession"}
    OBVIOUS
  <2> QED BY <1>2, <1>3, <1>4, <1>6, <2>1, MoveStep
<1>8. GuessInv'
  <2>1. \A u \in User : /\ guesses'[u] = guesses[u]
                        /\ mfa'[u] = None <=> mfa[u] = None
                        /\ mfa[u] # None => mfa'[u].failed = mfa[u].failed /\ mfa'[u].locked = mfa[u].locked
    BY <1>4 DEF Moves
  <2>2. req'[p].user = req[p].user /\ GuessInv
    BY <1>2, <1>5 DEF SignInInv
  <2> QED BY <1>0, <1>5, <1>7, <2>1, <2>2, GuessKept
<1> QED BY <1>7, <1>8 DEF SignInInv

\* A second factor is accepted: the authenticator stays, the count is cleared, and the request
\* goes on as one of two factors.
LEMMA PassedStep ==
  ASSUME SignInInv, NEW p \in Request, pc[p] \in {"useStep", "useRecoveryCode"}, NEW u \in User, u = req[p].user,
         Know(p, Passed(req[p].doing), [req[p] EXCEPT !.code = None]),
         mfa' \in [User -> UserMFA \cup {None}], \A v \in User \ {u} : mfa'[v] = mfa[v], SameSecret(u),
         guesses' = [guesses EXCEPT ![u] = 0], recovery' \in [User -> SUBSET Recovery],
         uses' \in [User -> [Code -> Nat]], UseInv',
         UNCHANGED <<status, session, dated, consent, browser, now, ops>>,
         UNCHANGED <<spent, proven, approved, barred, disturbed>>
  PROVE  SignInInv'
<1>0. /\ TypeOK /\ RequestForm(p) /\ req[p] \in Context /\ p \notin barred
      /\ FormInv /\ ConsentInv /\ GuessInv /\ SecretInv /\ PasswordInv /\ BarredInv
  BY AtStatement DEF BarredForm, SignInInv
<1>1. PICK context : context = [req[p] EXCEPT !.code = None]
  OBVIOUS
<1>2. /\ context \in Context /\ context.doing = req[p].doing /\ context.user = u /\ context.amr = req[p].amr
      /\ context.session = req[p].session /\ context.browser = req[p].browser
  BY <1>0, <1>1, ForgetFacts
<1>3. req[p].doing \in {"login", "device", "disable", "regenerate"} /\ (req[p].doing = "login" => req[p].amr = "mfa")
  BY <1>0 DEF RequestForm
<1>4. PICK next : next = Passed(req[p].doing)
  OBVIOUS
<1>5. /\ next \in {"endOldSession", "decideDevice", "getMFA", "isEnabled"}
      /\ next = "endOldSession" <=> req[p].doing = "login"
  BY <1>3, <1>4 DEF Passed
<1>6. Know(p, next, context) /\ next \in PC
  BY <1>1, <1>4, <1>5 DEF PC
<1>7. /\ pc' \in [Request -> PC] /\ req' \in [Request -> Context]
      /\ pc'[p] = next /\ req'[p] = context /\ Same({p})
  BY <1>0, <1>2, <1>6, KnowFacts
<1>8. /\ status' = status /\ session' = session /\ dated' = dated /\ consent' = consent /\ cookie' = cookie
      /\ pending' = pending /\ page' = page /\ now' = now /\ ops' = ops
  BY DEF browser
<1>9. guesses' \in [User -> Nat] /\ guesses'[u] = 0 /\ \A v \in User \ {u} : guesses'[v] = guesses[v]
  BY <1>0 DEF TypeOK
<1>10. TypeOK'
  BY <1>0, <1>7, <1>8, <1>9 DEF TypeOK
<1>11. RequestForm(p)'
  BY <1>0, <1>2, <1>3, <1>5, <1>7 DEF RequestForm
<1>12. FormInv'
  <2>1. \A b \in Browser : cookie'[b] \in spent' \cup {None}
    BY <1>0, <1>8 DEF FormInv
  <2> QED BY <1>0, <1>7, <1>11, <2>1, FormKept
<1>13. ConsentInv'
  BY <1>0, <1>5, <1>7, <1>8, ConsentKept
<1>14. GuessInv'
  <2>1. pc'[p] \notin {"useStep", "useRecoveryCode", "recordFailure"}
    BY <1>5, <1>7
  <2> QED BY <1>0, <1>7, <1>9, <1>10, <2>1, GuessKept
<1>15. \A v \in User : SameSecret(v) /\ (Enabled(v)' => Enabled(v))
  <2>1. \A v \in User : SameSecret(v)
    BY DEF SameSecret
  <2> QED BY <2>1 DEF SameSecret, Enabled
<1>16. SecretInv'
  BY <1>0, <1>5, <1>7, <1>15, SecretKept
<1>17. PasswordInv'
  <2>1. pc'[p] \in {"endOldSession", "createSession"} => req'[p].amr = "mfa"
    BY <1>2, <1>3, <1>5, <1>7
  <2> QED BY <1>0, <1>7, <1>8, <1>15, <2>1, PasswordKept
<1>18. BarredInv'
  BY <1>0, <1>7, <1>8, BarredKept
<1> QED BY <1>10, <1>12, <1>13, <1>14, <1>16, <1>17, <1>18 DEF SignInInv

\* Accepting a code of a time step that was not used.
LEMMA UseStepStep ==
  ASSUME SignInInv, NEW p \in Request, UseStep(p)
  PROVE  SignInInv'
<1>0. /\ pc[p] = "useStep" /\ ops' = ops /\ TypeOK /\ RequestForm(p) /\ req[p].user \in User
      /\ UNCHANGED <<status, recovery, session, dated, consent, browser, now, spent, proven, approved, barred, disturbed>>
  BY AtStatement DEF UseStep, At
<1> SUFFICES ASSUME NEW u \in User, u = req[p].user, NEW code \in TOTP, code = req[p].code
             PROVE  SignInInv'
  BY <1>0 DEF RequestForm
<1>1. CASE ~MayUseStep(u, code.step)
  <2>1. Know(p, "recordFailure", [req[p] EXCEPT !.code = None]) /\ UNCHANGED <<mfa, uses, guesses>>
    BY <1>1 DEF UseStep
  <2> QED BY <1>0, <2>1, WrongCodeStep DEF tables
<1>2. CASE MayUseStep(u, code.step)
  <2>1. /\ mfa' = [mfa EXCEPT ![u] = Cleared(@, code.step)]
        /\ uses' = [uses EXCEPT ![u][code] = @ + 1]
        /\ guesses' = [guesses EXCEPT ![u] = 0]
        /\ Know(p, Passed(req[p].doing), [req[p] EXCEPT !.code = None])
    BY <1>2 DEF UseStep, Accept
  <2>2. /\ mfa[u] # None /\ mfa[u] \in UserMFA /\ mfa[u].confirmed /\ mfa[u].lastStep < code.step
        /\ code.step \in 0..MaxStep /\ mfa[u].lastStep \in Nat /\ code.secret \in Secret /\ code.step \in Nat
    BY <1>0, <1>2, SignInAssumption DEF MayUseStep, TypeOK, UserMFA, TOTP, Step
  <2>10. PICK old \in UserMFA, step \in 0..MaxStep : old = mfa[u] /\ step = code.step
    BY <2>2
  <2>11. /\ Cleared(old, step) \in UserMFA /\ Cleared(old, step) # None
         /\ Cleared(old, step).secret = old.secret /\ Cleared(old, step).confirmed = old.confirmed
         /\ Cleared(old, step).lastStep = step
    BY ClearedFacts
  <2> SUFFICES ASSUME NEW row \in UserMFA, row = Cleared(mfa[u], code.step), row # None
               PROVE  SignInInv'
    BY <2>10, <2>11
  <2>3. row.secret = mfa[u].secret /\ row.confirmed = mfa[u].confirmed /\ row.lastStep = code.step
    BY <2>10, <2>11
  <2>4. mfa' \in [User -> UserMFA \cup {None}] /\ mfa'[u] = row /\ \A v \in User \ {u} : mfa'[v] = mfa[v]
    BY <1>0, <2>1 DEF TypeOK
  <2>5. SameSecret(u) /\ \A v \in User \ {u} : SameSecret(v) /\ mfa'[v].lastStep = mfa[v].lastStep
    BY <2>2, <2>3, <2>4 DEF SameSecret
  <2>6. /\ uses' \in [User -> [Code -> Nat]] /\ \A v \in User \ {u} : uses'[v] = uses[v]
        /\ uses'[u][code] = uses[u][code] + 1 /\ \A c \in Code \ {code} : uses'[u][c] = uses[u][c]
    <3>1. code \in Code /\ Accept(u, code)
      BY <2>1 DEF Code, Accept
    <3> QED BY <1>0, <3>1, AcceptFacts
  <2>7. UseForm(u)'
    <3>0. UseForm(u) /\ spent' = spent /\ disturbed' = disturbed /\ recovery' = recovery
      BY <1>0 DEF SignInInv, UseInv
    <3>1. \A r \in Recovery : r \in Code /\ r # code
      BY CodeAssumption DEF Code
    <3>2. ASSUME Undisturbed(u, "mfa")
          PROVE  \A c \in TOTP :
                   /\ uses'[u][c] <= 1
                   /\ uses'[u][c] # 0 => c.secret \in spent
                   /\ uses'[u][c] # 0 /\ row.secret = c.secret => row.confirmed /\ c.step <= row.lastStep
      <4>1. mfa[u].secret = code.secret /\ mfa[u].secret \in spent
        BY <1>0, <2>2, <3>0, <3>2 DEF SignInInv, SecretInv, UseForm
      <4>2. uses[u][code] = 0
        <5>1. uses[u][code] # 0 => code.step <= mfa[u].lastStep
          BY <2>2, <3>0, <3>2, <4>1 DEF UseForm
        <5> QED BY <2>2, <5>1
      <4> TAKE c \in TOTP
      <4>3. /\ uses[u][c] <= 1
            /\ uses[u][c] # 0 => c.secret \in spent
            /\ uses[u][c] # 0 /\ mfa[u].secret = c.secret => c.step <= mfa[u].lastStep
        BY <2>2, <3>0, <3>2 DEF UseForm
      <4>4. c \in Code /\ c.step \in Nat
        BY SignInAssumption DEF Code, TOTP, Step
      <4>5. row.confirmed /\ (c.step <= mfa[u].lastStep => c.step <= row.lastStep)
        BY <2>2, <2>3, <4>4
      <4>6. CASE c = code
        <5>1. uses'[u][c] = 1 /\ c.secret \in spent /\ c.step <= row.lastStep
          BY <2>2, <2>3, <2>6, <4>1, <4>2, <4>6
        <5> QED BY <4>5, <5>1
      <4>7. CASE c # code
        <5>1. uses'[u][c] = uses[u][c] /\ row.secret = mfa[u].secret
          BY <2>3, <2>6, <4>4, <4>7
        <5> QED BY <4>3, <4>5, <5>1
      <4> QED BY <4>6, <4>7
    <3>3. Undisturbed(u, "mfa") => row.secret \in spent
      BY <2>2, <2>3, <3>0 DEF UseForm
    <3>4. \A r \in Recovery :
            /\ uses'[u][r] <= 1
            /\ uses'[u][r] # 0 => r \in spent
            /\ r \in recovery[u] => uses'[u][r] = 0
      BY <2>6, <3>0, <3>1 DEF UseForm
    <3> QED BY <2>4, <3>0, <3>2, <3>3, <3>4 DEF UseForm, Undisturbed
  <2>8. UseInv'
    <3>1. \A v \in User \ {u} : UseForm(v)'
      <4> TAKE v \in User \ {u}
      <4>1. UseForm(v) /\ uses'[v] = uses[v] /\ recovery'[v] = recovery[v]
        BY <1>0, <2>6 DEF SignInInv, UseInv
      <4> QED BY <1>0, <2>5, <4>1, UseFormKept
    <3> QED BY <2>7, <3>1 DEF UseInv
  <2>9. recovery' \in [User -> SUBSET Recovery]
    BY <1>0 DEF TypeOK
  <2> QED BY <1>0, <2>1, <2>4, <2>5, <2>6, <2>8, <2>9, PassedStep
<1> QED BY <1>1, <1>2

\* Accepting a recovery code uses it up.
LEMMA UseRecoveryCodeStep ==
  ASSUME SignInInv, NEW p \in Request, UseRecoveryCode(p)
  PROVE  SignInInv'
<1>0. /\ pc[p] = "useRecoveryCode" /\ ops' = ops /\ TypeOK /\ RequestForm(p) /\ req[p].user \in User
      /\ UNCHANGED <<status, session, dated, consent, browser, now, spent, proven, approved, barred, disturbed>>
  BY AtStatement DEF UseRecoveryCode, At
<1> SUFFICES ASSUME NEW u \in User, u = req[p].user, NEW code \in Recovery, code = req[p].code
             PROVE  SignInInv'
  BY <1>0 DEF RequestForm
<1>1. CASE code \notin recovery[u]
  <2>1. Know(p, "recordFailure", [req[p] EXCEPT !.code = None]) /\ UNCHANGED <<recovery, mfa, uses, guesses>>
    BY <1>1 DEF UseRecoveryCode
  <2> QED BY <1>0, <2>1, WrongCodeStep DEF tables
<1>2. CASE code \in recovery[u]
  <2>1. /\ recovery' = [recovery EXCEPT ![u] = @ \ {code}]
        /\ mfa' = [mfa EXCEPT ![u] = IF @ = None THEN None ELSE Cleared(@, @.lastStep)]
        /\ Accept(u, code)
        /\ guesses' = [guesses EXCEPT ![u] = 0]
        /\ Know(p, Passed(req[p].doing), [req[p] EXCEPT !.code = None])
    BY <1>2 DEF UseRecoveryCode
  <2>2. /\ mfa' \in [User -> UserMFA \cup {None}] /\ \A v \in User \ {u} : mfa'[v] = mfa[v]
        /\ SameSecret(u) /\ (mfa[u] # None => mfa'[u].lastStep = mfa[u].lastStep)
    <3>1. CASE mfa[u] = None
      BY <1>0, <2>1, <3>1 DEF TypeOK, SameSecret
    <3>2. CASE mfa[u] # None
      <4>1. PICK old \in UserMFA, step \in 0..MaxStep : old = mfa[u] /\ step = mfa[u].lastStep
        BY <1>0, <3>2 DEF TypeOK, UserMFA
      <4>2. /\ Cleared(old, step) \in UserMFA /\ Cleared(old, step) # None
            /\ Cleared(old, step).secret = old.secret /\ Cleared(old, step).confirmed = old.confirmed
            /\ Cleared(old, step).lastStep = step
        BY ClearedFacts
      <4>3. mfa' = [mfa EXCEPT ![u] = Cleared(old, step)]
        BY <2>1, <3>2, <4>1
      <4> QED BY <1>0, <3>2, <4>1, <4>2, <4>3 DEF TypeOK, SameSecret
    <3> QED BY <3>1, <3>2
  <2>3. /\ recovery' \in [User -> SUBSET Recovery] /\ recovery'[u] = recovery[u] \ {code}
        /\ \A v \in User \ {u} : recovery'[v] = recovery[v]
    BY <1>0, <2>1 DEF TypeOK
  <2>4. code \in Code
    BY DEF Code
  <2>5. /\ uses' \in [User -> [Code -> Nat]] /\ \A v \in User \ {u} : uses'[v] = uses[v]
        /\ uses'[u][code] = uses[u][code] + 1 /\ \A c \in Code \ {code} : uses'[u][c] = uses[u][c]
    BY <1>0, <2>1, <2>4, AcceptFacts
  <2>6. UseForm(u)'
    <3>0. UseForm(u) /\ spent' = spent /\ disturbed' = disturbed
      BY <1>0 DEF SignInInv, UseInv
    <3>1. \A c \in TOTP : c \in Code /\ c # code
      BY CodeAssumption DEF Code
    <3>2. \A c \in TOTP : uses'[u][c] = uses[u][c]
      BY <2>5, <3>1
    <3>3. ASSUME Undisturbed(u, "mfa")
          PROVE  /\ mfa'[u] # None => mfa'[u].secret \in spent
                 /\ \A c \in TOTP :
                      /\ uses'[u][c] <= 1
                      /\ uses'[u][c] # 0 => c.secret \in spent
                      /\ uses'[u][c] # 0 /\ mfa'[u] # None /\ mfa'[u].secret = c.secret =>
                           mfa'[u].confirmed /\ c.step <= mfa'[u].lastStep
      BY <2>2, <3>0, <3>2, <3>3 DEF UseForm, SameSecret
    <3>4. recovery'[u] \subseteq spent
      BY <2>3, <3>0 DEF UseForm
    <3>5. \A r \in Recovery :
            /\ uses'[u][r] <= 1
            /\ uses'[u][r] # 0 => r \in spent
            /\ r \in recovery'[u] => uses'[u][r] = 0
      <4> TAKE r \in Recovery
      <4>1. r \in Code /\ uses[u][code] = 0 /\ code \in spent
        BY <1>2, <3>0 DEF Code, UseForm
      <4>2. CASE r = code
        BY <2>3, <2>5, <4>1, <4>2
      <4>3. CASE r # code
        BY <2>3, <2>5, <3>0, <4>1, <4>3 DEF UseForm
      <4> QED BY <4>2, <4>3
    <3> QED BY <3>0, <3>3, <3>4, <3>5 DEF UseForm, Undisturbed
  <2>7. UseInv'
    <3>1. \A v \in User \ {u} : UseForm(v)'
      <4> TAKE v \in User \ {u}
      <4>1. UseForm(v) /\ uses'[v] = uses[v] /\ recovery'[v] = recovery[v]
        BY <2>3, <2>5 DEF SignInInv, UseInv
      <4>2. SameSecret(v) /\ mfa'[v].lastStep = mfa[v].lastStep
        BY <2>2 DEF SameSecret
      <4> QED BY <1>0, <4>1, <4>2, UseFormKept
    <3> QED BY <2>6, <3>1 DEF UseInv
  <2> QED BY <1>0, <2>1, <2>2, <2>3, <2>5, <2>7, PassedStep
<1> QED BY <1>1, <1>2

\* The database counts a wrong code; with the last one that is allowed it sets the lock.
LEMMA RecordFailureStep ==
  ASSUME SignInInv, NEW p \in Request, RecordFailure(p)
  PROVE  SignInInv'
<1>0. /\ pc[p] = "recordFailure" /\ ops' = ops /\ TypeOK /\ RequestForm(p) /\ req[p].user \in User
      /\ status' = status /\ session' = session /\ dated' = dated /\ consent' = consent /\ cookie' = cookie
      /\ pending' = pending /\ page' = page /\ now' = now /\ recovery' = recovery
      /\ UNCHANGED <<spent, uses, proven, approved, disturbed>> /\ Return(p) /\ Answered(p)
  BY AtStatement DEF RecordFailure, At, browser
<1> SUFFICES ASSUME NEW u \in User, u = req[p].user
             PROVE  SignInInv'
  BY <1>0
<1>1. CASE mfa[u] = None
  <2>1. UNCHANGED <<mfa, guesses>>
    BY <1>1 DEF RecordFailure
  <2> QED BY <1>0, <2>1, QuietEnd DEF tables, browser
<1>2. CASE mfa[u] # None
  <2>0. FormInv /\ ConsentInv /\ GuessInv /\ SecretInv /\ UseInv /\ PasswordInv /\ BarredInv
    BY DEF SignInInv
  <2>1. PICK old \in UserMFA : old = mfa[u]
    BY <1>0, <1>2 DEF TypeOK
  <2>2. PICK row \in UserMFA : row = Failed(old) /\ row # None
    BY FailedFacts
  <2>3. /\ row.secret = old.secret /\ row.confirmed = old.confirmed /\ row.lastStep = old.lastStep
        /\ ~row.locked => ~old.locked /\ old.failed + 1 < MaxMFAFailures /\ row.failed = old.failed + 1
    BY <2>2, FailedFacts
  <2>4. mfa' = [mfa EXCEPT ![u] = row] /\ guesses' = [guesses EXCEPT ![u] = @ + 1]
    BY <1>2, <2>1, <2>2 DEF RecordFailure
  <2>5. /\ mfa' \in [User -> UserMFA \cup {None}] /\ mfa'[u] = row /\ \A v \in User \ {u} : mfa'[v] = mfa[v]
        /\ guesses' \in [User -> Nat] /\ guesses'[u] = guesses[u] + 1 /\ \A v \in User \ {u} : guesses'[v] = guesses[v]
    BY <1>0, <2>4 DEF TypeOK
  <2>6. Know(p, "idle", Nothing) /\ "idle" \in PC /\ Nothing \in Context
    BY <1>0, NothingFacts DEF Return, PC
  <2>7. /\ pc' \in [Request -> PC] /\ req' \in [Request -> Context]
        /\ pc'[p] = "idle" /\ req'[p] = Nothing /\ Same({p})
    BY <1>0, <2>6, KnowFacts
  <2>8. barred' \subseteq barred /\ p \notin barred'
    BY <1>0 DEF Answered
  <2>9. TypeOK'
    BY <1>0, <2>5, <2>7, <2>8 DEF TypeOK
  <2>10. FormInv'
    <3>1. RequestForm(p)'
      BY <2>7 DEF RequestForm, Nothing
    <3>2. \A b \in Browser : cookie'[b] \in spent' \cup {None}
      BY <1>0, <2>0 DEF FormInv
    <3> QED BY <1>0, <2>0, <2>7, <3>1, <3>2, FormKept
  <2>11. ConsentInv'
    BY <1>0, <2>0, <2>7, ConsentKept
  <2>12. \A v \in User : SameSecret(v) /\ mfa'[v].lastStep = mfa[v].lastStep /\ (Enabled(v)' => Enabled(v))
    <3>1. \A v \in User : SameSecret(v) /\ mfa'[v].lastStep = mfa[v].lastStep
      BY <1>2, <2>1, <2>2, <2>3, <2>5 DEF SameSecret
    <3> QED BY <3>1 DEF SameSecret, Enabled
  <2>13. SecretInv'
    BY <1>0, <2>0, <2>7, <2>12, SecretKept
  <2>14. UseInv'
    BY <1>0, <2>0, <2>12, UseKept
  <2>15. PasswordInv'
    BY <1>0, <2>0, <2>7, <2>12, PasswordKept
  <2>16. BarredInv'
    BY <1>0, <2>0, <2>7, <2>8, BarredKept
  <2>17. GuessInv'
    <3> SUFFICES ASSUME NEW v \in User
                 PROVE  /\ mfa'[v] = None => guesses'[v] = 0
                        /\ mfa'[v] # None /\ ~mfa'[v].locked =>
                             guesses'[v] <= mfa'[v].failed /\ guesses'[v] < MaxMFAFailures
                        /\ guesses'[v] + Cardinality(Trying(v)') < MaxMFAFailures + Cardinality(Request)
      BY DEF GuessInv
    <3>1. /\ mfa[v] = None => guesses[v] = 0
          /\ mfa[v] # None /\ ~mfa[v].locked => guesses[v] <= mfa[v].failed /\ guesses[v] < MaxMFAFailures
          /\ guesses[v] + Cardinality(Trying(v)) < MaxMFAFailures + Cardinality(Request)
          /\ guesses[v] \in Nat /\ MaxMFAFailures \in Nat
      BY <1>0, <2>0, SignInAssumption DEF GuessInv, TypeOK
    <3>2. Trying(v)' \subseteq Trying(v)
      BY <2>7 DEF Trying, Same
    <3>3. CASE v = u
      <4>1. p \in Trying(v) /\ p \notin Trying(v)'
        BY <1>0, <2>7, <3>3 DEF Trying
      <4>2. Trying(v)' \subseteq Trying(v) \ {p}
        BY <3>2, <4>1
      <4>3. IsFiniteSet(Trying(v) \ {p}) /\ Cardinality(Trying(v) \ {p}) = Cardinality(Trying(v)) - 1
        BY <4>1, Counts, FS_RemoveElement
      <4>4. Cardinality(Trying(v)') <= Cardinality(Trying(v)) - 1
        BY <4>2, <4>3, FS_Subset
      <4>5. guesses'[v] + Cardinality(Trying(v)') < MaxMFAFailures + Cardinality(Request)
        BY <2>5, <3>1, <3>3, <4>4, Counts
      <4>6. old.failed \in Nat /\ row.failed \in Nat
        BY SignInAssumption DEF UserMFA
      <4>7. ~row.locked => guesses'[v] <= row.failed /\ guesses'[v] < MaxMFAFailures
        BY <1>2, <2>1, <2>3, <2>5, <3>1, <3>3, <4>6
      <4> QED BY <2>2, <2>5, <3>3, <4>5, <4>7
    <3>4. CASE v # u
      <4>1. Cardinality(Trying(v)') <= Cardinality(Trying(v))
        BY <3>2, Counts, FS_Subset
      <4> QED BY <2>5, <3>1, <3>4, <4>1, Counts
    <3> QED BY <3>3, <3>4
  <2> QED BY <2>9, <2>10, <2>11, <2>13, <2>14, <2>15, <2>16, <2>17 DEF SignInInv
<1> QED BY <1>1, <1>2

\* A new authenticator is stored, unconfirmed; those who checked a code of an earlier one are
\* disturbed.
LEMMA BeginTOTPStep ==
  ASSUME SignInInv, NEW p \in Request, NEW u \in User, NEW secret \in Secret, BeginTOTP(p, u, secret)
  PROVE  SignInInv'
<1>0. /\ TypeOK /\ FormInv /\ ConsentInv /\ GuessInv /\ SecretInv /\ UseInv /\ PasswordInv /\ BarredInv
      /\ pc[p] = "idle" /\ secret \notin spent /\ MaySavePending(u)
      /\ spent' = spent \cup {secret} /\ guesses' = [guesses EXCEPT ![u] = 0]
      /\ disturbed' = disturbed \cup Disturbing(p, u)
      /\ UNCHANGED <<status, recovery, session, dated, consent, browser, now, request, ops, uses, proven,
                     approved, barred>>
  BY DEF BeginTOTP, SignInInv
<1>1. /\ status' = status /\ session' = session /\ dated' = dated /\ consent' = consent /\ cookie' = cookie
      /\ pending' = pending /\ page' = page /\ now' = now /\ recovery' = recovery /\ pc' = pc /\ req' = req
      /\ Same({})
  BY <1>0 DEF browser, request, Same
<1>2. PICK row : row = [secret |-> secret, confirmed |-> Enabled(u), recent |-> TRUE,
                        lastStep |-> 0, failed |-> 0, locked |-> FALSE]
  OBVIOUS
<1>3. Enabled(u) = FALSE /\ 0 \in 0..MaxStep /\ 0 \in 0..MaxMFAFailures
  BY <1>0, SignInAssumption DEF Enabled, MaySavePending
<1>4. row \in UserMFA /\ row.secret = secret /\ row.confirmed = FALSE
  BY <1>2, <1>3 DEF UserMFA
<1>5. row # None
  BY <1>4, RowAssumption
<1>6. mfa' = [mfa EXCEPT ![u] = row]
  BY <1>2 DEF BeginTOTP, SavePending
<1>7. /\ mfa' \in [User -> UserMFA \cup {None}] /\ mfa'[u] = row /\ \A v \in User \ {u} : mfa'[v] = mfa[v]
      /\ guesses' \in [User -> Nat] /\ guesses'[u] = 0 /\ \A v \in User \ {u} : guesses'[v] = guesses[v]
  BY <1>0, <1>4, <1>6 DEF TypeOK
<1>8. disturbed' \subseteq User \X {"mfa", "consent"} /\ disturbed \subseteq disturbed'
  BY <1>0 DEF TypeOK, Disturbing
<1>9. TypeOK'
  BY <1>0, <1>1, <1>7, <1>8 DEF TypeOK
<1>10. FormInv'
  <2>1. \A b \in Browser : cookie'[b] \in spent' \cup {None}
    BY <1>0, <1>1 DEF FormInv
  <2> QED BY <1>0, <1>1, <2>1, FormKept
<1>11. ConsentInv'
  BY <1>0, <1>1, <1>8, ConsentKept
<1>12. GuessInv'
  BY <1>0, <1>1, <1>7, <1>9, GuessKept
<1>13. ~Enabled(u)' /\ \A v \in User : Enabled(v)' => Enabled(v)
  BY <1>4, <1>7 DEF Enabled
<1>14. SecretInv'
  <2> SUFFICES ASSUME NEW v \in User, Undisturbed(v, "mfa")'
               PROVE  /\ \A q \in Request : pc'[q] \in {"useStep", "confirm"} /\ req'[q].user = v =>
                           mfa'[v] # None /\ mfa'[v].secret = req'[q].code.secret
                      /\ \A q \in Request : pc'[q] = "confirm" /\ req'[q].user = v => mfa'[v].secret \in proven'
                      /\ Enabled(v)' => mfa'[v].secret \in proven'
    BY DEF SecretInv
  <2>1. Undisturbed(v, "mfa")
    BY <1>8 DEF Undisturbed
  <2>2. CASE v = u
    <3>1. \A q \in Request : ~(pc[q] \in {"useStep", "confirm"} /\ req[q].user = u)
      BY <1>0, <2>2 DEF Disturbing, Others, Undisturbed
    <3> QED BY <1>1, <1>13, <2>2, <3>1
  <2>3. CASE v # u
    BY <1>0, <1>1, <1>7, <2>1, <2>3 DEF SecretInv, Enabled
  <2> QED BY <2>2, <2>3
<1>15. UseInv'
  <2>1. UseForm(u)'
    <3>0. UseForm(u)
      BY <1>0 DEF UseInv
    <3>1. ASSUME Undisturbed(u, "mfa")'
          PROVE  /\ mfa'[u].secret \in spent'
                 /\ \A c \in TOTP :
                      /\ uses'[u][c] <= 1
                      /\ uses'[u][c] # 0 => c.secret \in spent'
                      /\ uses'[u][c] # 0 => mfa'[u].secret # c.secret
      <4>1. Undisturbed(u, "mfa")
        BY <1>8, <3>1 DEF Undisturbed
      <4>2. \A c \in TOTP : uses[u][c] <= 1 /\ (uses[u][c] # 0 => c.secret \in spent)
        BY <3>0, <4>1 DEF UseForm
      <4>3. mfa'[u].secret = secret
        BY <1>4, <1>7
      <4> QED BY <1>0, <4>2, <4>3
    <3>2. recovery'[u] \subseteq spent'
      BY <1>0, <1>1, <3>0 DEF UseForm
    <3>3. \A r \in Recovery :
            /\ uses'[u][r] <= 1
            /\ uses'[u][r] # 0 => r \in spent'
            /\ r \in recovery'[u] => uses'[u][r] = 0
      BY <1>0, <1>1, <3>0 DEF UseForm
    <3> QED BY <3>1, <3>2, <3>3 DEF UseForm
  <2>2. ASSUME NEW v \in User \ {u}
        PROVE  UseForm(v)'
    <3>1. UseForm(v) /\ uses'[v] = uses[v] /\ recovery'[v] = recovery[v] /\ spent \subseteq spent'
      BY <1>0, <1>1 DEF UseInv
    <3>2. SameSecret(v) /\ mfa'[v].lastStep = mfa[v].lastStep
      BY <1>7 DEF SameSecret
    <3> QED BY <1>8, <3>1, <3>2, UseFormKept
  <2> QED BY <2>1, <2>2 DEF UseInv
<1>16. PasswordInv'
  BY <1>0, <1>1, <1>8, <1>13, PasswordKept
<1>17. BarredInv'
  BY <1>0, <1>1, BarredKept
<1> QED BY <1>9, <1>10, <1>11, <1>12, <1>14, <1>15, <1>16, <1>17 DEF SignInInv

\* The second factor is removed; those who rely on it are disturbed.
LEMMA DeleteMFAStep ==
  ASSUME SignInInv, NEW p \in Request, DeleteMFA(p)
  PROVE  SignInInv'
<1>0. /\ TypeOK /\ FormInv /\ ConsentInv /\ GuessInv /\ SecretInv /\ UseInv /\ PasswordInv /\ BarredInv
      /\ pc[p] = "deleteMFA" /\ ops' = ops /\ RequestForm(p) /\ req[p] \in Context /\ req[p].user \in User
      /\ p \notin barred
      /\ UNCHANGED <<status, session, dated, consent, browser, now, spent, uses, proven, approved, barred>>
  BY AtStatement DEF DeleteMFA, At, BarredForm, SignInInv
<1> SUFFICES ASSUME NEW u \in User, u = req[p].user
             PROVE  SignInInv'
  BY <1>0
<1>1. /\ status' = status /\ session' = session /\ dated' = dated /\ consent' = consent /\ cookie' = cookie
      /\ pending' = pending /\ page' = page /\ now' = now
  BY <1>0 DEF browser
<1>2. /\ mfa' = [mfa EXCEPT ![u] = None] /\ recovery' = [recovery EXCEPT ![u] = {}]
      /\ guesses' = [guesses EXCEPT ![u] = 0] /\ disturbed' = disturbed \cup Disturbing(p, u)
      /\ Goto(p, "endSessions")
  BY DEF DeleteMFA
<1>3. /\ mfa' \in [User -> UserMFA \cup {None}] /\ mfa'[u] = None /\ \A v \in User \ {u} : mfa'[v] = mfa[v]
      /\ recovery' \in [User -> SUBSET Recovery] /\ \A v \in User : recovery'[v] \subseteq recovery[v]
      /\ guesses' \in [User -> Nat] /\ guesses'[u] = 0 /\ \A v \in User \ {u} : guesses'[v] = guesses[v]
  BY <1>0, <1>2 DEF TypeOK
<1>4. disturbed' \subseteq User \X {"mfa", "consent"} /\ disturbed \subseteq disturbed'
  BY <1>0, <1>2 DEF TypeOK, Disturbing
<1>5. Know(p, "endSessions", req[p]) /\ "endSessions" \in PC
  BY <1>0, <1>2, GotoFacts DEF PC
<1>6. /\ pc' \in [Request -> PC] /\ req' \in [Request -> Context]
      /\ pc'[p] = "endSessions" /\ req'[p] = req[p] /\ Same({p})
  BY <1>0, <1>5, KnowFacts
<1>7. TypeOK'
  BY <1>0, <1>1, <1>3, <1>4, <1>6 DEF TypeOK
<1>8. FormInv'
  <2>1. RequestForm(p)'
    BY <1>0, <1>6 DEF RequestForm
  <2>2. \A b \in Browser : cookie'[b] \in spent' \cup {None}
    BY <1>0, <1>1 DEF FormInv
  <2> QED BY <1>0, <1>6, <2>1, <2>2, FormKept
<1>9. ConsentInv'
  BY <1>0, <1>1, <1>4, <1>6, ConsentKept
<1>10. GuessInv'
  BY <1>0, <1>3, <1>6, <1>7, GuessKept
<1>11. ~Enabled(u)' /\ \A v \in User : Enabled(v)' => Enabled(v)
  BY <1>3 DEF Enabled
<1>12. SecretInv'
  <2> SUFFICES ASSUME NEW v \in User, Undisturbed(v, "mfa")'
               PROVE  /\ \A q \in Request : pc'[q] \in {"useStep", "confirm"} /\ req'[q].user = v =>
                           mfa'[v] # None /\ mfa'[v].secret = req'[q].code.secret
                      /\ \A q \in Request : pc'[q] = "confirm" /\ req'[q].user = v => mfa'[v].secret \in proven'
                      /\ Enabled(v)' => mfa'[v].secret \in proven'
    BY DEF SecretInv
  <2>1. Undisturbed(v, "mfa")
    BY <1>4 DEF Undisturbed
  <2>2. \A q \in Request : pc'[q] \in {"useStep", "confirm"} => pc[q] = pc'[q] /\ req[q] = req'[q] /\ q # p
    BY <1>6 DEF Same
  <2>3. CASE v = u
    <3>1. \A q \in Request \ {p} : ~(pc[q] \in {"useStep", "confirm"} /\ req[q].user = u)
      BY <1>2, <2>3 DEF Disturbing, Others, Undisturbed
    <3> QED BY <1>11, <2>2, <2>3, <3>1
  <2>4. CASE v # u
    BY <1>0, <1>3, <2>1, <2>2, <2>4 DEF SecretInv, Enabled
  <2> QED BY <2>3, <2>4
<1>13. UseInv'
  <2>1. \A v \in User : mfa'[v] = None \/ (SameSecret(v) /\ mfa'[v].lastStep = mfa[v].lastStep)
    BY <1>3 DEF SameSecret
  <2> QED BY <1>0, <1>3, <1>4, <2>1, UseKept
<1>14. PasswordInv'
  BY <1>0, <1>1, <1>4, <1>6, <1>11, PasswordKept
<1>15. BarredInv'
  BY <1>0, <1>1, <1>6, BarredKept
<1> QED BY <1>7, <1>8, <1>9, <1>10, <1>12, <1>13, <1>14, <1>15 DEF SignInInv

\* Recovery codes that were never shown replace the old ones.
LEMMA FreshCodes ==
  ASSUME NEW u \in User, UseForm(u), NEW r \in Recovery \ spent, recovery'[u] = {r}, spent' = spent \cup {r},
         \A x \in Recovery : uses'[u][x] = uses[u][x]
  PROVE  /\ recovery'[u] \subseteq spent'
         /\ \A x \in Recovery :
              /\ uses'[u][x] <= 1
              /\ uses'[u][x] # 0 => x \in spent'
              /\ x \in recovery'[u] => uses'[u][x] = 0
BY DEF UseForm

\* New recovery codes.
LEMMA ReplaceCodesStep ==
  ASSUME SignInInv, NEW p \in Request, NEW r \in Recovery, ReplaceCodes(p, r)
  PROVE  SignInInv'
<1>0. /\ TypeOK /\ FormInv /\ ConsentInv /\ GuessInv /\ SecretInv /\ UseInv /\ PasswordInv /\ BarredInv
      /\ pc[p] = "replaceCodes" /\ ops' = ops /\ req[p].user \in User /\ p \notin barred
      /\ r \notin spent /\ spent' = spent \cup {r} /\ Return(p)
      /\ UNCHANGED <<status, mfa, session, dated, consent, browser, now, uses, proven, guesses, approved,
                     barred, disturbed>>
  BY AtStatement DEF ReplaceCodes, At, BarredForm, SignInInv
<1> SUFFICES ASSUME NEW u \in User, u = req[p].user
             PROVE  SignInInv'
  BY <1>0
<1>1. /\ status' = status /\ session' = session /\ dated' = dated /\ consent' = consent /\ cookie' = cookie
      /\ pending' = pending /\ page' = page /\ now' = now /\ mfa' = mfa /\ uses' = uses /\ guesses' = guesses
  BY <1>0 DEF browser
<1>2. /\ recovery' \in [User -> SUBSET Recovery] /\ recovery'[u] = {r}
      /\ \A v \in User \ {u} : recovery'[v] = recovery[v]
  BY <1>0 DEF ReplaceCodes, ReplaceRecoveryCodes, TypeOK
<1>3. Know(p, "idle", Nothing) /\ "idle" \in PC /\ Nothing \in Context
  BY <1>0, NothingFacts DEF Return, PC
<1>4. /\ pc' \in [Request -> PC] /\ req' \in [Request -> Context]
      /\ pc'[p] = "idle" /\ req'[p] = Nothing /\ Same({p})
  BY <1>0, <1>3, KnowFacts
<1>5. TypeOK'
  BY <1>0, <1>1, <1>2, <1>4 DEF TypeOK
<1>6. FormInv'
  <2>1. RequestForm(p)'
    BY <1>4 DEF RequestForm, Nothing
  <2>2. \A b \in Browser : cookie'[b] \in spent' \cup {None}
    BY <1>0, <1>1 DEF FormInv
  <2> QED BY <1>0, <1>4, <2>1, <2>2, FormKept
<1>7. ConsentInv'
  BY <1>0, <1>1, <1>4, ConsentKept
<1>8. GuessInv'
  BY <1>0, <1>1, <1>4, <1>5, GuessKept
<1>9. \A v \in User : SameSecret(v) /\ mfa'[v].lastStep = mfa[v].lastStep /\ (Enabled(v)' => Enabled(v))
  BY <1>1 DEF SameSecret, Enabled
<1>10. SecretInv'
  BY <1>0, <1>4, <1>9, SecretKept
<1>11. UseInv'
  <2>1. UseForm(u)'
    <3>0. UseForm(u)
      BY <1>0 DEF UseInv
    <3>1. Undisturbed(u, "mfa")' =>
            /\ mfa'[u] # None => mfa'[u].secret \in spent'
            /\ \A c \in TOTP :
                 /\ uses'[u][c] <= 1
                 /\ uses'[u][c] # 0 => c.secret \in spent'
                 /\ uses'[u][c] # 0 /\ mfa'[u] # None /\ mfa'[u].secret = c.secret =>
                      mfa'[u].confirmed /\ c.step <= mfa'[u].lastStep
      BY <1>0, <1>1, <3>0 DEF UseForm, Undisturbed
    <3>2. /\ recovery'[u] \subseteq spent'
          /\ \A x \in Recovery :
               /\ uses'[u][x] <= 1
               /\ uses'[u][x] # 0 => x \in spent'
               /\ x \in recovery'[u] => uses'[u][x] = 0
      BY <1>0, <1>1, <1>2, <3>0, FreshCodes
    <3> QED BY <3>1, <3>2 DEF UseForm
  <2>2. ASSUME NEW v \in User \ {u}
        PROVE  UseForm(v)'
    <3>1. UseForm(v) /\ uses'[v] = uses[v] /\ recovery'[v] = recovery[v] /\ spent \subseteq spent'
      BY <1>0, <1>1, <1>2 DEF UseInv
    <3> QED BY <1>0, <1>9, <3>1, UseFormKept
  <2> QED BY <2>1, <2>2 DEF UseInv
<1>12. PasswordInv'
  BY <1>0, <1>1, <1>4, <1>9, PasswordKept
<1>13. BarredInv'
  BY <1>0, <1>1, <1>4, BarredKept
<1> QED BY <1>5, <1>6, <1>7, <1>8, <1>10, <1>11, <1>12, <1>13 DEF SignInInv

\* The enrollment is confirmed: its secret was shown, no code of it was used, and the
\* sessions of the password alone are about to end.
LEMMA ConfirmStep ==
  ASSUME SignInInv, NEW p \in Request, NEW r \in Recovery, Confirm(p, r)
  PROVE  SignInInv'
<1>0. /\ TypeOK /\ FormInv /\ ConsentInv /\ GuessInv /\ SecretInv /\ UseInv /\ PasswordInv /\ BarredInv
      /\ pc[p] = "confirm" /\ ops' = ops /\ RequestForm(p) /\ req[p] \in Context /\ req[p].user \in User
      /\ p \notin barred
      /\ UNCHANGED <<status, session, dated, consent, browser, now, proven, approved, barred>>
  BY AtStatement DEF Confirm, At, BarredForm, SignInInv
<1> SUFFICES ASSUME NEW u \in User, u = req[p].user, NEW code \in TOTP, code = req[p].code
             PROVE  SignInInv'
  BY <1>0 DEF RequestForm
<1>1. CASE ~MayConfirm(u)
  <2>1. Return(p) /\ UNCHANGED <<mfa, recovery, spent, uses, guesses, disturbed>>
    BY <1>1 DEF Confirm
  <2>2. Answered(p)
    BY <1>0 DEF Answered
  <2> QED BY <1>0, <2>1, <2>2, QuietEnd DEF tables
<1> SUFFICES ASSUME MayConfirm(u)
             PROVE  SignInInv'
  BY <1>1
<1>2. /\ r \notin spent /\ mfa' = [mfa EXCEPT ![u] = Confirmed(@, code.step)] /\ ReplaceRecoveryCodes(u, r)
      /\ spent' = spent \cup {r} /\ Accept(u, code) /\ guesses' = [guesses EXCEPT ![u] = 0]
      /\ disturbed' = disturbed \cup Disturbing(p, u)
      /\ Know(p, "endSessions", [req[p] EXCEPT !.code = None])
  BY DEF Confirm
<1>3. PICK old \in UserMFA, step \in 0..MaxStep : old = mfa[u] /\ step = code.step /\ ~old.confirmed /\ mfa[u] # None
  BY <1>0, SignInAssumption DEF TypeOK, MayConfirm, TOTP, Step
<1>4. PICK row \in UserMFA : row = Confirmed(old, step) /\ row # None
  BY ConfirmedFacts
<1>5. row.secret = old.secret /\ row.confirmed = TRUE /\ row.lastStep = step
  BY <1>4, ConfirmedFacts
<1>6. /\ mfa' \in [User -> UserMFA \cup {None}] /\ mfa'[u] = row /\ \A v \in User \ {u} : mfa'[v] = mfa[v]
      /\ guesses' \in [User -> Nat] /\ guesses'[u] = 0 /\ \A v \in User \ {u} : guesses'[v] = guesses[v]
      /\ recovery' \in [User -> SUBSET Recovery] /\ recovery'[u] = {r}
      /\ \A v \in User \ {u} : recovery'[v] = recovery[v]
  <2>1. mfa' = [mfa EXCEPT ![u] = row] /\ recovery' = [recovery EXCEPT ![u] = {r}]
    BY <1>2, <1>3, <1>4 DEF ReplaceRecoveryCodes
  <2> QED BY <1>0, <1>2, <2>1 DEF TypeOK
<1>7. code \in Code
  BY DEF Code
<1>8. /\ uses' \in [User -> [Code -> Nat]] /\ \A v \in User \ {u} : uses'[v] = uses[v]
      /\ uses'[u][code] = uses[u][code] + 1 /\ \A c \in Code \ {code} : uses'[u][c] = uses[u][c]
  BY <1>0, <1>2, <1>7, AcceptFacts
<1>9. disturbed' \subseteq User \X {"mfa", "consent"} /\ disturbed \subseteq disturbed'
  BY <1>0, <1>2 DEF TypeOK, Disturbing
<1>10. /\ status' = status /\ session' = session /\ dated' = dated /\ consent' = consent /\ cookie' = cookie
       /\ pending' = pending /\ page' = page /\ now' = now
  BY <1>0 DEF browser
<1>11. PICK context : context = [req[p] EXCEPT !.code = None]
  OBVIOUS
<1>12. /\ context \in Context /\ context.user = u /\ context.doing = req[p].doing
       /\ context.session = req[p].session /\ context.browser = req[p].browser
  BY <1>0, <1>11, ForgetFacts
<1>13. Know(p, "endSessions", context) /\ "endSessions" \in PC
  BY <1>2, <1>11 DEF PC
<1>14. /\ pc' \in [Request -> PC] /\ req' \in [Request -> Context]
       /\ pc'[p] = "endSessions" /\ req'[p] = context /\ Same({p})
  BY <1>0, <1>12, <1>13, KnowFacts
<1>15. TypeOK'
  BY <1>0, <1>2, <1>6, <1>8, <1>9, <1>10, <1>14 DEF TypeOK
<1>16. FormInv'
  <2>1. RequestForm(p)'
    BY <1>0, <1>2, <1>12, <1>14 DEF RequestForm
  <2>2. \A b \in Browser : cookie'[b] \in spent' \cup {None}
    BY <1>0, <1>2, <1>10 DEF FormInv
  <2> QED BY <1>0, <1>2, <1>14, <2>1, <2>2, FormKept
<1>17. ConsentInv'
  BY <1>0, <1>9, <1>10, <1>14, ConsentKept
<1>18. GuessInv'
  BY <1>0, <1>6, <1>14, <1>15, GuessKept
<1>19. SecretInv'
  <2> SUFFICES ASSUME NEW v \in User, Undisturbed(v, "mfa")'
               PROVE  /\ \A q \in Request : pc'[q] \in {"useStep", "confirm"} /\ req'[q].user = v =>
                           mfa'[v] # None /\ mfa'[v].secret = req'[q].code.secret
                      /\ \A q \in Request : pc'[q] = "confirm" /\ req'[q].user = v => mfa'[v].secret \in proven'
                      /\ Enabled(v)' => mfa'[v].secret \in proven'
    BY DEF SecretInv
  <2>1. Undisturbed(v, "mfa")
    BY <1>9 DEF Undisturbed
  <2>2. \A q \in Request : pc'[q] \in {"useStep", "confirm"} => pc[q] = pc'[q] /\ req[q] = req'[q] /\ q # p
    BY <1>14 DEF Same
  <2>3. /\ \A q \in Request : pc[q] \in {"useStep", "confirm"} /\ req[q].user = v =>
             mfa[v] # None /\ mfa[v].secret = req[q].code.secret
        /\ \A q \in Request : pc[q] = "confirm" /\ req[q].user = v => mfa[v].secret \in proven
        /\ Enabled(v) => mfa[v].secret \in proven
    BY <1>0, <2>1 DEF SecretInv
  <2>4. CASE v = u
    <3>1. mfa'[v].secret = mfa[v].secret /\ mfa'[v] # None /\ mfa[v].secret \in proven
      BY <1>0, <1>3, <1>4, <1>5, <1>6, <2>3, <2>4
    <3> QED BY <1>0, <2>2, <2>3, <3>1
  <2>5. CASE v # u
    <3>1. mfa'[v] = mfa[v] /\ proven' = proven /\ Enabled(v)' = Enabled(v)
      BY <1>0, <1>6, <2>5 DEF Enabled
    <3> QED BY <2>2, <2>3, <3>1
  <2> QED BY <2>4, <2>5
<1>20. UseForm(u)'
  <2>0. UseForm(u)
    BY <1>0 DEF UseInv
  <2>1. ASSUME Undisturbed(u, "mfa")'
        PROVE  /\ mfa'[u].secret \in spent'
               /\ \A c \in TOTP :
                    /\ uses'[u][c] <= 1
                    /\ uses'[u][c] # 0 => c.secret \in spent'
                    /\ uses'[u][c] # 0 /\ mfa'[u].secret = c.secret => mfa'[u].confirmed /\ c.step <= mfa'[u].lastStep
    <3>1. Undisturbed(u, "mfa")
      BY <1>9, <2>1 DEF Undisturbed
    <3>2. old.secret = code.secret /\ old.secret \in spent
      BY <1>0, <1>3, <2>0, <3>1 DEF SecretInv, UseForm
    <3>3. mfa'[u].secret = old.secret /\ mfa'[u].confirmed = TRUE /\ mfa'[u].lastStep = code.step /\ step \in Nat
      BY <1>3, <1>5, <1>6
    <3>4. \A c \in TOTP : c.secret = old.secret => uses[u][c] = 0
      BY <1>3, <2>0, <3>1 DEF UseForm
    <3>5. \A c \in TOTP : uses[u][c] <= 1 /\ (uses[u][c] # 0 => c.secret \in spent) /\ c \in Code
      BY <2>0, <3>1 DEF UseForm, Code
    <3>6. uses'[u][code] = 1
      BY <1>8, <3>2, <3>4
    <3>7. mfa'[u].secret \in spent'
      BY <1>2, <3>2, <3>3
    <3> SUFFICES ASSUME NEW c \in TOTP
                 PROVE  /\ uses'[u][c] <= 1
                        /\ uses'[u][c] # 0 => c.secret \in spent'
                        /\ uses'[u][c] # 0 /\ mfa'[u].secret = c.secret =>
                             mfa'[u].confirmed /\ c.step <= mfa'[u].lastStep
      BY <3>7
    <3>8. CASE c = code
      BY <1>2, <1>3, <3>2, <3>3, <3>6, <3>8
    <3>9. CASE c # code
      BY <1>2, <1>8, <3>3, <3>4, <3>5, <3>9
    <3> QED BY <3>8, <3>9
  <2>2. \A x \in Recovery : uses'[u][x] = uses[u][x]
    BY <1>8, CodeAssumption DEF Code
  <2>3. /\ recovery'[u] \subseteq spent'
        /\ \A x \in Recovery :
             /\ uses'[u][x] <= 1
             /\ uses'[u][x] # 0 => x \in spent'
             /\ x \in recovery'[u] => uses'[u][x] = 0
    BY <1>2, <1>6, <2>0, <2>2, FreshCodes
  <2> QED BY <2>1, <2>3 DEF UseForm
<1>21. UseInv'
  <2>1. ASSUME NEW v \in User \ {u}
        PROVE  UseForm(v)'
    <3>1. UseForm(v) /\ uses'[v] = uses[v] /\ recovery'[v] = recovery[v] /\ spent \subseteq spent'
      BY <1>0, <1>2, <1>6, <1>8 DEF UseInv
    <3>2. SameSecret(v) /\ mfa'[v].lastStep = mfa[v].lastStep
      BY <1>6 DEF SameSecret
    <3> QED BY <1>9, <3>1, <3>2, UseFormKept
  <2> QED BY <1>20, <2>1 DEF UseInv
<1>22. PasswordInv'
  <2> SUFFICES ASSUME NEW v \in User, Enabled(v)', Undisturbed(v, "mfa")'
               PROVE  /\ \A q \in Request : pc'[q] \in {"endOldSession", "createSession"} /\ req'[q].user = v =>
                           req'[q].amr = "mfa"
                      /\ EndingSessions(v)' \/ \A s \in Session :
                           session'[s] # None /\ session'[s].user = v => session'[s].amr = "mfa"
    BY DEF PasswordInv
  <2>1. Undisturbed(v, "mfa")
    BY <1>9 DEF Undisturbed
  <2>2. \A q \in Request : pc'[q] \in {"endOldSession", "createSession"} => pc[q] = pc'[q] /\ req[q] = req'[q] /\ q # p
    BY <1>14 DEF Same
  <2>3. CASE v = u
    <3>1. \A q \in Request \ {p} : ~(pc[q] \in {"endOldSession", "createSession"} /\ req[q].user = u /\ req[q].amr = "pwd")
      BY <1>2, <2>3 DEF Disturbing, Others, Undisturbed
    <3>2. \A q \in Request : req[q].amr \in {"pwd", "mfa"}
      BY <1>0, ContextFields DEF TypeOK, AMR
    <3>3. EndingSessions(v)'
      BY <1>12, <1>14, <2>3 DEF EndingSessions
    <3> QED BY <2>2, <2>3, <3>1, <3>2, <3>3
  <2>4. CASE v # u
    <3>1. Enabled(v)
      BY <1>6, <2>4 DEF Enabled
    <3>2. /\ \A q \in Request : pc[q] \in {"endOldSession", "createSession"} /\ req[q].user = v => req[q].amr = "mfa"
          /\ EndingSessions(v) \/ \A s \in Session : session[s] # None /\ session[s].user = v => session[s].amr = "mfa"
      BY <1>0, <2>1, <3>1 DEF PasswordInv
    <3>3. EndingSessions(v) => EndingSessions(v)'
      BY <1>0, <1>14, <2>4 DEF EndingSessions, Same
    <3> QED BY <1>10, <2>2, <3>2, <3>3
  <2> QED BY <2>3, <2>4
<1>23. BarredInv'
  BY <1>0, <1>10, <1>14, BarredKept
<1> QED BY <1>15, <1>16, <1>17, <1>18, <1>19, <1>21, <1>22, <1>23 DEF SignInInv

-----------------------------------------------------------------------------
(* Sessions, consent, status and time *)

\* A session is opened; with a second factor enabled, by a login that passed it.
LEMMA CreateSessionStep ==
  ASSUME SignInInv, NEW p \in Request, NEW s \in Session, CreateSession(p, s)
  PROVE  SignInInv'
<1>0. /\ TypeOK /\ FormInv /\ ConsentInv /\ GuessInv /\ SecretInv /\ UseInv /\ PasswordInv /\ BarredInv
      /\ pc[p] = "createSession" /\ ops' = ops /\ RequestForm(p) /\ req[p] \in Context /\ req[p].user \in User
      /\ (p \in barred => BarredForm(p)) /\ s \notin spent
      /\ session' = [session EXCEPT ![s] = [user |-> req[p].user, amr |-> req[p].amr]]
      /\ spent' = spent \cup {s} /\ cookie' = [cookie EXCEPT ![req[p].browser] = s] /\ Goto(p, "hasConsent")
      /\ UNCHANGED <<status, mfa, recovery, dated, consent, pending, page, now, uses, proven, guesses,
                     approved, barred, disturbed>>
  BY AtStatement DEF CreateSession, At, SignInInv
<1> SUFFICES ASSUME NEW u \in User, u = req[p].user
             PROVE  SignInInv'
  BY <1>0
<1>1. PICK row : row = [user |-> u, amr |-> req[p].amr]
  OBVIOUS
<1>2. row \in SessionRow /\ row.user = u /\ row.amr = req[p].amr
  BY <1>0, <1>1, ContextFields DEF SessionRow
<1>3. /\ session' \in [Session -> SessionRow \cup {None}] /\ session'[s] = row
      /\ \A x \in Session \ {s} : session'[x] = session[x]
  BY <1>0, <1>1, <1>2 DEF TypeOK
<1>4. cookie' \in [Browser -> Session \cup {None}] /\ \A b \in Browser : cookie'[b] \in {cookie[b], s}
  BY <1>0 DEF TypeOK
<1>5. Know(p, "hasConsent", req[p]) /\ "hasConsent" \in PC
  BY <1>0, GotoFacts DEF PC
<1>6. /\ pc' \in [Request -> PC] /\ req' \in [Request -> Context]
      /\ pc'[p] = "hasConsent" /\ req'[p] = req[p] /\ Same({p})
  BY <1>0, <1>5, KnowFacts
<1>7. TypeOK'
  BY <1>0, <1>3, <1>4, <1>6 DEF TypeOK
<1>8. FormInv'
  <2>1. RequestForm(p)'
    BY <1>0, <1>6 DEF RequestForm
  <2>2. \A b \in Browser : cookie'[b] \in spent' \cup {None}
    BY <1>0, <1>4 DEF FormInv
  <2> QED BY <1>0, <1>6, <2>1, <2>2, FormKept
<1>9. ConsentInv'
  BY <1>0, <1>6, ConsentKept
<1>10. GuessInv'
  BY <1>0, <1>6, <1>7, GuessKept
<1>11. \A v \in User : SameSecret(v) /\ mfa'[v].lastStep = mfa[v].lastStep
  BY <1>0 DEF SameSecret
<1>12. SecretInv'
  BY <1>0, <1>6, <1>11, SecretKept
<1>13. UseInv'
  BY <1>0, <1>11, UseKept
<1>14. PasswordInv'
  <2> SUFFICES ASSUME NEW v \in User, Enabled(v), Undisturbed(v, "mfa")
               PROVE  /\ \A q \in Request : pc'[q] \in {"endOldSession", "createSession"} /\ req'[q].user = v =>
                           req'[q].amr = "mfa"
                      /\ EndingSessions(v)' \/ \A x \in Session :
                           session'[x] # None /\ session'[x].user = v => session'[x].amr = "mfa"
    BY <1>0 DEF PasswordInv, Enabled, Undisturbed
  <2>1. /\ \A q \in Request : pc[q] \in {"endOldSession", "createSession"} /\ req[q].user = v => req[q].amr = "mfa"
        /\ EndingSessions(v) \/ \A x \in Session : session[x] # None /\ session[x].user = v => session[x].amr = "mfa"
    BY <1>0 DEF PasswordInv
  <2>2. \A q \in Request \ {p} : pc'[q] = pc[q] /\ req'[q] = req[q]
    BY <1>6 DEF Same
  <2>3. EndingSessions(v) => EndingSessions(v)'
    BY <1>0, <2>2 DEF EndingSessions
  <2>4. session'[s].user = v => session'[s].amr = "mfa"
    BY <1>0, <1>2, <1>3, <2>1
  <2> QED BY <1>3, <1>6, <2>1, <2>2, <2>3, <2>4
<1>15. BarredInv'
  <2>1. p \in barred' => BarredForm(p)'
    BY <1>0, <1>6 DEF BarredForm
  <2>2. \A x \in Session : x \in spent => session'[x] \in {session[x], None}
    BY <1>0, <1>3
  <2> QED BY <1>0, <1>6, <2>1, <2>2, BarredKept
<1> QED BY <1>7, <1>8, <1>9, <1>10, <1>12, <1>13, <1>14, <1>15 DEF SignInInv

\* Consent is stored together with what was read of it before.
LEMMA UpsertConsentStep ==
  ASSUME SignInInv, NEW p \in Request, UpsertConsent(p)
  PROVE  SignInInv'
<1>0. /\ TypeOK /\ FormInv /\ ConsentInv /\ GuessInv /\ SecretInv /\ UseInv /\ PasswordInv /\ BarredInv
      /\ pc[p] = "upsertConsent" /\ ops' = ops /\ RequestForm(p) /\ req[p] \in Context /\ req[p].user \in User
      /\ p \notin barred /\ Goto(p, "issueCode")
      /\ UNCHANGED <<status, mfa, recovery, session, dated, browser, now, spent, uses, proven, guesses, barred,
                     disturbed>>
  BY AtStatement DEF UpsertConsent, At, BarredForm, SignInInv
<1> SUFFICES ASSUME NEW u \in User, u = req[p].user
             PROVE  SignInInv'
  BY <1>0
<1>1. /\ status' = status /\ session' = session /\ dated' = dated /\ cookie' = cookie
      /\ pending' = pending /\ page' = page /\ now' = now
  BY <1>0 DEF browser
<1>2. req[p].granted \in SUBSET Scope /\ req[p].scope \in SUBSET Scope
  BY <1>0, ContextFields
<1>3. /\ consent' = [consent EXCEPT ![u] = req[p].granted \cup req[p].scope]
      /\ approved' = [approved EXCEPT ![u] = @ \cup req[p].scope]
  BY DEF UpsertConsent, UnionScopes
<1>4. /\ consent' \in [User -> SUBSET Scope] /\ consent'[u] = req[p].granted \cup req[p].scope
      /\ approved' \in [User -> SUBSET Scope] /\ approved'[u] = approved[u] \cup req[p].scope
      /\ \A v \in User \ {u} : consent'[v] = consent[v] /\ approved'[v] = approved[v]
  BY <1>0, <1>2, <1>3 DEF TypeOK
<1>5. Know(p, "issueCode", req[p]) /\ "issueCode" \in PC
  BY <1>0, GotoFacts DEF PC
<1>6. /\ pc' \in [Request -> PC] /\ req' \in [Request -> Context]
      /\ pc'[p] = "issueCode" /\ req'[p] = req[p] /\ Same({p})
  BY <1>0, <1>5, KnowFacts
<1>7. TypeOK'
  BY <1>0, <1>1, <1>4, <1>6 DEF TypeOK
<1>8. FormInv'
  <2>1. RequestForm(p)'
    BY <1>0, <1>6 DEF RequestForm
  <2>2. \A b \in Browser : cookie'[b] \in spent' \cup {None}
    BY <1>0, <1>1 DEF FormInv
  <2> QED BY <1>0, <1>6, <2>1, <2>2, FormKept
<1>9. ConsentInv'
  <2>1. \A q \in Request \ {p} : pc'[q] = pc[q] /\ req'[q] = req[q]
    BY <1>6 DEF Same
  <2>2. \A v \in User : approved[v] \subseteq approved'[v]
    BY <1>4
  <2>3. \A v \in User : consent'[v] \subseteq approved'[v]
    BY <1>0, <1>4 DEF ConsentInv
  <2>4. \A q \in Request : pc[q] \in {"upsertConsent", "issueCode"} => req[q].user \in User
    BY <1>0 DEF FormInv, RequestForm
  <2>5. \A q \in Request : pc'[q] = "upsertConsent" => req'[q].granted \subseteq approved'[req'[q].user]
    BY <1>0, <1>6, <2>1, <2>2, <2>4 DEF ConsentInv
  <2>6. CodesConsented'
    <3>1. req'[p].scope \subseteq approved'[req'[p].user]
      BY <1>4, <1>6
    <3>2. \A q \in Request : pc[q] = "issueCode" => req[q].scope \subseteq approved[req[q].user]
      BY <1>0 DEF ConsentInv, CodesConsented
    <3>3. \A q \in Request : pc'[q] = "issueCode" => req'[q].scope \subseteq approved'[req'[q].user]
      BY <2>1, <2>2, <2>4, <3>1, <3>2
    <3> QED BY <3>3 DEF CodesConsented
  <2>7. ASSUME NEW v \in User, Undisturbed(v, "consent")'
        PROVE  /\ consent'[v] = approved'[v]
               /\ \A q, x \in Request : pc'[q] = "upsertConsent" /\ req'[q].user = v =>
                    /\ req'[q].granted = consent'[v]
                    /\ pc'[x] = "upsertConsent" /\ req'[x].user = v => q = x
    <3>1. Undisturbed(v, "consent")
      BY <1>0, <2>7 DEF Undisturbed
    <3>2. /\ consent[v] = approved[v]
          /\ \A q, x \in Request : pc[q] = "upsertConsent" /\ req[q].user = v =>
               /\ req[q].granted = consent[v]
               /\ pc[x] = "upsertConsent" /\ req[x].user = v => q = x
      BY <1>0, <3>1 DEF ConsentInv
    <3>3. \A q \in Request : pc'[q] = "upsertConsent" => pc[q] = pc'[q] /\ req[q] = req'[q] /\ q # p
      BY <1>6, <2>1
    <3>4. CASE v = u
      <4>1. \A q \in Request : ~(pc'[q] = "upsertConsent" /\ req'[q].user = v)
        BY <1>0, <3>2, <3>3, <3>4
      <4>2. req[p].granted = consent[v]
        BY <1>0, <3>2, <3>4
      <4>3. consent'[v] = approved'[v]
        BY <1>4, <3>2, <3>4, <4>2
      <4> QED BY <4>1, <4>3
    <3>5. CASE v # u
      BY <1>4, <3>2, <3>3, <3>5
    <3> QED BY <3>4, <3>5
  <2> QED BY <2>3, <2>5, <2>6, <2>7 DEF ConsentInv
<1>10. GuessInv'
  BY <1>0, <1>6, <1>7, GuessKept
<1>11. \A v \in User : SameSecret(v) /\ mfa'[v].lastStep = mfa[v].lastStep /\ (Enabled(v)' => Enabled(v))
  BY <1>0 DEF SameSecret, Enabled
<1>12. SecretInv'
  BY <1>0, <1>6, <1>11, SecretKept
<1>13. UseInv'
  BY <1>0, <1>11, UseKept
<1>14. PasswordInv'
  BY <1>0, <1>1, <1>6, <1>11, PasswordKept
<1>15. BarredInv'
  BY <1>0, <1>1, <1>6, BarredKept
<1> QED BY <1>7, <1>8, <1>9, <1>10, <1>12, <1>13, <1>14, <1>15 DEF SignInInv

\* Nobody stays barred whose status changes.
LEMMA UpdateStatusStep ==
  ASSUME SignInInv, NEW p \in Request, NEW u \in User, NEW st \in {"active", "suspended", "locked"},
         UpdateStatus(p, u, st)
  PROVE  SignInInv'
<1>0. /\ TypeOK /\ FormInv /\ ConsentInv /\ GuessInv /\ SecretInv /\ UseInv /\ PasswordInv /\ BarredInv
      /\ pc[p] = "idle" /\ RequestForm(p) /\ p \notin barred /\ status' = [status EXCEPT ![u] = st]
      /\ barred' = {q \in barred : req[q].user # u /\ u \notin SessionUser(req[q].session)}
      /\ UNCHANGED <<mfa, recovery, session, dated, consent, browser, now, ops, spent, uses, proven,
                     guesses, approved, disturbed>>
  BY AtStatement, IdleNotBarred DEF UpdateStatus, SignInInv
<1>1. /\ session' = session /\ dated' = dated /\ cookie' = cookie
      /\ pending' = pending /\ page' = page /\ now' = now
  BY <1>0 DEF browser
<1>2. /\ status' \in [User -> {"active", "suspended", "locked"}] /\ \A v \in User \ {u} : status'[v] = status[v]
  BY <1>0 DEF TypeOK
<1>3. /\ pc' \in [Request -> PC] /\ req' \in [Request -> Context] /\ Same({p})
      /\ pc'[p] \in {"idle", "endSessions"} /\ RequestForm(p)'
  <2>1. CASE st = "active"
    BY <1>0, <2>1 DEF UpdateStatus, request, Same, RequestForm, TypeOK
  <2>2. CASE st # "active"
    <3>1. PICK context : context = [Nothing EXCEPT !.doing = "status", !.user = u]
      OBVIOUS
    <3>2. context \in Context /\ context.user = u /\ context.doing = "status" /\ context.session = None
      BY <3>1, SignInAssumption DEF Nothing, Context, AMR
    <3>3. Know(p, "endSessions", context) /\ "endSessions" \in PC
      BY <2>2, <3>1 DEF UpdateStatus, PC
    <3>4. /\ pc' \in [Request -> PC] /\ req' \in [Request -> Context]
          /\ pc'[p] = "endSessions" /\ req'[p] = context /\ Same({p})
      BY <1>0, <3>2, <3>3, KnowFacts
    <3> QED BY <3>2, <3>4 DEF RequestForm
  <2> QED BY <2>1, <2>2
<1>4. TypeOK'
  BY <1>0, <1>1, <1>2, <1>3 DEF TypeOK
<1>5. FormInv'
  <2>1. \A b \in Browser : cookie'[b] \in spent' \cup {None}
    BY <1>0, <1>1 DEF FormInv
  <2> QED BY <1>0, <1>3, <2>1, FormKept
<1>6. ConsentInv'
  BY <1>0, <1>3, ConsentKept
<1>7. GuessInv'
  BY <1>0, <1>3, <1>4, GuessKept
<1>8. \A v \in User : SameSecret(v) /\ mfa'[v].lastStep = mfa[v].lastStep /\ (Enabled(v)' => Enabled(v))
  BY <1>0 DEF SameSecret, Enabled
<1>9. SecretInv'
  BY <1>0, <1>3, <1>8, SecretKept
<1>10. UseInv'
  BY <1>0, <1>8, UseKept
<1>11. PasswordInv'
  BY <1>0, <1>1, <1>3, <1>8, PasswordKept
<1>12. BarredInv'
  <2> SUFFICES ASSUME NEW q \in barred'
               PROVE  BarredForm(q)'
    BY DEF BarredInv
  <2>1. q \in barred /\ q \in Request /\ q # p /\ req[q].user # u /\ u \notin SessionUser(req[q].session)
    BY <1>0 DEF TypeOK
  <2>2. pc'[q] = pc[q] /\ req'[q] = req[q] /\ RequestForm(q) /\ BarredForm(q)
    BY <1>0, <1>3, <2>1 DEF Same, FormInv, BarredInv
  <2>3. pc[q] # "getSession" => status'[req[q].user] = "suspended"
    <3>1. pc[q] # "getSession" => req[q].user \in User
      BY <2>2 DEF RequestForm, BarredForm
    <3> QED BY <1>2, <2>1, <2>2, <3>1 DEF BarredForm
  <2>4. pc[q] = "getSession" => \A v \in SessionUser(req[q].session) : status'[v] = "suspended"
    <3>1. ASSUME pc[q] = "getSession", NEW v \in SessionUser(req[q].session)
          PROVE  status'[v] = "suspended"
      <4>1. v \in User
        BY <1>0, <2>2, <3>1 DEF SessionUser, TypeOK, RequestForm, SessionRow
      <4> QED BY <1>2, <2>1, <2>2, <3>1, <4>1 DEF BarredForm
    <3> QED BY <3>1
  <2>5. pc'[q] = "getSession" => \A v \in SessionUser(req[q].session)' : status'[v] = "suspended"
    BY <1>1, <2>2, <2>4 DEF SessionUser
  <2> QED BY <2>2, <2>3, <2>5 DEF BarredForm
<1> QED BY <1>4, <1>5, <1>6, <1>7, <1>9, <1>10, <1>11, <1>12 DEF SignInInv

-----------------------------------------------------------------------------
(* Time passes *)

\* A step of no request that deletes at most sessions and leaves authenticators the same.
LEMMA PassingKept ==
  ASSUME SignInInv, TypeOK', UNCHANGED <<status, recovery, consent, cookie, request, spent, uses, proven>>,
         UNCHANGED <<approved, barred, disturbed>>,
         \A s \in Session : session'[s] \in {session[s], None},
         \A u \in User : SameSecret(u),
         \A u \in User : mfa'[u] = None \/ mfa'[u].lastStep = mfa[u].lastStep,
         \A u \in User :
           \/ guesses'[u] = 0
           \/ /\ guesses'[u] = guesses[u]
              /\ mfa'[u] = None <=> mfa[u] = None
              /\ mfa[u] # None => mfa'[u].failed = mfa[u].failed /\ mfa'[u].locked = mfa[u].locked
  PROVE  SignInInv'
<1>0. TypeOK /\ FormInv /\ ConsentInv /\ GuessInv /\ SecretInv /\ UseInv /\ PasswordInv /\ BarredInv
  BY DEF SignInInv
<1>1. {} \in SUBSET Request /\ Same({}) /\ \A q \in {} : FALSE
  BY DEF Same, request
<1>2. FormInv'
  <2>1. \A b \in Browser : cookie'[b] \in spent' \cup {None}
    BY <1>0 DEF FormInv
  <2> QED BY <1>0, <1>1, <2>1, FormKept
<1>3. ConsentInv'
  BY <1>0, <1>1, ConsentKept
<1>4. GuessInv'
  BY <1>0, <1>1, GuessKept
<1>5. SecretInv'
  BY <1>0, <1>1, SecretKept
<1>6. UseInv'
  <2>1. \A u \in User : mfa'[u] = None \/ (SameSecret(u) /\ mfa'[u].lastStep = mfa[u].lastStep)
    OBVIOUS
  <2> QED BY <1>0, <2>1, UseKept
<1>7. PasswordInv'
  <2>1. \A u \in User : Enabled(u)' => Enabled(u)
    BY DEF SameSecret, Enabled
  <2> QED BY <1>0, <1>1, <2>1, PasswordKept
<1>8. BarredInv'
  BY <1>0, <1>1, BarredKept
<1> QED BY <1>2, <1>3, <1>4, <1>5, <1>6, <1>7, <1>8 DEF SignInInv

\* A row of which only whether it is recent, or locked, changes.
LEMMA TimedRow ==
  ASSUME NEW row \in UserMFA, NEW new, new = [row EXCEPT !.recent = FALSE] \/ new = [row EXCEPT !.locked = FALSE]
  PROVE  /\ new \in UserMFA /\ new # None /\ new.secret = row.secret /\ new.confirmed = row.confirmed
         /\ new.lastStep = row.lastStep /\ new.failed = row.failed
         /\ new = [row EXCEPT !.recent = FALSE] => new.locked = row.locked
<1>1. new \in UserMFA
  BY DEF UserMFA
<1>2. new # None
  BY <1>1, RowAssumption
<1> QED BY <1>1, <1>2 DEF UserMFA

\* An enrollment is no longer recent, or a lock is over.
LEMMA MFAExpiresStep ==
  ASSUME SignInInv, NEW u \in User, EnrollmentExpires(u) \/ LockoutExpires(u)
  PROVE  SignInInv'
<1>0. /\ TypeOK /\ mfa[u] # None
      /\ status' = status /\ recovery' = recovery /\ session' = session /\ dated' = dated /\ consent' = consent
      /\ cookie' = cookie /\ pending' = pending /\ page' = page /\ now' = now
      /\ UNCHANGED <<pc, req, ops>> /\ UNCHANGED <<spent, uses, proven, approved, barred, disturbed>>
  BY DEF SignInInv, EnrollmentExpires, LockoutExpires, browser, request, history
<1>1. PICK row \in UserMFA : row = mfa[u]
  BY <1>0 DEF TypeOK
<1>2. ASSUME NEW new, mfa' = [mfa EXCEPT ![u] = new], guesses' = guesses \/ guesses' = [guesses EXCEPT ![u] = 0],
             \/ new = [row EXCEPT !.recent = FALSE]
             \/ new = [row EXCEPT !.locked = FALSE] /\ guesses' = [guesses EXCEPT ![u] = 0]
      PROVE  SignInInv'
  <2>1. /\ new \in UserMFA /\ new # None /\ new.secret = row.secret /\ new.confirmed = row.confirmed
        /\ new.lastStep = row.lastStep /\ new.failed = row.failed
        /\ new = [row EXCEPT !.recent = FALSE] => new.locked = row.locked
    BY <1>2, TimedRow
  <2>2. mfa'[u] = new /\ mfa' \in [User -> UserMFA \cup {None}] /\ \A v \in User \ {u} : mfa'[v] = mfa[v]
    BY <1>0, <1>2, <2>1 DEF TypeOK
  <2>3. /\ guesses' \in [User -> Nat] /\ \A v \in User \ {u} : guesses'[v] = guesses[v]
        /\ guesses'[u] = 0 \/ (guesses'[u] = guesses[u] /\ new.locked = row.locked)
    BY <1>0, <1>2, <2>1 DEF TypeOK
  <2>4. TypeOK'
    BY <1>0, <2>2, <2>3 DEF TypeOK
  <2>5. \A v \in User : SameSecret(v)
    BY <1>0, <1>1, <2>1, <2>2 DEF SameSecret
  <2>6. \A v \in User : mfa'[v] = None \/ mfa'[v].lastStep = mfa[v].lastStep
    BY <1>1, <2>1, <2>2
  <2>7. ASSUME NEW v \in User
        PROVE  \/ guesses'[v] = 0
               \/ /\ guesses'[v] = guesses[v]
                  /\ mfa'[v] = None <=> mfa[v] = None
                  /\ mfa[v] # None => mfa'[v].failed = mfa[v].failed /\ mfa'[v].locked = mfa[v].locked
    <3>1. CASE v = u
      BY <1>0, <1>1, <2>1, <2>2, <2>3, <3>1
    <3>2. CASE v # u
      BY <2>2, <2>3, <3>2
    <3> QED BY <3>1, <3>2
  <2>8. \A s \in Session : session'[s] \in {session[s], None}
    BY <1>0
  <2>9. UNCHANGED request
    BY <1>0 DEF request
  <2> QED BY <1>0, <2>4, <2>5, <2>6, <2>7, <2>8, <2>9, PassingKept
<1>3. CASE EnrollmentExpires(u)
  <2>1. mfa' = [mfa EXCEPT ![u] = [row EXCEPT !.recent = FALSE]] /\ guesses' = guesses
    BY <1>1, <1>3 DEF EnrollmentExpires, history
  <2> QED BY <1>2, <2>1
<1>4. CASE LockoutExpires(u)
  <2>1. mfa' = [mfa EXCEPT ![u] = [row EXCEPT !.locked = FALSE]] /\ guesses' = [guesses EXCEPT ![u] = 0]
    BY <1>1, <1>4 DEF LockoutExpires
  <2> QED BY <1>2, <2>1
<1> QED BY <1>3, <1>4

\* Time passes for everything but second factors; expired sessions are deleted.
LEMMA PassingStep ==
  ASSUME SignInInv, Passing
  PROVE  SignInInv'
<1>0. TypeOK
  BY DEF SignInInv
<1>1. ASSUME UNCHANGED <<status, mfa, recovery, consent, cookie, request, ops, history>>, now' \in Step,
             pending' \in [Browser -> Pending \cup {None}], page' = page, dated' \subseteq Session,
             session' \in [Session -> SessionRow \cup {None}],
             \A s \in Session : session'[s] \in {session[s], None}
      PROVE  SignInInv'
  <2>1. TypeOK'
    BY <1>0, <1>1 DEF TypeOK, request, history
  <2>2. \A u \in User : SameSecret(u)
    BY <1>1 DEF SameSecret
  <2>3. \A u \in User : guesses'[u] = guesses[u] /\ mfa'[u] = mfa[u]
    BY <1>1 DEF history
  <2>4. UNCHANGED <<spent, uses, proven>> /\ UNCHANGED <<approved, barred, disturbed>>
    BY <1>1 DEF history
  <2> QED BY <1>1, <2>1, <2>2, <2>3, <2>4, PassingKept
<1>2. session \in [Session -> SessionRow \cup {None}] /\ \A s \in Session : session[s] \in {session[s], None}
  BY <1>0 DEF TypeOK
<1>3. CASE Tick
  <2>1. now' \in Step
    BY <1>0, <1>3, SignInAssumption DEF Tick, TypeOK, Step
  <2>2. /\ UNCHANGED <<status, mfa, recovery, consent, cookie, request, ops, history>>
        /\ pending' = pending /\ page' = page /\ dated' = dated /\ session' = session
    BY <1>3 DEF Tick, tables, browser
  <2> QED BY <1>0, <1>1, <1>2, <2>1, <2>2 DEF TypeOK
<1>4. ASSUME NEW u \in User, EnrollmentExpires(u) \/ LockoutExpires(u)
      PROVE  SignInInv'
  BY <1>4, MFAExpiresStep
<1>5. ASSUME NEW b \in Browser, PendingExpires(b)
      PROVE  SignInInv'
  <2>1. pending' \in [Browser -> Pending \cup {None}]
    BY <1>0, <1>5 DEF PendingExpires, TypeOK
  <2>2. /\ UNCHANGED <<status, mfa, recovery, consent, cookie, request, ops, history>>
        /\ now' = now /\ page' = page /\ dated' = dated /\ session' = session
    BY <1>5 DEF PendingExpires, tables
  <2> QED BY <1>0, <1>1, <1>2, <2>1, <2>2 DEF TypeOK
<1>6. ASSUME NEW s \in Session, SessionExpires(s)
      PROVE  SignInInv'
  <2>1. /\ UNCHANGED <<status, mfa, recovery, consent, cookie, request, ops, history>>
        /\ now' = now /\ page' = page /\ pending' = pending /\ session' = session /\ dated' = dated \cup {s}
    BY <1>6 DEF SessionExpires, browser
  <2> QED BY <1>0, <1>1, <1>2, <2>1 DEF TypeOK
<1>7. CASE CleanupExpiredSessions
  <2>1. /\ UNCHANGED <<status, mfa, recovery, consent, cookie, request, ops, history>>
        /\ now' = now /\ page' = page /\ pending' = pending /\ dated' = dated
    BY <1>7 DEF CleanupExpiredSessions, browser
  <2>2. session' \in [Session -> SessionRow \cup {None}] /\ \A s \in Session : session'[s] \in {session[s], None}
    BY <1>2, <1>7 DEF CleanupExpiredSessions
  <2> QED BY <1>0, <1>1, <2>1, <2>2 DEF TypeOK
<1> QED BY <1>3, <1>4, <1>5, <1>6, <1>7 DEF Passing

-----------------------------------------------------------------------------
(* The invariant *)

\* It holds at first,
LEMMA SignInInit ==
  ASSUME Init
  PROVE  SignInInv
<1>1. TypeOK
  <2>1. 1 \in Step /\ ops \subseteq Operation
    BY SignInAssumption DEF Init, Step
  <2>2. "idle" \in PC
    BY DEF PC
  <2> QED BY <2>1, <2>2, NothingFacts DEF Init, TypeOK
<1>2. \A p \in Request : pc[p] = "idle" /\ req[p] = Nothing
  BY DEF Init
<1>3. FormInv
  BY <1>2 DEF Init, FormInv, RequestForm, Nothing
<1>4. ConsentInv
  BY <1>2 DEF Init, ConsentInv, CodesConsented
<1>5. GuessInv
  <2> SUFFICES ASSUME NEW u \in User
               PROVE  /\ mfa[u] = None => guesses[u] = 0
                      /\ mfa[u] # None /\ ~mfa[u].locked =>
                           guesses[u] <= mfa[u].failed /\ guesses[u] < MaxMFAFailures
                      /\ guesses[u] + Cardinality(Trying(u)) < MaxMFAFailures + Cardinality(Request)
    BY DEF GuessInv
  <2>1. mfa[u] = None /\ guesses[u] = 0
    BY DEF Init
  <2>2. MaxMFAFailures \in Nat /\ MaxMFAFailures > 0
    BY SignInAssumption
  <2> QED BY <2>1, <2>2, Counts
<1>6. \A u \in User : mfa[u] = None /\ ~Enabled(u)
  BY DEF Init, Enabled
<1>7. SecretInv
  BY <1>2, <1>6 DEF SecretInv
<1>8. UseInv
  <2>1. \A u \in User : recovery[u] = {} /\ \A c \in Code : uses[u][c] = 0
    BY DEF Init
  <2> QED BY <1>6, <2>1 DEF UseInv, UseForm, Code
<1>9. PasswordInv
  BY <1>6 DEF PasswordInv
<1>10. BarredInv
  BY DEF Init, BarredInv
<1> QED BY <1>1, <1>3, <1>4, <1>5, <1>7, <1>8, <1>9, <1>10 DEF SignInInv

\* every request that a browser sends keeps it,
LEMMA BrowserRequestStep ==
  ASSUME SignInInv, NEW p \in Request, NEW b \in Browser, BrowserRequest(p, b)
  PROVE  SignInInv'
<1>0. TypeOK
  BY DEF SignInInv
<1>1. /\ Requested \subseteq SUBSET Scope /\ {} \in SUBSET Scope /\ Presented \subseteq Code \cup {None}
      /\ page[b] \in SUBSET Scope
  BY <1>0 DEF Requested, Presented, Code, TypeOK
<1>2. ASSUME NEW u \in User, NEW scope \in SUBSET Scope, NEW purpose \in {"login", "device"},
             HandleLogin(p, b, u, purpose, scope)
      PROVE  SignInInv'
  BY <1>2, HandleLoginStep
<1>3. ASSUME NEW code \in Code \cup {None}, NEW scope \in SUBSET Scope, NEW purpose \in {"login", "device"},
             CompleteMFA(p, b, purpose, code, scope)
      PROVE  SignInInv'
  BY <1>3, CompleteMFAStep
<1>4. ASSUME NEW doing \in {"authorize", "consent", "logout"}, NEW scope \in SUBSET Scope,
             WithSession(p, b, doing, scope)
      PROVE  SignInInv'
  BY <1>4, WithSessionStep
<1> QED BY <1>1, <1>2, <1>3, <1>4 DEF BrowserRequest, HandleAuthorize, HandleConsent, HandleLogout

\* and every request about an account,
LEMMA AccountRequestStep ==
  ASSUME SignInInv, NEW p \in Request, NEW u \in User, AccountRequest(p, u)
  PROVE  SignInInv'
<1>1. Presented \subseteq Code \cup {None}
  BY DEF Presented, Code
<1>2. ASSUME NEW secret \in Secret, BeginTOTP(p, u, secret)
      PROVE  SignInInv'
  BY <1>2, BeginTOTPStep
<1>3. ASSUME NEW code \in Code \cup {None}, ConfirmTOTP(p, u, code)
      PROVE  SignInInv'
  BY <1>3, AboutMFAStep DEF ConfirmTOTP
<1>4. ASSUME NEW code \in Code \cup {None}, Disable(p, u, code)
      PROVE  SignInInv'
  BY <1>4, AboutMFAStep DEF Disable
<1>5. ASSUME NEW code \in Code \cup {None}, RegenerateRecoveryCodes(p, u, code)
      PROVE  SignInInv'
  BY <1>5, AboutMFAStep DEF RegenerateRecoveryCodes
<1>6. ASSUME Reset(p, u)
      PROVE  SignInInv'
  BY <1>6, AboutMFAStep DEF Reset
<1>7. ASSUME NEW st \in {"active", "suspended", "locked"}, UpdateStatus(p, u, st)
      PROVE  SignInInv'
  BY <1>7, UpdateStatusStep
<1> QED BY <1>1, <1>2, <1>3, <1>4, <1>5, <1>6, <1>7 DEF AccountRequest

\* and every statement of a request,
LEMMA StatementStep ==
  ASSUME SignInInv, NEW p \in Request, Statement(p)
  PROVE  SignInInv'
<1>1. CASE MfaRequired(p) \/ GetUser(p) \/ Verify(p) \/ UseStep(p) \/ UseRecoveryCode(p)
  BY <1>1, MfaRequiredStep, GetUserStep, VerifyStep, UseStepStep, UseRecoveryCodeStep
<1>2. CASE RecordFailure(p) \/ EndOldSession(p) \/ (\E s \in Session : CreateSession(p, s))
  BY <1>2, RecordFailureStep, EndOldSessionStep, CreateSessionStep
<1>3. CASE ContinueAuthorization(p) \/ IssueAuthorizationCode(p) \/ ApplyDeviceDecision(p)
  BY <1>3, ContinueStep, IssueStep
<1>4. CASE GetSession(p) \/ GetSessionUser(p) \/ EndSession(p) \/ GetConsent(p) \/ UpsertConsent(p)
  BY <1>4, GetSessionStep, GetSessionUserStep, GetConsentStep, UpsertConsentStep
<1>5. CASE CheckEnrollment(p) \/ (\E r \in Recovery : Confirm(p, r) \/ ReplaceCodes(p, r))
  BY <1>5, CheckEnrollmentStep, ConfirmStep, ReplaceCodesStep
<1>6. CASE EndSessions(p) \/ GetMFA(p) \/ DeleteMFA(p) \/ IsEnabled(p)
  BY <1>6, EndSessionsStep, LooksStep, DeleteMFAStep
<1> QED BY <1>1, <1>2, <1>3, <1>4, <1>5, <1>6 DEF Statement

\* and so every step does.
LEMMA SignInNext ==
  ASSUME SignInInv, [Next]_vars
  PROVE  SignInInv'
<1>1. CASE Next
  BY <1>1, BrowserRequestStep, AccountRequestStep, StatementStep, AbortStep, PassingStep DEF Next
<1>2. CASE UNCHANGED vars
  <2>1. /\ UNCHANGED <<status, mfa, recovery, session, dated, consent>> /\ UNCHANGED <<cookie, pending, page>>
        /\ UNCHANGED <<now, ops>> /\ UNCHANGED request /\ UNCHANGED <<spent, uses, proven>>
        /\ UNCHANGED <<guesses, approved, barred, disturbed>>
    BY <1>2 DEF vars, tables, browser, history
  <2>2. TypeOK'
    BY <2>1 DEF SignInInv, TypeOK, request
  <2>3. \A u \in User : SameSecret(u)
    BY <2>1 DEF SameSecret
  <2> QED BY <2>1, <2>2, <2>3, PassingKept
<1> QED BY <1>1, <1>2

-----------------------------------------------------------------------------
(* Theorems *)

\* The inductive invariant holds throughout: what requests carry, what is stored of second
\* factors, sessions and consents, and what was seen of them, agree in every state.
THEOREM SignInInvariance == Spec => []SignInInv
<1>1. Init => SignInInv
  BY SignInInit
<1>2. SignInInv /\ [Next]_vars => SignInInv'
  BY SignInNext
<1> QED BY <1>1, <1>2, PTL DEF Spec

\* Tables, browsers, requests and history have their types.
THEOREM TypeCorrect == Spec => []TypeOK
<1>1. SignInInv => TypeOK
  BY DEF SignInInv
<1> QED BY <1>1, SignInInvariance, PTL

\* A code of an authenticator, or a recovery code, is accepted at most once, whatever logins,
\* device approvals, confirmations and changes of the authenticator run at the same time:
\* UseStep, Confirm and UseRecoveryCode check and spend it in one update.
THEOREM SecondFactorsCountOnce == Spec => []CodeCountsOnce
<1>1. SignInInv => CodeCountsOnce
  BY DEF SignInInv, UseInv, UseForm, CodeCountsOnce, Code
<1> QED BY <1>1, SignInInvariance, PTL

\* The authenticator that is enabled is one whose code the user has shown to CheckEnrollment.
THEOREM AuthenticatorsProven == Spec => []AuthenticatorProven
<1>1. SignInInv => AuthenticatorProven
  BY DEF SignInInv, SecretInv, AuthenticatorProven
<1> QED BY <1>1, SignInInvariance, PTL

\* Requests that read the count of wrong codes at the same time exceed the limit by at most
\* one try each, however many there are: RecordFailure counts in the database.
THEOREM SecondFactorGuessesLimited == Spec => []SecondFactorGuessesBounded
<1>1. ASSUME SignInInv, NEW u \in User
      PROVE  guesses[u] <= (MaxMFAFailures - 1) + Cardinality(Request)
  <2>1. guesses[u] + Cardinality(Trying(u)) < MaxMFAFailures + Cardinality(Request)
    BY <1>1 DEF SignInInv, GuessInv
  <2>2. guesses[u] \in Nat /\ MaxMFAFailures \in Nat
    BY <1>1, SignInAssumption DEF SignInInv, TypeOK
  <2> QED BY <2>1, <2>2, Counts
<1>2. SignInInv => SecondFactorGuessesBounded
  BY <1>1 DEF SecondFactorGuessesBounded
<1> QED BY <1>2, SignInInvariance, PTL

\* Sessions opened with the password alone do not outlive the enabling of a second factor:
\* EndSessions deletes them, and no login that skipped the second factor opens another.
THEOREM PasswordSessionsOver == Spec => []PasswordSessionsEnd
<1>1. SignInInv => PasswordSessionsEnd
  BY DEF SignInInv, PasswordInv, PasswordSessionsEnd
<1> QED BY <1>1, SignInInvariance, PTL

\* The consent that UpsertConsent stores is what the user has approved, page after page.
THEOREM ConsentsRemembered == Spec => []ConsentRemembered
<1>1. SignInInv => ConsentRemembered
  BY DEF SignInInv, ConsentInv, ConsentRemembered
<1> QED BY <1>1, SignInInvariance, PTL

\* An authorization code is for scopes that its user approved, whether it comes of a stored
\* consent or of the consent page just submitted.
THEOREM CodesAreConsented == Spec => []CodesConsented
<1>1. SignInInv => CodesConsented
  BY DEF SignInInv, ConsentInv
<1> QED BY <1>1, SignInInvariance, PTL

\* While an account is suspended no session of it and no second factor leads to an
\* authorization code: currentSession and the second step of a login look at the status.
THEOREM SuspendedSessionsIssueNone == Spec => []SuspendedSessionIssuesNoCode
<1>1. SignInInv => SuspendedSessionIssuesNoCode
  BY DEF SignInInv, BarredInv, BarredForm, SuspendedSessionIssuesNoCode
<1> QED BY <1>1, SignInInvariance, PTL
=============================================================================
