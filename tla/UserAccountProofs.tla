------------------------- MODULE UserAccountProofs -------------------------
(* Proofs about UserAccount, for any number of users, requests, links and  *)
(* codes, any mix of operations, with and without faults.                  *)
EXTENDS UserAccount, FiniteSetTheorems, TLAPS

\* A changed copy is a row of the same user with the same address.
Kept(s, r) == s \in Row /\ s.id = r.id /\ s.email = r.email /\ s.verified = r.verified

\* Setting one column keeps the others.
LEMMA SetFailed ==
  ASSUME NEW r \in Row, NEW n \in 0..MaxLoginAttempts
  PROVE  Kept([r EXCEPT !.failed = n], r) /\ [r EXCEPT !.failed = n].status = r.status
  BY DEF Row, Kept

\* The status.
LEMMA SetUserStatus ==
  ASSUME NEW r \in Row, NEW s \in Status
  PROVE  Kept([r EXCEPT !.status = s], r)
  BY DEF Row, Kept

\* The end of the lock.
LEMMA SetUntil ==
  ASSUME NEW r \in Row, NEW t \in Until
  PROVE  Kept([r EXCEPT !.until = t], r) /\ [r EXCEPT !.until = t].status = r.status
  BY DEF Row, Kept

\* The password.
LEMMA SetPassword ==
  ASSUME NEW r \in Row, NEW pw \in Password
  PROVE  Kept([r EXCEPT !.password = pw], r) /\ [r EXCEPT !.password = pw].status = r.status
  BY DEF Row, Kept

\* What is kept twice is kept.
LEMMA KeptTwice == ASSUME NEW r, NEW s, NEW t, Kept(s, r), Kept(t, s) PROVE Kept(t, r)
  BY DEF Kept

\* The outcome of a login changes neither user, address nor verification.
LEMMA PassedKept == ASSUME NEW r \in Row PROVE Kept(Passed(r), r)
<1> DEFINE st == IF r.status = "locked" THEN "active" ELSE r.status
           a  == [r EXCEPT !.failed = 0]
           b  == [a EXCEPT !.until = "null"]
           c  == [b EXCEPT !.status = st]
<1>1. st \in Status
  BY DEF Row, Status
<1>2. Kept(a, r)
  BY SetFailed, AccountAssumption
<1>3. Kept(b, a)
  BY <1>2, SetUntil DEF Kept, Until
<1>4. Kept(c, b)
  BY <1>1, <1>3, SetUserStatus DEF Kept
<1>5. Passed(r) = c
  BY DEF Passed
<1> HIDE DEF a, b, c
<1> QED
  BY <1>2, <1>3, <1>4, <1>5, KeptTwice

\* Nor does a failed one.
LEMMA FailedKept == ASSUME NEW r \in Row PROVE Kept(Failed(r), r)
<1> DEFINE a == [r EXCEPT !.failed = MaxLoginAttempts]
           b == [a EXCEPT !.status = "locked"]
           c == [b EXCEPT !.until = "running"]
           d == [r EXCEPT !.failed = @ + 1]
<1>1. Kept(a, r)
  BY SetFailed, AccountAssumption
<1>2. Kept(b, a)
  BY <1>1, SetUserStatus DEF Kept, Status
<1>3. Kept(c, b)
  BY <1>2, SetUntil DEF Kept, Until
<1>4. r.failed + 1 < MaxLoginAttempts => Kept(d, r)
  BY AccountAssumption DEF Kept, Row
<1>5. Failed(r) = IF r.failed + 1 >= MaxLoginAttempts THEN c ELSE d
  BY DEF Failed
<1>6. r.failed \in Nat
  BY AccountAssumption DEF Row
<1> HIDE DEF a, b, c, d
<1> QED
  BY <1>1, <1>2, <1>3, <1>4, <1>5, <1>6, KeptTwice, AccountAssumption

\* A reset changes neither user, address nor verification.
LEMMA WithPasswordKept == ASSUME NEW r \in Row, NEW pw \in Password PROVE Kept(WithPassword(r, pw), r)
<1> DEFINE a == [r EXCEPT !.password = pw]
           b == [a EXCEPT !.failed = 0]
           c == [b EXCEPT !.status = "active"]
           d == [c EXCEPT !.until = "null"]
<1>1. Kept(a, r)
  BY SetPassword
<1>a. a \in Row /\ 0 \in 0..MaxLoginAttempts
  BY <1>1, AccountAssumption DEF Kept
<1>2. Kept(b, a)
  <2> HIDE DEF a
  <2> QED
    BY <1>a, SetFailed
<1>3. Kept(c, b)
  BY <1>2, SetUserStatus DEF Kept, Status
<1>4. Kept(d, c)
  BY <1>3, SetUntil DEF Kept, Until
<1>5. WithPassword(r, pw) = IF r.status = "locked" /\ r.until # "null" THEN d ELSE b
  BY DEF WithPassword
<1> HIDE DEF a, b, c, d
<1>6. Kept(b, r) /\ Kept(d, b)
  BY <1>1, <1>2, <1>3, <1>4, KeptTwice
<1> QED
  BY <1>5, <1>6, KeptTwice

\* Verification keeps the user and the address.
LEMMA VerifiedKept == ASSUME NEW r \in Row PROVE Verified(r) \in Row /\ Verified(r).id = r.id /\ Verified(r).email = r.email
  BY DEF Verified, Row, Status

\* Time changes neither user, address nor verification.
LEMMA LockEndsKept == ASSUME NEW r \in Row PROVE Kept(LockEnds(r), r)
  BY RowAssumption, SetUntil DEF LockEnds, Kept, Until

\* The changes of the administrator keep user, address and verification.
LEMMA BlockKept ==
  ASSUME NEW r \in Row, NEW until \in Until
  PROVE  /\ Kept([r EXCEPT !.status = "locked", !.until = until], r)
         /\ Kept([r EXCEPT !.status = "active", !.failed = 0, !.until = "null"], r)
<1> DEFINE a == [r EXCEPT !.status = "locked"]
           b == [a EXCEPT !.until = until]
           c == [r EXCEPT !.status = "active"]
           d == [c EXCEPT !.failed = 0]
           e == [d EXCEPT !.until = "null"]
<1>1. Kept(a, r) /\ Kept(c, r)
  BY SetUserStatus DEF Status
<1>2. Kept(b, a)
  BY <1>1, SetUntil DEF Kept
<1>c. c \in Row /\ 0 \in 0..MaxLoginAttempts
  BY <1>1, AccountAssumption DEF Kept
<1>3. Kept(d, c)
  <2> HIDE DEF c
  <2> QED
    BY <1>c, SetFailed
<1>4. Kept(e, d)
  BY <1>3, SetUntil DEF Kept, Until
<1>5. /\ [r EXCEPT !.status = "locked", !.until = until] = b
      /\ [r EXCEPT !.status = "active", !.failed = 0, !.until = "null"] = e
  OBVIOUS
<1> HIDE DEF a, b, c, d, e
<1>6. Kept(d, r)
  BY <1>1, <1>3, KeptTwice
<1> QED
  BY <1>1, <1>2, <1>4, <1>5, <1>6, KeptTwice

\* A profile update keeps the user and the verification.
Profile(r, e, pw) == [r EXCEPT !.email = e, !.password = pw]

\* Its e-mail address and password are the new ones.
LEMMA UpdateKept ==
  ASSUME NEW r \in Row, NEW e \in Address, NEW pw \in Password
  PROVE  /\ Profile(r, e, pw) \in Row /\ Profile(r, e, pw).id = r.id
         /\ Profile(r, e, pw).email = e /\ Profile(r, e, pw).verified = r.verified
<1> DEFINE a == [r EXCEPT !.email = e]
<1>1. a \in Row /\ a.id = r.id /\ a.email = e /\ a.verified = r.verified
  BY DEF Row
<1>2. Profile(r, e, pw) = [a EXCEPT !.password = pw]
  BY DEF Profile
<1> HIDE DEF a
<1> QED
  BY <1>1, <1>2, SetPassword DEF Kept

\* With empty tables and idle requests the invariant holds.
LEMMA InvInit == Init => AccountInv
<1> SUFFICES ASSUME Init PROVE AccountInv
  OBVIOUS
<1>1. TypeOK
  BY AccountAssumption DEF Init, TypeOK, TableTypes, RequestTypes, HistoryTypes, PC, Doing
<1>2. FormInv
  BY DEF Init, FormInv, TableForm, RequestForm, Exists, WithCopy
<1>3. LinkInv
  BY DEF Init, LinkInv, LinkWorksOnce
<1>4. AddressInv
  BY DEF Init, AddressInv, VerifiedIsProved, Exists, Saving
<1>5. MailInv
  <2> SUFFICES ASSUME NEW u \in User
               PROVE  CountSince(u) + Cardinality({p \in Request : op[p] = "request" /\ who[p] = u})
                        < MaxPasswordResetsPerHour + Cardinality(Request)
    BY DEF MailInv
  <2>1. {l \in Link : linkUser[l] = u /\ linkStatus[l] # "deleted" /\ l \notin aged} = {}
    BY AccountAssumption DEF Init
  <2>2. {p \in Request : op[p] = "request" /\ who[p] = u} = {}
    BY DEF Init
  <2>3. Cardinality({}) = 0 /\ Cardinality(Request) \in Nat
    BY FS_EmptySet, FS_CardinalityType, AccountAssumption
  <2>4. CountSince(u) = 0
    BY <2>1, <2>3 DEF CountSince
  <2>5. Cardinality({p \in Request : op[p] = "request" /\ who[p] = u}) = 0
    BY <2>2, <2>3
  <2> QED
    BY <2>3, <2>4, <2>5, AccountAssumption
<1> QED
  BY <1>1, <1>2, <1>3, <1>4, <1>5 DEF AccountInv

\* A request that begins with values of the right types keeps the types of requests.
LEMMA BeginTypes ==
  ASSUME TypeOK, NEW p \in Request, NEW doing \in Doing, NEW next \in PC, NEW u \in User,
         NEW r \in Row \cup {None}, NEW i \in Link \cup Code \cup {None},
         NEW pw \in Password \cup {None}, Begin(p, doing, next, u, r, i, pw)
  PROVE  RequestTypes' /\ disturbed' \subseteq User
<1> USE DEF TypeOK, RequestTypes, HistoryTypes
<1>1. pc' \in [Request -> PC] /\ op' \in [Request -> Doing] /\ who' \in [Request -> User \cup {None}]
  BY DEF Begin
<1>2. copy' \in [Request -> Row \cup {None}] /\ ops' \subseteq Operation
  BY DEF Begin
<1>3. item' \in [Request -> Link \cup Code \cup {None}] /\ secret' \in [Request -> Password \cup {None}]
  BY DEF Begin
<1>4. disturbed' \subseteq User
  BY DEF Begin
<1> QED
  BY <1>1, <1>2, <1>3, <1>4

\* A request that goes on or returns keeps them too.
LEMMA GoTypes ==
  ASSUME TypeOK, NEW p \in Request, NEW next \in PC, Goto(p, next) \/ Return(p)
  PROVE  RequestTypes'
<1> USE DEF TypeOK, RequestTypes
<1>1. CASE Goto(p, next)
  BY <1>1 DEF Goto
<1>2. CASE Return(p)
  <2>1. pc' \in [Request -> PC] /\ op' \in [Request -> Doing] /\ who' \in [Request -> User \cup {None}]
    BY <1>2 DEF Return, PC, Doing
  <2>2. copy' \in [Request -> Row \cup {None}] /\ item' \in [Request -> Link \cup Code \cup {None}]
    BY <1>2 DEF Return
  <2>3. secret' \in [Request -> Password \cup {None}] /\ ops' \subseteq Operation
    BY <1>2 DEF Return
  <2> QED
    BY <2>1, <2>2, <2>3
<1> QED
  BY <1>1, <1>2

\* Every step keeps the types.
LEMMA TypeNext == TypeOK /\ FormInv /\ [Next]_vars => TypeOK'
<1> SUFFICES ASSUME TypeOK, FormInv, [Next]_vars PROVE TypeOK'
  OBVIOUS
<1> USE AccountAssumption, RowAssumption
    DEF TypeOK, TableTypes, RequestTypes, HistoryTypes, tables, links, codes, request, history, Begin, Goto, Return
<1>0. /\ PC = {"idle", "readAttempt", "saveAttempt", "createSession", "save", "endSessions", "deleteUser",
               "startVerification", "deletePending", "createCode", "markVerified", "revokeLinks", "createLink",
               "markUsed"}
      /\ Doing = {"none", "passed", "failed", "password", "block", "unblock", "edit", "delete", "verify",
                  "send", "request", "reset"}
  BY DEF PC, Doing
<1>a. \A u \in User : Exists(u) => row[u] \in Row /\ row[u].id = u
  BY DEF Exists, FormInv, TableForm, RequestForm
<1>1. ASSUME NEW p \in Request, NEW u \in User, NEW e \in Address, NEW pw \in Password, Create(p, u, e, pw)
      PROVE  TypeOK'
  <2>1. [id |-> u, email |-> e, password |-> pw, status |-> "pending", until |-> "null",
         failed |-> 0, verified |-> FALSE] \in Row
    BY DEF Row, Status, Until
  <2>2. TableTypes'
    BY <1>1, <2>1 DEF Create, UserCreate
  <2>3. RequestTypes' /\ disturbed' \subseteq User
    <3> HIDE DEF Begin, RequestTypes, TypeOK
    <3>1. CASE Begin(p, "send", "startVerification", u, None, None, None)
      BY <1>0, <3>1, BeginTypes
    <3>2. CASE UNCHANGED <<request, disturbed>>
      BY <3>2 DEF RequestTypes, TypeOK
    <3> QED
      BY <1>1, <3>1, <3>2 DEF Create
  <2> QED
    BY <1>1, <2>2, <2>3 DEF Create
<1>2. ASSUME NEW p \in Request, NEW u \in User, NEW pw \in Password, Authenticate(p, u, pw)
      PROVE  TypeOK'
  <2>1. row[u] \in Row
    BY <1>2, <1>a DEF Authenticate
  <2>2. TableTypes' /\ RequestTypes'
    BY <1>0, <1>2, <2>1 DEF Authenticate
  <2>3. guesses' \in [User -> 0..(MaxLoginAttempts + 1)]
    BY <1>2 DEF Authenticate
  <2>4. disturbed' \subseteq User
    BY <1>2 DEF Authenticate
  <2> QED
    BY <1>2, <2>2, <2>3, <2>4 DEF Authenticate
<1>3. ASSUME NEW p \in Request, NEW r \in Row, NEW doing \in Doing, Edit(p, doing, r),
             switched' \in [User -> SUBSET Address]
      PROVE  TypeOK'
  <2>1. r.id \in User
    BY DEF Row
  <2> QED
    BY <1>0, <1>3, <2>1 DEF Edit
<1>4. ASSUME NEW p \in Request, NEW u \in User, NEW old \in Password, NEW new \in Password,
             ChangePassword(p, u, old, new)
      PROVE  TypeOK'
  <2>1. [row[u] EXCEPT !.password = new] \in Row
    BY <1>4, <1>a DEF ChangePassword, Row
  <2> QED
    BY <1>0, <1>3, <1>4, <2>1 DEF ChangePassword
<1>5. ASSUME NEW p \in Request, NEW u \in User, NEW e \in Address, NEW pw \in Password \cup {None},
             Update(p, u, e, pw)
      PROVE  TypeOK'
  <2>1. [row[u] EXCEPT !.email = e] \in Row
    BY <1>5, <1>a DEF Update, Row
  <2>2. pw # None => [row[u] EXCEPT !.email = e, !.password = pw] \in Row
    BY <1>5, <1>a, UpdateKept DEF Update, Profile
  <2>3. switched' \in [User -> SUBSET Address]
    BY <1>5 DEF Update
  <2> QED
    BY <1>0, <1>3, <1>5, <2>1, <2>2, <2>3 DEF Update
<1>6. ASSUME NEW p \in Request, NEW u \in User, NEW s \in Status, UpdateStatus(p, u, s)
      PROVE  TypeOK'
  <2>1. [row[u] EXCEPT !.status = s] \in Row
    BY <1>6, <1>a DEF UpdateStatus, Row
  <2> QED
    BY <1>0, <1>3, <1>6, <2>1 DEF UpdateStatus
<1>7. ASSUME NEW p \in Request, NEW u \in User, NEW until \in {"null", "running"}, LockUser(p, u, until)
      PROVE  TypeOK'
  <2>1. [row[u] EXCEPT !.status = "locked", !.until = until] \in Row
    BY <1>7, <1>a, BlockKept DEF LockUser, Kept, Until
  <2> QED
    BY <1>0, <1>3, <1>7, <2>1 DEF LockUser
<1>8. ASSUME NEW p \in Request, NEW u \in User, UnlockUser(p, u)
      PROVE  TypeOK'
  <2>1. [row[u] EXCEPT !.status = "active", !.failed = 0, !.until = "null"] \in Row
    BY <1>8, <1>a, BlockKept DEF UnlockUser, Kept, Until
  <2> QED
    BY <1>0, <1>3, <1>8, <2>1 DEF UnlockUser
<1>9. ASSUME NEW p \in Request, NEW u \in User,
             Delete(p, u) \/ SendVerificationEmail(p, u) \/ RequestPasswordReset(p, u)
      PROVE  TypeOK'
  <2>1. /\ \E doing \in Doing, next \in PC : Begin(p, doing, next, u, None, None, None)
        /\ UNCHANGED <<tables, told, set, proved, switched, guesses, adminLocked>>
    <3> HIDE DEF Begin, RequestTypes, TypeOK
    <3> QED
      BY <1>0, <1>9 DEF Delete, SendVerificationEmail, RequestPasswordReset
  <2>2. RequestTypes' /\ disturbed' \subseteq User
    <3> HIDE DEF Begin, RequestTypes, TypeOK
    <3> QED
      BY <2>1, BeginTypes
  <2> HIDE DEF Begin, RequestTypes
  <2> QED
    BY <2>1, <2>2
<1>10. ASSUME NEW p \in Request, NEW c \in Code, VerifyEmail(p, c) PROVE TypeOK'
  <2>1. codeUser[c] \in User
    BY <1>10 DEF VerifyEmail, FormInv, TableForm, RequestForm
  <2> QED
    BY <1>0, <1>10, <1>a, <2>1, VerifiedKept DEF VerifyEmail
<1>11. ASSUME NEW p \in Request, NEW l \in Link, NEW pw \in Password, ResetPassword(p, l, pw) PROVE TypeOK'
  <2>1. linkUser[l] \in User
    BY <1>11 DEF ResetPassword, FormInv, TableForm, RequestForm
  <2> QED
    BY <1>0, <1>11, <1>a, <2>1, WithPasswordKept DEF ResetPassword, Kept
<1>12. ASSUME NEW p \in Request, ReadAttempt(p) PROVE TypeOK'
  <2>1. who[p] \in User
    BY <1>12 DEF ReadAttempt, FormInv, RequestForm
  <2>2. UNCHANGED <<tables, told, set, proved, switched, guesses, adminLocked>>
    BY <1>12 DEF ReadAttempt
  <2>3. CASE AfterAttempt(p) /\ disturbed' = disturbed \cup {who[p]}
    <3>1. RequestTypes'
      <4> HIDE DEF Goto, Return, RequestTypes, TypeOK
      <4> QED
        BY <1>0, <2>3, GoTypes DEF AfterAttempt
    <3> QED
      BY <2>1, <2>2, <2>3, <3>1
  <2>4. ASSUME NEW v \in User, Exists(v),
               copy' = [copy EXCEPT ![p] = IF op[p] = "passed" THEN Passed(row[v]) ELSE Failed(row[v])],
               pc' = [pc EXCEPT ![p] = "saveAttempt"], UNCHANGED <<op, who, item, secret, ops>>,
               disturbed' = IF v = who[p] THEN disturbed ELSE disturbed \cup {v}
        PROVE  TypeOK'
    <3>1. copy' \in [Request -> Row \cup {None}]
      BY <2>4, <1>a, PassedKept, FailedKept DEF Kept
    <3>2. pc' \in [Request -> PC]
      BY <1>0, <2>4
    <3> QED
      BY <2>2, <2>4, <3>1, <3>2
  <2> QED
    BY <1>12, <2>3, <2>4 DEF ReadAttempt
<1>13. ASSUME NEW p \in Request, SaveAttempt(p) PROVE TypeOK'
  <2>1. copy[p] \in Row /\ who[p] \in User
    BY <1>13 DEF SaveAttempt, FormInv, TableForm, RequestForm, WithCopy
  <2>2. row' \in [User -> Row \cup {None, Deleted}] /\ disturbed' \subseteq User
    BY <1>13, <2>1 DEF SaveAttempt, UserUpdate
  <2>3. RequestTypes'
    <3> HIDE DEF Goto, Return, RequestTypes, TypeOK
    <3> QED
      BY <1>0, <1>13, GoTypes DEF SaveAttempt, AfterAttempt
  <2> QED
    BY <1>13, <2>2, <2>3 DEF SaveAttempt
<1>14. ASSUME NEW p \in Request, CreateSession(p) PROVE TypeOK'
  <2>1. who[p] \in User /\ secret[p] \in Password
    BY <1>14 DEF CreateSession, FormInv, TableForm, RequestForm
  <2> QED
    BY <1>0, <1>14, <2>1 DEF CreateSession
<1>15. ASSUME NEW p \in Request, Save(p) PROVE TypeOK'
  <2>1. copy[p] \in Row
    BY <1>15 DEF Save, FormInv, TableForm, RequestForm, WithCopy
  <2>2. copy[p].id \in User /\ copy[p].password \in Password
    BY <2>1 DEF Row
  <2>3. TableTypes'
    BY <1>15, <2>1 DEF Save, UserUpdate
  <2>4. RequestTypes'
    <3> HIDE DEF Goto, Return, RequestTypes, TypeOK
    <3> QED
      BY <1>0, <1>15, GoTypes DEF Save
  <2>5. HistoryTypes'
    BY <1>15, <2>2 DEF Save, SaveHistory
  <2> QED
    BY <2>3, <2>4, <2>5
<1>r. ASSUME NEW p \in Request, NEW next \in PC, Goto(p, next) \/ Return(p) PROVE RequestTypes'
  <2> HIDE DEF Goto, Return, TypeOK, RequestTypes
  <2> QED
    BY <1>r, GoTypes
<1> HIDE DEF Goto, Return
<1>16. ASSUME NEW p \in Request, EndSessions(p) PROVE TypeOK'
  <2>1. RequestTypes'
    <3> HIDE DEF RequestTypes, TypeOK
    <3> QED
      BY <1>0, <1>16, <1>r DEF EndSessions
  <2> QED
    BY <1>16, <2>1 DEF EndSessions, SessionDeleteByUserID
<1>17. ASSUME NEW p \in Request, DeleteRow(p) PROVE TypeOK'
  <2>1. RequestTypes'
    <3> HIDE DEF RequestTypes, TypeOK
    <3> QED
      BY <1>0, <1>17, <1>r DEF DeleteRow
  <2> QED
    BY <1>17, <2>1 DEF DeleteRow, UserDelete
<1>18. ASSUME NEW p \in Request, StartVerification(p) PROVE TypeOK'
  <2>1. who[p] \in User
    BY <1>18 DEF StartVerification, FormInv, TableForm, RequestForm
  <2>2. RequestTypes'
    <3>1. CASE Return(p)
      <4> HIDE DEF RequestTypes, TypeOK
      <4> QED
        BY <1>0, <1>r, <3>1
    <3>2. CASE ~Return(p)
      <4>1. /\ Exists(who[p]) /\ pc' = [pc EXCEPT ![p] = "deletePending"]
            /\ copy' = [copy EXCEPT ![p] = row[who[p]]] /\ UNCHANGED <<op, who, item, secret, ops>>
        BY <1>18, <3>2 DEF StartVerification
      <4>2. row[who[p]] \in Row
        BY <1>a, <2>1, <4>1
      <4> QED
        BY <1>0, <4>1, <4>2
    <3> QED
      BY <3>1, <3>2
  <2> QED
    BY <1>18, <2>2 DEF StartVerification
<1>19. ASSUME NEW p \in Request, DeletePending(p) PROVE TypeOK'
  <2>1. RequestTypes'
    <3> HIDE DEF RequestTypes, TypeOK
    <3> QED
      BY <1>0, <1>19, <1>r DEF DeletePending
  <2> QED
    BY <1>19, <2>1 DEF DeletePending, VerificationDeletePendingByUserID
<1>20. ASSUME NEW p \in Request, NEW c \in Code, CreateCode(p, c) PROVE TypeOK'
  <2>1. who[p] \in User /\ copy[p].email \in Address
    BY <1>20 DEF CreateCode, FormInv, TableForm, RequestForm, WithCopy, Row
  <2>2. RequestTypes'
    <3> HIDE DEF RequestTypes, TypeOK
    <3> QED
      BY <1>0, <1>20, <1>r DEF CreateCode
  <2> QED
    BY <1>20, <2>1, <2>2 DEF CreateCode, VerificationCreate
<1>21. ASSUME NEW p \in Request, MarkVerified(p) PROVE TypeOK'
  <2>1. who[p] \in User /\ item[p] \in Code
    BY <1>21 DEF MarkVerified, FormInv, TableForm, RequestForm
  <2>2. codeStatus[item[p]] = "pending" => codeAddr[item[p]] \in Address
    BY <2>1 DEF FormInv, TableForm, RequestForm
  <2>3. RequestTypes'
    <3> HIDE DEF RequestTypes, TypeOK
    <3> QED
      BY <1>0, <1>21, <1>r DEF MarkVerified
  <2>4. proved' \in [User -> SUBSET Address]
    BY <1>21, <2>1, <2>2 DEF MarkVerified
  <2>5. TableTypes'
    BY <1>21, <2>1 DEF MarkVerified
  <2> QED
    BY <1>21, <2>3, <2>4, <2>5 DEF MarkVerified
<1>22. ASSUME NEW p \in Request, RevokeLinks(p) PROVE TypeOK'
  <2>1. RequestTypes'
    <3> HIDE DEF RequestTypes, TypeOK
    <3> QED
      BY <1>0, <1>22, <1>r DEF RevokeLinks
  <2> QED
    BY <1>22, <2>1 DEF RevokeLinks, ResetRevokeUnusedByUserID
<1>23. ASSUME NEW p \in Request, NEW l \in Link, CreateLink(p, l) PROVE TypeOK'
  <2>1. who[p] \in User
    BY <1>23 DEF CreateLink, FormInv, TableForm, RequestForm
  <2>2. RequestTypes'
    <3> HIDE DEF RequestTypes, TypeOK
    <3> QED
      BY <1>0, <1>23, <1>r DEF CreateLink
  <2> QED
    BY <1>23, <2>1, <2>2 DEF CreateLink, ResetCreate
<1>24. ASSUME NEW p \in Request, MarkUsed(p) PROVE TypeOK'
  <2>1. item[p] \in Link
    BY <1>24 DEF MarkUsed, FormInv, TableForm, RequestForm
  <2>2. RequestTypes'
    <3> HIDE DEF RequestTypes, TypeOK
    <3> QED
      BY <1>0, <1>24, <1>r DEF MarkUsed
  <2> QED
    BY <1>24, <2>1, <2>2 DEF MarkUsed
<1>25. ASSUME NEW p \in Request, Abort(p) PROVE TypeOK'
  <2>1. who[p] \in User
    BY <1>25 DEF Abort, FormInv, TableForm, RequestForm
  <2>2. RequestTypes'
    <3> HIDE DEF RequestTypes, TypeOK
    <3> QED
      BY <1>0, <1>25, <1>r DEF Abort
  <2> QED
    BY <1>25, <2>1, <2>2 DEF Abort
<1>26. CASE EndSession \/ Age \/ CleanupExpired
  BY <1>26 DEF EndSession, Age, CleanupExpired
<1>27. CASE LockoutPasses
  <2>1. \A r \in Row \cup {None, Deleted} : LockEnds(r) \in Row \cup {None, Deleted} /\ (r # Deleted => LockEnds(r) # Deleted)
    BY LockEndsKept DEF LockEnds, Kept
  <2> QED
    BY <1>27, <2>1 DEF LockoutPasses
<1>28. CASE UNCHANGED vars
  BY <1>28 DEF vars
<1> HIDE DEF TypeOK
<1>29. ASSUME NEW p \in Request, Start(p) PROVE TypeOK'
  BY <1>1, <1>2, <1>4, <1>5, <1>6, <1>7, <1>8, <1>9, <1>10, <1>11, <1>29
  DEF Start, HandleLogin, CreateUser, UpdateUser, PutPassword, DeleteUser, ResendVerification,
      OpenVerificationLink, ForgotPassword, SubmitReset, SetStatus, Lock, Unlock
<1>30. ASSUME NEW p \in Request, Continue(p) PROVE TypeOK'
  BY <1>12, <1>13, <1>14, <1>15, <1>16, <1>17, <1>18, <1>19, <1>20, <1>21, <1>22, <1>23, <1>24, <1>30 DEF Continue
<1> QED
  BY <1>25, <1>26, <1>27, <1>28, <1>29, <1>30 DEF Next

-----------------------------------------------------------------------------
(* What the steps of a request change *)

\* Only the slot of request p changes.
Others(p) ==
  \A q \in Request \ {p} :
    /\ pc'[q] = pc[q] /\ op'[q] = op[q] /\ who'[q] = who[q]
    /\ copy'[q] = copy[q] /\ item'[q] = item[q] /\ secret'[q] = secret[q]

\* A request changes no other one.
LEMMA BeginOthers ==
  ASSUME TypeOK, NEW p \in Request, NEW doing, NEW next, NEW u, NEW r, NEW i, NEW pw,
         Begin(p, doing, next, u, r, i, pw)
  PROVE  /\ Others(p)
         /\ pc[p] = "idle" /\ pc'[p] = next /\ op'[p] = doing /\ who'[p] = u
         /\ copy'[p] = r /\ item'[p] = i /\ secret'[p] = pw
  BY DEF TypeOK, RequestTypes, Begin, Others

\* Going on moves only the slot's pc.
LEMMA GotoOthers ==
  ASSUME TypeOK, NEW p \in Request, NEW next, Goto(p, next)
  PROVE  /\ Others(p)
         /\ next # "idle" /\ pc'[p] = next /\ op'[p] = op[p] /\ who'[p] = who[p]
         /\ copy'[p] = copy[p] /\ item'[p] = item[p] /\ secret'[p] = secret[p]
  BY DEF TypeOK, RequestTypes, Goto, Others

\* Returning empties the slot.
LEMMA ReturnOthers ==
  ASSUME TypeOK, NEW p \in Request, Return(p)
  PROVE  /\ Others(p)
         /\ pc'[p] = "idle" /\ op'[p] = "none" /\ who'[p] = None
         /\ copy'[p] = None /\ item'[p] = None /\ secret'[p] = None
  BY DEF TypeOK, RequestTypes, Return, Others

\* The slot a request that has just started is in.
Started(p) ==
  /\ pc'[p] \in {"readAttempt", "save", "deleteUser", "startVerification", "markVerified", "revokeLinks", "markUsed"}
  /\ RequestForm(p)'
  /\ op'[p] = "reset" => pc'[p] = "markUsed"
  /\ op'[p] = "request" => who'[p] \in User /\ CountSince(who'[p]) < MaxPasswordResetsPerHour
  /\ pc'[p] = "markVerified" => codeStatus[item'[p]] = "pending" /\ codeAddr[item'[p]] = copy'[p].email
  /\ pc'[p] \in Saving =>
       \E u \in User : /\ Exists(u) /\ copy'[p].id = u /\ copy'[p].verified = row[u].verified
                       /\ row[u].verified => copy'[p].email = row[u].email \/ copy'[p].email \in switched'[u]

\* A step that starts a request, and at most creates a user.
StartStep(p) ==
  /\ pc[p] = "idle"
  /\ Others(p)
  /\ UNCHANGED <<sessions, links, codes, aged, set, proved>>
  /\ \A u \in User : switched[u] \subseteq switched'[u]
  /\ row' = row \/ \E r \in Row : ~r.verified /\ row' = [row EXCEPT ![r.id] = r]
  /\ UNCHANGED <<pc, op, who, copy, item, secret>> \/ Started(p)

\* Every operation starts that way.
LEMMA StartFacts ==
  ASSUME TypeOK, FormInv, NEW p \in Request, Start(p) PROVE StartStep(p)
<1> USE AccountAssumption, RowAssumption DEF TypeOK
<1>a. \A u \in User : Exists(u) => row[u] \in Row /\ row[u].id = u
  BY DEF Exists, FormInv, TableForm, TableTypes
<1>b. \A u \in User : u # None
  OBVIOUS
<1>1. ASSUME NEW u \in User, NEW e \in Address, NEW pw \in Password, Create(p, u, e, pw)
      PROVE  StartStep(p)
  <2> DEFINE r == [id |-> u, email |-> e, password |-> pw, status |-> "pending", until |-> "null",
                   failed |-> 0, verified |-> FALSE]
  <2>1. r \in Row /\ ~r.verified /\ r.id = u
    BY DEF Row, Status, Until
  <2>2. row' = [row EXCEPT ![r.id] = r]
    BY <1>1 DEF Create, UserCreate
  <2> HIDE DEF r
  <2>3. UNCHANGED <<sessions, links, codes, aged, set, proved, switched>>
    BY <1>1 DEF Create
  <2>4. CASE Begin(p, "send", "startVerification", u, None, None, None)
    <3>1. Started(p)
      BY <1>b, <2>4, BeginOthers DEF Started, Saving, RequestForm, WithCopy
    <3> QED
      BY <2>1, <2>2, <2>3, <2>4, <3>1, BeginOthers DEF StartStep
  <2>5. CASE pc[p] = "idle" /\ UNCHANGED request
    BY <2>1, <2>2, <2>3, <2>5 DEF StartStep, request, Others
  <2> QED
    BY <1>1, <2>4, <2>5 DEF Create
<1>2. ASSUME NEW u \in User, NEW pw \in Password, Authenticate(p, u, pw)
      PROVE  StartStep(p)
  <2> DEFINE doing == IF pw = row[u].password THEN "passed" ELSE "failed"
  <2>1. Begin(p, doing, "readAttempt", u, row[u], None, pw) /\ row[u] \in Row
    BY <1>2, <1>a DEF Authenticate
  <2>2. doing \in {"passed", "failed"}
    OBVIOUS
  <2> HIDE DEF doing
  <2>3. Started(p)
    BY <1>b, <2>1, <2>2, BeginOthers DEF Started, Saving, RequestForm, WithCopy
  <2> QED
    BY <1>2, <2>1, <2>3, BeginOthers DEF StartStep, Authenticate, tables, links, codes
<1>3. ASSUME NEW u \in User, NEW r \in Row, NEW doing, Edit(p, doing, r), Exists(u),
             doing \in {"password", "block", "unblock", "edit"},
             r.id = u, r.verified = row[u].verified,
             row[u].verified => r.email = row[u].email \/ r.email \in switched'[u],
             \A v \in User : switched[v] \subseteq switched'[v]
      PROVE  StartStep(p)
  <2>1. Begin(p, doing, "save", r.id, r, None, None)
    BY <1>3 DEF Edit
  <2>2. Started(p)
    <3>1. pc'[p] = "save" /\ copy'[p] = r /\ op'[p] = doing /\ who'[p] = u
      BY <1>3, <2>1, BeginOthers
    <3> QED
      BY <1>3, <1>b, <3>1 DEF Started, Saving, RequestForm, WithCopy
  <2> QED
    BY <1>3, <2>1, <2>2, BeginOthers DEF StartStep, Edit, tables, links, codes
<1>4. ASSUME NEW u \in User, NEW old \in Password, NEW new \in Password, ChangePassword(p, u, old, new)
      PROVE  StartStep(p)
  BY <1>3, <1>4, <1>a, SetPassword DEF ChangePassword, Kept
<1>5. ASSUME NEW u \in User, NEW e \in Address, NEW pw \in Password \cup {None}, Update(p, u, e, pw)
      PROVE  StartStep(p)
  <2>1. row[u] \in Row /\ row[u].id = u /\ Exists(u)
    BY <1>5, <1>a DEF Update
  <2>2. /\ row[u].verified => (e # row[u].email => e \in switched'[u])
        /\ \A v \in User : switched[v] \subseteq switched'[v]
    BY <1>5 DEF Update, HistoryTypes
  <2>3. CASE pw = None /\ Edit(p, "edit", [row[u] EXCEPT !.email = e])
    <3> DEFINE s == [row[u] EXCEPT !.email = e]
    <3>1. s \in Row /\ s.id = u /\ s.email = e /\ s.verified = row[u].verified
      BY <2>1 DEF Row
    <3>2. Edit(p, "edit", s)
      BY <2>3
    <3> HIDE DEF s
    <3> QED
      BY <1>3, <2>1, <2>2, <3>1, <3>2
  <2>4. CASE pw # None /\ Edit(p, "password", [row[u] EXCEPT !.email = e, !.password = pw])
    <3>1. pw \in Password /\ Edit(p, "password", Profile(row[u], e, pw))
      BY <2>4 DEF Profile
    <3> QED
      BY <1>3, <2>1, <2>2, <3>1, UpdateKept
  <2> QED
    BY <1>5, <2>3, <2>4 DEF Update
<1>6. ASSUME NEW u \in User, NEW s \in Status, UpdateStatus(p, u, s)
      PROVE  StartStep(p)
  BY <1>3, <1>6, <1>a, SetUserStatus DEF UpdateStatus, Kept
<1>7. ASSUME NEW u \in User, NEW until \in {"null", "running"}, LockUser(p, u, until)
      PROVE  StartStep(p)
  <2> DEFINE s == [row[u] EXCEPT !.status = "locked", !.until = until]
  <2>1. row[u] \in Row /\ row[u].id = u /\ Exists(u) /\ Edit(p, "block", s) /\ UNCHANGED switched
    BY <1>7, <1>a DEF LockUser
  <2>2. Kept(s, row[u])
    BY <2>1, BlockKept DEF Until
  <2> HIDE DEF s
  <2> QED
    BY <1>3, <2>1, <2>2 DEF Kept
<1>8. ASSUME NEW u \in User, UnlockUser(p, u)
      PROVE  StartStep(p)
  <2> DEFINE s == [row[u] EXCEPT !.status = "active", !.failed = 0, !.until = "null"]
  <2>1. row[u] \in Row /\ row[u].id = u /\ Exists(u) /\ Edit(p, "unblock", s) /\ UNCHANGED switched
    BY <1>8, <1>a DEF UnlockUser
  <2>2. Kept(s, row[u])
    BY <2>1, BlockKept DEF Until
  <2> HIDE DEF s
  <2> QED
    BY <1>3, <2>1, <2>2 DEF Kept
<1>9. ASSUME NEW u \in User, Delete(p, u) PROVE StartStep(p)
  <2>1. Begin(p, "delete", "deleteUser", u, None, None, None)
    BY <1>9 DEF Delete
  <2>2. Started(p)
    BY <1>b, <2>1, BeginOthers DEF Started, Saving, RequestForm, WithCopy
  <2> QED
    BY <1>9, <2>1, <2>2, BeginOthers DEF StartStep, Delete, tables, links, codes
<1>10. ASSUME NEW u \in User, SendVerificationEmail(p, u) PROVE StartStep(p)
  <2>1. Begin(p, "send", "startVerification", u, None, None, None)
    BY <1>10 DEF SendVerificationEmail
  <2>2. Started(p)
    BY <1>b, <2>1, BeginOthers DEF Started, Saving, RequestForm, WithCopy
  <2> QED
    BY <1>10, <2>1, <2>2, BeginOthers DEF StartStep, SendVerificationEmail, tables, links, codes
<1>11. ASSUME NEW u \in User, RequestPasswordReset(p, u) PROVE StartStep(p)
  <2>1. Begin(p, "request", "revokeLinks", u, None, None, None) /\ CountSince(u) < MaxPasswordResetsPerHour
    BY <1>11 DEF RequestPasswordReset
  <2>2. Started(p)
    BY <1>b, <2>1, BeginOthers DEF Started, Saving, RequestForm, WithCopy
  <2> QED
    BY <1>11, <2>1, <2>2, BeginOthers DEF StartStep, RequestPasswordReset, tables, links, codes
<1>12. ASSUME NEW c \in Code, VerifyEmail(p, c) PROVE StartStep(p)
  <2> DEFINE u == codeUser[c]
  <2>1. u \in User
    BY <1>12 DEF VerifyEmail, FormInv, TableForm
  <2>2. /\ Begin(p, "verify", "markVerified", u, Verified(row[u]), c, None)
        /\ row[u] \in Row /\ row[u].id = u /\ codeStatus[c] = "pending" /\ row[u].email = codeAddr[c]
    BY <1>12, <1>a, <2>1 DEF VerifyEmail
  <2> HIDE DEF u
  <2>3. Started(p)
    <3>1. /\ pc'[p] = "markVerified" /\ op'[p] = "verify" /\ who'[p] = u
          /\ copy'[p] = Verified(row[u]) /\ item'[p] = c
      BY <2>2, BeginOthers
    <3>2. Verified(row[u]) \in Row /\ Verified(row[u]).id = u /\ Verified(row[u]).email = codeAddr[c]
      BY <2>2, VerifiedKept
    <3> QED
      BY <1>b, <2>1, <2>2, <3>1, <3>2 DEF Started, Saving, RequestForm, WithCopy
  <2> QED
    BY <1>12, <2>2, <2>3, BeginOthers DEF StartStep, VerifyEmail, tables, links, codes
<1>13. ASSUME NEW l \in Link, NEW pw \in Password, ResetPassword(p, l, pw) PROVE StartStep(p)
  <2> DEFINE u == linkUser[l]
  <2>1. u \in User
    BY <1>13 DEF ResetPassword, FormInv, TableForm
  <2>2. /\ Begin(p, "reset", "markUsed", u, WithPassword(row[u], pw), l, None)
        /\ row[u] \in Row /\ row[u].id = u /\ Exists(u)
    BY <1>13, <1>a, <2>1 DEF ResetPassword
  <2> HIDE DEF u
  <2>3. Started(p)
    <3>1. /\ pc'[p] = "markUsed" /\ op'[p] = "reset" /\ who'[p] = u
          /\ copy'[p] = WithPassword(row[u], pw) /\ item'[p] = l
      BY <2>2, BeginOthers
    <3>2. Kept(WithPassword(row[u], pw), row[u])
      BY <2>2, WithPasswordKept
    <3> QED
      BY <1>b, <2>1, <2>2, <3>1, <3>2 DEF Started, Saving, RequestForm, WithCopy, Kept
  <2> QED
    BY <1>13, <2>2, <2>3, BeginOthers DEF StartStep, ResetPassword, tables, links, codes
<1> QED
  BY <1>1, <1>2, <1>4, <1>5, <1>6, <1>7, <1>8, <1>9, <1>10, <1>11, <1>12, <1>13
  DEF Start, HandleLogin, CreateUser, UpdateUser, PutPassword, DeleteUser, ResendVerification,
      OpenVerificationLink, ForgotPassword, SubmitReset, SetStatus, Lock, Unlock

-----------------------------------------------------------------------------
(* What a request that has reached a statement holds *)

\* A step of one request keeps the slots of the others.
LEMMA OthersForm ==
  ASSUME FormInv, NEW p \in Request, Others(p), RequestForm(p)'
  PROVE  \A q \in Request : RequestForm(q)'
<1> SUFFICES ASSUME NEW q \in Request \ {p} PROVE RequestForm(q)'
  OBVIOUS
<1>1. RequestForm(q)
  BY DEF FormInv
<1> QED
  BY <1>1 DEF Others, RequestForm

\* An empty slot is well-formed.
LEMMA ReturnForm ==
  ASSUME TypeOK, FormInv, NEW p \in Request, Return(p)
  PROVE  \A q \in Request : RequestForm(q)'
<1>1. RequestForm(p)'
  BY ReturnOthers DEF RequestForm, WithCopy
<1> QED
  BY <1>1, OthersForm, ReturnOthers

\* Going on keeps the slot, where it suits the next statement.
LEMMA GotoForm ==
  ASSUME TypeOK, FormInv, NEW p \in Request, NEW next, Goto(p, next), pc[p] # "idle",
         next \in {"createSession", "save", "endSessions", "createCode", "revokeLinks", "createLink"},
         next = "createSession" => op[p] = "passed",
         next = "createLink" => op[p] = "request",
         next \in {"save", "createCode"} => copy[p] \in Row
  PROVE  \A q \in Request : RequestForm(q)'
<1>1. RequestForm(p)
  BY DEF FormInv
<1>2. RequestForm(p)'
  BY <1>1, GotoOthers DEF RequestForm, WithCopy
<1> QED
  BY <1>2, OthersForm, GotoOthers

\* The row a request saves has the id of its user.
LEMMA UpdateForm ==
  ASSUME TypeOK, TableForm, NEW r \in Row, row' = [row EXCEPT ![r.id] = r], UNCHANGED <<links, codes>>
  PROVE  TableForm'
<1>1. r.id \in User
  BY DEF Row
<1> QED
  BY <1>1 DEF TypeOK, TableTypes, TableForm, Exists, links, codes

\* Every step keeps rows, links, codes and slots well-formed.
LEMMA FormNext == TypeOK /\ FormInv /\ [Next]_vars => FormInv'
<1> SUFFICES ASSUME TypeOK, FormInv, [Next]_vars PROVE FormInv'
  OBVIOUS
<1> USE AccountAssumption, RowAssumption
<1>0. TableForm /\ \A q \in Request : RequestForm(q)
  BY DEF FormInv
<1>a. \A u \in User : Exists(u) => row[u] \in Row /\ row[u].id = u
  BY <1>0 DEF TypeOK, TableTypes, Exists, TableForm
<1>b. ASSUME UNCHANGED <<row, links, codes>> PROVE TableForm'
  BY <1>0, <1>b DEF TableForm, Exists, links, codes
<1>c. ASSUME UNCHANGED <<pc, op, who, copy, item, secret>> PROVE \A q \in Request : RequestForm(q)'
  BY <1>0, <1>c DEF RequestForm
<1>1. ASSUME NEW p \in Request, Start(p) PROVE FormInv'
  <2>1. StartStep(p)
    BY <1>1, StartFacts
  <2>2. TableForm'
    BY <1>0, <1>b, <2>1, UpdateForm DEF StartStep
  <2>3. \A q \in Request : RequestForm(q)'
    BY <1>c, <2>1, OthersForm DEF StartStep, Started
  <2> QED
    BY <2>2, <2>3 DEF FormInv
<1>2. ASSUME NEW p \in Request, AfterAttempt(p), pc[p] # "idle" PROVE \A q \in Request : RequestForm(q)'
  BY <1>2, GotoForm, ReturnForm DEF AfterAttempt
<1>3. ASSUME NEW p \in Request, ReadAttempt(p) PROVE FormInv'
  <2>1. TableForm'
    BY <1>b, <1>3 DEF ReadAttempt, tables, links, codes
  <2>2. CASE AfterAttempt(p)
    BY <1>2, <1>3, <2>1, <2>2 DEF ReadAttempt, FormInv
  <2>3. ASSUME NEW v \in User, Exists(v),
               copy' = [copy EXCEPT ![p] = IF op[p] = "passed" THEN Passed(row[v]) ELSE Failed(row[v])],
               pc' = [pc EXCEPT ![p] = "saveAttempt"], UNCHANGED <<op, who, item, secret, ops>>
        PROVE  FormInv'
    <3>1. Passed(row[v]) \in Row /\ Failed(row[v]) \in Row
      BY <1>a, <2>3, PassedKept, FailedKept DEF Kept
    <3>2. Others(p) /\ pc'[p] = "saveAttempt" /\ copy'[p] \in Row
      BY <2>3, <3>1 DEF Others, TypeOK, RequestTypes
    <3>3. RequestForm(p)'
      BY <1>0, <1>3, <2>3, <3>2 DEF RequestForm, WithCopy, ReadAttempt
    <3> QED
      BY <2>1, <3>2, <3>3, OthersForm DEF FormInv
  <2> QED
    BY <1>3, <2>2, <2>3 DEF ReadAttempt
<1>4. ASSUME NEW p \in Request, SaveAttempt(p) PROVE FormInv'
  <2>1. copy[p] \in Row
    BY <1>0, <1>4 DEF SaveAttempt, RequestForm, WithCopy
  <2>2. row' = row \/ row' = [row EXCEPT ![copy[p].id] = copy[p]]
    BY <1>4 DEF SaveAttempt, UserUpdate
  <2>3. TableForm'
    BY <1>0, <1>4, <1>b, <2>1, <2>2, UpdateForm DEF SaveAttempt
  <2> QED
    BY <1>2, <1>4, <2>3 DEF SaveAttempt, FormInv
<1>5. ASSUME NEW p \in Request, Save(p) PROVE FormInv'
  <2>1. copy[p] \in Row
    BY <1>0, <1>5 DEF Save, RequestForm, WithCopy
  <2>2. TableForm'
    BY <1>0, <1>5, <2>1, UpdateForm DEF Save, UserUpdate
  <2>3. \A q \in Request : RequestForm(q)'
    BY <1>5, GotoForm, ReturnForm DEF Save
  <2> QED
    BY <2>2, <2>3 DEF FormInv
<1>6. ASSUME NEW p \in Request, CreateSession(p) \/ EndSessions(p) PROVE FormInv'
  <2>1. TableForm'
    BY <1>b, <1>6 DEF CreateSession, EndSessions
  <2>2. \A q \in Request : RequestForm(q)'
    BY <1>6, GotoForm, ReturnForm DEF CreateSession, EndSessions
  <2> QED
    BY <2>1, <2>2 DEF FormInv
<1>7. ASSUME NEW p \in Request, DeleteRow(p) PROVE FormInv'
  <2>1. TableForm'
    BY <1>0, <1>7 DEF DeleteRow, UserDelete, TableForm, TypeOK, TableTypes, Exists, links, codes
  <2>2. \A q \in Request : RequestForm(q)'
    BY <1>7, GotoForm DEF DeleteRow
  <2> QED
    BY <2>1, <2>2 DEF FormInv
<1>8. ASSUME NEW p \in Request, StartVerification(p) PROVE FormInv'
  <2>1. TableForm'
    BY <1>b, <1>8 DEF StartVerification, tables, links, codes
  <2>2. CASE Return(p)
    BY <2>1, <2>2, ReturnForm DEF FormInv
  <2>3. CASE /\ Exists(who[p])
             /\ pc' = [pc EXCEPT ![p] = "deletePending"]
             /\ copy' = [copy EXCEPT ![p] = row[who[p]]]
             /\ UNCHANGED <<op, who, item, secret, ops>>
    <3>1. who[p] \in User
      BY <1>0, <1>8 DEF StartVerification, RequestForm, TypeOK, RequestTypes
    <3>2. Others(p) /\ pc'[p] = "deletePending" /\ copy'[p] \in Row
      BY <1>a, <2>3, <3>1 DEF Others, TypeOK, RequestTypes
    <3>3. RequestForm(p)'
      BY <1>0, <1>8, <2>3, <3>2 DEF RequestForm, WithCopy, StartVerification
    <3> QED
      BY <2>1, <3>2, <3>3, OthersForm DEF FormInv
  <2> QED
    BY <1>8, <2>2, <2>3 DEF StartVerification
<1>9. ASSUME NEW p \in Request, DeletePending(p) PROVE FormInv'
  <2>1. TableForm'
    BY <1>0, <1>9 DEF DeletePending, VerificationDeletePendingByUserID, TableForm, Exists, links
  <2>2. copy[p] \in Row
    BY <1>0, <1>9 DEF DeletePending, RequestForm, WithCopy
  <2>3. \A q \in Request : RequestForm(q)'
    BY <1>9, <2>2, GotoForm DEF DeletePending
  <2> QED
    BY <2>1, <2>3 DEF FormInv
<1>10. ASSUME NEW p \in Request, NEW c \in Code, CreateCode(p, c) PROVE FormInv'
  <2>1. copy[p].email \in Address /\ who[p] \in User
    BY <1>0, <1>10 DEF CreateCode, RequestForm, WithCopy, Row, TypeOK, RequestTypes
  <2>2. TableForm'
    BY <1>0, <1>10, <2>1 DEF CreateCode, VerificationCreate, TableForm, TypeOK, TableTypes, Exists, links
  <2> QED
    BY <1>10, <2>2, ReturnForm DEF CreateCode, FormInv
<1>11. ASSUME NEW p \in Request, MarkVerified(p) PROVE FormInv'
  <2>1. copy[p] \in Row /\ item[p] \in Code
    BY <1>0, <1>11 DEF MarkVerified, RequestForm, WithCopy
  <2>2. TableForm'
    BY <1>0, <1>11, <2>1 DEF MarkVerified, TableForm, TypeOK, TableTypes, Exists, links
  <2>3. \A q \in Request : RequestForm(q)'
    BY <1>11, <2>1, GotoForm, ReturnForm DEF MarkVerified
  <2> QED
    BY <2>2, <2>3 DEF FormInv
<1>12. ASSUME NEW p \in Request, RevokeLinks(p) PROVE FormInv'
  <2>1. TableForm'
    BY <1>0, <1>12 DEF RevokeLinks, ResetRevokeUnusedByUserID, TableForm, Exists, codes
  <2>2. \A q \in Request : RequestForm(q)'
    BY <1>12, GotoForm, ReturnForm DEF RevokeLinks
  <2> QED
    BY <2>1, <2>2 DEF FormInv
<1>13. ASSUME NEW p \in Request, NEW l \in Link, CreateLink(p, l) PROVE FormInv'
  <2>1. who[p] \in User
    BY <1>0, <1>13 DEF CreateLink, RequestForm, TypeOK, RequestTypes
  <2>2. TableForm'
    BY <1>0, <1>13, <2>1 DEF CreateLink, ResetCreate, TableForm, TypeOK, TableTypes, Exists, codes
  <2> QED
    BY <1>13, <2>2, ReturnForm DEF CreateLink, FormInv
<1>14. ASSUME NEW p \in Request, MarkUsed(p) PROVE FormInv'
  <2>1. copy[p] \in Row /\ item[p] \in Link
    BY <1>0, <1>14 DEF MarkUsed, RequestForm, WithCopy
  <2>2. TableForm'
    BY <1>0, <1>14, <2>1 DEF MarkUsed, TableForm, TypeOK, TableTypes, Exists, codes
  <2>3. \A q \in Request : RequestForm(q)'
    BY <1>14, <2>1, GotoForm, ReturnForm DEF MarkUsed
  <2> QED
    BY <2>2, <2>3 DEF FormInv
<1>15. ASSUME NEW p \in Request, Abort(p) PROVE FormInv'
  BY <1>b, <1>15, ReturnForm DEF Abort, tables, links, codes, FormInv
<1>16. CASE EndSession \/ Age \/ UNCHANGED vars
  BY <1>b, <1>c, <1>16 DEF EndSession, Age, vars, tables, links, codes, request, FormInv
<1>17. CASE CleanupExpired
  <2>1. TableForm'
    BY <1>0, <1>17 DEF CleanupExpired, TableForm, Exists
  <2> QED
    BY <1>17, <1>c, <2>1 DEF CleanupExpired, request, FormInv
<1>18. CASE LockoutPasses
  <2>1. \A r \in Row : LockEnds(r) \in Row /\ LockEnds(r).id = r.id
    BY LockEndsKept DEF Kept
  <2>2. LockEnds(None) = None /\ LockEnds(Deleted) = Deleted
    BY DEF LockEnds
  <2>3. TableForm'
    BY <1>0, <1>18, <2>1, <2>2 DEF LockoutPasses, TableForm, TypeOK, TableTypes, Exists, links, codes
  <2>4. \A q \in Request : RequestForm(q)'
    BY <1>0, <1>18, <2>1, <2>2 DEF LockoutPasses, RequestForm, WithCopy, TypeOK, RequestTypes
  <2> QED
    BY <2>3, <2>4 DEF FormInv
<1>19. ASSUME NEW p \in Request, Continue(p) PROVE FormInv'
  BY <1>3, <1>4, <1>5, <1>6, <1>7, <1>8, <1>9, <1>10, <1>11, <1>12, <1>13, <1>14, <1>19 DEF Continue
<1> QED
  BY <1>1, <1>15, <1>16, <1>17, <1>18, <1>19 DEF Next

-----------------------------------------------------------------------------
(* A link is claimed by the one request that sets a password with it *)

\* The steps that neither claim a link nor set a password keep LinkInv.
LEMMA LinkKept ==
  ASSUME TypeOK, FormInv, LinkInv, UNCHANGED set,
         \A l \in Link : linkStatus'[l] \in {"none", "unused"} => linkStatus[l] \in {"none", "unused"},
         \A l \in Link : linkStatus[l] \in {"used", "deleted"} => linkStatus'[l] \in {"used", "deleted"},
         \A q \in Request : op'[q] = "reset" /\ pc'[q] = "save" =>
           op[q] = "reset" /\ pc[q] = "save" /\ item'[q] = item[q]
  PROVE  LinkInv'
<1>1. \A q \in Request : op[q] = "reset" => item[q] \in Link
  BY DEF FormInv, RequestForm
<1> QED
  BY <1>1 DEF LinkInv, LinkWorksOnce

\* Every step keeps a link claimed by at most one request.
LEMMA LinkNext == TypeOK /\ FormInv /\ LinkInv /\ [Next]_vars => LinkInv'
<1> SUFFICES ASSUME TypeOK, FormInv, LinkInv, [Next]_vars PROVE LinkInv'
  OBVIOUS
<1> USE AccountAssumption, RowAssumption
<1>0. \A q \in Request : RequestForm(q)
  BY DEF FormInv
<1>1. ASSUME NEW p \in Request, Start(p) PROVE LinkInv'
  <2>1. StartStep(p)
    BY <1>1, StartFacts
  <2>2. \A q \in Request : op'[q] = "reset" /\ pc'[q] = "save" =>
          op[q] = "reset" /\ pc[q] = "save" /\ item'[q] = item[q]
    BY <2>1 DEF StartStep, Started, Others
  <2> QED
    BY <2>1, <2>2, LinkKept DEF StartStep, links
<1>2. ASSUME NEW p \in Request,
             Others(p), op'[p] = "reset" => pc'[p] # "save", UNCHANGED set,
             UNCHANGED linkStatus
      PROVE  LinkInv'
  BY <1>2, LinkKept DEF Others
<1>3. ASSUME NEW p \in Request, ReadAttempt(p) PROVE LinkInv'
  <2>1. Others(p) /\ pc'[p] \in {"saveAttempt", "createSession", "idle"}
    <3>1. CASE AfterAttempt(p)
      BY <3>1, GotoOthers, ReturnOthers DEF AfterAttempt
    <3>2. CASE ~AfterAttempt(p)
      BY <1>3, <3>2 DEF ReadAttempt, Others, TypeOK, RequestTypes
    <3> QED
      BY <3>1, <3>2
  <2> QED
    BY <1>2, <1>3, <2>1 DEF ReadAttempt, tables
<1>4. ASSUME NEW p \in Request, SaveAttempt(p) PROVE LinkInv'
  <2>1. Others(p) /\ pc'[p] \in {"createSession", "idle"}
    BY <1>4, GotoOthers, ReturnOthers DEF SaveAttempt, AfterAttempt
  <2> QED
    BY <1>2, <1>4, <2>1 DEF SaveAttempt, links
<1>5. ASSUME NEW p \in Request, CreateSession(p) \/ EndSessions(p) \/ DeleteRow(p) PROVE LinkInv'
  <2>1. Others(p) /\ pc'[p] \in {"revokeLinks", "endSessions", "idle"}
    BY <1>5, GotoOthers, ReturnOthers DEF CreateSession, EndSessions, DeleteRow
  <2> QED
    BY <1>2, <1>5, <2>1 DEF CreateSession, EndSessions, DeleteRow, links, history
<1>6. ASSUME NEW p \in Request, StartVerification(p) PROVE LinkInv'
  <2>1. Others(p) /\ pc'[p] \in {"deletePending", "idle"}
    <3>1. CASE Return(p)
      BY <3>1, ReturnOthers
    <3>2. CASE ~Return(p)
      BY <1>6, <3>2 DEF StartVerification, Others, TypeOK, RequestTypes
    <3> QED
      BY <3>1, <3>2
  <2> QED
    BY <1>2, <1>6, <2>1 DEF StartVerification, tables, history
<1>7. ASSUME NEW p \in Request, NEW c \in Code, CreateCode(p, c) PROVE LinkInv'
  <2>1. Others(p) /\ pc'[p] = "idle"
    BY <1>7, ReturnOthers DEF CreateCode
  <2> QED
    BY <1>2, <1>7, <2>1 DEF CreateCode, links, history
<1>8. ASSUME NEW p \in Request, DeletePending(p) PROVE LinkInv'
  <2>1. Others(p) /\ pc'[p] = "createCode"
    BY <1>8, GotoOthers DEF DeletePending
  <2> QED
    BY <1>2, <1>8, <2>1 DEF DeletePending, links, history
<1>9. ASSUME NEW p \in Request, MarkVerified(p) PROVE LinkInv'
  <2>1. Others(p) /\ (op'[p] = "reset" => op[p] = "reset") /\ pc'[p] \in {"save", "idle"}
    BY <1>9, GotoOthers, ReturnOthers DEF MarkVerified
  <2>2. op[p] # "reset"
    BY <1>0, <1>9 DEF MarkVerified, RequestForm
  <2> QED
    BY <1>2, <1>9, <2>1, <2>2 DEF MarkVerified, links
<1>10. ASSUME NEW p \in Request, RevokeLinks(p) PROVE LinkInv'
  <2>1. Others(p) /\ pc'[p] \in {"createLink", "idle"}
    BY <1>10, GotoOthers, ReturnOthers DEF RevokeLinks
  <2> QED
    BY <1>10, <2>1, LinkKept DEF RevokeLinks, ResetRevokeUnusedByUserID, history, Others
<1>11. ASSUME NEW p \in Request, NEW l \in Link, CreateLink(p, l) PROVE LinkInv'
  <2>1. Others(p) /\ pc'[p] = "idle"
    BY <1>11, ReturnOthers DEF CreateLink
  <2>2. \A k \in Link : linkStatus'[k] = IF k = l THEN "unused" ELSE linkStatus[k]
    BY <1>11 DEF CreateLink, ResetCreate, TypeOK, TableTypes
  <2> QED
    BY <1>11, <2>1, <2>2, LinkKept DEF CreateLink, ResetCreate, history, Others
<1>12. ASSUME NEW p \in Request, MarkUsed(p) PROVE LinkInv'
  <2>1. CASE linkStatus[item[p]] = "unused"
    <3>1. item[p] \in Link
      BY <1>0, <1>12 DEF MarkUsed, RequestForm
    <3>2. /\ Others(p) /\ pc'[p] = "save" /\ item'[p] = item[p] /\ op'[p] = op[p]
          /\ \A k \in Link : linkStatus'[k] = IF k = item[p] THEN "used" ELSE linkStatus[k]
          /\ UNCHANGED set
      BY <1>12, <2>1, <3>1, GotoOthers DEF MarkUsed, history, TypeOK, TableTypes
    <3>3. \A q \in Request \ {p} : op'[q] = "reset" /\ pc'[q] = "save" =>
            /\ op[q] = "reset" /\ pc[q] = "save" /\ item'[q] = item[q] /\ item[q] \in Link
            /\ linkStatus[item[q]] \in {"used", "deleted"} /\ set[item[q]] = 0 /\ item[q] # item[p]
      BY <1>0, <2>1, <3>2 DEF Others, RequestForm, LinkInv
    <3>4. set[item[p]] = 0
      BY <2>1, <3>1 DEF LinkInv
    <3>5. \A l \in Link : linkStatus'[l] \in {"none", "unused"} => set'[l] = 0
      BY <3>2 DEF LinkInv
    <3>6. \A q \in Request : op'[q] = "reset" /\ pc'[q] = "save" =>
            linkStatus'[item'[q]] \in {"used", "deleted"} /\ set'[item'[q]] = 0
      BY <3>1, <3>2, <3>3, <3>4
    <3>7. \A q, s \in Request :
            op'[q] = "reset" /\ op'[s] = "reset" /\ pc'[q] = "save" /\ pc'[s] = "save" /\ item'[q] = item'[s] => q = s
      BY <3>2, <3>3 DEF LinkInv
    <3> QED
      BY <3>2, <3>5, <3>6, <3>7 DEF LinkInv, LinkWorksOnce
  <2>2. CASE linkStatus[item[p]] # "unused"
    BY <1>2, <1>12, <2>2, ReturnOthers DEF MarkUsed, history
  <2> QED
    BY <2>1, <2>2
<1>13. ASSUME NEW p \in Request, Save(p) PROVE LinkInv'
  <2>1. Others(p) /\ pc'[p] \in {"endSessions", "idle"} /\ UNCHANGED links
    BY <1>13, GotoOthers, ReturnOthers DEF Save
  <2>2. CASE op[p] # "reset"
    <3>1. set' = set
      BY <1>13, <2>2 DEF Save, SaveHistory, TypeOK, HistoryTypes
    <3> QED
      BY <1>2, <2>1, <3>1 DEF links
  <2>3. CASE op[p] = "reset"
    <3>1. /\ item[p] \in Link /\ linkStatus[item[p]] \in {"used", "deleted"} /\ set[item[p]] = 0
          /\ \A l \in Link : set'[l] = IF l = item[p] THEN 1 ELSE set[l]
      BY <1>0, <1>13, <2>3 DEF Save, SaveHistory, RequestForm, LinkInv, TypeOK, HistoryTypes
    <3>2. \A q \in Request : op'[q] = "reset" /\ pc'[q] = "save" =>
            /\ op[q] = "reset" /\ pc[q] = "save" /\ item'[q] = item[q] /\ item[q] \in Link
            /\ linkStatus[item[q]] \in {"used", "deleted"} /\ set[item[q]] = 0 /\ item[q] # item[p]
      BY <1>0, <1>13, <2>1, <2>3 DEF Others, RequestForm, LinkInv, Save
    <3>3. \A l \in Link : linkStatus'[l] \in {"none", "unused"} => set'[l] = 0
      BY <2>1, <3>1 DEF LinkInv, links
    <3>4. \A q \in Request : op'[q] = "reset" /\ pc'[q] = "save" =>
            linkStatus'[item'[q]] \in {"used", "deleted"} /\ set'[item'[q]] = 0
      BY <2>1, <3>1, <3>2 DEF links
    <3>5. \A q, s \in Request :
            op'[q] = "reset" /\ op'[s] = "reset" /\ pc'[q] = "save" /\ pc'[s] = "save" /\ item'[q] = item'[s] => q = s
      BY <3>2 DEF LinkInv
    <3>6. LinkWorksOnce'
      BY <3>1 DEF LinkInv, LinkWorksOnce
    <3> QED
      BY <3>3, <3>4, <3>5, <3>6 DEF LinkInv
  <2> QED
    BY <2>2, <2>3
<1>14. ASSUME NEW p \in Request, Abort(p) PROVE LinkInv'
  BY <1>2, <1>14, ReturnOthers DEF Abort, tables
<1>15. CASE EndSession \/ Age \/ UNCHANGED vars
  BY <1>15, LinkKept DEF EndSession, Age, vars, tables, links, request, history
<1>16. CASE LockoutPasses
  BY <1>16, LinkKept DEF LockoutPasses, links, history
<1>17. CASE CleanupExpired
  BY <1>17, LinkKept DEF CleanupExpired, request, history
<1>18. ASSUME NEW p \in Request, Continue(p) PROVE LinkInv'
  BY <1>3, <1>4, <1>5, <1>6, <1>7, <1>8, <1>9, <1>10, <1>11, <1>12, <1>13, <1>18 DEF Continue
<1> QED
  BY <1>1, <1>14, <1>15, <1>16, <1>17, <1>18 DEF Next

-----------------------------------------------------------------------------
(* A verified copy, like a verified row, has a proved address *)

\* Request q has the copy, and presents the code, that it had before.
SameCopy(q) ==
  /\ copy'[q].id = copy[q].id /\ copy'[q].email = copy[q].email /\ copy'[q].verified = copy[q].verified
  /\ item'[q] = item[q]

\* Codes are created once, and proved addresses stay proved.
Growing ==
  /\ \A c \in Code : codeStatus[c] # "none" => codeStatus'[c] # "none" /\ codeAddr'[c] = codeAddr[c]
  /\ \A u \in User : proved[u] \subseteq proved'[u] /\ switched[u] \subseteq switched'[u]

\* A step in which request p neither goes on to save a row nor starts to
\* verify keeps the rest of AddressInv.
LEMMA AddressKept ==
  ASSUME TypeOK, FormInv, AddressInv, Growing, VerifiedIsProved',
         \A q \in Request : pc'[q] \in Saving => pc[q] \in Saving /\ SameCopy(q),
         \A q \in Request : pc'[q] = "markVerified" => pc[q] = pc'[q] /\ SameCopy(q)
  PROVE  AddressInv'
<1>1. \A q \in Request : pc[q] \in Saving => copy[q].id \in User
  BY DEF FormInv, RequestForm, WithCopy, Saving, Row
<1>2. \A q \in Request : pc[q] = "markVerified" => item[q] \in Code
  BY DEF FormInv, RequestForm
<1> QED
  BY <1>1, <1>2 DEF AddressInv, Growing, SameCopy

\* The other requests are as they were.
LEMMA OthersSame ==
  ASSUME NEW p \in Request, Others(p) PROVE \A q \in Request \ {p} : pc'[q] = pc[q] /\ SameCopy(q)
  BY DEF Others, SameCopy

\* A saved row is verified only if its address is proved.
LEMMA UpdateVerified ==
  ASSUME TypeOK, VerifiedIsProved, NEW r \in Row, row' = [row EXCEPT ![r.id] = r],
         r.verified => r.email \in proved[r.id] \cup switched[r.id],
         \A u \in User : proved[u] \subseteq proved'[u] /\ switched[u] \subseteq switched'[u]
  PROVE  VerifiedIsProved'
<1>1. r.id \in User
  BY DEF Row
<1> QED
  BY <1>1 DEF VerifiedIsProved, TypeOK, TableTypes, Exists

\* Every step keeps verified addresses proved.
LEMMA AddressNext == TypeOK /\ FormInv /\ AddressInv /\ [Next]_vars => AddressInv'
<1> SUFFICES ASSUME TypeOK, FormInv, AddressInv, [Next]_vars PROVE AddressInv'
  OBVIOUS
<1> USE AccountAssumption, RowAssumption
<1>0. VerifiedIsProved /\ \A q \in Request : RequestForm(q)
  BY DEF FormInv, AddressInv
<1>a. \A u \in User : Exists(u) => row[u] \in Row /\ row[u].id = u
  BY DEF TypeOK, TableTypes, Exists, FormInv, TableForm
<1>b. ASSUME row' = row, Growing PROVE VerifiedIsProved'
  BY <1>0, <1>b DEF VerifiedIsProved, Exists, Growing
<1>c. ASSUME UNCHANGED <<codeStatus, codeAddr, proved, switched>> PROVE Growing
  BY <1>c DEF Growing
<1>1. ASSUME NEW p \in Request, Start(p) PROVE AddressInv'
  <2>1. StartStep(p)
    BY <1>1, StartFacts
  <2>2. Growing
    BY <2>1 DEF StartStep, Growing, codes
  <2>3. VerifiedIsProved'
    BY <1>0, <1>b, <2>1, <2>2, UpdateVerified DEF StartStep, Growing
  <2>4. CASE UNCHANGED <<pc, op, who, copy, item, secret>>
    BY <2>2, <2>3, <2>4, AddressKept DEF SameCopy
  <2>5. CASE Started(p)
    <3>1. \A q \in Request : pc'[q] = "markVerified" => codeStatus'[item'[q]] # "none" /\ codeAddr'[item'[q]] = copy'[q].email
      <4>1. ASSUME NEW q \in Request \ {p}, pc'[q] = "markVerified"
            PROVE  codeStatus'[item'[q]] # "none" /\ codeAddr'[item'[q]] = copy'[q].email
        <5>1. pc[q] = "markVerified" /\ item[q] \in Code /\ item'[q] = item[q] /\ copy'[q] = copy[q]
          BY <1>0, <2>1, <4>1 DEF StartStep, Others, RequestForm
        <5> QED
          BY <2>2, <5>1 DEF AddressInv, Growing
      <4> QED
        BY <2>1, <2>5, <4>1 DEF Started, StartStep, codes
    <3>2. ASSUME NEW q \in Request, pc'[q] \in Saving, copy'[q].verified
          PROVE  copy'[q].email \in proved'[copy'[q].id] \cup switched'[copy'[q].id]
      <4>1. CASE q = p
        <5>1. pc'[p] \in Saving
          BY <3>2, <4>1
        <5>2. PICK u \in User : /\ Exists(u) /\ copy'[p].id = u /\ copy'[p].verified = row[u].verified
                                /\ row[u].verified => copy'[p].email = row[u].email \/ copy'[p].email \in switched'[u]
          BY <2>5, <5>1 DEF Started
        <5> QED
          BY <1>0, <2>2, <3>2, <4>1, <5>2 DEF VerifiedIsProved, Growing
      <4>2. CASE q # p
        <5>1. pc[q] \in Saving /\ copy'[q] = copy[q] /\ copy[q].id \in User
          BY <1>0, <2>1, <3>2, <4>2 DEF StartStep, Others, RequestForm, WithCopy, Saving, Row
        <5> QED
          BY <2>2, <3>2, <5>1 DEF AddressInv, Growing
      <4> QED
        BY <4>1, <4>2
    <3> QED
      BY <2>3, <3>1, <3>2 DEF AddressInv
  <2> QED
    BY <2>1, <2>4, <2>5 DEF StartStep
<1>2. ASSUME NEW p \in Request, Others(p), pc'[p] \notin Saving \cup {"markVerified"},
             VerifiedIsProved', Growing
      PROVE  AddressInv'
  BY <1>2, AddressKept, OthersSame
<1>3. ASSUME NEW p \in Request, ReadAttempt(p) PROVE AddressInv'
  <2>1. Growing /\ VerifiedIsProved'
    BY <1>3, <1>b, <1>c DEF ReadAttempt, tables
  <2>2. CASE AfterAttempt(p)
    <3>1. Others(p) /\ pc'[p] \in {"createSession", "idle"}
      BY <2>2, GotoOthers, ReturnOthers DEF AfterAttempt
    <3> QED
      BY <1>2, <2>1, <3>1 DEF Saving
  <2>3. ASSUME NEW v \in User, Exists(v),
               copy' = [copy EXCEPT ![p] = IF op[p] = "passed" THEN Passed(row[v]) ELSE Failed(row[v])],
               pc' = [pc EXCEPT ![p] = "saveAttempt"], UNCHANGED <<op, who, item, secret, ops>>
        PROVE  AddressInv'
    <3>1. /\ pc'[p] = "saveAttempt" /\ Others(p)
          /\ copy'[p].id = v /\ copy'[p].email = row[v].email /\ copy'[p].verified = row[v].verified
      <4>1. pc'[p] = "saveAttempt" /\ Others(p) /\ (copy'[p] = Passed(row[v]) \/ copy'[p] = Failed(row[v]))
        BY <2>3 DEF Others, TypeOK, RequestTypes
      <4> QED
        BY <1>a, <2>3, <4>1, PassedKept, FailedKept DEF Kept
    <3>2. \A q \in Request \ {p} : pc[q] \in Saving => copy[q].id \in User
      BY <1>0 DEF RequestForm, WithCopy, Saving, Row
    <3>3. \A q \in Request : pc'[q] \in Saving /\ copy'[q].verified =>
            copy'[q].email \in proved'[copy'[q].id] \cup switched'[copy'[q].id]
      BY <1>0, <1>3, <2>3, <3>1, <3>2 DEF ReadAttempt, Others, AddressInv, VerifiedIsProved
    <3>4. \A q \in Request : pc'[q] = "markVerified" => codeStatus'[item'[q]] # "none" /\ codeAddr'[item'[q]] = copy'[q].email
      BY <1>3, <3>1 DEF ReadAttempt, tables, Others, AddressInv
    <3> QED
      BY <2>1, <3>3, <3>4 DEF AddressInv
  <2> QED
    BY <1>3, <2>2, <2>3 DEF ReadAttempt
<1>4. ASSUME NEW p \in Request, SaveAttempt(p) PROVE AddressInv'
  <2>1. Others(p) /\ pc'[p] \in {"createSession", "idle"} /\ Growing
    BY <1>4, <1>c, GotoOthers, ReturnOthers DEF SaveAttempt, AfterAttempt, codes
  <2>2. /\ copy[p] \in Row
        /\ copy[p].verified => copy[p].email \in proved[copy[p].id] \cup switched[copy[p].id]
    BY <1>0, <1>4 DEF SaveAttempt, RequestForm, WithCopy, Saving, AddressInv
  <2>3. row' = row \/ row' = [row EXCEPT ![copy[p].id] = copy[p]]
    BY <1>4 DEF SaveAttempt, UserUpdate
  <2>4. VerifiedIsProved'
    BY <1>0, <1>b, <2>1, <2>2, <2>3, UpdateVerified DEF Growing
  <2> QED
    BY <1>2, <2>1, <2>4 DEF Saving
<1>5. ASSUME NEW p \in Request, Save(p) PROVE AddressInv'
  <2>1. Others(p) /\ pc'[p] \in {"endSessions", "idle"} /\ Growing
    BY <1>5, <1>c, GotoOthers, ReturnOthers DEF Save, SaveHistory, codes
  <2>2. /\ copy[p] \in Row
        /\ copy[p].verified => copy[p].email \in proved[copy[p].id] \cup switched[copy[p].id]
    BY <1>0, <1>5 DEF Save, RequestForm, WithCopy, Saving, AddressInv
  <2>3. VerifiedIsProved'
    BY <1>0, <1>5, <2>1, <2>2, UpdateVerified DEF Growing, Save, UserUpdate
  <2> QED
    BY <1>2, <2>1, <2>3 DEF Saving
<1>6. ASSUME NEW p \in Request, CreateSession(p) \/ EndSessions(p) PROVE AddressInv'
  <2>1. Others(p) /\ pc'[p] \in {"revokeLinks", "idle"}
    BY <1>6, GotoOthers, ReturnOthers DEF CreateSession, EndSessions
  <2> QED
    BY <1>2, <1>6, <1>b, <1>c, <2>1 DEF CreateSession, EndSessions, codes, history, Saving
<1>7. ASSUME NEW p \in Request, DeleteRow(p) PROVE AddressInv'
  <2>1. Others(p) /\ pc'[p] = "endSessions" /\ Growing
    BY <1>7, <1>c, GotoOthers DEF DeleteRow, codes, history
  <2>2. VerifiedIsProved'
    BY <1>0, <1>7 DEF DeleteRow, UserDelete, VerifiedIsProved, Exists, TypeOK, TableTypes, history
  <2> QED
    BY <1>2, <2>1, <2>2 DEF Saving
<1>8. ASSUME NEW p \in Request, StartVerification(p) PROVE AddressInv'
  <2>1. Others(p) /\ pc'[p] \in {"deletePending", "idle"}
    <3>1. CASE Return(p)
      BY <3>1, ReturnOthers
    <3>2. CASE ~Return(p)
      BY <1>8, <3>2 DEF StartVerification, Others, TypeOK, RequestTypes
    <3> QED
      BY <3>1, <3>2
  <2> QED
    BY <1>2, <1>8, <1>b, <1>c, <2>1 DEF StartVerification, tables, history, Saving
<1>9. ASSUME NEW p \in Request, DeletePending(p) PROVE AddressInv'
  <2>1. Others(p) /\ pc'[p] = "createCode"
    BY <1>9, GotoOthers DEF DeletePending
  <2>2. Growing
    BY <1>9 DEF DeletePending, VerificationDeletePendingByUserID, Growing, history
  <2> QED
    BY <1>2, <1>9, <1>b, <2>1, <2>2 DEF DeletePending, Saving
<1>10. ASSUME NEW p \in Request, NEW c \in Code, CreateCode(p, c) PROVE AddressInv'
  <2>1. Others(p) /\ pc'[p] = "idle"
    BY <1>10, ReturnOthers DEF CreateCode
  <2>2. Growing
    BY <1>10 DEF CreateCode, VerificationCreate, Growing, history, TypeOK, TableTypes
  <2> QED
    BY <1>2, <1>10, <1>b, <2>1, <2>2 DEF CreateCode, Saving
<1>11. ASSUME NEW p \in Request, MarkVerified(p) PROVE AddressInv'
  <2>1. /\ item[p] \in Code /\ copy[p].id = who[p] /\ who[p] \in User
        /\ codeAddr[item[p]] = copy[p].email
    BY <1>0, <1>11 DEF MarkVerified, RequestForm, AddressInv, TypeOK, RequestTypes
  <2>2. Growing
    BY <1>11, <2>1 DEF MarkVerified, Growing, TypeOK, TableTypes, HistoryTypes
  <2>3. VerifiedIsProved'
    BY <1>11, <1>b, <2>2 DEF MarkVerified
  <2>4. CASE codeStatus[item[p]] # "pending"
    BY <1>2, <1>11, <2>2, <2>3, <2>4, ReturnOthers DEF MarkVerified, Saving
  <2>5. CASE codeStatus[item[p]] = "pending"
    <3>1. Others(p) /\ pc'[p] = "save" /\ copy'[p] = copy[p] /\ copy[p].email \in proved'[who[p]]
      BY <1>11, <2>1, <2>5, GotoOthers DEF MarkVerified, TypeOK, HistoryTypes
    <3>2. ASSUME NEW q \in Request, pc'[q] \in Saving, copy'[q].verified
          PROVE  copy'[q].email \in proved'[copy'[q].id] \cup switched'[copy'[q].id]
      <4>1. CASE q = p
        BY <2>1, <3>1, <4>1
      <4>2. CASE q # p
        <5>1. pc[q] \in Saving /\ copy'[q] = copy[q] /\ copy[q].id \in User
          BY <1>0, <3>1, <3>2, <4>2 DEF Others, RequestForm, WithCopy, Saving, Row
        <5> QED
          BY <2>2, <3>2, <5>1 DEF AddressInv, Growing
      <4> QED
        BY <4>1, <4>2
    <3>3. ASSUME NEW q \in Request, pc'[q] = "markVerified"
          PROVE  codeStatus'[item'[q]] # "none" /\ codeAddr'[item'[q]] = copy'[q].email
      <4>1. pc[q] = "markVerified" /\ item[q] \in Code /\ item'[q] = item[q] /\ copy'[q] = copy[q]
        BY <1>0, <3>1, <3>3 DEF Others, RequestForm
      <4> QED
        BY <2>2, <4>1 DEF AddressInv, Growing
    <3> QED
      BY <2>3, <3>2, <3>3 DEF AddressInv
  <2> QED
    BY <2>4, <2>5
<1>12. ASSUME NEW p \in Request, RevokeLinks(p) PROVE AddressInv'
  <2>1. Others(p) /\ pc'[p] \in {"createLink", "idle"}
    BY <1>12, GotoOthers, ReturnOthers DEF RevokeLinks
  <2> QED
    BY <1>2, <1>12, <1>b, <1>c, <2>1 DEF RevokeLinks, codes, history, Saving
<1>13. ASSUME NEW p \in Request, NEW l \in Link, CreateLink(p, l) PROVE AddressInv'
  BY <1>2, <1>13, <1>b, <1>c, ReturnOthers DEF CreateLink, codes, history, Saving
<1>14. ASSUME NEW p \in Request, MarkUsed(p) PROVE AddressInv'
  <2>1. Growing /\ VerifiedIsProved'
    BY <1>14, <1>b, <1>c DEF MarkUsed, codes, history
  <2>2. CASE Return(p)
    BY <1>2, <2>1, <2>2, ReturnOthers DEF Saving
  <2>3. CASE Goto(p, "save")
    <3>1. Others(p) /\ pc[p] \in Saving /\ pc'[p] = "save" /\ SameCopy(p)
      BY <1>14, <2>3, GotoOthers DEF MarkUsed, SameCopy, Saving
    <3> QED
      BY <2>1, <3>1, AddressKept, OthersSame
  <2> QED
    BY <1>14, <2>2, <2>3 DEF MarkUsed
<1>15. ASSUME NEW p \in Request, Abort(p) PROVE AddressInv'
  BY <1>2, <1>15, <1>b, <1>c, ReturnOthers DEF Abort, tables, Saving
<1>16. CASE EndSession \/ Age \/ UNCHANGED vars
  <2>1. Growing /\ VerifiedIsProved'
    BY <1>16, <1>b, <1>c DEF EndSession, Age, vars, tables, codes, history
  <2>2. \A q \in Request : pc'[q] = pc[q] /\ SameCopy(q)
    BY <1>16 DEF EndSession, Age, vars, request, SameCopy
  <2> QED
    BY <2>1, <2>2, AddressKept
<1>17. CASE CleanupExpired
  <2>1. Growing
    BY <1>17 DEF CleanupExpired, Growing, history
  <2>2. \A q \in Request : pc'[q] = pc[q] /\ SameCopy(q)
    BY <1>17 DEF CleanupExpired, request, SameCopy
  <2> QED
    BY <1>17, <1>b, <2>1, <2>2, AddressKept DEF CleanupExpired
<1>18. CASE LockoutPasses
  <2>1. \A r \in Row : Kept(LockEnds(r), r)
    BY LockEndsKept
  <2>2. LockEnds(None) = None /\ LockEnds(Deleted) = Deleted
    BY DEF LockEnds
  <2>3. Growing
    BY <1>18, <1>c DEF LockoutPasses, codes, history
  <2>4. VerifiedIsProved'
    BY <1>0, <1>18, <2>1, <2>2 DEF LockoutPasses, VerifiedIsProved, TypeOK, TableTypes, Exists, Kept, history
  <2>5. \A q \in Request : pc[q] \in WithCopy => pc'[q] = pc[q] /\ SameCopy(q)
    BY <1>0, <1>18, <2>1 DEF LockoutPasses, SameCopy, RequestForm, Kept
  <2> QED
    BY <1>18, <2>3, <2>4, <2>5, AddressKept DEF LockoutPasses, WithCopy, Saving
<1>19. ASSUME NEW p \in Request, Continue(p) PROVE AddressInv'
  BY <1>3, <1>4, <1>5, <1>6, <1>7, <1>8, <1>9, <1>10, <1>11, <1>12, <1>13, <1>14, <1>19 DEF Continue
<1> QED
  BY <1>1, <1>15, <1>16, <1>17, <1>18, <1>19 DEF Next

-----------------------------------------------------------------------------
(* Requests for a link count before they create it *)

\* The links of a user that count, and the requests that may add one.
Counted(u) == {l \in Link : linkUser[l] = u /\ linkStatus[l] # "deleted" /\ l \notin aged}
Asking(u) == {p \in Request : op[p] = "request" /\ who[p] = u}

\* The limit and the number of requests are numbers, and so is what is counted.
LEMMA Counts ==
  ASSUME NEW u
  PROVE  /\ IsFiniteSet(Counted(u)) /\ Cardinality(Counted(u)) \in Nat /\ CountSince(u) = Cardinality(Counted(u))
         /\ IsFiniteSet(Asking(u)) /\ Cardinality(Asking(u)) \in Nat
         /\ Cardinality(Asking(u)) <= Cardinality(Request) /\ Cardinality(Request) \in Nat
<1>1. Counted(u) \subseteq Link /\ Asking(u) \subseteq Request
  BY DEF Counted, Asking
<1>2. /\ IsFiniteSet(Counted(u)) /\ IsFiniteSet(Asking(u)) /\ IsFiniteSet(Request)
      /\ Cardinality(Asking(u)) <= Cardinality(Request)
  BY <1>1, FS_Subset, AccountAssumption
<1> QED
  BY <1>2, FS_CardinalityType DEF Counted, CountSince

\* The same after a step.
LEMMA CountsNext ==
  ASSUME NEW u
  PROVE  /\ IsFiniteSet(Counted(u)') /\ Cardinality(Counted(u)') \in Nat /\ CountSince(u)' = Cardinality(Counted(u)')
         /\ IsFiniteSet(Asking(u)') /\ Cardinality(Asking(u)') \in Nat
         /\ Cardinality(Asking(u)') <= Cardinality(Request)
<1>1. Counted(u)' \subseteq Link /\ Asking(u)' \subseteq Request
  BY DEF Counted, Asking
<1>2. /\ IsFiniteSet(Counted(u)') /\ IsFiniteSet(Asking(u)')
      /\ Cardinality(Asking(u)') <= Cardinality(Request)
  BY <1>1, FS_Subset, AccountAssumption
<1> QED
  BY <1>2, FS_CardinalityType DEF Counted, CountSince

\* Where neither grows, the sum does not.
LEMMA SumKept ==
  ASSUME NEW u \in User, MailInv, Counted(u)' \subseteq Counted(u), Asking(u)' \subseteq Asking(u)
  PROVE  Cardinality(Counted(u)') + Cardinality(Asking(u)') < MaxPasswordResetsPerHour + Cardinality(Request)
<1>1. Cardinality(Counted(u)) + Cardinality(Asking(u)) < MaxPasswordResetsPerHour + Cardinality(Request)
  BY Counts DEF MailInv, Asking
<1>2. Cardinality(Counted(u)') <= Cardinality(Counted(u)) /\ Cardinality(Asking(u)') <= Cardinality(Asking(u))
  BY Counts, FS_Subset
<1> QED
  BY <1>1, <1>2, Counts, CountsNext, AccountAssumption

\* A step in which neither grows for any user keeps MailInv.
LEMMA MailKept ==
  ASSUME MailInv, \A u \in User : Counted(u)' \subseteq Counted(u) /\ Asking(u)' \subseteq Asking(u)
  PROVE  MailInv'
<1> SUFFICES ASSUME NEW u \in User
             PROVE  CountSince(u)' + Cardinality(Asking(u)') < MaxPasswordResetsPerHour + Cardinality(Request)
  BY DEF MailInv, Asking
<1> QED
  BY SumKept, CountsNext

\* Every step keeps the sum below the bound.
LEMMA MailNext == TypeOK /\ FormInv /\ MailInv /\ [Next]_vars => MailInv'
<1> SUFFICES ASSUME TypeOK, FormInv, MailInv, [Next]_vars PROVE MailInv'
  OBVIOUS
<1> USE AccountAssumption, RowAssumption
<1>0. \A q \in Request : RequestForm(q)
  BY DEF FormInv
<1>a. ASSUME UNCHANGED <<links, aged>> PROVE \A u \in User : Counted(u)' = Counted(u)
  BY <1>a DEF Counted, links
<1>b. ASSUME NEW p \in Request, Others(p), op'[p] = "request" => op[p] = "request" /\ who'[p] = who[p]
      PROVE  \A u \in User : Asking(u)' \subseteq Asking(u)
  BY <1>b DEF Others, Asking
<1>1. ASSUME NEW p \in Request, Start(p) PROVE MailInv'
  <2>1. StartStep(p)
    BY <1>1, StartFacts
  <2>2. \A u \in User : Counted(u)' = Counted(u)
    BY <1>a, <2>1 DEF StartStep
  <2>3. CASE op'[p] = "request" /\ Started(p)
    <3>1. who'[p] \in User /\ Cardinality(Counted(who'[p])) < MaxPasswordResetsPerHour
      BY <2>3, Counts DEF Started
    <3> SUFFICES ASSUME NEW u \in User
                 PROVE  Cardinality(Counted(u)') + Cardinality(Asking(u)') < MaxPasswordResetsPerHour + Cardinality(Request)
      BY CountsNext DEF MailInv, Asking
    <3>2. CASE u = who'[p]
      BY <2>2, <3>1, <3>2, Counts, CountsNext
    <3>3. CASE u # who'[p]
      <4>1. Asking(u)' \subseteq Asking(u)
        BY <2>1, <3>3 DEF StartStep, Others, Asking
      <4> QED
        BY <2>2, <4>1, SumKept
    <3> QED
      BY <3>2, <3>3
  <2>4. CASE ~(op'[p] = "request" /\ Started(p))
    <3>1. op'[p] = "request" => op[p] = "request" /\ who'[p] = who[p]
      BY <2>1, <2>4 DEF StartStep
    <3> QED
      BY <1>b, <2>1, <2>2, <3>1, MailKept DEF StartStep
  <2> QED
    BY <2>3, <2>4
<1>2. ASSUME NEW p \in Request, Others(p), op'[p] \in {"none", op[p]}, op'[p] = op[p] => who'[p] \in {None, who[p]},
             UNCHANGED <<links, aged>>
      PROVE  MailInv'
  <2>1. \A u \in User : Asking(u)' \subseteq Asking(u)
    BY <1>2 DEF Others, Asking
  <2> QED
    BY <1>2, <1>a, <2>1, MailKept
<1>3. ASSUME NEW p \in Request, ReadAttempt(p) PROVE MailInv'
  <2>1. Others(p) /\ op'[p] \in {"none", op[p]} /\ (op'[p] = op[p] => who'[p] \in {None, who[p]})
    <3>1. CASE AfterAttempt(p)
      BY <3>1, GotoOthers, ReturnOthers DEF AfterAttempt
    <3>2. CASE ~AfterAttempt(p)
      BY <1>3, <3>2 DEF ReadAttempt, Others, TypeOK, RequestTypes
    <3> QED
      BY <3>1, <3>2
  <2> QED
    BY <1>2, <1>3, <2>1 DEF ReadAttempt, tables, links
<1>4. ASSUME NEW p \in Request, SaveAttempt(p) \/ Save(p) \/ CreateSession(p) \/ EndSessions(p) \/ DeleteRow(p)
      PROVE  MailInv'
  <2>1. Others(p) /\ op'[p] \in {"none", op[p]} /\ (op'[p] = op[p] => who'[p] \in {None, who[p]})
    BY <1>4, GotoOthers, ReturnOthers DEF SaveAttempt, AfterAttempt, Save, CreateSession, EndSessions, DeleteRow
  <2> QED
    BY <1>2, <1>4, <2>1 DEF SaveAttempt, Save, CreateSession, EndSessions, DeleteRow
<1>5. ASSUME NEW p \in Request, StartVerification(p) PROVE MailInv'
  <2>1. Others(p) /\ op'[p] \in {"none", op[p]} /\ (op'[p] = op[p] => who'[p] \in {None, who[p]})
    <3>1. CASE Return(p)
      BY <3>1, ReturnOthers
    <3>2. CASE ~Return(p)
      BY <1>5, <3>2 DEF StartVerification, Others, TypeOK, RequestTypes
    <3> QED
      BY <3>1, <3>2
  <2> QED
    BY <1>2, <1>5, <2>1 DEF StartVerification, tables, links
<1>6. ASSUME NEW p \in Request, DeletePending(p) \/ (\E c \in Code : CreateCode(p, c)) \/ MarkVerified(p)
      PROVE  MailInv'
  <2>1. Others(p) /\ op'[p] \in {"none", op[p]} /\ (op'[p] = op[p] => who'[p] \in {None, who[p]})
    BY <1>6, GotoOthers, ReturnOthers DEF DeletePending, CreateCode, MarkVerified
  <2> QED
    BY <1>2, <1>6, <2>1 DEF DeletePending, CreateCode, MarkVerified
<1>7. ASSUME NEW p \in Request, RevokeLinks(p) \/ MarkUsed(p) PROVE MailInv'
  <2>1. Others(p) /\ op'[p] \in {"none", op[p]} /\ (op'[p] = op[p] => who'[p] \in {None, who[p]})
    BY <1>7, GotoOthers, ReturnOthers DEF RevokeLinks, MarkUsed
  <2>2. \A u \in User : Asking(u)' \subseteq Asking(u)
    BY <2>1 DEF Others, Asking
  <2>3. MarkUsed(p) => item[p] \in Link
    BY <1>0 DEF MarkUsed, RequestForm
  <2>4. \A l \in Link : linkUser'[l] = linkUser[l] /\ (linkStatus[l] = "deleted" => linkStatus'[l] = "deleted")
    BY <1>7, <2>3 DEF RevokeLinks, ResetRevokeUnusedByUserID, MarkUsed, TypeOK, TableTypes
  <2>5. \A u \in User : Counted(u)' \subseteq Counted(u)
    BY <1>7, <2>4 DEF Counted, RevokeLinks, MarkUsed
  <2> QED
    BY <2>2, <2>5, MailKept
<1>8. ASSUME NEW p \in Request, NEW l \in Link, CreateLink(p, l) PROVE MailInv'
  <2>1. /\ Others(p) /\ op'[p] = "none" /\ op[p] = "request"
        /\ \A k \in Link \ {l} : linkUser'[k] = linkUser[k] /\ linkStatus'[k] = linkStatus[k]
        /\ linkUser'[l] = who[p] /\ UNCHANGED aged
    BY <1>0, <1>8, ReturnOthers DEF CreateLink, ResetCreate, RequestForm, TypeOK, TableTypes
  <2> SUFFICES ASSUME NEW u \in User
               PROVE  Cardinality(Counted(u)') + Cardinality(Asking(u)') < MaxPasswordResetsPerHour + Cardinality(Request)
    BY CountsNext DEF MailInv, Asking
  <2>2. CASE u # who[p]
    <3>1. Counted(u)' \subseteq Counted(u) /\ Asking(u)' \subseteq Asking(u)
      BY <2>1, <2>2 DEF Counted, Asking, Others
    <3> QED
      BY <3>1, SumKept
  <2>3. CASE u = who[p]
    <3>1. Counted(u)' \subseteq Counted(u) \cup {l} /\ Asking(u)' \subseteq Asking(u) \ {p} /\ p \in Asking(u)
      BY <2>1, <2>3 DEF Counted, Asking, Others
    <3>2. Cardinality(Counted(u)') <= Cardinality(Counted(u)) + 1
      <4>1. IsFiniteSet(Counted(u) \cup {l}) /\ Cardinality(Counted(u) \cup {l}) <= Cardinality(Counted(u)) + 1
        <5>1. /\ IsFiniteSet(Counted(u) \cup {l})
              /\ Cardinality(Counted(u) \cup {l}) =
                   IF l \in Counted(u) THEN Cardinality(Counted(u)) ELSE Cardinality(Counted(u)) + 1
          BY Counts, FS_AddElement
        <5> QED
          BY <5>1, Counts
      <4>2. Cardinality(Counted(u)') <= Cardinality(Counted(u) \cup {l})
        BY <3>1, <4>1, FS_Subset
      <4> QED
        BY <4>1, <4>2, Counts, CountsNext, FS_CardinalityType
    <3>3. Cardinality(Asking(u)') <= Cardinality(Asking(u)) - 1
      <4>1. IsFiniteSet(Asking(u) \ {p}) /\ Cardinality(Asking(u) \ {p}) = Cardinality(Asking(u)) - 1
        BY <3>1, Counts, FS_RemoveElement
      <4> QED
        BY <3>1, <4>1, FS_Subset
    <3>4. Cardinality(Counted(u)) + Cardinality(Asking(u)) < MaxPasswordResetsPerHour + Cardinality(Request)
      BY Counts DEF MailInv, Asking
    <3> QED
      BY <3>2, <3>3, <3>4, Counts, CountsNext
  <2> QED
    BY <2>2, <2>3
<1>9. ASSUME NEW p \in Request, Abort(p) PROVE MailInv'
  BY <1>2, <1>9, ReturnOthers DEF Abort, tables, links
<1>10. CASE EndSession \/ LockoutPasses \/ UNCHANGED vars
  <2>1. UNCHANGED <<links, aged, op, who>>
    BY <1>10 DEF EndSession, LockoutPasses, vars, tables, links, request
  <2> QED
    BY <1>a, <2>1, MailKept DEF Asking
<1>11. CASE Age \/ CleanupExpired
  <2>1. UNCHANGED <<linkUser, op, who>> /\ aged \subseteq aged'
    BY <1>11 DEF Age, CleanupExpired, links, request
  <2>2. \A l \in Link : linkStatus[l] = "deleted" => linkStatus'[l] = "deleted"
    BY <1>11 DEF Age, CleanupExpired, links
  <2>3. \A u \in User : Counted(u)' \subseteq Counted(u) /\ Asking(u)' \subseteq Asking(u)
    BY <2>1, <2>2 DEF Counted, Asking
  <2> QED
    BY <2>3, MailKept
<1>12. ASSUME NEW p \in Request, Continue(p) PROVE MailInv'
  BY <1>3, <1>4, <1>5, <1>6, <1>7, <1>8, <1>12 DEF Continue
<1> QED
  BY <1>1, <1>9, <1>10, <1>11, <1>12 DEF Next

-----------------------------------------------------------------------------
(* Requests that take turns *)

\* The copy s of row r that an operation will save agrees with r in what the save does not settle.
Fits(doing, s, r) ==
  /\ doing \notin {"password", "reset"} => s.password = r.password
  /\ doing \notin {"reset", "block", "unblock"} => s.failed = r.failed /\ (r.status = "locked" => s.status = "locked")
  /\ doing \notin {"block", "unblock"} /\ LockedForGood(r) => LockedForGood(s)

\* So do the copies that the operations make.
LEMMA FitsPassword == ASSUME NEW r \in Row, NEW pw \in Password PROVE Fits("password", [r EXCEPT !.password = pw], r)
  BY DEF Row, Fits, LockedForGood

\* A profile update without a password.
LEMMA FitsEmail == ASSUME NEW r \in Row, NEW e \in Address PROVE Fits("edit", [r EXCEPT !.email = e], r)
  BY DEF Row, Fits, LockedForGood

\* And with one.
LEMMA FitsProfile == ASSUME NEW r \in Row, NEW e \in Address, NEW pw \in Password PROVE Fits("password", Profile(r, e, pw), r)
<1>1. /\ Profile(r, e, pw).failed = r.failed /\ Profile(r, e, pw).status = r.status
      /\ Profile(r, e, pw).until = r.until
  BY DEF Row, Profile
<1> QED
  BY <1>1 DEF Fits, LockedForGood

\* A change of the status or of the lock settles the count and the lock, and keeps the password.
LEMMA FitsBlock ==
  ASSUME NEW r \in Row, NEW doing \in {"block", "unblock"}, NEW s, s.password = r.password
  PROVE  Fits(doing, s, r)
  BY DEF Fits

\* Verification.
LEMMA FitsVerified == ASSUME NEW r \in Row PROVE Fits("verify", Verified(r), r)
<1>1. /\ Verified(r).password = r.password /\ Verified(r).failed = r.failed /\ Verified(r).until = r.until
      /\ r.status = "locked" => Verified(r).status = "locked"
  BY DEF Row, Verified
<1> QED
  BY <1>1 DEF Fits, LockedForGood

\* A reset lifts no lock without an end.
LEMMA FitsReset == ASSUME NEW r \in Row, NEW pw \in Password PROVE Fits("reset", WithPassword(r, pw), r)
<1>1. LockedForGood(r) => LockedForGood(WithPassword(r, pw))
  BY DEF Row, LockedForGood, WithPassword
<1> QED
  BY <1>1 DEF Fits

\* A login that passed clears the count.
LEMMA PassedRow == ASSUME NEW r \in Row PROVE Passed(r).password = r.password /\ Passed(r).failed = 0
  BY DEF Row, Passed

\* One that failed counts, and the last one locks.
LEMMA FailedRow ==
  ASSUME NEW r \in Row, NEW n \in Nat, n <= r.failed + 1, n <= MaxLoginAttempts
  PROVE  /\ Failed(r).password = r.password /\ n <= Failed(r).failed
         /\ n = MaxLoginAttempts => Failed(r).status = "locked"
<1>0. MaxLoginAttempts \in Nat /\ r.failed \in Nat
  BY AccountAssumption DEF Row
<1>1. CASE r.failed + 1 >= MaxLoginAttempts
  <2>1. Failed(r) = [r EXCEPT !.failed = MaxLoginAttempts, !.status = "locked", !.until = "running"]
    BY <1>1 DEF Failed
  <2>2. Failed(r).failed = MaxLoginAttempts /\ Failed(r).status = "locked" /\ Failed(r).password = r.password
    BY <2>1 DEF Row
  <2> QED
    BY <1>0, <2>2
<1>2. CASE ~(r.failed + 1 >= MaxLoginAttempts)
  <2>1. Failed(r) = [r EXCEPT !.failed = @ + 1]
    BY <1>2 DEF Failed
  <2>2. Failed(r).failed = r.failed + 1 /\ Failed(r).password = r.password
    BY <2>1 DEF Row
  <2> QED
    BY <1>0, <1>2, <2>2
<1> QED
  BY <1>1, <1>2

\* Time settles nothing of this.
LEMMA LockEndsRow ==
  ASSUME NEW r \in Row
  PROVE  /\ LockEnds(r) \in Row /\ LockEnds(r).id = r.id /\ LockEnds(r).email = r.email
         /\ LockEnds(r).password = r.password
         /\ LockEnds(r).failed = r.failed /\ LockEnds(r).status = r.status
         /\ r.until = "null" => LockEnds(r).until = "null"
  BY RowAssumption DEF LockEnds, Row, Until

\* The step changes nothing of user u but what its requests know.
Frame(u) ==
  /\ row'[u] = row[u] /\ told'[u] = told[u] /\ guesses'[u] = guesses[u]
  /\ u \in adminLocked' <=> u \in adminLocked
  /\ \A s \in sessions' : s[1] = u => s \in sessions

\* Rest(u), when request p is the only one that may work on u.
RestOf(u, p) ==
  /\ guesses[u] <= MaxLoginAttempts /\ row[u] # None
  /\ Exists(u) => /\ row[u].password = told[u]
                  /\ ~Counting(p) => Tallied(u, row[u])
                  /\ u \in adminLocked => LockedForGood(row[u])
  /\ pc[p] # "endSessions" => \A s \in sessions : s[1] = u => s[2] = told[u] /\ u \notin adminLocked

\* The request of an undisturbed user is alone.
LEMMA Alone ==
  ASSUME TurnInv, NEW p \in Request, who[p] \in User \ disturbed
  PROVE  /\ Work(p, who[p]) /\ RestOf(who[p], p)
         /\ \A q \in Request : who[q] = who[p] => q = p
<1>1. \A q \in Request : who[q] = who[p] => q = p
  BY DEF TurnInv, OneAtATime
<1>2. Rest(who[p]) /\ Work(p, who[p])
  BY DEF TurnInv
<1>3. row[who[p]] # None
  BY <1>2 DEF Rest, Quiet
<1> QED
  BY <1>1, <1>2, <1>3 DEF Rest, RestOf

\* A step that leaves a user alone, and the requests that work on it, keeps what holds of them.
LEMMA TurnFrame ==
  ASSUME NEW u \in User, Frame(u), Rest(u), \A q \in Request : who[q] = u => Work(q, u),
         \A q \in Request : who[q] = u \/ who'[q] = u =>
           /\ pc'[q] = pc[q] /\ op'[q] = op[q] /\ who'[q] = who[q] /\ copy'[q] = copy[q] /\ secret'[q] = secret[q]
  PROVE  Rest(u)' /\ \A q \in Request : who'[q] = u => Work(q, u)'
<1>1. Rest(u)'
  BY DEF Frame, Rest, Quiet, Exists, Counting, Tallied, LockedForGood
<1>2. ASSUME NEW q \in Request, who'[q] = u PROVE Work(q, u)'
  <2>1. /\ Work(q, u) /\ pc'[q] = pc[q] /\ op'[q] = op[q] /\ copy'[q] = copy[q] /\ secret'[q] = secret[q]
        /\ row'[u] = row[u] /\ told'[u] = told[u] /\ guesses'[u] = guesses[u] /\ (u \in adminLocked' <=> u \in adminLocked)
    BY <1>2 DEF Frame
  <2> QED
    BY <2>1 DEF Work, Exists, Tallied, LockedForGood
<1> QED
  BY <1>1, <1>2

\* What a step of request p has to show: what it does to its own user.
LEMMA TurnStep ==
  ASSUME TypeOK, TurnInv, NEW p \in Request, Others(p), disturbed \subseteq disturbed', EmailsUnique',
         \/ who'[p] \in {who[p], None}
         \/ who[p] = None /\ \A q \in Request : who[q] = who'[p] => who'[p] \in disturbed',
         who'[p] = None => pc'[p] = "idle",
         pc'[p] \in Writing => copy'[p].id = who'[p] \/ copy'[p].id \in disturbed',
         \A u \in User \ disturbed' : u \notin {who[p], who'[p]} => Frame(u) \/ (Quiet(u) /\ Rest(u)'),
         \A u \in User \ disturbed' : u \in {who[p], who'[p]} => RestOf(u, p)' /\ (who'[p] = u => Work(p, u)')
  PROVE  TurnInv'
<1>0. \A u \in User : u # None
  BY AccountAssumption
<1>1. OneAtATime'
  BY <1>0 DEF TurnInv, OneAtATime, Others
<1>2. CopiesOwn'
  BY DEF TurnInv, CopiesOwn, Others
<1>3. ASSUME NEW u \in User \ disturbed'
      PROVE  Rest(u)' /\ \A q \in Request : who'[q] = u => Work(q, u)'
  <2>0. Rest(u) /\ \A q \in Request : who[q] = u => Work(q, u)
    BY DEF TurnInv
  <2>1. CASE u \notin {who[p], who'[p]}
    <3>1. CASE Frame(u)
      BY <2>0, <2>1, <3>1, TurnFrame DEF Others
    <3>2. CASE Quiet(u) /\ Rest(u)'
      BY <2>1, <3>2 DEF Quiet, Others
    <3> QED
      BY <2>1, <3>1, <3>2
  <2>2. CASE u \in {who[p], who'[p]}
    <3>1. RestOf(u, p)' /\ (who'[p] = u => Work(p, u)')
      BY <2>2
    <3>2. \A q \in Request : who'[q] = u => q = p
      <4>1. ASSUME NEW q \in Request \ {p}, who'[q] = u PROVE FALSE
        <5>1. who[q] = u
          BY <4>1 DEF Others
        <5>2. CASE who[p] = u
          BY <5>1, <5>2 DEF TurnInv, OneAtATime
        <5>3. CASE who[p] # u
          BY <1>0, <2>2, <5>1, <5>3
        <5> QED
          BY <5>2, <5>3
      <4> QED
        BY <4>1
    <3>3. who'[p] = u \/ (who[p] = u /\ who'[p] = None)
      BY <1>0, <2>2
    <3>4. who'[p] # u => ~Counting(p)' /\ pc'[p] # "endSessions"
      BY <3>3 DEF Counting
    <3>5. row'[u] # None
      BY <3>1 DEF RestOf
    <3> HIDE DEF Counting
    <3> QED
      BY <3>1, <3>2, <3>3, <3>4, <3>5 DEF RestOf, Rest
  <2> QED
    BY <2>1, <2>2
<1> QED
  BY <1>1, <1>2, <1>3 DEF TurnInv

\* Two requests on a user at once disturb it.
LEMMA BeginDisturbs ==
  ASSUME NEW p \in Request, NEW doing, NEW next, NEW u, NEW r, NEW i, NEW pw, Begin(p, doing, next, u, r, i, pw)
  PROVE  /\ disturbed \subseteq disturbed'
         /\ \A q \in Request : who[q] = u => u \in disturbed'
  BY DEF Begin

\* A user nobody works on.
LEMMA QuietRest ==
  ASSUME NEW u, Rest(u), Quiet(u), Exists(u)
  PROVE  /\ guesses[u] <= MaxLoginAttempts /\ row[u].password = told[u] /\ Tallied(u, row[u])
         /\ u \in adminLocked => LockedForGood(row[u])
         /\ \A s \in sessions : s[1] = u => s[2] = told[u] /\ u \notin adminLocked
  BY DEF Rest, Quiet

\* Addresses stay unique while no row is saved.
LEMMA SameRows == ASSUME EmailsUnique, row' = row PROVE EmailsUnique'
  BY DEF EmailsUnique, Exists

\* A request that starts with the user's row, or with none.
LEMMA BeginTurn ==
  ASSUME TypeOK, FormInv, TurnInv, NEW p \in Request, NEW doing, NEW next, NEW u \in User, NEW r, NEW i, NEW pw,
         Begin(p, doing, next, u, r, i, pw), UNCHANGED <<row, sessions, told, guesses, adminLocked>>, Exists(u),
         doing \notin {"passed", "failed"}, next \notin {"idle", "readAttempt", "endSessions"},
         next \in Writing => r.id = u /\ Fits(doing, r, row[u])
  PROVE  TurnInv'
<1>1. /\ Others(p) /\ pc[p] = "idle" /\ pc'[p] = next /\ op'[p] = doing /\ who'[p] = u /\ copy'[p] = r
  BY BeginOthers
<1>2. who[p] = None
  BY <1>1 DEF FormInv, RequestForm
<1>3. EmailsUnique'
  BY SameRows DEF TurnInv
<1>4. \A v \in User : Frame(v)
  BY DEF Frame
<1>5. ASSUME u \notin disturbed' PROVE RestOf(u, p)' /\ Work(p, u)'
  <2>1. Quiet(u) /\ Rest(u)
    BY <1>5, BeginDisturbs DEF TurnInv, Quiet
  <2>2. /\ guesses[u] <= MaxLoginAttempts /\ row[u].password = told[u] /\ Tallied(u, row[u])
        /\ u \in adminLocked => LockedForGood(row[u])
        /\ \A s \in sessions : s[1] = u => s[2] = told[u] /\ u \notin adminLocked
    BY <2>1, QuietRest
  <2>3. RestOf(u, p)'
    BY <2>2 DEF RestOf, Exists, Tallied, LockedForGood
  <2>4. Work(p, u)'
    <3>1. CASE next \notin Writing
      BY <1>1, <3>1 DEF Work
    <3>2. CASE next \in Writing
      <4>1. /\ r.id = u
            /\ doing \notin {"password", "reset"} => r.password = told[u]
            /\ doing \notin {"reset", "block", "unblock"} => Tallied(u, r)
            /\ doing \notin {"block", "unblock"} /\ u \in adminLocked => LockedForGood(r)
        BY <2>2, <3>2 DEF Fits, Tallied
      <4> QED
        BY <1>1, <3>2, <4>1 DEF Work, Exists, Tallied, LockedForGood
    <3> QED
      BY <3>1, <3>2
  <2> QED
    BY <2>3, <2>4
<1>6. who'[p] = u /\ u # None /\ \A q \in Request : who[q] = who'[p] => who'[p] \in disturbed'
  BY <1>1, BeginDisturbs, AccountAssumption
<1>7. /\ disturbed \subseteq disturbed'
      /\ who'[p] # None
      /\ pc'[p] \in Writing => copy'[p].id = who'[p]
  BY <1>1, <1>6, BeginDisturbs
<1>8. \A v \in User \ disturbed' : v \in {who[p], who'[p]} => RestOf(v, p)' /\ (who'[p] = v => Work(p, v)')
  BY <1>1, <1>2, <1>5, AccountAssumption
<1> QED
  BY <1>1, <1>2, <1>3, <1>4, <1>6, <1>7, <1>8, TurnStep

\* A login compares the password: a wrong one counts.
LEMMA AuthenticateTurn ==
  ASSUME TypeOK, FormInv, TurnInv, NEW p \in Request, NEW u \in User, NEW pw \in Password, Authenticate(p, u, pw)
  PROVE  TurnInv'
<1> DEFINE doing == IF pw = row[u].password THEN "passed" ELSE "failed"
<1>0. /\ Begin(p, doing, "readAttempt", u, row[u], None, pw) /\ Exists(u) /\ ~IsLocked(row[u])
      /\ row' = row /\ sessions' = sessions /\ told' = told /\ adminLocked' = adminLocked
  BY DEF Authenticate, tables
<1>a. row[u] \in Row /\ row[u].id = u
  BY <1>0 DEF Exists, FormInv, TableForm, TypeOK, TableTypes
<1>b. doing \in {"passed", "failed"} /\ (doing = "passed" <=> pw = row[u].password)
  OBVIOUS
<1>g. /\ \A v \in User \ {u} : guesses'[v] = guesses[v]
      /\ u \notin disturbed' => guesses'[u] = IF pw = row[u].password THEN 0
                                              ELSE IF guesses[u] <= MaxLoginAttempts THEN guesses[u] + 1 ELSE guesses[u]
  BY DEF Authenticate, TypeOK, HistoryTypes
<1> HIDE DEF doing
<1>1. /\ Others(p) /\ pc[p] = "idle" /\ pc'[p] = "readAttempt" /\ op'[p] = doing /\ who'[p] = u
      /\ copy'[p] = row[u] /\ secret'[p] = pw
  BY <1>0, BeginOthers
<1>2. who[p] = None
  BY <1>1 DEF FormInv, RequestForm
<1>3. EmailsUnique'
  BY <1>0, SameRows DEF TurnInv
<1>4. \A v \in User : v # u => Frame(v)
  BY <1>0, <1>g DEF Frame
<1>5. ASSUME u \notin disturbed' PROVE RestOf(u, p)' /\ Work(p, u)'
  <2>1. Quiet(u) /\ Rest(u)
    BY <1>0, <1>5, BeginDisturbs DEF TurnInv, Quiet
  <2>2. /\ guesses[u] <= MaxLoginAttempts /\ row[u].password = told[u] /\ Tallied(u, row[u])
        /\ u \in adminLocked => LockedForGood(row[u])
        /\ \A s \in sessions : s[1] = u => s[2] = told[u] /\ u \notin adminLocked
    BY <1>0, <2>1, QuietRest
  <2>3. u \notin adminLocked /\ guesses[u] # MaxLoginAttempts
    BY <1>0, <2>2 DEF IsLocked, LockedForGood, Tallied
  <2>4. MaxLoginAttempts \in Nat \ {0} /\ guesses[u] \in Nat /\ row[u].failed \in Nat
    BY <1>a, AccountAssumption DEF TypeOK, HistoryTypes, Row
  <2>5. /\ guesses'[u] <= MaxLoginAttempts /\ guesses'[u] <= row[u].failed + 1
        /\ pw = row[u].password => guesses'[u] = 0
    BY <1>5, <1>g, <2>2, <2>3, <2>4 DEF Tallied
  <2>6. doing = "passed" => Tallied(u, row[u])'
    BY <1>0, <1>b, <2>4, <2>5 DEF Tallied
  <2>7. RestOf(u, p)'
    BY <1>0, <1>1, <1>b, <2>2, <2>3, <2>5, <2>6 DEF RestOf, Exists, Counting
  <2>8. Work(p, u)'
    BY <1>0, <1>1, <1>b, <2>2, <2>3, <2>5 DEF Work, Exists, Writing
  <2> QED
    BY <2>7, <2>8
<1>6. who'[p] = u /\ u # None /\ \A q \in Request : who[q] = who'[p] => who'[p] \in disturbed'
  BY <1>0, <1>1, BeginDisturbs, AccountAssumption
<1>7. /\ disturbed \subseteq disturbed'
      /\ who'[p] # None
      /\ pc'[p] \notin Writing
  BY <1>0, <1>1, <1>6, BeginDisturbs DEF Writing
<1>8. \A v \in User \ disturbed' : v \in {who[p], who'[p]} => RestOf(v, p)' /\ (who'[p] = v => Work(p, v)')
  BY <1>1, <1>2, <1>5, AccountAssumption
<1>9. \A v \in User \ disturbed' : v \notin {who[p], who'[p]} => Frame(v)
  BY <1>1, <1>4
<1> QED
  BY <1>1, <1>2, <1>3, <1>6, <1>7, <1>8, <1>9, TurnStep

\* A new user.
LEMMA CreateTurn ==
  ASSUME TypeOK, FormInv, TurnInv, NEW p \in Request, NEW u \in User, NEW e \in Address, NEW pw \in Password,
         Create(p, u, e, pw)
  PROVE  TurnInv'
<1> DEFINE r == [id |-> u, email |-> e, password |-> pw, status |-> "pending", until |-> "null",
                 failed |-> 0, verified |-> FALSE]
<1>1. r \in Row /\ r.id = u /\ r.email = e /\ r.password = pw /\ r.failed = 0
  BY AccountAssumption DEF Row, Status, Until
<1>2. row[u] = None /\ EmailFree(u, e) /\ row' = [row EXCEPT ![u] = r]
  BY DEF Create, UserCreate
<1> HIDE DEF r
<1>3. sessions' = sessions /\ guesses' = guesses /\ adminLocked' = adminLocked
  BY DEF Create
<1>4. told'[u] = pw /\ \A v \in User \ {u} : told'[v] = told[v]
  BY DEF Create, TypeOK, HistoryTypes
<1>5. row'[u] = r /\ \A v \in User \ {u} : row'[v] = row[v]
  BY <1>2 DEF TypeOK, TableTypes
<1>6. EmailsUnique'
  BY <1>1, <1>2, <1>5 DEF TurnInv, EmailsUnique, EmailFree, Exists
<1>7. \A v \in User : v # u => Frame(v)
  BY <1>3, <1>4, <1>5 DEF Frame
<1>8. r \notin {None, Deleted}
  BY <1>1, RowAssumption
<1>9. ASSUME u \notin disturbed, Rest(u)
      PROVE  /\ Quiet(u) /\ guesses[u] = 0 /\ u \notin adminLocked /\ \A s \in sessions : s[1] # u
             /\ Tallied(u, row[u])' /\ row'[u].password = told'[u] /\ row'[u] # None /\ guesses'[u] <= MaxLoginAttempts
  <2>1. Quiet(u) /\ guesses[u] = 0 /\ u \notin adminLocked /\ \A s \in sessions : s[1] # u
    BY <1>2, <1>9 DEF Rest
  <2>2. Tallied(u, row[u])'
    BY <1>1, <1>3, <1>5, <2>1, AccountAssumption DEF Tallied
  <2> QED
    BY <1>1, <1>3, <1>4, <1>5, <1>8, <2>1, <2>2, AccountAssumption
<1>10. CASE Begin(p, "send", "startVerification", u, None, None, None)
  <2>1. /\ Others(p) /\ pc[p] = "idle" /\ pc'[p] = "startVerification" /\ op'[p] = "send" /\ who'[p] = u
        /\ disturbed \subseteq disturbed' /\ \A q \in Request : who[q] = u => u \in disturbed'
    BY <1>10, BeginOthers, BeginDisturbs
  <2>2. who[p] = None /\ u # None
    BY <2>1, AccountAssumption DEF FormInv, RequestForm
  <2>3. ASSUME u \notin disturbed' PROVE RestOf(u, p)' /\ Work(p, u)'
    <3>1. u \notin disturbed /\ Rest(u)
      BY <2>1, <2>3 DEF TurnInv
    <3>2. RestOf(u, p)'
      BY <1>3, <1>9, <3>1 DEF RestOf
    <3>3. Work(p, u)'
      BY <2>1 DEF Work, Writing
    <3> QED
      BY <3>2, <3>3
  <2>4. \A v \in User \ disturbed' : v \in {who[p], who'[p]} => RestOf(v, p)' /\ (who'[p] = v => Work(p, v)')
    BY <2>1, <2>2, <2>3, AccountAssumption
  <2>5. \A v \in User \ disturbed' : v \notin {who[p], who'[p]} => Frame(v)
    BY <1>7, <2>1
  <2>6. pc'[p] \notin Writing /\ who'[p] # None
    BY <2>1, <2>2 DEF Writing
  <2> QED
    BY <1>6, <2>1, <2>2, <2>4, <2>5, <2>6, TurnStep
<1>11. CASE pc[p] = "idle" /\ UNCHANGED <<request, disturbed>>
  <2>1. /\ Others(p) /\ pc'[p] = "idle" /\ who[p] = None /\ who'[p] = None
        /\ \A q \in Request : who'[q] = who[q]
        /\ disturbed' = disturbed
    BY <1>11 DEF request, Others, FormInv, RequestForm
  <2>2. ASSUME u \notin disturbed' PROVE Quiet(u) /\ Rest(u)'
    <3>1. u \notin disturbed /\ Rest(u)
      BY <2>1, <2>2 DEF TurnInv
    <3> QED
      BY <1>3, <1>9, <2>1, <3>1 DEF Rest
  <2>3. \A v \in User : v # None
    BY AccountAssumption
  <2> QED
    BY <1>6, <1>7, <2>1, <2>2, <2>3, TurnStep DEF Writing
<1> QED
  BY <1>10, <1>11 DEF Create

\* Whatever operation starts.
LEMMA StartTurn == ASSUME TypeOK, FormInv, TurnInv, NEW p \in Request, Start(p) PROVE TurnInv'
<1>a. \A u \in User : Exists(u) => row[u] \in Row /\ row[u].id = u
  BY DEF Exists, FormInv, TableForm, TypeOK, TableTypes
<1>1. ASSUME NEW u \in User, Exists(u), NEW doing \in {"password", "block", "unblock", "edit"}, NEW r, Edit(p, doing, r),
             r.id = u, Fits(doing, r, row[u])
      PROVE  TurnInv'
  <2>1. Begin(p, doing, "save", u, r, None, None) /\ UNCHANGED <<row, sessions, told, guesses, adminLocked>>
    BY <1>1 DEF Edit, tables
  <2>2. doing \notin {"passed", "failed"} /\ "save" \notin {"idle", "readAttempt", "endSessions"}
    BY <1>1
  <2> QED
    BY <1>1, <2>1, <2>2, BeginTurn
<1>2. ASSUME NEW u \in User, NEW old \in Password, NEW new \in Password, ChangePassword(p, u, old, new) PROVE TurnInv'
  <2> DEFINE r == [row[u] EXCEPT !.password = new]
  <2>1. Exists(u) /\ Edit(p, "password", r)
    BY <1>2 DEF ChangePassword
  <2>2. Fits("password", r, row[u]) /\ r.id = u
    BY <1>a, <2>1, FitsPassword, SetPassword DEF Kept
  <2> HIDE DEF r
  <2> QED
    BY <1>1, <2>1, <2>2
<1>3. ASSUME NEW u \in User, NEW e \in Address, NEW pw \in Password \cup {None}, Update(p, u, e, pw) PROVE TurnInv'
  <2>0. Exists(u) /\ row[u] \in Row /\ row[u].id = u
    BY <1>3, <1>a DEF Update
  <2>1. CASE pw = None /\ Edit(p, "edit", [row[u] EXCEPT !.email = e])
    <3> DEFINE r == [row[u] EXCEPT !.email = e]
    <3>1. Edit(p, "edit", r)
      BY <2>1
    <3>2. Fits("edit", r, row[u]) /\ r.id = u
      BY <2>0, FitsEmail DEF Row
    <3> HIDE DEF r
    <3> QED
      BY <1>1, <2>0, <3>1, <3>2
  <2>2. CASE pw # None /\ Edit(p, "password", [row[u] EXCEPT !.email = e, !.password = pw])
    <3>1. pw \in Password /\ Edit(p, "password", Profile(row[u], e, pw))
      BY <2>2 DEF Profile
    <3>2. Fits("password", Profile(row[u], e, pw), row[u]) /\ Profile(row[u], e, pw).id = u
      BY <2>0, <3>1, FitsProfile, UpdateKept
    <3> QED
      BY <1>1, <2>0, <3>1, <3>2
  <2> QED
    BY <1>3, <2>1, <2>2 DEF Update
<1>4. ASSUME NEW u \in User, NEW s \in Status, UpdateStatus(p, u, s) PROVE TurnInv'
  <2> DEFINE r == [row[u] EXCEPT !.status = s]
             doing == IF s \in {"suspended", "locked"} THEN "block" ELSE "unblock"
  <2>1. Exists(u) /\ Edit(p, doing, r)
    BY <1>4 DEF UpdateStatus
  <2>2. row[u] \in Row /\ row[u].id = u
    BY <1>a, <2>1
  <2>3. r.password = row[u].password /\ r.id = u
    BY <2>2 DEF Row
  <2>4. doing \in {"block", "unblock"}
    OBVIOUS
  <2> HIDE DEF r, doing
  <2>5. Fits(doing, r, row[u])
    BY <2>2, <2>3, <2>4, FitsBlock
  <2> QED
    BY <1>1, <2>1, <2>3, <2>4, <2>5
<1>5. ASSUME NEW u \in User, NEW until \in {"null", "running"}, LockUser(p, u, until) PROVE TurnInv'
  <2> DEFINE r == [row[u] EXCEPT !.status = "locked", !.until = until]
  <2>1. Exists(u) /\ Edit(p, "block", r)
    BY <1>5 DEF LockUser
  <2>2. row[u] \in Row /\ row[u].id = u
    BY <1>a, <2>1
  <2>3. r.password = row[u].password /\ r.id = u
    BY <2>2 DEF Row
  <2> HIDE DEF r
  <2>4. Fits("block", r, row[u])
    BY <2>2, <2>3, FitsBlock
  <2> QED
    BY <1>1, <2>1, <2>3, <2>4
<1>6. ASSUME NEW u \in User, UnlockUser(p, u) PROVE TurnInv'
  <2> DEFINE r == [row[u] EXCEPT !.status = "active", !.failed = 0, !.until = "null"]
  <2>1. Exists(u) /\ Edit(p, "unblock", r)
    BY <1>6 DEF UnlockUser
  <2>2. row[u] \in Row /\ row[u].id = u
    BY <1>a, <2>1
  <2>3. r.password = row[u].password /\ r.id = u
    BY <2>2 DEF Row
  <2> HIDE DEF r
  <2>4. Fits("unblock", r, row[u])
    BY <2>2, <2>3, FitsBlock
  <2> QED
    BY <1>1, <2>1, <2>3, <2>4
<1>7. ASSUME NEW u \in User, Exists(u), NEW doing \in {"delete", "send", "request"},
             NEW next \in {"deleteUser", "startVerification", "revokeLinks"},
             Begin(p, doing, next, u, None, None, None), UNCHANGED <<row, sessions, told, guesses, adminLocked>>
      PROVE  TurnInv'
  <2>1. doing \notin {"passed", "failed"} /\ next \notin {"idle", "readAttempt", "endSessions"} /\ next \notin Writing
    BY DEF Writing
  <2> QED
    BY <1>7, <2>1, BeginTurn
<1>8. ASSUME NEW u \in User, Delete(p, u) \/ SendVerificationEmail(p, u) \/ RequestPasswordReset(p, u) PROVE TurnInv'
  BY <1>7, <1>8 DEF Delete, SendVerificationEmail, RequestPasswordReset, tables
<1>9. ASSUME NEW c \in Code, VerifyEmail(p, c) PROVE TurnInv'
  <2> DEFINE u == codeUser[c]
             r == Verified(row[u])
  <2>1. u \in User
    BY <1>9 DEF VerifyEmail, FormInv, TableForm
  <2>2. /\ Begin(p, "verify", "markVerified", u, r, c, None) /\ Exists(u)
        /\ UNCHANGED <<row, sessions, told, guesses, adminLocked>>
    BY <1>9 DEF VerifyEmail, tables
  <2>3. r.id = u /\ Fits("verify", r, row[u])
    BY <1>a, <2>1, <2>2, VerifiedKept, FitsVerified
  <2> HIDE DEF u, r
  <2>4. "verify" \notin {"passed", "failed"} /\ "markVerified" \notin {"idle", "readAttempt", "endSessions"}
    OBVIOUS
  <2> QED
    BY <2>1, <2>2, <2>3, <2>4, BeginTurn
<1>10. ASSUME NEW l \in Link, NEW pw \in Password, ResetPassword(p, l, pw) PROVE TurnInv'
  <2> DEFINE u == linkUser[l]
             r == WithPassword(row[u], pw)
  <2>1. u \in User
    BY <1>10 DEF ResetPassword, FormInv, TableForm
  <2>2. /\ Begin(p, "reset", "markUsed", u, r, l, None) /\ Exists(u)
        /\ UNCHANGED <<row, sessions, told, guesses, adminLocked>>
    BY <1>10 DEF ResetPassword, tables
  <2>3. r.id = u /\ Fits("reset", r, row[u])
    BY <1>a, <2>1, <2>2, WithPasswordKept, FitsReset DEF Kept
  <2> HIDE DEF u, r
  <2>4. "reset" \notin {"passed", "failed"} /\ "markUsed" \notin {"idle", "readAttempt", "endSessions"}
    OBVIOUS
  <2> QED
    BY <2>1, <2>2, <2>3, <2>4, BeginTurn
<1> QED
  BY <1>2, <1>3, <1>4, <1>5, <1>6, <1>8, <1>9, <1>10, AuthenticateTurn, CreateTurn
  DEF Start, HandleLogin, CreateUser, UpdateUser, PutPassword, DeleteUser, ResendVerification,
      OpenVerificationLink, ForgotPassword, SubmitReset, SetStatus, Lock, Unlock

\* A request that goes on works on the user it began with.
LEMMA OwnTurn ==
  ASSUME TypeOK, FormInv, TurnInv, NEW p \in Request, NEW u, u = who[p], pc[p] # "idle", Others(p),
         who'[p] \in {u, None}, who'[p] = None => pc'[p] = "idle", disturbed \subseteq disturbed', EmailsUnique',
         pc'[p] \in Writing => copy'[p].id = who'[p] \/ copy'[p].id \in disturbed',
         \A v \in User \ disturbed' : v # u => Frame(v),
         u \in User \ disturbed' => RestOf(u, p)' /\ (who'[p] = u => Work(p, u)')
  PROVE  TurnInv'
<1>1. \A v \in User \ disturbed' : v \in {who[p], who'[p]} => RestOf(v, p)' /\ (who'[p] = v => Work(p, v)')
  BY AccountAssumption
<1>2. \A v \in User \ disturbed' : v \notin {who[p], who'[p]} => Frame(v)
  OBVIOUS
<1>3. who'[p] \in {who[p], None}
  OBVIOUS
<1> QED
  BY <1>1, <1>2, <1>3, TurnStep

\* A statement on links or codes.
LEMMA PlainTurn ==
  ASSUME TypeOK, FormInv, TurnInv, NEW p \in Request, Others(p),
         UNCHANGED <<row, sessions, told, guesses, adminLocked, disturbed>>,
         pc[p] \notin {"idle", "readAttempt", "saveAttempt", "endSessions"},
         pc'[p] \notin {"readAttempt", "saveAttempt", "endSessions"},
         \/ who'[p] = None /\ pc'[p] = "idle"
         \/ who'[p] = who[p] /\ op'[p] = op[p] /\ secret'[p] = secret[p] /\ who[p] # None,
         pc'[p] \in Writing => pc[p] \in Writing /\ copy'[p] = copy[p]
  PROVE  TurnInv'
<1> SUFFICES ASSUME NEW u, u = who[p] PROVE TurnInv'
  OBVIOUS
<1>1. EmailsUnique' /\ \A v \in User : Frame(v)
  BY SameRows DEF TurnInv, Frame
<1>2. pc'[p] \in Writing => copy'[p].id = who'[p] \/ copy'[p].id \in disturbed'
  <2>1. ASSUME pc'[p] \in Writing PROVE who'[p] = who[p]
    BY <2>1 DEF Writing
  <2> QED
    BY <2>1 DEF TurnInv, CopiesOwn
<1>3. ASSUME u \in User \ disturbed' PROVE RestOf(u, p)' /\ (who'[p] = u => Work(p, u)')
  <2>1. Work(p, u) /\ RestOf(u, p) /\ ~Counting(p) /\ pc[p] # "endSessions"
    BY <1>3, Alone DEF Counting
  <2>2. RestOf(u, p)'
    BY <2>1 DEF RestOf, Exists, Tallied, LockedForGood
  <2>3. ASSUME who'[p] = u PROVE Work(p, u)'
    <3>1. who'[p] = who[p] /\ op'[p] = op[p] /\ secret'[p] = secret[p]
      BY <1>3, <2>3, AccountAssumption
    <3> QED
      BY <2>1, <3>1 DEF Work, Exists, Tallied, LockedForGood
  <2> QED
    BY <2>2, <2>3
<1>4. who'[p] \in {u, None}
  OBVIOUS
<1>5. who'[p] = None => pc'[p] = "idle"
  OBVIOUS
<1> QED
  BY <1>1, <1>2, <1>3, <1>4, <1>5, OwnTurn

\* The second read of a login: an undisturbed user still has the address that was typed.
LEMMA ReadAttemptTurn == ASSUME TypeOK, FormInv, TurnInv, NEW p \in Request, ReadAttempt(p) PROVE TurnInv'
<1> SUFFICES ASSUME NEW u, u = who[p] PROVE TurnInv'
  OBVIOUS
<1>0. /\ pc[p] = "readAttempt" /\ row' = row /\ sessions' = sessions
      /\ UNCHANGED <<told, guesses, adminLocked>>
  BY DEF ReadAttempt, tables
<1>1. EmailsUnique' /\ \A v \in User : Frame(v)
  BY <1>0, SameRows DEF TurnInv, Frame
<1>2. u \in User /\ u # None /\ op[p] \in {"passed", "failed"}
  BY <1>0, AccountAssumption DEF FormInv, RequestForm, TypeOK, RequestTypes
<1>a. \A v \in User : Exists(v) => row[v] \in Row /\ row[v].id = v
  BY DEF Exists, FormInv, TableForm, TypeOK, TableTypes
<1>3. ASSUME AfterAttempt(p), disturbed' = disturbed \cup {u} PROVE TurnInv'
  <2>1. /\ Others(p) /\ pc'[p] \in {"createSession", "idle"} /\ who'[p] \in {u, None}
        /\ who'[p] = None => pc'[p] = "idle"
    BY <1>2, <1>3, GotoOthers, ReturnOthers DEF AfterAttempt
  <2>2. pc'[p] \notin Writing /\ u \in disturbed' /\ disturbed \subseteq disturbed' /\ pc[p] # "idle"
    BY <1>0, <1>3, <2>1 DEF Writing
  <2>3. \A v \in User \ disturbed' : v # u => Frame(v)
    BY <1>1
  <2> QED
    BY <1>1, <2>1, <2>2, <2>3, OwnTurn
<1>4. ASSUME NEW v \in User, Exists(v), row[v].email = copy[p].email,
             copy' = [copy EXCEPT ![p] = IF op[p] = "passed" THEN Passed(row[v]) ELSE Failed(row[v])],
             pc' = [pc EXCEPT ![p] = "saveAttempt"], UNCHANGED <<op, who, item, secret, ops>>,
             disturbed' = IF v = u THEN disturbed ELSE disturbed \cup {v}
      PROVE  TurnInv'
  <2>1. /\ Others(p) /\ pc'[p] = "saveAttempt" /\ op'[p] = op[p] /\ who'[p] = u /\ secret'[p] = secret[p]
        /\ copy'[p] = IF op[p] = "passed" THEN Passed(row[v]) ELSE Failed(row[v])
    BY <1>4 DEF Others, TypeOK, RequestTypes
  <2>2. row[v] \in Row /\ row[v].id = v
    BY <1>4, <1>a
  <2>3. copy'[p].id = v
    BY <2>1, <2>2, PassedKept, FailedKept DEF Kept
  <2>4. disturbed \subseteq disturbed' /\ (copy'[p].id = who'[p] \/ copy'[p].id \in disturbed')
    BY <1>4, <2>1, <2>3
  <2>5. ASSUME u \notin disturbed' PROVE RestOf(u, p)' /\ Work(p, u)'
    <3>1. Work(p, u) /\ RestOf(u, p)
      BY <1>2, <2>4, <2>5, Alone
    <3>2. Exists(u) /\ copy[p].email = row[u].email /\ guesses[u] <= row[u].failed + 1 /\ u \notin adminLocked
      BY <1>0, <1>2, <3>1 DEF Work
    <3>3. v = u
      BY <1>2, <1>4, <3>2 DEF TurnInv, EmailsUnique
    <3>4. guesses[u] \in Nat /\ guesses[u] <= MaxLoginAttempts /\ row[u].password = told[u]
      BY <1>2, <3>1, <3>2, AccountAssumption DEF RestOf, TypeOK, HistoryTypes
    <3>5. /\ copy'[p].password = told[u] /\ guesses[u] <= copy'[p].failed
          /\ guesses[u] = MaxLoginAttempts => copy'[p].status = "locked"
      <4>1. CASE op[p] = "passed"
        <5>1. guesses[u] = 0
          BY <3>1, <4>1 DEF Work
        <5> QED
          BY <2>1, <2>2, <3>3, <3>4, <4>1, <5>1, PassedRow, AccountAssumption
      <4>2. CASE op[p] # "passed"
        BY <2>1, <2>2, <3>2, <3>3, <3>4, <4>2, FailedRow
      <4> QED
        BY <4>1, <4>2
    <3>6. Work(p, u)'
      BY <1>0, <1>2, <2>1, <2>3, <3>1, <3>2, <3>3, <3>5 DEF Work, Exists, Tallied, LockedForGood
    <3>7. op[p] # "failed" => ~Counting(p)
      BY DEF Counting
    <3>8. Counting(p)' <=> op[p] = "failed"
      BY <2>1 DEF Counting
    <3>9. RestOf(u, p)'
      BY <1>0, <2>1, <3>1, <3>7, <3>8 DEF RestOf, Exists, Tallied, LockedForGood
    <3> QED
      BY <3>6, <3>9
  <2>6. pc[p] # "idle" /\ who'[p] # None
    BY <1>0, <1>2, <2>1
  <2> QED
    BY <1>1, <2>1, <2>4, <2>5, <2>6, OwnTurn
<1> QED
  BY <1>3, <1>4 DEF ReadAttempt

\* A saved row has an address nobody else has.
LEMMA UpdateUnique ==
  ASSUME TypeOK, EmailsUnique, NEW r \in Row, UserUpdate(r) PROVE EmailsUnique'
<1>1. r.id \in User /\ row'[r.id] = r /\ \A v \in User \ {r.id} : row'[v] = row[v]
  BY DEF Row, UserUpdate, TypeOK, TableTypes
<1> QED
  BY <1>1 DEF EmailsUnique, UserUpdate, EmailFree, Exists

\* A request saves the row of its user, or that of a disturbed one.
LEMMA SavedRows ==
  ASSUME TypeOK, FormInv, TurnInv, NEW p \in Request, pc[p] \in {"saveAttempt", "save"},
         row' = [row EXCEPT ![copy[p].id] = copy[p]]
  PROVE  /\ \A v \in User \ disturbed : v # who[p] => row'[v] = row[v] /\ v # copy[p].id
         /\ who[p] \in User
         /\ who[p] \notin disturbed =>
              /\ copy[p].id = who[p] /\ row'[who[p]] = copy[p] /\ copy[p] \notin {None, Deleted}
              /\ Work(p, who[p]) /\ RestOf(who[p], p)
<1>1. copy[p] \in Row /\ copy[p].id \in User /\ who[p] \in User
  BY DEF FormInv, RequestForm, WithCopy, Row, TypeOK, RequestTypes
<1>2. copy[p].id = who[p] \/ copy[p].id \in disturbed
  BY DEF TurnInv, CopiesOwn, Writing
<1>3. who[p] \notin disturbed => Work(p, who[p]) /\ RestOf(who[p], p)
  BY <1>1, Alone
<1>4. who[p] \notin disturbed => copy[p].id = who[p]
  BY <1>3 DEF Work, Writing
<1> QED
  BY <1>1, <1>2, <1>3, <1>4, RowAssumption DEF TypeOK, TableTypes

\* The outcome of a login is saved.
LEMMA SaveAttemptTurn == ASSUME TypeOK, FormInv, TurnInv, NEW p \in Request, SaveAttempt(p) PROVE TurnInv'
<1> SUFFICES ASSUME NEW u, u = who[p] PROVE TurnInv'
  OBVIOUS
<1>0. /\ pc[p] = "saveAttempt" /\ sessions' = sessions /\ UNCHANGED <<told, guesses, adminLocked>>
  BY DEF SaveAttempt
<1>1. u \in User /\ u # None /\ op[p] \in {"passed", "failed"} /\ copy[p] \in Row
  BY <1>0, AccountAssumption DEF FormInv, RequestForm, WithCopy, TypeOK, RequestTypes
<1>2. /\ Others(p) /\ pc'[p] \in {"createSession", "idle"} /\ who'[p] \in {u, None}
      /\ who'[p] = None => pc'[p] = "idle"
      /\ who'[p] = u => op'[p] = op[p] /\ secret'[p] = secret[p]
  BY <1>1, GotoOthers, ReturnOthers DEF SaveAttempt, AfterAttempt
<1>3. pc'[p] \notin Writing /\ ~Counting(p)' /\ pc'[p] # "endSessions" /\ pc[p] # "idle"
  BY <1>0, <1>2 DEF Writing, Counting
<1>4. CASE UserUpdate(copy[p]) /\ disturbed' = disturbed
  <2>1. row' = [row EXCEPT ![copy[p].id] = copy[p]]
    BY <1>4 DEF UserUpdate
  <2>2. EmailsUnique'
    BY <1>1, <1>4, UpdateUnique DEF TurnInv
  <2>3. \A v \in User \ disturbed' : v # u => Frame(v)
    BY <1>0, <1>4, <2>1, SavedRows DEF Frame
  <2>4. ASSUME u \notin disturbed' PROVE RestOf(u, p)' /\ (who'[p] = u => Work(p, u)')
    <3>1. row'[u] = copy[p] /\ copy[p] \notin {None, Deleted} /\ Work(p, u) /\ RestOf(u, p)
      BY <1>0, <1>4, <2>1, <2>4, SavedRows
    <3>2. copy[p].password = told[u] /\ Tallied(u, copy[p]) /\ u \notin adminLocked
      BY <1>0, <1>1, <3>1 DEF Work, Writing
    <3>3. RestOf(u, p)'
      BY <1>0, <1>3, <3>1, <3>2 DEF RestOf, Tallied
    <3>4. ASSUME who'[p] = u PROVE Work(p, u)'
      <4>1. pc'[p] = "createSession" /\ op'[p] = op[p] /\ secret'[p] = secret[p]
        BY <1>1, <1>2, <3>4, GotoOthers, ReturnOthers DEF SaveAttempt, AfterAttempt
      <4> QED
        BY <1>0, <3>1, <3>2, <4>1 DEF Work, Writing
    <3> QED
      BY <3>3, <3>4
  <2>5. disturbed \subseteq disturbed'
    BY <1>4
  <2> QED
    BY <1>2, <1>3, <2>2, <2>3, <2>4, <2>5, OwnTurn
<1>5. CASE row' = row /\ disturbed' = disturbed \cup {u}
  <2>1. EmailsUnique' /\ (\A v \in User \ disturbed' : v # u => Frame(v)) /\ u \in disturbed' /\ disturbed \subseteq disturbed'
    BY <1>0, <1>5, SameRows DEF TurnInv, Frame
  <2> QED
    BY <1>2, <1>3, <2>1, OwnTurn
<1> QED
  BY <1>4, <1>5 DEF SaveAttempt

\* A changed row is saved, with what it means to the user and to the administrator.
LEMMA SaveTurn == ASSUME TypeOK, FormInv, TurnInv, NEW p \in Request, Save(p) PROVE TurnInv'
<1> SUFFICES ASSUME NEW u, u = who[p] PROVE TurnInv'
  OBVIOUS
<1>0. /\ pc[p] = "save" /\ sessions' = sessions /\ disturbed' = disturbed /\ UserUpdate(copy[p])
      /\ row' = [row EXCEPT ![copy[p].id] = copy[p]]
  BY DEF Save, SaveHistory, UserUpdate
<1>1. u \in User /\ u # None /\ copy[p] \in Row
  BY <1>0, AccountAssumption DEF FormInv, RequestForm, WithCopy, TypeOK, RequestTypes
<1>2. /\ Others(p) /\ pc'[p] \in {"endSessions", "idle"} /\ who'[p] \in {u, None}
      /\ who'[p] = None => pc'[p] = "idle"
      /\ who'[p] = u => op'[p] = op[p] /\ op[p] \in {"password", "block", "reset"}
      /\ op[p] \in {"password", "block", "reset"} => pc'[p] = "endSessions"
  BY <1>1, GotoOthers, ReturnOthers DEF Save
<1>3. pc'[p] \notin Writing /\ ~Counting(p)' /\ pc[p] # "idle" /\ ~Counting(p) /\ pc[p] # "endSessions"
  BY <1>0, <1>2 DEF Writing, Counting
<1>4. EmailsUnique'
  BY <1>0, <1>1, UpdateUnique DEF TurnInv
<1>5. ASSUME NEW v \in User, v # copy[p].id
      PROVE  told'[v] = told[v] /\ guesses'[v] = guesses[v] /\ (v \in adminLocked' <=> v \in adminLocked)
  <2>1. SaveHistory(p)
    BY DEF Save
  <2>2. told'[v] = told[v]
    BY <1>5, <2>1 DEF SaveHistory, TypeOK, HistoryTypes
  <2>3. guesses'[v] = guesses[v]
    BY <1>5, <2>1 DEF SaveHistory, TypeOK, HistoryTypes
  <2>4. v \in adminLocked' <=> v \in adminLocked
    BY <1>5, <2>1 DEF SaveHistory
  <2> QED
    BY <2>2, <2>3, <2>4
<1>6. \A v \in User \ disturbed' : v # u => Frame(v)
  <2>1. \A v \in User \ disturbed : v # u => row'[v] = row[v] /\ v # copy[p].id
    BY <1>0, SavedRows
  <2> QED
    BY <1>0, <1>5, <2>1 DEF Frame
<1>7. ASSUME u \notin disturbed' PROVE RestOf(u, p)' /\ (who'[p] = u => Work(p, u)')
  <2>1. /\ copy[p].id = u /\ row'[u] = copy[p] /\ copy[p] \notin {None, Deleted}
        /\ Work(p, u) /\ RestOf(u, p)
    BY <1>0, <1>7, SavedRows
  <2>2. /\ Exists(u)
        /\ op[p] \notin {"password", "reset"} => copy[p].password = told[u]
        /\ op[p] \notin {"reset", "block", "unblock"} => Tallied(u, copy[p])
        /\ op[p] \notin {"block", "unblock"} /\ u \in adminLocked => LockedForGood(copy[p])
    BY <1>0, <2>1 DEF Work, Writing
  <2>3. /\ told'[u] = IF op[p] \in {"password", "reset"} THEN copy[p].password ELSE told[u]
        /\ guesses'[u] = IF op[p] \in {"reset", "block", "unblock"} THEN 0 ELSE guesses[u]
        /\ op[p] \notin {"block", "unblock"} => (u \in adminLocked' <=> u \in adminLocked)
        /\ op[p] \in {"block", "unblock"} => (u \in adminLocked' => op[p] = "block" /\ LockedForGood(copy[p]))
    BY <1>1, <2>1 DEF Save, SaveHistory, TypeOK, HistoryTypes, LockedForGood
  <2>4. guesses'[u] <= MaxLoginAttempts /\ Tallied(u, row[u])'
    <3>1. copy[p].failed \in Nat /\ MaxLoginAttempts \in Nat \ {0} /\ guesses[u] <= MaxLoginAttempts
      BY <1>1, <2>1, AccountAssumption DEF Row, RestOf
    <3>2. CASE op[p] \in {"reset", "block", "unblock"}
      BY <2>1, <2>3, <3>1, <3>2 DEF Tallied
    <3>3. CASE op[p] \notin {"reset", "block", "unblock"}
      BY <2>1, <2>2, <2>3, <3>1, <3>3 DEF Tallied
    <3> QED
      BY <3>2, <3>3
  <2>5. row'[u].password = told'[u] /\ (u \in adminLocked' => LockedForGood(row'[u]))
    BY <2>1, <2>2, <2>3
  <2>6. ASSUME pc'[p] # "endSessions", NEW s \in sessions', s[1] = u PROVE s[2] = told'[u] /\ u \notin adminLocked'
    <3>1. op[p] \notin {"password", "block", "reset"}
      BY <1>2, <2>6
    <3>2. s[2] = told[u] /\ u \notin adminLocked
      BY <1>0, <1>3, <2>1, <2>6 DEF RestOf
    <3> QED
      BY <2>3, <3>1, <3>2
  <2>7. RestOf(u, p)'
    BY <2>1, <2>4, <2>5, <2>6 DEF RestOf, LockedForGood
  <2>8. ASSUME who'[p] = u PROVE Work(p, u)'
    <3>1. pc'[p] = "endSessions" /\ op'[p] \notin {"passed", "failed"}
      BY <1>2, <2>8
    <3> QED
      BY <3>1 DEF Work, Writing
  <2> QED
    BY <2>7, <2>8
<1>8. disturbed \subseteq disturbed'
  BY <1>0
<1> QED
  BY <1>2, <1>3, <1>4, <1>6, <1>7, <1>8, OwnTurn

\* A session is opened with the password that was compared.
LEMMA CreateSessionTurn == ASSUME TypeOK, FormInv, TurnInv, NEW p \in Request, CreateSession(p) PROVE TurnInv'
<1> SUFFICES ASSUME NEW u, u = who[p] PROVE TurnInv'
  OBVIOUS
<1>0. /\ pc[p] = "createSession" /\ row' = row /\ UNCHANGED <<told, guesses, adminLocked, disturbed>>
      /\ \A s \in sessions' : s \in sessions \/ s = <<u, secret[p]>>
  BY DEF CreateSession, history
<1>1. u \in User /\ op[p] = "passed"
  BY <1>0 DEF FormInv, RequestForm, TypeOK, RequestTypes
<1>2. Others(p) /\ pc'[p] = "idle" /\ who'[p] = None /\ u # None
  BY <1>1, ReturnOthers, AccountAssumption DEF CreateSession
<1>3. EmailsUnique' /\ \A v \in User \ disturbed' : v # u => Frame(v)
  BY <1>0, SameRows DEF TurnInv, Frame
<1>4. ASSUME u \notin disturbed' PROVE RestOf(u, p)'
  <2>1. Work(p, u) /\ RestOf(u, p) /\ ~Counting(p) /\ pc[p] # "endSessions"
    BY <1>0, <1>1, <1>4, Alone DEF Counting
  <2>2. secret[p] = told[u] /\ u \notin adminLocked
    BY <1>1, <2>1 DEF Work
  <2>3. \A s \in sessions' : s[1] = u => s[2] = told[u]
    BY <1>0, <2>1, <2>2 DEF RestOf
  <2> QED
    BY <1>0, <2>1, <2>2, <2>3 DEF RestOf, Exists, Tallied
<1>5. pc'[p] \notin Writing /\ who'[p] \in {u, None} /\ pc[p] # "idle" /\ disturbed \subseteq disturbed' /\ who'[p] # u
  BY <1>0, <1>2 DEF Writing
<1> QED
  BY <1>2, <1>3, <1>4, <1>5, OwnTurn

\* All sessions of the user are ended.
LEMMA EndSessionsTurn == ASSUME TypeOK, FormInv, TurnInv, NEW p \in Request, EndSessions(p) PROVE TurnInv'
<1> SUFFICES ASSUME NEW u, u = who[p] PROVE TurnInv'
  OBVIOUS
<1>0. /\ pc[p] = "endSessions" /\ row' = row /\ UNCHANGED <<told, guesses, adminLocked, disturbed>>
      /\ \A s \in sessions' : s \in sessions /\ s[1] # u
  BY DEF EndSessions, SessionDeleteByUserID, history
<1>1. u \in User /\ u # None
  BY <1>0, AccountAssumption DEF FormInv, RequestForm, TypeOK, RequestTypes
<1>2. /\ Others(p) /\ pc'[p] \in {"revokeLinks", "idle"} /\ who'[p] \in {u, None}
      /\ who'[p] = None => pc'[p] = "idle"
      /\ who'[p] = u => op'[p] = "reset"
  BY <1>1, GotoOthers, ReturnOthers DEF EndSessions
<1>3. EmailsUnique' /\ \A v \in User \ disturbed' : v # u => Frame(v)
  BY <1>0, SameRows DEF TurnInv, Frame
<1>4. ASSUME u \notin disturbed' PROVE RestOf(u, p)' /\ (who'[p] = u => Work(p, u)')
  <2>1. Work(p, u) /\ RestOf(u, p) /\ ~Counting(p)
    BY <1>0, <1>1, <1>4, Alone DEF Counting
  <2>2. RestOf(u, p)'
    BY <1>0, <2>1 DEF RestOf, Exists, Tallied
  <2>3. ASSUME who'[p] = u PROVE Work(p, u)'
    BY <1>2, <2>3 DEF Work, Writing
  <2> QED
    BY <2>2, <2>3
<1>5. pc'[p] \notin Writing /\ pc[p] # "idle" /\ disturbed \subseteq disturbed'
  BY <1>0, <1>2 DEF Writing
<1> QED
  BY <1>2, <1>3, <1>4, <1>5, OwnTurn

\* The row is marked deleted.
LEMMA DeleteRowTurn == ASSUME TypeOK, FormInv, TurnInv, NEW p \in Request, DeleteRow(p) PROVE TurnInv'
<1> SUFFICES ASSUME NEW u, u = who[p] PROVE TurnInv'
  OBVIOUS
<1>0. /\ pc[p] = "deleteUser" /\ sessions' = sessions /\ UNCHANGED <<told, guesses, adminLocked, disturbed>>
      /\ row' = [row EXCEPT ![u] = IF Exists(u) THEN Deleted ELSE @]
  BY DEF DeleteRow, UserDelete, history
<1>1. u \in User /\ u # None
  BY <1>0, AccountAssumption DEF FormInv, RequestForm, TypeOK, RequestTypes
<1>2. Others(p) /\ pc'[p] = "endSessions" /\ who'[p] = u /\ op'[p] = op[p] /\ secret'[p] = secret[p]
  BY GotoOthers DEF DeleteRow
<1>3. /\ row'[u] = (IF Exists(u) THEN Deleted ELSE row[u]) /\ \A v \in User \ {u} : row'[v] = row[v]
  BY <1>0, <1>1 DEF TypeOK, TableTypes
<1>4. row'[u] \in {None, Deleted}
  BY <1>3 DEF Exists
<1>5. EmailsUnique'
  BY <1>3, <1>4 DEF TurnInv, EmailsUnique, Exists
<1>6. \A v \in User \ disturbed' : v # u => Frame(v)
  BY <1>0, <1>3 DEF Frame
<1>7. ASSUME u \notin disturbed' PROVE RestOf(u, p)' /\ Work(p, u)'
  <2>1. Work(p, u) /\ RestOf(u, p)
    BY <1>0, <1>1, <1>7, Alone
  <2>2. row'[u] # None
    BY <1>3, <2>1, RowAssumption DEF RestOf
  <2>3. RestOf(u, p)'
    BY <1>0, <1>2, <1>4, <2>1, <2>2 DEF RestOf, Exists
  <2>4. Work(p, u)'
    BY <1>0, <1>2, <2>1 DEF Work, Writing
  <2> QED
    BY <2>3, <2>4
<1>8. pc'[p] \notin Writing /\ pc[p] # "idle" /\ disturbed \subseteq disturbed' /\ who'[p] # None
  BY <1>0, <1>1, <1>2 DEF Writing
<1> QED
  BY <1>2, <1>5, <1>6, <1>7, <1>8, OwnTurn

\* A failed request disturbs its user.
LEMMA AbortTurn == ASSUME TypeOK, FormInv, TurnInv, NEW p \in Request, Abort(p) PROVE TurnInv'
<1> SUFFICES ASSUME NEW u, u = who[p] PROVE TurnInv'
  OBVIOUS
<1>0. /\ pc[p] # "idle" /\ row' = row /\ sessions' = sessions /\ UNCHANGED <<told, guesses, adminLocked>>
      /\ disturbed' = disturbed \cup {u}
  BY DEF Abort, tables
<1>1. Others(p) /\ pc'[p] = "idle" /\ who'[p] = None
  BY ReturnOthers DEF Abort
<1>2. EmailsUnique' /\ (\A v \in User \ disturbed' : v # u => Frame(v)) /\ u \in disturbed' /\ disturbed \subseteq disturbed'
  BY <1>0, SameRows DEF TurnInv, Frame
<1>3. pc'[p] \notin Writing /\ who'[p] \in {u, None}
  BY <1>1 DEF Writing
<1> QED
  BY <1>0, <1>1, <1>2, <1>3, OwnTurn

\* A lock that ends changes only its end.
LEMMA LockoutTurn == ASSUME TypeOK, FormInv, TurnInv, LockoutPasses PROVE TurnInv'
<1>0. /\ UNCHANGED <<sessions, pc, op, who, secret, told, guesses, adminLocked, disturbed>>
      /\ row' = [u \in User |-> LockEnds(row[u])]
      /\ copy' = [p \in Request |-> LockEnds(copy[p])]
  BY DEF LockoutPasses, history
<1>1. ASSUME NEW u \in User
      PROVE  /\ Exists(u)' <=> Exists(u)
             /\ row'[u] = None <=> row[u] = None
             /\ Exists(u) => /\ row[u] \in Row /\ row'[u].email = row[u].email /\ row'[u].password = row[u].password
                             /\ row'[u].failed = row[u].failed /\ row'[u].status = row[u].status
                             /\ row[u].until = "null" => row'[u].until = "null"
  <2>1. row'[u] = LockEnds(row[u]) /\ row[u] \in Row \cup {None, Deleted}
    BY <1>0 DEF TypeOK, TableTypes
  <2>2. CASE row[u] \in {None, Deleted}
    BY <2>1, <2>2 DEF Exists, LockEnds
  <2>3. CASE row[u] \in Row
    BY <2>1, <2>3, LockEndsRow, RowAssumption DEF Exists
  <2> QED
    BY <2>1, <2>2, <2>3
<1>2. ASSUME NEW p \in Request, pc[p] \in Writing \cup {"readAttempt"}
      PROVE  /\ copy'[p].id = copy[p].id /\ copy'[p].email = copy[p].email /\ copy'[p].password = copy[p].password
             /\ copy'[p].failed = copy[p].failed /\ copy'[p].status = copy[p].status
             /\ copy[p].until = "null" => copy'[p].until = "null"
  <2>1. copy'[p] = LockEnds(copy[p]) /\ copy[p] \in Row
    BY <1>0, <1>2 DEF FormInv, RequestForm, WithCopy, Writing
  <2> QED
    BY <2>1, LockEndsRow
<1>3. EmailsUnique'
  BY <1>1 DEF TurnInv, EmailsUnique
<1>4. OneAtATime' /\ CopiesOwn'
  BY <1>0, <1>2 DEF TurnInv, OneAtATime, CopiesOwn
<1>5. ASSUME NEW u \in User \ disturbed' PROVE Rest(u)' /\ \A p \in Request : who'[p] = u => Work(p, u)'
  <2>1. Rest(u) /\ \A p \in Request : who[p] = u => Work(p, u)
    BY <1>0 DEF TurnInv
  <2>2. Quiet(u)' <=> Quiet(u)
    BY <1>0 DEF Quiet
  <2>3. \A p \in Request : Counting(p)' <=> Counting(p)
    BY <1>0 DEF Counting
  <2>4. Rest(u)'
    BY <1>0, <1>1, <2>1, <2>2, <2>3 DEF Rest, Tallied, LockedForGood
  <2>5. ASSUME NEW p \in Request, who'[p] = u PROVE Work(p, u)'
    <3>1. Work(p, u)
      BY <1>0, <2>1, <2>5
    <3> QED
      BY <1>0, <1>1, <1>2, <3>1 DEF Work, Tallied, LockedForGood
  <2> QED
    BY <2>4, <2>5
<1> QED
  BY <1>3, <1>4, <1>5 DEF TurnInv

\* Every step keeps what holds of the users that were not disturbed.
LEMMA TurnNext == TypeOK /\ FormInv /\ TurnInv /\ [Next]_vars => TurnInv'
<1> SUFFICES ASSUME TypeOK, FormInv, TurnInv, [Next]_vars PROVE TurnInv'
  OBVIOUS
<1>n. \A p \in Request : pc[p] # "idle" => who[p] # None
  BY DEF FormInv, RequestForm
<1>1. ASSUME NEW p \in Request, StartVerification(p) PROVE TurnInv'
  <2>1. /\ pc[p] = "startVerification" /\ Others(p) /\ pc'[p] \in {"deletePending", "idle"}
        /\ \/ who'[p] = None /\ pc'[p] = "idle"
           \/ who'[p] = who[p] /\ op'[p] = op[p] /\ secret'[p] = secret[p]
    <3>1. CASE Return(p)
      BY <1>1, <3>1, ReturnOthers DEF StartVerification
    <3>2. CASE ~Return(p)
      BY <1>1, <3>2 DEF StartVerification, Others, TypeOK, RequestTypes
    <3> QED
      BY <3>1, <3>2
  <2>2. UNCHANGED <<row, sessions, told, guesses, adminLocked, disturbed>>
    BY <1>1 DEF StartVerification, tables, history
  <2> QED
    BY <1>n, <2>1, <2>2, PlainTurn DEF Writing
<1>2. ASSUME NEW p \in Request, NEW here, NEW next, pc[p] = here,
             here \in {"deletePending", "createCode", "markVerified", "revokeLinks", "createLink", "markUsed"},
             Return(p) \/ (Goto(p, next) /\ (next \in {"createCode", "createLink"}
                                             \/ (next = "save" /\ here \in {"markVerified", "markUsed"}))),
             UNCHANGED <<row, sessions, told, guesses, adminLocked, disturbed>>
      PROVE  TurnInv'
  <2>1. CASE Return(p)
    BY <1>2, <2>1, ReturnOthers, PlainTurn DEF Writing
  <2>2. CASE Goto(p, next) /\ (next \in {"createCode", "createLink"} \/ (next = "save" /\ here \in {"markVerified", "markUsed"}))
    <3>1. /\ Others(p) /\ pc'[p] = next /\ op'[p] = op[p] /\ who'[p] = who[p] /\ secret'[p] = secret[p] /\ copy'[p] = copy[p]
          /\ who[p] # None
      BY <1>2, <1>n, <2>2, GotoOthers
    <3> QED
      BY <1>2, <2>2, <3>1, PlainTurn DEF Writing
  <2> QED
    BY <1>2, <2>1, <2>2
<1>3. ASSUME NEW p \in Request, DeletePending(p) \/ (\E c \in Code : CreateCode(p, c)) \/ MarkVerified(p) PROVE TurnInv'
  BY <1>2, <1>3 DEF DeletePending, CreateCode, MarkVerified, history
<1>4. ASSUME NEW p \in Request, RevokeLinks(p) \/ (\E l \in Link : CreateLink(p, l)) \/ MarkUsed(p) PROVE TurnInv'
  BY <1>2, <1>4 DEF RevokeLinks, CreateLink, MarkUsed, history
<1>5. CASE EndSession \/ Age \/ CleanupExpired \/ UNCHANGED vars
  <2>1. /\ row' = row /\ sessions' \subseteq sessions /\ UNCHANGED <<told, guesses, adminLocked, disturbed>>
        /\ UNCHANGED <<pc, op, who, copy, secret>>
    BY <1>5 DEF EndSession, Age, CleanupExpired, vars, tables, request, history
  <2>2. EmailsUnique' /\ OneAtATime' /\ CopiesOwn'
    BY <2>1, SameRows DEF TurnInv, OneAtATime, CopiesOwn
  <2>3. ASSUME NEW u \in User \ disturbed' PROVE Rest(u)' /\ \A p \in Request : who'[p] = u => Work(p, u)'
    <3>1. Rest(u) /\ Frame(u) /\ \A p \in Request : who[p] = u => Work(p, u)
      BY <2>1 DEF TurnInv, Frame
    <3> QED
      BY <2>1, <3>1, TurnFrame
  <2> QED
    BY <2>2, <2>3 DEF TurnInv
<1>6. ASSUME NEW p \in Request, Continue(p) PROVE TurnInv'
  BY <1>1, <1>3, <1>4, <1>6, ReadAttemptTurn, SaveAttemptTurn, CreateSessionTurn, SaveTurn, EndSessionsTurn, DeleteRowTurn
  DEF Continue
<1> QED
  BY <1>5, <1>6, StartTurn, AbortTurn, LockoutTurn DEF Next

\* Nobody has been disturbed and no request works on anybody.
LEMMA TurnInit == Init => TurnInv
<1> SUFFICES ASSUME Init PROVE TurnInv
  OBVIOUS
<1>1. \A u \in User : row[u] = None /\ ~Exists(u) /\ guesses[u] = 0 /\ Quiet(u) /\ Rest(u)
  BY AccountAssumption DEF Init, Exists, Quiet, Rest
<1>2. \A p \in Request : who[p] = None /\ pc[p] = "idle"
  BY DEF Init
<1> QED
  BY <1>1, <1>2, AccountAssumption DEF TurnInv, EmailsUnique, OneAtATime, CopiesOwn, Writing

-----------------------------------------------------------------------------
(* The theorems *)

\* AccountInv is an invariant: every operation of user_service_impl.go, with
\* every interleaving of its statements with those of others, and with
\* failures between them, keeps it.
THEOREM Invariance == Spec => []AccountInv
<1>1. AccountInv /\ [Next]_vars => AccountInv'
  BY TypeNext, FormNext, LinkNext, AddressNext, MailNext DEF AccountInv
<1> QED
  BY <1>1, InvInit, PTL DEF Spec

\* Users, links, codes, sessions and requests keep their types.
THEOREM TypeCorrect == Spec => []TypeOK
<1>1. AccountInv => TypeOK
  BY DEF AccountInv
<1> QED
  BY <1>1, Invariance, PTL

\* However many requests present a reset link at once, it sets at most one
\* password (ResetPassword and MarkUsed's conditional update).
THEOREM LinksWorkOnce == Spec => []LinkWorksOnce
<1>1. AccountInv => LinkWorksOnce
  BY DEF AccountInv, LinkInv
<1> QED
  BY <1>1, Invariance, PTL

\* email_verified is only true of an address that was proved, or that a
\* verified account switched to, whatever rows are saved late (VerifyEmail).
THEOREM VerificationIsProved == Spec => []VerifiedIsProved
<1>1. AccountInv => VerifiedIsProved
  BY DEF AccountInv, AddressInv
<1> QED
  BY <1>1, Invariance, PTL

\* The links mailed to a user in an hour exceed the limit by fewer than there
\* are requests at once (RequestPasswordReset counts before it creates).
THEOREM MailsAreBounded == Spec => []ResetMailsBounded
<1>1. ASSUME MailInv PROVE ResetMailsBounded
  <2> SUFFICES ASSUME NEW u \in User PROVE CountSince(u) < MaxPasswordResetsPerHour + Cardinality(Request)
    BY DEF ResetMailsBounded
  <2>1. CountSince(u) + Cardinality(Asking(u)) < MaxPasswordResetsPerHour + Cardinality(Request)
    BY <1>1 DEF MailInv, Asking
  <2> QED
    BY <2>1, Counts, AccountAssumption
<1>2. AccountInv => ResetMailsBounded
  BY <1>1 DEF AccountInv
<1> QED
  BY <1>2, Invariance, PTL

\* TurnInv is an invariant: what a request read of a user that nothing disturbed is still
\* true when it saves it.
THEOREM TurnInvariance == Spec => [](AccountInv /\ TurnInv)
<1>1. AccountInv /\ TurnInv /\ [Next]_vars => TurnInv'
  BY TurnNext DEF AccountInv
<1> QED
  BY <1>1, TurnInit, Invariance, PTL DEF Spec

\* For users on whom requests took turns and none failed half-way, no sequence of logins,
\* lockouts, resets, profile and status changes leaves an old password or a session opened
\* with one (user_service_impl.go, account_handler.go).
THEOREM PasswordsTakeEffectInTurn == Spec => []PasswordTakesEffectInTurn
<1>1. TurnInv => PasswordTakesEffectInTurn
  <2> SUFFICES ASSUME TurnInv, NEW u \in User \ disturbed, Exists(u), Quiet(u)
               PROVE  row[u].password = told[u] /\ \A s \in sessions : s[1] = u => s[2] = told[u]
    BY DEF PasswordTakesEffectInTurn
  <2> QED
    BY QuietRest DEF TurnInv
<1> QED
  BY <1>1, TurnInvariance, PTL

\* For the same users, no login, reset or verification lifts an administrator's lock, and
\* none of their sessions survives it (LockUser, ResetPassword).
THEOREM AdminLocksHold == Spec => []AdminLockHolds
<1>1. TypeOK /\ TurnInv => AdminLockHolds
  <2> SUFFICES ASSUME TypeOK, TurnInv, NEW u \in adminLocked \ disturbed, Exists(u)
               PROVE  IsLocked(row[u]) /\ (Quiet(u) => \A s \in sessions : s[1] # u)
    BY DEF AdminLockHolds
  <2>1. Rest(u)
    BY DEF TurnInv, TypeOK, HistoryTypes
  <2> QED
    BY <2>1, QuietRest DEF Rest, IsLocked, LockedForGood
<1>2. AccountInv => TypeOK
  BY DEF AccountInv
<1> QED
  BY <1>1, <1>2, TurnInvariance, PTL

\* For the same users, no more than MaxLoginAttempts wrong passwords are compared before
\* the count is cleared (RecordLoginAttempt).
THEOREM GuessesAreBounded == Spec => []GuessesBounded
<1>1. TurnInv => GuessesBounded
  BY DEF TurnInv, Rest, GuessesBounded
<1> QED
  BY <1>1, TurnInvariance, PTL
=============================================================================
