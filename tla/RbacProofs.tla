----------------------------- MODULE RbacProofs -----------------------------
(* Proofs about Rbac, for any number of users, roles, permissions and      *)
(* requests, and for any mix of operations.                                *)
EXTENDS Rbac, TLAPS

\* An idle request carries nothing.
LEMMA NothingForm == Nothing \in Context /\ Form("idle", Nothing)
<1>1. Nothing \in Context
  BY DEF Nothing, Context
<1>2. Form("idle", Nothing)
  BY DEF Nothing, Form
<1> QED
  BY <1>1, <1>2

\* A request that moves on in the form of its next statement keeps the forms of all.
LEMMA KnowForm ==
  ASSUME TypeOK, FormInv, NEW p \in Request, NEW next \in PC, NEW context \in Context,
         Form(next, context), Know(p, next, context)
  PROVE  /\ pc' \in [Request -> PC] /\ req' \in [Request -> Context] /\ ops' \subseteq Operation
         /\ FormInv'
<1>1. pc' \in [Request -> PC] /\ req' \in [Request -> Context] /\ ops' \subseteq Operation
  BY DEF TypeOK, Know
<1>2. \A q \in Request : pc'[q] = (IF q = p THEN next ELSE pc[q])
  BY DEF TypeOK, Know
<1>3. \A q \in Request : req'[q] = (IF q = p THEN context ELSE req[q])
  BY DEF TypeOK, Know
<1>4. ASSUME NEW q \in Request PROVE Form(pc'[q], req'[q])
  BY <1>2, <1>3 DEF FormInv
<1>5. FormInv'
  BY <1>4 DEF FormInv, Form
<1> QED
  BY <1>1, <1>5

\* Records with one or two fields changed, field by field.
LEMMA WithLeft ==
  ASSUME NEW c \in Context, NEW left \in SUBSET (Role \X Permission)
  PROVE  /\ [c EXCEPT !.left = left] \in Context
         /\ [c EXCEPT !.left = left].user = c.user
         /\ [c EXCEPT !.left = left].want = c.want
         /\ [c EXCEPT !.left = left].target = c.target
         /\ [c EXCEPT !.left = left].flag = c.flag
         /\ [c EXCEPT !.left = left].roles = c.roles
         /\ [c EXCEPT !.left = left].left = left
         /\ [c EXCEPT !.left = left].doing = c.doing
         /\ [c EXCEPT !.left = left].role = c.role
         /\ [c EXCEPT !.left = left].wanted = c.wanted
         /\ [c EXCEPT !.left = left].permission = c.permission
         /\ \A at : Form(at, [c EXCEPT !.left = left]) <=> Form(at, c)
<1> DEFINE d == [c EXCEPT !.left = left]
<1>1. d \in Context
  BY DEF Context
<1>2. /\ d.left = left /\ d.doing = c.doing /\ d.role = c.role /\ d.wanted = c.wanted
      /\ d.permission = c.permission /\ d.row = c.row /\ d.user = c.user /\ d.want = c.want
      /\ d.target = c.target /\ d.flag = c.flag /\ d.roles = c.roles
  BY DEF Context
<1>3. \A at : Form(at, d) <=> Form(at, c)
  <2> HIDE DEF d
  <2> QED
    BY <1>2 DEF Form
<1> QED
  BY <1>1, <1>2, <1>3

\* The same for the roles that a check has left.
LEMMA WithRoles ==
  ASSUME NEW c \in Context, NEW roles \in SUBSET Role
  PROVE  /\ [c EXCEPT !.roles = roles] \in Context
         /\ [c EXCEPT !.roles = roles].doing = c.doing
         /\ [c EXCEPT !.roles = roles].user = c.user
         /\ [c EXCEPT !.roles = roles].want = c.want
         /\ [c EXCEPT !.roles = roles].target = c.target
         /\ [c EXCEPT !.roles = roles].flag = c.flag
         /\ [c EXCEPT !.roles = roles].left = c.left
         /\ [c EXCEPT !.roles = roles].roles = roles
  BY DEF Context

\* The same for the role.
LEMMA WithRole ==
  ASSUME NEW c \in Context, NEW r \in Role
  PROVE  /\ [c EXCEPT !.role = r] \in Context
         /\ [c EXCEPT !.role = r].doing = c.doing
         /\ [c EXCEPT !.role = r].user = c.user
         /\ [c EXCEPT !.role = r].want = c.want
         /\ [c EXCEPT !.role = r].target = c.target
         /\ [c EXCEPT !.role = r].flag = c.flag
         /\ [c EXCEPT !.role = r].left = c.left
         /\ [c EXCEPT !.role = r].roles = c.roles
         /\ [c EXCEPT !.role = r].role = r
  BY DEF Context

\* The same for the permissions it has seen.
LEMMA WithSeen ==
  ASSUME NEW c \in Context, NEW seen \in SUBSET Permission
  PROVE  /\ [c EXCEPT !.seen = seen] \in Context
         /\ [c EXCEPT !.seen = seen].doing = c.doing
         /\ [c EXCEPT !.seen = seen].user = c.user
         /\ [c EXCEPT !.seen = seen].want = c.want
         /\ [c EXCEPT !.seen = seen].target = c.target
         /\ [c EXCEPT !.seen = seen].left = c.left
         /\ [c EXCEPT !.seen = seen].roles = c.roles
         /\ [c EXCEPT !.seen = seen].flag = c.flag
  BY DEF Context

\* The same for what it has found.
LEMMA WithFlag ==
  ASSUME NEW c \in Context, NEW flag \in BOOLEAN
  PROVE  /\ [c EXCEPT !.flag = flag] \in Context
         /\ [c EXCEPT !.flag = flag].doing = c.doing
         /\ [c EXCEPT !.flag = flag].user = c.user
         /\ [c EXCEPT !.flag = flag].want = c.want
         /\ [c EXCEPT !.flag = flag].target = c.target
         /\ [c EXCEPT !.flag = flag].left = c.left
         /\ [c EXCEPT !.flag = flag].roles = c.roles
         /\ [c EXCEPT !.flag = flag].flag = flag
  BY DEF Context

\* A lookup found a permission to attach.
LEMMA WithPermission ==
  ASSUME NEW c \in Context, NEW q \in Permission
  PROVE  /\ [c EXCEPT !.permission = q] \in Context
         /\ [c EXCEPT !.permission = q].doing = c.doing
         /\ [c EXCEPT !.permission = q].role = c.role
         /\ [c EXCEPT !.permission = q].left = c.left
         /\ [c EXCEPT !.permission = q].wanted = c.wanted
         /\ [c EXCEPT !.permission = q].permission = q
         /\ Form("lookup", c) => Form("attach", [c EXCEPT !.permission = q])
<1> DEFINE d == [c EXCEPT !.permission = q]
<1>1. d \in Context
  BY DEF Context
<1>2. /\ d.left = c.left /\ d.doing = c.doing /\ d.role = c.role /\ d.wanted = c.wanted
      /\ d.permission = q /\ d.row = c.row /\ d.user = c.user /\ d.want = c.want
  BY DEF Context
<1>3. Form("lookup", c) => Form("attach", d)
  <2> HIDE DEF d
  <2> QED
    BY <1>2 DEF Form
<1> QED
  BY <1>1, <1>2, <1>3

\* A lookup that finds nothing leaves the permission out.
LEMMA WithWanted ==
  ASSUME NEW c \in Context, NEW wanted \in SUBSET Permission
  PROVE  /\ [c EXCEPT !.wanted = wanted] \in Context
         /\ [c EXCEPT !.wanted = wanted].doing = c.doing
         /\ [c EXCEPT !.wanted = wanted].role = c.role
         /\ [c EXCEPT !.wanted = wanted].left = c.left
         /\ [c EXCEPT !.wanted = wanted].wanted = wanted
         /\ Form("lookup", c) => Form("lookup", [c EXCEPT !.wanted = wanted])
<1> DEFINE d == [c EXCEPT !.wanted = wanted]
<1>1. d \in Context
  BY DEF Context
<1>2. /\ d.left = c.left /\ d.doing = c.doing /\ d.role = c.role /\ d.wanted = wanted
      /\ d.permission = c.permission /\ d.row = c.row /\ d.user = c.user /\ d.want = c.want
  BY DEF Context
<1>3. Form("lookup", c) => Form("lookup", d)
  <2> HIDE DEF d
  <2> QED
    BY <1>2 DEF Form
<1> QED
  BY <1>1, <1>2, <1>3

\* An update has read its role.
LEMMA WithRow ==
  ASSUME NEW c \in Context, NEW row \in RoleRow
  PROVE  /\ [c EXCEPT !.row = row] \in Context
         /\ [c EXCEPT !.row = row].doing = c.doing
         /\ [c EXCEPT !.row = row].role = c.role
         /\ [c EXCEPT !.row = row].row = row
         /\ c.doing = "updateRole" /\ Form("getRole", c) /\ row.live
              => Form("saveRole", [c EXCEPT !.row = row])
<1> DEFINE d == [c EXCEPT !.row = row]
<1>1. d \in Context
  BY DEF Context
<1>2. /\ d.left = c.left /\ d.doing = c.doing /\ d.role = c.role /\ d.wanted = c.wanted
      /\ d.permission = c.permission /\ d.row = row /\ d.user = c.user /\ d.want = c.want
  BY DEF Context
<1>3. c.doing = "updateRole" /\ Form("getRole", c) /\ row.live => Form("saveRole", d)
  <2> HIDE DEF d
  <2> QED
    BY <1>2 DEF Form
<1> QED
  BY <1>1, <1>2, <1>3

-----------------------------------------------------------------------------
(* Forms *)

\* A request goes on in the form of its next statement, with what it was doing, on the
\* same role, or is done.
Moves(p) ==
  \E next \in PC, context \in Context :
    /\ Know(p, next, context)
    /\ Form(next, context)
    /\ context.doing \in {req[p].doing, "none"}
    /\ context.doing \in {"none", "check"} \/ context.role = req[p].role

\* A request that answers is done.
LEMMA ReturnMoves ==
  ASSUME NEW p \in Request, Return(p)
  PROVE  Moves(p)
<1>1. Nothing.doing = "none" /\ "idle" \in PC
  BY DEF Nothing, PC
<1> QED
  BY <1>1, NothingForm DEF Moves, Return

\* A request that attaches goes on to the next permission, or ends.
LEMMA AttachingMoves ==
  ASSUME NEW p \in Request, NEW c \in Context, c.doing = req[p].doing, c.role = req[p].role,
         c.wanted = None \/ Form("lookup", c), Attaching(p, c)
  PROVE  Moves(p)
<1>1. CASE Return(p)
  BY <1>1, ReturnMoves
<1>2. CASE Know(p, "lookup", c) /\ c.wanted # None
  BY <1>2 DEF Moves, PC
<1>3. CASE Know(p, "updated", c) /\ c.wanted # None /\ c.doing = "updateRole"
  <2>1. Form("updated", c)
    BY <1>3 DEF Form
  <2> QED
    BY <1>3, <2>1 DEF Moves, PC
<1> QED
  BY <1>1, <1>2, <1>3 DEF Attaching

\* What an update asks for is left to attach.
LEMMA AskedForm ==
  ASSUME NEW p \in Request, req[p] \in Context, NEW at, Form(at, req[p]),
         \/ req[p].doing = "createRole"
         \/ req[p].doing = "updateRole" /\ at \notin {"getRole", "saveRole"}
  PROVE  /\ Asked(p) \in Context /\ Asked(p).doing = req[p].doing /\ Asked(p).role = req[p].role
         /\ Asked(p).wanted = req[p].wanted /\ Asked(p).left = {req[p].role} \X req[p].wanted
         /\ Form("lookup", Asked(p))
<1>1. req[p].role \in Role /\ req[p].wanted \in SUBSET Permission /\ Form("lookup", req[p])
  BY DEF Form
<1> DEFINE left == {req[p].role} \X req[p].wanted
<1>2. left \in SUBSET (Role \X Permission)
  BY <1>1
<1>3. Asked(p) = [req[p] EXCEPT !.left = left]
  BY DEF Asked
<1> HIDE DEF left
<1>4. Asked(p) \in Context
  BY <1>2, <1>3, WithLeft
<1>5. /\ Asked(p).doing = req[p].doing /\ Asked(p).role = req[p].role
      /\ Asked(p).wanted = req[p].wanted /\ Asked(p).left = left
  BY <1>2, <1>3, WithLeft
<1>6. Form("lookup", Asked(p)) <=> Form("lookup", req[p])
  BY <1>2, <1>3, WithLeft
<1> QED
  BY <1>1, <1>4, <1>5, <1>6 DEF left

\* A request that detaches goes on to the next pair, or to what follows the last.
LEMMA DetachedMoves ==
  ASSUME NEW p \in Request, req[p] \in Context, NEW c \in Context, c.doing = req[p].doing,
         c.role = req[p].role, NEW at \in {"listAttached", "detach"}, Form(at, req[p]),
         Form("detach", c), Detached(p, c)
  PROVE  Moves(p)
<1>1. CASE Return(p)
  BY <1>1, ReturnMoves
<1>2. CASE Know(p, "detach", c)
  BY <1>2 DEF Moves, PC
<1>3. CASE Attaching(p, Asked(p)) /\ c.doing = "updateRole"
  BY <1>3, AskedForm, AttachingMoves
<1>4. CASE Know(p, c.doing, c) /\ c.doing \in {"deleteRole", "deletePermission"}
  <2>1. Form(c.doing, c)
    BY <1>4 DEF Form
  <2> QED
    BY <1>4, <2>1 DEF Moves, PC
<1> QED
  BY <1>1, <1>2, <1>3, <1>4 DEF Detached

\* A check goes on to the next thing to read, or ends.
LEMMA ProceedMoves ==
  ASSUME NEW p \in Request, NEW c \in Context, c.doing = "check", c.doing = req[p].doing,
         c.user \in User, Proceed(p, c)
  PROVE  Moves(p)
<1>1. CASE Return(p)
  BY <1>1, ReturnMoves
<1>2. ASSUME NEW next \in {"checkPermissions", "checkRole", "allowed"}, Know(p, next, c)
      PROVE  Moves(p)
  <2>1. Form(next, c)
    BY DEF Form
  <2> QED
    BY <1>2, <2>1 DEF Moves, PC
<1> QED
  BY <1>1, <1>2 DEF Proceed

\* The statement after a look, spelled out.
LEMMA ThenFacts ==
  /\ DOMAIN Then = {"getByName", "getRole", "getPermission", "getExisting", "getAssignment",
                    "getRoleUsers"}
  /\ Then["getByName"]["createRole"] = "createRole"
  /\ Then["getByName"]["createPermission"] = "createPermission"
  /\ Then["getRole"]["updateRole"] = "saveRole"
  /\ Then["getRole"]["deleteRole"] = "getRoleUsers"
  /\ Then["getRole"]["addPermission"] = "getPermission"
  /\ Then["getRole"]["removePermission"] = "getPermission"
  /\ Then["getRole"]["assign"] = "getAssignment"
  /\ Then["getRole"]["revoke"] = "unassign"
  /\ Then["getPermission"]["addPermission"] = "getExisting"
  /\ Then["getPermission"]["removePermission"] = "detach"
  /\ Then["getPermission"]["updatePermission"] = "savePermission"
  /\ Then["getPermission"]["deletePermission"] = "listAttached"
  /\ Then["getExisting"]["addPermission"] = "attach"
  /\ Then["getAssignment"]["assign"] = "assign"
  /\ Then["getRoleUsers"]["deleteRole"] = "listAttached"
  BY DEF Then

\* What each operation looks at.
LEMMA LookingAt ==
  ASSUME NEW p \in Request, req[p] \in Context, Form(pc[p], req[p]), pc[p] \in DOMAIN Then
  PROVE  \/ pc[p] = "getByName" /\ req[p].doing \in {"createRole", "createPermission"}
         \/ /\ pc[p] = "getRole"
            /\ req[p].doing \in {"updateRole", "deleteRole", "addPermission", "removePermission",
                                 "assign", "revoke"}
         \/ /\ pc[p] = "getPermission"
            /\ req[p].doing \in {"addPermission", "removePermission", "updatePermission",
                                 "deletePermission"}
         \/ pc[p] = "getExisting" /\ req[p].doing = "addPermission"
         \/ pc[p] = "getAssignment" /\ req[p].doing = "assign"
         \/ pc[p] = "getRoleUsers" /\ req[p].doing = "deleteRole"
<1>1. pc[p] \in {"getByName", "getRole", "getPermission", "getExisting", "getAssignment",
                "getRoleUsers"}
  BY ThenFacts
<1>2. req[p].doing \in Operation \cup {"none"}
  BY DEF Context
<1> QED
  BY <1>1, <1>2 DEF Form, Operation

\* A look ends the request or takes it to the statement after it.
LEMMA LookMoves ==
  ASSUME TypeOK, FormInv, NEW p \in Request, Look(p)
  PROVE  Moves(p)
<1>1. req[p] \in Context /\ Form(pc[p], req[p]) /\ pc[p] \in DOMAIN Then
  BY DEF TypeOK, FormInv, Look
<1>2. CASE Return(p)
  BY <1>2, ReturnMoves
<1>3. CASE Passes(p) /\ Know(p, Then[pc[p]][req[p].doing], Read(p))
  <2>1. CASE pc[p] = "getRole" /\ req[p].doing = "updateRole"
    <3> DEFINE old == role[req[p].role]
               row == [old EXCEPT !.active = IF req[p].wanted = None THEN req[p].flag ELSE @]
    <3>1. old \in RoleRow /\ old.live
      <4>1. req[p].role \in Role
        BY <1>1, <2>1 DEF Form
      <4>2. RoleLive(req[p].role)
        BY <1>3, <2>1 DEF Passes
      <4> QED
        BY <4>1, <4>2 DEF RoleLive, TypeOK
    <3>2. row \in RoleRow /\ row.live
      BY <1>1, <3>1 DEF RoleRow, Context
    <3>3. Read(p) = [req[p] EXCEPT !.row = row]
      BY <2>1 DEF Read
    <3> HIDE DEF old, row
    <3>4. /\ Read(p) \in Context /\ Read(p).doing = req[p].doing /\ Read(p).role = req[p].role
          /\ Form("saveRole", Read(p))
      BY <1>1, <2>1, <3>2, <3>3, WithRow
    <3> QED
      BY <1>3, <2>1, <3>4, ThenFacts DEF Moves, PC
  <2>2. CASE pc[p] = "getPermission" /\ req[p].doing = "removePermission"
    <3> DEFINE left == {<<req[p].role, req[p].permission>>}
    <3>0. req[p] \in Context
      BY <1>1
    <3>1. left \in SUBSET (Role \X Permission)
      BY <1>1, <2>2 DEF Form
    <3>2. Read(p) = [req[p] EXCEPT !.left = left]
      BY <2>2 DEF Read
    <3> HIDE DEF left
    <3>3. Read(p) \in Context /\ Read(p).doing = req[p].doing /\ Read(p).role = req[p].role
      <4>1. [req[p] EXCEPT !.left = left] \in Context
        BY <3>0, <3>1, WithLeft
      <4>2. /\ [req[p] EXCEPT !.left = left].doing = req[p].doing
            /\ [req[p] EXCEPT !.left = left].role = req[p].role
        BY <3>0, <3>1, WithLeft
      <4> QED
        BY <3>2, <4>1, <4>2
    <3>4. Form("detach", Read(p))
      <4>1. Form("detach", Read(p)) <=> Form("detach", req[p])
        BY <3>0, <3>1, <3>2, WithLeft
      <4> QED
        BY <1>1, <2>2, <4>1 DEF Form
    <3> QED
      BY <1>3, <2>2, <3>3, <3>4, ThenFacts DEF Moves, PC
  <2>3. CASE ~(pc[p] = "getRole" /\ req[p].doing = "updateRole")
             /\ ~(pc[p] = "getPermission" /\ req[p].doing = "removePermission")
    <3>1. Read(p) = req[p]
      BY <2>3 DEF Read
    <3> DEFINE doing == req[p].doing
               next == Then[pc[p]][doing]
    <3>2. next \in PC /\ Form(next, req[p])
      <4>1. CASE pc[p] = "getByName"
        <5>1. next = doing /\ doing \in {"createRole", "createPermission"}
          BY <1>1, <4>1, LookingAt, ThenFacts
        <5> QED
          BY <1>1, <4>1, <5>1 DEF Form, PC
      <4>2. CASE pc[p] = "getRole"
        <5>1. \/ doing = "deleteRole" /\ next = "getRoleUsers"
              \/ doing \in {"addPermission", "removePermission"} /\ next = "getPermission"
              \/ doing = "assign" /\ next = "getAssignment"
              \/ doing = "revoke" /\ next = "unassign"
          BY <1>1, <2>3, <4>2, LookingAt, ThenFacts
        <5> HIDE DEF next
        <5> QED
          BY <1>1, <4>2, <5>1 DEF Form, PC
      <4>3. CASE pc[p] = "getPermission"
        <5>1. \/ doing = "addPermission" /\ next = "getExisting"
              \/ doing = "updatePermission" /\ next = "savePermission"
              \/ doing = "deletePermission" /\ next = "listAttached"
          BY <1>1, <2>3, <4>3, LookingAt, ThenFacts
        <5> HIDE DEF next
        <5> QED
          BY <1>1, <4>3, <5>1 DEF Form, PC
      <4>4. CASE pc[p] = "getExisting" \/ pc[p] = "getAssignment" \/ pc[p] = "getRoleUsers"
        <5>1. \/ pc[p] = "getExisting" /\ doing = "addPermission" /\ next = "attach"
              \/ pc[p] = "getAssignment" /\ doing = "assign" /\ next = "assign"
              \/ pc[p] = "getRoleUsers" /\ doing = "deleteRole" /\ next = "listAttached"
          BY <1>1, <4>4, LookingAt, ThenFacts
        <5> HIDE DEF next
        <5> QED
          BY <1>1, <5>1 DEF Form, PC
      <4> QED
        BY <1>1, <4>1, <4>2, <4>3, <4>4, LookingAt
    <3> QED
      BY <1>1, <1>3, <3>1, <3>2 DEF Moves
  <2> QED
    BY <2>1, <2>2, <2>3
<1> QED
  BY <1>2, <1>3 DEF Look

\* The statements that attach what was asked for, or store the role first.
LEMMA AttachMoves ==
  ASSUME TypeOK, FormInv, NEW p \in Request,
         InsertRole(p) \/ UpdateRow(p) \/ Lookup(p) \/ Attach(p)
  PROVE  Moves(p)
<1>1. req[p] \in Context /\ Form(pc[p], req[p]) /\ req[p].doing \in Operation \cup {"none"}
  BY DEF TypeOK, FormInv, Context
<1>2. CASE InsertRole(p)
  <2>1. pc[p] = "createRole" /\ req[p].doing = "createRole"
    BY <1>1, <1>2 DEF InsertRole, Form, Operation
  <2>2. Return(p) \/ Attaching(p, Asked(p))
    BY <1>2 DEF InsertRole
  <2> QED
    BY <1>1, <2>1, <2>2, AskedForm, AttachingMoves, ReturnMoves
<1>3. CASE UpdateRow(p)
  <2>1. pc[p] = "saveRole" /\ req[p].doing = "updateRole"
    BY <1>1, <1>3 DEF UpdateRow, Form, Operation
  <2>2. Return(p) \/ (Know(p, "listAttached", req[p]) /\ req[p].wanted # None)
    BY <1>3 DEF UpdateRow, Goto
  <2>3. req[p].wanted # None => req[p].wanted \in SUBSET Permission
    BY <1>1 DEF Context
  <2>4. req[p].wanted # None => Form("listAttached", req[p])
    BY <1>1, <2>1, <2>3 DEF Form
  <2> QED
    BY <1>1, <2>2, <2>4, ReturnMoves DEF Moves, PC
<1>4. CASE Lookup(p)
  <2>1. PICK pair \in req[p].left :
          LET context == [req[p] EXCEPT !.left = @ \ {pair}] IN
          IF Known(pair[2])
          THEN Know(p, "attach", [context EXCEPT !.permission = pair[2]])
          ELSE Attaching(p, [context EXCEPT !.wanted = @ \ {pair[2]}])
    BY <1>4 DEF Lookup
  <2> DEFINE left == req[p].left \ {pair}
             c == [req[p] EXCEPT !.left = left]
  <2>2. /\ left \in SUBSET (Role \X Permission) /\ pair[2] \in Permission
        /\ pc[p] = "lookup" /\ req[p].wanted \in SUBSET Permission
    BY <1>1, <1>4 DEF Lookup, Context, Form, Operation
  <2>3. c \in Context /\ c.doing = req[p].doing /\ c.role = req[p].role /\ c.wanted = req[p].wanted
    <3> HIDE DEF left
    <3>1. c \in Context
      BY <1>1, <2>2, WithLeft
    <3>2. c.doing = req[p].doing /\ c.role = req[p].role /\ c.wanted = req[p].wanted
      BY <1>1, <2>2, WithLeft
    <3> QED
      BY <3>1, <3>2
  <2>4. Form("lookup", c)
    <3> HIDE DEF left
    <3>1. Form("lookup", c) <=> Form("lookup", req[p])
      BY <1>1, <2>2, WithLeft
    <3> QED
      BY <1>1, <2>2, <3>1
  <2>5. CASE Known(pair[2])
    <3>1. Know(p, "attach", [c EXCEPT !.permission = pair[2]])
      BY <2>1, <2>5
    <3> HIDE DEF c
    <3>2. [c EXCEPT !.permission = pair[2]] \in Context
      BY <2>2, <2>3, WithPermission
    <3>3. /\ [c EXCEPT !.permission = pair[2]].doing = c.doing
          /\ [c EXCEPT !.permission = pair[2]].role = c.role
      BY <2>2, <2>3, WithPermission
    <3>4. Form("attach", [c EXCEPT !.permission = pair[2]])
      BY <2>2, <2>3, <2>4, WithPermission
    <3> QED
      BY <2>3, <3>1, <3>2, <3>3, <3>4 DEF Moves, PC
  <2>6. CASE ~Known(pair[2])
    <3>1. Attaching(p, [c EXCEPT !.wanted = c.wanted \ {pair[2]}])
      BY <2>1, <2>6
    <3> HIDE DEF c
    <3> DEFINE wanted == c.wanted \ {pair[2]}
    <3>2. wanted \in SUBSET Permission
      BY <2>2, <2>3
    <3> HIDE DEF wanted
    <3>3. [c EXCEPT !.wanted = wanted] \in Context
      BY <2>3, <3>2, WithWanted
    <3>4. /\ [c EXCEPT !.wanted = wanted].doing = c.doing
          /\ [c EXCEPT !.wanted = wanted].role = c.role
      BY <2>3, <3>2, WithWanted
    <3>5. Form("lookup", [c EXCEPT !.wanted = wanted])
      BY <2>3, <2>4, <3>2, WithWanted
    <3> QED
      BY <2>3, <3>1, <3>3, <3>4, <3>5, AttachingMoves DEF wanted
  <2> QED
    BY <2>5, <2>6
<1>5. CASE Attach(p)
  <2>1. pc[p] = "attach" /\ Attaching(p, req[p])
    BY <1>5 DEF Attach
  <2>2. req[p].wanted = None \/ Form("lookup", req[p])
    BY <1>1, <2>1 DEF Form, Operation
  <2> QED
    BY <1>1, <2>1, <2>2, AttachingMoves
<1> QED
  BY <1>2, <1>3, <1>4, <1>5

\* The statements that detach.
LEMMA DetachMoves ==
  ASSUME TypeOK, FormInv, NEW p \in Request, ListAttached(p) \/ Detach(p)
  PROVE  Moves(p)
<1>1. req[p] \in Context /\ Form(pc[p], req[p]) /\ req[p].doing \in Operation \cup {"none"}
  BY DEF TypeOK, FormInv, Context
<1>2. PICK left \in SUBSET (Role \X Permission) : Detached(p, [req[p] EXCEPT !.left = left])
  <2>1. CASE ListAttached(p)
    <3>1. ToDetach(p) \in SUBSET (Role \X Permission)
      BY DEF ToDetach, AttachedTo, AttachedWith, TypeOK
    <3> QED
      BY <2>1, <3>1 DEF ListAttached
  <2>2. CASE Detach(p)
    <3>1. PICK pair \in req[p].left : Detached(p, [req[p] EXCEPT !.left = req[p].left \ {pair}])
      BY <2>2 DEF Detach
    <3>2. req[p].left \ {pair} \in SUBSET (Role \X Permission)
      BY <1>1 DEF Context
    <3> QED
      BY <3>1, <3>2
  <2> QED
    BY <2>1, <2>2
<1> DEFINE c == [req[p] EXCEPT !.left = left]
<1>3. pc[p] \in {"listAttached", "detach"}
  BY DEF ListAttached, Detach
<1>4. c \in Context
  BY <1>1, WithLeft
<1>5. c.doing = req[p].doing /\ c.role = req[p].role
  BY <1>1, WithLeft
<1>6. Form("detach", c)
  <2>1. Form("detach", c) <=> Form("detach", req[p])
    BY <1>1, WithLeft
  <2> QED
    BY <1>1, <1>3, <2>1 DEF Form, Operation
<1> HIDE DEF c
<1> QED
  BY <1>1, <1>2, <1>3, <1>4, <1>5, <1>6, DetachedMoves DEF c

\* A failed statement that is logged and passed over.
LEMMA SkipMoves ==
  ASSUME TypeOK, FormInv, NEW p \in Request, Skip(p)
  PROVE  Moves(p)
<1>1. req[p] \in Context /\ Form(pc[p], req[p]) /\ req[p].doing \in Operation \cup {"none"}
  BY DEF TypeOK, FormInv, Context
<1>2. ASSUME NEW left \in SUBSET (Role \X Permission), pc[p] \in {"listAttached", "detach"},
             Detached(p, [req[p] EXCEPT !.left = left])
      PROVE  Moves(p)
  <2> DEFINE c == [req[p] EXCEPT !.left = left]
  <2>1. c \in Context
    BY <1>1, WithLeft
  <2>2. c.doing = req[p].doing /\ c.role = req[p].role
    BY <1>1, WithLeft
  <2>3. Form("detach", c)
    <3>1. Form("detach", c) <=> Form("detach", req[p])
      BY <1>1, WithLeft
    <3> QED
      BY <1>1, <1>2, <3>1 DEF Form, Operation
  <2> HIDE DEF c
  <2> QED
    BY <1>1, <1>2, <2>1, <2>2, <2>3, DetachedMoves DEF c
<1>3. CASE pc[p] = "listAttached" /\ Detached(p, [req[p] EXCEPT !.left = {}])
  <2>1. PICK left \in SUBSET (Role \X Permission) : left = {}
    OBVIOUS
  <2>2. Detached(p, [req[p] EXCEPT !.left = left])
    BY <1>3, <2>1
  <2> QED
    BY <1>2, <1>3, <2>2
<1>4. ASSUME pc[p] = "detach", NEW pair \in req[p].left,
             Detached(p, [req[p] EXCEPT !.left = req[p].left \ {pair}])
      PROVE  Moves(p)
  <2>1. req[p].left \ {pair} \in SUBSET (Role \X Permission)
    BY <1>1 DEF Context
  <2> QED
    BY <1>2, <1>4, <2>1
<1>5. ASSUME pc[p] = "lookup", NEW pair \in req[p].left,
             Attaching(p, [req[p] EXCEPT !.left = req[p].left \ {pair}])
      PROVE  Moves(p)
  <2> DEFINE left == req[p].left \ {pair}
  <2>1. left \in SUBSET (Role \X Permission)
    BY <1>1 DEF Context
  <2> HIDE DEF left
  <2> DEFINE c == [req[p] EXCEPT !.left = left]
  <2>2. c \in Context
    BY <1>1, <2>1, WithLeft
  <2>3. c.doing = req[p].doing /\ c.role = req[p].role
    BY <1>1, <2>1, WithLeft
  <2>4. Form("lookup", c)
    <3>1. Form("lookup", c) <=> Form("lookup", req[p])
      BY <1>1, <2>1, WithLeft
    <3> QED
      BY <1>1, <1>5, <3>1
  <2>5. Attaching(p, c)
    BY <1>5 DEF left
  <2> HIDE DEF c
  <2> QED
    BY <2>2, <2>3, <2>4, <2>5, AttachingMoves
<1>6. CASE pc[p] = "attach" /\ Attaching(p, req[p])
  <2>1. req[p].wanted = None \/ Form("lookup", req[p])
    BY <1>1, <1>6 DEF Form, Operation
  <2> QED
    BY <1>1, <1>6, <2>1, AttachingMoves
<1>7. CASE /\ pc[p] = "detach"
          /\ \E pair \in req[p].left : Detached(p, [req[p] EXCEPT !.left = @ \ {pair}])
  <2>1. PICK pair \in req[p].left : Detached(p, [req[p] EXCEPT !.left = req[p].left \ {pair}])
    BY <1>7
  <2> QED
    BY <1>4, <1>7, <2>1
<1>8. CASE /\ pc[p] = "lookup"
          /\ \E pair \in req[p].left : Attaching(p, [req[p] EXCEPT !.left = @ \ {pair}])
  <2>1. PICK pair \in req[p].left : Attaching(p, [req[p] EXCEPT !.left = req[p].left \ {pair}])
    BY <1>8
  <2> QED
    BY <1>5, <1>8, <2>1
<1> QED
  BY <1>3, <1>6, <1>7, <1>8 DEF Skip

\* The statements of a check.
LEMMA CheckMoves ==
  ASSUME TypeOK, FormInv, NEW p \in Request, CheckStatement(p)
  PROVE  Moves(p)
<1>1. req[p] \in Context /\ Form(pc[p], req[p]) /\ req[p].doing \in Operation \cup {"none"}
  BY DEF TypeOK, FormInv, Context
<1>2. CASE Serve(p)
  BY <1>2, ReturnMoves DEF Serve
<1>3. CASE ~Serve(p)
  <2>1. pc[p] \in {"getUserRoles", "checkRole", "rolePermissions", "checkPermissions"}
    BY <1>3 DEF CheckStatement, GetUserRoles, CheckRole, GetRolePermissions, CheckPermission
  <2>2. req[p].doing = "check" /\ req[p].user \in User
    BY <1>1, <2>1 DEF Form, Operation
  <2>3. CASE GetUserRoles(p)
    <3> DEFINE roles == RolesOf(req[p].user)
               c == [req[p] EXCEPT !.roles = roles]
    <3>1. roles \in SUBSET Role /\ Proceed(p, c)
      BY <2>3 DEF GetUserRoles, RolesOf
    <3> HIDE DEF roles
    <3>2. c \in Context
      BY <1>1, <3>1, WithRoles
    <3>3. c.doing = "check" /\ c.user = req[p].user
      BY <1>1, <2>2, <3>1, WithRoles
    <3> HIDE DEF c
    <3> QED
      BY <2>2, <3>1, <3>2, <3>3, ProceedMoves
  <2>4. CASE CheckRole(p)
    <3>1. PICK r \in req[p].roles :
            IF RoleGrants(r)
            THEN Know(p, "rolePermissions", [[req[p] EXCEPT !.roles = @ \ {r}] EXCEPT !.role = r])
            ELSE Proceed(p, [req[p] EXCEPT !.roles = @ \ {r}])
      BY <2>4 DEF CheckRole
    <3> DEFINE roles == req[p].roles \ {r}
               c == [req[p] EXCEPT !.roles = roles]
    <3>2. roles \in SUBSET Role /\ r \in Role
      BY <1>1 DEF Context
    <3>3. \/ Know(p, "rolePermissions", [c EXCEPT !.role = r])
          \/ Proceed(p, c)
      BY <3>1
    <3> HIDE DEF roles
    <3>4. c \in Context
      BY <1>1, <3>2, WithRoles
    <3>5. c.doing = "check" /\ c.user = req[p].user
      BY <1>1, <2>2, <3>2, WithRoles
    <3> HIDE DEF c
    <3> DEFINE d == [c EXCEPT !.role = r]
    <3>6. d \in Context
      BY <3>2, <3>4, WithRole
    <3>7. d.doing = c.doing /\ d.user = c.user /\ d.role = r
      BY <3>2, <3>4, WithRole
    <3> HIDE DEF d
    <3>8. Form("rolePermissions", d)
      BY <2>2, <3>2, <3>5, <3>7 DEF Form
    <3>9. ASSUME Know(p, "rolePermissions", d) PROVE Moves(p)
      BY <2>2, <3>5, <3>6, <3>7, <3>8, <3>9 DEF Moves, PC
    <3>10. ASSUME Proceed(p, c) PROVE Moves(p)
      BY <2>2, <3>4, <3>5, <3>10, ProceedMoves
    <3> QED
      BY <3>3, <3>9, <3>10 DEF d
  <2>5. CASE GetRolePermissions(p)
    <3> DEFINE left == {pair \in AttachedTo(req[p].role) : pair[2] \notin req[p].seen}
               c == [req[p] EXCEPT !.left = left]
    <3>1. left \in SUBSET (Role \X Permission) /\ Proceed(p, c)
      BY <2>5 DEF GetRolePermissions, AttachedTo, TypeOK
    <3> HIDE DEF left
    <3>2. c \in Context
      BY <1>1, <3>1, WithLeft
    <3>3. c.doing = "check" /\ c.user = req[p].user
      BY <1>1, <2>2, <3>1, WithLeft
    <3> HIDE DEF c
    <3> QED
      BY <2>2, <3>1, <3>2, <3>3, ProceedMoves
  <2>6. CASE CheckPermission(p)
    <3>1. PICK pair \in req[p].left :
            Proceed(p, IF Known(pair[2])
                       THEN [[req[p] EXCEPT !.left = @ \ {pair}]
                               EXCEPT !.seen = @ \cup {pair[2]},
                                      !.flag = @ \/ Covers(permission[pair[2]], req[p].want)]
                       ELSE [req[p] EXCEPT !.left = @ \ {pair}])
      BY <2>6 DEF CheckPermission
    <3> DEFINE left == req[p].left \ {pair}
               c == [req[p] EXCEPT !.left = left]
               seen == c.seen \cup {pair[2]}
               flag == c.flag \/ Covers(permission[pair[2]], req[p].want)
               d == [c EXCEPT !.seen = seen]
               e == [d EXCEPT !.flag = flag]
    <3>2. left \in SUBSET (Role \X Permission) /\ pair[2] \in Permission
      BY <1>1 DEF Context
    <3>3. c \in Context /\ c.doing = "check" /\ c.user = req[p].user
      <4> HIDE DEF left
      <4>1. c \in Context
        BY <1>1, <3>2, WithLeft
      <4>2. c.doing = "check" /\ c.user = req[p].user
        BY <1>1, <2>2, <3>2, WithLeft
      <4> QED
        BY <4>1, <4>2
    <3>4. Proceed(p, c) \/ Proceed(p, e)
      BY <3>1, <3>3
    <3>5. seen \in SUBSET Permission /\ flag \in BOOLEAN
      <4> HIDE DEF c
      <4> QED
        BY <3>2, <3>3 DEF Context
    <3> HIDE DEF c, seen, flag
    <3>6. d \in Context /\ d.doing = c.doing /\ d.user = c.user
      BY <3>3, <3>5, WithSeen
    <3> HIDE DEF d
    <3>7. e \in Context /\ e.doing = d.doing /\ e.user = d.user
      BY <3>5, <3>6, WithFlag
    <3> HIDE DEF e
    <3> QED
      BY <2>2, <3>3, <3>4, <3>6, <3>7, ProceedMoves
  <2> QED
    BY <1>3, <2>3, <2>4, <2>5, <2>6 DEF CheckStatement
<1> QED
  BY <1>2, <1>3

\* Every statement of a request.
LEMMA StatementMoves ==
  ASSUME TypeOK, FormInv, NEW p \in Request,
         Statement(p) \/ CheckStatement(p) \/ Abort(p) \/ Skip(p)
  PROVE  Moves(p)
<1>1. CASE Statement(p)
  <2>1. CASE Updated(p) \/ SoftDeleteRole(p) \/ Assign(p) \/ Unassign(p) \/ StorePermission(p)
    <3>1. Return(p)
      BY <2>1 DEF Updated, SoftDeleteRole, Assign, Unassign, StorePermission
    <3> QED
      BY <3>1, ReturnMoves
  <2> QED
    BY <1>1, <2>1, LookMoves, AttachMoves, DetachMoves DEF Statement
<1>2. CASE Abort(p)
  BY <1>2, ReturnMoves DEF Abort
<1> QED
  BY <1>1, <1>2, CheckMoves, SkipMoves

\* A request begins with a look, and carries what it was asked for.
Begins(p) ==
  \E next \in {"getByName", "getRole", "getPermission"}, context \in Context :
    /\ Know(p, next, context)
    /\ Form(next, context)
    /\ context.doing \notin {"check", "none"}
    /\ UNCHANGED <<tables, disturbed>>

\* From its operation and its parameters.
LEMMA StartBegins ==
  ASSUME NEW p \in Request, NEW operation \in Operation \ {"check"},
         NEW next \in {"getByName", "getRole", "getPermission"}, NEW c \in Context,
         Start(p, operation, next, c), Form(next, [c EXCEPT !.doing = operation])
  PROVE  Begins(p)
<1> DEFINE d == [c EXCEPT !.doing = operation]
<1>1. d \in Context /\ d.doing = operation
  BY DEF Context
<1>2. Know(p, next, d) /\ UNCHANGED <<tables, disturbed>>
  BY DEF Start, Know
<1>3. operation \notin {"check", "none"}
  BY DEF Operation
<1> HIDE DEF d
<1> QED
  BY <1>1, <1>2, <1>3 DEF Begins, d

\* Every request about a role begins with nothing done.
LEMMA RoleRequestBegins ==
  ASSUME NEW p \in Request, NEW r \in Role, RoleRequest(p, r)
  PROVE  Begins(p)
<1>1. ASSUME NEW n \in Name, NEW wanted \in SUBSET Permission, CreateRole(p, r, n, wanted)
      PROVE  Begins(p)
  <2> DEFINE row == [name |-> n, active |-> TRUE, live |-> TRUE]
             c == [Nothing EXCEPT !.role = r, !.wanted = wanted, !.row = row]
  <2>1. row \in RoleRow /\ row.live
    BY DEF RoleRow
  <2> HIDE DEF row
  <2>2. c \in Context
    BY <2>1 DEF Nothing, Context
  <2>3. Form("getByName", [c EXCEPT !.doing = "createRole"])
    BY <2>1 DEF Nothing, Form
  <2> QED
    BY <1>1, <2>2, <2>3, StartBegins DEF CreateRole, Operation, row
<1>2. ASSUME NEW wanted \in (SUBSET Permission) \cup {None}, NEW active \in BOOLEAN,
             UpdateRole(p, r, active, wanted)
      PROVE  Begins(p)
  <2> DEFINE c == [Nothing EXCEPT !.role = r, !.wanted = wanted, !.flag = active]
  <2>1. c \in Context
    BY DEF Nothing, Context
  <2>2. Form("getRole", [c EXCEPT !.doing = "updateRole"])
    BY DEF Nothing, Form
  <2> QED
    BY <1>2, <2>1, <2>2, StartBegins DEF UpdateRole, Operation
<1>3. CASE DeleteRole(p, r)
  <2> DEFINE c == [Nothing EXCEPT !.role = r]
  <2>1. c \in Context
    BY DEF Nothing, Context
  <2>2. Form("getRole", [c EXCEPT !.doing = "deleteRole"])
    BY DEF Nothing, Form
  <2> QED
    BY <1>3, <2>1, <2>2, StartBegins DEF DeleteRole, Operation
<1>4. ASSUME NEW q \in Permission, AddPermission(p, r, q) \/ RemovePermission(p, r, q)
      PROVE  Begins(p)
  <2> DEFINE c == [Nothing EXCEPT !.role = r, !.permission = q]
  <2>1. c \in Context
    BY DEF Nothing, Context
  <2>2. Form("getRole", [c EXCEPT !.doing = "addPermission"])
    BY DEF Nothing, Form
  <2>3. Form("getRole", [c EXCEPT !.doing = "removePermission"])
    BY DEF Nothing, Form
  <2>4. CASE AddPermission(p, r, q)
    BY <2>1, <2>2, <2>4, StartBegins DEF AddPermission, Operation
  <2>5. CASE RemovePermission(p, r, q)
    BY <2>1, <2>3, <2>5, StartBegins DEF RemovePermission, Operation
  <2> QED
    BY <1>4, <2>4, <2>5
<1>5. ASSUME NEW u \in User, AssignToUser(p, r, u) \/ RevokeFromUser(p, r, u)
      PROVE  Begins(p)
  <2> DEFINE c == [Nothing EXCEPT !.role = r, !.user = u]
  <2>1. c \in Context
    BY DEF Nothing, Context
  <2>2. Form("getRole", [c EXCEPT !.doing = "assign"])
    BY DEF Nothing, Form
  <2>3. Form("getRole", [c EXCEPT !.doing = "revoke"])
    BY DEF Nothing, Form
  <2>4. CASE AssignToUser(p, r, u)
    BY <2>1, <2>2, <2>4, StartBegins DEF AssignToUser, Operation
  <2>5. CASE RevokeFromUser(p, r, u)
    BY <2>1, <2>3, <2>5, StartBegins DEF RevokeFromUser, Operation
  <2> QED
    BY <1>5, <2>4, <2>5
<1> QED
  BY <1>1, <1>2, <1>3, <1>4, <1>5 DEF RoleRequest

\* So does every request about a permission.
LEMMA PermissionRequestBegins ==
  ASSUME NEW p \in Request, NEW q \in Permission, PermissionRequest(p, q)
  PROVE  Begins(p)
<1>1. ASSUME NEW a \in Action, CreatePermission(p, q, a) \/ UpdatePermission(p, q, a)
      PROVE  Begins(p)
  <2> DEFINE c == [Nothing EXCEPT !.permission = q, !.want = a]
  <2>1. c \in Context
    BY DEF Nothing, Context
  <2>2. Form("getByName", [c EXCEPT !.doing = "createPermission"])
    BY DEF Nothing, Form
  <2>3. Form("getPermission", [c EXCEPT !.doing = "updatePermission"])
    BY DEF Nothing, Form
  <2>4. CASE CreatePermission(p, q, a)
    BY <2>1, <2>2, <2>4, StartBegins DEF CreatePermission, Operation
  <2>5. CASE UpdatePermission(p, q, a)
    BY <2>1, <2>3, <2>5, StartBegins DEF UpdatePermission, Operation
  <2> QED
    BY <1>1, <2>4, <2>5
<1>2. CASE DeletePermission(p, q)
  <2> DEFINE c == [Nothing EXCEPT !.permission = q]
  <2>1. c \in Context
    BY DEF Nothing, Context
  <2>2. Form("getPermission", [c EXCEPT !.doing = "deletePermission"])
    BY DEF Nothing, Form
  <2> QED
    BY <1>2, <2>1, <2>2, StartBegins DEF DeletePermission, Operation
<1> QED
  BY <1>1, <1>2 DEF PermissionRequest

\* The first statement of a check, or none when it needs no permission.
LEMMA AuthorizeForm ==
  ASSUME TypeOK, FormInv, NEW p \in Request, NEW u \in User, NEW want \in {"read", "super"},
         NEW target \in User \cup {None}, Authorize(p, u, want, target)
  PROVE  /\ pc' \in [Request -> PC] /\ req' \in [Request -> Context] /\ ops' \subseteq Operation
         /\ FormInv'
<1> DEFINE b == [Nothing EXCEPT !.user = u, !.want = want, !.target = target]
           c == [b EXCEPT !.doing = "check"]
           next == IF u \in SuperAdmin \/ target = u THEN "allowed" ELSE "getUserRoles"
<1>1. c \in Context
  BY DEF Nothing, Context, Operation, Action
<1>2. c.doing = "check" /\ c.user = u
  BY DEF Nothing
<1>3. Know(p, next, c)
  BY DEF Authorize, Start, Know
<1>4. next \in PC /\ next \in {"allowed", "getUserRoles"}
  BY DEF PC
<1> HIDE DEF c, next
<1>5. Form(next, c)
  BY <1>2, <1>4 DEF Form
<1> QED
  BY <1>1, <1>3, <1>4, <1>5, KnowForm

\* What a step of the system is, request by request.
LEMMA StepCases ==
  ASSUME TypeOK, FormInv, Step
  PROVE  \/ \E p \in Request : Begins(p)
         \/ \E p \in Request, u \in User, target \in User \cup {None}, want \in {"read", "super"} :
              Authorize(p, u, want, target)
         \/ \E p \in Request : Moves(p) /\ (Statement(p) \/ CheckStatement(p) \/ Abort(p) \/ Skip(p))
         \/ \E u \in User, r \in Role : AssignmentExpires(u, r)
  BY RoleRequestBegins, PermissionRequestBegins, StatementMoves DEF Step

\* Requests keep their types and forms.
LEMMA FormNext ==
  ASSUME TypeOK, FormInv, Step
  PROVE  /\ pc' \in [Request -> PC] /\ req' \in [Request -> Context] /\ ops' \subseteq Operation
         /\ FormInv'
<1>1. ASSUME NEW p \in Request, Begins(p)
      PROVE  \E next \in PC, c \in Context : Know(p, next, c) /\ Form(next, c)
  BY <1>1 DEF Begins, PC
<1>2. ASSUME NEW p \in Request, Moves(p)
      PROVE  \E next \in PC, c \in Context : Know(p, next, c) /\ Form(next, c)
  BY <1>2 DEF Moves
<1>3. ASSUME NEW u \in User, NEW r \in Role, AssignmentExpires(u, r)
      PROVE  /\ pc' \in [Request -> PC] /\ req' \in [Request -> Context] /\ ops' \subseteq Operation
             /\ FormInv'
  BY <1>3 DEF AssignmentExpires, request, TypeOK, FormInv
<1> QED
  BY <1>1, <1>2, <1>3, StepCases, KnowForm, AuthorizeForm

\* And the tables keep theirs.
TablesOK ==
  /\ role \in [Role -> RoleRow \cup {None}]
  /\ permission \in [Permission -> Action \cup {None}]
  /\ assigned \subseteq User \X Role /\ lapsed \subseteq assigned
  /\ attached \subseteq Role \X Permission
  /\ disturbed \subseteq Role

\* The statements of role and permission operations leave tables of the right types.
LEMMA TablesStatement ==
  ASSUME TypeOK, FormInv, AssignInv, NEW p \in Request, Statement(p)
  PROVE  TablesOK'
<1>1. req[p] \in Context /\ Form(pc[p], req[p]) /\ req[p].doing \in Operation \cup {"none"} /\ TablesOK
  BY DEF TypeOK, FormInv, Context, TablesOK
<1>2. CASE UNCHANGED <<tables, disturbed>>
  BY <1>1, <1>2 DEF TablesOK, tables
<1>3. CASE InsertRole(p) \/ UpdateRow(p)
  <2>1. req[p].role \in Role /\ req[p].row \in RoleRow
    BY <1>1, <1>3 DEF InsertRole, UpdateRow, Form, Operation
  <2>2. role' = [role EXCEPT ![req[p].role] = req[p].row] \/ role' = role
    BY <1>3 DEF InsertRole, UpdateRow, SaveRole
  <2>3. role' \in [Role -> RoleRow \cup {None}]
    BY <1>1, <2>1, <2>2 DEF TablesOK
  <2> QED
    BY <1>1, <1>3, <2>3 DEF TablesOK, InsertRole, UpdateRow
<1>4. CASE Detach(p)
  <2>1. PICK pair \in req[p].left : attached' = attached \ {pair} /\ Disturb(p, pair[1])
    BY <1>4 DEF Detach
  <2>2. pair[1] \in Role
    BY <1>1 DEF Context
  <2>3. disturbed' \subseteq Role
    BY <1>1, <2>1, <2>2 DEF Disturb, TablesOK
  <2> QED
    BY <1>1, <1>4, <2>1, <2>3 DEF Detach, TablesOK
<1>5. CASE Attach(p)
  <2>1. req[p].role \in Role /\ req[p].permission \in Permission
    BY <1>1, <1>5 DEF Attach, Form, Operation
  <2>2. disturbed' \subseteq Role /\ attached' \subseteq Role \X Permission
    BY <1>1, <1>5, <2>1 DEF Attach, Disturb, TablesOK
  <2> QED
    BY <1>1, <1>5, <2>2 DEF Attach, TablesOK
<1>6. CASE SoftDeleteRole(p)
  <2> DEFINE r == req[p].role
  <2>1. r \in Role /\ req[p].doing = "deleteRole" /\ pc[p] # "getRole"
    BY <1>1, <1>6 DEF SoftDeleteRole, Form, Operation
  <2>2. role[r] \in RoleRow
    BY <1>1, <2>1 DEF AssignInv, TablesOK
  <2>3. role' = [role EXCEPT ![r].live = FALSE] /\ Disturb(p, r)
    BY <1>6 DEF SoftDeleteRole
  <2>4. [role[r] EXCEPT !.live = FALSE] \in RoleRow
    BY <2>2 DEF RoleRow
  <2>5. role' \in [Role -> RoleRow \cup {None}]
    BY <1>1, <2>1, <2>3, <2>4 DEF TablesOK
  <2>6. disturbed' \subseteq Role
    BY <1>1, <2>1, <2>3 DEF Disturb, TablesOK
  <2> QED
    BY <1>1, <1>6, <2>5, <2>6 DEF SoftDeleteRole, TablesOK
<1>7. CASE Assign(p) \/ Unassign(p)
  <2>1. req[p].role \in Role /\ req[p].user \in User
    BY <1>1, <1>7 DEF Assign, Unassign, Form, Operation
  <2>2. CASE Assign(p)
    BY <1>1, <2>1, <2>2 DEF Assign, Disturb, TablesOK
  <2>3. CASE Unassign(p)
    BY <1>1, <2>1, <2>3 DEF Unassign, TablesOK
  <2> QED
    BY <1>7, <2>2, <2>3
<1>8. CASE StorePermission(p)
  <2>1. req[p].permission \in Permission
    BY <1>1, <1>8 DEF StorePermission, Form, Operation
  <2>2. pc[p] \in {"createPermission", "savePermission"} => req[p].want \in Action
    BY <1>1 DEF Form, Operation
  <2>3. PICK a \in Action \cup {None} : permission' = [permission EXCEPT ![req[p].permission] = a]
    BY <1>1, <1>8, <2>1, <2>2 DEF StorePermission, TablesOK
  <2>4. permission' \in [Permission -> Action \cup {None}]
    BY <1>1, <2>3 DEF TablesOK
  <2> QED
    BY <1>1, <1>8, <2>4 DEF StorePermission, TablesOK
<1> QED
  BY <1>2, <1>3, <1>4, <1>5, <1>6, <1>7, <1>8 DEF Statement, Look, ListAttached, Lookup, Updated

\* Every step keeps the types and the forms of requests.
LEMMA TypeNext ==
  ASSUME TypeOK, FormInv, AssignInv, Next
  PROVE  TypeOK' /\ FormInv'
<1>1. TablesOK
  BY DEF TypeOK, TablesOK
<1>2. ASSUME NEW p \in Request, Skip(p) PROVE TablesOK'
  <2>1. req[p].role \in Role
    BY <1>2 DEF Skip, TypeOK, Context
  <2> QED
    BY <1>1, <1>2, <2>1 DEF Skip, TablesOK, tables
<1>3. ASSUME UNCHANGED <<tables, disturbed>> PROVE TablesOK'
  BY <1>1, <1>3 DEF TablesOK, tables
<1>4. ASSUME NEW p \in Request, CheckStatement(p) \/ Abort(p) PROVE TablesOK'
  BY <1>3, <1>4
     DEF CheckStatement, GetUserRoles, CheckRole, GetRolePermissions, CheckPermission, Serve, Abort
<1>5. ASSUME NEW u \in User, NEW r \in Role, AssignmentExpires(u, r) PROVE TablesOK'
  BY <1>1, <1>5 DEF AssignmentExpires, TablesOK
<1>6. ASSUME NEW p \in Request, Begins(p) PROVE TablesOK'
  BY <1>3, <1>6 DEF Begins
<1>7. ASSUME NEW p \in Request, NEW u \in User, NEW target \in User \cup {None},
             NEW want \in {"read", "super"}, Authorize(p, u, want, target)
      PROVE  TablesOK'
  BY <1>3, <1>7 DEF Authorize, Start
<1>8. TablesOK'
  BY <1>2, <1>4, <1>5, <1>6, <1>7, StepCases, TablesStatement DEF Next
<1>9. held' \subseteq Request /\ lost' \subseteq Request /\ mixed' \subseteq Request
  BY DEF Next, Observe, Checking
<1> QED
  BY <1>8, <1>9, FormNext DEF Next, TypeOK, TablesOK

-----------------------------------------------------------------------------
(* The check *)

\* The four kinds of grants are told apart by their tags.
Tagged ==
  /\ \A x : <<"assigned", x>> \in Grants <=> x \in assigned \ lapsed
  /\ \A x : <<"attached", x>> \in Grants <=> x \in attached
  /\ \A r \in Role : <<"role", r>> \in Grants <=> RoleGrants(r)
  /\ \A q \in Permission : \A a :
       <<"permission", <<q, a>>>> \in Grants <=> Known(q) /\ permission[q] = a

\* This is so before and after every step.
LEMMA GrantsTagged == Tagged /\ Tagged'
<1>1. /\ \A x, y : <<"assigned", x>> # <<"attached", y>> /\ <<"assigned", x>> # <<"role", y>>
      /\ \A x, y : <<"assigned", x>> # <<"permission", y>> /\ <<"attached", x>> # <<"role", y>>
      /\ \A x, y : <<"attached", x>> # <<"permission", y>> /\ <<"role", x>> # <<"permission", y>>
      /\ \A t, x, y : <<t, x>> = <<t, y>> => x = y
  OBVIOUS
<1>2. \A x : <<"assigned", x>> \in Grants <=> x \in assigned \ lapsed
  BY <1>1 DEF Grants
<1>3. \A x : <<"attached", x>> \in Grants <=> x \in attached
  BY <1>1 DEF Grants
<1>4. \A r \in Role : <<"role", r>> \in Grants <=> RoleGrants(r)
  BY <1>1 DEF Grants
<1>5. \A q \in Permission : \A a :
        <<"permission", <<q, a>>>> \in Grants <=> Known(q) /\ permission[q] = a
  BY <1>1 DEF Grants
<1>6. Tagged
  BY <1>2, <1>3, <1>4, <1>5 DEF Tagged
<1> QED
  BY <1>6, PTL

\* What nothing was taken away from.
LEMMA NothingTaken ==
  ASSUME Grants \subseteq Grants'
  PROVE  /\ assigned \ lapsed \subseteq assigned' \ lapsed'
         /\ attached \subseteq attached'
         /\ \A r \in Role : RoleGrants(r) => RoleGrants(r)'
         /\ \A q \in Permission : Known(q) => Known(q)' /\ permission'[q] = permission[q]
<1>1. \A x : x \in assigned \ lapsed => x \in assigned' \ lapsed'
  BY GrantsTagged DEF Tagged
<1>2. \A x : x \in attached => x \in attached'
  BY GrantsTagged DEF Tagged
<1>3. \A r \in Role : RoleGrants(r) => RoleGrants(r)'
  BY GrantsTagged DEF Tagged
<1>4. \A q \in Permission : Known(q) => Known(q)' /\ permission'[q] = permission[q]
  BY GrantsTagged DEF Tagged
<1> QED
  BY <1>1, <1>2, <1>3, <1>4

\* What nothing was granted to.
LEMMA NothingGranted ==
  ASSUME Grants' \subseteq Grants
  PROVE  /\ assigned' \ lapsed' \subseteq assigned \ lapsed
         /\ attached' \subseteq attached
         /\ \A r \in Role : RoleGrants(r)' => RoleGrants(r)
         /\ \A q \in Permission : Known(q)' => Known(q) /\ permission'[q] = permission[q]
<1>1. \A x : x \in assigned' \ lapsed' => x \in assigned \ lapsed
  BY GrantsTagged DEF Tagged
<1>2. \A x : x \in attached' => x \in attached
  BY GrantsTagged DEF Tagged
<1>3. \A r \in Role : RoleGrants(r)' => RoleGrants(r)
  BY GrantsTagged DEF Tagged
<1>4. \A q \in Permission : Known(q)' => Known(q) /\ permission'[q] = permission[q]
  BY GrantsTagged DEF Tagged
<1> QED
  BY <1>1, <1>2, <1>3, <1>4

\* What a check has read and is still there gives its user the permission right now.
LEMMA FreshCovers ==
  ASSUME TypeOK', NEW p \in Request, NEW at, NEW c \in Context, Fresh(at, c)',
         Holds(c.user, c.want)' => p \in held'
  PROVE  Covered(p, at, c)'
<1>1. ASSUME NEW r \in Role, NEW q \in Permission, <<c.user, r>> \in assigned' \ lapsed',
             RoleGrants(r)', Gives(r, q, c.want)'
      PROVE  p \in held'
  BY <1>1 DEF Holds, Gives
<1>2. /\ c.roles \subseteq Role /\ c.left \subseteq Role \X Permission
      /\ attached' \subseteq Role \X Permission
  BY DEF TypeOK, Context
<1>3. \A r \in c.roles, q \in Permission : RoleGrants(r)' /\ Gives(r, q, c.want)' => p \in held'
  BY <1>1, <1>2 DEF Fresh
<1>4. ASSUME at = "rolePermissions", NEW q \in Permission, Gives(c.role, q, c.want)'
      PROVE  p \in held'
  <2>1. c.role \in Role
    BY <1>2, <1>4 DEF Gives
  <2> QED
    BY <1>1, <1>4, <2>1 DEF Fresh
<1>5. ASSUME NEW pair \in c.left, Known(pair[2])', Covers(permission'[pair[2]], c.want)
      PROVE  p \in held'
  <2>1. PICK r \in Role, q \in Permission : pair = <<r, q>>
    BY <1>2
  <2> QED
    BY <1>1, <1>5, <2>1 DEF Fresh, Gives
<1> QED
  BY <1>3, <1>4, <1>5 DEF Covered

\* A check that only waits: what it has read is still there, or whatever it can still find
\* is not more than it was, or the step is a grant after a loss.
LEMMA WaitingCheck ==
  ASSUME TypeOK, TypeOK', CheckInv, Observe, NEW p \in Request, req[p].doing = "check",
         req'[p] = req[p], pc'[p] = pc[p]
  PROVE  Checked(p, pc[p], req[p])'
<1> DEFINE at == pc[p]
           c  == req[p]
<1>1. Checked(p, at, c) /\ p \in Checking /\ p \in Checking'
  BY DEF CheckInv, Checking
<1>2. /\ p \in lost => p \in lost'
      /\ p \in mixed => p \in mixed'
      /\ p \in held => p \in held'
      /\ Holds(c.user, c.want)' => p \in held'
  BY <1>1 DEF Observe
<1>3. /\ p \in lost' \/ Grants \subseteq Grants'
      /\ p \in lost' => p \in mixed' \/ Grants' \subseteq Grants
  BY <1>1 DEF Observe
<1>4. c \in Context /\ c.roles \subseteq Role /\ c.left \subseteq Role \X Permission
  BY DEF TypeOK, Context
<1>5. CASE p \notin lost'
  <2>1. Fresh(at, c)
    BY <1>1, <1>2, <1>5 DEF Checked
  <2>2. Fresh(at, c)'
    <3>1. attached \subseteq Role \X Permission /\ assigned \subseteq User \X Role
      BY DEF TypeOK
    <3>2. Grants \subseteq Grants'
      BY <1>3, <1>5
    <3> QED
      BY <1>4, <2>1, <3>1, <3>2, NothingTaken DEF Fresh
  <2>3. Covered(p, at, c)'
    BY <1>2, <1>4, <2>2, FreshCovers
  <2> QED
    BY <1>1, <1>2, <2>2, <2>3 DEF Checked
<1>6. CASE p \in lost' /\ p \notin mixed'
  <2>1. Covered(p, at, c)
    BY <1>1, <1>2, <1>6 DEF Checked
  <2>2. Covered(p, at, c)'
    BY <1>2, <1>3, <1>4, <1>6, <2>1, NothingGranted DEF Covered, Gives
  <2> QED
    BY <1>1, <1>2, <1>6, <2>2 DEF Checked
<1>7. CASE p \in lost' /\ p \in mixed'
  BY <1>1, <1>2, <1>7 DEF Checked
<1> QED
  BY <1>5, <1>6, <1>7

\* A check that goes on reads what the tables still hold.
LEMMA MovedCheck ==
  ASSUME TypeOK, Observe, UNCHANGED tables, NEW p \in Request, req[p].doing = "check",
         NEW next, NEW c \in Context, pc'[p] = next, req'[p] = c,
         c.doing = "check", c.user = req[p].user, c.want = req[p].want, Checked(p, next, c)
  PROVE  Checked(p, pc[p], req[p])'
<1>1. p \in Checking /\ p \in Checking'
  BY DEF Checking
<1>2. /\ role' = role /\ permission' = permission /\ assigned' = assigned
      /\ lapsed' = lapsed /\ attached' = attached
  BY DEF tables
<1>3. /\ \A r : RoleGrants(r)' <=> RoleGrants(r)
      /\ \A q : Known(q)' <=> Known(q)
      /\ Holds(c.user, c.want)' <=> Holds(c.user, c.want)
  BY <1>2 DEF RoleGrants, RoleLive, Known, Holds
<1>4. Grants' = Grants
  BY <1>2, <1>3 DEF Grants
<1>5. /\ p \in lost' <=> p \in lost
      /\ p \in mixed' <=> p \in mixed
      /\ p \in held => p \in held'
      /\ Holds(c.user, c.want)' => p \in held'
  BY <1>1, <1>4 DEF Observe
<1>6. Fresh(next, c)' <=> Fresh(next, c)
  BY <1>2, <1>3 DEF Fresh
<1>7. Covered(p, next, c) => Covered(p, next, c)'
  BY <1>2, <1>3, <1>5 DEF Covered, Gives
<1> QED
  BY <1>3, <1>5, <1>6, <1>7 DEF Checked

\* Wherever it goes on to, it has what the statement there relies on.
LEMMA ProceedChecked ==
  ASSUME TypeOK, Observe, UNCHANGED tables, NEW p \in Request, req[p].doing = "check",
         NEW c \in Context, c.doing = "check", c.user = req[p].user, c.want = req[p].want,
         Checked(p, "checkRole", c), Proceed(p, c), req'[p].doing = "check"
  PROVE  Checked(p, pc[p], req[p])'
<1>1. ASSUME NEW next \in PC, Know(p, next, c) PROVE pc'[p] = next /\ req'[p] = c
  BY <1>1 DEF Know, TypeOK
<1>2. ~Return(p)
  BY DEF Return, Know, Nothing, TypeOK
<1>3. \/ Know(p, "checkPermissions", c) \/ Know(p, "checkRole", c)
      \/ Know(p, "allowed", c) /\ c.flag
  BY <1>2 DEF Proceed
<1>4. CASE Know(p, "checkPermissions", c) \/ Know(p, "checkRole", c)
  <2>1. Checked(p, "checkPermissions", c)
    BY DEF Checked, Fresh, Covered
  <2> QED
    BY <1>1, <1>4, <2>1, MovedCheck DEF PC
<1>5. CASE Know(p, "allowed", c) /\ c.flag
  <2>1. Checked(p, "allowed", c)
    BY <1>5 DEF Checked, Fresh, Covered
  <2> QED
    BY <1>1, <1>5, <2>1, MovedCheck DEF PC
<1> QED
  BY <1>3, <1>4, <1>5

\* A check begins with nothing read.
LEMMA StartedCheck ==
  ASSUME TypeOK, Observe, NEW p \in Request, NEW u \in User, NEW want \in {"read", "super"},
         NEW target \in User \cup {None}, Authorize(p, u, want, target)
  PROVE  Checked(p, pc[p], req[p])'
<1> DEFINE c == [Nothing EXCEPT !.user = u, !.want = want, !.target = target, !.doing = "check"]
           next == IF u \in SuperAdmin \/ target = u THEN "allowed" ELSE "getUserRoles"
<1>1. pc'[p] = next /\ req'[p] = c
  BY DEF Authorize, Start, TypeOK, Nothing
<1>2. /\ c.doing = "check" /\ c.roles = {} /\ c.left = {} /\ c.flag = FALSE
      /\ c.user = u /\ c.want = want /\ c.target = target
  BY DEF Nothing
<1> HIDE DEF c
<1>3. Holds(c.user, c.want)' => p \in held'
  BY <1>1, <1>2 DEF Observe, Checking
<1>4. Fresh(next, c)'
  BY <1>2 DEF Fresh
<1>5. Covered(p, next, c)'
  BY <1>2 DEF Covered
<1> QED
  BY <1>1, <1>2, <1>3, <1>4, <1>5 DEF Checked

\* The roles are those that the user's current assignments name.
LEMMA GetUserRolesChecked ==
  ASSUME TypeOK, CheckInv, Observe, NEW p \in Request, req[p].doing = "check", GetUserRoles(p),
         req'[p].doing = "check"
  PROVE  Checked(p, pc[p], req[p])'
<1> DEFINE c == [req[p] EXCEPT !.roles = RolesOf(req[p].user)]
<1>1. req[p] \in Context /\ RolesOf(req[p].user) \in SUBSET Role
  BY DEF TypeOK, RolesOf
<1>2. /\ c \in Context /\ c.doing = "check" /\ c.user = req[p].user /\ c.want = req[p].want
      /\ c.flag = req[p].flag /\ c.left = req[p].left /\ c.roles = RolesOf(c.user)
  BY <1>1, WithRoles
<1>3. Proceed(p, c) /\ UNCHANGED tables
  BY DEF GetUserRoles
<1>4. Checked(p, pc[p], req[p])
  BY DEF CheckInv
<1> HIDE DEF c
<1>5. Checked(p, "checkRole", c)
  <2>1. p \in lost \/ Fresh("checkRole", c)
    BY <1>2, <1>4 DEF Checked, Fresh, RolesOf
  <2>2. p \in mixed \/ Covered(p, "checkRole", c)
    <3>1. ASSUME NEW r \in c.roles, NEW q \in Permission, RoleGrants(r), Gives(r, q, c.want)
          PROVE  p \in held
      BY <1>2, <1>4, <3>1 DEF Checked, Holds, RolesOf, Gives
    <3> QED
      BY <1>2, <1>4, <3>1 DEF Checked, Covered
  <2> QED
    BY <1>2, <1>4, <2>1, <2>2 DEF Checked
<1> QED
  BY <1>2, <1>3, <1>5, ProceedChecked

\* A role that does not grant is passed over.
LEMMA CheckRoleChecked ==
  ASSUME TypeOK, CheckInv, Observe, NEW p \in Request, req[p].doing = "check", CheckRole(p),
         req'[p].doing = "check"
  PROVE  Checked(p, pc[p], req[p])'
<1>1. PICK r \in req[p].roles :
        IF RoleGrants(r)
        THEN Know(p, "rolePermissions", [[req[p] EXCEPT !.roles = @ \ {r}] EXCEPT !.role = r])
        ELSE Proceed(p, [req[p] EXCEPT !.roles = @ \ {r}])
  BY DEF CheckRole
<1>2. UNCHANGED tables /\ r \in Role /\ req[p] \in Context /\ req[p].roles \ {r} \in SUBSET Role
  BY DEF CheckRole, TypeOK, Context
<1> DEFINE c == [req[p] EXCEPT !.roles = @ \ {r}]
           d == [c EXCEPT !.role = r]
<1>3. /\ c \in Context /\ c.doing = "check" /\ c.user = req[p].user /\ c.want = req[p].want
      /\ c.flag = req[p].flag /\ c.left = req[p].left /\ c.roles = req[p].roles \ {r}
  BY <1>2, WithRoles
<1>4. Checked(p, pc[p], req[p])
  BY DEF CheckInv
<1>5. Checked(p, "checkRole", c)
  <2> HIDE DEF c
  <2> QED
    BY <1>3, <1>4 DEF Checked, Fresh, Covered
<1>6. CASE RoleGrants(r)
  <2>1. /\ d \in Context /\ d.doing = c.doing /\ d.user = c.user /\ d.want = c.want
        /\ d.flag = c.flag /\ d.left = c.left /\ d.roles = c.roles /\ d.role = r
    <3> HIDE DEF c
    <3> QED
      BY <1>2, <1>3, WithRole
  <2>2. Know(p, "rolePermissions", d)
    BY <1>1, <1>6
  <2> HIDE DEF c, d
  <2>3. Checked(p, "rolePermissions", d)
    <3>1. p \in lost \/ Fresh("rolePermissions", d)
      BY <1>3, <1>4, <1>5, <1>6, <2>1 DEF Checked, Fresh
    <3>2. p \in mixed \/ Covered(p, "rolePermissions", d)
      BY <1>3, <1>4, <1>5, <1>6, <2>1 DEF Checked, Covered
    <3> QED
      BY <1>3, <1>5, <2>1, <3>1, <3>2 DEF Checked
  <2>4. pc'[p] = "rolePermissions" /\ req'[p] = d
    BY <2>2 DEF Know, TypeOK
  <2> QED
    BY <1>2, <1>3, <2>1, <2>3, <2>4, MovedCheck
<1>7. CASE ~RoleGrants(r)
  <2>1. Proceed(p, c)
    BY <1>1, <1>7
  <2> HIDE DEF c
  <2> QED
    BY <1>2, <1>3, <1>5, <2>1, ProceedChecked
<1> QED
  BY <1>6, <1>7

\* A granting role's permissions are those attached to it now.
LEMMA GetRolePermissionsChecked ==
  ASSUME TypeOK, CheckInv, Observe, NEW p \in Request, req[p].doing = "check",
         GetRolePermissions(p), req'[p].doing = "check"
  PROVE  Checked(p, pc[p], req[p])'
<1> DEFINE left == {pair \in AttachedTo(req[p].role) : pair[2] \notin req[p].seen}
           c == [req[p] EXCEPT !.left = left]
<1>1. left \subseteq attached /\ \A pair \in left : pair[1] = req[p].role
  BY DEF AttachedTo
<1>2. attached \subseteq Role \X Permission
  BY DEF TypeOK
<1>3. Proceed(p, c) /\ UNCHANGED tables /\ pc[p] = "rolePermissions"
  BY DEF GetRolePermissions
<1> HIDE DEF left
<1>4. /\ c \in Context /\ c.doing = "check" /\ c.user = req[p].user /\ c.want = req[p].want
      /\ c.flag = req[p].flag /\ c.left = left /\ c.roles = req[p].roles
  <2>1. req[p] \in Context /\ left \in SUBSET (Role \X Permission)
    BY <1>1, <1>2 DEF TypeOK
  <2> QED
    BY <2>1, WithLeft
<1> HIDE DEF c
<1>5. Checked(p, pc[p], req[p])
  BY DEF CheckInv
<1>6. Checked(p, "checkRole", c)
  <2>1. p \in lost \/ Fresh("checkRole", c)
    BY <1>1, <1>3, <1>4, <1>5 DEF Checked, Fresh
  <2>2. p \in mixed \/ Covered(p, "checkRole", c)
    <3>1. ASSUME NEW pair \in left, Known(pair[2]), Covers(permission[pair[2]], c.want), p \notin mixed
          PROVE  p \in held
      <4>1. pair = <<req[p].role, pair[2]>> /\ pair[2] \in Permission
        BY <1>1, <1>2
      <4>2. Gives(req[p].role, pair[2], req[p].want)
        BY <1>1, <1>4, <3>1, <4>1 DEF Gives
      <4> QED
        BY <1>3, <1>5, <3>1, <4>1, <4>2 DEF Checked, Covered
    <3> QED
      BY <1>4, <1>5, <3>1 DEF Checked, Covered
  <2> QED
    BY <1>4, <1>5, <2>1, <2>2 DEF Checked
<1> QED
  BY <1>3, <1>4, <1>6, ProceedChecked

\* Only a permission that exists and covers the action sets the flag.
LEMMA CheckPermissionChecked ==
  ASSUME TypeOK, CheckInv, Observe, NEW p \in Request, req[p].doing = "check",
         CheckPermission(p), req'[p].doing = "check"
  PROVE  Checked(p, pc[p], req[p])'
<1>1. PICK pair \in req[p].left :
        Proceed(p, IF Known(pair[2])
                   THEN [[req[p] EXCEPT !.left = @ \ {pair}]
                           EXCEPT !.seen = @ \cup {pair[2]},
                                  !.flag = @ \/ Covers(permission[pair[2]], req[p].want)]
                   ELSE [req[p] EXCEPT !.left = @ \ {pair}])
  BY DEF CheckPermission
<1>2. /\ UNCHANGED tables /\ pair \in Role \X Permission /\ req[p] \in Context
      /\ req[p].left \ {pair} \in SUBSET (Role \X Permission)
  BY DEF CheckPermission, TypeOK, Context
<1> DEFINE c == [req[p] EXCEPT !.left = @ \ {pair}]
           d == [c EXCEPT !.seen = @ \cup {pair[2]},
                          !.flag = @ \/ Covers(permission[pair[2]], req[p].want)]
<1>3. /\ c \in Context /\ c.doing = "check" /\ c.user = req[p].user /\ c.want = req[p].want
      /\ c.flag = req[p].flag /\ c.left = req[p].left \ {pair} /\ c.roles = req[p].roles
  <2> DEFINE left == req[p].left \ {pair}
  <2>1. c = [req[p] EXCEPT !.left = left] /\ left \in SUBSET (Role \X Permission)
    BY <1>2
  <2> HIDE DEF c, left
  <2>2. req[p] \in Context
    BY <1>2
  <2>3. /\ c \in Context /\ c.doing = req[p].doing /\ c.user = req[p].user /\ c.want = req[p].want
        /\ c.flag = req[p].flag /\ c.left = left /\ c.roles = req[p].roles
    BY <2>1, <2>2, WithLeft
  <2> QED
    BY <2>3 DEF left
<1>4. Checked(p, pc[p], req[p])
  BY DEF CheckInv
<1>5. Checked(p, "checkRole", c)
  <2> HIDE DEF c
  <2>1. p \in lost \/ Fresh("checkRole", c)
    BY <1>3, <1>4 DEF Checked, Fresh
  <2>2. p \in mixed \/ Covered(p, "checkRole", c)
    BY <1>3, <1>4 DEF Checked, Covered
  <2> QED
    BY <1>3, <1>4, <2>1, <2>2 DEF Checked
<1>6. CASE Known(pair[2])
  <2>1. Covers(permission[pair[2]], req[p].want) \in BOOLEAN
    BY DEF Covers
  <2>2. /\ d \in Context /\ d.doing = c.doing /\ d.user = c.user /\ d.want = c.want
        /\ d.left = c.left /\ d.roles = c.roles
        /\ d.flag = (c.flag \/ Covers(permission[pair[2]], req[p].want))
    <3> HIDE DEF c
    <3> DEFINE seen == c.seen \cup {pair[2]}
               flag == c.flag \/ Covers(permission[pair[2]], req[p].want)
    <3>1. seen \in SUBSET Permission /\ flag \in BOOLEAN
      BY <1>2, <1>3 DEF Context
    <3> DEFINE e == [c EXCEPT !.seen = seen]
    <3>2. /\ e \in Context /\ e.doing = c.doing /\ e.user = c.user /\ e.want = c.want
          /\ e.left = c.left /\ e.roles = c.roles /\ e.flag = c.flag
      <4> HIDE DEF seen
      <4> QED
        BY <1>3, <3>1, WithSeen
    <3>3. d = [e EXCEPT !.flag = flag]
      BY <1>3
    <3> HIDE DEF d, e, flag
    <3>4. /\ d \in Context /\ d.doing = c.doing /\ d.user = c.user /\ d.want = c.want
          /\ d.left = c.left /\ d.roles = c.roles /\ d.flag = flag
      BY <3>1, <3>2, <3>3, WithFlag
    <3> QED
      BY <3>4 DEF flag
  <2>3. Proceed(p, d)
    BY <1>1, <1>6
  <2> HIDE DEF c, d
  <2>4. Covers(permission[pair[2]], req[p].want) => p \in held \cup mixed
    BY <1>4, <1>6 DEF Checked, Covered
  <2>5. Checked(p, "checkRole", d)
    BY <1>3, <1>5, <2>2, <2>4 DEF Checked, Fresh, Covered
  <2> QED
    BY <1>2, <1>3, <2>2, <2>3, <2>5, ProceedChecked
<1>7. CASE ~Known(pair[2])
  <2>1. Proceed(p, c)
    BY <1>1, <1>7
  <2> HIDE DEF c
  <2> QED
    BY <1>2, <1>3, <1>5, <2>1, ProceedChecked
<1> QED
  BY <1>6, <1>7

\* A check is at none of the statements of the other operations.
LEMMA CheckAt ==
  ASSUME TypeOK, FormInv, NEW p \in Request, req[p].doing = "check"
  PROVE  ~Statement(p) /\ ~Skip(p)
<1>1. pc[p] \in {"getUserRoles", "checkRole", "rolePermissions", "checkPermissions", "allowed"}
  BY DEF FormInv, Form
<1>2. ~Statement(p)
  BY <1>1, ThenFacts
     DEF Statement, Look, InsertRole, UpdateRow, ListAttached, Detach, Lookup, Attach, Updated,
         SoftDeleteRole, Assign, Unassign, StorePermission
<1>3. ~Skip(p)
  BY <1>1 DEF Skip
<1> QED
  BY <1>2, <1>3

\* A request that moves leaves the others alone.
LEMMA OthersStay ==
  ASSUME TypeOK, NEW p \in Request, NEW next, NEW c, Know(p, next, c), NEW q \in Request \ {p}
  PROVE  req'[q] = req[q] /\ pc'[q] = pc[q]
  BY DEF TypeOK, Know

\* Every step keeps what the checks rely on, whether they take part in it or wait.
LEMMA CheckNext ==
  ASSUME TypeOK, TypeOK', FormInv, CheckInv, Next
  PROVE  CheckInv'
<1> SUFFICES ASSUME NEW q \in Request, req'[q].doing = "check"
             PROVE  Checked(q, pc[q], req[q])'
  BY DEF CheckInv
<1>1. Observe /\ Step
  BY DEF Next
<1>2. ASSUME req'[q] = req[q], pc'[q] = pc[q] PROVE Checked(q, pc[q], req[q])'
  BY <1>1, <1>2, WaitingCheck
<1>3. ASSUME NEW p \in Request, Begins(p) PROVE Checked(q, pc[q], req[q])'
  <2>1. PICK next \in {"getByName", "getRole", "getPermission"}, c \in Context :
          Know(p, next, c) /\ c.doing # "check"
    BY <1>3 DEF Begins
  <2>2. req'[p] = c
    BY <2>1 DEF Know, TypeOK
  <2> QED
    BY <1>2, <2>1, <2>2, OthersStay
<1>4. ASSUME NEW p \in Request, NEW u \in User, NEW target \in User \cup {None},
             NEW want \in {"read", "super"}, Authorize(p, u, want, target)
      PROVE  Checked(q, pc[q], req[q])'
  <2>1. CASE p = q
    BY <1>1, <1>4, <2>1, StartedCheck
  <2>2. CASE p # q
    BY <1>2, <1>4, <2>2 DEF Authorize, Start, TypeOK
  <2> QED
    BY <2>1, <2>2
<1>5. ASSUME NEW p \in Request, Moves(p), Statement(p) \/ CheckStatement(p) \/ Abort(p) \/ Skip(p)
      PROVE  Checked(q, pc[q], req[q])'
  <2>1. PICK next \in PC, c \in Context : Know(p, next, c) /\ c.doing \in {req[p].doing, "none"}
    BY <1>5 DEF Moves
  <2>2. CASE p # q
    BY <1>2, <2>1, <2>2, OthersStay
  <2>3. CASE p = q
    <3>1. req'[p] = c
      BY <2>1 DEF Know, TypeOK
    <3>2. req[p].doing = "check"
      BY <2>1, <2>3, <3>1
    <3>3. ~Return(p)
      BY <2>3 DEF Return, Know, Nothing, TypeOK
    <3>4. GetUserRoles(p) \/ CheckRole(p) \/ GetRolePermissions(p) \/ CheckPermission(p)
      BY <1>5, <3>2, <3>3, CheckAt DEF CheckStatement, Abort, Serve
    <3> QED
      BY <1>1, <2>3, <3>2, <3>4, GetUserRolesChecked, CheckRoleChecked, GetRolePermissionsChecked,
         CheckPermissionChecked
  <2> QED
    BY <2>2, <2>3
<1>6. ASSUME NEW u \in User, NEW r \in Role, AssignmentExpires(u, r)
      PROVE  Checked(q, pc[q], req[q])'
  BY <1>2, <1>6 DEF AssignmentExpires, request
<1> QED
  BY <1>1, <1>3, <1>4, <1>5, <1>6, StepCases

-----------------------------------------------------------------------------
(* Assignments *)

\* Roles are never forgotten, only a deletion takes one out of use and only an assignment
\* adds a row.
LEMMA RoleChanges ==
  ASSUME TypeOK, FormInv, AssignInv, Step
  PROVE  /\ disturbed \subseteq disturbed'
         /\ \A r \in Role : role[r] # None => role'[r] # None
         /\ \A r \in Role : RoleLive(r) =>
              RoleLive(r)' \/ \E p \in Request : SoftDeleteRole(p) /\ req[p].role = r
         /\ \A pair \in assigned' :
              pair \in assigned \/ \E p \in Request : Assign(p) /\ pair = <<req[p].user, req[p].role>>
<1> DEFINE Same == /\ role' = role /\ assigned' \subseteq assigned /\ disturbed \subseteq disturbed'
<1>1. ASSUME Same PROVE /\ \A r \in Role : RoleLive(r) => RoleLive(r)'
                        /\ \A pair \in assigned' : pair \in assigned
                        /\ \A r \in Role : role[r] # None => role'[r] # None
                        /\ disturbed \subseteq disturbed'
  BY <1>1 DEF RoleLive
<1>2. ASSUME NEW p \in Request, Statement(p)
      PROVE  \/ Same \/ InsertRole(p) \/ UpdateRow(p) \/ SoftDeleteRole(p) \/ Assign(p)
  BY <1>2 DEF Statement, Look, ListAttached, Detach, Lookup, Attach, Updated, Unassign,
              StorePermission, Disturb, tables
<1>3. ASSUME NEW p \in Request, CheckStatement(p) \/ Abort(p) \/ Skip(p) PROVE Same
  BY <1>3 DEF CheckStatement, GetUserRoles, CheckRole, GetRolePermissions, CheckPermission, Serve,
              Abort, Skip, tables
<1>4. ASSUME NEW p \in Request, Begins(p) PROVE Same
  BY <1>4 DEF Begins, tables
<1>5. ASSUME NEW p \in Request, NEW u \in User, NEW target \in User \cup {None},
             NEW want \in {"read", "super"}, Authorize(p, u, want, target)
      PROVE  Same
  BY <1>5 DEF Authorize, Start, tables
<1>6. ASSUME NEW u \in User, NEW r \in Role, AssignmentExpires(u, r) PROVE Same
  BY <1>6 DEF AssignmentExpires
<1>7. ASSUME NEW p \in Request, InsertRole(p) \/ UpdateRow(p)
      PROVE  /\ \A r \in Role : RoleLive(r) => RoleLive(r)'
             /\ \A pair \in assigned' : pair \in assigned
             /\ \A r \in Role : role[r] # None => role'[r] # None
             /\ disturbed \subseteq disturbed'
  <2>1. req[p] \in Context /\ Form(pc[p], req[p])
    BY DEF TypeOK, FormInv
  <2>2. req[p].role \in Role /\ req[p].row \in RoleRow /\ req[p].row.live
    BY <1>7, <2>1 DEF InsertRole, UpdateRow, Form, Operation, Context
  <2>3. role' = [role EXCEPT ![req[p].role] = req[p].row] \/ role' = role
    BY <1>7 DEF InsertRole, UpdateRow, SaveRole
  <2>4. req[p].row # None
    BY <2>2, RbacAssumption
  <2>5. \A r \in Role : role'[r] = role[r] \/ role'[r] = req[p].row
    BY <2>2, <2>3 DEF TypeOK
  <2> QED
    BY <1>7, <2>2, <2>4, <2>5 DEF InsertRole, UpdateRow, RoleLive
<1>8. ASSUME NEW p \in Request, SoftDeleteRole(p)
      PROVE  /\ \A r \in Role : RoleLive(r) => RoleLive(r)' \/ req[p].role = r
             /\ \A pair \in assigned' : pair \in assigned
             /\ \A r \in Role : role[r] # None => role'[r] # None
             /\ disturbed \subseteq disturbed'
  <2>1. role' \in [Role -> RoleRow \cup {None}] /\ role \in [Role -> RoleRow \cup {None}]
    BY <1>8, TablesStatement DEF Statement, TablesOK, TypeOK
  <2>2. \A r \in Role : r # req[p].role => role'[r] = role[r]
    BY <1>8, <2>1 DEF SoftDeleteRole
  <2>3. req[p].role \in Role => role'[req[p].role] = [role[req[p].role] EXCEPT !.live = FALSE]
    BY <1>8, <2>1 DEF SoftDeleteRole
  <2>4. req[p].role \in Role /\ role[req[p].role] \in RoleRow
    <3>1. req[p].doing = "deleteRole" /\ pc[p] = "deleteRole" /\ req[p].role \in Role
      BY <1>8 DEF SoftDeleteRole, FormInv, Form, TypeOK, Context, Operation
    <3> QED
      BY <2>1, <3>1 DEF AssignInv
  <2>5. [role[req[p].role] EXCEPT !.live = FALSE] \in RoleRow
    BY <2>4 DEF RoleRow
  <2>6. \A r \in Role : role[r] # None => role'[r] # None
    BY <2>2, <2>3, <2>4, <2>5, RbacAssumption
  <2> QED
    BY <1>8, <2>2, <2>6 DEF SoftDeleteRole, RoleLive, Disturb
<1>9. ASSUME NEW p \in Request, Assign(p)
      PROVE  /\ \A r \in Role : RoleLive(r) => RoleLive(r)'
             /\ \A pair \in assigned' : pair \in assigned \/ pair = <<req[p].user, req[p].role>>
             /\ \A r \in Role : role[r] # None => role'[r] # None
             /\ disturbed \subseteq disturbed'
  BY <1>9 DEF Assign, RoleLive, Disturb
<1> HIDE DEF Same
<1> QED
  BY <1>1, <1>2, <1>3, <1>4, <1>5, <1>6, <1>7, <1>8, <1>9, StepCases

\* A request that has looked at its role disturbs whoever changes it.
LEMMA Disturbs ==
  ASSUME NEW p \in Request, NEW q \in Request \ {p}, NEW r, req[q].role = r,
         req[q].doing # "check", pc[q] \notin {"idle", "getByName", "getRole"}, Disturb(p, r)
  PROVE  r \in disturbed'
  BY DEF Disturb, Changing

\* A step of a deletion or an assignment that goes on: it has found what it looked for, or is
\* past its looks and leaves the roles and assignments alone.
LEMMA GoesOn ==
  ASSUME TypeOK, FormInv, NEW p \in Request, Moves(p),
         Statement(p) \/ CheckStatement(p) \/ Abort(p) \/ Skip(p),
         req'[p].doing \in {"deleteRole", "assign"}
  PROVE  /\ req'[p].doing = req[p].doing /\ req'[p].role = req[p].role
         /\ \/ /\ Look(p) /\ Passes(p) /\ UNCHANGED <<tables, disturbed>>
               /\ pc'[p] = Then[pc[p]][req[p].doing]
            \/ /\ req[p].doing = "deleteRole" /\ pc[p] \in {"listAttached", "detach"}
               /\ UNCHANGED <<role, assigned>>
<1>1. PICK next \in PC, c \in Context :
        /\ Know(p, next, c) /\ Form(next, c) /\ c.doing \in {req[p].doing, "none"}
        /\ c.doing \in {"none", "check"} \/ c.role = req[p].role
  BY DEF Moves
<1>2. req'[p] = c /\ pc'[p] = next
  BY <1>1 DEF Know, TypeOK
<1>3. c.doing = req[p].doing /\ c.role = req[p].role
  BY <1>1, <1>2
<1>4. ~Return(p)
  BY <1>2 DEF Return, Know, Nothing, TypeOK
<1>5. Form(pc[p], req[p])
  BY DEF FormInv
<1>6. \/ pc[p] \in {"getRole", "getAssignment", "getRoleUsers"}
      \/ req[p].doing = "deleteRole" /\ pc[p] \in {"listAttached", "detach"}
      \/ pc[p] \in {"deleteRole", "assign"}
  BY <1>2, <1>3, <1>5 DEF Form
<1>7. CASE pc[p] \in {"getRole", "getAssignment", "getRoleUsers"}
  <2>1. Look(p)
    BY <1>4, <1>7
       DEF Statement, CheckStatement, Abort, Skip, InsertRole, UpdateRow, ListAttached, Detach,
           Lookup, Attach, Updated, SoftDeleteRole, Assign, Unassign, StorePermission, GetUserRoles,
           CheckRole, GetRolePermissions, CheckPermission, Serve
  <2>2. Passes(p) /\ Know(p, Then[pc[p]][req[p].doing], Read(p)) /\ UNCHANGED <<tables, disturbed>>
    BY <1>4, <2>1 DEF Look
  <2>3. pc'[p] = Then[pc[p]][req[p].doing]
    BY <2>2 DEF Know, TypeOK
  <2> QED
    BY <1>2, <1>3, <2>1, <2>2, <2>3
<1>8. CASE req[p].doing = "deleteRole" /\ pc[p] \in {"listAttached", "detach"}
  <2>1. ListAttached(p) \/ Detach(p) \/ Skip(p)
    BY <1>4, <1>8, ThenFacts
       DEF Statement, CheckStatement, Abort, Look, InsertRole, UpdateRow,
           Lookup, Attach, Updated, SoftDeleteRole, Assign, Unassign, StorePermission, GetUserRoles,
           CheckRole, GetRolePermissions, CheckPermission, Serve
  <2>2. UNCHANGED <<role, assigned>>
    BY <2>1 DEF ListAttached, Detach, Skip, tables
  <2> QED
    BY <1>2, <1>3, <1>8, <2>2
<1>9. CASE pc[p] \in {"deleteRole", "assign"}
  BY <1>4, <1>9, ThenFacts
     DEF Statement, CheckStatement, Abort, Skip, Look, InsertRole, UpdateRow, ListAttached, Detach,
         Lookup, Attach, Updated, SoftDeleteRole, Assign, Unassign, StorePermission, GetUserRoles,
         CheckRole, GetRolePermissions, CheckPermission, Serve
<1> QED
  BY <1>6, <1>7, <1>8, <1>9

\* What deletions and assignments under way rely on.
Relies(p) ==
  LET r == req[p].role IN
  /\ req[p].doing = "deleteRole" /\ pc[p] # "getRole" => role[r] # None
  /\ req[p].doing = "deleteRole" /\ pc[p] \in {"listAttached", "detach", "deleteRole"}
       => r \in disturbed \/ Unassigned(r)
  /\ req[p].doing = "assign" /\ pc[p] # "getRole" => r \in disturbed \/ RoleLive(r)

\* Requests that wait keep it, or are disturbed.
LEMMA WaitingRelies ==
  ASSUME TypeOK, FormInv, AssignInv, Step, NEW q \in Request, req'[q] = req[q], pc'[q] = pc[q],
         \A p \in Request : SoftDeleteRole(p) \/ Assign(p) => p # q
  PROVE  Relies(q)'
<1> DEFINE r == req[q].role
<1>1. Relies(q)
  BY DEF AssignInv, Relies
<1>2. Form(pc[q], req[q]) /\ assigned \subseteq User \X Role
  BY DEF FormInv, TypeOK
<1>3. CASE req[q].doing = "deleteRole"
  <2>1. r \in Role /\ pc[q] \in {"getRole", "getRoleUsers", "listAttached", "detach", "deleteRole"}
    BY <1>2, <1>3 DEF Form
  <2>2. pc[q] # "getRole" => role'[r] # None
    BY <1>1, <1>3, <2>1, RoleChanges DEF Relies
  <2>3. ASSUME pc[q] \in {"listAttached", "detach", "deleteRole"}, r \notin disturbed'
        PROVE  Unassigned(r)'
    <3>1. r \notin disturbed /\ Unassigned(r)
      BY <1>1, <1>3, <2>3, RoleChanges DEF Relies
    <3>2. ASSUME NEW p \in Request, Assign(p) PROVE req[p].role # r
      BY <1>3, <2>3, <3>2, Disturbs DEF Assign
    <3>3. ASSUME NEW u \in User, <<u, r>> \in assigned' PROVE FALSE
      <4>1. <<u, r>> \notin assigned
        BY <3>1 DEF Unassigned
      <4>2. PICK p \in Request : Assign(p) /\ <<u, r>> = <<req[p].user, req[p].role>>
        BY <3>3, <4>1, RoleChanges
      <4> QED
        BY <3>2, <4>2
    <3> QED
      BY <3>3 DEF Unassigned
  <2> QED
    BY <1>3, <2>2, <2>3 DEF Relies
<1>4. CASE req[q].doing = "assign"
  <2>1. r \in Role /\ pc[q] \in {"getRole", "getAssignment", "assign"}
    BY <1>2, <1>4 DEF Form
  <2>2. ASSUME pc[q] # "getRole", r \notin disturbed' PROVE RoleLive(r)'
    <3>1. RoleLive(r)
      BY <1>1, <1>4, <2>2, RoleChanges DEF Relies
    <3>2. ASSUME NEW p \in Request, SoftDeleteRole(p) PROVE req[p].role # r
      BY <1>4, <2>1, <2>2, <3>2, Disturbs DEF SoftDeleteRole
    <3> QED
      BY <2>1, <3>1, <3>2, RoleChanges
  <2> QED
    BY <1>4, <2>2 DEF Relies
<1>5. CASE req[q].doing \notin {"deleteRole", "assign"}
  BY <1>5 DEF Relies
<1> QED
  BY <1>3, <1>4, <1>5

\* A role that has an assignment is there, and whoever deletes or assigns has looked.
LEMMA AssignNext ==
  ASSUME TypeOK, FormInv, AssignInv, TypeOK', Next
  PROVE  AssignInv'
<1>1. Step
  BY DEF Next
<1>2. \A p \in Request : Relies(p)
  BY DEF AssignInv, Relies
<1>3. ASSUME NEW pair \in assigned' PROVE pair[2] \in disturbed' \/ RoleLive(pair[2])'
  <2>1. CASE pair \in assigned
    <3>1. pair = <<pair[1], pair[2]>> /\ pair[1] \in User /\ pair[2] \in Role
      BY <2>1 DEF TypeOK
    <3>2. pair[2] \in disturbed \/ RoleLive(pair[2])
      BY <2>1 DEF AssignInv, AssignedRolesExist
    <3>3. ASSUME NEW p \in Request, SoftDeleteRole(p), req[p].role = pair[2] PROVE pair[2] \in disturbed
      <4>0. Form(pc[p], req[p]) /\ req[p].doing \in Operation \cup {"none"}
        BY DEF FormInv, TypeOK, Context
      <4>1. pc[p] = "deleteRole" /\ req[p].doing = "deleteRole"
        BY <3>3, <4>0 DEF SoftDeleteRole, Form, Operation
      <4>2. ~Unassigned(pair[2])
        BY <2>1, <3>1 DEF Unassigned
      <4> QED
        BY <1>2, <3>3, <4>1, <4>2 DEF Relies
    <3> QED
      BY <1>1, <3>1, <3>2, <3>3, RoleChanges
  <2>2. CASE pair \notin assigned
    <3>1. PICK p \in Request : Assign(p) /\ pair = <<req[p].user, req[p].role>>
      BY <1>1, <2>2, RoleChanges
    <3>2. pc[p] = "assign" /\ req[p].doing = "assign"
      BY <3>1 DEF Assign, FormInv, Form, TypeOK, Context, Operation
    <3>3. req[p].role \in disturbed \/ RoleLive(req[p].role)
      BY <1>2, <3>2 DEF Relies
    <3>4. role' = role /\ disturbed \subseteq disturbed'
      BY <3>1 DEF Assign, Disturb
    <3> QED
      BY <3>1, <3>3, <3>4 DEF RoleLive
  <2> QED
    BY <2>1, <2>2
<1>4. ASSUME NEW q \in Request PROVE Relies(q)'
  <2>1. CASE req'[q].doing \notin {"deleteRole", "assign"}
    BY <2>1 DEF Relies
  <2>2. CASE req'[q].doing \in {"deleteRole", "assign"}
    <3>1. ASSUME req'[q] = req[q], pc'[q] = pc[q],
                 \A p \in Request : SoftDeleteRole(p) \/ Assign(p) => p # q
          PROVE  Relies(q)'
      BY <1>1, <3>1, WaitingRelies
    <3>2. ASSUME SoftDeleteRole(q) \/ Assign(q) PROVE FALSE
      BY <2>2, <3>2 DEF SoftDeleteRole, Assign, Return, Know, Nothing, TypeOK
    <3>3. ASSUME req'[q] = req[q], pc'[q] = pc[q] PROVE Relies(q)'
      BY <3>1, <3>2, <3>3
    <3>4. ASSUME NEW p \in Request, Begins(p) PROVE Relies(q)'
      <4>1. PICK next \in {"getByName", "getRole", "getPermission"}, c \in Context :
              Know(p, next, c) /\ Form(next, c)
        BY <3>4 DEF Begins
      <4>2. CASE p = q
        <5>1. req'[q] = c /\ pc'[q] = next
          BY <4>1, <4>2 DEF Know, TypeOK
        <5>2. pc'[q] = "getRole"
          BY <2>2, <4>1, <5>1 DEF Form
        <5> QED
          BY <5>2 DEF Relies
      <4>3. CASE p # q
        BY <3>3, <4>1, <4>3, OthersStay
      <4> QED
        BY <4>2, <4>3
    <3>5. ASSUME NEW p \in Request, NEW u \in User, NEW target \in User \cup {None},
                 NEW want \in {"read", "super"}, Authorize(p, u, want, target)
          PROVE  Relies(q)'
      <4>1. CASE p = q
        BY <2>2, <3>5, <4>1 DEF Authorize, Start, TypeOK, Nothing
      <4>2. CASE p # q
        BY <3>3, <3>5, <4>2 DEF Authorize, Start, TypeOK
      <4> QED
        BY <4>1, <4>2
    <3>6. ASSUME NEW p \in Request, Moves(p), Statement(p) \/ CheckStatement(p) \/ Abort(p) \/ Skip(p)
          PROVE  Relies(q)'
      <4>1. CASE p # q
        <5>1. PICK next \in PC, c \in Context : Know(p, next, c)
          BY <3>6 DEF Moves
        <5> QED
          BY <3>3, <4>1, <5>1, OthersStay
      <4>2. CASE p = q
        <5> DEFINE r == req[q].role
        <5>1. /\ req'[q].doing = req[q].doing /\ req'[q].role = r
              /\ \/ /\ Look(q) /\ Passes(q) /\ UNCHANGED <<tables, disturbed>>
                    /\ pc'[q] = Then[pc[q]][req[q].doing]
                 \/ /\ req[q].doing = "deleteRole" /\ pc[q] \in {"listAttached", "detach"}
                    /\ UNCHANGED <<role, assigned>>
          BY <2>2, <3>6, <4>2, GoesOn
        <5>2. CASE req[q].doing = "deleteRole" /\ pc[q] \in {"listAttached", "detach"}
                   /\ UNCHANGED <<role, assigned>>
          <6>1. disturbed \subseteq disturbed'
            BY <1>1, RoleChanges
          <6> QED
            BY <1>2, <5>1, <5>2, <6>1 DEF Relies, Unassigned
        <5>3. CASE Look(q) /\ Passes(q) /\ UNCHANGED <<tables, disturbed>>
                   /\ pc'[q] = Then[pc[q]][req[q].doing]
          <6>1. /\ role' = role /\ assigned' = assigned /\ disturbed' = disturbed
            BY <5>3 DEF tables
          <6>2. \/ req[q].doing = "deleteRole" /\ pc[q] = "getRole" /\ pc'[q] = "getRoleUsers"
                \/ req[q].doing = "deleteRole" /\ pc[q] = "getRoleUsers" /\ pc'[q] = "listAttached"
                \/ req[q].doing = "assign" /\ pc[q] = "getRole" /\ pc'[q] = "getAssignment"
                \/ req[q].doing = "assign" /\ pc[q] = "getAssignment" /\ pc'[q] = "assign"
            <7>1. Form(pc[q], req[q]) /\ req[q] \in Context /\ pc[q] \in DOMAIN Then
              BY <5>3 DEF FormInv, TypeOK, Look
            <7> QED
              BY <2>2, <5>1, <5>3, <7>1, LookingAt, ThenFacts
          <6>3. pc[q] = "getRole" => RoleLive(r)
            BY <5>3 DEF Passes
          <6>4. pc[q] = "getRoleUsers" => Unassigned(r)
            BY <5>3 DEF Passes
          <6> QED
            BY <1>2, <5>1, <6>1, <6>2, <6>3, <6>4 DEF Relies, Unassigned, RoleLive
        <5> QED
          BY <5>1, <5>2, <5>3
      <4> QED
        BY <4>1, <4>2
    <3>7. ASSUME NEW u \in User, NEW r \in Role, AssignmentExpires(u, r) PROVE Relies(q)'
      BY <3>3, <3>7 DEF AssignmentExpires, request
    <3> QED
      BY <1>1, <3>4, <3>5, <3>6, <3>7, StepCases
  <2> QED
    BY <2>1, <2>2
<1> QED
  BY <1>3, <1>4 DEF AssignInv, AssignedRolesExist, Relies

-----------------------------------------------------------------------------
(* Role updates *)

\* Whoever changes what is attached to a role disturbs it.
LEMMA AttachedChanges ==
  ASSUME TypeOK, FormInv, NEW p \in Request, NEW r,
         Statement(p) \/ CheckStatement(p) \/ Abort(p) \/ Skip(p)
  PROVE  AttachedTo(r)' = AttachedTo(r) \/ Disturb(p, r)
<1>1. CASE UNCHANGED attached
  BY <1>1 DEF AttachedTo
<1>2. CASE Detach(p)
  <2>1. PICK pair \in req[p].left : attached' = attached \ {pair} /\ Disturb(p, pair[1])
    BY <1>2 DEF Detach
  <2> QED
    BY <2>1 DEF AttachedTo
<1>3. CASE Attach(p)
  <2>1. attached' = attached \cup {<<req[p].role, req[p].permission>>} /\ Disturb(p, req[p].role)
    BY <1>3 DEF Attach
  <2>2. <<req[p].role, req[p].permission>>[1] = req[p].role
    OBVIOUS
  <2>3. CASE req[p].role = r
    BY <2>1, <2>3
  <2>4. CASE req[p].role # r
    BY <2>1, <2>2, <2>4 DEF AttachedTo
  <2> QED
    BY <2>3, <2>4
<1> QED
  BY <1>1, <1>2, <1>3
     DEF Statement, CheckStatement, Abort, Skip, Look, InsertRole, UpdateRow, ListAttached, Lookup,
         Updated, SoftDeleteRole, Assign, Unassign, StorePermission, GetUserRoles, CheckRole,
         GetRolePermissions, CheckPermission, Serve, tables

\* An update that attaches has attached all but what is left.
LEMMA AttachingProgress ==
  ASSUME TypeOK, NEW p \in Request, NEW r, NEW c, Attaching(p, c), c.doing = "updateRole",
         c.wanted # None, c.left \subseteq {r} \X c.wanted,
         AttachedTo(r)' = ({r} \X c.wanted) \ c.left, req'[p].doing = "updateRole"
  PROVE  Progress(pc[p], r, req[p])'
<1>1. ~Return(p)
  BY DEF Return, Know, Nothing, TypeOK
<1>2. CASE c.left # {}
  <2>1. Know(p, "lookup", c)
    BY <1>2, <1>1 DEF Attaching
  <2>2. pc'[p] = "lookup" /\ req'[p] = c
    BY <2>1 DEF Know, TypeOK
  <2> QED
    BY <2>2 DEF Progress
<1>3. CASE c.left = {}
  <2>1. Know(p, "updated", c)
    BY <1>3, <1>1 DEF Attaching
  <2>2. pc'[p] = "updated" /\ req'[p] = c
    BY <2>1 DEF Know, TypeOK
  <2> QED
    BY <1>3, <2>2 DEF Progress
<1> QED
  BY <1>2, <1>3

\* An update that detaches has the pairs left that are attached.
LEMMA DetachedProgress ==
  ASSUME TypeOK, FormInv, NEW p \in Request, NEW r, NEW c, Detached(p, c), c.doing = "updateRole",
         req[p].doing = "updateRole", req[p].role = r, pc[p] \in {"listAttached", "detach"},
         AttachedTo(r)' = c.left, req'[p].doing = "updateRole"
  PROVE  Progress(pc[p], r, req[p])'
<1>1. CASE c.left # {}
  <2>1. Know(p, "detach", c)
    BY <1>1 DEF Detached
  <2>2. pc'[p] = "detach" /\ req'[p] = c
    BY <2>1 DEF Know, TypeOK
  <2> QED
    BY <2>2 DEF Progress
<1>2. CASE c.left = {}
  <2>1. Attaching(p, Asked(p))
    BY <1>2 DEF Detached
  <2>2. req[p] \in Context /\ Form(pc[p], req[p])
    BY DEF TypeOK, FormInv
  <2>3. req[p].wanted \in SUBSET Permission
    BY <2>2 DEF Form
  <2>4. /\ Asked(p).doing = "updateRole" /\ Asked(p).wanted = req[p].wanted
        /\ Asked(p).left = {r} \X req[p].wanted
    BY <2>2, AskedForm
  <2>5. Asked(p).wanted # None
    BY <2>3, <2>4, RbacAssumption
  <2>6. AttachedTo(r)' = ({r} \X Asked(p).wanted) \ Asked(p).left
    BY <1>2, <2>4
  <2> QED
    BY <2>1, <2>4, <2>5, <2>6, AttachingProgress
<1> QED
  BY <1>1, <1>2

\* Every statement of an undisturbed update keeps track of what is attached.
LEMMA UpdatingProgress ==
  ASSUME TypeOK, FormInv, UpdateInv, disturbed \subseteq disturbed', NEW p \in Request, Moves(p),
         Statement(p) \/ CheckStatement(p) \/ Abort(p) \/ Skip(p),
         req'[p].doing = "updateRole", req'[p].role \notin disturbed'
  PROVE  Progress(pc[p], req[p].role, req[p])'
<1>1. PICK r : r = req[p].role
  OBVIOUS
<1>2. req[p].doing = "updateRole" /\ req'[p].role = r
  BY <1>1 DEF Moves, Know, TypeOK
<1>3. req[p] \in Context /\ Form(pc[p], req[p]) /\ attached \subseteq Role \X Permission
  BY DEF TypeOK, FormInv
<1>4. r \in Role /\ r \notin disturbed' /\ Progress(pc[p], r, req[p])
  BY <1>1, <1>2, <1>3 DEF UpdateInv, Form
<1>5. ~Return(p)
  BY <1>2 DEF Return, Know, Nothing, TypeOK
<1>6. pc[p] \in {"getRole", "saveRole", "listAttached", "detach", "lookup", "attach", "updated"}
  BY <1>2, <1>3 DEF Form
<1>7. Look(p) \/ UpdateRow(p) \/ ListAttached(p) \/ Detach(p) \/ Lookup(p) \/ Attach(p)
  <2>1. ~Skip(p)
    BY <1>1, <1>4 DEF Skip
  <2> QED
    BY <1>5, <1>6, <2>1
       DEF Statement, CheckStatement, Abort, InsertRole, Updated, SoftDeleteRole, Assign, Unassign,
           StorePermission, GetUserRoles, CheckRole, GetRolePermissions, CheckPermission, Serve
<1>8. CASE Look(p)
  <2>1. pc[p] = "getRole"
    BY <1>6, <1>8, ThenFacts DEF Look
  <2>2. Know(p, "saveRole", Read(p))
    BY <1>2, <1>5, <1>8, <2>1, ThenFacts DEF Look
  <2>3. pc'[p] = "saveRole"
    BY <2>2 DEF Know, TypeOK
  <2> QED
    BY <2>3 DEF Progress
<1>9. CASE UpdateRow(p)
  <2>1. Know(p, "listAttached", req[p])
    BY <1>5, <1>9 DEF UpdateRow, Goto
  <2>2. pc'[p] = "listAttached"
    BY <2>1 DEF Know, TypeOK
  <2> QED
    BY <2>2 DEF Progress
<1>10. CASE ListAttached(p)
  <2> DEFINE left == ToDetach(p)
             c == [req[p] EXCEPT !.left = left]
  <2>1. left = AttachedTo(r)
    BY <1>1, <1>2 DEF ToDetach
  <2>2. left \in SUBSET (Role \X Permission)
    BY <1>3, <2>1 DEF AttachedTo
  <2>3. Detached(p, c) /\ pc[p] = "listAttached" /\ attached' = attached
    BY <1>10 DEF ListAttached, tables
  <2>4. AttachedTo(r)' = left
    BY <2>1, <2>3 DEF AttachedTo
  <2> HIDE DEF left
  <2>5. c.doing = req[p].doing /\ c.left = left
    BY <1>3, <2>2, WithLeft
  <2> HIDE DEF c
  <2> QED
    BY <1>1, <1>2, <2>3, <2>4, <2>5, DetachedProgress
<1>11. CASE Detach(p)
  <2>1. PICK pair \in req[p].left :
          /\ attached' = attached \ {pair}
          /\ Detached(p, [req[p] EXCEPT !.left = req[p].left \ {pair}])
    BY <1>11 DEF Detach
  <2>2. pc[p] = "detach" /\ AttachedTo(r) = req[p].left
    BY <1>4, <1>11 DEF Detach, Progress
  <2> DEFINE left == req[p].left \ {pair}
             c == [req[p] EXCEPT !.left = left]
  <2>3. left \in SUBSET (Role \X Permission)
    BY <1>3 DEF Context
  <2>4. AttachedTo(r)' = left
    BY <2>1, <2>2 DEF AttachedTo
  <2>5. Detached(p, c)
    BY <2>1
  <2> HIDE DEF left
  <2>6. c.doing = req[p].doing /\ c.left = left
    BY <1>3, <2>3, WithLeft
  <2> HIDE DEF c
  <2> QED
    BY <1>1, <1>2, <2>2, <2>4, <2>5, <2>6, DetachedProgress
<1>12. CASE Lookup(p)
  <2>1. PICK pair \in req[p].left :
          LET context == [req[p] EXCEPT !.left = @ \ {pair}] IN
          IF Known(pair[2])
          THEN Know(p, "attach", [context EXCEPT !.permission = pair[2]])
          ELSE Attaching(p, [context EXCEPT !.wanted = @ \ {pair[2]}])
    BY <1>12 DEF Lookup
  <2>2. /\ pc[p] = "lookup" /\ attached' = attached
        /\ req[p].left \subseteq {r} \X req[p].wanted
        /\ AttachedTo(r) = ({r} \X req[p].wanted) \ req[p].left
    BY <1>4, <1>12 DEF Lookup, Progress, tables
  <2>3. req[p].wanted \in SUBSET Permission
    BY <1>2, <1>3, <2>2 DEF Form
  <2>4. PICK q \in req[p].wanted : pair = <<r, q>>
    BY <2>1, <2>2
  <2>5. AttachedTo(r)' = ({r} \X req[p].wanted) \ req[p].left
    BY <2>2 DEF AttachedTo
  <2> DEFINE left == req[p].left \ {pair}
             c == [req[p] EXCEPT !.left = left]
  <2>6. left \in SUBSET (Role \X Permission) /\ q \in Permission /\ pair[2] = q
    BY <1>3, <2>3, <2>4 DEF Context
  <2>7. c \in Context /\ c.doing = req[p].doing /\ c.wanted = req[p].wanted /\ c.left = left
    <3> HIDE DEF left
    <3>1. c \in Context
      BY <1>3, <2>6, WithLeft
    <3>2. c.doing = req[p].doing /\ c.wanted = req[p].wanted /\ c.left = left
      BY <1>3, <2>6, WithLeft
    <3> QED
      BY <3>1, <3>2
  <2>8. CASE Known(pair[2])
    <3> DEFINE d == [c EXCEPT !.permission = q]
    <3>1. Know(p, "attach", d)
      BY <2>1, <2>6, <2>8
    <3> HIDE DEF c
    <3>2. d.left = c.left /\ d.wanted = c.wanted /\ d.permission = q
      BY <2>6, <2>7, WithPermission
    <3>3. pc'[p] = "attach" /\ req'[p] = d
      BY <3>1 DEF Know, TypeOK
    <3> HIDE DEF d
    <3>4. ({r} \X d.wanted) \ (d.left \cup {<<r, d.permission>>}) = ({r} \X req[p].wanted) \ req[p].left
      BY <2>1, <2>4, <2>7, <3>2
    <3>5. /\ d.permission \in d.wanted /\ <<r, d.permission>> \notin d.left
          /\ d.left \subseteq {r} \X d.wanted
      BY <2>2, <2>4, <2>7, <3>2
    <3> QED
      BY <1>2, <2>5, <3>3, <3>4, <3>5 DEF Progress
  <2>9. CASE ~Known(pair[2])
    <3>1. Attaching(p, [c EXCEPT !.wanted = c.wanted \ {q}])
      BY <2>1, <2>6, <2>9
    <3> HIDE DEF c
    <3> DEFINE wanted == c.wanted \ {q}
               d == [c EXCEPT !.wanted = wanted]
    <3>2. wanted \in SUBSET Permission
      BY <2>3, <2>7
    <3>3. wanted # None
      BY <3>2, RbacAssumption
    <3>4. left \subseteq {r} \X wanted /\ ({r} \X wanted) \ left = ({r} \X req[p].wanted) \ req[p].left
      BY <2>1, <2>2, <2>4, <2>7
    <3> HIDE DEF wanted
    <3>5. d.doing = c.doing /\ d.left = c.left /\ d.wanted = wanted
      BY <2>7, <3>2, WithWanted
    <3>6. Attaching(p, d)
      BY <3>1 DEF wanted
    <3> HIDE DEF d
    <3>7. Progress(pc[p], r, req[p])'
      BY <1>2, <2>5, <2>7, <3>3, <3>4, <3>5, <3>6, AttachingProgress
    <3> QED
      BY <1>2, <3>7
  <2> QED
    BY <2>8, <2>9
<1>13. CASE Attach(p)
  <2>1. /\ pc[p] = "attach" /\ Attaching(p, req[p])
        /\ attached' = attached \cup {<<r, req[p].permission>>}
    BY <1>1, <1>13 DEF Attach
  <2>2. /\ req[p].permission \in req[p].wanted /\ <<r, req[p].permission>> \notin req[p].left
        /\ req[p].left \subseteq {r} \X req[p].wanted
        /\ AttachedTo(r) = ({r} \X req[p].wanted) \ (req[p].left \cup {<<r, req[p].permission>>})
    BY <1>4, <2>1 DEF Progress
  <2>3. AttachedTo(r)' = AttachedTo(r) \cup {<<r, req[p].permission>>}
    BY <2>1 DEF AttachedTo
  <2>4. AttachedTo(r)' = ({r} \X req[p].wanted) \ req[p].left
    BY <2>2, <2>3
  <2>5. req[p].wanted # None
    BY <1>2, <1>3, <2>1, RbacAssumption DEF Form
  <2>6. Progress(pc[p], r, req[p])'
    BY <1>2, <2>1, <2>2, <2>4, <2>5, AttachingProgress
  <2> QED
    BY <1>2, <2>6
<1> QED
  BY <1>7, <1>8, <1>9, <1>10, <1>11, <1>12, <1>13

\* An update that waits is disturbed, or finds what is attached as it left it.
LEMMA UpdateNext ==
  ASSUME TypeOK, FormInv, AssignInv, UpdateInv, Next
  PROVE  UpdateInv'
<1> SUFFICES ASSUME NEW q \in Request, req'[q].doing = "updateRole", req'[q].role \notin disturbed'
             PROVE  Progress(pc[q], req[q].role, req[q])'
  BY DEF UpdateInv
<1>1. Step /\ disturbed \subseteq disturbed'
  BY RoleChanges DEF Next
<1>2. ASSUME req'[q] = req[q], pc'[q] = pc[q], AttachedTo(req[q].role)' = AttachedTo(req[q].role)
      PROVE  Progress(pc[q], req[q].role, req[q])'
  <2>1. PICK r : r = req[q].role
    OBVIOUS
  <2>2. Progress(pc[q], r, req[q])
    BY <1>1, <1>2, <2>1 DEF UpdateInv
  <2>3. AttachedTo(r)' = AttachedTo(r)
    BY <1>2, <2>1
  <2>4. Progress(pc[q], r, req[q])'
    BY <1>2, <2>2, <2>3 DEF Progress
  <2> QED
    BY <1>2, <2>1, <2>4
<1>3. ASSUME req'[q] = req[q], pc'[q] = pc[q], UNCHANGED tables
      PROVE  Progress(pc[q], req[q].role, req[q])'
  <2>1. AttachedTo(req[q].role)' = AttachedTo(req[q].role)
    BY <1>3 DEF AttachedTo, tables
  <2> QED
    BY <1>2, <1>3, <2>1
<1>4. ASSUME NEW p \in Request, Begins(p) PROVE Progress(pc[q], req[q].role, req[q])'
  <2>1. PICK next \in {"getByName", "getRole", "getPermission"}, c \in Context : Know(p, next, c)
    BY <1>4 DEF Begins
  <2>2. CASE p = q
    <3>1. pc'[q] = next
      BY <2>1, <2>2 DEF Know, TypeOK
    <3> QED
      BY <3>1 DEF Progress
  <2>3. CASE p # q
    BY <1>3, <1>4, <2>1, <2>3, OthersStay DEF Begins
  <2> QED
    BY <2>2, <2>3
<1>5. ASSUME NEW p \in Request, NEW u \in User, NEW target \in User \cup {None},
             NEW want \in {"read", "super"}, Authorize(p, u, want, target)
      PROVE  Progress(pc[q], req[q].role, req[q])'
  <2>1. CASE p = q
    BY <1>5, <2>1 DEF Authorize, Start, TypeOK, Nothing
  <2>2. CASE p # q
    BY <1>3, <1>5, <2>2 DEF Authorize, Start, TypeOK
  <2> QED
    BY <2>1, <2>2
<1>6. ASSUME NEW p \in Request, Moves(p), Statement(p) \/ CheckStatement(p) \/ Abort(p) \/ Skip(p)
      PROVE  Progress(pc[q], req[q].role, req[q])'
  <2>1. CASE p = q
    BY <1>1, <1>6, <2>1, UpdatingProgress
  <2>2. CASE p # q
    <3>1. req'[q] = req[q] /\ pc'[q] = pc[q]
      <4>1. PICK next \in PC, c \in Context : Know(p, next, c)
        BY <1>6 DEF Moves
      <4> QED
        BY <2>2, <4>1, OthersStay
    <3>2. CASE pc[q] \in {"detach", "lookup", "attach", "updated"}
      <4>1. req[q].doing = "updateRole" /\ req[q].role \notin disturbed'
        BY <3>1
      <4>2. ~Disturb(p, req[q].role)
        BY <2>2, <3>2, <4>1, Disturbs
      <4> QED
        BY <1>2, <1>6, <3>1, <4>2, AttachedChanges
    <3>3. CASE pc[q] \notin {"detach", "lookup", "attach", "updated"}
      BY <3>1, <3>3 DEF Progress
    <3> QED
      BY <3>2, <3>3
  <2> QED
    BY <2>1, <2>2
<1>7. ASSUME NEW u \in User, NEW r \in Role, AssignmentExpires(u, r)
      PROVE  Progress(pc[q], req[q].role, req[q])'
  <2>1. AttachedTo(req[q].role)' = AttachedTo(req[q].role) /\ req'[q] = req[q] /\ pc'[q] = pc[q]
    BY <1>7 DEF AssignmentExpires, request, AttachedTo
  <2> QED
    BY <1>2, <2>1
<1> QED
  BY <1>1, <1>4, <1>5, <1>6, <1>7, StepCases

-----------------------------------------------------------------------------
(* Theorems *)

\* One role, perhaps assigned, and nobody at work.
LEMMA InvInit == Init => IInv
<1> SUFFICES ASSUME Init PROVE IInv
  OBVIOUS
<1>1. PICK r \in Role, n \in Name, u \in User, q \in Permission :
        /\ role = [s \in Role |-> IF s = r THEN [name |-> n, active |-> TRUE, live |-> TRUE] ELSE None]
        /\ assigned \in {{}, {<<u, r>>}}
        /\ attached = {<<r, q>>}
        /\ permission = [s \in Permission |-> IF s \in SystemPermission \cup {q} THEN "read" ELSE None]
  BY DEF Init
<1>2. [name |-> n, active |-> TRUE, live |-> TRUE] \in RoleRow
  BY DEF RoleRow
<1>3. pc = [p \in Request |-> "idle"] /\ req = [p \in Request |-> Nothing]
  BY DEF Init
<1>4. TypeOK
  <2>1. TablesOK
    <3>1. role \in [Role -> RoleRow \cup {None}]
      BY <1>1, <1>2
    <3>2. permission \in [Permission -> Action \cup {None}]
      BY <1>1 DEF Action
    <3>3. assigned \subseteq User \X Role /\ attached \subseteq Role \X Permission
      BY <1>1
    <3>4. lapsed \subseteq assigned /\ disturbed \subseteq Role
      BY DEF Init
    <3> QED
      BY <3>1, <3>2, <3>3, <3>4 DEF TablesOK
  <2>2. pc \in [Request -> PC] /\ req \in [Request -> Context]
    BY <1>3, NothingForm DEF PC
  <2>3. ops \subseteq Operation
    BY RbacAssumption DEF Init
  <2>4. held \subseteq Request /\ lost \subseteq Request /\ mixed \subseteq Request
    BY DEF Init
  <2> QED
    BY <2>1, <2>2, <2>3, <2>4 DEF TypeOK, TablesOK
<1>5. FormInv
  BY <1>3, NothingForm DEF FormInv
<1>6. AssignedRolesExist
  <2>1. RoleLive(r)
    BY <1>1, <1>2, RbacAssumption DEF RoleLive
  <2> QED
    BY <1>1, <2>1 DEF AssignedRolesExist
<1>7. \A p \in Request : req[p].doing = "none"
  BY <1>3 DEF Nothing
<1>8. AssignInv /\ UpdateInv /\ CheckInv
  BY <1>6, <1>7 DEF AssignInv, UpdateInv, CheckInv
<1> QED
  BY <1>4, <1>5, <1>8 DEF IInv

\* A step that changes nothing.
LEMMA InvStutter == IInv /\ UNCHANGED vars => IInv'
<1> SUFFICES ASSUME IInv, UNCHANGED vars PROVE IInv'
  OBVIOUS
<1>1. /\ role' = role /\ permission' = permission /\ assigned' = assigned /\ lapsed' = lapsed
      /\ attached' = attached /\ pc' = pc /\ req' = req /\ ops' = ops
      /\ held' = held /\ lost' = lost /\ mixed' = mixed /\ disturbed' = disturbed
  BY DEF vars, tables, request, history
<1>2. TypeOK'
  BY <1>1 DEF IInv, TypeOK
<1>3. FormInv'
  BY <1>1 DEF IInv, FormInv
<1>4. AssignInv'
  <2>1. AssignedRolesExist'
    BY <1>1 DEF IInv, AssignInv, AssignedRolesExist, RoleLive
  <2> QED
    BY <1>1, <2>1 DEF IInv, AssignInv, RoleLive, Unassigned
<1>5. UpdateInv'
  <2>1. \A p \in Request : Progress(pc[p], req[p].role, req[p])' = Progress(pc[p], req[p].role, req[p])
    BY <1>1 DEF Progress, AttachedTo
  <2> QED
    BY <1>1, <2>1 DEF IInv, UpdateInv
<1>6. CheckInv'
  <2> SUFFICES ASSUME NEW p \in Request, req[p].doing = "check"
               PROVE  Checked(p, pc[p], req[p])'
    BY <1>1 DEF CheckInv
  <2>1. Checked(p, pc[p], req[p])
    BY DEF IInv, CheckInv
  <2>2. Holds(req[p].user, req[p].want)' = Holds(req[p].user, req[p].want)
    BY <1>1 DEF Holds, RoleGrants, RoleLive, Known
  <2>3. Fresh(pc[p], req[p])' = Fresh(pc[p], req[p])
    BY <1>1 DEF Fresh, RoleGrants, RoleLive
  <2>4. Covered(p, pc[p], req[p])' = Covered(p, pc[p], req[p])
    BY <1>1 DEF Covered, Gives, RoleGrants, RoleLive, Known
  <2> QED
    BY <1>1, <2>1, <2>2, <2>3, <2>4 DEF Checked
<1> QED
  BY <1>2, <1>3, <1>4, <1>5, <1>6 DEF IInv

\* In every reachable state requests are what they seem, assignments and deletions have looked,
\* updates know what is attached, and checks know what was held.
THEOREM RbacInvariance == Spec => []IInv
<1>1. IInv /\ Next => IInv'
  BY TypeNext, AssignNext, UpdateNext, CheckNext DEF IInv
<1>2. IInv /\ [Next]_vars => IInv'
  BY <1>1, InvStutter
<1> QED
  BY <1>2, InvInit, PTL DEF Spec

\* Tables, requests and history have their types.
THEOREM TypeCorrect == Spec => []TypeOK
<1>1. IInv => TypeOK
  BY DEF IInv
<1> QED
  BY <1>1, RbacInvariance, PTL

\* A request that a check lets through had the permission at some moment of the check, unless
\* something was granted after something else was taken away while the check was reading.
THEOREM ChecksAreSound == Spec => []AllowedWasHeld
<1>1. IInv => AllowedWasHeld
  <2> SUFFICES ASSUME IInv, NEW p \in Request, pc[p] = "allowed"
               PROVE  req[p].user \in SuperAdmin \cup {req[p].target} \/ p \in held \cup mixed
    BY DEF AllowedWasHeld
  <2>1. Form(pc[p], req[p]) /\ req[p].doing \in Operation \cup {"none"}
    BY DEF IInv, FormInv, TypeOK, Context
  <2>2. req[p].doing = "check"
    BY <2>1 DEF Form, Operation
  <2> QED
    BY <2>2 DEF IInv, CheckInv, Checked
<1> QED
  BY <1>1, RbacInvariance, PTL

\* When an update of a role answers, the role has exactly the permissions asked for that exist,
\* unless another request changed the role meanwhile or an error was logged and passed over.
THEOREM RoleUpdatesTakeEffect == Spec => []RoleUpdateTakesEffect
<1>1. IInv => RoleUpdateTakesEffect
  <2> SUFFICES ASSUME IInv, NEW p \in Request, pc[p] = "updated", req[p].role \notin disturbed
               PROVE  AttachedTo(req[p].role) = {req[p].role} \X req[p].wanted
    BY DEF RoleUpdateTakesEffect
  <2>1. Form(pc[p], req[p]) /\ req[p].doing \in Operation \cup {"none"}
    BY DEF IInv, FormInv, TypeOK, Context
  <2>2. req[p].doing = "updateRole"
    BY <2>1 DEF Form, Operation
  <2> QED
    BY <2>2 DEF IInv, UpdateInv, Progress
<1> QED
  BY <1>1, RbacInvariance, PTL

\* A role that somebody has is not deleted, unless an assignment and a deletion overlapped.
THEOREM AssignedRolesStay == Spec => []AssignedRolesExist
<1>1. IInv => AssignedRolesExist
  BY DEF IInv, AssignInv
<1> QED
  BY <1>1, RbacInvariance, PTL
=============================================================================
