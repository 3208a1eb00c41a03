-------------------------------- MODULE Rbac --------------------------------
(***************************************************************************)
(* Roles and permissions (internal/services/role_service_impl.go,          *)
(* permission_service_impl.go, repo/gorm/rbac.go) and the check that       *)
(* guards the management API (internal/middleware/authz.go), in one        *)
(* tenant.  There are no transactions and no foreign keys: every statement *)
(* is a step, and the check reads assignments, roles, their permissions    *)
(* and the permissions one statement after the other.                      *)
(*                                                                         *)
(* A permission is known by its name, and all permissions are on one       *)
(* resource.  No code makes a system role; system permissions are seeded.  *)
(***************************************************************************)
EXTENDS Naturals, FiniteSets

CONSTANTS
  User, SuperAdmin,   \* super admins are users named in the configuration
  Role, Name,         \* role ids and names
  Permission, SystemPermission,
  Request,            \* slots for requests in progress
  None,
  Workload            \* mixes of operations to consider

Action == {"read", "update", "manage"}

Operation ==
  {"check", "createRole", "updateRole", "deleteRole", "addPermission", "removePermission",
   "assign", "revoke", "createPermission", "updatePermission", "deletePermission", "expiry",
   "failure"}

RoleRow == [name : Name, active : BOOLEAN, live : BOOLEAN]

ASSUME RbacAssumption ==
  /\ None \notin User \cup Role \cup Permission \cup Action \cup RoleRow
  /\ \A permissions \in SUBSET Permission : permissions # None
  /\ SystemPermission \subseteq Permission
  /\ Workload \subseteq SUBSET Operation

\* What a request carries along: its parameters, the row it read, and for loops what is
\* left to do; the flag is is_active in an update, and in a check whether it found the right
Context ==
  [doing : Operation \cup {"none"}, user : User \cup {None}, target : User \cup {None},
   role : Role \cup {None}, permission : Permission \cup {None}, want : Action \cup {"super", "none"},
   row : RoleRow \cup {None}, wanted : (SUBSET Permission) \cup {None},
   roles : SUBSET Role, left : SUBSET (Role \X Permission), seen : SUBSET Permission,
   flag : BOOLEAN]

Nothing ==
  [doing |-> "none", user |-> None, target |-> None, role |-> None, permission |-> None,
   want |-> "none", row |-> None, wanted |-> None, roles |-> {}, left |-> {}, seen |-> {}, flag |-> FALSE]

VARIABLES
  role,        \* the roles table; a deleted role keeps its row
  permission,  \* the action of a permission that exists
  assigned,    \* user_roles
  lapsed,      \* assignments past expires_at
  attached,    \* role_permissions
  pc, req, ops,
  \* history
  held,        \* checks under way whose user has had the permission since they began
  lost,        \* checks under way during which something was taken away
  mixed,       \* and something was granted after that
  disturbed    \* roles whose rows two requests changed at a time, or one of them in part

tables  == <<role, permission, assigned, lapsed, attached>>
request == <<pc, req, ops>>
history == <<held, lost, mixed>>
vars    == <<tables, request, history, disturbed>>

PC ==
  {"idle", "getByName", "createRole", "getRole", "getPermission", "getExisting", "getAssignment",
   "getRoleUsers", "saveRole", "listAttached", "detach", "lookup", "attach", "updated",
   "deleteRole", "assign", "unassign", "createPermission", "savePermission", "deletePermission",
   "getUserRoles", "checkRole", "rolePermissions", "checkPermissions", "allowed"}

\* Rows, requests and history have their types.
TypeOK ==
  /\ role \in [Role -> RoleRow \cup {None}]
  /\ permission \in [Permission -> Action \cup {None}]
  /\ assigned \subseteq User \X Role /\ lapsed \subseteq assigned
  /\ attached \subseteq Role \X Permission
  /\ pc \in [Request -> PC]
  /\ req \in [Request -> Context]
  /\ ops \subseteq Operation
  /\ held \subseteq Request /\ lost \subseteq Request /\ mixed \subseteq Request
  /\ disturbed \subseteq Role

\* One user's role grants something from the start
Init ==
  /\ \E r \in Role, n \in Name, u \in User, q \in Permission :
       /\ role = [s \in Role |-> IF s = r THEN [name |-> n, active |-> TRUE, live |-> TRUE] ELSE None]
       /\ assigned \in {{}, {<<u, r>>}}
       /\ attached = {<<r, q>>}
       /\ permission = [s \in Permission |-> IF s \in SystemPermission \cup {q} THEN "read" ELSE None]
  /\ lapsed = {}
  /\ pc = [p \in Request |-> "idle"]
  /\ req = [p \in Request |-> Nothing]
  /\ ops \in Workload
  /\ held = {} /\ lost = {} /\ mixed = {}
  /\ disturbed = {}

-----------------------------------------------------------------------------
(* Tables *)

RoleLive(r) == role[r] # None /\ role[r].live
NameTaken(n, r) == \E s \in Role \ {r} : RoleLive(s) /\ role[s].name = n
Known(q) == permission[q] # None

AttachedTo(r) == {pair \in attached : pair[1] = r}
AttachedWith(q) == {pair \in attached : pair[2] = q}

\* Save updates the row; of a deleted role it inserts the row again
SaveRole(r, row) == role' = [role EXCEPT ![r] = row]

RoleGrants(r) == RoleLive(r) /\ role[r].active

\* "manage" covers every action
Covers(action, want) == action = want \/ action = "manage"

\* What the tables say, read all at once
Holds(u, want) ==
  \E r \in Role, q \in Permission :
    /\ <<u, r>> \in assigned \ lapsed
    /\ RoleGrants(r)
    /\ <<r, q>> \in attached
    /\ Known(q) /\ Covers(permission[q], want)

-----------------------------------------------------------------------------
(* Requests *)

Start(p, operation, next, context) ==
  /\ pc[p] = "idle" /\ operation \in ops
  /\ pc' = [pc EXCEPT ![p] = next]
  /\ req' = [req EXCEPT ![p] = [context EXCEPT !.doing = operation]]
  /\ UNCHANGED <<tables, ops, disturbed>>

Know(p, next, context) ==
  /\ pc' = [pc EXCEPT ![p] = next]
  /\ req' = [req EXCEPT ![p] = context]
  /\ UNCHANGED ops

Goto(p, next) == Know(p, next, req[p])
Return(p) == Know(p, "idle", Nothing)

\* Other requests that have looked at role r and are about to change something of it
Changing(p, r) ==
  {q \in Request \ {p} : req[q].role = r /\ req[q].doing # "check"
                         /\ pc[q] \notin {"idle", "getByName", "getRole"}}

Disturb(p, r) == disturbed' = disturbed \cup (IF Changing(p, r) # {} THEN {r} ELSE {})

CreateRole(p, r, n, wanted) ==
  /\ role[r] = None /\ ~\E q \in Request : req[q].role = r
  /\ Start(p, "createRole", "getByName",
           [Nothing EXCEPT !.role = r, !.wanted = wanted,
                           !.row = [name |-> n, active |-> TRUE, live |-> TRUE]])

\* wanted is None when the request leaves the permissions alone; a bound: an update sets
\* is_active or the permissions, not both
UpdateRole(p, r, active, wanted) ==
  Start(p, "updateRole", "getRole",
        [Nothing EXCEPT !.role = r, !.wanted = wanted, !.flag = active])

DeleteRole(p, r) == Start(p, "deleteRole", "getRole", [Nothing EXCEPT !.role = r])

AddPermission(p, r, q) ==
  Start(p, "addPermission", "getRole", [Nothing EXCEPT !.role = r, !.permission = q])

RemovePermission(p, r, q) ==
  Start(p, "removePermission", "getRole", [Nothing EXCEPT !.role = r, !.permission = q])

AssignToUser(p, r, u) == Start(p, "assign", "getRole", [Nothing EXCEPT !.role = r, !.user = u])
RevokeFromUser(p, r, u) == Start(p, "revoke", "getRole", [Nothing EXCEPT !.role = r, !.user = u])

CreatePermission(p, q, a) ==
  Start(p, "createPermission", "getByName", [Nothing EXCEPT !.permission = q, !.want = a])

UpdatePermission(p, q, a) ==
  Start(p, "updatePermission", "getPermission", [Nothing EXCEPT !.permission = q, !.want = a])

DeletePermission(p, q) ==
  Start(p, "deletePermission", "getPermission", [Nothing EXCEPT !.permission = q])

-----------------------------------------------------------------------------
(* The statements of the role and permission services *)

\* Mutant: assignments that have expired do not keep a role
UnassignedNow(r) == ~\E u \in User : <<u, r>> \in assigned \ lapsed

Unassigned(r) == ~\E u \in User : <<u, r>> \in assigned

\* What a look at the tables must find for the request to go on
Passes(p) ==
  LET r == req[p].role
      q == req[p].permission
  IN CASE pc[p] = "getByName" -> IF r = None THEN ~Known(q) ELSE ~NameTaken(req[p].row.name, r)
       [] pc[p] = "getRole" -> RoleLive(r)
       [] pc[p] = "getPermission" ->
            Known(q) /\ (req[p].doing \in {"updatePermission", "deletePermission"}
                           => q \notin SystemPermission)
       [] pc[p] = "getExisting" -> <<r, q>> \notin attached
       [] pc[p] = "getAssignment" -> <<req[p].user, r>> \notin assigned
       [] pc[p] = "getRoleUsers" -> Unassigned(r)

\* The statement after a look, in each operation
Then ==
  [getByName     |-> [createRole |-> "createRole", createPermission |-> "createPermission"],
   getRole       |-> [updateRole |-> "saveRole", deleteRole |-> "getRoleUsers",
                      addPermission |-> "getPermission", removePermission |-> "getPermission",
                      assign |-> "getAssignment", revoke |-> "unassign"],
   getPermission |-> [addPermission |-> "getExisting", removePermission |-> "detach",
                      updatePermission |-> "savePermission", deletePermission |-> "listAttached"],
   getExisting   |-> [addPermission |-> "attach"],
   getAssignment |-> [assign |-> "assign"],
   getRoleUsers  |-> [deleteRole |-> "listAttached"]]

\* An update works on the row it read, a removal on its one pair
Read(p) ==
  CASE pc[p] = "getRole" /\ req[p].doing = "updateRole" ->
         [req[p] EXCEPT !.row =
           [role[req[p].role] EXCEPT !.active = IF req[p].wanted = None THEN req[p].flag ELSE @]]
    [] pc[p] = "getPermission" /\ req[p].doing = "removePermission" ->
         [req[p] EXCEPT !.left = {<<req[p].role, req[p].permission>>}]
    [] OTHER -> req[p]

Look(p) ==
  /\ pc[p] \in DOMAIN Then
  /\ IF Passes(p) THEN Know(p, Then[pc[p]][req[p].doing], Read(p)) ELSE Return(p)
  /\ UNCHANGED <<tables, disturbed>>

\* The permissions asked for are attached one by one; those that do not exist are skipped
Attaching(p, context) ==
  IF context.wanted = None THEN Return(p)
  ELSE CASE context.left # {} -> Know(p, "lookup", context)
         [] context.left = {} /\ context.doing = "updateRole" -> Know(p, "updated", context)
         [] OTHER -> Return(p)

Asked(p) == [req[p] EXCEPT !.left = {req[p].role} \X req[p].wanted]

\* The unique index on names may still refuse
InsertRole(p) ==
  /\ pc[p] = "createRole"
  /\ IF NameTaken(req[p].row.name, req[p].role)
     THEN Return(p) /\ UNCHANGED role
     ELSE SaveRole(req[p].role, req[p].row) /\ Attaching(p, Asked(p))
  /\ UNCHANGED <<permission, assigned, lapsed, attached, disturbed>>

UpdateRow(p) ==
  /\ pc[p] = "saveRole"
  /\ IF NameTaken(req[p].row.name, req[p].role)
     THEN Return(p) /\ UNCHANGED role
     ELSE /\ SaveRole(req[p].role, req[p].row)
          /\ IF req[p].wanted = None THEN Return(p) ELSE Goto(p, "listAttached")
  /\ UNCHANGED <<permission, assigned, lapsed, attached, disturbed>>

\* Where an operation goes when the last pair is detached
Detached(p, context) ==
  CASE context.left # {} -> Know(p, "detach", context)
    [] context.left = {} /\ context.doing = "updateRole" -> Attaching(p, Asked(p))
    [] context.left = {} /\ context.doing \in {"deleteRole", "deletePermission"} ->
         Know(p, context.doing, context)
    [] OTHER -> Return(p)

\* Mutant: an update only adds
ToDetachNone(p) == IF req[p].doing = "deletePermission" THEN AttachedWith(req[p].permission) ELSE {}

ToDetach(p) ==
  IF req[p].doing = "deletePermission" THEN AttachedWith(req[p].permission) ELSE AttachedTo(req[p].role)

ListAttached(p) ==
  /\ pc[p] = "listAttached"
  /\ Detached(p, [req[p] EXCEPT !.left = ToDetach(p)])
  /\ UNCHANGED <<tables, disturbed>>

Detach(p) ==
  /\ pc[p] = "detach"
  /\ \E pair \in req[p].left :
       /\ attached' = attached \ {pair}
       /\ Detached(p, [req[p] EXCEPT !.left = @ \ {pair}])
       /\ Disturb(p, pair[1])
  /\ UNCHANGED <<role, permission, assigned, lapsed>>

Lookup(p) ==
  /\ pc[p] = "lookup"
  /\ \E pair \in req[p].left :
       LET context == [req[p] EXCEPT !.left = @ \ {pair}] IN
       IF Known(pair[2])
       THEN Know(p, "attach", [context EXCEPT !.permission = pair[2]])
       ELSE Attaching(p, [context EXCEPT !.wanted = @ \ {pair[2]}])
  /\ UNCHANGED <<tables, disturbed>>

\* The unique index keeps one row per pair
Attach(p) ==
  /\ pc[p] = "attach"
  /\ attached' = attached \cup {<<req[p].role, req[p].permission>>}
  /\ Attaching(p, req[p])
  /\ Disturb(p, req[p].role)
  /\ UNCHANGED <<role, permission, assigned, lapsed>>

Updated(p) ==
  /\ pc[p] = "updated"
  /\ Return(p)
  /\ UNCHANGED <<tables, disturbed>>

SoftDeleteRole(p) ==
  /\ pc[p] = "deleteRole"
  /\ LET r == req[p].role IN
     /\ role' = [role EXCEPT ![r].live = FALSE]
     /\ Disturb(p, r)
  /\ Return(p)
  /\ UNCHANGED <<permission, assigned, lapsed, attached>>

Assign(p) ==
  /\ pc[p] = "assign"
  /\ assigned' = assigned \cup {<<req[p].user, req[p].role>>}
  /\ Disturb(p, req[p].role)
  /\ Return(p)
  /\ UNCHANGED <<role, permission, lapsed, attached>>

Unassign(p) ==
  /\ pc[p] = "unassign"
  /\ assigned' = assigned \ {<<req[p].user, req[p].role>>}
  /\ lapsed' = lapsed \ {<<req[p].user, req[p].role>>}
  /\ Return(p)
  /\ UNCHANGED <<role, permission, attached, disturbed>>

\* A permission is stored as new, saved, or deleted; Save brings a deleted one back
StorePermission(p) ==
  /\ pc[p] \in {"createPermission", "savePermission", "deletePermission"}
  /\ permission' = [permission EXCEPT ![req[p].permission] =
       CASE pc[p] = "createPermission" -> IF @ = None THEN req[p].want ELSE @
         [] pc[p] = "savePermission" -> req[p].want
         [] pc[p] = "deletePermission" -> None]
  /\ Return(p)
  /\ UNCHANGED <<role, assigned, lapsed, attached, disturbed>>

-----------------------------------------------------------------------------
(* The check *)

\* Super admins pass, and where the route says so the user that the path is about; the rest
\* need the permission.  Tokens without a user and routes for super admins end here.
Authorize(p, u, want, target) ==
  /\ want = "super" => u \in SuperAdmin /\ target = None
  /\ Start(p, "check", IF u \in SuperAdmin \/ target = u THEN "allowed" ELSE "getUserRoles",
           [Nothing EXCEPT !.user = u, !.want = want, !.target = target])

\* Statement by statement, until every role and permission has been looked at
Proceed(p, context) ==
  CASE context.left # {} -> Know(p, "checkPermissions", context)
    [] context.left = {} /\ context.roles # {} -> Know(p, "checkRole", context)
    [] OTHER -> IF context.flag THEN Know(p, "allowed", context) ELSE Return(p)

\* Mutant: expired assignments count
RolesOfEver(u) == {r \in Role : <<u, r>> \in assigned}

RolesOf(u) == {r \in Role : <<u, r>> \in assigned \ lapsed}

GetUserRoles(p) ==
  /\ pc[p] = "getUserRoles"
  /\ Proceed(p, [req[p] EXCEPT !.roles = RolesOf(req[p].user)])
  /\ UNCHANGED <<tables, disturbed>>

CheckRole(p) ==
  /\ pc[p] = "checkRole"
  /\ \E r \in req[p].roles :
       LET context == [req[p] EXCEPT !.roles = @ \ {r}] IN
       IF RoleGrants(r) THEN Know(p, "rolePermissions", [context EXCEPT !.role = r])
       ELSE Proceed(p, context)
  /\ UNCHANGED <<tables, disturbed>>

GetRolePermissions(p) ==
  /\ pc[p] = "rolePermissions"
  /\ Proceed(p, [req[p] EXCEPT !.left = {pair \in AttachedTo(req[p].role) : pair[2] \notin req[p].seen}])
  /\ UNCHANGED <<tables, disturbed>>

CheckPermission(p) ==
  /\ pc[p] = "checkPermissions"
  /\ \E pair \in req[p].left :
       LET q == pair[2]
           context == [req[p] EXCEPT !.left = @ \ {pair}]
       IN Proceed(p, IF Known(q)
                     THEN [context EXCEPT !.seen = @ \cup {q},
                                          !.flag = @ \/ Covers(permission[q], req[p].want)]
                     ELSE context)
  /\ UNCHANGED <<tables, disturbed>>

\* The handler that the check guards is one of the others, or not of this module
Serve(p) ==
  /\ pc[p] = "allowed"
  /\ Return(p)
  /\ UNCHANGED <<tables, disturbed>>

-----------------------------------------------------------------------------
(* Time and failures *)

AssignmentExpires(u, r) ==
  /\ "expiry" \in ops /\ <<u, r>> \in assigned
  /\ lapsed' = lapsed \cup {<<u, r>>}
  /\ UNCHANGED <<role, permission, assigned, attached, request, disturbed>>

\* A statement fails and the request with it
Abort(p) ==
  /\ "failure" \in ops /\ pc[p] \notin {"idle", "lookup", "attach", "updated", "allowed"}
  /\ pc[p] \in {"listAttached", "detach"} => req[p].doing \in {"deletePermission", "removePermission"}
  /\ Return(p)
  /\ UNCHANGED <<tables, disturbed>>

\* Role updates and deletions log an error of these statements and go on
Skip(p) ==
  /\ "failure" \in ops /\ req[p].role # None
  /\ \/ /\ pc[p] = "listAttached"
        /\ Detached(p, [req[p] EXCEPT !.left = {}])
     \/ /\ pc[p] = "detach" /\ req[p].doing # "removePermission"
        /\ \E pair \in req[p].left : Detached(p, [req[p] EXCEPT !.left = @ \ {pair}])
     \/ /\ pc[p] = "lookup"
        /\ \E pair \in req[p].left : Attaching(p, [req[p] EXCEPT !.left = @ \ {pair}])
     \/ /\ pc[p] = "attach"
        /\ Attaching(p, req[p])
  /\ disturbed' = disturbed \cup {req[p].role}
  /\ UNCHANGED tables

-----------------------------------------------------------------------------
(* Specification *)

Checking == {p \in Request : req[p].doing = "check"}

\* What there is to take away and to grant
Grants ==
  {<<"assigned", pair>> : pair \in assigned \ lapsed} \cup {<<"attached", pair>> : pair \in attached}
    \cup {<<"role", r>> : r \in {s \in Role : RoleGrants(s)}}
    \cup {<<"permission", <<q, permission[q]>>>> : q \in {s \in Permission : Known(s)}}

\* The history of the checks under way
Observe ==
  /\ lost' = {p \in Checking' : p \in lost \/ (p \in Checking /\ Grants \ Grants' # {})}
  /\ mixed' = {p \in Checking' : p \in mixed \/ (p \in lost' /\ Grants' \ Grants # {})}
  /\ held' = {p \in Checking' : p \in held \/ Holds(req[p].user, req[p].want)'}

RoleRequest(p, r) ==
  \/ \E n \in Name, wanted \in SUBSET Permission : CreateRole(p, r, n, wanted)
  \/ \E active \in BOOLEAN : UpdateRole(p, r, active, None)
  \/ \E wanted \in SUBSET Permission : UpdateRole(p, r, FALSE, wanted)
  \/ DeleteRole(p, r)
  \/ \E q \in Permission : AddPermission(p, r, q) \/ RemovePermission(p, r, q)
  \/ \E u \in User : AssignToUser(p, r, u) \/ RevokeFromUser(p, r, u)

PermissionRequest(p, q) ==
  \/ \E a \in Action : CreatePermission(p, q, a) \/ UpdatePermission(p, q, a)
  \/ DeletePermission(p, q)

Statement(p) ==
  \/ Look(p) \/ InsertRole(p) \/ UpdateRow(p) \/ ListAttached(p) \/ Detach(p) \/ Lookup(p)
  \/ Attach(p) \/ Updated(p) \/ SoftDeleteRole(p) \/ Assign(p) \/ Unassign(p) \/ StorePermission(p)

CheckStatement(p) ==
  \/ GetUserRoles(p) \/ CheckRole(p) \/ GetRolePermissions(p) \/ CheckPermission(p) \/ Serve(p)

Step ==
  \/ \E p \in Request :
       \/ \E r \in Role : RoleRequest(p, r)
       \/ \E q \in Permission : PermissionRequest(p, q)
       \/ \E u \in User, target \in User \cup {None}, want \in {"read", "super"} :
            Authorize(p, u, want, target)
       \/ Statement(p)
       \/ CheckStatement(p)
       \/ Abort(p)
       \/ Skip(p)
  \/ \E u \in User, r \in Role : AssignmentExpires(u, r)

Next == Step /\ Observe

Spec == Init /\ [][Next]_vars

-----------------------------------------------------------------------------
(* Properties *)

\* A request is let through only if its user had the permission, through an active role and an
\* assignment that had not expired, at some moment of the check: reading the tables one after
\* the other can be wrong only when something is granted after something else was taken away.
AllowedWasHeld ==
  \A p \in Request : pc[p] = "allowed" =>
    req[p].user \in SuperAdmin \cup {req[p].target} \/ p \in held \cup mixed

\* When an update answers, the role has the permissions that were asked for and exist, no
\* more and no less, unless other requests changed the role meanwhile or an error was logged.
RoleUpdateTakesEffect ==
  \A p \in Request : pc[p] = "updated" /\ req[p].role \notin disturbed =>
    AttachedTo(req[p].role) = {req[p].role} \X req[p].wanted

\* A role that users have is not deleted, unless the assignment and the deletion overlap
\* (Delete looks for users some statements before it deletes).
AssignedRolesExist ==
  \A pair \in assigned : pair[2] \in disturbed \/ RoleLive(pair[2])
-----------------------------------------------------------------------------
(* The inductive invariant behind the properties *)

\* What a request carries at each of its statements
Form(at, c) ==
  /\ at = "idle" <=> c.doing = "none"
  /\ c.doing \notin {"expiry", "failure"}
  /\ c.doing = "createRole" =>
       /\ at \in {"getByName", "createRole", "lookup", "attach"}
       /\ c.role \in Role /\ c.wanted \in SUBSET Permission /\ c.row \in RoleRow /\ c.row.live
  /\ c.doing = "updateRole" =>
       /\ at \in {"getRole", "saveRole", "listAttached", "detach", "lookup", "attach", "updated"}
       /\ c.role \in Role
       /\ at = "saveRole" => c.row \in RoleRow /\ c.row.live
       /\ at \notin {"getRole", "saveRole"} => c.wanted \in SUBSET Permission
  /\ c.doing = "deleteRole" =>
       at \in {"getRole", "getRoleUsers", "listAttached", "detach", "deleteRole"} /\ c.role \in Role
  /\ c.doing = "addPermission" =>
       /\ at \in {"getRole", "getPermission", "getExisting", "attach"}
       /\ c.role \in Role /\ c.permission \in Permission /\ c.wanted = None
  /\ c.doing = "removePermission" =>
       /\ at \in {"getRole", "getPermission", "detach"}
       /\ c.role \in Role /\ c.permission \in Permission
  /\ c.doing = "assign" =>
       at \in {"getRole", "getAssignment", "assign"} /\ c.role \in Role /\ c.user \in User
  /\ c.doing = "revoke" => at \in {"getRole", "unassign"} /\ c.role \in Role /\ c.user \in User
  /\ c.doing = "createPermission" =>
       /\ at \in {"getByName", "createPermission"}
       /\ c.role = None /\ c.permission \in Permission /\ c.want \in Action
  /\ c.doing = "updatePermission" =>
       at \in {"getPermission", "savePermission"} /\ c.permission \in Permission /\ c.want \in Action
  /\ c.doing = "deletePermission" =>
       /\ at \in {"getPermission", "listAttached", "detach", "deletePermission"}
       /\ c.permission \in Permission
  /\ c.doing = "check" =>
       /\ at \in {"getUserRoles", "checkRole", "rolePermissions", "checkPermissions", "allowed"}
       /\ c.user \in User
       /\ at = "rolePermissions" => c.role \in Role
  /\ at = "attach" => c.permission \in Permission

FormInv == \A p \in Request : Form(pc[p], req[p])

\* A role that an undisturbed deletion has found unassigned stays so until it is deleted, and
\* a role that an undisturbed assignment has found is there when it is assigned.
AssignInv ==
  /\ AssignedRolesExist
  /\ \A p \in Request :
       LET r == req[p].role IN
       /\ req[p].doing = "deleteRole" /\ pc[p] # "getRole" => role[r] # None
       /\ req[p].doing = "deleteRole" /\ pc[p] \in {"listAttached", "detach", "deleteRole"}
            => r \in disturbed \/ Unassigned(r)
       /\ req[p].doing = "assign" /\ pc[p] # "getRole" => r \in disturbed \/ RoleLive(r)

\* How far an undisturbed update has come: it detaches what there is, then attaches what is
\* wanted except what it has left to look up.
Progress(at, r, c) ==
  CASE at = "detach" -> AttachedTo(r) = c.left
    [] at = "lookup" ->
         /\ c.left \subseteq {r} \X c.wanted
         /\ AttachedTo(r) = ({r} \X c.wanted) \ c.left
    [] at = "attach" ->
         /\ c.permission \in c.wanted /\ <<r, c.permission>> \notin c.left
         /\ c.left \subseteq {r} \X c.wanted
         /\ AttachedTo(r) = ({r} \X c.wanted) \ (c.left \cup {<<r, c.permission>>})
    [] at = "updated" -> AttachedTo(r) = {r} \X c.wanted
    [] OTHER -> TRUE

UpdateInv ==
  \A p \in Request :
    req[p].doing = "updateRole" /\ req[p].role \notin disturbed
      => Progress(pc[p], req[p].role, req[p])

Gives(r, q, want) == <<r, q>> \in attached /\ Known(q) /\ Covers(permission[q], want)

\* As long as nothing is taken away, what a check has read is still there.
Fresh(at, c) ==
  LET Assigned(r) == <<c.user, r>> \in assigned \ lapsed IN
  /\ \A r \in c.roles : Assigned(r)
  /\ at = "rolePermissions" => Assigned(c.role) /\ RoleGrants(c.role)
  /\ \A pair \in c.left : Assigned(pair[1]) /\ RoleGrants(pair[1]) /\ pair \in attached

\* As long as nothing is granted after that, whatever a check can still find was held.
Covered(p, at, c) ==
  /\ \A r \in c.roles, q \in Permission : RoleGrants(r) /\ Gives(r, q, c.want) => p \in held
  /\ at = "rolePermissions" => \A q \in Permission : Gives(c.role, q, c.want) => p \in held
  /\ \A pair \in c.left : Known(pair[2]) /\ Covers(permission[pair[2]], c.want) => p \in held

Checked(p, at, c) ==
  /\ Holds(c.user, c.want) => p \in held
  /\ p \in lost \/ Fresh(at, c)
  /\ p \in mixed \/ Covered(p, at, c)
  /\ c.flag => p \in held \cup mixed
  /\ at = "allowed" => c.flag \/ c.user \in SuperAdmin \cup {c.target}

CheckInv == \A p \in Request : req[p].doing = "check" => Checked(p, pc[p], req[p])

IInv == TypeOK /\ FormInv /\ AssignInv /\ UpdateInv /\ CheckInv
=============================================================================
