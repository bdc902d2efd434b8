------------------------------ MODULE Accounts ------------------------------
(***************************************************************************)
(* The people of one organization: AuthService.register, verifyEmail and   *)
(* requestEmailVerification, UsersService, WarehouseAssignmentsService,     *)
(* RolesService and the archive flag of WarehouseService.                  *)
(*                                                                         *)
(* A request is authorized by what the middleware and the service have     *)
(* read, one statement after the other, and writes later, so each read is  *)
(* a step.  Users other than the founder are rows nothing under src/       *)
(* creates.  What users have been while a request was served is kept for   *)
(* the properties; no code reads it.                                       *)
(***************************************************************************)
EXTENDS Rbac

CONSTANTS
    Users,
    Founder,          \* the user who registers the organization
    Warehouses,
    CustomRoles,
    AskedRoles,       \* the roles that users are given
    PermissionSets,   \* the permissions a role request may list
    Handlers,         \* requests that run at the same time
    NoRow,            \* no such row
    MaxRequests,      \* bound: requests
    MaxTokens         \* bound: verification links per user

ASSUME FounderAssumption == Founder \in Users
ASSUME AskedAssumption == AskedRoles \subseteq OrganizationRoles
ASSUME AccountBounds == MaxRequests \in Nat /\ MaxTokens \in Nat \ {0}

VARIABLES
    users,       \* users[u]: the User row; links: the verification links sent; token: the one stored, or 0
    members,     \* members[u]: the OrganizationMember row
    scopes,      \* scopes[u]: the OrganizationMemberWarehouse rows of u
    warehouses,  \* warehouses[w]: "none", "active" or "archived"
    roles,       \* roles[r]: a custom Role row with its RolePermission rows
    handlers,    \* handlers[h]: what request h has read and does next
    served,      \* the number of requests so far
    held         \* history: held[h][u]: the roles user u has had since request h began

rowVars == <<users, members, scopes, warehouses, roles>>
vars == <<rowVars, handlers, served, held>>

UserRows == [active : BOOLEAN, verified : BOOLEAN, token : 0..MaxTokens, links : 0..MaxTokens,
             role : OrganizationRoles]

\* roleId: the system role assigned; custom roles are assigned by no route.
MemberRows == [role : OrganizationRoles, roleId : OrganizationRoles \cup {NoRow}]

ASSUME NoRowAssumption == NoRow \notin UserRows \cup MemberRows \cup Users \cup CustomRoles \cup OrganizationRoles

\* serial: which request inserted the row.
ScopeRows == [warehouse : Warehouses, serial : 1..MaxRequests]

PermissionNames == UNION PermissionSets

Operations == {"idle", "verify", "resend", "role", "deactivate", "scope", "create", "update", "delete"}

Steps == {"idle", "actor", "target", "warehouses", "delete", "write"}

\* seen: the actor's role when it was read.  rows: the scope rows matched.  asked, repeats: the permissions a role
\* request lists, and whether one is listed twice.
Requests == [op : Operations, step : Steps, actor : Users \cup {NoRow}, target : Users \cup CustomRoles \cup {NoRow},
             serial : 0..MaxRequests, role : OrganizationRoles, seen : OrganizationRoles, scope : SUBSET Warehouses,
             rows : SUBSET ScopeRows, asked : SUBSET PermissionNames, repeats : BOOLEAN, token : 0..MaxTokens]

Idle == [op |-> "idle", step |-> "idle", actor |-> NoRow, target |-> NoRow, serial |-> 0, role |-> "VIEWER",
         seen |-> "VIEWER", scope |-> {}, rows |-> {}, asked |-> {}, repeats |-> FALSE, token |-> 0]

Init ==
    /\ users = [u \in Users |-> NoRow]
    /\ members = [u \in Users |-> NoRow]
    /\ scopes = [u \in Users |-> {}]
    /\ warehouses = [w \in Warehouses |-> "none"]
    /\ roles = [r \in CustomRoles |-> [state |-> "none", permissions |-> {}]]
    /\ handlers = [h \in Handlers |-> Idle]
    /\ served = 0
    /\ held = [h \in Handlers |-> [u \in Users |-> {}]]

----------------------------------------------------------------------------
(* What a read finds                                                       *)

\* authMiddleware lets the bearer of an access token pass.
SignedIn(u) == users[u] # NoRow /\ users[u].active /\ users[u].verified

Membership(u) == SignedIn(u) /\ members[u] # NoRow

\* assertPermission: by the role assigned or by the system role named like the member's role.
Permitted(u, permission) ==
    /\ Membership(u)
    /\ \/ members[u].roleId # NoRow /\ Grants(SYSTEM_ROLE_PERMISSIONS[members[u].roleId], permission)
       \/ Grants(SYSTEM_ROLE_PERMISSIONS[members[u].role], permission)

\* getActorPermissions: an owner may give anything, others what their system role and the role assigned give.
MayGrant(u, permissions) ==
    \A p \in permissions :
        \/ Grants(SYSTEM_ROLE_PERMISSIONS[members[u].role], p)
        \/ members[u].roleId # NoRow /\ Grants(SYSTEM_ROLE_PERMISSIONS[members[u].roleId], p)

\* getWarehouseScope.  A warehouse that was archived stays in a scope.
GlobalScope(u) == Membership(u) /\ members[u].role \in {"OWNER", "ADMIN"}

InScope(u, w) == GlobalScope(u) \/ (Membership(u) /\ \E row \in scopes[u] : row.warehouse = w)

\* The role of a user, if there is the user.
RoleOf(u) == IF users[u] = NoRow THEN {} ELSE {users[u].role}

Goes(h, request) == handlers' = [handlers EXCEPT ![h] = request]

Ends(h) == Goes(h, Idle)

Starts(h, request) ==
    /\ handlers[h] = Idle /\ served < MaxRequests
    /\ Goes(h, [request EXCEPT !.serial = served + 1])
    /\ served' = served + 1
    /\ UNCHANGED rowVars

Serves(h, op, step) == handlers[h].op = op /\ handlers[h].step = step

\* A request is refused at any step, or its process ends.
Refused(h) ==
    /\ handlers[h] # Idle
    /\ Ends(h)
    /\ UNCHANGED <<rowVars, served>>

----------------------------------------------------------------------------
(* register, verifyEmail, requestEmailVerification                         *)

Register ==
    /\ users[Founder] = NoRow
    /\ users' = [users EXCEPT ![Founder] = [active |-> TRUE, verified |-> FALSE, token |-> 1, links |-> 1,
                                            role |-> "OWNER"]]
    /\ members' = [members EXCEPT ![Founder] = [role |-> "OWNER", roleId |-> "OWNER"]]
    /\ UNCHANGED <<scopes, warehouses, roles, handlers, served>>

\* The tests insert users like this one, with a membership whose assigned role is null, or without.
Provision(u, role, member) ==
    /\ users[Founder] # NoRow /\ users[u] = NoRow
    /\ users' = [users EXCEPT ![u] = [active |-> TRUE, verified |-> TRUE, token |-> 0, links |-> 0, role |-> role]]
    /\ members' = IF member THEN [members EXCEPT ![u] = [role |-> role, roleId |-> NoRow]] ELSE members
    /\ UNCHANGED <<scopes, warehouses, roles, handlers, served>>

\* The row that has this link and may be verified.
BeginVerify(h, u, token) ==
    /\ users[u] # NoRow /\ users[u].active /\ ~users[u].verified /\ users[u].token = token
    /\ Starts(h, [Idle EXCEPT !.op = "verify", !.step = "write", !.target = u, !.token = token])

\* The row is updated only if it still has the link and waits for it.
FinishVerify(h) ==
    LET u == handlers[h].target
    IN  /\ Serves(h, "verify", "write")
        /\ ~users[u].verified /\ users[u].token = handlers[h].token
        /\ users' = [users EXCEPT ![u].verified = TRUE, ![u].token = 0]
        /\ Ends(h)
        /\ UNCHANGED <<members, scopes, warehouses, roles, served>>

BeginResend(h, u) ==
    /\ users[u] # NoRow /\ users[u].active /\ ~users[u].verified
    /\ Starts(h, [Idle EXCEPT !.op = "resend", !.step = "write", !.target = u])

\* The update names only the user: an account verified meanwhile gets a new link, which verifies nothing.
FinishResend(h) ==
    LET u == handlers[h].target
    IN  /\ Serves(h, "resend", "write")
        /\ users[u].links < MaxTokens
        /\ users' = [users EXCEPT ![u].token = users[u].links + 1, ![u].links = @ + 1]
        /\ Ends(h)
        /\ UNCHANGED <<members, scopes, warehouses, roles, served>>

----------------------------------------------------------------------------
(* updateRole, deactivate, replace: the actor, then the target             *)

BeginUpdateRole(h, a, u, role) ==
    /\ Permitted(a, "user.manage")
    /\ Starts(h, [Idle EXCEPT !.op = "role", !.step = "actor", !.actor = a, !.target = u, !.role = role])

BeginDeactivate(h, a, u) ==
    /\ Permitted(a, "user.manage") /\ a # u
    /\ Starts(h, [Idle EXCEPT !.op = "deactivate", !.step = "actor", !.actor = a, !.target = u])

BeginReplace(h, a, u, scope) ==
    /\ Permitted(a, "user.manage")
    /\ Starts(h, [Idle EXCEPT !.op = "scope", !.step = "actor", !.actor = a, !.target = u, !.scope = scope])

\* updateRole reads the actor's role from the user row, the others from the membership.
ReadActor(h) ==
    LET a == handlers[h].actor
    IN  /\ handlers[h].step = "actor" /\ handlers[h].op \in {"role", "deactivate", "scope"}
        /\ IF handlers[h].op = "role" THEN users[a].active ELSE Membership(a)
        /\ Goes(h, [handlers[h] EXCEPT !.step = "target",
                       !.seen = IF handlers[h].op = "role" THEN users[a].role ELSE members[a].role])
        /\ UNCHANGED <<rowVars, served>>

\* What if the owner was no different from other targets?
BugOwnerProtected(u, role) == TRUE

\* updateRole gives an owner no other role.
OwnerProtected(u, role) == users[u].role = "OWNER" => role = "OWNER"

\* The target's present level is no question in updateRole; deactivate compares with its user row.
ReadTarget(h) ==
    LET request == handlers[h]
        u       == request.target
    IN  /\ request.step = "target"
        /\ \/ /\ request.op = "role" /\ users[u] # NoRow
              /\ canAssignRole(request.seen, request.role) /\ OwnerProtected(u, request.role)
              /\ Goes(h, [request EXCEPT !.step = "write"])
           \/ /\ request.op = "deactivate" /\ users[u] # NoRow
              /\ Outranks(request.seen, users[u].role) /\ users[u].role # "OWNER"
              /\ Goes(h, [request EXCEPT !.step = "write"])
           \/ /\ request.op = "scope" /\ Membership(u)
              /\ canManageTarget(request.seen, members[u].role)
              /\ Goes(h, [request EXCEPT !.step = "warehouses"])
        /\ UNCHANGED <<rowVars, served>>

\* The transaction: membership and user row get the role, the membership also the system role.
WriteRole(h) ==
    LET request == handlers[h]
        u       == request.target
    IN  /\ Serves(h, "role", "write")
        /\ members' = [members EXCEPT ![u] = [role |-> request.role, roleId |-> request.role]]
        /\ users' = [users EXCEPT ![u].role = request.role]
        /\ Ends(h)
        /\ UNCHANGED <<scopes, warehouses, roles, served>>

WriteDeactivate(h) ==
    /\ Serves(h, "deactivate", "write")
    /\ users' = [users EXCEPT ![handlers[h].target].active = FALSE]
    /\ Ends(h)
    /\ UNCHANGED <<members, scopes, warehouses, roles, served>>

ReadWarehouses(h) ==
    /\ handlers[h].step = "warehouses"
    /\ \A w \in handlers[h].scope : warehouses[w] = "active"
    /\ Goes(h, [handlers[h] EXCEPT !.step = "delete"])
    /\ UNCHANGED <<rowVars, served>>

\* deleteMany matches the rows there are when it begins.
MatchScope(h) ==
    /\ Serves(h, "scope", "delete")
    /\ Goes(h, [handlers[h] EXCEPT !.step = "write", !.rows = scopes[handlers[h].target]])
    /\ UNCHANGED <<rowVars, served>>

\* The transaction ends.  Rows inserted since the match stay; the unique key refuses to insert one of them again.
WriteScope(h) ==
    LET request == handlers[h]
        stays   == scopes[request.target] \ request.rows
        new     == [warehouse : request.scope, serial : {request.serial}]
    IN  /\ Serves(h, "scope", "write")
        /\ \A row \in stays : row.warehouse \notin request.scope
        /\ scopes' = [scopes EXCEPT ![request.target] = stays \cup new]
        /\ Ends(h)
        /\ UNCHANGED <<users, members, warehouses, roles, served>>

----------------------------------------------------------------------------
(* RolesService.  A role that is deleted never comes back: its id is new.  *)

BeginCreateRole(h, a, r, asked, repeats) ==
    /\ Permitted(a, "role.manage") /\ roles[r].state = "none"
    /\ Starts(h, [Idle EXCEPT !.op = "create", !.step = "actor", !.actor = a, !.target = r,
                              !.asked = asked, !.repeats = repeats])

BeginUpdatePermissions(h, a, r, asked, repeats) ==
    /\ Permitted(a, "role.manage") /\ roles[r].state = "live"
    /\ Starts(h, [Idle EXCEPT !.op = "update", !.step = "actor", !.actor = a, !.target = r,
                              !.asked = asked, !.repeats = repeats])

\* Who deletes a role must be allowed to give what it gives when it is read.
BeginDeleteRole(h, a, r) ==
    /\ Permitted(a, "role.manage") /\ roles[r].state = "live"
    /\ Starts(h, [Idle EXCEPT !.op = "delete", !.step = "actor", !.actor = a, !.target = r,
                              !.asked = roles[r].permissions])

ReadAuthority(h) ==
    LET request == handlers[h]
    IN  /\ request.step = "actor" /\ request.op \in {"create", "update", "delete"}
        /\ Membership(request.actor)
        /\ "*" \notin request.asked /\ MayGrant(request.actor, request.asked)
        /\ Goes(h, [request EXCEPT !.step = IF request.op = "update" THEN "delete" ELSE "write"])
        /\ UNCHANGED <<rowVars, served>>

\* One statement inserts all permissions of the list; a permission the role has already, or twice, refuses it.
InsertsPermissions(request) ==
    /\ ~request.repeats
    /\ roles[request.target].permissions \cap request.asked = {}
    /\ roles' = [roles EXCEPT ![request.target] = [state |-> "live", permissions |-> @.permissions \cup request.asked]]

WriteNewRole(h) ==
    /\ Serves(h, "create", "write")
    /\ roles[handlers[h].target].state = "none"
    /\ InsertsPermissions(handlers[h])
    /\ Ends(h)
    /\ UNCHANGED <<users, members, scopes, warehouses, served>>

\* No transaction: what is deleted here stays deleted when the insertion is refused or never comes.
DeletePermissions(h) ==
    /\ Serves(h, "update", "delete")
    /\ roles' = [roles EXCEPT ![handlers[h].target].permissions = {}]
    /\ Goes(h, [handlers[h] EXCEPT !.step = "write"])
    /\ UNCHANGED <<users, members, scopes, warehouses, served>>

CreatePermissions(h) ==
    /\ Serves(h, "update", "write")
    /\ roles[handlers[h].target].state = "live"
    /\ InsertsPermissions(handlers[h])
    /\ Ends(h)
    /\ UNCHANGED <<users, members, scopes, warehouses, served>>

WriteDeleteRole(h) ==
    /\ Serves(h, "delete", "write")
    /\ roles[handlers[h].target].state = "live"
    /\ roles' = [roles EXCEPT ![handlers[h].target] = [state |-> "gone", permissions |-> {}]]
    /\ Ends(h)
    /\ UNCHANGED <<users, members, scopes, warehouses, served>>

----------------------------------------------------------------------------
(* WarehouseService.  Only a member with global scope creates, archives or *)
(* restores a warehouse; its assignments stay.                             *)

MovesWarehouse(a, permission, w, from, to) ==
    /\ Permitted(a, permission) /\ GlobalScope(a)
    /\ warehouses[w] \in from
    /\ warehouses' = [warehouses EXCEPT ![w] = to]
    /\ UNCHANGED <<users, members, scopes, roles, handlers, served>>

CreateWarehouse(a, w) == MovesWarehouse(a, "warehouse.create", w, {"none"}, "active")

UpdateWarehouse(a, w, to) == MovesWarehouse(a, "warehouse.update", w, {"active", "archived"}, to)

ArchiveWarehouse(a, w) == MovesWarehouse(a, "warehouse.archive", w, {"active", "archived"}, "archived")

----------------------------------------------------------------------------

ServeUsers(h) ==
    \/ ReadActor(h) \/ ReadTarget(h) \/ WriteRole(h) \/ WriteDeactivate(h)
    \/ ReadWarehouses(h) \/ MatchScope(h) \/ WriteScope(h)

ServeRoles(h) ==
    \/ ReadAuthority(h) \/ WriteNewRole(h) \/ DeletePermissions(h) \/ CreatePermissions(h) \/ WriteDeleteRole(h)

Begin(h) ==
    \/ \E u \in Users : BeginResend(h, u) \/ \E token \in 1..MaxTokens : BeginVerify(h, u, token)
    \/ \E a \in Users, u \in Users :
          \/ BeginDeactivate(h, a, u)
          \/ \E role \in AskedRoles : BeginUpdateRole(h, a, u, role)
          \/ \E scope \in SUBSET Warehouses : BeginReplace(h, a, u, scope)
    \/ \E a \in Users, r \in CustomRoles :
          \/ BeginDeleteRole(h, a, r)
          \/ \E asked \in PermissionSets, repeats \in BOOLEAN :
               BeginCreateRole(h, a, r, asked, repeats) \/ BeginUpdatePermissions(h, a, r, asked, repeats)

\* What the users are while a request is served.
Remember ==
    held' = [h \in Handlers |-> [u \in Users |->
                IF handlers'[h] = Idle THEN {} ELSE held[h][u] \cup RoleOf(u)']]

Moves ==
    \/ Register
    \/ \E u \in Users, role \in AskedRoles, member \in BOOLEAN : Provision(u, role, member)
    \/ \E h \in Handlers : Begin(h) \/ FinishVerify(h) \/ FinishResend(h) \/ ServeUsers(h) \/ ServeRoles(h) \/ Refused(h)
    \/ \E a \in Users, w \in Warehouses :
          \/ CreateWarehouse(a, w) \/ ArchiveWarehouse(a, w)
          \/ \E to \in {"active", "archived"} : UpdateWarehouse(a, w, to)

Next == Moves /\ Remember

Spec == Init /\ [][Next]_vars

----------------------------------------------------------------------------

\* Rows and requests have their types: the shapes the handlers of the users, roles and auth modules read and write.
TypeOK ==
    /\ users \in [Users -> UserRows \cup {NoRow}]
    /\ members \in [Users -> MemberRows \cup {NoRow}]
    /\ scopes \in [Users -> SUBSET ScopeRows]
    /\ warehouses \in [Warehouses -> {"none", "active", "archived"}]
    /\ roles \in [CustomRoles -> [state : {"none", "live", "gone"}, permissions : SUBSET PermissionNames]]
    /\ handlers \in [Handlers -> Requests]
    /\ served \in 0..MaxRequests
    /\ held \in [Handlers -> [Users -> SUBSET OrganizationRoles]]

\* The registered founder stays an active owner, by its user row and by its membership: no role change and no
\* deactivation, however its reads and writes fall between others, leaves the organization without an owner
\* (users.service.ts refuses to change or deactivate an owner after it has read the target, and writes later).
FounderKeepsOrganization ==
    users[Founder] # NoRow =>
        /\ users[Founder].active /\ users[Founder].role = "OWNER"
        /\ members[Founder] # NoRow /\ members[Founder].role = "OWNER"

\* The request that writes in this step.
Writes(h, ops, target) ==
    /\ handlers[h].op \in ops /\ handlers[h].step = "write" /\ handlers[h].target = target
    /\ handlers'[h] # handlers[h]

\* At some moment of a request its actor was above what its target was at some moment of it.
WasAbove(h, u) == \E role \in held[h][handlers[h].actor], other \in held[h][u] : Outranks(role, other)

\* A member's role is changed by somebody who was above the new one, and an owner's by another only if it was none.
RolesComeFromAbove ==
    \A u \in Users : users[u] # NoRow /\ members'[u] # members[u] =>
        \E h \in Handlers :
            /\ Writes(h, {"role"}, u)
            /\ \E role \in held[h][handlers[h].actor] : role = "OWNER" \/ Outranks(role, members'[u].role)
            /\ members'[u].role = "OWNER" \/ \E other \in held[h][u] : other # "OWNER"

ScopesComeFromAbove ==
    \A u \in Users : scopes'[u] # scopes[u] => \E h \in Handlers : Writes(h, {"scope"}, u) /\ WasAbove(h, u)

DeactivationComesFromAbove ==
    \A u \in Users : users[u] # NoRow /\ users'[u].active # users[u].active =>
        \E h \in Handlers : Writes(h, {"deactivate"}, u) /\ WasAbove(h, u)

PermissionsComeFromHolders ==
    \A r \in CustomRoles : \A p \in roles'[r].permissions \ roles[r].permissions :
        \E h \in Handlers :
            /\ Writes(h, {"create", "update"}, r)
            /\ \E role \in held[h][handlers[h].actor] : Grants(SYSTEM_ROLE_PERMISSIONS[role], p)

\* Stale rows give no authority: whoever gives a role or a permission of a custom role was, at some moment of that very
\* request, above the role, or held the permission; whoever changes a member's warehouses or deactivates the member was,
\* at some moment of it, above what the member was at some moment of it; and who loses the role of an owner by another
\* was, at some moment of it, no owner.  Demotions before the request began count, however its reads and writes fall
\* between those of others (users.service.ts:52-77, 80-118, warehouse-assignments.service.ts, roles.service.ts).  What
\* the target of a role change is otherwise, a peer of the actor or somebody above, the code does not ask.
AuthorityFlowsDown ==
    [][RolesComeFromAbove /\ ScopesComeFromAbove /\ DeactivationComesFromAbove /\ PermissionsComeFromHolders]_vars

\* An owner stays one: Testing.md:35-36 says that an administrator cannot remove the owner through a normal role
\* command, SRS.md AUTH-07 that role changes reject it.  updateRole asks whether its target is an owner when it reads
\* it, and writes the role later, wherever the target has been promoted meanwhile.
OwnersAreNotRemoved ==
    [][\A u \in Users : users[u] # NoRow /\ users[u].role = "OWNER" => users'[u].role = "OWNER"]_vars
=============================================================================
