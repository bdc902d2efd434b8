------------------------ MODULE TargetAuthorization ------------------------
(***************************************************************************)
(* The authorization that is to replace the present one: the decisions of  *)
(* @stokku/domain, and the probe that asks them about rows of the present  *)
(* database (apps/api/src/target-authorization), side by side with what    *)
(* rbac.ts and warehouseScope.ts say of the same rows.  The probe reads    *)
(* only, so it is operators on the state of Accounts; sessions come from   *)
(* elsewhere and may be anything.                                          *)
(***************************************************************************)
EXTENDS Accounts

\* Those of the fourteen that rbac.ts names too.
PERMISSIONS ==
    {"warehouse.read", "inventory.read", "inventory.adjust.request", "inventory.adjust.approve", "audit.read"}

TARGET_HIERARCHY ==
    [OWNER |-> 100, ADMIN |-> 80, INVENTORY_MANAGER |-> 60, WAREHOUSE_STAFF |-> 40, CASHIER |-> 20, VIEWER |-> 10]

ROLE_PERMISSIONS ==
    LET floor == {"warehouse.read", "inventory.read", "inventory.adjust.request"}
    IN  [OWNER             |-> PERMISSIONS,
         ADMIN             |-> PERMISSIONS,
         INVENTORY_MANAGER |-> floor \cup {"inventory.adjust.approve"},
         WAREHOUSE_STAFF   |-> floor,
         CASHIER           |-> {"inventory.read"},
         VIEWER            |-> {"warehouse.read", "inventory.read"}]

SessionStates == {"active", "revoked", "expired", "unknown"}

----------------------------------------------------------------------------
(* authorize                                                               *)

\* Why a permission is denied, or "none".
PermissionObjection(membership, permission) ==
    IF ~(membership.permissionGrants \subseteq PERMISSIONS) THEN "UNKNOWN_PERMISSION_GRANT"
    ELSE IF permission \notin PERMISSIONS THEN "UNKNOWN_PERMISSION"
    ELSE IF permission \notin ROLE_PERMISSIONS[membership.role] \cup membership.permissionGrants THEN "PERMISSION_DENIED"
    ELSE "none"

\* What if having some warehouse was enough?
BugWarehouseObjection(scope, w) == IF scope = {} THEN "WAREHOUSE_SCOPE_REQUIRED" ELSE "none"

\* The probe knows only assigned warehouses; organization-wide scope has no grant yet.
WarehouseObjection(scope, w) ==
    IF scope = {} THEN "WAREHOUSE_SCOPE_REQUIRED"
    ELSE IF w \notin scope THEN "WAREHOUSE_ACCESS_DENIED"
    ELSE "none"

\* The first objection decides.  The membership was looked up by identity and organization, and no code makes an
\* organization inactive: the denials for a mismatch or an inactive organization are out of the probe's reach.
authorize(context, permission, w) ==
    LET denied  == PermissionObjection(context.membership, permission)
        outside == WarehouseObjection(context.membership.scope, w)
    IN  IF ~context.active THEN "IDENTITY_INACTIVE"
        ELSE IF ~context.verified THEN "EMAIL_NOT_VERIFIED"
        ELSE IF context.session \in {"revoked", "unknown"} THEN "SESSION_REVOKED"
        ELSE IF context.session = "expired" THEN "SESSION_EXPIRED"
        ELSE IF denied # "none" THEN denied
        ELSE IF outside # "none" THEN outside
        ELSE "allow"

\* mapDenyReasonToHttpError; 200 stands for allow.
StatusOf(decision) ==
    CASE decision = "allow" -> 200
      [] decision \in {"SESSION_REVOKED", "SESSION_EXPIRED"} -> 401
      [] decision = "UNKNOWN_PERMISSION" -> 400
      [] OTHER -> 403

----------------------------------------------------------------------------
(* The probe                                                               *)

\* buildAuthorizationContext: the grants are all permissions of the assigned role, whatever their names.
Context(u, session) ==
    [active |-> users[u].active, verified |-> users[u].verified, session |-> session,
     membership |-> [role |-> members[u].role,
                     permissionGrants |-> IF members[u].roleId = NoRow THEN {}
                                          ELSE SYSTEM_ROLE_PERMISSIONS[members[u].roleId],
                     scope |-> {row.warehouse : row \in scopes[u]}]]

\* checkAuthorizationHandler for a user whom authMiddleware has let pass.
checkAuthorization(u, session, permission, w) ==
    IF warehouses[w] = "none" THEN 404
    ELSE IF members[u] = NoRow THEN 403
    ELSE StatusOf(authorize(Context(u, session), permission, w))

\* assertWarehouseAccess, then assertPermission.
Reference(u, permission, w) ==
    IF ~Membership(u) THEN 403
    ELSE IF warehouses[w] = "none" THEN 404
    ELSE IF InScope(u, w) /\ Permitted(u, permission) THEN 200
    ELSE 403

\* evaluateRoleAssignment, for members of one organization with known roles.
evaluateRoleAssignment(actor, target, role) ==
    /\ users[actor].active /\ users[target].active /\ actor # target
    /\ members[target].role # "OWNER" /\ role # "OWNER"
    /\ TARGET_HIERARCHY[members[actor].role] > TARGET_HIERARCHY[members[target].role]
    /\ TARGET_HIERARCHY[members[actor].role] > TARGET_HIERARCHY[role]

----------------------------------------------------------------------------

\* The present code lets this user give that one the role: the route's permission, then updateRole's questions.
MayAssign(u, other, role) ==
    Permitted(u, "user.manage") /\ canAssignRole(users[u].role, role) /\ OwnerProtected(other, role)

\* What the target decides differently is known.  Over all rows that requests can leave, the probe allows a permission
\* both models know exactly where the present code allows it, the warehouse is assigned by name and no system role has
\* been assigned, whose permissions the target does not know; but an administrator may ask for adjustments.  And who may
\* manage users at all gets no role change from the target that updateRole refuses.
TargetDiffersAsKnown ==
    \A u \in {a \in Users : SignedIn(a) /\ members[a] # NoRow} :
        /\ \A w \in Warehouses, session \in SessionStates, permission \in PERMISSIONS :
              checkAuthorization(u, session, permission, w) = 200 <=>
                  /\ warehouses[w] # "none" /\ session = "active" /\ members[u].roleId = NoRow
                  /\ \E row \in scopes[u] : row.warehouse = w
                  /\ \/ Reference(u, permission, w) = 200
                     \/ members[u].role = "ADMIN" /\ permission = "inventory.adjust.request"
        /\ \A other \in Users, role \in OrganizationRoles :
              /\ members[other] # NoRow /\ Permitted(u, "user.manage") /\ evaluateRoleAssignment(u, other, role)
              => MayAssign(u, other, role)

=============================================================================
