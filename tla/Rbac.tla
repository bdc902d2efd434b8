-------------------------------- MODULE Rbac --------------------------------
(***************************************************************************)
(* The roles of an organization and what they allow: the tables and the    *)
(* comparisons of rbac.ts, system-permissions.ts and the users module.     *)
(* Of the permissions only those are named that guard a modelled route, or *)
(* that both authorization models know, and one of those that every role   *)
(* has and the target does not know.                                       *)
(***************************************************************************)
EXTENDS Naturals

OrganizationRoles == {"OWNER", "ADMIN", "INVENTORY_MANAGER", "WAREHOUSE_STAFF", "CASHIER", "VIEWER"}

ROLE_HIERARCHY ==
    [OWNER |-> 100, ADMIN |-> 90, INVENTORY_MANAGER |-> 70, WAREHOUSE_STAFF |-> 50, CASHIER |-> 30, VIEWER |-> 10]

Outranks(role, other) == ROLE_HIERARCHY[role] > ROLE_HIERARCHY[other]

SYSTEM_ROLE_PERMISSIONS ==
    LET everyone == {"dashboard.read", "inventory.read"}
        floor    == everyone \cup {"warehouse.read", "inventory.adjust.request"}
    IN  [OWNER             |-> {"*"},
         ADMIN             |-> everyone \cup {"warehouse.read", "warehouse.create", "warehouse.update",
                                              "warehouse.archive", "inventory.adjust.approve", "audit.read",
                                              "user.manage", "role.manage"},
         INVENTORY_MANAGER |-> floor \cup {"inventory.adjust.approve"},
         WAREHOUSE_STAFF   |-> floor,
         CASHIER           |-> everyone,
         VIEWER            |-> everyone \cup {"warehouse.read"}]

Grants(permissions, permission) == permission \in permissions \/ "*" \in permissions

\* What if a role could be given by someone who holds just that role?
BugCanAssignRole(actorRole, role) ==
    actorRole = "OWNER" \/ (role # "OWNER" /\ ~Outranks(role, actorRole))

canAssignRole(actorRole, role) ==
    \/ actorRole = "OWNER"
    \/ role # "OWNER" /\ Outranks(actorRole, role)

canManageTarget(actorRole, targetRole) ==
    IF actorRole = "OWNER" THEN targetRole # "OWNER" ELSE Outranks(actorRole, targetRole)
=============================================================================
