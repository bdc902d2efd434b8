----------------------------- MODULE MCAccounts -----------------------------
EXTENDS TargetAuthorization, TLC

CONSTANTS founder, ann, bob, main, annex, manager, h1, h2

MCUsers == {founder, ann, bob}
MCWarehouses == {main, annex}
MCAskedRoles == {"OWNER", "ADMIN", "INVENTORY_MANAGER"}
MCPermissionSets == {{"user.manage"}, {"inventory.adjust.request"}}
MCHandlers == {h1, h2}
MCSymmetry == Permutations({ann, bob}) \cup Permutations(MCHandlers) \cup Permutations(MCWarehouses)
=============================================================================
