-------------------------- MODULE Accounts_proofs --------------------------
(***************************************************************************)
(* Proofs about the people and the master data of an organization.         *)
(*                                                                         *)
(* Accounts, for any users, warehouses, custom roles and number of         *)
(* requests at work.  A request writes on the strength of rows it read     *)
(* before; what stays true of them meanwhile is what its actor and target  *)
(* have been while it was served, that rows of users stay, and that the    *)
(* founder is an owner.                                                    *)
(*                                                                         *)
(* Catalog and CatalogHistory, for any records, organizations, requests,   *)
(* forms and number of calls.  A call writes on the strength of what it    *)
(* found; what stays true of that meanwhile is that a variant stays with   *)
(* its product, that the ids it found were of its organization, and that   *)
(* nobody writes a record of the other one.                                *)
(***************************************************************************)
EXTENDS TargetAuthorization, CatalogHistory, TLAPS

\* A request at work has a number, an actor and a target of its kind.
RequestFits(h) ==
    LET request == handlers[h]
    IN  /\ request.op # "idle" => request.serial # 0
        /\ request.op \in {"verify", "resend", "role", "deactivate", "scope"} => request.target \in Users
        /\ request.op \in {"create", "update", "delete"} => request.target \in CustomRoles
        /\ request.op \notin {"idle", "verify", "resend"} => request.actor \in Users
        /\ request.step = "warehouses" => request.op = "scope"

\* What a request that was let pass may rely on when it writes.
RequestSound(h) ==
    LET request == handlers[h]
    IN  /\ request.op \in {"verify", "resend"} => users[request.target] # NoRow
        /\ request.op \notin {"idle", "verify", "resend"} => users[request.actor] # NoRow
        /\ request.op \in {"role", "deactivate"} /\ request.step = "write" => users[request.target] # NoRow
        /\ request.op \in {"role", "deactivate", "scope"} /\ request.step # "actor" =>
              request.seen \in held[h][request.actor]
        /\ request.op = "role" /\ request.step = "write" =>
              /\ canAssignRole(request.seen, request.role)
              /\ request.role = "OWNER" \/ \E other \in held[h][request.target] : other # "OWNER"
              /\ request.target = Founder => request.role = "OWNER"
        /\ request.op = "deactivate" /\ request.step = "write" => request.target # Founder /\ WasAbove(h, request.target)
        /\ request.op = "scope" /\ request.step \in {"warehouses", "delete", "write"} => WasAbove(h, request.target)
        /\ request.op \in {"create", "update", "delete"} /\ request.step \in {"delete", "write"} =>
              \A p \in request.asked : \E role \in held[h][request.actor] : Grants(SYSTEM_ROLE_PERMISSIONS[role], p)

\* What the users are now is among what they have been while a request at work was served.
RequestRemembers(h) == handlers[h] # Idle => \A u \in Users : RoleOf(u) \subseteq held[h][u]

\* Without a user row there is no membership; user row, membership and the role assigned name the same role.
RowsAgree(u) ==
    /\ users[u] = NoRow => members[u] = NoRow
    /\ members[u] # NoRow => members[u].role = users[u].role /\ members[u].roleId \in {NoRow, members[u].role}

AccountsInv ==
    /\ TypeOK
    /\ \A h \in Handlers : RequestFits(h) /\ RequestSound(h) /\ RequestRemembers(h)
    /\ \A u \in Users : RowsAgree(u)
    /\ FounderKeepsOrganization

----------------------------------------------------------------------------
(* What every step keeps.                                                  *)

\* Nobody loses the user row.
Kept == \A u \in Users : users[u] # NoRow => users'[u] # NoRow

\* What a request at work remembers after a step.
LEMMA Remembered ==
    ASSUME Remember, users' \in [Users -> UserRows \cup {NoRow}], held \in [Handlers -> [Users -> SUBSET OrganizationRoles]]
    PROVE  /\ held' \in [Handlers -> [Users -> SUBSET OrganizationRoles]]
           /\ \A h \in Handlers : RequestRemembers(h)'
           /\ \A h \in Handlers : handlers'[h] # Idle =>
                 \A u \in Users : held[h][u] \subseteq held'[h][u] /\ RoleOf(u)' \subseteq held'[h][u]
  <1>1. \A u \in Users : RoleOf(u)' \in SUBSET OrganizationRoles
    BY DEF RoleOf, UserRows
  <1>2. held' \in [Handlers -> [Users -> SUBSET OrganizationRoles]]
    <2>1. \A h \in Handlers, u \in Users :
             (IF handlers'[h] = Idle THEN {} ELSE held[h][u] \cup RoleOf(u)') \in SUBSET OrganizationRoles
      BY <1>1
    <2> QED
      BY <2>1 DEF Remember
  <1>3. \A h \in Handlers : handlers'[h] # Idle =>
           \A u \in Users : held'[h][u] = held[h][u] \cup RoleOf(u)'
    BY DEF Remember
  <1> QED
    BY <1>2, <1>3 DEF RequestRemembers

\* A request that the step leaves alone stays sound.
LEMMA OthersSound ==
    ASSUME NEW g \in Handlers, RequestFits(g), RequestSound(g), handlers'[g] = handlers[g], Kept,
           \A u \in Users : held[g][u] \subseteq held'[g][u]
    PROVE  RequestFits(g)' /\ RequestSound(g)'
  <1>1. RequestFits(g)'
    BY DEF RequestFits
  <1>2. RequestSound(g)'
    BY DEF RequestFits, RequestSound, Kept, WasAbove
  <1> QED
    BY <1>1, <1>2

\* A request that ends.
LEMMA IdleSound ==
    ASSUME NEW h \in Handlers, handlers'[h] = Idle
    PROVE  Idle \in Requests /\ RequestFits(h)' /\ RequestSound(h)'
  <1>1. Idle \in Requests
    BY AccountBounds DEF Idle, Requests, Operations, Steps, OrganizationRoles
  <1>2. RequestFits(h)'
    BY DEF RequestFits, Idle
  <1>3. RequestSound(h)'
    BY DEF RequestSound, Idle
  <1> QED
    BY <1>1, <1>2, <1>3

\* A request that the step leaves alone, or that has ended.
LEMMA UntouchedSound ==
    ASSUME NEW g \in Handlers, RequestFits(g), RequestSound(g), handlers'[g] = handlers[g] \/ handlers'[g] = Idle, Kept,
           handlers'[g] # Idle => \A u \in Users : held[g][u] \subseteq held'[g][u]
    PROVE  RequestFits(g)' /\ RequestSound(g)'
  BY OthersSound, IdleSound

\* A step that only moves one request: it remembers what it has read.
LEMMA ReadKeeps ==
    ASSUME AccountsInv, Remember, NEW h \in Handlers, NEW request \in Requests, Goes(h, request),
           RequestFits(h)', RequestSound(h)', UNCHANGED rowVars, served' \in 0..MaxRequests
    PROVE  AccountsInv'
  <1>1. handlers' \in [Handlers -> Requests] /\ \A g \in Handlers \ {h} : handlers'[g] = handlers[g]
    BY DEF AccountsInv, TypeOK, Goes
  <1>2. /\ held' \in [Handlers -> [Users -> SUBSET OrganizationRoles]]
        /\ \A g \in Handlers : RequestRemembers(g)'
        /\ \A g \in Handlers : handlers'[g] # Idle => \A u \in Users : held[g][u] \subseteq held'[g][u]
    BY Remembered DEF AccountsInv, TypeOK, rowVars
  <1>3. TypeOK'
    BY <1>1, <1>2 DEF AccountsInv, TypeOK, rowVars
  <1>4. Kept
    BY DEF Kept, rowVars
  <1>5. \A g \in Handlers : RequestFits(g)' /\ RequestSound(g)'
    BY <1>1, <1>2, <1>4, UntouchedSound DEF AccountsInv
  <1>6. FounderKeepsOrganization' /\ \A u \in Users : RowsAgree(u)'
    BY DEF AccountsInv, RowsAgree, FounderKeepsOrganization, rowVars
  <1> QED
    BY <1>2, <1>3, <1>5, <1>6 DEF AccountsInv

\* What a request that goes on remembers when no row changes: all it had, and what the users are.
LEMMA ReadRemembers ==
    ASSUME AccountsInv, Remember, UNCHANGED rowVars, NEW h \in Handlers, handlers'[h] # Idle, NEW u \in Users
    PROVE  held[h][u] \subseteq held'[h][u] /\ RoleOf(u) \subseteq held'[h][u]
  <1>1. RoleOf(u)' = RoleOf(u)
    BY DEF RoleOf, rowVars
  <1>2. held[h][u] \subseteq held'[h][u] /\ RoleOf(u)' \subseteq held'[h][u]
    BY Remembered DEF AccountsInv, TypeOK, rowVars
  <1> QED
    BY <1>1, <1>2

\* A step that ends one request, or none, and writes rows.
LEMMA WriteKeeps ==
    ASSUME AccountsInv, Remember, NEW h, Ends(h) \/ UNCHANGED handlers, Kept, UNCHANGED served,
           users' \in [Users -> UserRows \cup {NoRow}], members' \in [Users -> MemberRows \cup {NoRow}],
           scopes' \in [Users -> SUBSET ScopeRows],
           warehouses' \in [Warehouses -> {"none", "active", "archived"}],
           roles' \in [CustomRoles -> [state : {"none", "live", "gone"}, permissions : SUBSET PermissionNames]],
           \A u \in Users : RowsAgree(u)', FounderKeepsOrganization'
    PROVE  AccountsInv'
  <1>1. \A g \in Handlers : handlers'[g] = handlers[g] \/ handlers'[g] = Idle
    BY DEF AccountsInv, TypeOK, Ends, Goes
  <1>2. /\ held' \in [Handlers -> [Users -> SUBSET OrganizationRoles]]
        /\ \A g \in Handlers : RequestRemembers(g)'
        /\ \A g \in Handlers : handlers'[g] # Idle => \A u \in Users : held[g][u] \subseteq held'[g][u]
    BY Remembered DEF AccountsInv, TypeOK
  <1>3. \A g \in Handlers : RequestFits(g)' /\ RequestSound(g)'
    BY <1>1, <1>2, UntouchedSound DEF AccountsInv
  <1>4. handlers' \in [Handlers -> Requests]
    <2>1. Idle \in Requests
      BY AccountBounds DEF Idle, Requests, Operations, Steps, OrganizationRoles
    <2> QED
      BY <2>1 DEF AccountsInv, TypeOK, Ends, Goes
  <1>5. TypeOK'
    BY <1>2, <1>4 DEF AccountsInv, TypeOK
  <1> QED
    BY <1>2, <1>3, <1>5 DEF AccountsInv

----------------------------------------------------------------------------
(* Requests that begin, read or are refused.                               *)

LEMMA RefusedKeeps ==
    ASSUME AccountsInv, Remember, NEW h \in Handlers, Refused(h)
    PROVE  AccountsInv'
  <1>1. Goes(h, Idle) /\ handlers'[h] = Idle
    BY DEF Refused, Ends, Goes, AccountsInv, TypeOK
  <1>2. served' \in 0..MaxRequests
    BY DEF Refused, AccountsInv, TypeOK
  <1> QED
    BY <1>1, <1>2, IdleSound, ReadKeeps DEF Refused

\* A request that begins waits for its actor, or for its only write.
LEMMA StartKeeps ==
    ASSUME AccountsInv, Remember, NEW h \in Handlers, NEW request \in Requests, Starts(h, request),
           request.op # "idle",
           request.op \in {"verify", "resend", "role", "deactivate", "scope"} => request.target \in Users,
           request.op \in {"create", "update", "delete"} => request.target \in CustomRoles,
           request.op \notin {"verify", "resend"} =>
              request.actor \in Users /\ users[request.actor] # NoRow /\ request.step = "actor",
           request.op \in {"verify", "resend"} => users[request.target] # NoRow /\ request.step = "write"
    PROVE  AccountsInv'
  <1> DEFINE numbered == [request EXCEPT !.serial = served + 1]
  <1>1. served' = served + 1 /\ served' \in 1..MaxRequests
    BY AccountBounds DEF Starts, AccountsInv, TypeOK
  <1>2. numbered \in Requests
    BY <1>1 DEF Requests
  <1>3. /\ numbered.op = request.op /\ numbered.step = request.step /\ numbered.target = request.target
        /\ numbered.actor = request.actor /\ numbered.serial = served + 1
    BY DEF Requests
  <1>4. Goes(h, numbered) /\ handlers'[h] = numbered
    BY DEF Starts, Goes, AccountsInv, TypeOK
  <1>5. UNCHANGED rowVars
    BY DEF Starts
  <1>6. request.op \in Operations
    BY DEF Requests
  <1>7. RequestFits(h)'
    BY <1>1, <1>3, <1>4, <1>6 DEF RequestFits, Operations
  <1>8. RequestSound(h)'
    BY <1>3, <1>4, <1>5, <1>6 DEF RequestSound, Operations, rowVars
  <1> HIDE DEF numbered
  <1> QED
    BY <1>1, <1>2, <1>4, <1>5, <1>7, <1>8, ReadKeeps

LEMMA BeginKeeps ==
    ASSUME AccountsInv, Remember, NEW h \in Handlers, Begin(h)
    PROVE  AccountsInv'
  <1> USE AccountBounds
  <1>0. Idle \in Requests
    BY DEF Idle, Requests, Operations, Steps, OrganizationRoles
  <1>1. ASSUME NEW u \in Users, BeginResend(h, u)
        PROVE  AccountsInv'
    <2> DEFINE q == [Idle EXCEPT !.op = "resend", !.step = "write", !.target = u]
    <2>1. q \in Requests /\ q.op = "resend" /\ q.step = "write" /\ q.target = u
      BY <1>0 DEF Idle, Requests, Operations, Steps
    <2>2. Starts(h, q) /\ users[u] # NoRow
      BY <1>1 DEF BeginResend
    <2> HIDE DEF q
    <2> QED
      BY <2>1, <2>2, StartKeeps
  <1>2. ASSUME NEW u \in Users, NEW token \in 1..MaxTokens, BeginVerify(h, u, token)
        PROVE  AccountsInv'
    <2> DEFINE q == [Idle EXCEPT !.op = "verify", !.step = "write", !.target = u, !.token = token]
    <2>0. token \in 0..MaxTokens
      OBVIOUS
    <2>1. q \in Requests /\ q.op = "verify" /\ q.step = "write" /\ q.target = u
      BY <1>0, <2>0 DEF Idle, Requests, Operations, Steps
    <2>2. Starts(h, q) /\ users[u] # NoRow
      BY <1>2 DEF BeginVerify
    <2> HIDE DEF q
    <2> QED
      BY <2>1, <2>2, StartKeeps
  <1>3. ASSUME NEW a \in Users, NEW u \in Users, BeginDeactivate(h, a, u)
        PROVE  AccountsInv'
    <2> DEFINE q == [Idle EXCEPT !.op = "deactivate", !.step = "actor", !.actor = a, !.target = u]
    <2>1. q \in Requests /\ q.op = "deactivate" /\ q.step = "actor" /\ q.target = u /\ q.actor = a
      BY <1>0 DEF Idle, Requests, Operations, Steps
    <2>2. Starts(h, q) /\ users[a] # NoRow
      BY <1>3 DEF BeginDeactivate, Permitted, Membership, SignedIn
    <2> HIDE DEF q
    <2> QED
      BY <2>1, <2>2, StartKeeps
  <1>4. ASSUME NEW a \in Users, NEW u \in Users, NEW role \in AskedRoles, BeginUpdateRole(h, a, u, role)
        PROVE  AccountsInv'
    <2> DEFINE q == [Idle EXCEPT !.op = "role", !.step = "actor", !.actor = a, !.target = u, !.role = role]
    <2>1. q \in Requests /\ q.op = "role" /\ q.step = "actor" /\ q.target = u /\ q.actor = a
      BY <1>0, AskedAssumption DEF Idle, Requests, Operations, Steps
    <2>2. Starts(h, q) /\ users[a] # NoRow
      BY <1>4 DEF BeginUpdateRole, Permitted, Membership, SignedIn
    <2> HIDE DEF q
    <2> QED
      BY <2>1, <2>2, StartKeeps
  <1>5. ASSUME NEW a \in Users, NEW u \in Users, NEW scope \in SUBSET Warehouses, BeginReplace(h, a, u, scope)
        PROVE  AccountsInv'
    <2> DEFINE q == [Idle EXCEPT !.op = "scope", !.step = "actor", !.actor = a, !.target = u, !.scope = scope]
    <2>1. q \in Requests /\ q.op = "scope" /\ q.step = "actor" /\ q.target = u /\ q.actor = a
      BY <1>0 DEF Idle, Requests, Operations, Steps
    <2>2. Starts(h, q) /\ users[a] # NoRow
      BY <1>5 DEF BeginReplace, Permitted, Membership, SignedIn
    <2> HIDE DEF q
    <2> QED
      BY <2>1, <2>2, StartKeeps
  <1>6. ASSUME NEW a \in Users, NEW r \in CustomRoles, BeginDeleteRole(h, a, r)
        PROVE  AccountsInv'
    <2> DEFINE listed == roles[r].permissions
               q == [Idle EXCEPT !.op = "delete", !.step = "actor", !.actor = a, !.target = r, !.asked = listed]
    <2>0. listed \in SUBSET PermissionNames
      BY DEF AccountsInv, TypeOK
    <2>2. Starts(h, q) /\ users[a] # NoRow
      BY <1>6 DEF BeginDeleteRole, Permitted, Membership, SignedIn
    <2> HIDE DEF listed
    <2>1. q \in Requests /\ q.op = "delete" /\ q.step = "actor" /\ q.target = r /\ q.actor = a
      BY <1>0, <2>0 DEF Idle, Requests, Operations, Steps
    <2> HIDE DEF q
    <2> QED
      BY <2>1, <2>2, StartKeeps
  <1>7. ASSUME NEW a \in Users, NEW r \in CustomRoles, NEW asked \in PermissionSets, NEW repeats \in BOOLEAN,
               NEW op \in {"create", "update"},
               Permitted(a, "role.manage"),
               Starts(h, [Idle EXCEPT !.op = op, !.step = "actor", !.actor = a, !.target = r,
                                      !.asked = asked, !.repeats = repeats])
        PROVE  AccountsInv'
    <2> DEFINE q == [Idle EXCEPT !.op = op, !.step = "actor", !.actor = a, !.target = r,
                                 !.asked = asked, !.repeats = repeats]
    <2>0. asked \in SUBSET PermissionNames
      BY DEF PermissionNames
    <2>1. q \in Requests /\ q.op = op /\ q.step = "actor" /\ q.target = r /\ q.actor = a
      BY <1>0, <2>0 DEF Idle, Requests, Operations, Steps
    <2>2. Starts(h, q) /\ users[a] # NoRow
      BY <1>7 DEF Permitted, Membership, SignedIn
    <2> HIDE DEF q
    <2> QED
      BY <2>1, <2>2, StartKeeps
  <1> QED
    BY <1>1, <1>2, <1>3, <1>4, <1>5, <1>6, <1>7 DEF Begin, BeginCreateRole, BeginUpdatePermissions

LEMMA ReadActorKeeps ==
    ASSUME AccountsInv, Remember, NEW h \in Handlers, ReadActor(h)
    PROVE  AccountsInv'
  <1> DEFINE a    == handlers[h].actor
             seen == IF handlers[h].op = "role" THEN users[a].role ELSE members[a].role
             q    == [handlers[h] EXCEPT !.step = "target", !.seen = seen]
  <1>1. handlers[h] \in Requests /\ handlers[h].op \in {"role", "deactivate", "scope"} /\ a \in Users
    BY DEF AccountsInv, TypeOK, ReadActor, RequestFits
  <1>2. users[a] # NoRow /\ users[a] \in UserRows
    BY <1>1 DEF AccountsInv, TypeOK, RequestSound
  <1>3. seen = users[a].role /\ seen \in OrganizationRoles
    <2>1. handlers[h].op # "role" => members[a] # NoRow
      BY DEF ReadActor, Membership
    <2> QED
      BY <1>1, <1>2, <2>1 DEF AccountsInv, RowsAgree, UserRows
  <1> HIDE DEF seen
  <1>4. q \in Requests
    BY <1>1, <1>3 DEF Requests, Steps
  <1>5. Goes(h, q) /\ handlers'[h] = q
    BY DEF ReadActor, seen, Goes, AccountsInv, TypeOK
  <1>6. /\ q.op = handlers[h].op /\ q.step = "target" /\ q.seen = seen /\ q.actor = a
        /\ q.target = handlers[h].target /\ q.serial = handlers[h].serial
    BY <1>1 DEF Requests
  <1>7. RequestFits(h)'
    BY <1>5, <1>6 DEF AccountsInv, RequestFits
  <1>8. served' \in 0..MaxRequests /\ UNCHANGED rowVars
    BY DEF ReadActor, AccountsInv, TypeOK
  <1>9. seen \in held'[h][a]
    <2>1. handlers'[h] # Idle
      <3>1. handlers'[h].op # "idle"
        BY <1>1, <1>5, <1>6
      <3> QED
        BY <3>1 DEF Idle
    <2>2. seen \in RoleOf(a)
      BY <1>2, <1>3 DEF RoleOf
    <2> QED
      BY <1>1, <1>8, <2>1, <2>2, ReadRemembers
  <1>10. RequestSound(h)'
    BY <1>1, <1>2, <1>5, <1>6, <1>8, <1>9 DEF RequestSound, rowVars
  <1> HIDE DEF q
  <1> QED
    BY <1>4, <1>5, <1>7, <1>8, <1>10, ReadKeeps

LEMMA ReadTargetKeeps ==
    ASSUME AccountsInv, Remember, NEW h \in Handlers, ReadTarget(h)
    PROVE  AccountsInv'
  <1> DEFINE request == handlers[h]
             u       == request.target
             next    == IF request.op = "scope" THEN "warehouses" ELSE "write"
             q       == [request EXCEPT !.step = next]
  <1>1. /\ request \in Requests /\ request.op \in {"role", "deactivate", "scope"} /\ request.step = "target"
        /\ u \in Users /\ request.actor \in Users
    BY DEF AccountsInv, TypeOK, ReadTarget, RequestFits
  <1>2. q \in Requests
    BY <1>1 DEF Requests, Steps
  <1>3. /\ q.op = request.op /\ q.step = next /\ q.seen = request.seen /\ q.actor = request.actor
        /\ q.target = u /\ q.serial = request.serial /\ q.role = request.role
    BY <1>1 DEF Requests
  <1>4. Goes(h, q) /\ handlers'[h] = q
    BY DEF ReadTarget, Goes, AccountsInv, TypeOK
  <1>5. UNCHANGED rowVars /\ served' \in 0..MaxRequests
    BY DEF ReadTarget, AccountsInv, TypeOK
  <1>6. RequestFits(h)'
    BY <1>3, <1>4 DEF AccountsInv, RequestFits
  <1>7. users[u] # NoRow /\ users[u] \in UserRows
    BY <1>1 DEF ReadTarget, Membership, SignedIn, AccountsInv, TypeOK
  <1>8. request.seen \in held'[h][request.actor] /\ users[u].role \in held'[h][u]
    <2>1. handlers'[h] # Idle
      <3>1. handlers'[h].op # "idle"
        BY <1>1, <1>3, <1>4
      <3> QED
        BY <3>1 DEF Idle
    <2>2. request.seen \in held[h][request.actor] /\ users[u].role \in RoleOf(u)
      BY <1>1, <1>7 DEF AccountsInv, RequestSound, RoleOf
    <2> QED
      BY <1>1, <1>5, <2>1, <2>2, ReadRemembers
  <1>9. request.op = "role" => /\ canAssignRole(request.seen, request.role)
                               /\ request.role = "OWNER" \/ users[u].role # "OWNER"
                               /\ u = Founder => request.role = "OWNER"
    BY <1>7 DEF ReadTarget, OwnerProtected, AccountsInv, FounderKeepsOrganization
  <1>10. request.op = "deactivate" => u # Founder /\ Outranks(request.seen, users[u].role)
    BY <1>7 DEF ReadTarget, AccountsInv, FounderKeepsOrganization
  <1>11. request.op = "scope" => Outranks(request.seen, users[u].role)
    <2> SUFFICES ASSUME request.op = "scope"
                 PROVE  Outranks(request.seen, users[u].role)
      OBVIOUS
    <2>1. members[u] # NoRow /\ canManageTarget(request.seen, members[u].role)
      BY DEF ReadTarget, Membership
    <2>2. members[u].role = users[u].role /\ users[u].role \in OrganizationRoles
      BY <1>1, <1>7, <2>1 DEF AccountsInv, RowsAgree, UserRows
    <2> QED
      BY <2>1, <2>2 DEF canManageTarget, Outranks, OrganizationRoles, ROLE_HIERARCHY
  <1>12. users[request.actor] # NoRow
    BY <1>1 DEF AccountsInv, RequestSound
  <1> HIDE DEF q
  <1>13. handlers'[h].target = u /\ handlers'[h].actor = request.actor
    BY <1>3, <1>4
  <1>14. request.op \in {"deactivate", "scope"} => WasAbove(h, u)'
    BY <1>8, <1>10, <1>11, <1>13 DEF WasAbove
  <1>15. RequestSound(h)'
    BY <1>1, <1>3, <1>4, <1>5, <1>7, <1>8, <1>9, <1>10, <1>12, <1>13, <1>14 DEF RequestSound, rowVars
  <1> QED
    BY <1>2, <1>4, <1>5, <1>6, <1>15, ReadKeeps

LEMMA ReadScopeKeeps ==
    ASSUME AccountsInv, Remember, NEW h \in Handlers, ReadWarehouses(h) \/ MatchScope(h)
    PROVE  AccountsInv'
  <1> DEFINE request == handlers[h]
             q == IF ReadWarehouses(h) THEN [request EXCEPT !.step = "delete"]
                  ELSE [request EXCEPT !.step = "write", !.rows = scopes[request.target]]
  <1>1. /\ request \in Requests /\ request.op = "scope" /\ request.step \in {"warehouses", "delete"}
        /\ request.target \in Users /\ request.actor \in Users
    BY DEF AccountsInv, TypeOK, RequestFits, ReadWarehouses, MatchScope, Serves
  <1>2. scopes[request.target] \in SUBSET ScopeRows
    BY <1>1 DEF AccountsInv, TypeOK
  <1>3. q \in Requests
    BY <1>1, <1>2 DEF Requests, Steps
  <1>4. /\ q.op = "scope" /\ q.step \in {"delete", "write"} /\ q.seen = request.seen
        /\ q.actor = request.actor /\ q.target = request.target /\ q.serial = request.serial
    BY <1>1 DEF Requests
  <1>5. Goes(h, q) /\ handlers'[h] = q
    BY DEF ReadWarehouses, MatchScope, Goes, AccountsInv, TypeOK
  <1>6. UNCHANGED rowVars /\ served' \in 0..MaxRequests
    BY DEF ReadWarehouses, MatchScope, AccountsInv, TypeOK
  <1> HIDE DEF q
  <1>7. RequestFits(h)'
    BY <1>1, <1>4, <1>5 DEF AccountsInv, RequestFits
  <1>8. \A u \in Users : held[h][u] \subseteq held'[h][u]
    <2>1. handlers'[h] # Idle
      BY <1>4, <1>5 DEF Idle
    <2> QED
      BY <1>6, <2>1, ReadRemembers
  <1>9. WasAbove(h, request.target)' /\ request.seen \in held'[h][request.actor]
    <2>1. WasAbove(h, request.target) /\ request.seen \in held[h][request.actor]
      BY <1>1 DEF AccountsInv, RequestSound
    <2> QED
      BY <1>1, <1>4, <1>5, <1>8, <2>1 DEF WasAbove
  <1>10. RequestSound(h)'
    BY <1>1, <1>4, <1>5, <1>6, <1>9 DEF AccountsInv, RequestSound, rowVars
  <1> QED
    BY <1>3, <1>5, <1>6, <1>7, <1>10, ReadKeeps

LEMMA ReadAuthorityKeeps ==
    ASSUME AccountsInv, Remember, NEW h \in Handlers, ReadAuthority(h)
    PROVE  AccountsInv'
  <1> DEFINE request == handlers[h]
             a == request.actor
             q == [request EXCEPT !.step = IF request.op = "update" THEN "delete" ELSE "write"]
  <1>1. request \in Requests /\ request.op \in {"create", "update", "delete"} /\ a \in Users
    BY DEF AccountsInv, TypeOK, ReadAuthority, RequestFits
  <1>2. q \in Requests
    BY <1>1 DEF Requests, Steps
  <1>3. /\ q.op = request.op /\ q.step \in {"delete", "write"} /\ q.asked = request.asked /\ q.actor = a
        /\ q.target = request.target /\ q.serial = request.serial
    BY <1>1 DEF Requests
  <1>4. Goes(h, q) /\ handlers'[h] = q
    BY DEF ReadAuthority, Goes, AccountsInv, TypeOK
  <1>5. members[a] # NoRow /\ MayGrant(a, request.asked) /\ users[a] # NoRow
    BY DEF ReadAuthority, Membership, SignedIn
  <1>6. UNCHANGED rowVars /\ served' \in 0..MaxRequests
    BY DEF ReadAuthority, AccountsInv, TypeOK
  <1>7. members[a].role \in held'[h][a] /\ (members[a].roleId # NoRow => members[a].roleId \in held'[h][a])
    <2>1. handlers'[h] # Idle
      BY <1>3, <1>4 DEF Idle
    <2>2. members[a].role \in RoleOf(a) /\ (members[a].roleId # NoRow => members[a].roleId \in RoleOf(a))
      BY <1>1, <1>5 DEF AccountsInv, RowsAgree, RoleOf
    <2> QED
      BY <1>1, <1>6, <2>1, <2>2, ReadRemembers
  <1>8. \A p \in request.asked : \E role \in held'[h][a] : Grants(SYSTEM_ROLE_PERMISSIONS[role], p)
    BY <1>5, <1>7 DEF MayGrant
  <1> HIDE DEF q
  <1>9. RequestFits(h)'
    BY <1>1, <1>3, <1>4 DEF AccountsInv, RequestFits
  <1>10. RequestSound(h)'
    BY <1>1, <1>3, <1>4, <1>5, <1>6, <1>8 DEF RequestSound, rowVars
  <1> QED
    BY <1>2, <1>4, <1>6, <1>9, <1>10, ReadKeeps

----------------------------------------------------------------------------
(* Requests that write.                                                    *)

\* Rows of users that change in what the properties do not look at.
LEMMA UsersKeep ==
    ASSUME AccountsInv, Remember, NEW h \in Handlers, NEW u \in Users, users[u] # NoRow, NEW row \in UserRows,
           users' = [users EXCEPT ![u] = row], row.role = users[u].role,
           u = Founder => row.active, Ends(h), UNCHANGED <<members, scopes, warehouses, roles, served>>
    PROVE  AccountsInv'
  <1>1. users' \in [Users -> UserRows \cup {NoRow}] /\ row # NoRow
    BY NoRowAssumption DEF AccountsInv, TypeOK
  <1>2. \A v \in Users : /\ users'[v] # NoRow <=> users[v] # NoRow
                         /\ users[v] # NoRow => users'[v].role = users[v].role
    BY <1>1 DEF AccountsInv, TypeOK
  <1>3. Kept
    BY <1>2 DEF Kept
  <1>4. \A v \in Users : RowsAgree(v)'
    BY <1>2 DEF AccountsInv, RowsAgree
  <1>5. FounderKeepsOrganization'
    BY <1>1, <1>2, FounderAssumption DEF AccountsInv, TypeOK, FounderKeepsOrganization
  <1>6. /\ members' \in [Users -> MemberRows \cup {NoRow}] /\ scopes' \in [Users -> SUBSET ScopeRows]
        /\ warehouses' \in [Warehouses -> {"none", "active", "archived"}]
        /\ roles' \in [CustomRoles -> [state : {"none", "live", "gone"}, permissions : SUBSET PermissionNames]]
    BY DEF AccountsInv, TypeOK
  <1> QED
    BY <1>1, <1>3, <1>4, <1>5, <1>6, WriteKeeps

LEMMA VerifyKeeps ==
    ASSUME AccountsInv, Remember, NEW h \in Handlers, FinishVerify(h)
    PROVE  AccountsInv'
  <1> DEFINE u   == handlers[h].target
             row == [users[u] EXCEPT !.verified = TRUE, !.token = 0]
  <1>1. u \in Users /\ users[u] # NoRow /\ users[u] \in UserRows
    BY DEF AccountsInv, TypeOK, RequestFits, RequestSound, FinishVerify, Serves
  <1>2. row \in UserRows /\ row.role = users[u].role /\ row.active = users[u].active
    <2>1. 0 \in 0..MaxTokens
      BY AccountBounds
    <2> QED
      BY <1>1, <2>1 DEF UserRows
  <1>3. users' = [users EXCEPT ![u] = row]
    BY <1>1 DEF FinishVerify
  <1>4. u = Founder => row.active
    BY <1>1, <1>2 DEF AccountsInv, FounderKeepsOrganization
  <1> HIDE DEF row
  <1> QED
    BY <1>1, <1>2, <1>3, <1>4, UsersKeep DEF FinishVerify

LEMMA ResendKeeps ==
    ASSUME AccountsInv, Remember, NEW h \in Handlers, FinishResend(h)
    PROVE  AccountsInv'
  <1> DEFINE u   == handlers[h].target
             row == [users[u] EXCEPT !.token = users[u].links + 1, !.links = users[u].links + 1]
  <1>1. u \in Users /\ users[u] # NoRow /\ users[u] \in UserRows
    BY DEF AccountsInv, TypeOK, RequestFits, RequestSound, FinishResend, Serves
  <1>2. users[u].links + 1 \in 0..MaxTokens
    BY <1>1, AccountBounds DEF FinishResend, UserRows
  <1>3. row \in UserRows /\ row.role = users[u].role /\ row.active = users[u].active
    BY <1>1, <1>2 DEF UserRows
  <1>4. users' = [users EXCEPT ![u] = row]
    BY <1>1 DEF FinishResend, UserRows
  <1>5. u = Founder => row.active
    BY <1>1, <1>3 DEF AccountsInv, FounderKeepsOrganization
  <1> HIDE DEF row
  <1> QED
    BY <1>1, <1>3, <1>4, <1>5, UsersKeep DEF FinishResend

LEMMA DeactivateKeeps ==
    ASSUME AccountsInv, Remember, NEW h \in Handlers, WriteDeactivate(h)
    PROVE  AccountsInv'
  <1> DEFINE u   == handlers[h].target
             row == [users[u] EXCEPT !.active = FALSE]
  <1>1. u \in Users /\ users[u] # NoRow /\ users[u] \in UserRows /\ u # Founder
    BY DEF AccountsInv, TypeOK, RequestFits, RequestSound, WriteDeactivate, Serves
  <1>2. row \in UserRows /\ row.role = users[u].role
    BY <1>1 DEF UserRows
  <1>3. users' = [users EXCEPT ![u] = row]
    BY <1>1 DEF WriteDeactivate
  <1> HIDE DEF row
  <1> QED
    BY <1>1, <1>2, <1>3, UsersKeep DEF WriteDeactivate

\* The transaction of a role change: user row and membership name the new role.
LEMMA WriteRoleKeeps ==
    ASSUME AccountsInv, Remember, NEW h \in Handlers, WriteRole(h)
    PROVE  AccountsInv'
  <1> DEFINE u    == handlers[h].target
             role == handlers[h].role
             row  == [users[u] EXCEPT !.role = role]
             mem  == [role |-> role, roleId |-> role]
  <1>1. /\ u \in Users /\ users[u] # NoRow /\ users[u] \in UserRows
        /\ role \in OrganizationRoles /\ (u = Founder => role = "OWNER")
    BY DEF AccountsInv, TypeOK, RequestFits, RequestSound, WriteRole, Serves, Requests
  <1>2. row \in UserRows /\ row.role = role /\ row.active = users[u].active /\ row # NoRow
    BY <1>1, NoRowAssumption DEF UserRows
  <1>3. mem \in MemberRows /\ mem # NoRow
    BY <1>1, NoRowAssumption DEF MemberRows
  <1>4. users' = [users EXCEPT ![u] = row] /\ members' = [members EXCEPT ![u] = mem]
    BY <1>1 DEF WriteRole
  <1>5. /\ users' \in [Users -> UserRows \cup {NoRow}] /\ members' \in [Users -> MemberRows \cup {NoRow}]
        /\ users'[u] = row /\ members'[u] = mem
        /\ \A v \in Users \ {u} : users'[v] = users[v] /\ members'[v] = members[v]
    BY <1>1, <1>2, <1>3, <1>4 DEF AccountsInv, TypeOK
  <1>6. mem.role = role /\ mem.roleId = role
    OBVIOUS
  <1> HIDE DEF row, mem
  <1>7. Kept
    BY <1>2, <1>5 DEF Kept
  <1>8. \A v \in Users : RowsAgree(v)'
    BY <1>1, <1>2, <1>3, <1>5, <1>6 DEF AccountsInv, RowsAgree
  <1>9. FounderKeepsOrganization'
    BY <1>1, <1>2, <1>3, <1>5, <1>6, FounderAssumption DEF AccountsInv, FounderKeepsOrganization
  <1>10. /\ scopes' \in [Users -> SUBSET ScopeRows]
         /\ warehouses' \in [Warehouses -> {"none", "active", "archived"}]
         /\ roles' \in [CustomRoles -> [state : {"none", "live", "gone"}, permissions : SUBSET PermissionNames]]
    BY DEF AccountsInv, TypeOK, WriteRole
  <1> QED
    BY <1>5, <1>7, <1>8, <1>9, <1>10, WriteKeeps DEF WriteRole

LEMMA WriteScopeKeeps ==
    ASSUME AccountsInv, Remember, NEW h \in Handlers, WriteScope(h)
    PROVE  AccountsInv'
  <1> DEFINE request == handlers[h]
             u    == request.target
             new  == [warehouse : request.scope, serial : {request.serial}]
             rows == (scopes[u] \ request.rows) \cup new
  <1>1. u \in Users /\ request.serial \in 1..MaxRequests /\ request.scope \in SUBSET Warehouses
    BY AccountBounds DEF AccountsInv, TypeOK, RequestFits, WriteScope, Serves, Requests
  <1>2. new \in SUBSET ScopeRows
    BY <1>1 DEF ScopeRows
  <1>3. scopes' = [scopes EXCEPT ![u] = rows]
    BY DEF WriteScope
  <1>4. scopes' \in [Users -> SUBSET ScopeRows]
    BY <1>1, <1>2, <1>3 DEF AccountsInv, TypeOK
  <1>5. UNCHANGED <<users, members, warehouses, roles, served>> /\ Ends(h)
    BY DEF WriteScope
  <1>6. Kept
    BY <1>5 DEF Kept
  <1>7. FounderKeepsOrganization' /\ \A v \in Users : RowsAgree(v)'
    BY <1>5 DEF AccountsInv, FounderKeepsOrganization, RowsAgree
  <1>8. /\ users' \in [Users -> UserRows \cup {NoRow}] /\ members' \in [Users -> MemberRows \cup {NoRow}]
        /\ warehouses' \in [Warehouses -> {"none", "active", "archived"}]
        /\ roles' \in [CustomRoles -> [state : {"none", "live", "gone"}, permissions : SUBSET PermissionNames]]
    BY <1>5 DEF AccountsInv, TypeOK
  <1> QED
    BY <1>4, <1>5, <1>6, <1>7, <1>8, WriteKeeps

\* A step that writes the rows of one custom role: what the invariant needs of it.
LEMMA RolesKeep ==
    ASSUME AccountsInv, UNCHANGED <<users, members, scopes, warehouses>>, NEW r \in CustomRoles,
           NEW state \in {"none", "live", "gone"}, NEW permissions \in SUBSET PermissionNames,
           roles' = [roles EXCEPT ![r] = [state |-> state, permissions |-> permissions]]
    PROVE  /\ roles' \in [CustomRoles -> [state : {"none", "live", "gone"}, permissions : SUBSET PermissionNames]]
           /\ users' \in [Users -> UserRows \cup {NoRow}] /\ members' \in [Users -> MemberRows \cup {NoRow}]
           /\ scopes' \in [Users -> SUBSET ScopeRows]
           /\ warehouses' \in [Warehouses -> {"none", "active", "archived"}]
           /\ Kept /\ FounderKeepsOrganization' /\ \A u \in Users : RowsAgree(u)'
  <1>1. Kept
    BY DEF Kept
  <1>2. FounderKeepsOrganization' /\ \A u \in Users : RowsAgree(u)'
    BY DEF AccountsInv, FounderKeepsOrganization, RowsAgree
  <1>3. roles' \in [CustomRoles -> [state : {"none", "live", "gone"}, permissions : SUBSET PermissionNames]]
    BY DEF AccountsInv, TypeOK
  <1>4. /\ users' \in [Users -> UserRows \cup {NoRow}] /\ members' \in [Users -> MemberRows \cup {NoRow}]
        /\ scopes' \in [Users -> SUBSET ScopeRows]
        /\ warehouses' \in [Warehouses -> {"none", "active", "archived"}]
    BY DEF AccountsInv, TypeOK
  <1> QED
    BY <1>1, <1>2, <1>3, <1>4

LEMMA InsertionKeeps ==
    ASSUME AccountsInv, Remember, NEW h \in Handlers, WriteNewRole(h) \/ CreatePermissions(h)
    PROVE  AccountsInv'
  <1> DEFINE r           == handlers[h].target
             permissions == roles[r].permissions \cup handlers[h].asked
  <1>1. r \in CustomRoles /\ handlers[h].asked \in SUBSET PermissionNames
    BY DEF AccountsInv, TypeOK, RequestFits, WriteNewRole, CreatePermissions, Serves, Requests
  <1>2. roles' = [roles EXCEPT ![r] = [state |-> "live", permissions |-> permissions]]
    BY DEF WriteNewRole, CreatePermissions, InsertsPermissions
  <1>3. permissions \in SUBSET PermissionNames
    BY <1>1 DEF AccountsInv, TypeOK
  <1>4. UNCHANGED <<users, members, scopes, warehouses, served>> /\ Ends(h)
    BY DEF WriteNewRole, CreatePermissions
  <1> HIDE DEF permissions, r
  <1> QED
    BY <1>1, <1>2, <1>3, <1>4, RolesKeep, WriteKeeps DEF r

LEMMA DeleteRoleKeeps ==
    ASSUME AccountsInv, Remember, NEW h \in Handlers, WriteDeleteRole(h)
    PROVE  AccountsInv'
  <1> DEFINE r == handlers[h].target
  <1>1. r \in CustomRoles
    BY DEF AccountsInv, RequestFits, WriteDeleteRole, Serves
  <1>2. roles' = [roles EXCEPT ![r] = [state |-> "gone", permissions |-> {}]]
    BY DEF WriteDeleteRole
  <1>3. UNCHANGED <<users, members, scopes, warehouses, served>> /\ Ends(h)
    BY DEF WriteDeleteRole
  <1>4. {} \in SUBSET PermissionNames /\ "gone" \in {"none", "live", "gone"}
    OBVIOUS
  <1> HIDE DEF r
  <1> QED
    BY <1>1, <1>2, <1>3, <1>4, RolesKeep, WriteKeeps

\* The deletion that an update of permissions begins with, after which the request goes on.
LEMMA DeletePermissionsKeeps ==
    ASSUME AccountsInv, Remember, NEW h \in Handlers, DeletePermissions(h)
    PROVE  AccountsInv'
  <1> DEFINE request == handlers[h]
             r == request.target
             q == [request EXCEPT !.step = "write"]
  <1>1. /\ request \in Requests /\ r \in CustomRoles /\ request.actor \in Users
        /\ request.op = "update" /\ request.step = "delete"
    BY DEF AccountsInv, TypeOK, RequestFits, DeletePermissions, Serves
  <1>2. roles[r] \in [state : {"none", "live", "gone"}, permissions : SUBSET PermissionNames]
    BY <1>1 DEF AccountsInv, TypeOK
  <1>3. roles' = [roles EXCEPT ![r] = [state |-> roles[r].state, permissions |-> {}]]
    <2>1. [roles[r] EXCEPT !.permissions = {}] = [state |-> roles[r].state, permissions |-> {}]
      BY <1>2
    <2> QED
      BY <2>1 DEF DeletePermissions
  <1>4. UNCHANGED <<users, members, scopes, warehouses, served>>
    BY DEF DeletePermissions
  <1>5. /\ roles' \in [CustomRoles -> [state : {"none", "live", "gone"}, permissions : SUBSET PermissionNames]]
        /\ users' \in [Users -> UserRows \cup {NoRow}] /\ members' \in [Users -> MemberRows \cup {NoRow}]
        /\ scopes' \in [Users -> SUBSET ScopeRows]
        /\ warehouses' \in [Warehouses -> {"none", "active", "archived"}]
        /\ Kept /\ FounderKeepsOrganization' /\ \A u \in Users : RowsAgree(u)'
    <2>1. {} \in SUBSET PermissionNames /\ roles[r].state \in {"none", "live", "gone"}
      BY <1>2
    <2> HIDE DEF r
    <2> QED
      BY <1>1, <1>3, <1>4, <2>1, RolesKeep
  <1>6. /\ q \in Requests /\ q.op = "update" /\ q.step = "write" /\ q.asked = request.asked
        /\ q.actor = request.actor /\ q.target = r /\ q.serial = request.serial
    BY <1>1 DEF Requests, Steps
  <1>7. handlers' \in [Handlers -> Requests] /\ handlers'[h] = q
        /\ \A g \in Handlers \ {h} : handlers'[g] = handlers[g]
    BY <1>6 DEF DeletePermissions, Goes, AccountsInv, TypeOK
  <1> HIDE DEF q
  <1>8. /\ held' \in [Handlers -> [Users -> SUBSET OrganizationRoles]]
        /\ \A g \in Handlers : RequestRemembers(g)'
        /\ \A g \in Handlers : handlers'[g] # Idle => \A u \in Users : held[g][u] \subseteq held'[g][u]
    BY <1>5, Remembered DEF AccountsInv, TypeOK
  <1>9. \A p \in request.asked : \E role \in held'[h][request.actor] : Grants(SYSTEM_ROLE_PERMISSIONS[role], p)
    <2>1. \A p \in request.asked : \E role \in held[h][request.actor] : Grants(SYSTEM_ROLE_PERMISSIONS[role], p)
      BY <1>1 DEF AccountsInv, RequestSound
    <2>2. handlers'[h] # Idle
      BY <1>6, <1>7 DEF Idle
    <2> QED
      BY <1>1, <1>8, <2>1, <2>2
  <1>10. RequestFits(h)' /\ RequestSound(h)'
    BY <1>1, <1>4, <1>6, <1>7, <1>9 DEF AccountsInv, RequestFits, RequestSound
  <1>11. \A g \in Handlers : RequestFits(g)' /\ RequestSound(g)'
    BY <1>5, <1>7, <1>8, <1>10, UntouchedSound DEF AccountsInv
  <1>12. TypeOK'
    BY <1>4, <1>5, <1>7, <1>8 DEF AccountsInv, TypeOK
  <1> QED
    BY <1>5, <1>8, <1>11, <1>12 DEF AccountsInv

----------------------------------------------------------------------------
(* Rows that appear, and warehouses.                                       *)

\* A user row that appears with its membership, or without.
LEMMA NewUserKeeps ==
    ASSUME AccountsInv, Remember, NEW u \in Users, users[u] = NoRow, NEW row \in UserRows, NEW role \in OrganizationRoles,
           row.role = role, NEW mem \in MemberRows \cup {NoRow},
           mem # NoRow => mem.role = role /\ mem.roleId \in {role, NoRow},
           u = Founder => row.active /\ role = "OWNER" /\ mem # NoRow,
           users' = [users EXCEPT ![u] = row], members' = [members EXCEPT ![u] = mem],
           UNCHANGED <<scopes, warehouses, roles, handlers, served>>
    PROVE  AccountsInv'
  <1>1. /\ users' \in [Users -> UserRows \cup {NoRow}] /\ members' \in [Users -> MemberRows \cup {NoRow}]
        /\ users'[u] = row /\ members'[u] = mem /\ row # NoRow
        /\ \A v \in Users \ {u} : users'[v] = users[v] /\ members'[v] = members[v]
    BY NoRowAssumption DEF AccountsInv, TypeOK
  <1>2. Kept
    BY <1>1 DEF Kept
  <1>3. \A v \in Users : RowsAgree(v)'
    BY <1>1 DEF AccountsInv, RowsAgree
  <1>4. FounderKeepsOrganization'
    BY <1>1, FounderAssumption DEF AccountsInv, FounderKeepsOrganization
  <1>5. /\ scopes' \in [Users -> SUBSET ScopeRows]
        /\ warehouses' \in [Warehouses -> {"none", "active", "archived"}]
        /\ roles' \in [CustomRoles -> [state : {"none", "live", "gone"}, permissions : SUBSET PermissionNames]]
    BY DEF AccountsInv, TypeOK
  <1> QED
    BY <1>1, <1>2, <1>3, <1>4, <1>5, WriteKeeps

LEMMA RegisterKeeps ==
    ASSUME AccountsInv, Remember, Register
    PROVE  AccountsInv'
  <1> DEFINE row == [active |-> TRUE, verified |-> FALSE, token |-> 1, links |-> 1, role |-> "OWNER"]
             mem == [role |-> "OWNER", roleId |-> "OWNER"]
  <1>1. row \in UserRows /\ row.role = "OWNER" /\ row.active
    BY AccountBounds DEF UserRows, OrganizationRoles
  <1>2. mem \in MemberRows /\ mem # NoRow /\ mem.role = "OWNER" /\ mem.roleId = "OWNER"
    BY NoRowAssumption DEF MemberRows, OrganizationRoles
  <1>3. /\ users[Founder] = NoRow /\ users' = [users EXCEPT ![Founder] = row]
        /\ members' = [members EXCEPT ![Founder] = mem]
        /\ UNCHANGED <<scopes, warehouses, roles, handlers, served>>
    BY DEF Register
  <1>4. "OWNER" \in OrganizationRoles
    BY DEF OrganizationRoles
  <1> HIDE DEF row, mem
  <1> QED
    BY <1>1, <1>2, <1>3, <1>4, FounderAssumption, NewUserKeeps

LEMMA ProvisionKeeps ==
    ASSUME AccountsInv, Remember, NEW u \in Users, NEW role \in AskedRoles, NEW member \in BOOLEAN,
           Provision(u, role, member)
    PROVE  AccountsInv'
  <1> DEFINE row == [active |-> TRUE, verified |-> TRUE, token |-> 0, links |-> 0, role |-> role]
             mem == IF member THEN [role |-> role, roleId |-> NoRow] ELSE NoRow
  <1>0. role \in OrganizationRoles
    BY AskedAssumption
  <1>1. row \in UserRows /\ row.role = role
    BY <1>0, AccountBounds DEF UserRows
  <1>2. mem \in MemberRows \cup {NoRow} /\ (mem # NoRow => mem.role = role /\ mem.roleId \in {role, NoRow})
    BY <1>0 DEF MemberRows
  <1>3. users[u] = NoRow /\ u # Founder
    BY DEF Provision
  <1>4. members[u] = NoRow
    BY <1>3 DEF AccountsInv, RowsAgree
  <1>5. members' = [members EXCEPT ![u] = mem]
    <2>1. CASE member
      BY <2>1 DEF Provision
    <2>2. CASE ~member
      BY <1>4, <2>2 DEF Provision, AccountsInv, TypeOK
    <2> QED
      BY <2>1, <2>2
  <1>6. users' = [users EXCEPT ![u] = row] /\ UNCHANGED <<scopes, warehouses, roles, handlers, served>>
    BY DEF Provision
  <1> HIDE DEF row, mem
  <1> QED
    BY <1>0, <1>1, <1>2, <1>3, <1>5, <1>6, NewUserKeeps

LEMMA WarehousesKeep ==
    ASSUME AccountsInv, Remember, NEW a, NEW permission, NEW w, NEW from, NEW to \in {"active", "archived"},
           MovesWarehouse(a, permission, w, from, to)
    PROVE  AccountsInv'
  <1>1. UNCHANGED <<users, members, scopes, roles, handlers, served>>
    BY DEF MovesWarehouse
  <1>2. warehouses' \in [Warehouses -> {"none", "active", "archived"}]
    BY DEF AccountsInv, TypeOK, MovesWarehouse
  <1>3. Kept
    BY <1>1 DEF Kept
  <1>4. /\ FounderKeepsOrganization' /\ \A u \in Users : RowsAgree(u)'
        /\ users' \in [Users -> UserRows \cup {NoRow}] /\ members' \in [Users -> MemberRows \cup {NoRow}]
        /\ scopes' \in [Users -> SUBSET ScopeRows]
        /\ roles' \in [CustomRoles -> [state : {"none", "live", "gone"}, permissions : SUBSET PermissionNames]]
    BY <1>1 DEF AccountsInv, TypeOK, FounderKeepsOrganization, RowsAgree
  <1> QED
    BY <1>1, <1>2, <1>3, <1>4, WriteKeeps

----------------------------------------------------------------------------

LEMMA InitSound == Init => AccountsInv
  <1> SUFFICES ASSUME Init
               PROVE  AccountsInv
    OBVIOUS
  <1>1. TypeOK
    <2>1. Idle \in Requests
      BY AccountBounds DEF Idle, Requests, Operations, Steps, OrganizationRoles
    <2> QED
      BY <2>1, AccountBounds DEF Init, TypeOK
  <1>2. \A h \in Handlers : RequestFits(h) /\ RequestSound(h) /\ RequestRemembers(h)
    BY DEF Init, Idle, RequestFits, RequestSound, RequestRemembers
  <1>3. \A u \in Users : RowsAgree(u)
    BY DEF Init, RowsAgree
  <1>4. FounderKeepsOrganization
    BY FounderAssumption DEF Init, FounderKeepsOrganization
  <1> QED
    BY <1>1, <1>2, <1>3, <1>4 DEF AccountsInv

LEMMA NextSound == AccountsInv /\ [Next]_vars => AccountsInv'
  <1> SUFFICES ASSUME AccountsInv, [Next]_vars
               PROVE  AccountsInv'
    OBVIOUS
  <1>1. CASE UNCHANGED vars
    BY <1>1 DEF AccountsInv, TypeOK, RequestFits, RequestSound, RequestRemembers, WasAbove, RoleOf,
       FounderKeepsOrganization, RowsAgree, vars, rowVars
  <1>2. CASE Moves /\ Remember
    <2> USE <1>2
    <2>1. CASE Register
      BY <2>1, RegisterKeeps
    <2>2. ASSUME NEW u \in Users, NEW role \in AskedRoles, NEW member \in BOOLEAN, Provision(u, role, member)
          PROVE  AccountsInv'
      BY <2>2, ProvisionKeeps
    <2>3. ASSUME NEW h \in Handlers, Begin(h) \/ Refused(h)
          PROVE  AccountsInv'
      BY <2>3, BeginKeeps, RefusedKeeps
    <2>4. ASSUME NEW h \in Handlers, FinishVerify(h) \/ FinishResend(h)
          PROVE  AccountsInv'
      BY <2>4, VerifyKeeps, ResendKeeps
    <2>5. ASSUME NEW h \in Handlers, ServeUsers(h)
          PROVE  AccountsInv'
      BY <2>5, ReadActorKeeps, ReadTargetKeeps, WriteRoleKeeps, DeactivateKeeps, ReadScopeKeeps, WriteScopeKeeps
         DEF ServeUsers
    <2>6. ASSUME NEW h \in Handlers, ServeRoles(h)
          PROVE  AccountsInv'
      BY <2>6, ReadAuthorityKeeps, InsertionKeeps, DeletePermissionsKeeps, DeleteRoleKeeps DEF ServeRoles
    <2>7. ASSUME NEW a \in Users, NEW w \in Warehouses,
                 \/ CreateWarehouse(a, w) \/ ArchiveWarehouse(a, w)
                 \/ \E to \in {"active", "archived"} : UpdateWarehouse(a, w, to)
          PROVE  AccountsInv'
      BY <2>7, WarehousesKeep DEF CreateWarehouse, ArchiveWarehouse, UpdateWarehouse
    <2> QED
      BY <2>1, <2>2, <2>3, <2>4, <2>5, <2>6, <2>7 DEF Moves
  <1> QED
    BY <1>1, <1>2 DEF Next

\* However requests of administrators interleave, what each of them still relies on when it writes was true while it
\* was served: the inductive invariant.
THEOREM AccountsInvariant == Spec => []AccountsInv
  BY InitSound, NextSound, PTL DEF Spec

\* The rows of users, memberships, assignments and roles and the requests at work keep their types.
THEOREM AccountsTypeCorrect == Spec => []TypeOK
  <1>1. AccountsInv => TypeOK
    BY DEF AccountsInv
  <1> QED
    BY <1>1, AccountsInvariant, PTL

\* No interleaving of role changes and deactivations (users.service.ts updateRole, deactivate) leaves the organization
\* without the owner who registered it.
THEOREM FounderAlwaysKeepsOrganization == Spec => []FounderKeepsOrganization
  <1>1. AccountsInv => FounderKeepsOrganization
    BY DEF AccountsInv
  <1> QED
    BY <1>1, AccountsInvariant, PTL

----------------------------------------------------------------------------
(* Whoever writes was, while the request was served, above what it writes. *)

\* The parts of a step that AuthorityFlowsDown speaks of.
Flows == RolesComeFromAbove /\ ScopesComeFromAbove /\ DeactivationComesFromAbove /\ PermissionsComeFromHolders

\* Steps that write none of these rows.
LEMMA OtherStepsFlow ==
    ASSUME AccountsInv, UNCHANGED <<scopes, roles>>,
           \A u \in Users : users[u] # NoRow => members'[u] = members[u] /\ users'[u].active = users[u].active
    PROVE  Flows
  BY DEF Flows, RolesComeFromAbove, ScopesComeFromAbove, DeactivationComesFromAbove, PermissionsComeFromHolders

LEMMA RoleFlows ==
    ASSUME AccountsInv, NEW h \in Handlers, WriteRole(h)
    PROVE  Flows
  <1> DEFINE u    == handlers[h].target
             role == handlers[h].role
  <1>1. /\ handlers[h].op = "role" /\ handlers[h].step = "write" /\ u \in Users
        /\ users[u] \in UserRows
        /\ handlers[h].seen \in held[h][handlers[h].actor] /\ canAssignRole(handlers[h].seen, role)
        /\ role = "OWNER" \/ \E other \in held[h][u] : other # "OWNER"
    BY DEF AccountsInv, TypeOK, RequestFits, RequestSound, WriteRole, Serves
  <1>2. Writes(h, {"role"}, u)
    <2>1. handlers'[h] = Idle
      BY DEF WriteRole, Ends, Goes, AccountsInv, TypeOK
    <2> QED
      BY <1>1, <2>1 DEF Writes, Idle
  <1>3. /\ members'[u].role = role
        /\ \A v \in Users \ {u} : members'[v] = members[v]
        /\ \A v \in Users : users[v] # NoRow => users'[v].active = users[v].active
    BY <1>1 DEF WriteRole, AccountsInv, TypeOK, UserRows
  <1>4. RolesComeFromAbove
    <2> SUFFICES ASSUME NEW v \in Users, users[v] # NoRow, members'[v] # members[v]
                 PROVE  \E g \in Handlers :
                           /\ Writes(g, {"role"}, v)
                           /\ \E above \in held[g][handlers[g].actor] :
                                 above = "OWNER" \/ Outranks(above, members'[v].role)
                           /\ members'[v].role = "OWNER" \/ \E other \in held[g][v] : other # "OWNER"
      BY DEF RolesComeFromAbove
    <2>1. v = u
      BY <1>3
    <2>2. handlers[h].seen = "OWNER" \/ Outranks(handlers[h].seen, role)
      BY <1>1 DEF canAssignRole
    <2> QED
      BY <1>1, <1>2, <1>3, <2>1, <2>2
  <1>5. UNCHANGED <<scopes, roles>>
    BY DEF WriteRole
  <1> QED
    BY <1>3, <1>4, <1>5 DEF Flows, ScopesComeFromAbove, DeactivationComesFromAbove, PermissionsComeFromHolders

LEMMA DeactivationFlows ==
    ASSUME AccountsInv, NEW h \in Handlers, WriteDeactivate(h)
    PROVE  Flows
  <1> DEFINE u == handlers[h].target
  <1>1. handlers[h].op = "deactivate" /\ handlers[h].step = "write" /\ u \in Users /\ WasAbove(h, u)
    BY DEF AccountsInv, RequestFits, RequestSound, WriteDeactivate, Serves
  <1>2. Writes(h, {"deactivate"}, u)
    <2>1. handlers'[h] = Idle
      BY DEF WriteDeactivate, Ends, Goes, AccountsInv, TypeOK
    <2> QED
      BY <1>1, <2>1 DEF Writes, Idle
  <1>3. \A v \in Users \ {u} : users'[v] = users[v]
    BY <1>1 DEF WriteDeactivate, AccountsInv, TypeOK
  <1>4. DeactivationComesFromAbove
    BY <1>1, <1>2, <1>3 DEF DeactivationComesFromAbove
  <1> QED
    BY <1>4 DEF Flows, RolesComeFromAbove, ScopesComeFromAbove, PermissionsComeFromHolders, WriteDeactivate

LEMMA ScopeFlows ==
    ASSUME AccountsInv, NEW h \in Handlers, WriteScope(h)
    PROVE  Flows
  <1> DEFINE u == handlers[h].target
  <1>1. handlers[h].op = "scope" /\ handlers[h].step = "write" /\ u \in Users /\ WasAbove(h, u)
    BY DEF AccountsInv, RequestFits, RequestSound, WriteScope, Serves
  <1>2. Writes(h, {"scope"}, u)
    <2>1. handlers'[h] = Idle
      BY DEF WriteScope, Ends, Goes, AccountsInv, TypeOK
    <2> QED
      BY <1>1, <2>1 DEF Writes, Idle
  <1>3. \A v \in Users \ {u} : scopes'[v] = scopes[v]
    BY <1>1 DEF WriteScope, AccountsInv, TypeOK
  <1>4. ScopesComeFromAbove
    BY <1>1, <1>2, <1>3 DEF ScopesComeFromAbove
  <1> QED
    BY <1>4 DEF Flows, RolesComeFromAbove, DeactivationComesFromAbove, PermissionsComeFromHolders, WriteScope

\* The permissions a request inserts are ones its actor has held.
LEMMA InsertionFlows ==
    ASSUME AccountsInv, NEW h \in Handlers, WriteNewRole(h) \/ CreatePermissions(h)
    PROVE  Flows
  <1> DEFINE r == handlers[h].target
  <1>1. /\ handlers[h].op \in {"create", "update"} /\ handlers[h].step = "write" /\ r \in CustomRoles
        /\ \A p \in handlers[h].asked :
              \E role \in held[h][handlers[h].actor] : Grants(SYSTEM_ROLE_PERMISSIONS[role], p)
    BY DEF AccountsInv, RequestFits, RequestSound, WriteNewRole, CreatePermissions, Serves
  <1>2. Writes(h, {"create", "update"}, r)
    <2>1. handlers'[h] = Idle
      BY DEF WriteNewRole, CreatePermissions, Ends, Goes, AccountsInv, TypeOK
    <2> QED
      BY <1>1, <2>1 DEF Writes, Idle
  <1>3. /\ \A s \in CustomRoles \ {r} : roles'[s] = roles[s]
        /\ roles'[r].permissions = roles[r].permissions \cup handlers[h].asked
    BY <1>1 DEF WriteNewRole, CreatePermissions, InsertsPermissions, AccountsInv, TypeOK
  <1>4. PermissionsComeFromHolders
    BY <1>1, <1>2, <1>3 DEF PermissionsComeFromHolders
  <1> QED
    BY <1>4 DEF Flows, RolesComeFromAbove, ScopesComeFromAbove, DeactivationComesFromAbove,
       WriteNewRole, CreatePermissions

\* Permissions that go need nobody above them.
LEMMA DeletionFlows ==
    ASSUME AccountsInv, NEW h \in Handlers, DeletePermissions(h) \/ WriteDeleteRole(h)
    PROVE  Flows
  <1>1. handlers[h].target \in CustomRoles
    BY DEF AccountsInv, RequestFits, DeletePermissions, WriteDeleteRole, Serves
  <1>2. \A r \in CustomRoles : roles'[r].permissions \subseteq roles[r].permissions
    BY <1>1 DEF DeletePermissions, WriteDeleteRole, AccountsInv, TypeOK
  <1>3. UNCHANGED <<users, members, scopes>>
    BY DEF DeletePermissions, WriteDeleteRole
  <1> QED
    BY <1>2, <1>3 DEF Flows, RolesComeFromAbove, ScopesComeFromAbove, DeactivationComesFromAbove,
       PermissionsComeFromHolders

LEMMA StepFlows == AccountsInv /\ [Next]_vars => [Flows]_vars
  <1> SUFFICES ASSUME AccountsInv, Moves
               PROVE  Flows
    BY DEF Next
  <1>1. CASE UNCHANGED <<users, members, scopes, roles>>
    BY <1>1, OtherStepsFlow
  <1>2. CASE Register
    BY <1>2, OtherStepsFlow DEF Register, AccountsInv, TypeOK
  <1>3. ASSUME NEW u \in Users, NEW role \in AskedRoles, NEW member \in BOOLEAN, Provision(u, role, member)
        PROVE  Flows
    BY <1>3, OtherStepsFlow DEF Provision, AccountsInv, TypeOK
  <1>4. ASSUME NEW h \in Handlers, FinishVerify(h) \/ FinishResend(h)
        PROVE  Flows
    <2>1. handlers[h].target \in Users
      BY <1>4 DEF AccountsInv, RequestFits, FinishVerify, FinishResend, Serves
    <2>2. ASSUME NEW u \in Users, users[u] # NoRow
          PROVE  users'[u].active = users[u].active
      <3>1. users[u] \in UserRows /\ users \in [Users -> UserRows \cup {NoRow}]
        BY <2>2 DEF AccountsInv, TypeOK
      <3>2. CASE FinishVerify(h)
        BY <2>1, <3>1, <3>2 DEF FinishVerify, UserRows
      <3>3. CASE FinishResend(h)
        BY <2>1, <3>1, <3>3 DEF FinishResend, UserRows
      <3> QED
        BY <1>4, <3>2, <3>3
    <2> QED
      BY <1>4, <2>2, OtherStepsFlow DEF FinishVerify, FinishResend
  <1>5. ASSUME NEW h \in Handlers, Begin(h) \/ Refused(h)
        PROVE  UNCHANGED rowVars
    BY <1>5 DEF Begin, Refused, BeginResend, BeginVerify, BeginDeactivate, BeginUpdateRole, BeginReplace,
       BeginDeleteRole, BeginCreateRole, BeginUpdatePermissions, Starts
  <1>6. ASSUME NEW h \in Handlers, ReadActor(h) \/ ReadTarget(h) \/ ReadWarehouses(h) \/ MatchScope(h) \/ ReadAuthority(h)
        PROVE  UNCHANGED rowVars
    BY <1>6 DEF ReadActor, ReadTarget, ReadWarehouses, MatchScope, ReadAuthority
  <1>7. ASSUME NEW a \in Users, NEW w \in Warehouses,
               \/ CreateWarehouse(a, w) \/ ArchiveWarehouse(a, w)
               \/ \E to \in {"active", "archived"} : UpdateWarehouse(a, w, to)
        PROVE  UNCHANGED <<users, members, scopes, roles>>
    BY <1>7 DEF CreateWarehouse, ArchiveWarehouse, UpdateWarehouse, MovesWarehouse
  <1>8. UNCHANGED rowVars => Flows
    BY <1>1 DEF rowVars
  <1> QED
    BY <1>1, <1>2, <1>3, <1>4, <1>5, <1>6, <1>7, <1>8, RoleFlows, DeactivationFlows, ScopeFlows, InsertionFlows,
       DeletionFlows DEF Moves, ServeUsers, ServeRoles

\* Stale rows give no authority (users.service.ts updateRole and deactivate, warehouse-assignments.service.ts replace,
\* roles.service.ts): roles, warehouse assignments, deactivations and permissions of custom roles come from somebody who
\* was, while the very request was served, above what they change, or held what they give.
THEOREM AuthorityAlwaysFlowsDown == Spec => AuthorityFlowsDown
  <1>1. AccountsInv /\ [Next]_vars =>
           [RolesComeFromAbove /\ ScopesComeFromAbove /\ DeactivationComesFromAbove /\ PermissionsComeFromHolders]_vars
    BY StepFlows DEF Flows
  <1> QED
    BY <1>1, AccountsInvariant, PTL DEF Spec, AuthorityFlowsDown

----------------------------------------------------------------------------
(* The target authorization, over the same rows.                           *)

\* The target denies a permission to nobody who is let pass, has the warehouse and no assigned role, except by the
\* permissions of the role; an assigned system role always has one that it does not know.
LEMMA AllowedByRole ==
    ASSUME AccountsInv, NEW u \in Users, SignedIn(u), members[u] # NoRow, NEW w \in Warehouses,
           NEW session \in SessionStates, NEW permission \in PERMISSIONS
    PROVE  checkAuthorization(u, session, permission, w) = 200 <=>
              /\ warehouses[w] # "none" /\ session = "active" /\ members[u].roleId = NoRow
              /\ \E row \in scopes[u] : row.warehouse = w
              /\ permission \in ROLE_PERMISSIONS[members[u].role]
  <1> DEFINE context  == Context(u, session)
             decision == authorize(context, permission, w)
             denied   == PermissionObjection(context.membership, permission)
             outside  == WarehouseObjection(context.membership.scope, w)
             unknown  == {"UNKNOWN_PERMISSION_GRANT", "UNKNOWN_PERMISSION", "PERMISSION_DENIED"}
  <1>1. /\ context.active = TRUE /\ context.verified = TRUE /\ context.session = session
        /\ context.membership.role = members[u].role
        /\ context.membership.scope = {row.warehouse : row \in scopes[u]}
        /\ context.membership.permissionGrants = IF members[u].roleId = NoRow THEN {}
                                                 ELSE SYSTEM_ROLE_PERMISSIONS[members[u].roleId]
    BY DEF Context, SignedIn, AccountsInv, TypeOK, UserRows
  <1> HIDE DEF context
  <1>2. members[u].roleId # NoRow =>
           members[u].roleId \in OrganizationRoles /\ ~(SYSTEM_ROLE_PERMISSIONS[members[u].roleId] \subseteq PERMISSIONS)
    <2>1. members[u].roleId # NoRow => members[u].roleId \in OrganizationRoles
      BY DEF AccountsInv, TypeOK, MemberRows
    <2>2. \A role \in OrganizationRoles : ~(SYSTEM_ROLE_PERMISSIONS[role] \subseteq PERMISSIONS)
      <3>1. SYSTEM_ROLE_PERMISSIONS["OWNER"] = {"*"} /\ "*" \notin PERMISSIONS
        BY DEF SYSTEM_ROLE_PERMISSIONS, PERMISSIONS
      <3>2. \A role \in OrganizationRoles \ {"OWNER"} : "dashboard.read" \in SYSTEM_ROLE_PERMISSIONS[role]
        BY DEF SYSTEM_ROLE_PERMISSIONS, OrganizationRoles
      <3>3. "dashboard.read" \notin PERMISSIONS
        BY DEF PERMISSIONS
      <3> QED
        BY <3>1, <3>2, <3>3
    <2> QED
      BY <2>1, <2>2
  <1>3. denied \in unknown \cup {"none"}
    BY DEF PermissionObjection
  <1>4. denied = "none" <=> members[u].roleId = NoRow /\ permission \in ROLE_PERMISSIONS[members[u].role]
    <2>1. CASE members[u].roleId = NoRow
      BY <1>1, <2>1 DEF PermissionObjection
    <2>2. CASE members[u].roleId # NoRow
      BY <1>1, <1>2, <2>2 DEF PermissionObjection
    <2> QED
      BY <2>1, <2>2
  <1>5. outside \in {"none", "WAREHOUSE_SCOPE_REQUIRED", "WAREHOUSE_ACCESS_DENIED"}
    BY DEF WarehouseObjection
  <1>6. outside = "none" <=> \E row \in scopes[u] : row.warehouse = w
    BY <1>1 DEF WarehouseObjection
  <1> HIDE DEF denied, outside
  <1>7. decision = "allow" <=> session = "active" /\ denied = "none" /\ outside = "none"
    <2>1. decision = IF session \in {"revoked", "unknown"} THEN "SESSION_REVOKED"
                     ELSE IF session = "expired" THEN "SESSION_EXPIRED"
                     ELSE IF denied # "none" THEN denied
                     ELSE IF outside # "none" THEN outside
                     ELSE "allow"
      BY <1>1 DEF authorize, denied, outside
    <2> HIDE DEF decision
    <2> QED
      BY <1>3, <1>5, <2>1 DEF SessionStates
  <1> HIDE DEF decision
  <1>8. StatusOf(decision) = 200 <=> decision = "allow"
    BY DEF StatusOf
  <1>9. checkAuthorization(u, session, permission, w) = 200 <=> warehouses[w] # "none" /\ StatusOf(decision) = 200
    BY DEF checkAuthorization, decision, context
  <1> QED
    BY <1>4, <1>6, <1>7, <1>8, <1>9

\* Of the permissions that both models know the roles have the same, but for one of the administrator.
LEMMA RolesHaveTheSame ==
    \A role \in OrganizationRoles, permission \in PERMISSIONS :
        permission \in ROLE_PERMISSIONS[role] <=>
            \/ Grants(SYSTEM_ROLE_PERMISSIONS[role], permission)
            \/ role = "ADMIN" /\ permission = "inventory.adjust.request"
  BY DEF OrganizationRoles, PERMISSIONS, ROLE_PERMISSIONS, SYSTEM_ROLE_PERMISSIONS, Grants

\* The two hierarchies have different levels and one order.
LEMMA HierarchiesAgree ==
    \A role, other \in OrganizationRoles :
        TARGET_HIERARCHY[role] > TARGET_HIERARCHY[other] <=> Outranks(role, other)
  BY DEF OrganizationRoles, TARGET_HIERARCHY, ROLE_HIERARCHY, Outranks

LEMMA DiffersAsKnown == AccountsInv => TargetDiffersAsKnown
  <1> SUFFICES ASSUME AccountsInv, NEW u \in Users, SignedIn(u), members[u] # NoRow
               PROVE  /\ \A w \in Warehouses, session \in SessionStates, permission \in PERMISSIONS :
                            checkAuthorization(u, session, permission, w) = 200 <=>
                                /\ warehouses[w] # "none" /\ session = "active" /\ members[u].roleId = NoRow
                                /\ \E row \in scopes[u] : row.warehouse = w
                                /\ \/ Reference(u, permission, w) = 200
                                   \/ members[u].role = "ADMIN" /\ permission = "inventory.adjust.request"
                      /\ \A other \in Users, role \in OrganizationRoles :
                            /\ members[other] # NoRow /\ Permitted(u, "user.manage")
                            /\ evaluateRoleAssignment(u, other, role)
                            => MayAssign(u, other, role)
    BY DEF TargetDiffersAsKnown
  <1>1. \A v \in Users : members[v] # NoRow => members[v].role \in OrganizationRoles /\ users[v].role = members[v].role
    BY DEF AccountsInv, TypeOK, RowsAgree, MemberRows
  <1>2. ASSUME NEW w \in Warehouses, NEW permission \in PERMISSIONS, warehouses[w] # "none",
               members[u].roleId = NoRow, \E row \in scopes[u] : row.warehouse = w
        PROVE  permission \in ROLE_PERMISSIONS[members[u].role] <=>
                  \/ Reference(u, permission, w) = 200
                  \/ members[u].role = "ADMIN" /\ permission = "inventory.adjust.request"
    <2>1. Membership(u) /\ InScope(u, w)
      BY <1>2 DEF Membership, InScope
    <2>2. Permitted(u, permission) <=> Grants(SYSTEM_ROLE_PERMISSIONS[members[u].role], permission)
      BY <1>2, <2>1 DEF Permitted
    <2>3. Reference(u, permission, w) = 200 <=> Grants(SYSTEM_ROLE_PERMISSIONS[members[u].role], permission)
      BY <1>2, <2>1, <2>2 DEF Reference
    <2> QED
      BY <1>1, <2>3, RolesHaveTheSame
  <1>3. ASSUME NEW w \in Warehouses, NEW session \in SessionStates, NEW permission \in PERMISSIONS
        PROVE  checkAuthorization(u, session, permission, w) = 200 <=>
                  /\ warehouses[w] # "none" /\ session = "active" /\ members[u].roleId = NoRow
                  /\ \E row \in scopes[u] : row.warehouse = w
                  /\ \/ Reference(u, permission, w) = 200
                     \/ members[u].role = "ADMIN" /\ permission = "inventory.adjust.request"
    BY <1>2, AllowedByRole
  <1>4. ASSUME NEW other \in Users, NEW role \in OrganizationRoles, members[other] # NoRow, Permitted(u, "user.manage"),
               evaluateRoleAssignment(u, other, role)
        PROVE  MayAssign(u, other, role)
    <2>1. Outranks(members[u].role, role) /\ role # "OWNER" /\ members[other].role # "OWNER"
      BY <1>1, <1>4, HierarchiesAgree DEF evaluateRoleAssignment
    <2> QED
      BY <1>1, <1>4, <2>1 DEF MayAssign, canAssignRole, OwnerProtected
  <1> QED
    BY <1>3, <1>4

\* Whatever rows the requests of the present code leave, the target authorization allows a permission of those both
\* know just where the present one does, the warehouse is assigned by name and no system role has been assigned, but for
\* the adjustment requests of administrators; and nobody who manages users gets a role change from it that updateRole
\* refuses (prisma-authorization-adapter.ts over packages/domain; rbac.ts, warehouseScope.ts, users.routes.ts:11).
THEOREM TargetAlwaysDiffersAsKnown == Spec => []TargetDiffersAsKnown
  BY AccountsInvariant, DiffersAsKnown, PTL
----------------------------------------------------------------------------
(* Master data: Catalog keeps organizations apart, whatever ids are asked  *)
(* for.                                                                    *)

\* The form of the tables.
ProductsFormed ==
    /\ product = [p \in Products |-> product[p]]
    /\ \A p \in Products : product[p] = [row |-> product[p].row, sku |-> product[p].sku, category |-> product[p].category,
                                         active |-> product[p].active, status |-> product[p].status,
                                         form |-> product[p].form]

VariantsFormed ==
    /\ variant = [v \in Variants |-> variant[v]]
    /\ \A v \in Variants : variant[v] = [of |-> variant[v].of, active |-> variant[v].active]

NamesFormed ==
    /\ category = [k \in Categories |-> category[k]]
    /\ \A k \in Categories : category[k] = [row |-> category[k].row, name |-> category[k].name, form |-> category[k].form]
    /\ zone = [z \in Zones |-> zone[z]]

PartiesFormed ==
    /\ supplier = [s \in Suppliers |-> supplier[s]]
    /\ customer = [d \in Customers |-> customer[d]]

TablesFormed == ProductsFormed /\ VariantsFormed /\ NamesFormed /\ PartiesFormed

\* A variant that is named beside a product is one of it.
OfProduct(v, p) == v # None => v \in Variants /\ p \in Products /\ variant[v].of = p

OwnNamesOwn == \A p \in Own(Rows(product)) : product[p].category \notin Foreign

LinksKeepApart == \A row \in link : row.product \in Foreign <=> row.supplier \in Foreign

OrdersNameOwn == \A o \in order : {o.party, o.product} \cap Foreign = {} /\ OfProduct(o.variant, o.product)

StockNamesOwn ==
    \A s \in stock : /\ {s.product, s.warehouse} \cap Foreign = {} /\ OfProduct(s.variant, s.product)
                     /\ s.bin # None => Site[s.bin] = s.warehouse

\* The records of the other organization are what they were.
ForeignProducts == \A p \in Products \cap Foreign : product[p] = FirstProduct(p)

ForeignVariants == \A v \in Variants \cap Foreign \cap Existing : variant[v] = FirstVariant(v)

ForeignLinks == {row \in link : row.product \in Foreign} = {row \in FirstLinks : row.product \in Foreign}

ForeignCategories == \A k \in Categories \cap Foreign : category[k] = FirstCategory(k)

ForeignParties ==
    /\ \A s \in Suppliers \cap Foreign : supplier[s] = FirstStatus(s)
    /\ \A d \in Customers \cap Foreign : customer[d] = FirstStatus(d)

ForeignStands == ForeignProducts /\ ForeignVariants /\ ForeignLinks /\ ForeignCategories /\ ForeignParties

\* What a call has checked so far.
Relating(r) == r.op \in {"createProduct", "updateProduct"} /\ r.step \in {"suppliers", "variants", "links", "write"}

IsCatalogCall(r) ==
    r = [op |-> r.op, step |-> r.step, on |-> r.on, in |-> r.in, form |-> r.form, awaited |-> r.awaited,
         seen |-> r.seen, gone |-> r.gone]

Checked(r) ==
    /\ IsCatalogCall(r)
    /\ r.step \in {"category", "suppliers"} => r.op \in {"createProduct", "updateProduct"}
    /\ r.step \in {"variants", "links"} => r.op = "updateProduct"
    /\ r.op = "updateProduct" /\ r.step \in {"category", "suppliers", "variants", "links", "write"} => r.on \in Own(Products)
    /\ Relating(r) => r.in.category \notin Foreign
    /\ Relating(r) /\ r.step # "suppliers" /\ r.in.suppliers # Absent => \A s \in r.in.suppliers : s \notin Foreign
    /\ r.op = "updateProduct" /\ r.step \in {"links", "write"} /\ r.in.variants # Absent =>
           r.in.variants.keep \subseteq VariantsOf(r.on) /\ r.seen \subseteq VariantsOf(r.on)
    /\ r.op = "updateProduct" /\ r.step = "write" => \A row \in r.gone : row.product = r.on
    /\ r.op = "deleteCategory" /\ r.step = "write" => r.on \notin Foreign
    /\ r.step = "store" => /\ r.op \in {"createPurchaseOrder", "createSalesOrder"}
                           /\ r.in.party \notin Foreign /\ r.in.product \in Own(Products)
                           /\ OfProduct(r.in.variant, r.in.product)

CallsChecked ==
    /\ call = [c \in Calls |-> call[c]]
    /\ \A c \in Calls : Checked(call[c])

CatalogInv ==
    /\ TablesFormed
    /\ OwnNamesOwn /\ LinksKeepApart /\ OrdersNameOwn /\ StockNamesOwn
    /\ ForeignStands
    /\ CallsChecked

\* A variant stays with its product.
VariantsKept == \A v \in Variants : variant[v].of \in Products => variant'[v].of = variant[v].of

\* The variants of the other organization are of its products.
LEMMA ForeignVariantsOf ==
  ASSUME ForeignVariants
  PROVE  \A v \in Variants \cap Foreign \cap Existing : variant[v].of \in Products \cap Foreign
  <1> SUFFICES ASSUME NEW v \in Variants \cap Foreign \cap Existing
               PROVE  variant[v].of \in Products \cap Foreign
    OBVIOUS
  <1>1. variant[v].of = Family[v]
    <2>1. variant[v] = FirstVariant(v)
      BY DEF ForeignVariants
    <2>2. FirstVariant(v).of = Family[v]
      BY DEF FirstVariant
    <2> QED
      BY <2>1, <2>2
  <1>2. v \in Variants \cap Existing /\ v \in Foreign
    OBVIOUS
  <1>3. Family[v] \in Products /\ Family[v] \in Foreign
    BY <1>2, OrganizationsAssumption
  <1> QED
    BY <1>1, <1>3

LEMMA IdsApart ==
  /\ None \notin Products /\ None \notin Variants /\ None \notin Categories /\ None \notin Calls /\ None \notin Forms /\ None \notin Foreign
  /\ Absent \notin Foreign /\ None \notin Names \cup {Blank} /\ Absent \notin Names \cup {Blank}
  BY IdsAssumption

\* What was checked stays true while variants stay with their products.
LEMMA CheckedStays ==
  ASSUME VariantsKept, NEW r, Checked(r)
  PROVE  Checked(r)'
  <1>1. \A p \in Products : VariantsOf(p) \subseteq VariantsOf(p)'
    BY DEF VariantsKept, VariantsOf
  <1>2. \A v, p : OfProduct(v, p) => OfProduct(v, p)'
    BY DEF VariantsKept, OfProduct
  <1>3. r.op = "updateProduct" /\ r.step \in {"links", "write"} /\ r.in.variants # Absent =>
            r.in.variants.keep \subseteq VariantsOf(r.on)' /\ r.seen \subseteq VariantsOf(r.on)'
    BY <1>1 DEF Checked, Own
  <1>4. r.step = "store" => OfProduct(r.in.variant, r.in.product)'
    BY <1>2 DEF Checked
  <1> QED
    BY <1>3, <1>4 DEF Checked, Relating, IsCatalogCall

\* One call changes.
LEMMA CallChanges ==
  ASSUME CallsChecked, VariantsKept, NEW c \in Calls, NEW r, call' = [call EXCEPT ![c] = r], Checked(r)
  PROVE  CallsChecked'
  <1>1. call' = [d \in Calls |-> call'[d]]
    BY DEF CallsChecked
  <1>2. call'[c] = r /\ \A d \in Calls \ {c} : call'[d] = call[d]
    BY DEF CallsChecked
  <1>3. \A d \in Calls : Checked(call'[d])
    BY <1>2 DEF CallsChecked
  <1>4. ASSUME NEW d \in Calls
        PROVE  Checked(call[d])'
    <2>1. PICK q : q = call'[d]
      OBVIOUS
    <2>2. Checked(q)'
      BY <1>3, <2>1, CheckedStays
    <2> QED
      BY <2>1, <2>2
  <1> QED
    BY <1>1, <1>4 DEF CallsChecked

\* Orders and stock rows stay what they are.
LEMMA OrdersStay ==
  ASSUME VariantsKept, OrdersNameOwn, order' = order
  PROVE  OrdersNameOwn'
  <1>1. \A v, p : OfProduct(v, p) => OfProduct(v, p)'
    BY DEF VariantsKept, OfProduct
  <1> QED
    BY <1>1 DEF OrdersNameOwn

LEMMA StockStays ==
  ASSUME VariantsKept, StockNamesOwn, stock' = stock
  PROVE  StockNamesOwn'
  <1>1. \A v, p : OfProduct(v, p) => OfProduct(v, p)'
    BY DEF VariantsKept, OfProduct
  <1> QED
    BY <1>1 DEF StockNamesOwn

\* A call that writes nothing.
LEMMA QuietCall ==
  ASSUME CatalogInv, NEW c \in Calls, NEW r, call' = [call EXCEPT ![c] = r], Checked(r), UNCHANGED <<catalog, order, stock>>
  PROVE  CatalogInv'
  <1>1. UNCHANGED <<product, variant, link, category, supplier, customer, zone, order, stock>>
    BY DEF catalog
  <1>2. VariantsKept
    BY <1>1 DEF VariantsKept
  <1>3. CallsChecked'
    BY <1>2, CallChanges DEF CatalogInv
  <1>4. TablesFormed'
    BY <1>1 DEF CatalogInv, TablesFormed, ProductsFormed, VariantsFormed, NamesFormed, PartiesFormed
  <1>5. OwnNamesOwn' /\ LinksKeepApart' /\ ForeignStands'
    BY <1>1 DEF CatalogInv, OwnNamesOwn, Rows, LinksKeepApart, ForeignStands, ForeignProducts, ForeignVariants,
       ForeignLinks, ForeignCategories, ForeignParties
  <1> QED
    BY <1>1, <1>2, <1>3, <1>4, <1>5, OrdersStay, StockStays DEF CatalogInv

\* A call that goes on to another step, or ends.
LEMMA StepForms ==
  ASSUME CallsChecked, NEW c \in Calls, NEW step, NEW r, r = [call[c] EXCEPT !.step = step]
  PROVE  /\ IsCatalogCall(r) /\ r.step = step /\ r.op = call[c].op /\ r.on = call[c].on /\ r.in = call[c].in
         /\ r.form = call[c].form /\ r.awaited = call[c].awaited /\ r.seen = call[c].seen /\ r.gone = call[c].gone
  BY DEF CallsChecked, Checked, IsCatalogCall

LEMMA EndsChecked ==
  ASSUME CallsChecked, NEW c \in Calls, NEW step \in {"done", "refused"}, NEW r, r = [call[c] EXCEPT !.step = step]
  PROVE  Checked(r)
  <1>1. IsCatalogCall(r) /\ r.step = step /\ r.op = call[c].op /\ r.on = call[c].on
    BY StepForms
  <1> QED
    BY <1>1 DEF Checked, Relating

LEMMA RefusalSound ==
  ASSUME CatalogInv, NEW c \in Calls, Refuse(c)
  PROVE  CatalogInv'
  <1>1. PICK r : r = [call[c] EXCEPT !.step = "refused"]
    OBVIOUS
  <1>2. call' = [call EXCEPT ![c] = r] /\ UNCHANGED <<catalog, order, stock>>
    BY <1>1 DEF Refuse, Goto, CatalogInv, CallsChecked
  <1>3. Checked(r)
    BY <1>1, EndsChecked DEF CatalogInv
  <1> QED
    BY <1>2, <1>3, QuietCall

LEMMA DoneChecked ==
  ASSUME CallsChecked, VariantsKept, NEW c \in Calls, Done(c)
  PROVE  CallsChecked'
  <1>1. PICK r : r = [call[c] EXCEPT !.step = "done"]
    OBVIOUS
  <1>2. call' = [call EXCEPT ![c] = r]
    BY <1>1 DEF Done, Goto, CallsChecked
  <1>3. Checked(r)
    BY <1>1, EndsChecked
  <1> QED
    BY <1>2, <1>3, CallChanges

\* A call that goes on, to a step at which what it knows suffices.
LEMMA GoesOn ==
  ASSUME CatalogInv, NEW c \in Calls, NEW step, Goto(c, step), UNCHANGED <<catalog, order, stock>>,
         NEW r, r = [call[c] EXCEPT !.step = step], Checked(r)
  PROVE  CatalogInv'
  <1>1. call' = [call EXCEPT ![c] = r]
    BY DEF Goto, CatalogInv, CallsChecked
  <1> QED
    BY <1>1, QuietCall

LEMMA CatalogInitSound == CatalogInit => CatalogInv
  <1> SUFFICES ASSUME CatalogInit
               PROVE  CatalogInv
    OBVIOUS
  <1>1. ProductsFormed
    <2>1. \A p \in Products : product[p] = FirstProduct(p)
      BY DEF CatalogInit
    <2>2. \A p \in Products :
             FirstProduct(p) = [row |-> FirstProduct(p).row, sku |-> FirstProduct(p).sku,
                                category |-> FirstProduct(p).category, active |-> FirstProduct(p).active,
                                status |-> FirstProduct(p).status, form |-> FirstProduct(p).form]
      BY DEF FirstProduct, NoProduct
    <2> QED
      BY <2>1, <2>2 DEF CatalogInit, ProductsFormed
  <1>2. VariantsFormed /\ PartiesFormed
    BY DEF CatalogInit, VariantsFormed, PartiesFormed, FirstVariant
  <1>3. NamesFormed
    BY DEF CatalogInit, NamesFormed, FirstCategory, NoName
  <1>4. OwnNamesOwn
    <2>1. \A p \in Products : product[p].category = None
      BY DEF CatalogInit, FirstProduct, NoProduct
    <2> QED
      BY <2>1, IdsApart DEF CatalogInit, OwnNamesOwn, Own, Rows
  <1>5. LinksKeepApart
    <2>1. ASSUME NEW row \in link
          PROVE  row.product \in Foreign <=> row.supplier \in Foreign
      <3>1. PICK pair \in Linked : row \in Links(pair[1], {pair[2]}, None)
        BY <2>1 DEF CatalogInit, FirstLinks
      <3>2. row.product = pair[1] /\ row.supplier = pair[2]
        BY <3>1 DEF Links
      <3> QED
        BY <3>2, OrganizationsAssumption
    <2> QED
      BY <2>1 DEF LinksKeepApart
  <1>6. OrdersNameOwn /\ StockNamesOwn
    BY DEF CatalogInit, OrdersNameOwn, StockNamesOwn
  <1>7. ForeignStands
    BY DEF CatalogInit, ForeignStands, ForeignProducts, ForeignVariants, ForeignLinks, ForeignCategories, ForeignParties
  <1>8. CallsChecked
    BY DEF CatalogInit, CallsChecked, Checked, Relating, IsCatalogCall, NoCall
  <1> QED
    BY <1>1, <1>2, <1>3, <1>4, <1>5, <1>6, <1>7, <1>8 DEF CatalogInv, TablesFormed

\* Calls begin before anything was checked.
LEMMA StartSound ==
  ASSUME CatalogInv, NEW c \in Calls, NEW op, NEW on, NEW in, NEW f, Start(c, op, on, in, f), UNCHANGED <<catalog, order, stock>>
  PROVE  CatalogInv'
  <1>1. PICK step : step = FirstStep(op)
    OBVIOUS
  <1>2. PICK r : r = [NoCall EXCEPT !.op = op, !.step = step, !.on = on, !.in = in, !.form = f, !.awaited = f # None]
    OBVIOUS
  <1>3. call' = [call EXCEPT ![c] = r]
    BY <1>1, <1>2 DEF Start
  <1>4. IsCatalogCall(r) /\ r.op = op /\ r.step = step
    BY <1>2 DEF IsCatalogCall, NoCall
  <1>5. /\ step \in {"sku", "slug", "count", "snapshot", "write"}
        /\ step = "write" => op \notin {"createProduct", "updateProduct", "deleteCategory"}
    BY <1>1 DEF FirstStep
  <1>6. Checked(r)
    BY <1>4, <1>5 DEF Checked, Relating
  <1> QED
    BY <1>3, <1>6, QuietCall

\* An answer ends the wait and nothing else.
LEMMA AnswerSound ==
  ASSUME CatalogInv, NEW c \in Calls, Answer(c)
  PROVE  CatalogInv'
  <1>1. PICK r : r = [call[c] EXCEPT !.awaited = FALSE]
    OBVIOUS
  <1>2. call' = [call EXCEPT ![c] = r] /\ UNCHANGED <<catalog, order, stock>>
    BY <1>1 DEF Answer, CatalogInv, CallsChecked
  <1>3. Checked(call[c])
    BY DEF CatalogInv, CallsChecked
  <1>4. /\ IsCatalogCall(r) /\ r.step = call[c].step /\ r.op = call[c].op /\ r.on = call[c].on /\ r.in = call[c].in
        /\ r.seen = call[c].seen /\ r.gone = call[c].gone
    BY <1>1, <1>3 DEF Checked, IsCatalogCall
  <1>5. Checked(r)
    BY <1>3, <1>4 DEF Checked, Relating
  <1> QED
    BY <1>2, <1>5, QuietCall

\* The checks of the product service.
LEMMA CheckSkuSound ==
  ASSUME CatalogInv, NEW c \in Calls, checkSku(c)
  PROVE  CatalogInv'
  <1>1. CASE Refuse(c)
    BY <1>1, RefusalSound
  <1>2. CASE ~Refuse(c)
    <2>1. Goto(c, "category") /\ UNCHANGED <<catalog, order, stock>> /\ call[c].op \in {"createProduct", "updateProduct"}
      BY <1>2 DEF checkSku, At
    <2>2. call[c].op = "updateProduct" => call[c].on \in Own(Products)
      BY <1>2 DEF checkSku, At, Own, Rows, CatalogInv, TablesFormed, ProductsFormed
    <2>3. PICK r : r = [call[c] EXCEPT !.step = "category"]
      OBVIOUS
    <2>4. Checked(r)
      BY <2>1, <2>2, <2>3, StepForms DEF CatalogInv, Checked, Relating
    <2> QED
      BY <2>1, <2>3, <2>4, GoesOn
  <1> QED
    BY <1>1, <1>2

LEMMA ValidateRelationsSound ==
  ASSUME CatalogInv, NEW c \in Calls, validateRelations(c)
  PROVE  CatalogInv'
  <1>1. Checked(call[c]) /\ CallsChecked
    BY DEF CatalogInv, CallsChecked
  <1>2. CASE Refuse(c)
    BY <1>2, RefusalSound
  <1>3. CASE ~Refuse(c) /\ call[c].step = "category"
    <2>1. Goto(c, "suppliers") /\ UNCHANGED <<catalog, order, stock>> /\ call[c].in.category \notin Foreign
      BY <1>3, IdsApart DEF validateRelations, Own
    <2>2. PICK r : r = [call[c] EXCEPT !.step = "suppliers"]
      OBVIOUS
    <2>3. Checked(r)
      BY <1>1, <1>3, <2>1, <2>2, StepForms DEF Checked, Relating
    <2> QED
      BY <2>1, <2>2, <2>3, GoesOn
  <1>4. CASE ~Refuse(c) /\ call[c].step = "suppliers"
    <2>1. PICK step : step = IF call[c].op = "createProduct" THEN "write" ELSE "variants"
      OBVIOUS
    <2>2. /\ Goto(c, step) /\ UNCHANGED <<catalog, order, stock>>
          /\ call[c].in.suppliers = Absent \/ \A s \in call[c].in.suppliers : s \notin Foreign
      BY <1>4, <2>1 DEF validateRelations
    <2>3. PICK r : r = [call[c] EXCEPT !.step = step]
      OBVIOUS
    <2>4. Checked(r)
      BY <1>1, <1>4, <2>1, <2>2, <2>3, StepForms DEF Checked, Relating
    <2> QED
      BY <2>2, <2>3, <2>4, GoesOn
  <1> QED
    BY <1>2, <1>3, <1>4 DEF validateRelations

LEMMA ReadVariantsSound ==
  ASSUME CatalogInv, NEW c \in Calls, readVariants(c)
  PROVE  CatalogInv'
  <1>1. Checked(call[c]) /\ CallsChecked /\ UNCHANGED <<catalog, order, stock>> /\ At(c, "updateProduct", "variants")
    BY DEF CatalogInv, CallsChecked, readVariants
  <1>2. CASE Refuse(c)
    BY <1>2, RefusalSound
  <1>3. CASE call[c].in.variants = Absent
    <2>1. Goto(c, "links")
      BY <1>3 DEF readVariants
    <2>2. PICK r : r = [call[c] EXCEPT !.step = "links"]
      OBVIOUS
    <2>3. Checked(r)
      BY <1>1, <1>3, <2>2, StepForms DEF Checked, Relating, At
    <2> QED
      BY <1>1, <2>1, <2>2, <2>3, GoesOn
  <1>4. CASE ~Refuse(c) /\ call[c].in.variants # Absent
    <2>1. PICK r : r = [call[c] EXCEPT !.step = "links", !.seen = VariantsOf(call[c].on)]
      OBVIOUS
    <2>2. call' = [call EXCEPT ![c] = r] /\ call[c].in.variants.keep \subseteq VariantsOf(call[c].on)
      BY <1>1, <1>4, <2>1 DEF readVariants, CallsChecked
    <2>3. /\ IsCatalogCall(r) /\ r.step = "links" /\ r.op = call[c].op /\ r.on = call[c].on /\ r.in = call[c].in
          /\ r.seen = VariantsOf(call[c].on)
      BY <1>1, <2>1 DEF Checked, IsCatalogCall
    <2>4. Checked(r)
      BY <1>1, <2>2, <2>3 DEF Checked, Relating, At
    <2> QED
      BY <1>1, <2>2, <2>4, QuietCall
  <1> QED
    BY <1>2, <1>3, <1>4

LEMMA DeleteLinksSound ==
  ASSUME CatalogInv, NEW c \in Calls, deleteLinks(c)
  PROVE  CatalogInv'
  <1>1. Checked(call[c]) /\ CallsChecked /\ UNCHANGED <<catalog, order, stock>> /\ At(c, "updateProduct", "links")
    BY DEF CatalogInv, CallsChecked, deleteLinks
  <1>2. PICK gone : gone = IF call[c].in.suppliers = Absent THEN {} ELSE {row \in link : row.product = call[c].on}
    OBVIOUS
  <1>3. PICK r : r = [call[c] EXCEPT !.step = "write", !.gone = gone]
    OBVIOUS
  <1>4. call' = [call EXCEPT ![c] = r]
    BY <1>1, <1>2, <1>3 DEF deleteLinks, CallsChecked
  <1>5. /\ IsCatalogCall(r) /\ r.step = "write" /\ r.op = call[c].op /\ r.on = call[c].on /\ r.in = call[c].in
        /\ r.seen = call[c].seen /\ r.gone = gone
    BY <1>1, <1>3 DEF Checked, IsCatalogCall
  <1>6. Checked(r)
    BY <1>1, <1>2, <1>5 DEF Checked, Relating, At
  <1> QED
    BY <1>1, <1>4, <1>6, QuietCall

\* The transactions that write products.
LEMMA CreateProductSound ==
  ASSUME CatalogInv, NEW c \in Calls, createProduct(c)
  PROVE  CatalogInv'
  <1>1. CASE Refuse(c)
    BY <1>1, RefusalSound
  <1>2. CASE ~Refuse(c)
    <2>1. /\ Checked(call[c]) /\ CallsChecked /\ TablesFormed /\ ForeignStands
          /\ call[c].op = "createProduct" /\ call[c].step = "write"
      BY DEF CatalogInv, CallsChecked, createProduct, At
    <2>2. PICK in : in = call[c].in
      OBVIOUS
    <2>3. PICK p \in Own(Products) \ Rows(product) :
                /\ product' = [product EXCEPT ![p] =
                       [row |-> TRUE, sku |-> Sku(in.sku), category |-> Sku(in.category), active |-> TRUE,
                        status |-> "ACTIVE", form |-> call[c].form]]
                /\ link' = link \cup Links(p, in.suppliers, c)
                /\ IF in.variants # Absent /\ in.variants.add
                   THEN \E v \in VariantsOf(None) : variant' = [variant EXCEPT ![v] = [of |-> p, active |-> TRUE]]
                   ELSE UNCHANGED variant
                /\ Done(c)
                /\ UNCHANGED <<category, supplier, customer, zone, order, stock>>
      BY <1>2, <2>2 DEF createProduct
    <2>4. p \in Products /\ p \notin Foreign /\ Sku(in.category) \notin Foreign
      BY <2>1, <2>2, IdsApart DEF Own, Checked, Relating, Sku
    <2>5. PICK new : new = [row |-> TRUE, sku |-> Sku(in.sku), category |-> Sku(in.category), active |-> TRUE,
                            status |-> "ACTIVE", form |-> call[c].form]
      OBVIOUS
    <2>6. product' = [product EXCEPT ![p] = new]
      BY <2>3, <2>5
    <2>7. product'[p] = new /\ (\A q \in Products \ {p} : product'[q] = product[q]) /\ DOMAIN product' = Products
      BY <2>1, <2>4, <2>6 DEF TablesFormed, ProductsFormed
    <2>8. ProductsFormed'
      <3>1. product' = [q \in Products |-> product'[q]]
        BY <2>1, <2>6 DEF TablesFormed, ProductsFormed
      <3> QED
        BY <2>1, <2>5, <2>7, <3>1 DEF TablesFormed, ProductsFormed
    <2>9. OwnNamesOwn'
      <3> SUFFICES ASSUME NEW q \in Products \ Foreign, product'[q].row
                   PROVE  product'[q].category \notin Foreign
        BY <2>7 DEF OwnNamesOwn, Own, Rows
      <3>1. CASE q = p
        BY <2>4, <2>5, <2>7, <3>1
      <3>2. CASE q # p
        BY <2>1, <2>7, <3>2 DEF CatalogInv, OwnNamesOwn, Own, Rows, TablesFormed, ProductsFormed
      <3> QED
        BY <3>1, <3>2
    <2>10. LinksKeepApart'
      <3>1. \A row \in Links(p, in.suppliers, c) : row.product \notin Foreign /\ row.supplier \notin Foreign
        BY <2>1, <2>2, <2>4 DEF Links, Checked, Relating
      <3> QED
        BY <2>3, <3>1 DEF CatalogInv, LinksKeepApart
    <2>11. /\ VariantsFormed' /\ VariantsKept
           /\ \A v \in Variants : variant[v].of \in Products => variant'[v] = variant[v]
      <3>1. CASE UNCHANGED variant
        BY <2>1, <3>1 DEF TablesFormed, VariantsFormed, VariantsKept
      <3>2. CASE ~UNCHANGED variant
        <4>1. PICK v \in VariantsOf(None) : variant' = [variant EXCEPT ![v] = [of |-> p, active |-> TRUE]]
          BY <2>3, <3>2
        <4>2. v \in Variants /\ variant[v].of \notin Products
          BY <4>1, IdsApart DEF VariantsOf
        <4>3. variant'[v] = [of |-> p, active |-> TRUE] /\ \A x \in Variants \ {v} : variant'[x] = variant[x]
          BY <2>1, <4>1, <4>2 DEF TablesFormed, VariantsFormed
        <4>4. variant' = [x \in Variants |-> variant'[x]]
          BY <2>1, <4>1 DEF TablesFormed, VariantsFormed
        <4> QED
          BY <2>1, <4>2, <4>3, <4>4 DEF TablesFormed, VariantsFormed, VariantsKept
      <3> QED
        BY <3>1, <3>2
    <2>12. TablesFormed'
      BY <2>1, <2>3, <2>8, <2>11 DEF TablesFormed, NamesFormed, PartiesFormed
    <2>13. ForeignStands'
      <3>1. ForeignProducts'
        BY <2>1, <2>4, <2>7 DEF ForeignStands, ForeignProducts
      <3>2. ForeignVariants'
        BY <2>1, <2>11, ForeignVariantsOf DEF ForeignStands, ForeignVariants
      <3>3. ForeignLinks'
        <4>1. \A row \in Links(p, in.suppliers, c) : row.product \notin Foreign
          BY <2>4 DEF Links
        <4> QED
          BY <2>1, <2>3, <4>1 DEF ForeignStands, ForeignLinks
      <3>4. ForeignCategories' /\ ForeignParties'
        BY <2>1, <2>3 DEF ForeignStands, ForeignCategories, ForeignParties
      <3> QED
        BY <3>1, <3>2, <3>3, <3>4 DEF ForeignStands
    <2>14. CallsChecked'
      BY <2>1, <2>3, <2>11, DoneChecked
    <2> QED
      BY <2>3, <2>9, <2>10, <2>11, <2>12, <2>13, <2>14, OrdersStay, StockStays DEF CatalogInv
  <1> QED
    BY <1>1, <1>2

\* What an update lists reaches the variants of its product only, and moves none.
LEMMA ListedVariants ==
  ASSUME TablesFormed, ForeignStands, NEW p \in Own(Products), NEW in, NEW seen, NEW fresh \in VariantsOf(None) \cup {None},
         in.variants.keep \subseteq VariantsOf(p), seen \subseteq VariantsOf(p), variant' = Listed(in, seen, p, fresh)
  PROVE  /\ VariantsFormed' /\ VariantsKept
         /\ ForeignVariants'
         /\ \A v \in Variants \ (VariantsOf(p) \cup {fresh}) : variant'[v] = variant[v]
         /\ \A v \in VariantsOf(p) : /\ v \in seen \ in.variants.keep => ~variant'[v].active
                                     /\ v \notin seen \cup in.variants.keep => variant'[v] = variant[v]
         /\ fresh \in Variants => variant'[fresh] = [of |-> p, active |-> TRUE]
  <1>1. p \in Products /\ p \notin Foreign /\ fresh \notin VariantsOf(p) /\ None \notin Variants
    BY IdsApart DEF Own, VariantsOf
  <1>2. variant' = [v \in Variants |-> variant'[v]]
    BY DEF Listed
  <1>3. \A v \in Variants : v = fresh => variant'[v] = [of |-> p, active |-> TRUE]
    <2> SUFFICES ASSUME NEW v \in Variants, v = fresh
                 PROVE  variant'[v] = [of |-> p, active |-> TRUE]
      OBVIOUS
    <2>1. v \notin in.variants.keep /\ v \notin seen
      BY <1>1
    <2> QED
      BY <2>1 DEF Listed
  <1>4. \A v \in Variants : v # fresh /\ v \in in.variants.keep /\ in.variants.active # Absent =>
            variant'[v] = [variant[v] EXCEPT !.active = in.variants.active]
    BY <1>1 DEF Listed
  <1>5. \A v \in Variants : v # fresh /\ v \in in.variants.keep /\ in.variants.active = Absent => variant'[v] = variant[v]
    BY <1>1 DEF Listed
  <1>6. \A v \in Variants : v # fresh /\ v \in seen \ in.variants.keep => variant'[v] = [variant[v] EXCEPT !.active = FALSE]
    BY <1>1 DEF Listed
  <1>7. \A v \in Variants : v # fresh /\ v \notin seen \cup in.variants.keep => variant'[v] = variant[v]
    BY <1>1 DEF Listed
  <1>8. \A v \in Variants : variant[v] = [of |-> variant[v].of, active |-> variant[v].active]
    BY DEF TablesFormed, VariantsFormed
  <1>9. ASSUME NEW v \in Variants
        PROVE  /\ variant'[v] = [of |-> variant'[v].of, active |-> variant'[v].active]
               /\ v # fresh => variant'[v].of = variant[v].of
    <2>1. CASE v = fresh
      BY <1>3, <2>1
    <2>2. CASE v # fresh /\ v \in in.variants.keep /\ in.variants.active # Absent
      BY <1>4, <1>8, <2>2
    <2>3. CASE v # fresh /\ v \in in.variants.keep /\ in.variants.active = Absent
      BY <1>5, <1>8, <2>3
    <2>4. CASE v # fresh /\ v \in seen \ in.variants.keep
      BY <1>6, <1>8, <2>4
    <2>5. CASE v # fresh /\ v \notin seen \cup in.variants.keep
      BY <1>7, <1>8, <2>5
    <2> QED
      BY <2>1, <2>2, <2>3, <2>4, <2>5
  <1>10. VariantsFormed'
    BY <1>2, <1>9 DEF VariantsFormed
  <1>11. fresh \in Variants => variant[fresh].of \notin Products
    BY <1>1, IdsApart DEF VariantsOf
  <1>12. VariantsKept
    BY <1>9, <1>11 DEF VariantsKept
  <1>13. \A v \in Variants \ (VariantsOf(p) \cup {fresh}) : variant'[v] = variant[v]
    BY <1>7
  <1>14. ForeignVariants'
    <2> SUFFICES ASSUME NEW v \in Variants \cap Foreign \cap Existing
                 PROVE  variant'[v] = FirstVariant(v)
      BY DEF ForeignVariants
    <2>1. v # fresh /\ v \notin VariantsOf(p)
      BY <1>1, <1>11, ForeignVariantsOf DEF ForeignStands, VariantsOf
    <2> QED
      BY <1>13, <2>1 DEF ForeignStands, ForeignVariants
  <1>15. ASSUME NEW v \in VariantsOf(p)
         PROVE  /\ v \in seen \ in.variants.keep => ~variant'[v].active
                /\ v \notin seen \cup in.variants.keep => variant'[v] = variant[v]
    <2>1. v \in Variants /\ v # fresh
      BY <1>1 DEF VariantsOf
    <2> QED
      BY <1>6, <1>7, <1>8, <2>1
  <1> QED
    BY <1>3, <1>10, <1>12, <1>13, <1>14, <1>15

\* A product of the callers' organization changes.
LEMMA ProductChanges ==
  ASSUME TablesFormed, OwnNamesOwn, ForeignStands, NEW p \in Own(Products), NEW new, product' = [product EXCEPT ![p] = new],
         new = [row |-> new.row, sku |-> new.sku, category |-> new.category, active |-> new.active, status |-> new.status,
                form |-> new.form],
         new.row => new.category \notin Foreign
  PROVE  ProductsFormed' /\ OwnNamesOwn' /\ ForeignProducts'
  <1>1. product'[p] = new /\ (\A q \in Products \ {p} : product'[q] = product[q]) /\ DOMAIN product' = Products
    BY DEF TablesFormed, ProductsFormed, Own
  <1>2. product' = [q \in Products |-> product'[q]]
    BY DEF TablesFormed, ProductsFormed
  <1>3. ProductsFormed'
    BY <1>1, <1>2 DEF TablesFormed, ProductsFormed
  <1>4. OwnNamesOwn'
    <2> SUFFICES ASSUME NEW q \in Products \ Foreign, product'[q].row
                 PROVE  product'[q].category \notin Foreign
      BY <1>1 DEF OwnNamesOwn, Own, Rows
    <2>1. CASE q = p
      BY <1>1, <2>1
    <2>2. CASE q # p
      BY <1>1, <2>2 DEF OwnNamesOwn, Own, Rows, TablesFormed, ProductsFormed
    <2> QED
      BY <2>1, <2>2
  <1>5. ForeignProducts'
    BY <1>1 DEF ForeignStands, ForeignProducts, Own
  <1> QED
    BY <1>3, <1>4, <1>5

LEMMA UpdateProductSound ==
  ASSUME CatalogInv, NEW c \in Calls, updateProduct(c)
  PROVE  CatalogInv'
  <1>1. CASE Refuse(c)
    BY <1>1, RefusalSound
  <1>2. CASE ~Refuse(c)
    <2>1. /\ Checked(call[c]) /\ CallsChecked /\ TablesFormed /\ ForeignStands
          /\ call[c].op = "updateProduct" /\ call[c].step = "write"
      BY DEF CatalogInv, CallsChecked, updateProduct, At
    <2>2. PICK in : in = call[c].in
      OBVIOUS
    <2>3. PICK p : p = call[c].on
      OBVIOUS
    <2>4. PICK sku, k, active, f : /\ sku = IF in.sku = Absent THEN product[p].sku ELSE in.sku
                                   /\ k = IF in.category = Absent THEN product[p].category ELSE in.category
                                   /\ active = IF in.active = Absent THEN product[p].active ELSE in.active
                                   /\ f = IF sku = product[p].sku THEN product[p].form ELSE None
      OBVIOUS
    <2>5. /\ product' = [product EXCEPT ![p].sku = sku, ![p].category = k, ![p].active = active, ![p].form = f]
          /\ link' = (link \ call[c].gone) \cup Links(p, in.suppliers, c)
          /\ \/ in.variants = Absent /\ UNCHANGED variant
             \/ /\ in.variants # Absent
                /\ \E v \in VariantsOf(None) \cup {None} : variant' = Listed(in, call[c].seen, p, v)
          /\ Done(c)
          /\ UNCHANGED <<category, supplier, customer, zone, order, stock>>
      BY <1>2, <2>1, <2>2, <2>3, <2>4 DEF updateProduct, TablesFormed, ProductsFormed
    <2>6. p \in Own(Products) /\ in.category \notin Foreign
      BY <2>1, <2>2, <2>3 DEF Checked, Relating
    <2>7. PICK new : new = [product[p] EXCEPT !.sku = sku, !.category = k, !.active = active, !.form = f]
      OBVIOUS
    <2>8. /\ new = [row |-> new.row, sku |-> new.sku, category |-> new.category, active |-> new.active,
                    status |-> new.status, form |-> new.form]
          /\ new.row = product[p].row /\ new.category = k
      <3>1. product[p] = [row |-> product[p].row, sku |-> product[p].sku, category |-> product[p].category,
                          active |-> product[p].active, status |-> product[p].status, form |-> product[p].form]
        BY <2>1, <2>6 DEF TablesFormed, ProductsFormed, Own
      <3>2. new = [row |-> product[p].row, sku |-> sku, category |-> k, active |-> active, status |-> product[p].status,
                   form |-> f]
        BY <2>7, <3>1
      <3> QED
        BY <3>2
    <2>9. new.row => new.category \notin Foreign
      BY <2>1, <2>4, <2>6, <2>8 DEF CatalogInv, OwnNamesOwn, Own, Rows, TablesFormed, ProductsFormed
    <2>10. product' = [product EXCEPT ![p] = new]
      BY <2>1, <2>5, <2>7 DEF TablesFormed, ProductsFormed
    <2>11. ProductsFormed' /\ OwnNamesOwn' /\ ForeignProducts'
      BY <2>1, <2>6, <2>8, <2>9, <2>10, ProductChanges DEF CatalogInv
    <2>12. LinksKeepApart'
      <3>1. \A row \in Links(p, in.suppliers, c) : row.product \notin Foreign /\ row.supplier \notin Foreign
        BY <2>1, <2>2, <2>6 DEF Links, Checked, Relating, Own
      <3> QED
        BY <2>5, <3>1 DEF CatalogInv, LinksKeepApart
    <2>13. VariantsFormed' /\ VariantsKept /\ ForeignVariants'
      <3>1. CASE UNCHANGED variant
        BY <2>1, <3>1 DEF TablesFormed, VariantsFormed, VariantsKept, ForeignStands, ForeignVariants
      <3>2. CASE ~UNCHANGED variant
        <4>1. PICK v \in VariantsOf(None) \cup {None} : variant' = Listed(in, call[c].seen, p, v)
          BY <2>5, <3>2
        <4>2. in.variants.keep \subseteq VariantsOf(p) /\ call[c].seen \subseteq VariantsOf(p)
          BY <2>1, <2>2, <2>3, <2>5, <3>2 DEF Checked
        <4> QED
          BY <2>1, <2>6, <4>1, <4>2, ListedVariants
      <3> QED
        BY <3>1, <3>2
    <2>14. TablesFormed'
      BY <2>1, <2>5, <2>11, <2>13 DEF TablesFormed, NamesFormed, PartiesFormed
    <2>15. ForeignStands'
      <3>1. ForeignLinks'
        <4>1. \A row \in Links(p, in.suppliers, c) \cup call[c].gone : row.product \notin Foreign
          BY <2>1, <2>3, <2>6 DEF Links, Checked, Own
        <4> QED
          BY <2>1, <2>5, <4>1 DEF ForeignStands, ForeignLinks
      <3>2. ForeignCategories' /\ ForeignParties'
        BY <2>1, <2>5 DEF ForeignStands, ForeignCategories, ForeignParties
      <3> QED
        BY <2>11, <2>13, <3>1, <3>2 DEF ForeignStands
    <2>16. CallsChecked'
      BY <2>1, <2>5, <2>13, DoneChecked
    <2> QED
      BY <2>5, <2>11, <2>12, <2>13, <2>14, <2>15, <2>16, OrdersStay, StockStays DEF CatalogInv
  <1> QED
    BY <1>1, <1>2

\* Neither variants nor links, orders or stock change.
LEMMA RestSound ==
  ASSUME CatalogInv, NEW c \in Calls, Done(c), UNCHANGED <<variant, link, order, stock>>,
         ProductsFormed', OwnNamesOwn', ForeignProducts', NamesFormed', ForeignCategories', PartiesFormed', ForeignParties'
  PROVE  CatalogInv'
  <1>1. VariantsKept /\ VariantsFormed'
    BY DEF VariantsKept, CatalogInv, TablesFormed, VariantsFormed
  <1>2. CallsChecked'
    BY <1>1, DoneChecked DEF CatalogInv
  <1>3. LinksKeepApart'
    BY DEF CatalogInv, LinksKeepApart
  <1>4. ForeignStands'
    BY DEF CatalogInv, ForeignStands, ForeignVariants, ForeignLinks
  <1> QED
    BY <1>1, <1>2, <1>3, <1>4, OrdersStay, StockStays DEF CatalogInv, TablesFormed

LEMMA DeleteProductSound ==
  ASSUME CatalogInv, NEW c \in Calls, deleteProduct(c)
  PROVE  CatalogInv'
  <1>1. CASE Refuse(c)
    BY <1>1, RefusalSound
  <1>2. CASE ~Refuse(c)
    <2>1. PICK p : p = call[c].on
      OBVIOUS
    <2>2. /\ p \in Own(Rows(product)) /\ Done(c)
          /\ product' = [product EXCEPT ![p].active = FALSE, ![p].status = "DISCONTINUED"]
          /\ UNCHANGED <<variant, link, category, supplier, customer, zone, order, stock>>
      BY <1>2, <2>1 DEF deleteProduct
    <2>3. p \in Own(Products) /\ p \in Own(Rows(product)) /\ TablesFormed /\ ForeignStands
      BY <2>2 DEF CatalogInv, TablesFormed, ProductsFormed, Own, Rows
    <2>4. PICK new : new = [product[p] EXCEPT !.active = FALSE, !.status = "DISCONTINUED"]
      OBVIOUS
    <2>5. product' = [product EXCEPT ![p] = new]
      BY <2>2, <2>3, <2>4 DEF TablesFormed, ProductsFormed
    <2>6. product[p] = [row |-> product[p].row, sku |-> product[p].sku, category |-> product[p].category,
                        active |-> product[p].active, status |-> product[p].status, form |-> product[p].form]
      BY <2>3 DEF TablesFormed, ProductsFormed, Own
    <2>7. new = [row |-> product[p].row, sku |-> product[p].sku, category |-> product[p].category, active |-> FALSE,
                 status |-> "DISCONTINUED", form |-> product[p].form]
      BY <2>4, <2>6
    <2>8. /\ new = [row |-> new.row, sku |-> new.sku, category |-> new.category, active |-> new.active,
                    status |-> new.status, form |-> new.form]
          /\ new.category \notin Foreign
      BY <2>3, <2>7 DEF CatalogInv, OwnNamesOwn
    <2>9. ProductsFormed' /\ OwnNamesOwn' /\ ForeignProducts'
      BY <2>3, <2>5, <2>8, ProductChanges DEF CatalogInv
    <2> QED
      BY <2>2, <2>3, <2>9, RestSound DEF CatalogInv, TablesFormed, NamesFormed, PartiesFormed, ForeignStands,
         ForeignCategories, ForeignParties
  <1> QED
    BY <1>1, <1>2

\* Products stay as they are.
LEMMA ProductsStay ==
  ASSUME CatalogInv, product' = product
  PROVE  ProductsFormed' /\ OwnNamesOwn' /\ ForeignProducts'
  BY DEF CatalogInv, TablesFormed, ProductsFormed, OwnNamesOwn, Rows, ForeignStands, ForeignProducts

\* A category of the callers' organization changes.
LEMMA CategoryChanges ==
  ASSUME CatalogInv, NEW k \in Own(Categories), NEW new, category' = [category EXCEPT ![k] = new], zone' = zone,
         new = [row |-> new.row, name |-> new.name, form |-> new.form]
  PROVE  NamesFormed' /\ ForeignCategories'
  <1>1. category'[k] = new /\ \A j \in Categories \ {k} : category'[j] = category[j]
    BY DEF CatalogInv, TablesFormed, NamesFormed, Own
  <1>2. category' = [j \in Categories |-> category'[j]]
    BY DEF CatalogInv, TablesFormed, NamesFormed
  <1>3. NamesFormed'
    BY <1>1, <1>2 DEF CatalogInv, TablesFormed, NamesFormed
  <1>4. ForeignCategories'
    BY <1>1 DEF CatalogInv, ForeignStands, ForeignCategories, Own
  <1> QED
    BY <1>3, <1>4

LEMMA CreateCategorySound ==
  ASSUME CatalogInv, NEW c \in Calls, createCategory(c)
  PROVE  CatalogInv'
  <1>1. CASE Refuse(c)
    BY <1>1, RefusalSound
  <1>2. CASE ~Refuse(c) /\ At(c, "createCategory", "slug")
    <2>1. Goto(c, "write") /\ UNCHANGED <<catalog, order, stock>> /\ call[c].op = "createCategory"
      BY <1>2 DEF createCategory, At
    <2>2. PICK r : r = [call[c] EXCEPT !.step = "write"]
      OBVIOUS
    <2>3. Checked(r)
      BY <2>1, <2>2, StepForms DEF CatalogInv, Checked, Relating
    <2> QED
      BY <2>1, <2>2, <2>3, GoesOn
  <1>3. CASE ~Refuse(c) /\ ~At(c, "createCategory", "slug")
    <2>1. PICK k \in Own(Categories) \ (Rows(category) \cup Existing) :
                /\ category' = [category EXCEPT ![k] = [row |-> TRUE, name |-> call[c].in, form |-> call[c].form]]
                /\ Done(c)
                /\ UNCHANGED <<product, variant, link, supplier, customer, zone, order, stock>>
      BY <1>3 DEF createCategory
    <2>2. PICK new : new = [row |-> TRUE, name |-> call[c].in, form |-> call[c].form]
      OBVIOUS
    <2>3. NamesFormed' /\ ForeignCategories'
      BY <2>1, <2>2, CategoryChanges
    <2> QED
      BY <2>1, <2>3, RestSound, ProductsStay DEF CatalogInv, TablesFormed, PartiesFormed, ForeignStands, ForeignParties
  <1> QED
    BY <1>1, <1>2, <1>3

LEMMA UpdateCategorySound ==
  ASSUME CatalogInv, NEW c \in Calls, updateCategory(c)
  PROVE  CatalogInv'
  <1>1. CASE Refuse(c)
    BY <1>1, RefusalSound
  <1>2. CASE ~Refuse(c) /\ At(c, "updateCategory", "slug")
    <2>1. Goto(c, "write") /\ UNCHANGED <<catalog, order, stock>> /\ call[c].op = "updateCategory"
      BY <1>2 DEF updateCategory, At
    <2>2. PICK r : r = [call[c] EXCEPT !.step = "write"]
      OBVIOUS
    <2>3. Checked(r)
      BY <2>1, <2>2, StepForms DEF CatalogInv, Checked, Relating
    <2> QED
      BY <2>1, <2>2, <2>3, GoesOn
  <1>3. CASE ~Refuse(c) /\ ~At(c, "updateCategory", "slug")
    <2>1. PICK k : k = call[c].on
      OBVIOUS
    <2>2. /\ k \in Own(Rows(category)) /\ Done(c)
          /\ category' = [category EXCEPT ![k].name = call[c].in,
                                          ![k].form = IF category[k].name = call[c].in THEN category[k].form ELSE None]
          /\ UNCHANGED <<product, variant, link, supplier, customer, zone, order, stock>>
      BY <1>3, <2>1 DEF updateCategory
    <2>3. k \in Own(Categories)
      BY <2>2 DEF Own, Rows, CatalogInv, TablesFormed, NamesFormed
    <2>4. PICK new : new = [category[k] EXCEPT !.name = call[c].in,
                                !.form = IF category[k].name = call[c].in THEN category[k].form ELSE None]
      OBVIOUS
    <2>5. category' = [category EXCEPT ![k] = new] /\ new = [row |-> new.row, name |-> new.name, form |-> new.form]
      BY <2>2, <2>3, <2>4 DEF CatalogInv, TablesFormed, NamesFormed, Own
    <2>6. NamesFormed' /\ ForeignCategories'
      BY <2>2, <2>3, <2>5, CategoryChanges
    <2> QED
      BY <2>2, <2>6, RestSound, ProductsStay DEF CatalogInv, TablesFormed, PartiesFormed, ForeignStands, ForeignParties
  <1> QED
    BY <1>1, <1>2, <1>3

\* A deleted category takes itself out of the products that name it.
LEMMA DeleteCategorySound ==
  ASSUME CatalogInv, NEW c \in Calls, deleteCategory(c)
  PROVE  CatalogInv'
  <1>1. CASE Refuse(c)
    BY <1>1, RefusalSound
  <1>2. CASE ~Refuse(c) /\ At(c, "deleteCategory", "count")
    <2>1. /\ Goto(c, "write") /\ UNCHANGED <<catalog, order, stock>> /\ call[c].op = "deleteCategory"
          /\ call[c].on \notin Foreign
      BY <1>2 DEF deleteCategory, At, Own
    <2>2. PICK r : r = [call[c] EXCEPT !.step = "write"]
      OBVIOUS
    <2>3. Checked(r)
      BY <2>1, <2>2, StepForms DEF CatalogInv, Checked, Relating
    <2> QED
      BY <2>1, <2>2, <2>3, GoesOn
  <1>3. CASE ~Refuse(c) /\ ~At(c, "deleteCategory", "count")
    <2>1. PICK k : k = call[c].on
      OBVIOUS
    <2>2. /\ At(c, "deleteCategory", "write") /\ category' = [category EXCEPT ![k] = NoName]
          /\ product' = [p \in Products |-> IF product[p].category = k
                                            THEN [product[p] EXCEPT !.category = None] ELSE product[p]]
          /\ Done(c) /\ UNCHANGED <<variant, link, supplier, customer, zone, order, stock>>
      BY <1>3, <2>1 DEF deleteCategory
    <2>3. k \notin Foreign
      BY <2>1, <2>2 DEF At, CatalogInv, CallsChecked, Checked
    <2>4. NamesFormed' /\ ForeignCategories'
      <3>1. CASE k \in Categories
        <4>1. PICK new : new = NoName
          OBVIOUS
        <4>2. new = [row |-> new.row, name |-> new.name, form |-> new.form]
          BY <4>1 DEF NoName
        <4> QED
          BY <2>2, <2>3, <3>1, <4>1, <4>2, CategoryChanges DEF Own
      <3>2. CASE k \notin Categories
        <4>1. category' = category
          BY <2>2, <3>2 DEF CatalogInv, TablesFormed, NamesFormed
        <4> QED
          BY <2>2, <4>1 DEF CatalogInv, TablesFormed, NamesFormed, ForeignStands, ForeignCategories
      <3> QED
        BY <3>1, <3>2
    <2>5. \A p \in Products : product[p] = [row |-> product[p].row, sku |-> product[p].sku,
                                            category |-> product[p].category, active |-> product[p].active,
                                            status |-> product[p].status, form |-> product[p].form]
      BY DEF CatalogInv, TablesFormed, ProductsFormed
    <2>6. product' = [p \in Products |-> product'[p]]
      BY <2>2
    <2>7. ASSUME NEW p \in Products
          PROVE  /\ product'[p] = [row |-> product'[p].row, sku |-> product'[p].sku, category |-> product'[p].category,
                                   active |-> product'[p].active, status |-> product'[p].status, form |-> product'[p].form]
                 /\ product'[p].row = product[p].row /\ product'[p].active = product[p].active
                 /\ product'[p].category \in {product[p].category, None}
      <3>1. CASE product[p].category = k
        <4>1. product'[p] = [product[p] EXCEPT !.category = None]
          BY <2>2, <3>1
        <4>2. product'[p] = [row |-> product[p].row, sku |-> product[p].sku, category |-> None,
                             active |-> product[p].active, status |-> product[p].status, form |-> product[p].form]
          BY <2>5, <4>1
        <4> QED
          BY <4>2
      <3>2. CASE product[p].category # k
        BY <2>2, <2>5, <3>2
      <3> QED
        BY <3>1, <3>2
    <2>8. ProductsFormed'
      BY <2>6, <2>7 DEF ProductsFormed
    <2>9. OwnNamesOwn'
      <3> SUFFICES ASSUME NEW p \in Products \ Foreign, product'[p].row
                   PROVE  product'[p].category \notin Foreign
        BY <2>6 DEF OwnNamesOwn, Own, Rows
      <3> QED
        BY <2>7, IdsApart DEF CatalogInv, OwnNamesOwn, Own, Rows, TablesFormed, ProductsFormed
    <2>10. ForeignProducts'
      <3> SUFFICES ASSUME NEW q \in Products \cap Foreign
                   PROVE  product'[q] = product[q]
        BY DEF CatalogInv, ForeignStands, ForeignProducts
      <3>1. product[q].category = None
        <4>1. product[q] = FirstProduct(q)
          BY DEF CatalogInv, ForeignStands, ForeignProducts
        <4>2. FirstProduct(q).category = None
          BY DEF FirstProduct, NoProduct
        <4> QED
          BY <4>1, <4>2
      <3>2. CASE product[q].category = k
        <4>1. product'[q] = [product[q] EXCEPT !.category = None]
          BY <2>2, <3>2
        <4> QED
          BY <2>5, <3>1, <4>1
      <3>3. CASE product[q].category # k
        BY <2>2, <3>3
      <3> QED
        BY <3>2, <3>3
    <2> QED
      BY <2>2, <2>4, <2>8, <2>9, <2>10, RestSound DEF CatalogInv, TablesFormed, PartiesFormed, ForeignStands, ForeignParties
  <1> QED
    BY <1>1, <1>2, <1>3

\* Suppliers, customers and zones.
LEMMA PartiesSound ==
  ASSUME CatalogInv, NEW c \in Calls, createSupplier(c) \/ deleteSupplier(c) \/ createCustomer(c) \/ deleteCustomer(c)
  PROVE  CatalogInv'
  <1>1. CASE Refuse(c)
    BY <1>1, RefusalSound
  <1>2. CASE ~Refuse(c)
    <2>1. /\ Done(c) /\ UNCHANGED <<product, variant, link, category, zone, order, stock>>
          /\ \/ customer' = customer /\ \E s, status : s \notin Foreign /\ supplier' = [supplier EXCEPT ![s] = status]
             \/ supplier' = supplier /\ \E d, status : d \notin Foreign /\ customer' = [customer EXCEPT ![d] = status]
      BY <1>2 DEF createSupplier, deleteSupplier, createCustomer, deleteCustomer, Own
    <2>2. PartiesFormed' /\ ForeignParties'
      <3>1. CASE customer' = customer /\ \E s, status : s \notin Foreign /\ supplier' = [supplier EXCEPT ![s] = status]
        <4>1. PICK s, status : s \notin Foreign /\ supplier' = [supplier EXCEPT ![s] = status]
          BY <3>1
        <4> QED
          BY <3>1, <4>1 DEF CatalogInv, TablesFormed, PartiesFormed, ForeignStands, ForeignParties
      <3>2. CASE supplier' = supplier /\ \E d, status : d \notin Foreign /\ customer' = [customer EXCEPT ![d] = status]
        <4>1. PICK d, status : d \notin Foreign /\ customer' = [customer EXCEPT ![d] = status]
          BY <3>2
        <4> QED
          BY <3>2, <4>1 DEF CatalogInv, TablesFormed, PartiesFormed, ForeignStands, ForeignParties
      <3> QED
        BY <2>1, <3>1, <3>2
    <2> QED
      BY <2>1, <2>2, RestSound, ProductsStay DEF CatalogInv, TablesFormed, NamesFormed, ForeignStands, ForeignCategories
  <1> QED
    BY <1>1, <1>2

LEMMA ZonesSound ==
  ASSUME CatalogInv, NEW c \in Calls, createZone(c) \/ createBin(c)
  PROVE  CatalogInv'
  <1>1. CASE Refuse(c)
    BY <1>1, RefusalSound
  <1>2. CASE ~Refuse(c)
    <2>1. PICK z \in Zones \ Rows(zone) :
                /\ zone' = [zone EXCEPT ![z] = [row |-> TRUE, name |-> call[c].in, form |-> call[c].form]]
                /\ Done(c)
                /\ UNCHANGED <<product, variant, link, category, supplier, customer, order, stock>>
      BY <1>2 DEF createZone, createBin
    <2>2. zone' = [x \in Zones |-> zone'[x]]
      BY <2>1 DEF CatalogInv, TablesFormed, NamesFormed
    <2> QED
      BY <2>1, <2>2, RestSound, ProductsStay DEF CatalogInv, TablesFormed, NamesFormed, PartiesFormed, ForeignStands,
         ForeignCategories, ForeignParties
  <1> QED
    BY <1>1, <1>2

\* Orders check what they name at one snapshot and are stored later; stock commands check and post at once.
LEMMA CheckOrderSound ==
  ASSUME CatalogInv, NEW c \in Calls, createPurchaseOrder(c) \/ createSalesOrder(c)
  PROVE  CatalogInv'
  <1>1. CASE Refuse(c)
    BY <1>1, RefusalSound
  <1>2. CASE ~Refuse(c)
    <2>1. PICK in : in = call[c].in
      OBVIOUS
    <2>2. /\ Goto(c, "store") /\ UNCHANGED <<catalog, order, stock>>
          /\ call[c].op \in {"createPurchaseOrder", "createSalesOrder"}
          /\ in.party \notin Foreign /\ Orderable(in)
      BY <1>2, <2>1 DEF createPurchaseOrder, createSalesOrder, At
    <2>3. in.product \in Own(Products) /\ OfProduct(in.variant, in.product)
      BY <2>2 DEF Orderable, OfProduct, VariantsOf, Own, Rows, CatalogInv, TablesFormed, ProductsFormed
    <2>4. PICK r : r = [call[c] EXCEPT !.step = "store"]
      OBVIOUS
    <2>5. Checked(r)
      BY <2>1, <2>2, <2>3, <2>4, StepForms DEF CatalogInv, Checked, Relating
    <2> QED
      BY <2>2, <2>4, <2>5, GoesOn
  <1> QED
    BY <1>1, <1>2

\* Products, categories, suppliers and the rest stay.
LEMMA CatalogStays ==
  ASSUME CatalogInv, UNCHANGED catalog
  PROVE  /\ TablesFormed' /\ OwnNamesOwn' /\ LinksKeepApart' /\ ForeignStands' /\ VariantsKept
         /\ \A v, p : OfProduct(v, p) => OfProduct(v, p)'
  <1>1. UNCHANGED <<product, variant, link, category, supplier, customer, zone>>
    BY DEF catalog
  <1>2. TablesFormed'
    BY <1>1 DEF CatalogInv, TablesFormed, ProductsFormed, VariantsFormed, NamesFormed, PartiesFormed
  <1>3. OwnNamesOwn' /\ LinksKeepApart' /\ ForeignStands'
    BY <1>1 DEF CatalogInv, OwnNamesOwn, Rows, LinksKeepApart, ForeignStands, ForeignProducts, ForeignVariants,
       ForeignLinks, ForeignCategories, ForeignParties
  <1> QED
    BY <1>1, <1>2, <1>3 DEF VariantsKept, OfProduct

LEMMA StoreOrderSound ==
  ASSUME CatalogInv, NEW c \in Calls, storeOrder(c)
  PROVE  CatalogInv'
  <1>1. UNCHANGED catalog /\ stock' = stock /\ Done(c)
    BY DEF storeOrder
  <1>2. PICK o : o = [by |-> c, party |-> call[c].in.party, product |-> call[c].in.product, variant |-> call[c].in.variant]
    OBVIOUS
  <1>3. order' = order \cup {o}
    BY <1>2 DEF storeOrder
  <1>4. {o.party, o.product} \cap Foreign = {} /\ OfProduct(o.variant, o.product)
    BY <1>2 DEF storeOrder, CatalogInv, CallsChecked, Checked, Own
  <1>5. \A x \in order' : {x.party, x.product} \cap Foreign = {} /\ OfProduct(x.variant, x.product)
    BY <1>3, <1>4 DEF CatalogInv, OrdersNameOwn
  <1>6. OrdersNameOwn'
    BY <1>1, <1>5, CatalogStays DEF OrdersNameOwn
  <1>7. CallsChecked'
    BY <1>1, CatalogStays, DoneChecked DEF CatalogInv
  <1> QED
    BY <1>1, <1>6, <1>7, CatalogStays, StockStays DEF CatalogInv

LEMMA PostStockSound ==
  ASSUME CatalogInv, NEW c \in Calls, validateInventoryIdentity(c)
  PROVE  CatalogInv'
  <1>1. CASE Refuse(c)
    BY <1>1, RefusalSound
  <1>2. CASE ~Refuse(c)
    <2>1. PICK in : in = call[c].in
      OBVIOUS
    <2>2. /\ in.product \in Own(Rows(product)) /\ in.warehouse \notin Foreign
          /\ in.variant # None => in.variant \in VariantsOf(in.product)
          /\ in.bin # None => Site[in.bin] = in.warehouse
          /\ stock' = stock \cup {in} /\ Done(c) /\ UNCHANGED catalog /\ order' = order
      BY <1>2, <2>1 DEF validateInventoryIdentity
    <2>3. {in.product, in.warehouse} \cap Foreign = {} /\ OfProduct(in.variant, in.product)
      BY <2>2 DEF OfProduct, VariantsOf, Own, Rows, CatalogInv, TablesFormed, ProductsFormed
    <2>4. \A s \in stock' : /\ {s.product, s.warehouse} \cap Foreign = {} /\ OfProduct(s.variant, s.product)
                            /\ s.bin # None => Site[s.bin] = s.warehouse
      BY <2>2, <2>3 DEF CatalogInv, StockNamesOwn
    <2>5. StockNamesOwn'
      BY <2>2, <2>4, CatalogStays DEF StockNamesOwn
    <2>6. CallsChecked'
      BY <2>2, CatalogStays, DoneChecked DEF CatalogInv
    <2> QED
      BY <2>2, <2>5, <2>6, CatalogStays, OrdersStay DEF CatalogInv
  <1> QED
    BY <1>1, <1>2

\* Callers and forms send.
LEMMA SendersSound ==
  ASSUME CatalogInv, NEW c \in Calls,
         \/ Send(c) \/ handleDelete(c)
         \/ \E f \in Forms : \/ handleSubmit(f, c) \/ handleCreateCategory(f, c) \/ handleCreateSupplier(f, c)
                             \/ handleCreateCustomer(f, c) \/ handleCreateZone(f, c) \/ handleCreateBin(f, c)
  PROVE  CatalogInv'
  <1>1. (\E op, on, in, f : Start(c, op, on, in, f)) /\ UNCHANGED <<catalog, order, stock>>
    BY DEF Send, handleDelete, handleSubmit, handleCreateCategory, handleCreateSupplier, handleCreateCustomer,
           handleCreateZone, handleCreateBin, Save
  <1> QED
    BY <1>1, StartSound

LEMMA CatalogNextSound == CatalogInv /\ [CatalogNext]_catalogVars => CatalogInv'
  <1> SUFFICES ASSUME CatalogInv, [CatalogNext]_catalogVars
               PROVE  CatalogInv'
    OBVIOUS
  <1>1. ASSUME UNCHANGED <<catalog, order, stock, call>>
        PROVE  CatalogInv'
    <2>1. CallsChecked'
      <3>1. ASSUME NEW c \in Calls
            PROVE  Checked(call[c])'
        <4>1. PICK r : r = call[c]
          OBVIOUS
        <4>2. Checked(r)'
          BY <1>1, <4>1, CatalogStays, CheckedStays DEF CatalogInv, CallsChecked
        <4> QED
          BY <1>1, <4>1, <4>2
      <3> QED
        BY <1>1, <3>1 DEF CatalogInv, CallsChecked
    <2> QED
      BY <1>1, <2>1, CatalogStays, OrdersStay, StockStays DEF CatalogInv
  <1>2. CASE UNCHANGED catalogVars
    BY <1>1, <1>2 DEF catalogVars
  <1>3. ASSUME NEW f \in Forms, OpenForm(f)
        PROVE  CatalogInv'
    BY <1>1, <1>3 DEF OpenForm
  <1>4. ASSUME NEW c \in Calls,
               \/ checkSku(c) \/ validateRelations(c) \/ createProduct(c) \/ readVariants(c) \/ deleteLinks(c)
               \/ updateProduct(c) \/ deleteProduct(c)
        PROVE  CatalogInv'
    BY <1>4, CheckSkuSound, ValidateRelationsSound, CreateProductSound, ReadVariantsSound, DeleteLinksSound,
       UpdateProductSound, DeleteProductSound
  <1>5. ASSUME NEW c \in Calls,
               \/ createCategory(c) \/ updateCategory(c) \/ deleteCategory(c)
               \/ createSupplier(c) \/ deleteSupplier(c) \/ createCustomer(c) \/ deleteCustomer(c)
               \/ createZone(c) \/ createBin(c)
        PROVE  CatalogInv'
    BY <1>5, CreateCategorySound, UpdateCategorySound, DeleteCategorySound, PartiesSound, ZonesSound
  <1>6. ASSUME NEW c \in Calls,
               \/ createPurchaseOrder(c) \/ createSalesOrder(c) \/ storeOrder(c) \/ validateInventoryIdentity(c)
               \/ Abort(c) \/ Answer(c)
        PROVE  CatalogInv'
    BY <1>6, CheckOrderSound, StoreOrderSound, PostStockSound, AnswerSound, RefusalSound DEF Abort
  <1>7. ASSUME NEW c \in Calls,
               \/ Send(c) \/ handleDelete(c)
               \/ \E f \in Forms : \/ handleSubmit(f, c) \/ handleCreateCategory(f, c) \/ handleCreateSupplier(f, c)
                                   \/ handleCreateCustomer(f, c) \/ handleCreateZone(f, c) \/ handleCreateBin(f, c)
        PROVE  CatalogInv'
    BY <1>7, SendersSound
  <1> QED
    BY <1>2, <1>3, <1>4, <1>5, <1>6, <1>7 DEF CatalogNext

\* Tables name what is of their organization, the other organization's records are what they were, and every call under way has
\* checked what its next step relies on: the inductive invariant of the master data.
THEOREM CatalogInvariant == CatalogSpec => []CatalogInv
  BY CatalogInitSound, CatalogNextSound, PTL DEF CatalogSpec

\* Whatever ids requests carry and however their statements interleave (products.service.ts, categories.service.ts,
\* suppliers.service.ts, customers.service.ts, orders and stock commands), nothing of one organization names a record of
\* the other, and every record of the other is what it was: not renamed, archived, linked anew, cleared or deleted.
THEOREM RecordsAlwaysStayInOrganization == CatalogSpec => []RecordsStayInOrganization
  <1>1. CatalogInv => RecordsStayInOrganization
    <2> SUFFICES ASSUME CatalogInv
                 PROVE  RecordsStayInOrganization
      OBVIOUS
    <2>1. \A o \in order : {o.party, o.product} \cap Foreign = {} /\ (o.variant # None => variant[o.variant].of = o.product)
      BY DEF CatalogInv, OrdersNameOwn, OfProduct
    <2>2. \A s \in stock : /\ {s.product, s.warehouse} \cap Foreign = {}
                           /\ s.variant # None => variant[s.variant].of = s.product
                           /\ s.bin # None => Site[s.bin] = s.warehouse
      BY DEF CatalogInv, StockNamesOwn, OfProduct
    <2>3. ForeignUntouched
      BY DEF CatalogInv, ForeignStands, ForeignProducts, ForeignVariants, ForeignLinks, ForeignCategories, ForeignParties,
         ForeignUntouched
    <2> QED
      BY <2>1, <2>2, <2>3 DEF CatalogInv, OwnNamesOwn, LinksKeepApart, RecordsStayInOrganization
  <1> QED
    BY <1>1, CatalogInvariant, PTL

----------------------------------------------------------------------------
(* Master data: calls that cross.                                          *)

\* A link was made at first or by a call that is done.
Settled(row) == row.by # None => row.by \in Calls /\ call[row.by].step = "done"

\* What a call has seen of what was there when it was sent.
Remembers(r, old, live) ==
    /\ r.op = "updateProduct" /\ r.step = "write" /\ r.in.suppliers # Absent =>
           \A row \in link : row.product = r.on /\ row \in old.links => row \in r.gone
    /\ r.op = "updateProduct" /\ r.step \in {"links", "write"} /\ r.in.variants # Absent =>
           VariantsOf(r.on) \cap old.variants \subseteq r.seen
    /\ r.op = "createPurchaseOrder" /\ r.step = "snapshot" => r.in.party \in Suppliers
    /\ r.op = "createSalesOrder" /\ r.step = "snapshot" => r.in.party \in Customers
    /\ r.step = "store" => {r.in.party, r.in.product, r.in.variant} \ {None} \subseteq live

HistoryInv ==
    /\ then = [c \in Calls |-> then[c]]
    /\ since = [c \in Calls |-> since[c]]
    /\ \A v \in Variants : variant[v].active => variant[v].of \in Products
    /\ \A row \in link : Settled(row)
    /\ \A c \in Calls : \A row \in then[c].links : Settled(row)
    /\ \A c \in Calls : \A v \in then[c].variants : v \in Variants /\ variant[v].of \in Products
    /\ \A c \in Calls : Remembers(call[c], then[c], since[c])

\* How what callers could know grows.
PastKept ==
    /\ then' = [c \in Calls |-> IF ~UnderWay(c)' THEN NoPast ELSE IF call[c].step = "none" THEN Present ELSE then[c]]
    /\ since' = [c \in Calls |-> IF UnderWay(c)' THEN since[c] \cup Active' ELSE {}]

LEMMA HistoryInitSound == HistoryInit => HistoryInv
  <1> SUFFICES ASSUME HistoryInit
               PROVE  HistoryInv
    OBVIOUS
  <1>1. ASSUME NEW v \in Variants, variant[v].active
        PROVE  variant[v].of \in Products
    <2>1. variant[v] = FirstVariant(v)
      BY DEF HistoryInit, CatalogInit
    <2>2. FirstVariant(v).of = Family[v] /\ FirstVariant(v).active = (v \in Existing)
      BY DEF FirstVariant
    <2> QED
      BY <1>1, <2>1, <2>2, OrganizationsAssumption
  <1>2. ASSUME NEW row \in link
        PROVE  Settled(row)
    <2>1. PICK pair \in Linked : row \in Links(pair[1], {pair[2]}, None)
      BY DEF HistoryInit, CatalogInit, FirstLinks
    <2>2. row.by = None
      BY <2>1 DEF Links
    <2> QED
      BY <2>2 DEF Settled
  <1>3. \A c \in Calls : Remembers(call[c], then[c], since[c])
    BY DEF HistoryInit, CatalogInit, Remembers, NoCall
  <1> QED
    BY <1>1, <1>2, <1>3 DEF HistoryInit, HistoryInv, NoPast

\* Other calls' steps take nothing from what a call has seen.
LEMMA OthersRemember ==
  ASSUME HistoryInv, PastKept, NEW c \in Calls, NEW d \in Calls \ {c}, call'[d] = call[d], VariantsKept, call[c].step # "done",
         \A row \in link' : row \in link \/ row.by = c
  PROVE  Remembers(call[d], then[d], since[d])'
  <1>1. PICK q : q = call'[d]
    OBVIOUS
  <1>2. Remembers(q, then[d], since[d])
    BY <1>1 DEF HistoryInv
  <1>3. UnderWay(d)' <=> q.step \notin {"none", "done", "refused"}
    BY <1>1 DEF UnderWay
  <1>4. CASE q.step \in {"none", "done", "refused"}
    BY <1>1, <1>4 DEF Remembers
  <1>5. CASE q.step \notin {"none", "done", "refused"}
    <2>1. then'[d] = then[d] /\ since[d] \subseteq since'[d]
      BY <1>1, <1>3, <1>5 DEF PastKept
    <2>2. \A row \in link' : row \in then[d].links => row \in link
      <3>1. \A row \in then[d].links : row.by # c
        BY IdsApart DEF HistoryInv, Settled
      <3> QED
        BY <3>1
    <2>3. \A p : VariantsOf(p)' \cap then[d].variants \subseteq VariantsOf(p)
      BY DEF HistoryInv, VariantsOf, VariantsKept
    <2>4. PICK old, live : old = then'[d] /\ live = since'[d]
      OBVIOUS
    <2>5. Remembers(q, old, live)'
      BY <1>2, <2>1, <2>2, <2>3, <2>4 DEF Remembers
    <2> QED
      BY <1>1, <2>4, <2>5
  <1> QED
    BY <1>4, <1>5

\* One call changes, and with it perhaps what is linked and which variants there are.
LEMMA HistoryStep ==
  ASSUME CatalogInv, HistoryInv, PastKept, NEW c \in Calls, NEW r, call' = [call EXCEPT ![c] = r], VariantsKept,
         \A v \in Variants : variant'[v].active => variant'[v].of \in Products,
         call[c].step = "done" => r.step = "done" /\ link' = link,
         \A row \in link' : row \in link \/ (row.by = c /\ r.step = "done"),
         NEW old, NEW live, then'[c] = old, since'[c] = live, Remembers(r, old, live)'
  PROVE  HistoryInv'
  <1>1. call'[c] = r /\ \A d \in Calls \ {c} : call'[d] = call[d]
    BY DEF CatalogInv, CallsChecked
  <1>2. then' = [d \in Calls |-> then'[d]] /\ since' = [d \in Calls |-> since'[d]]
    BY DEF PastKept
  <1>3. \A row : Settled(row) => Settled(row)'
    BY <1>1 DEF Settled
  <1>4. \A row \in link' : Settled(row)'
    BY <1>1, <1>3 DEF HistoryInv, Settled
  <1>5. ASSUME NEW d \in Calls
        PROVE  /\ \A row \in then'[d].links : Settled(row)'
               /\ \A v \in then'[d].variants : v \in Variants /\ variant'[v].of \in Products
    <2>1. then'[d] \in {NoPast, Present, then[d]}
      BY DEF PastKept
    <2>2. \A v \in then'[d].variants : v \in Variants /\ variant[v].of \in Products
      BY <2>1 DEF HistoryInv, NoPast, Present
    <2>3. \A row \in then'[d].links : Settled(row)
      BY <2>1 DEF HistoryInv, NoPast, Present
    <2> QED
      BY <1>3, <2>2, <2>3 DEF VariantsKept
  <1>6. ASSUME NEW d \in Calls
        PROVE  Remembers(call[d], then[d], since[d])'
    <2>1. CASE d = c
      <3>1. call'[d] = r /\ then'[d] = old /\ since'[d] = live
        BY <1>1, <2>1
      <3> QED
        BY <3>1
    <2>2. CASE d # c /\ call[c].step # "done"
      BY <1>1, <2>2, OthersRemember
    <2>3. CASE d # c /\ call[c].step = "done"
      <3>1. PICK q : q = call'[d]
        OBVIOUS
      <3>2. Remembers(q, then[d], since[d]) /\ link' = link
        BY <1>1, <2>3, <3>1 DEF HistoryInv
      <3>3. UnderWay(d)' <=> q.step \notin {"none", "done", "refused"}
        BY <3>1 DEF UnderWay
      <3>4. q.step \notin {"none", "done", "refused"} => then'[d] = then[d] /\ since[d] \subseteq since'[d]
        BY <1>1, <2>3, <3>1, <3>3 DEF PastKept
      <3>5. \A p : VariantsOf(p)' \cap then[d].variants \subseteq VariantsOf(p)
        BY DEF HistoryInv, VariantsOf, VariantsKept
      <3>6. PICK before, alive : before = then'[d] /\ alive = since'[d]
        OBVIOUS
      <3>7. Remembers(q, before, alive)'
        BY <3>2, <3>4, <3>5, <3>6 DEF Remembers
      <3> QED
        BY <3>1, <3>6, <3>7
    <2> QED
      BY <2>1, <2>2, <2>3
  <1> QED
    BY <1>2, <1>4, <1>5, <1>6 DEF HistoryInv

\* A call that goes on without having looked at links, variants or records to be ordered.
LEMMA QuietHistory ==
  ASSUME CatalogInv, HistoryInv, PastKept, NEW c \in Calls, NEW step, Goto(c, step), UNCHANGED <<link, variant>>,
         call[c].step # "done", step \notin {"snapshot", "store", "links"}, step = "write" => call[c].op # "updateProduct"
  PROVE  HistoryInv'
  <1>1. PICK r : r = [call[c] EXCEPT !.step = step]
    OBVIOUS
  <1>2. call' = [call EXCEPT ![c] = r]
    BY <1>1 DEF Goto, CatalogInv, CallsChecked
  <1>3. r.step = step /\ r.op = call[c].op
    BY <1>1, StepForms DEF CatalogInv
  <1>4. PICK old, live : old = then'[c] /\ live = since'[c]
    OBVIOUS
  <1>5. Remembers(r, old, live)'
    BY <1>3 DEF Remembers
  <1>6. VariantsKept /\ \A v \in Variants : variant'[v].active => variant'[v].of \in Products
    BY DEF VariantsKept, HistoryInv
  <1> QED
    BY <1>2, <1>4, <1>5, <1>6, HistoryStep

LEMMA RefusalHistory ==
  ASSUME CatalogInv, HistoryInv, PastKept, NEW c \in Calls, Refuse(c), call[c].step # "done"
  PROVE  HistoryInv'
  BY QuietHistory DEF Refuse, catalog

\* A call that stays what it was, but for who waits for it.
LEMMA SameHistory ==
  ASSUME CatalogInv, HistoryInv, PastKept, NEW c \in Calls, NEW r, call' = [call EXCEPT ![c] = r], UNCHANGED <<link, variant>>,
         r.op = call[c].op, r.step = call[c].step, r.on = call[c].on, r.in = call[c].in, r.seen = call[c].seen,
         r.gone = call[c].gone
  PROVE  HistoryInv'
  <1>1. PICK old, live : old = then'[c] /\ live = since'[c]
    OBVIOUS
  <1>2. call'[c] = r
    BY DEF CatalogInv, CallsChecked
  <1>3. r.step \in {"none", "done", "refused"} \/ (old = then[c] /\ since[c] \subseteq live)
    BY <1>1, <1>2 DEF PastKept, UnderWay
  <1>4. Remembers(r, old, live)'
    BY <1>3 DEF HistoryInv, Remembers, VariantsOf
  <1>5. VariantsKept /\ \A v \in Variants : variant'[v].active => variant'[v].of \in Products
    BY DEF VariantsKept, HistoryInv
  <1> QED
    BY <1>1, <1>4, <1>5, HistoryStep

\* A call that is sent.
LEMMA StartHistory ==
  ASSUME CatalogInv, HistoryInv, PastKept, NEW c \in Calls, NEW op, NEW on, NEW in, NEW f, Start(c, op, on, in, f),
         UNCHANGED <<link, variant>>,
         op = "createPurchaseOrder" => in.party \in Suppliers, op = "createSalesOrder" => in.party \in Customers
  PROVE  HistoryInv'
  <1>1. PICK step : step = FirstStep(op)
    OBVIOUS
  <1>2. PICK r : r = [NoCall EXCEPT !.op = op, !.step = step, !.on = on, !.in = in, !.form = f, !.awaited = f # None]
    OBVIOUS
  <1>3. call' = [call EXCEPT ![c] = r] /\ call[c].step = "none"
    BY <1>1, <1>2 DEF Start
  <1>4. r.op = op /\ r.step = step /\ r.in = in
    BY <1>2 DEF NoCall
  <1>5. step \in {"sku", "slug", "count", "snapshot", "write"} /\ (step = "write" => op # "updateProduct")
    BY <1>1 DEF FirstStep
  <1>6. PICK old, live : old = then'[c] /\ live = since'[c]
    OBVIOUS
  <1>7. Remembers(r, old, live)'
    BY <1>4, <1>5 DEF Remembers
  <1>8. VariantsKept /\ \A v \in Variants : variant'[v].active => variant'[v].of \in Products
    BY DEF VariantsKept, HistoryInv
  <1> QED
    BY <1>3, <1>6, <1>7, <1>8, HistoryStep

LEMMA SendersHistory ==
  ASSUME CatalogInv, HistoryInv, PastKept, NEW c \in Calls,
         \/ Send(c) \/ handleDelete(c)
         \/ \E f \in Forms : \/ handleSubmit(f, c) \/ handleCreateCategory(f, c) \/ handleCreateSupplier(f, c)
                             \/ handleCreateCustomer(f, c) \/ handleCreateZone(f, c) \/ handleCreateBin(f, c)
  PROVE  HistoryInv'
  <1>1. UNCHANGED <<link, variant>>
    BY DEF Send, handleDelete, handleSubmit, handleCreateCategory, handleCreateSupplier, handleCreateCustomer,
           handleCreateZone, handleCreateBin, Save, catalog
  <1>2. CASE Send(c)
    <2>1. PICK request \in Asked : Start(c, request.op, request.on, request.in, None)
      BY <1>2 DEF Send
    <2> QED
      BY <1>1, <2>1, RequestsAssumption, StartHistory
  <1>3. CASE ~Send(c)
    <2>1. \E op \in {"deleteProduct", "createProduct", "createCategory", "createSupplier", "createCustomer", "createZone", "createBin"} :
              \E on, in, f : Start(c, op, on, in, f)
      BY <1>3 DEF handleDelete, handleSubmit, handleCreateCategory, handleCreateSupplier, handleCreateCustomer,
                  handleCreateZone, handleCreateBin, Save, Kinds
    <2> QED
      BY <1>1, <2>1, StartHistory
  <1> QED
    BY <1>2, <1>3

LEMMA AnswerHistory ==
  ASSUME CatalogInv, HistoryInv, PastKept, NEW c \in Calls, Answer(c)
  PROVE  HistoryInv'
  <1>1. PICK r : r = [call[c] EXCEPT !.awaited = FALSE]
    OBVIOUS
  <1>2. call' = [call EXCEPT ![c] = r] /\ UNCHANGED <<link, variant>>
    BY <1>1 DEF Answer, CatalogInv, CallsChecked, catalog
  <1>3. /\ r.step = call[c].step /\ r.op = call[c].op /\ r.on = call[c].on /\ r.in = call[c].in
        /\ r.seen = call[c].seen /\ r.gone = call[c].gone
    BY <1>1 DEF CatalogInv, CallsChecked, Checked, IsCatalogCall
  <1> QED
    BY <1>2, <1>3, SameHistory

\* The steps that write neither links nor variants.
LEMMA TablesHistory ==
  ASSUME CatalogInv, HistoryInv, PastKept, NEW c \in Calls,
         \/ checkSku(c) \/ validateRelations(c) \/ deleteProduct(c)
         \/ createCategory(c) \/ updateCategory(c) \/ deleteCategory(c)
         \/ createSupplier(c) \/ deleteSupplier(c) \/ createCustomer(c) \/ deleteCustomer(c)
         \/ createZone(c) \/ createBin(c) \/ storeOrder(c) \/ validateInventoryIdentity(c) \/ Abort(c)
  PROVE  HistoryInv'
  <1>1. CASE checkSku(c)
    <2>1. call[c].step = "sku" /\ (Refuse(c) \/ Goto(c, "category")) /\ UNCHANGED catalog
      BY <1>1 DEF checkSku, At
    <2> QED
      BY <2>1, QuietHistory, RefusalHistory DEF catalog
  <1>2. CASE validateRelations(c)
    <2>1. CASE Refuse(c)
      BY <1>2, <2>1, RefusalHistory DEF validateRelations
    <2>2. CASE ~Refuse(c)
      <3>1. PICK step : step = IF call[c].step = "category" THEN "suppliers" ELSE IF call[c].op = "createProduct" THEN "write" ELSE "variants"
        OBVIOUS
      <3>2. call[c].step \in {"category", "suppliers"} /\ Goto(c, step) /\ UNCHANGED catalog
        BY <1>2, <2>2, <3>1 DEF validateRelations
      <3>3. step \in {"suppliers", "write", "variants"} /\ (step = "write" => call[c].op # "updateProduct")
        BY <3>1
      <3> QED
        BY <3>2, <3>3, QuietHistory DEF catalog
    <2> QED
      BY <2>1, <2>2
  <1>3. CASE createCategory(c) \/ updateCategory(c) \/ deleteCategory(c)
    <2>1. /\ call[c].step \in {"slug", "count", "write"} /\ UNCHANGED <<link, variant>>
          /\ Goto(c, "refused") \/ (Goto(c, "write") /\ call[c].op # "updateProduct") \/ Goto(c, "done")
      BY <1>3 DEF createCategory, updateCategory, deleteCategory, At, Refuse, Done, catalog
    <2> QED
      BY <2>1, QuietHistory
  <1>4. CASE \/ deleteProduct(c) \/ createSupplier(c) \/ deleteSupplier(c) \/ createCustomer(c) \/ deleteCustomer(c)
             \/ createZone(c) \/ createBin(c) \/ storeOrder(c) \/ validateInventoryIdentity(c) \/ Abort(c)
    <2>1. /\ call[c].step # "done" /\ UNCHANGED <<link, variant>>
          /\ Goto(c, "refused") \/ Goto(c, "done")
      BY <1>4 DEF deleteProduct, createSupplier, deleteSupplier, createCustomer, deleteCustomer, createZone, createBin,
                  storeOrder, validateInventoryIdentity, Abort, At, Refuse, Done, catalog
    <2> QED
      BY <2>1, QuietHistory
  <1> QED
    BY <1>1, <1>2, <1>3, <1>4

\* What an update reads of variants and links is all there is, so what was there when it was sent is among it.
LEMMA ReadVariantsHistory ==
  ASSUME CatalogInv, HistoryInv, PastKept, NEW c \in Calls, readVariants(c)
  PROVE  HistoryInv'
  <1>1. /\ Checked(call[c]) /\ CallsChecked /\ UNCHANGED <<link, variant>>
        /\ call[c].op = "updateProduct" /\ call[c].step = "variants"
    BY DEF CatalogInv, CallsChecked, readVariants, At, catalog
  <1>2. CASE Refuse(c)
    BY <1>1, <1>2, RefusalHistory
  <1>3. CASE ~Refuse(c)
    <2>1. PICK seen : seen = IF call[c].in.variants = Absent THEN call[c].seen ELSE VariantsOf(call[c].on)
      OBVIOUS
    <2>2. PICK r : r = [call[c] EXCEPT !.step = "links", !.seen = seen]
      OBVIOUS
    <2>3. /\ r.step = "links" /\ r.op = call[c].op /\ r.on = call[c].on /\ r.in = call[c].in /\ r.seen = seen
      BY <1>1, <2>2 DEF Checked, IsCatalogCall
    <2>4. call' = [call EXCEPT ![c] = r]
      <3>1. CASE call[c].in.variants = Absent
        <4>1. r = [call[c] EXCEPT !.step = "links"]
          BY <1>1, <2>1, <2>2, <3>1 DEF Checked, IsCatalogCall
        <4> QED
          BY <1>1, <1>3, <3>1, <4>1 DEF readVariants, Goto, CallsChecked
      <3>2. CASE call[c].in.variants # Absent
        BY <1>1, <1>3, <2>1, <2>2, <3>2 DEF readVariants, CallsChecked
      <3> QED
        BY <3>1, <3>2
    <2>5. PICK old, live : old = then'[c] /\ live = since'[c]
      OBVIOUS
    <2>6. r.in.variants # Absent => VariantsOf(r.on)' \cap old.variants \subseteq r.seen
      BY <1>1, <2>1, <2>3 DEF VariantsOf
    <2>7. Remembers(r, old, live)'
      BY <2>3, <2>6 DEF Remembers
    <2>8. VariantsKept /\ \A v \in Variants : variant'[v].active => variant'[v].of \in Products
      BY <1>1 DEF VariantsKept, HistoryInv
    <2> QED
      BY <1>1, <2>4, <2>5, <2>7, <2>8, HistoryStep
  <1> QED
    BY <1>2, <1>3

LEMMA DeleteLinksHistory ==
  ASSUME CatalogInv, HistoryInv, PastKept, NEW c \in Calls, deleteLinks(c)
  PROVE  HistoryInv'
  <1>1. /\ Checked(call[c]) /\ CallsChecked /\ UNCHANGED <<link, variant>>
        /\ call[c].op = "updateProduct" /\ call[c].step = "links"
    BY DEF CatalogInv, CallsChecked, deleteLinks, At, catalog
  <1>2. PICK gone : gone = IF call[c].in.suppliers = Absent THEN {} ELSE {row \in link : row.product = call[c].on}
    OBVIOUS
  <1>3. PICK r : r = [call[c] EXCEPT !.step = "write", !.gone = gone]
    OBVIOUS
  <1>4. call' = [call EXCEPT ![c] = r]
    BY <1>1, <1>2, <1>3 DEF deleteLinks, CallsChecked
  <1>5. /\ r.step = "write" /\ r.op = call[c].op /\ r.on = call[c].on /\ r.in = call[c].in /\ r.seen = call[c].seen
        /\ r.gone = gone
    BY <1>1, <1>3 DEF Checked, IsCatalogCall
  <1>6. PICK old, live : old = then'[c] /\ live = since'[c]
    OBVIOUS
  <1>7. call'[c] = r
    BY <1>1, <1>4 DEF CallsChecked
  <1>8. old = then[c]
    BY <1>1, <1>5, <1>6, <1>7 DEF PastKept, UnderWay
  <1>9. r.in.variants # Absent => VariantsOf(r.on)' \cap old.variants \subseteq r.seen
    BY <1>1, <1>5, <1>8 DEF HistoryInv, Remembers, VariantsOf
  <1>10. r.in.suppliers # Absent => \A row \in link' : row.product = r.on => row \in r.gone
    BY <1>1, <1>2, <1>5
  <1>11. Remembers(r, old, live)'
    BY <1>1, <1>5, <1>9, <1>10 DEF Remembers
  <1>12. VariantsKept /\ \A v \in Variants : variant'[v].active => variant'[v].of \in Products
    BY <1>1 DEF VariantsKept, HistoryInv
  <1> QED
    BY <1>1, <1>4, <1>6, <1>11, <1>12, HistoryStep

\* What a call that is done has written.
LEMMA WritesHistory ==
  ASSUME CatalogInv, HistoryInv, PastKept, NEW c \in Calls, Done(c), call[c].step # "done", VariantsKept,
         \A v \in Variants : variant'[v].active => variant'[v].of \in Products,
         \A row \in link' : row \in link \/ row.by = c
  PROVE  HistoryInv'
  <1>1. PICK r : r = [call[c] EXCEPT !.step = "done"]
    OBVIOUS
  <1>2. call' = [call EXCEPT ![c] = r] /\ r.step = "done"
    BY <1>1, StepForms DEF Done, Goto, CatalogInv, CallsChecked
  <1>3. PICK old, live : old = then'[c] /\ live = since'[c]
    OBVIOUS
  <1>4. Remembers(r, old, live)'
    BY <1>2 DEF Remembers
  <1> QED
    BY <1>2, <1>3, <1>4, HistoryStep

LEMMA CreateProductHistory ==
  ASSUME CatalogInv, HistoryInv, PastKept, NEW c \in Calls, createProduct(c)
  PROVE  HistoryInv'
  <1>1. call[c].step = "write" /\ TablesFormed
    BY DEF CatalogInv, createProduct, At
  <1>2. CASE Refuse(c)
    BY <1>1, <1>2, RefusalHistory
  <1>3. CASE ~Refuse(c)
    <2>1. PICK in : in = call[c].in
      OBVIOUS
    <2>2. PICK p \in Own(Products) \ Rows(product) :
                /\ link' = link \cup Links(p, in.suppliers, c)
                /\ \/ UNCHANGED variant
                   \/ \E v \in VariantsOf(None) : variant' = [variant EXCEPT ![v] = [of |-> p, active |-> TRUE]]
                /\ Done(c)
      BY <1>3, <2>1 DEF createProduct
    <2>3. p \in Products
      BY <2>2 DEF Own
    <2>4. /\ VariantsKept
          /\ \A v \in Variants : variant'[v].active => variant'[v].of \in Products
      <3>1. CASE UNCHANGED variant
        BY <3>1 DEF VariantsKept, HistoryInv
      <3>2. CASE ~UNCHANGED variant
        <4>1. PICK v \in VariantsOf(None) : variant' = [variant EXCEPT ![v] = [of |-> p, active |-> TRUE]]
          BY <2>2, <3>2
        <4>2. v \in Variants /\ variant[v].of \notin Products
          BY <4>1, IdsApart DEF VariantsOf
        <4>3. variant'[v] = [of |-> p, active |-> TRUE] /\ \A x \in Variants \ {v} : variant'[x] = variant[x]
          BY <1>1, <4>1, <4>2 DEF TablesFormed, VariantsFormed
        <4> QED
          BY <2>3, <4>2, <4>3 DEF VariantsKept, HistoryInv
      <3> QED
        BY <3>1, <3>2
    <2>5. \A row \in link' : row \in link \/ row.by = c
      BY <2>2 DEF Links
    <2> QED
      BY <1>1, <2>2, <2>4, <2>5, WritesHistory
  <1> QED
    BY <1>2, <1>3

\* What an update that is not refused writes.
LEMMA UpdateWrites ==
  ASSUME CatalogInv, NEW c \in Calls, updateProduct(c), ~Refuse(c)
  PROVE  /\ Done(c) /\ call[c].step = "write" /\ call[c].op = "updateProduct"
         /\ link' = (link \ call[c].gone) \cup Links(call[c].on, call[c].in.suppliers, c)
         /\ \/ call[c].in.variants = Absent /\ UNCHANGED variant
            \/ /\ call[c].in.variants # Absent
               /\ call[c].in.variants.keep \subseteq VariantsOf(call[c].on) /\ call[c].seen \subseteq VariantsOf(call[c].on)
               /\ \E v \in VariantsOf(None) \cup {None} : variant' = Listed(call[c].in, call[c].seen, call[c].on, v)
         /\ call[c].on \in Own(Products) /\ TablesFormed /\ ForeignStands /\ UNCHANGED order
  <1>1. /\ Checked(call[c]) /\ TablesFormed /\ ForeignStands /\ call[c].op = "updateProduct" /\ call[c].step = "write"
    BY DEF CatalogInv, CallsChecked, updateProduct, At
  <1>2. /\ link' = (link \ call[c].gone) \cup Links(call[c].on, call[c].in.suppliers, c)
        /\ \/ call[c].in.variants = Absent /\ UNCHANGED variant
           \/ /\ call[c].in.variants # Absent
              /\ \E v \in VariantsOf(None) \cup {None} : variant' = Listed(call[c].in, call[c].seen, call[c].on, v)
        /\ Done(c) /\ UNCHANGED order
    BY DEF updateProduct
  <1> QED
    BY <1>1, <1>2 DEF Checked

LEMMA UpdateProductHistory ==
  ASSUME CatalogInv, HistoryInv, PastKept, NEW c \in Calls, updateProduct(c)
  PROVE  HistoryInv'
  <1>1. call[c].step = "write"
    BY DEF updateProduct, At
  <1>2. CASE Refuse(c)
    BY <1>1, <1>2, RefusalHistory
  <1>3. CASE ~Refuse(c)
    <2>1. PICK in, p, seen : in = call[c].in /\ p = call[c].on /\ seen = call[c].seen
      OBVIOUS
    <2>2. /\ Done(c) /\ link' = (link \ call[c].gone) \cup Links(p, in.suppliers, c)
          /\ \/ UNCHANGED variant
             \/ /\ in.variants.keep \subseteq VariantsOf(p) /\ seen \subseteq VariantsOf(p)
                /\ \E v \in VariantsOf(None) \cup {None} : variant' = Listed(in, seen, p, v)
          /\ p \in Own(Products) /\ TablesFormed /\ ForeignStands
      BY <1>3, <2>1, UpdateWrites
    <2>3. /\ VariantsKept
          /\ \A v \in Variants : variant'[v].active => variant'[v].of \in Products
      <3>1. CASE UNCHANGED variant
        BY <3>1 DEF VariantsKept, HistoryInv
      <3>2. CASE ~UNCHANGED variant
        <4>1. PICK fresh \in VariantsOf(None) \cup {None} : variant' = Listed(in, seen, p, fresh)
          BY <2>2, <3>2
        <4>2. /\ VariantsKept
              /\ \A v \in Variants \ (VariantsOf(p) \cup {fresh}) : variant'[v] = variant[v]
              /\ fresh \in Variants => variant'[fresh] = [of |-> p, active |-> TRUE]
          BY <2>2, <3>2, <4>1, ListedVariants
        <4>3. p \in Products
          BY <2>2 DEF Own
        <4>4. ASSUME NEW v \in Variants, variant'[v].active
              PROVE  variant'[v].of \in Products
          <5>1. CASE v = fresh
            BY <4>2, <4>3, <5>1
          <5>2. CASE v \in VariantsOf(p)
            BY <4>2, <4>3, <5>2 DEF VariantsOf, VariantsKept
          <5>3. CASE v \notin VariantsOf(p) \cup {fresh}
            BY <4>2, <4>4, <5>3 DEF HistoryInv
          <5> QED
            BY <5>1, <5>2, <5>3
        <4> QED
          BY <4>2, <4>4
      <3> QED
        BY <3>1, <3>2
    <2>4. \A row \in link' : row \in link \/ row.by = c
      BY <2>2 DEF Links
    <2> QED
      BY <1>1, <2>2, <2>3, <2>4, WritesHistory
  <1> QED
    BY <1>2, <1>3

\* An order that goes on names what is active now.
LEMMA CheckOrderHistory ==
  ASSUME CatalogInv, HistoryInv, PastKept, NEW c \in Calls, createPurchaseOrder(c) \/ createSalesOrder(c)
  PROVE  HistoryInv'
  <1>1. call[c].step = "snapshot"
    BY DEF createPurchaseOrder, createSalesOrder, At
  <1>2. CASE Refuse(c)
    BY <1>1, <1>2, RefusalHistory
  <1>3. CASE ~Refuse(c)
    <2>1. PICK in : in = call[c].in
      OBVIOUS
    <2>2. /\ Goto(c, "store") /\ UNCHANGED <<catalog, order, stock>> /\ Orderable(in)
          /\ \/ call[c].op = "createPurchaseOrder" /\ supplier[in.party] = "ACTIVE"
             \/ call[c].op = "createSalesOrder" /\ customer[in.party] = "ACTIVE"
      BY <1>3, <2>1 DEF createPurchaseOrder, createSalesOrder, At
    <2>3. \/ in.party \in Suppliers /\ supplier[in.party] = "ACTIVE"
          \/ in.party \in Customers /\ customer[in.party] = "ACTIVE"
      BY <1>1, <2>1, <2>2 DEF HistoryInv, Remembers
    <2>4. {in.party, in.product, in.variant} \ {None} \subseteq Active
      <3>1. in.party \in Active
        BY <2>3 DEF Active
      <3>2. in.product \in Active
        BY <2>2 DEF Orderable, Own, Rows, Active, CatalogInv, TablesFormed, ProductsFormed
      <3>3. in.variant # None => in.variant \in Active
        BY <2>2 DEF Orderable, VariantsOf, Active
      <3> QED
        BY <3>1, <3>2, <3>3
    <2>5. Active' = Active /\ UNCHANGED <<link, variant>>
      BY <2>2 DEF Active, catalog
    <2>6. PICK r : r = [call[c] EXCEPT !.step = "store"]
      OBVIOUS
    <2>7. call' = [call EXCEPT ![c] = r] /\ call'[c] = r
      BY <2>2, <2>6 DEF Goto, CatalogInv, CallsChecked
    <2>8. r.step = "store" /\ r.in = in
      BY <2>1, <2>6, StepForms DEF CatalogInv
    <2>9. PICK old, live : old = then'[c] /\ live = since'[c]
      OBVIOUS
    <2>10. Active \subseteq live
      BY <2>5, <2>7, <2>8, <2>9 DEF PastKept, UnderWay
    <2>11. Remembers(r, old, live)'
      BY <2>4, <2>8, <2>10 DEF Remembers
    <2>12. VariantsKept /\ \A v \in Variants : variant'[v].active => variant'[v].of \in Products
      BY <2>5 DEF VariantsKept, HistoryInv
    <2> QED
      BY <1>1, <2>5, <2>7, <2>9, <2>11, <2>12, HistoryStep
  <1> QED
    BY <1>2, <1>3

LEMMA HistoryNextSound ==
  CatalogInv /\ HistoryInv /\ [HistoryNext]_<<catalogVars, history>> => HistoryInv'
  <1>1. ASSUME CatalogInv, HistoryInv, UNCHANGED <<catalogVars, history>>
        PROVE  HistoryInv'
    <2>1. UNCHANGED <<link, variant, call, then, since>>
      BY <1>1 DEF catalogVars, catalog, history
    <2>2. \A c \in Calls : Remembers(call[c], then[c], since[c])'
      <3> SUFFICES ASSUME NEW c \in Calls
                   PROVE  Remembers(call[c], then[c], since[c])'
        OBVIOUS
      <3>1. PICK r, old, live : r = call[c] /\ old = then[c] /\ live = since[c]
        OBVIOUS
      <3>2. Remembers(r, old, live)'
        BY <1>1, <2>1, <3>1 DEF HistoryInv, Remembers, VariantsOf
      <3> QED
        BY <2>1, <3>1, <3>2
    <2> QED
      BY <1>1, <2>1, <2>2 DEF HistoryInv, Settled
  <1>2. ASSUME CatalogInv, HistoryInv, HistoryNext
        PROVE  HistoryInv'
    <2>1. PastKept /\ CatalogNext
      BY <1>2 DEF HistoryNext, PastKept
    <2>2. ASSUME NEW c \in Calls, NEW f \in Forms, OpenForm(f)
          PROVE  HistoryInv'
      <3>1. PICK r : r = call[c]
        OBVIOUS
      <3>2. call' = [call EXCEPT ![c] = r] /\ UNCHANGED <<link, variant>>
        BY <1>2, <2>2, <3>1 DEF OpenForm, CatalogInv, CallsChecked, catalog
      <3> QED
        BY <1>2, <2>1, <3>1, <3>2, SameHistory
    <2>3. ASSUME NEW c \in Calls, createProduct(c) \/ readVariants(c) \/ deleteLinks(c) \/ updateProduct(c)
          PROVE  HistoryInv'
      BY <1>2, <2>1, <2>3, CreateProductHistory, ReadVariantsHistory, DeleteLinksHistory, UpdateProductHistory
    <2>4. ASSUME NEW c \in Calls,
                 \/ checkSku(c) \/ validateRelations(c) \/ deleteProduct(c)
                 \/ createCategory(c) \/ updateCategory(c) \/ deleteCategory(c)
                 \/ createSupplier(c) \/ deleteSupplier(c) \/ createCustomer(c) \/ deleteCustomer(c)
                 \/ createZone(c) \/ createBin(c) \/ storeOrder(c) \/ validateInventoryIdentity(c) \/ Abort(c)
          PROVE  HistoryInv'
      BY <1>2, <2>1, <2>4, TablesHistory
    <2>5. ASSUME NEW c \in Calls, createPurchaseOrder(c) \/ createSalesOrder(c) \/ Answer(c)
          PROVE  HistoryInv'
      BY <1>2, <2>1, <2>5, CheckOrderHistory, AnswerHistory
    <2>6. ASSUME NEW c \in Calls,
                 \/ Send(c) \/ handleDelete(c)
                 \/ \E f \in Forms : \/ handleSubmit(f, c) \/ handleCreateCategory(f, c) \/ handleCreateSupplier(f, c)
                                     \/ handleCreateCustomer(f, c) \/ handleCreateZone(f, c) \/ handleCreateBin(f, c)
          PROVE  HistoryInv'
      BY <1>2, <2>1, <2>6, SendersHistory
    <2> QED
      BY <2>1, <2>2, <2>3, <2>4, <2>5, <2>6 DEF CatalogNext
  <1> QED
    BY <1>1, <1>2

\* Links and variants that a call has not seen are younger than the call.
LEMMA HistoryInvariant == HistorySpec => [](CatalogInv /\ HistoryInv)
  <1>1. HistoryInit => CatalogInv /\ HistoryInv
    BY CatalogInitSound, HistoryInitSound DEF HistoryInit
  <1>2. CatalogInv /\ [HistoryNext]_<<catalogVars, history>> => CatalogInv'
    <2>1. [HistoryNext]_<<catalogVars, history>> => [CatalogNext]_catalogVars
      BY DEF HistoryNext
    <2> QED
      BY <2>1, CatalogNextSound
  <1> QED
    BY <1>1, <1>2, HistoryNextSound, PTL DEF HistorySpec

\* Only the transaction of an update ends a call that is about to write one.
LEMMA OnlyUpdatesEnd ==
  ASSUME CatalogInv, CatalogNext, NEW c \in Calls, call[c].op = "updateProduct", call[c].step = "write", call'[c].step = "done"
  PROVE  updateProduct(c) /\ ~Refuse(c)
  <1>1. \A d \in Calls : \A step : Goto(d, step) => call'[c] = IF d = c THEN [call[c] EXCEPT !.step = step] ELSE call[c]
    BY DEF Goto, CatalogInv, CallsChecked
  <1>2. \A d \in Calls : \A step : Goto(d, step) => d = c /\ step = "done"
    <2> SUFFICES ASSUME NEW d \in Calls, NEW step, Goto(d, step)
                 PROVE  d = c /\ step = "done"
      OBVIOUS
    <2>1. d = c
      BY <1>1
    <2>2. call'[c] = [call[c] EXCEPT !.step = step]
      BY <1>1, <2>1
    <2>3. call'[c].step = step
      BY <2>2, StepForms DEF CatalogInv
    <2> QED
      BY <2>1, <2>3
  <1>3. \A d \in Calls : ~Refuse(d)
    BY <1>2 DEF Refuse
  <1>4. call' # call
    OBVIOUS
  <1>5. ASSUME NEW d \in Calls, NEW op, NEW on, NEW in, NEW f, Start(d, op, on, in, f)
        PROVE  FALSE
    <2>1. d # c
      BY <1>5 DEF Start
    <2>2. call'[c] = call[c]
      BY <1>5, <2>1 DEF Start, CatalogInv, CallsChecked
    <2> QED
      BY <2>2
  <1>6. ASSUME NEW d \in Calls, Answer(d)
        PROVE  FALSE
    <2>1. call' = [call EXCEPT ![d].awaited = FALSE]
      BY <1>6 DEF Answer
    <2>2. call'[c] = call[c] \/ call'[c] = [call[c] EXCEPT !.awaited = FALSE]
      BY <2>1 DEF CatalogInv, CallsChecked
    <2>3. call'[c].step = call[c].step
      BY <2>2 DEF CatalogInv, CallsChecked, Checked, IsCatalogCall
    <2> QED
      BY <2>3
  <1>7. ASSUME NEW d \in Calls,
               \/ Send(d) \/ handleDelete(d)
               \/ \E f \in Forms : \/ handleSubmit(f, d) \/ handleCreateCategory(f, d) \/ handleCreateSupplier(f, d)
                                   \/ handleCreateCustomer(f, d) \/ handleCreateZone(f, d) \/ handleCreateBin(f, d)
        PROVE  FALSE
    <2>1. \E op, on, in, f : Start(d, op, on, in, f)
      BY <1>7 DEF Send, handleDelete, handleSubmit, handleCreateCategory, handleCreateSupplier, handleCreateCustomer,
             handleCreateZone, handleCreateBin, Save
    <2> QED
      BY <1>5, <2>1
  <1>8. ASSUME NEW d \in Calls,
               \/ checkSku(d) \/ validateRelations(d) \/ createProduct(d) \/ readVariants(d) \/ deleteLinks(d)
               \/ deleteProduct(d) \/ createCategory(d) \/ updateCategory(d) \/ deleteCategory(d)
        PROVE  FALSE
    <2>1. ASSUME readVariants(d) \/ deleteLinks(d)
          PROVE  FALSE
      <3>1. d # c
        BY <2>1 DEF readVariants, deleteLinks, At
      <3>2. call'[c] = call[c]
        BY <1>1, <1>3, <2>1, <3>1 DEF readVariants, deleteLinks, CatalogInv, CallsChecked
      <3> QED
        BY <3>2
    <2>2. ASSUME \/ checkSku(d) \/ validateRelations(d) \/ createProduct(d)
                 \/ deleteProduct(d) \/ createCategory(d) \/ updateCategory(d) \/ deleteCategory(d)
          PROVE  FALSE
      <3>1. \E step : Goto(d, step)
        BY <1>3, <2>2 DEF checkSku, validateRelations, createProduct, deleteProduct, createCategory, updateCategory,
                          deleteCategory, Done
      <3>2. d = c
        BY <1>2, <3>1
      <3> QED
        BY <2>2, <3>2 DEF checkSku, validateRelations, createProduct, deleteProduct, createCategory, updateCategory,
                          deleteCategory, At
    <2> QED
      BY <1>8, <2>1, <2>2
  <1>9. ASSUME NEW d \in Calls,
               \/ createSupplier(d) \/ deleteSupplier(d) \/ createCustomer(d) \/ deleteCustomer(d)
               \/ createZone(d) \/ createBin(d) \/ createPurchaseOrder(d) \/ createSalesOrder(d) \/ storeOrder(d)
               \/ validateInventoryIdentity(d) \/ Abort(d)
        PROVE  FALSE
    <2>1. \E step : Goto(d, step)
      BY <1>9 DEF createSupplier, deleteSupplier, createCustomer, deleteCustomer, createZone, createBin,
             createPurchaseOrder, createSalesOrder, storeOrder, validateInventoryIdentity, Abort, Done, Refuse
    <2>2. d = c
      BY <1>2, <2>1
    <2> QED
      BY <1>3, <1>9, <2>2 DEF createSupplier, deleteSupplier, createCustomer, deleteCustomer, createZone, createBin,
             createPurchaseOrder, createSalesOrder, storeOrder, validateInventoryIdentity, Abort, At
  <1>10. ASSUME NEW d \in Calls, updateProduct(d)
         PROVE  d = c
    BY <1>2, <1>3, <1>10 DEF updateProduct, Done
  <1>11. \A f \in Forms : ~OpenForm(f)
    BY <1>4 DEF OpenForm
  <1> QED
    BY <1>3, <1>6, <1>7, <1>8, <1>9, <1>10, <1>11 DEF CatalogNext

\* However updates of one product cross, the links and variants that one of them found when it was sent and does not
\* list are gone when it is stored.
THEOREM LaterListsAlwaysWin == HistorySpec => LaterListsWin
  <1>1. ASSUME CatalogInv, HistoryInv, HistoryNext, NEW c \in Calls,
               call[c].op = "updateProduct", call[c].step = "write", call'[c].step = "done"
        PROVE  /\ call[c].in.suppliers # Absent =>
                      \A row \in link' : row.product = call[c].on => row.by = c \/ row \notin then[c].links
               /\ call[c].in.variants # Absent =>
                      \A v \in VariantsOf(call[c].on) :
                          variant'[v].active => v \in call[c].in.variants.keep \/ v \notin then[c].variants
    <2>1. updateProduct(c) /\ ~Refuse(c)
      BY <1>1, OnlyUpdatesEnd DEF HistoryNext
    <2>2. PICK in, p, seen : in = call[c].in /\ p = call[c].on /\ seen = call[c].seen
      OBVIOUS
    <2>3. /\ link' = (link \ call[c].gone) \cup Links(p, in.suppliers, c)
          /\ in.variants # Absent =>
                 /\ in.variants.keep \subseteq VariantsOf(p) /\ seen \subseteq VariantsOf(p)
                 /\ \E v \in VariantsOf(None) \cup {None} : variant' = Listed(in, seen, p, v)
          /\ p \in Own(Products) /\ TablesFormed /\ ForeignStands
      BY <1>1, <2>1, <2>2, UpdateWrites
    <2>4. /\ in.suppliers # Absent => \A row \in link : row.product = p /\ row \in then[c].links => row \in call[c].gone
          /\ in.variants # Absent => VariantsOf(p) \cap then[c].variants \subseteq seen
      BY <1>1, <2>2 DEF HistoryInv, Remembers
    <2>5. in.suppliers # Absent => \A row \in link' : row.product = p => row.by = c \/ row \notin then[c].links
      BY <2>3, <2>4 DEF Links
    <2>6. ASSUME in.variants # Absent, NEW v \in VariantsOf(p), variant'[v].active
          PROVE  v \in in.variants.keep \/ v \notin then[c].variants
      <3>1. PICK fresh \in VariantsOf(None) \cup {None} : variant' = Listed(in, seen, p, fresh)
        BY <2>3, <2>6
      <3>2. v \in seen \ in.variants.keep => ~variant'[v].active
        BY <2>3, <2>6, <3>1, ListedVariants
      <3> QED
        BY <2>4, <2>6, <3>2
    <2> QED
      BY <2>2, <2>5, <2>6
  <1>2. CatalogInv /\ HistoryInv /\ [HistoryNext]_<<catalogVars, history>> =>
            [\A c \in Calls :
                 call[c].op = "updateProduct" /\ call[c].step = "write" /\ call'[c].step = "done" =>
                     LET in == call[c].in  p == call[c].on
                     IN  /\ in.suppliers # Absent =>
                                \A row \in link' : row.product = p => row.by = c \/ row \notin then[c].links
                         /\ in.variants # Absent =>
                                \A v \in VariantsOf(p) :
                                    variant'[v].active => v \in in.variants.keep \/ v \notin then[c].variants]_<<catalogVars, history>>
    BY <1>1
  <1> QED
    BY <1>2, HistoryInvariant, PTL DEF HistorySpec, LaterListsWin

\* No order is stored for a record that was deactivated before the order was asked for, though orders are checked
\* before they are stored.
THEOREM NewOrdersAlwaysNameLiveRecords == HistorySpec => NewOrdersNameLiveRecords
  <1>1. ASSUME HistoryInv, HistoryNext, NEW o \in order' \ order
        PROVE  {o.party, o.product, o.variant} \ {None} \subseteq since[o.by] \cup Active
    <2>1. PICK c \in Calls : storeOrder(c)
      <3>1. order' # order
        BY <1>1
      <3>2. \A c : ~(UNCHANGED <<catalog, order, stock>>) /\ ~Refuse(c)
        BY <3>1 DEF Refuse
      <3>3. ASSUME NEW c \in Calls,
                   \/ checkSku(c) \/ validateRelations(c) \/ createProduct(c) \/ readVariants(c) \/ deleteLinks(c)
                   \/ updateProduct(c) \/ deleteProduct(c) \/ createCategory(c) \/ updateCategory(c) \/ deleteCategory(c)
            PROVE  FALSE
        BY <3>1, <3>2, <3>3 DEF checkSku, validateRelations, createProduct, readVariants, deleteLinks,
             updateProduct, deleteProduct, createCategory, updateCategory, deleteCategory
      <3>4. ASSUME NEW c \in Calls,
                   \/ createSupplier(c) \/ deleteSupplier(c) \/ createCustomer(c) \/ deleteCustomer(c)
                   \/ createZone(c) \/ createBin(c) \/ createPurchaseOrder(c) \/ createSalesOrder(c)
                   \/ validateInventoryIdentity(c) \/ Abort(c) \/ Answer(c)
            PROVE  FALSE
        BY <3>1, <3>2, <3>4 DEF createSupplier, deleteSupplier, createCustomer, deleteCustomer, createZone, createBin,
             createPurchaseOrder, createSalesOrder, validateInventoryIdentity, Abort, Answer
      <3>5. ASSUME NEW c \in Calls,
                   \/ Send(c) \/ handleDelete(c)
                   \/ \E f \in Forms : \/ OpenForm(f) \/ handleSubmit(f, c) \/ handleCreateCategory(f, c)
                                       \/ handleCreateSupplier(f, c) \/ handleCreateCustomer(f, c)
                                       \/ handleCreateZone(f, c) \/ handleCreateBin(f, c)
            PROVE  FALSE
        BY <3>2, <3>5 DEF Send, handleDelete, OpenForm, handleSubmit, handleCreateCategory, handleCreateSupplier,
             handleCreateCustomer, handleCreateZone, handleCreateBin, Save
      <3> QED
        BY <1>1, <3>3, <3>4, <3>5 DEF HistoryNext, CatalogNext
    <2>2. PICK new : new = [by |-> c, party |-> call[c].in.party, product |-> call[c].in.product, variant |-> call[c].in.variant]
      OBVIOUS
    <2>3. o = new /\ call[c].step = "store"
      BY <1>1, <2>1, <2>2 DEF storeOrder
    <2>4. {call[c].in.party, call[c].in.product, call[c].in.variant} \ {None} \subseteq since[c]
      BY <1>1, <2>3 DEF HistoryInv, Remembers
    <2> QED
      BY <2>2, <2>3, <2>4
  <1>2. HistoryInv /\ [HistoryNext]_<<catalogVars, history>> =>
            [\A o \in order' \ order :
                 {o.party, o.product, o.variant} \ {None} \subseteq since[o.by] \cup Active]_<<catalogVars, history>>
    BY <1>1
  <1> QED
    BY <1>2, HistoryInvariant, PTL DEF HistorySpec, NewOrdersNameLiveRecords

----------------------------------------------------------------------------
(* Master data: forms.                                                     *)

FormsFormed ==
    /\ form = [f \in Forms |-> form[f]]
    /\ \A f \in Forms : /\ form[f] = [kind |-> form[f].kind, name |-> form[f].name, state |-> form[f].state]
                        /\ form[f].state # "new" => form[f].name \in Names \cup {Blank}

\* What was typed in a form stays.
FormsKept == \A f \in Forms : form[f].state # "new" => form'[f].state # "new" /\ form'[f].name = form[f].name

Submitted(f) == f # None => f \in Forms /\ form[f].state # "new"

\* A form asks for the name that was typed, and what it creates has that name.
Typed(f, name) == Submitted(f) /\ (f # None => form[f].name = name)

FromForm(r) ==
    /\ Submitted(r.form)
    /\ r.op = "createProduct" => r.form = None \/ Typed(r.form, r.in.sku)
    /\ r.op \in {"createCategory", "createZone"} => Typed(r.form, r.in)

ProductsTyped ==
    \A p \in Products : /\ product[p].row => Typed(product[p].form, product[p].sku)
                        /\ product[p].row /\ product[p].form # None => p \notin Foreign \cup Existing
                        /\ p \in Existing => product[p].row

CategoriesTyped ==
    \A k \in Categories : /\ category[k].row => Typed(category[k].form, category[k].name)
                          /\ category[k].row /\ category[k].form # None => k \notin Foreign \cup Existing

ZonesTyped == \A z \in Zones : zone[z].row => Typed(zone[z].form, zone[z].name)

CreatedOnce(table) == \A x, y \in Rows(table) : table[x].form = table[y].form /\ table[x].form # None => x = y

FormsInv ==
    /\ FormsFormed
    /\ \A c \in Calls : FromForm(call[c])
    /\ ProductsTyped /\ CategoriesTyped /\ ZonesTyped
    /\ CreatedOnce(product) /\ CreatedOnce(category) /\ CreatedOnce(zone)

LEMMA TypedStays ==
  ASSUME FormsKept
  PROVE  /\ \A f : Submitted(f) => Submitted(f)'
         /\ \A f, name : Typed(f, name) => Typed(f, name)'
  BY DEF FormsKept, Submitted, Typed

LEMMA FromFormStays ==
  ASSUME FormsKept, NEW r, FromForm(r)
  PROVE  FromForm(r)'
  BY TypedStays DEF FromForm

\* One call changes.
LEMMA FormsStep ==
  ASSUME CatalogInv, FormsInv, FormsFormed', FormsKept, NEW c \in Calls, NEW r, call' = [call EXCEPT ![c] = r], FromForm(r)',
         ProductsTyped', CategoriesTyped', ZonesTyped', CreatedOnce(product)', CreatedOnce(category)', CreatedOnce(zone)'
  PROVE  FormsInv'
  <1>1. call'[c] = r /\ \A d \in Calls \ {c} : call'[d] = call[d]
    BY DEF CatalogInv, CallsChecked
  <1>2. ASSUME NEW d \in Calls
        PROVE  FromForm(call[d])'
    <2>1. CASE d = c
      BY <1>1, <2>1
    <2>2. CASE d # c
      <3>1. PICK q : q = call'[d]
        OBVIOUS
      <3>2. FromForm(q)
        BY <1>1, <2>2, <3>1 DEF FormsInv
      <3>3. FromForm(q)'
        BY <3>2, FromFormStays
      <3> QED
        BY <3>1, <3>3
    <2> QED
      BY <2>1, <2>2
  <1> QED
    BY <1>2 DEF FormsInv

\* Products that keep their names and their forms, or have no form from now on.
LEMMA ProductsKeepForms ==
  ASSUME CatalogInv, FormsInv, FormsKept, DOMAIN product' = Products,
         \A p \in Products : /\ product'[p].row = product[p].row
                             /\ \/ product'[p].form = product[p].form /\ product'[p].sku = product[p].sku
                                \/ product'[p].form = None
  PROVE  ProductsTyped' /\ CreatedOnce(product)'
  <1>1. ASSUME NEW p \in Products, product'[p].row
        PROVE  Typed(product[p].form, product[p].sku)'
    <2>1. PICK f, sku : f = product'[p].form /\ sku = product'[p].sku
      OBVIOUS
    <2>2. Typed(f, sku)
      <3>1. CASE f = None
        BY <3>1 DEF Typed, Submitted
      <3>2. CASE f # None
        BY <1>1, <2>1, <3>2 DEF FormsInv, ProductsTyped
      <3> QED
        BY <3>1, <3>2
    <2>3. Typed(f, sku)'
      BY <2>2, TypedStays
    <2> QED
      BY <2>1, <2>3
  <1>2. \A p \in Products : /\ product'[p].row /\ product'[p].form # None => p \notin Foreign \cup Existing
                            /\ p \in Existing => product'[p].row
    BY DEF FormsInv, ProductsTyped
  <1>3. CreatedOnce(product)'
    BY DEF FormsInv, CreatedOnce, Rows, CatalogInv, TablesFormed, ProductsFormed
  <1> QED
    BY <1>1, <1>2, <1>3 DEF ProductsTyped

LEMMA CategoriesKeepForms ==
  ASSUME FormsInv, FormsKept, category' = category
  PROVE  CategoriesTyped' /\ CreatedOnce(category)'
  <1>1. ASSUME NEW k \in Categories, category[k].row
        PROVE  Typed(category[k].form, category[k].name)'
    <2>1. PICK f, name : f = category'[k].form /\ name = category'[k].name
      OBVIOUS
    <2>2. Typed(f, name)'
      BY <1>1, <2>1, TypedStays DEF FormsInv, CategoriesTyped
    <2> QED
      BY <2>1, <2>2
  <1> QED
    BY <1>1 DEF FormsInv, CategoriesTyped, CreatedOnce, Rows

LEMMA ZonesKeepForms ==
  ASSUME FormsInv, FormsKept, zone' = zone
  PROVE  ZonesTyped' /\ CreatedOnce(zone)'
  <1>1. ASSUME NEW z \in Zones, zone[z].row
        PROVE  Typed(zone[z].form, zone[z].name)'
    <2>1. PICK f, name : f = zone'[z].form /\ name = zone'[z].name
      OBVIOUS
    <2>2. Typed(f, name)'
      BY <1>1, <2>1, TypedStays DEF FormsInv, ZonesTyped
    <2> QED
      BY <2>1, <2>2
  <1> QED
    BY <1>1 DEF FormsInv, ZonesTyped, CreatedOnce, Rows

\* A step of a call that creates nothing that has a form.
LEMMA QuietForms ==
  ASSUME CatalogInv, FormsInv, FormsFormed', FormsKept, NEW c \in Calls, NEW r, call' = [call EXCEPT ![c] = r], FromForm(r)',
         UNCHANGED <<product, category, zone>>
  PROVE  FormsInv'
  <1>1. ProductsTyped' /\ CreatedOnce(product)'
    BY ProductsKeepForms DEF CatalogInv, TablesFormed, ProductsFormed
  <1> QED
    BY <1>1, CategoriesKeepForms, ZonesKeepForms, FormsStep

\* Forms stay what they are.
LEMMA FormsStay ==
  ASSUME FormsInv, form' = form
  PROVE  FormsKept /\ FormsFormed'
  BY DEF FormsInv, FormsKept, FormsFormed

\* A call that goes on is from the form it was from.
LEMMA GoesOnFromForm ==
  ASSUME CatalogInv, FormsInv, NEW c \in Calls, NEW step, Goto(c, step), form' = form
  PROVE  \E r : call' = [call EXCEPT ![c] = r] /\ FromForm(r)'
  <1>1. PICK r : r = [call[c] EXCEPT !.step = step]
    OBVIOUS
  <1>2. call' = [call EXCEPT ![c] = r]
    BY <1>1 DEF Goto, CatalogInv, CallsChecked
  <1>3. r.op = call[c].op /\ r.on = call[c].on /\ r.in = call[c].in /\ r.form = call[c].form
    BY <1>1, StepForms DEF CatalogInv
  <1>4. FromForm(r)
    BY <1>3 DEF FormsInv, FromForm
  <1> QED
    BY <1>2, <1>4, FromFormStays, FormsStay

LEMMA GoesOnForms ==
  ASSUME CatalogInv, FormsInv, NEW c \in Calls, NEW step, Goto(c, step), UNCHANGED <<product, category, zone, form>>
  PROVE  FormsInv'
  <1>1. PICK r : call' = [call EXCEPT ![c] = r] /\ FromForm(r)'
    BY GoesOnFromForm
  <1> QED
    BY <1>1, FormsStay, QuietForms

LEMMA InitForms == CatalogInit => FormsInv
  <1> SUFFICES ASSUME CatalogInit
               PROVE  FormsInv
    OBVIOUS
  <1>1. FormsFormed
    BY DEF CatalogInit, FormsFormed, ClosedForm
  <1>2. \A c \in Calls : FromForm(call[c])
    BY DEF CatalogInit, NoCall, FromForm, Submitted
  <1>3. \A p \in Products : product[p].form = None /\ (p \in Existing => product[p].row)
    BY DEF CatalogInit, FirstProduct, NoProduct
  <1>4. \A k \in Categories : category[k].form = None
    BY DEF CatalogInit, FirstCategory, NoName
  <1>5. \A z \in Zones : zone[z].form = None
    BY DEF CatalogInit, NoName
  <1>6. ProductsTyped /\ CategoriesTyped /\ ZonesTyped
    BY <1>3, <1>4, <1>5 DEF ProductsTyped, CategoriesTyped, ZonesTyped, Typed, Submitted
  <1>7. CreatedOnce(product) /\ CreatedOnce(category) /\ CreatedOnce(zone)
    BY <1>3, <1>4, <1>5 DEF CreatedOnce, Rows, CatalogInit
  <1> QED
    BY <1>1, <1>2, <1>6, <1>7 DEF FormsInv

\* A call that is sent, from a form or not.
LEMMA StartForms ==
  ASSUME CatalogInv, FormsInv, FormsFormed', FormsKept, NEW c \in Calls, NEW op, NEW on, NEW in, NEW f, Start(c, op, on, in, f),
         UNCHANGED <<product, category, zone>>, Submitted(f)',
         op = "createProduct" => f = None \/ Typed(f, in.sku)', op \in {"createCategory", "createZone"} => Typed(f, in)'
  PROVE  FormsInv'
  <1>1. PICK step : step = FirstStep(op)
    OBVIOUS
  <1>2. PICK r : r = [NoCall EXCEPT !.op = op, !.step = step, !.on = on, !.in = in, !.form = f, !.awaited = f # None]
    OBVIOUS
  <1>3. call' = [call EXCEPT ![c] = r]
    BY <1>1, <1>2 DEF Start
  <1>4. r.op = op /\ r.on = on /\ r.in = in /\ r.form = f
    BY <1>2 DEF NoCall
  <1>5. FromForm(r)'
    BY <1>4 DEF FromForm
  <1> QED
    BY <1>3, <1>5, QuietForms

LEMMA SendForms ==
  ASSUME CatalogInv, FormsInv, NEW c \in Calls, Send(c) \/ handleDelete(c)
  PROVE  FormsInv'
  <1>1. PICK op, on, in : Start(c, op, on, in, None)
    BY DEF Send, handleDelete
  <1>2. UNCHANGED <<product, category, zone, form>>
    BY DEF Send, handleDelete, catalog
  <1>3. Submitted(None)' /\ Typed(None, in)'
    BY DEF Submitted, Typed
  <1> QED
    BY <1>1, <1>2, <1>3, FormsStay, StartForms

\* A form that is submitted.
LEMMA SubmitForms ==
  ASSUME CatalogInv, FormsInv, NEW f \in Forms, NEW c \in Calls,
         \/ handleSubmit(f, c) \/ handleCreateCategory(f, c) \/ handleCreateSupplier(f, c)
         \/ handleCreateCustomer(f, c) \/ handleCreateZone(f, c) \/ handleCreateBin(f, c)
  PROVE  FormsInv'
  <1>1. UNCHANGED <<product, category, zone>> /\ form' = [form EXCEPT ![f].state = "saving"] /\ form[f].state # "new"
    BY DEF handleSubmit, handleCreateCategory, handleCreateSupplier, handleCreateCustomer, handleCreateZone, handleCreateBin,
           Save, catalog
  <1>2. PICK name : name = form[f].name
    OBVIOUS
  <1>3. \E op, in : /\ Start(c, op, None, in, f)
                    /\ op = "createProduct" => in.sku = name
                    /\ op \in {"createCategory", "createZone"} => in = name
    <2>1. CASE handleSubmit(f, c)
      <3>1. PICK k : Start(c, "createProduct", None,
                           [sku |-> FormSku(form[f].name), category |-> k, suppliers |-> Absent, variants |-> Absent], f)
        BY <2>1 DEF handleSubmit
      <3>2. PICK in : in = [sku |-> FormSku(form[f].name), category |-> k, suppliers |-> Absent, variants |-> Absent]
        OBVIOUS
      <3>3. in.sku = name
        BY <1>2, <3>2 DEF FormSku
      <3> QED
        BY <3>1, <3>2, <3>3
    <2>2. CASE ~handleSubmit(f, c)
      BY <1>2, <2>2 DEF handleCreateCategory, handleCreateSupplier, handleCreateCustomer, handleCreateZone, handleCreateBin,
                        Save, Kinds
    <2> QED
      BY <2>1, <2>2
  <1>4. PICK op, in : /\ Start(c, op, None, in, f)
                      /\ op = "createProduct" => in.sku = name
                      /\ op \in {"createCategory", "createZone"} => in = name
    BY <1>3
  <1>5. /\ form' = [g \in Forms |-> form'[g]] /\ (\A g \in Forms \ {f} : form'[g] = form[g])
        /\ form'[f] = [kind |-> form[f].kind, name |-> name, state |-> "saving"]
    <2>1. form[f] = [kind |-> form[f].kind, name |-> form[f].name, state |-> form[f].state]
      BY DEF FormsInv, FormsFormed
    <2>2. form'[f] = [form[f] EXCEPT !.state = "saving"]
      BY <1>1 DEF FormsInv, FormsFormed
    <2> QED
      BY <1>1, <1>2, <2>1, <2>2 DEF FormsInv, FormsFormed
  <1>6. FormsKept /\ FormsFormed'
    <2>1. form'[f].name = name /\ form'[f].state = "saving" /\ name \in Names \cup {Blank}
      BY <1>1, <1>2, <1>5 DEF FormsInv, FormsFormed
    <2>2. FormsKept
      BY <1>2, <1>5, <2>1 DEF FormsKept
    <2>3. ASSUME NEW g \in Forms
          PROVE  /\ form'[g] = [kind |-> form'[g].kind, name |-> form'[g].name, state |-> form'[g].state]
                 /\ form'[g].state # "new" => form'[g].name \in Names \cup {Blank}
      <3>1. CASE g = f
        BY <1>5, <2>1, <3>1
      <3>2. CASE g # f
        BY <1>5, <3>2 DEF FormsInv, FormsFormed
      <3> QED
        BY <3>1, <3>2
    <2> QED
      BY <1>5, <2>2, <2>3 DEF FormsFormed
  <1>7. Submitted(f)' /\ Typed(f, name)'
    BY <1>5 DEF Submitted, Typed
  <1> QED
    BY <1>1, <1>4, <1>6, <1>7, StartForms

LEMMA OpenFormForms ==
  ASSUME CatalogInv, FormsInv, NEW f \in Forms, OpenForm(f), NEW c \in Calls
  PROVE  FormsInv'
  <1>1. PICK kind, name : name \in Names \cup {Blank} /\ form' = [form EXCEPT ![f] = [kind |-> kind, name |-> name, state |-> "open"]]
    BY DEF OpenForm
  <1>2. form[f].state = "new" /\ UNCHANGED <<product, category, zone, call>>
    BY DEF OpenForm, catalog
  <1>3. PICK new : new = [kind |-> kind, name |-> name, state |-> "open"]
    OBVIOUS
  <1>4. form'[f] = new /\ (\A g \in Forms \ {f} : form'[g] = form[g]) /\ form' = [g \in Forms |-> form'[g]]
    BY <1>1, <1>3 DEF FormsInv, FormsFormed
  <1>5. new = [kind |-> new.kind, name |-> new.name, state |-> new.state] /\ new.name \in Names \cup {Blank}
    BY <1>1, <1>3
  <1>6. FormsKept /\ FormsFormed'
    BY <1>2, <1>4, <1>5 DEF FormsKept, FormsInv, FormsFormed
  <1>7. PICK r : r = call[c]
    OBVIOUS
  <1>8. call' = [call EXCEPT ![c] = r]
    BY <1>2, <1>7 DEF CatalogInv, CallsChecked
  <1>9. FromForm(r)
    BY <1>7 DEF FormsInv
  <1> QED
    BY <1>2, <1>6, <1>8, <1>9, FromFormStays, QuietForms

LEMMA AnswerForms ==
  ASSUME CatalogInv, FormsInv, NEW c \in Calls, Answer(c)
  PROVE  FormsInv'
  <1>1. PICK r : r = [call[c] EXCEPT !.awaited = FALSE]
    OBVIOUS
  <1>2. call' = [call EXCEPT ![c] = r] /\ UNCHANGED <<product, category, zone>>
    BY <1>1 DEF Answer, CatalogInv, CallsChecked, catalog
  <1>3. r.op = call[c].op /\ r.on = call[c].on /\ r.in = call[c].in /\ r.form = call[c].form
    BY <1>1 DEF CatalogInv, CallsChecked, Checked, IsCatalogCall
  <1>4. FromForm(r)
    BY <1>3 DEF FormsInv, FromForm
  <1>5. PICK f, state : /\ f = call[c].form
                        /\ state = IF call[c].step = "done" THEN "closed" ELSE IF form[f].state = "saving" THEN "open" ELSE form[f].state
    OBVIOUS
  <1>6. form' = [form EXCEPT ![f].state = state]
    <2>1. CASE f \in Forms
      BY <1>5, <2>1 DEF Answer, FormsInv, FormsFormed
    <2>2. CASE f \notin Forms
      BY <1>5, <2>2 DEF Answer, FormsInv, FormsFormed
    <2> QED
      BY <2>1, <2>2
  <1>7. FormsKept /\ FormsFormed'
    <2>1. CASE f \notin Forms
      <3>1. form' = form
        BY <1>6, <2>1 DEF FormsInv, FormsFormed
      <3> QED
        BY <3>1, FormsStay
    <2>2. CASE f \in Forms
      <3>1. form[f].state # "new"
        BY <1>5, <2>2, IdsApart DEF FormsInv, FromForm, Submitted
      <3>2. state # "new"
        BY <1>5, <3>1
      <3>3. PICK new : new = [form[f] EXCEPT !.state = state]
        OBVIOUS
      <3>4. form' = [form EXCEPT ![f] = new]
        BY <1>6, <2>2, <3>3 DEF FormsInv, FormsFormed
      <3>5. new = [kind |-> form[f].kind, name |-> form[f].name, state |-> state]
        BY <2>2, <3>3 DEF FormsInv, FormsFormed
      <3>6. form'[f] = new /\ (\A g \in Forms \ {f} : form'[g] = form[g]) /\ form' = [g \in Forms |-> form'[g]]
        BY <2>2, <3>4 DEF FormsInv, FormsFormed
      <3>7. new = [kind |-> new.kind, name |-> new.name, state |-> new.state] /\ new.name = form[f].name /\ new.state # "new"
        BY <3>2, <3>5
      <3> QED
        BY <3>1, <3>6, <3>7 DEF FormsKept, FormsInv, FormsFormed
    <2> QED
      BY <2>1, <2>2
  <1>8. FromForm(r)'
    BY <1>4, <1>7, FromFormStays
  <1> QED
    BY <1>2, <1>7, <1>8, QuietForms

\* What a form asks to create is named as it was typed, and no other record of the form has another name.
LEMMA NamesTyped ==
  ASSUME FormsInv, NEW f, f # None, NEW name, Typed(f, name)
  PROVE  name \in Names \cup {Blank} /\ name # None /\ name # Absent
  BY IdsApart DEF Typed, Submitted, FormsInv, FormsFormed

LEMMA CreateProductForms ==
  ASSUME CatalogInv, FormsInv, NEW c \in Calls, createProduct(c)
  PROVE  FormsInv'
  <1>1. CASE Refuse(c)
    BY <1>1, GoesOnForms DEF Refuse, createProduct, catalog
  <1>2. CASE ~Refuse(c)
    <2>1. PICK in, f : in = call[c].in /\ f = call[c].form
      OBVIOUS
    <2>2. PICK p \in Own(Products) \ Rows(product) :
                /\ product' = [product EXCEPT ![p] =
                       [row |-> TRUE, sku |-> Sku(in.sku), category |-> Sku(in.category), active |-> TRUE,
                        status |-> "ACTIVE", form |-> f]]
                /\ Done(c) /\ UNCHANGED <<category, zone, form>>
      BY <1>2, <2>1 DEF createProduct
    <2>3. SkuFree(None, Sku(in.sku)) /\ call[c].op = "createProduct"
      BY <1>2, <2>1 DEF createProduct, At
    <2>4. /\ p \in Products /\ p \notin Foreign /\ product = [q \in Products |-> product[q]] /\ None \notin Products
      BY <2>2, IdsApart DEF Own, CatalogInv, TablesFormed, ProductsFormed
    <2>5. ~product[p].row
      BY <2>2, <2>4 DEF Rows
    <2>6. p \notin Existing
      BY <2>4, <2>5 DEF FormsInv, ProductsTyped
    <2>7. /\ product'[p].row /\ product'[p].sku = Sku(in.sku) /\ product'[p].form = f
          /\ (\A q \in Products \ {p} : product'[q] = product[q]) /\ DOMAIN product' = Products
      BY <2>2, <2>4
    <2>8. f # None => Typed(f, in.sku) /\ Sku(in.sku) = in.sku /\ in.sku # None
      BY <2>1, <2>3, NamesTyped DEF FormsInv, FromForm, Sku
    <2>9. FormsKept /\ FormsFormed'
      BY <2>2, FormsStay
    <2>10. ProductsTyped'
      <3> SUFFICES ASSUME NEW q \in Products
                   PROVE  /\ product'[q].row => Typed(product[q].form, product[q].sku)'
                          /\ product'[q].row /\ product'[q].form # None => q \notin Foreign \cup Existing
                          /\ q \in Existing => product'[q].row
        BY DEF ProductsTyped
      <3>1. PICK g, sku : g = product'[q].form /\ sku = product'[q].sku
        OBVIOUS
      <3>2. CASE q = p
        <4>1. Typed(g, sku)
          BY <2>7, <2>8, <3>1, <3>2 DEF Typed, Submitted
        <4>2. Typed(g, sku)'
          BY <2>9, <4>1, TypedStays
        <4> QED
          BY <2>4, <2>6, <2>7, <3>1, <3>2, <4>2
      <3>3. CASE q # p
        <4>1. product'[q].row => Typed(g, sku)
          BY <2>7, <3>1, <3>3 DEF FormsInv, ProductsTyped
        <4>2. product'[q].row => Typed(g, sku)'
          BY <2>9, <4>1, TypedStays
        <4> QED
          BY <2>7, <3>1, <3>3, <4>2 DEF FormsInv, ProductsTyped
      <3> QED
        BY <3>2, <3>3
    <2>11. ASSUME f # None, NEW q \in Products \ {p}, product'[q].row, product'[q].form = f
           PROVE  FALSE
      <3>1. product[q].row /\ product[q].form = f
        BY <2>7, <2>11
      <3>2. q \in Own(Rows(product)) \ {None} /\ Typed(f, product[q].sku)
        BY <2>4, <2>11, <3>1 DEF FormsInv, ProductsTyped, Own, Rows
      <3>3. product[q].sku = in.sku
        BY <2>8, <2>11, <3>2 DEF Typed
      <3> QED
        BY <2>3, <2>8, <2>11, <3>2, <3>3 DEF SkuFree
    <2>12. CreatedOnce(product)'
      <3> SUFFICES ASSUME NEW x \in Products, NEW y \in Products, product'[x].row, product'[y].row,
                          product'[x].form = product'[y].form, product'[x].form # None, x # y
                   PROVE  FALSE
        BY <2>7 DEF CreatedOnce, Rows
      <3>1. CASE x = p
        BY <2>7, <2>11, <3>1
      <3>2. CASE y = p
        BY <2>7, <2>11, <3>2
      <3>3. CASE x # p /\ y # p
        BY <2>4, <2>7, <3>3 DEF FormsInv, CreatedOnce, Rows
      <3> QED
        BY <3>1, <3>2, <3>3
    <2>13. PICK r : call' = [call EXCEPT ![c] = r] /\ FromForm(r)'
      BY <2>2, GoesOnFromForm DEF Done
    <2> QED
      BY <2>2, <2>9, <2>10, <2>12, <2>13, CategoriesKeepForms, ZonesKeepForms, FormsStep
  <1> QED
    BY <1>1, <1>2

LEMMA ChangeProductForms ==
  ASSUME CatalogInv, FormsInv, NEW c \in Calls, updateProduct(c) \/ deleteProduct(c)
  PROVE  FormsInv'
  <1>1. CASE Refuse(c)
    BY <1>1, GoesOnForms DEF Refuse, updateProduct, deleteProduct, catalog
  <1>2. CASE ~Refuse(c)
    <2>1. Done(c) /\ UNCHANGED <<category, zone, form>>
      BY <1>2 DEF updateProduct, deleteProduct
    <2>2. PICK p : p = call[c].on
      OBVIOUS
    <2>4. product = [q \in Products |-> product[q]]
      BY DEF CatalogInv, TablesFormed, ProductsFormed
    <2>5. /\ DOMAIN product' = Products
          /\ \A q \in Products : /\ product'[q].row = product[q].row
                                 /\ \/ product'[q].form = product[q].form /\ product'[q].sku = product[q].sku
                                    \/ product'[q].form = None
      <3>1. CASE updateProduct(c)
        <4>1. PICK sku, k, active, f : /\ sku = IF call[c].in.sku = Absent THEN product[p].sku ELSE call[c].in.sku
                                       /\ k = IF call[c].in.category = Absent THEN product[p].category ELSE call[c].in.category
                                       /\ active = IF call[c].in.active = Absent THEN product[p].active ELSE call[c].in.active
                                       /\ f = IF sku = product[p].sku THEN product[p].form ELSE None
          OBVIOUS
        <4>2. product' = [product EXCEPT ![p].sku = sku, ![p].category = k, ![p].active = active, ![p].form = f]
          BY <1>2, <2>2, <3>1, <4>1 DEF updateProduct, CatalogInv, TablesFormed, ProductsFormed
        <4>3. DOMAIN product' = Products /\ \A q \in Products \ {p} : product'[q] = product[q]
          BY <2>4, <4>2
        <4>4. p \in Products => product'[p].row = product[p].row /\ product'[p].form = f /\ product'[p].sku = sku
          <5> SUFFICES ASSUME p \in Products
                       PROVE  product'[p].row = product[p].row /\ product'[p].form = f /\ product'[p].sku = sku
            OBVIOUS
          <5>1. product'[p] = [product[p] EXCEPT !.sku = sku, !.category = k, !.active = active, !.form = f]
            BY <2>4, <4>2
          <5>2. product[p] = [row |-> product[p].row, sku |-> product[p].sku, category |-> product[p].category,
                              active |-> product[p].active, status |-> product[p].status, form |-> product[p].form]
            BY DEF CatalogInv, TablesFormed, ProductsFormed
          <5>3. product'[p] = [row |-> product[p].row, sku |-> sku, category |-> k, active |-> active,
                               status |-> product[p].status, form |-> f]
            BY <5>1, <5>2
          <5> QED
            BY <5>3
        <4> QED
          BY <4>1, <4>3, <4>4
      <3>2. CASE deleteProduct(c)
        <4>1. product' = [product EXCEPT ![p].active = FALSE, ![p].status = "DISCONTINUED"]
          BY <1>2, <2>2, <3>2 DEF deleteProduct
        <4>2. DOMAIN product' = Products /\ \A q \in Products \ {p} : product'[q] = product[q]
          BY <2>4, <4>1
        <4>3. p \in Products => /\ product'[p].row = product[p].row /\ product'[p].form = product[p].form
                                /\ product'[p].sku = product[p].sku
          <5> SUFFICES ASSUME p \in Products
                       PROVE  /\ product'[p].row = product[p].row /\ product'[p].form = product[p].form
                              /\ product'[p].sku = product[p].sku
            OBVIOUS
          <5>1. product'[p] = [product[p] EXCEPT !.active = FALSE, !.status = "DISCONTINUED"]
            BY <2>4, <4>1
          <5>2. product[p] = [row |-> product[p].row, sku |-> product[p].sku, category |-> product[p].category,
                              active |-> product[p].active, status |-> product[p].status, form |-> product[p].form]
            BY DEF CatalogInv, TablesFormed, ProductsFormed
          <5>3. product'[p] = [row |-> product[p].row, sku |-> product[p].sku, category |-> product[p].category,
                               active |-> FALSE, status |-> "DISCONTINUED", form |-> product[p].form]
            BY <5>1, <5>2
          <5> QED
            BY <5>3
        <4> QED
          BY <4>2, <4>3
      <3> QED
        BY <3>1, <3>2
    <2>6. FormsKept /\ FormsFormed'
      BY <2>1, FormsStay
    <2>7. ProductsTyped' /\ CreatedOnce(product)'
      BY <2>5, <2>6, ProductsKeepForms
    <2>8. PICK r : call' = [call EXCEPT ![c] = r] /\ FromForm(r)'
      BY <2>1, GoesOnFromForm DEF Done
    <2> QED
      BY <2>1, <2>6, <2>7, <2>8, CategoriesKeepForms, ZonesKeepForms, FormsStep
  <1> QED
    BY <1>1, <1>2

\* A category changes: if it has a form, it is the only one of that form.
LEMMA CategoryChangesForms ==
  ASSUME CatalogInv, FormsInv, FormsKept, NEW k \in Categories, NEW new, category' = [category EXCEPT ![k] = new],
         new.row => Typed(new.form, new.name)',
         new.row /\ new.form # None => /\ k \notin Foreign \cup Existing
                                       /\ \A j \in Categories \ {k} : category[j].row => category[j].form # new.form
  PROVE  CategoriesTyped' /\ CreatedOnce(category)'
  <1>1. category = [j \in Categories |-> category[j]]
    BY DEF CatalogInv, TablesFormed, NamesFormed
  <1>2. category'[k] = new /\ (\A j \in Categories \ {k} : category'[j] = category[j]) /\ DOMAIN category' = Categories
    BY <1>1
  <1>3. ASSUME NEW j \in Categories
        PROVE  /\ category'[j].row => Typed(category[j].form, category[j].name)'
               /\ category'[j].row /\ category'[j].form # None => j \notin Foreign \cup Existing
    <2>1. CASE j = k
      BY <1>2, <2>1
    <2>2. CASE j # k
      <3>1. PICK g, name : g = category'[j].form /\ name = category'[j].name
        OBVIOUS
      <3>2. category'[j].row => Typed(g, name)
        BY <1>2, <2>2, <3>1 DEF FormsInv, CategoriesTyped
      <3>3. category'[j].row => Typed(g, name)'
        BY <3>2, TypedStays
      <3> QED
        BY <1>2, <2>2, <3>1, <3>3 DEF FormsInv, CategoriesTyped
    <2> QED
      BY <2>1, <2>2
  <1>4. CreatedOnce(category)'
    <2> SUFFICES ASSUME NEW x \in Categories, NEW y \in Categories, category'[x].row, category'[y].row,
                        category'[x].form = category'[y].form, category'[x].form # None, x # y
                 PROVE  FALSE
      BY <1>2 DEF CreatedOnce, Rows
    <2>1. CASE x = k \/ y = k
      BY <1>2, <2>1
    <2>2. CASE x # k /\ y # k
      BY <1>1, <1>2, <2>2 DEF FormsInv, CreatedOnce, Rows
    <2> QED
      BY <2>1, <2>2
  <1> QED
    BY <1>3, <1>4 DEF CategoriesTyped

LEMMA ProductsStayForms ==
  ASSUME CatalogInv, FormsInv, FormsKept, product' = product
  PROVE  ProductsTyped' /\ CreatedOnce(product)'
  BY ProductsKeepForms DEF CatalogInv, TablesFormed, ProductsFormed

LEMMA CreateCategoryForms ==
  ASSUME CatalogInv, FormsInv, NEW c \in Calls, createCategory(c)
  PROVE  FormsInv'
  <1>1. CASE UNCHANGED catalog
    <2>1. \E step : Goto(c, step)
      BY DEF createCategory, Refuse, Done
    <2> QED
      BY <1>1, <2>1, GoesOnForms DEF createCategory, catalog
  <1>2. CASE ~UNCHANGED catalog
    <2>1. PICK name, f : name = call[c].in /\ f = call[c].form
      OBVIOUS
    <2>2. PICK k \in Own(Categories) \ (Rows(category) \cup Existing) :
              /\ category' = [category EXCEPT ![k] = [row |-> TRUE, name |-> name, form |-> f]]
              /\ Done(c) /\ UNCHANGED <<product, zone, form>>
      BY <1>2, <2>1 DEF createCategory, Refuse
    <2>3. ~SlugTaken(None, name) /\ call[c].op = "createCategory"
      BY <1>2, <2>1 DEF createCategory, Refuse, At
    <2>4. FormsKept /\ FormsFormed'
      BY <2>2, FormsStay
    <2>5. Typed(f, name)
      BY <2>1, <2>3 DEF FormsInv, FromForm
    <2>6. PICK new : new = [row |-> TRUE, name |-> name, form |-> f]
      OBVIOUS
    <2>7. new.row /\ new.name = name /\ new.form = f
      BY <2>6
    <2>8. Typed(f, name)'
      BY <2>4, <2>5, TypedStays
    <2>9. ASSUME f # None, NEW j \in Categories \ {k}, category[j].row, category[j].form = f
          PROVE  FALSE
      <3>1. category[j].name = name /\ j \notin Foreign
        BY <2>5, <2>9 DEF FormsInv, CategoriesTyped, Typed
      <3>2. j \in Own(Rows(category)) \ {None}
        BY <2>9, <3>1, IdsApart DEF Own, Rows, CatalogInv, TablesFormed, NamesFormed
      <3> QED
        BY <2>3, <3>1, <3>2 DEF SlugTaken
    <2>10. k \in Categories /\ k \notin Foreign \cup Existing
      BY <2>2 DEF Own
    <2>11. CategoriesTyped' /\ CreatedOnce(category)'
      BY <2>2, <2>4, <2>6, <2>7, <2>8, <2>9, <2>10, CategoryChangesForms
    <2>12. PICK r : call' = [call EXCEPT ![c] = r] /\ FromForm(r)'
      BY <2>2, GoesOnFromForm DEF Done
    <2> QED
      BY <2>2, <2>4, <2>11, <2>12, ProductsStayForms, ZonesKeepForms, FormsStep
  <1> QED
    BY <1>1, <1>2

LEMMA UpdateCategoryForms ==
  ASSUME CatalogInv, FormsInv, NEW c \in Calls, updateCategory(c)
  PROVE  FormsInv'
  <1>1. CASE UNCHANGED catalog
    <2>1. \E step : Goto(c, step)
      BY DEF updateCategory, Refuse, Done
    <2> QED
      BY <1>1, <2>1, GoesOnForms DEF updateCategory, catalog
  <1>2. CASE ~UNCHANGED catalog
    <2>1. PICK name, k : name = call[c].in /\ k = call[c].on
      OBVIOUS
    <2>2. /\ category' = [category EXCEPT ![k].name = name,
                                           ![k].form = IF category[k].name = name THEN @ ELSE None]
          /\ Done(c) /\ UNCHANGED <<product, zone, form>>
          /\ k \in Own(Rows(category)) /\ call[c].op = "updateCategory"
      BY <1>2, <2>1 DEF updateCategory, Refuse, At
    <2>3. k \in Categories /\ category[k].row
      BY <2>2 DEF Own, Rows, CatalogInv, TablesFormed, NamesFormed
    <2>4. PICK f, new : /\ f = IF category[k].name = name THEN category[k].form ELSE None
                        /\ new = [category[k] EXCEPT !.name = name, !.form = f]
      OBVIOUS
    <2>5. category' = [category EXCEPT ![k] = new]
      BY <2>1, <2>2, <2>3, <2>4 DEF CatalogInv, TablesFormed, NamesFormed
    <2>6. new.form = f /\ new.name = name
      <3>1. category[k] = [row |-> category[k].row, name |-> category[k].name, form |-> category[k].form]
        BY <2>3 DEF CatalogInv, TablesFormed, NamesFormed
      <3> QED
        BY <2>4, <3>1
    <2>7. Typed(f, name)
      <3>1. CASE f = None
        BY <3>1 DEF Typed, Submitted
      <3>2. CASE f # None
        BY <2>3, <2>4, <3>2 DEF FormsInv, CategoriesTyped
      <3> QED
        BY <3>1, <3>2
    <2>8. f # None => /\ k \notin Foreign \cup Existing
                      /\ \A j \in Categories \ {k} : category[j].row => category[j].form # f
      <3> SUFFICES ASSUME f # None
                   PROVE  /\ k \notin Foreign \cup Existing
                          /\ \A j \in Categories \ {k} : category[j].row => category[j].form # f
        OBVIOUS
      <3>1. category[k].form = f
        BY <2>4
      <3>2. k \notin Foreign \cup Existing
        BY <2>3, <3>1 DEF FormsInv, CategoriesTyped
      <3>3. DOMAIN category = Categories
        BY DEF CatalogInv, TablesFormed, NamesFormed
      <3> QED
        BY <2>3, <3>1, <3>2, <3>3 DEF FormsInv, CreatedOnce, Rows
    <2>9. FormsKept /\ FormsFormed'
      BY <2>2, FormsStay
    <2>10. CategoriesTyped' /\ CreatedOnce(category)'
      <3>1. Typed(new.form, new.name)'
        <4>1. PICK g, n : g = new.form /\ n = new.name
          OBVIOUS
        <4>2. Typed(g, n)'
          BY <2>6, <2>7, <2>9, <4>1, TypedStays
        <4> QED
          BY <4>1, <4>2
      <3> QED
        BY <2>3, <2>5, <2>6, <2>8, <2>9, <3>1, CategoryChangesForms
    <2>11. PICK r : call' = [call EXCEPT ![c] = r] /\ FromForm(r)'
      BY <2>2, GoesOnFromForm DEF Done
    <2> QED
      BY <2>2, <2>9, <2>10, <2>11, ProductsStayForms, ZonesKeepForms, FormsStep
  <1> QED
    BY <1>1, <1>2

LEMMA DeleteCategoryForms ==
  ASSUME CatalogInv, FormsInv, NEW c \in Calls, deleteCategory(c)
  PROVE  FormsInv'
  <1>1. CASE UNCHANGED catalog
    <2>1. \E step : Goto(c, step)
      BY DEF deleteCategory, Refuse, Done
    <2> QED
      BY <1>1, <2>1, GoesOnForms DEF deleteCategory, catalog
  <1>2. CASE ~UNCHANGED catalog
    <2>1. PICK k : k = call[c].on
      OBVIOUS
    <2>2. /\ category' = [category EXCEPT ![k] = NoName] /\ Done(c) /\ UNCHANGED <<zone, form>>
          /\ product' = [p \in Products |-> IF product[p].category = k
                                            THEN [product[p] EXCEPT !.category = None] ELSE product[p]]
      BY <1>2, <2>1 DEF deleteCategory, Refuse
    <2>3. FormsKept /\ FormsFormed'
      BY <2>2, FormsStay
    <2>4. ASSUME NEW p \in Products
          PROVE  product'[p].row = product[p].row /\ product'[p].form = product[p].form /\ product'[p].sku = product[p].sku
      <3>1. product[p] = [row |-> product[p].row, sku |-> product[p].sku, category |-> product[p].category,
                          active |-> product[p].active, status |-> product[p].status, form |-> product[p].form]
        BY DEF CatalogInv, TablesFormed, ProductsFormed
      <3>2. product'[p] = product[p] \/ product'[p] = [product[p] EXCEPT !.category = None]
        BY <2>2
      <3>3. product'[p] = product[p] \/
            product'[p] = [row |-> product[p].row, sku |-> product[p].sku, category |-> None,
                           active |-> product[p].active, status |-> product[p].status, form |-> product[p].form]
        BY <3>1, <3>2
      <3> QED
        BY <3>3
    <2>5. ProductsTyped' /\ CreatedOnce(product)'
      <3>1. DOMAIN product' = Products
        BY <2>2
      <3> QED
        BY <2>3, <2>4, <3>1, ProductsKeepForms
    <2>6. CategoriesTyped' /\ CreatedOnce(category)'
      <3>1. CASE k \in Categories
        <4>1. PICK new : new = NoName
          OBVIOUS
        <4>2. ~new.row
          BY <4>1 DEF NoName
        <4> QED
          BY <2>2, <2>3, <3>1, <4>1, <4>2, CategoryChangesForms
      <3>2. CASE k \notin Categories
        <4>1. category' = category
          BY <2>2, <3>2 DEF CatalogInv, TablesFormed, NamesFormed
        <4> QED
          BY <2>3, <4>1, CategoriesKeepForms
      <3> QED
        BY <3>1, <3>2
    <2>7. PICK r : call' = [call EXCEPT ![c] = r] /\ FromForm(r)'
      BY <2>2, GoesOnFromForm DEF Done
    <2> QED
      BY <2>2, <2>3, <2>5, <2>6, <2>7, ZonesKeepForms, FormsStep
  <1> QED
    BY <1>1, <1>2

LEMMA CreateZoneForms ==
  ASSUME CatalogInv, FormsInv, NEW c \in Calls, createZone(c)
  PROVE  FormsInv'
  <1>1. CASE Refuse(c)
    BY <1>1, GoesOnForms DEF Refuse, createZone, catalog
  <1>2. CASE ~Refuse(c)
    <2>1. PICK name, f : name = call[c].in /\ f = call[c].form
      OBVIOUS
    <2>2. PICK z \in Zones \ Rows(zone) :
              /\ zone' = [zone EXCEPT ![z] = [row |-> TRUE, name |-> name, form |-> f]]
              /\ Done(c) /\ UNCHANGED <<product, category, form>>
      BY <1>2, <2>1 DEF createZone
    <2>3. (~\E x \in Rows(zone) : zone[x].name = name) /\ call[c].op = "createZone"
      BY <1>2, <2>1 DEF createZone, At
    <2>4. zone = [x \in Zones |-> zone[x]]
      BY DEF CatalogInv, TablesFormed, NamesFormed
    <2>5. /\ zone'[z].row /\ zone'[z].name = name /\ zone'[z].form = f
          /\ (\A x \in Zones \ {z} : zone'[x] = zone[x]) /\ DOMAIN zone' = Zones
      BY <2>2, <2>4
    <2>6. FormsKept /\ FormsFormed'
      BY <2>2, FormsStay
    <2>7. Typed(f, name)
      BY <2>1, <2>3 DEF FormsInv, FromForm
    <2>8. ASSUME NEW x \in Zones, zone'[x].row
          PROVE  Typed(zone[x].form, zone[x].name)'
      <3>1. PICK g, n : g = zone'[x].form /\ n = zone'[x].name
        OBVIOUS
      <3>2. CASE x = z
        BY <2>5, <2>6, <2>7, <3>1, <3>2, TypedStays
      <3>3. CASE x # z
        <4>1. Typed(g, n)
          BY <2>5, <2>8, <3>1, <3>3 DEF FormsInv, ZonesTyped
        <4> QED
          BY <2>6, <3>1, <4>1, TypedStays
      <3> QED
        BY <3>2, <3>3
    <2>9. ASSUME f # None, NEW x \in Zones \ {z}, zone[x].row, zone[x].form = f
          PROVE  FALSE
      <3>1. zone[x].name = name
        BY <2>7, <2>9 DEF FormsInv, ZonesTyped, Typed
      <3> QED
        BY <2>3, <2>4, <2>9, <3>1 DEF Rows
    <2>10. CreatedOnce(zone)'
      <3> SUFFICES ASSUME NEW x \in Zones, NEW y \in Zones, zone'[x].row, zone'[y].row,
                          zone'[x].form = zone'[y].form, zone'[x].form # None, x # y
                   PROVE  FALSE
        BY <2>5 DEF CreatedOnce, Rows
      <3>1. CASE x = z \/ y = z
        BY <2>5, <2>9, <3>1
      <3>2. CASE x # z /\ y # z
        BY <2>4, <2>5, <3>2 DEF FormsInv, CreatedOnce, Rows
      <3> QED
        BY <3>1, <3>2
    <2>11. PICK r : call' = [call EXCEPT ![c] = r] /\ FromForm(r)'
      BY <2>2, GoesOnFromForm DEF Done
    <2>12. ZonesTyped'
      BY <2>8 DEF ZonesTyped
    <2> QED
      BY <2>2, <2>6, <2>10, <2>11, <2>12, ProductsStayForms, CategoriesKeepForms, FormsStep
  <1> QED
    BY <1>1, <1>2

\* The other steps create nothing that has a name.
LEMMA OtherForms ==
  ASSUME CatalogInv, FormsInv, NEW c \in Calls,
         \/ checkSku(c) \/ validateRelations(c) \/ readVariants(c) \/ deleteLinks(c)
         \/ createSupplier(c) \/ deleteSupplier(c) \/ createCustomer(c) \/ deleteCustomer(c) \/ createBin(c)
         \/ createPurchaseOrder(c) \/ createSalesOrder(c) \/ storeOrder(c) \/ validateInventoryIdentity(c) \/ Abort(c)
  PROVE  FormsInv'
  <1>1. UNCHANGED <<product, category, zone, form>>
    BY DEF checkSku, validateRelations, readVariants, deleteLinks, createSupplier, deleteSupplier, createCustomer,
           deleteCustomer, createBin, createPurchaseOrder, createSalesOrder, storeOrder, validateInventoryIdentity, Abort,
           Refuse, catalog
  <1>2. CASE \E step : Goto(c, step)
    BY <1>1, <1>2, GoesOnForms
  <1>3. CASE ~\E step : Goto(c, step)
    <2>1. \E seen, gone, step :
              \/ call' = [call EXCEPT ![c].step = step, ![c].seen = seen]
              \/ call' = [call EXCEPT ![c].step = step, ![c].gone = gone]
      BY <1>3 DEF checkSku, validateRelations, readVariants, deleteLinks, createSupplier, deleteSupplier, createCustomer,
             deleteCustomer, createBin, createPurchaseOrder, createSalesOrder, storeOrder, validateInventoryIdentity, Abort,
             Refuse, Done
    <2>2. PICK seen, gone, step :
              \/ call' = [call EXCEPT ![c].step = step, ![c].seen = seen]
              \/ call' = [call EXCEPT ![c].step = step, ![c].gone = gone]
      BY <2>1
    <2>3. \E r \in {[call[c] EXCEPT !.step = step, !.seen = seen], [call[c] EXCEPT !.step = step, !.gone = gone]} :
              call' = [call EXCEPT ![c] = r]
      BY <2>2 DEF CatalogInv, CallsChecked
    <2>4. PICK r \in {[call[c] EXCEPT !.step = step, !.seen = seen], [call[c] EXCEPT !.step = step, !.gone = gone]} :
              call' = [call EXCEPT ![c] = r]
      BY <2>3
    <2>5. r.op = call[c].op /\ r.on = call[c].on /\ r.in = call[c].in /\ r.form = call[c].form
      BY <2>4 DEF CatalogInv, CallsChecked, Checked, IsCatalogCall
    <2>6. FromForm(r)
      BY <2>5 DEF FormsInv, FromForm
    <2> QED
      BY <1>1, <2>4, <2>6, FormsStay, FromFormStays, QuietForms
  <1> QED
    BY <1>2, <1>3

LEMMA FormsNextSound == CatalogInv /\ FormsInv /\ [CatalogNext]_catalogVars => FormsInv'
  <1>1. ASSUME CatalogInv, FormsInv, UNCHANGED catalogVars
        PROVE  FormsInv'
    <2>1. UNCHANGED <<product, category, zone, call, form>>
      BY <1>1 DEF catalogVars, catalog
    <2>2. ProductsTyped' /\ CategoriesTyped' /\ ZonesTyped' /\ CreatedOnce(product)' /\ CreatedOnce(category)' /\ CreatedOnce(zone)'
      BY <1>1, <2>1, FormsStay, ProductsStayForms, CategoriesKeepForms, ZonesKeepForms
    <2>3. ASSUME NEW c \in Calls
          PROVE  FromForm(call[c])'
      <3>1. PICK r : r = call[c]
        OBVIOUS
      <3>2. FromForm(r)'
        BY <1>1, <2>1, <3>1, FormsStay, FromFormStays DEF FormsInv
      <3> QED
        BY <2>1, <3>1, <3>2
    <2> QED
      BY <1>1, <2>1, <2>2, <2>3, FormsStay DEF FormsInv
  <1>2. ASSUME CatalogInv, FormsInv, CatalogNext
        PROVE  FormsInv'
    <2>1. ASSUME NEW c \in Calls,
                 \/ createProduct(c) \/ updateProduct(c) \/ deleteProduct(c) \/ createCategory(c) \/ updateCategory(c)
                 \/ deleteCategory(c) \/ createZone(c)
          PROVE  FormsInv'
      BY <1>2, <2>1, CreateProductForms, ChangeProductForms, CreateCategoryForms, UpdateCategoryForms, DeleteCategoryForms,
         CreateZoneForms
    <2>2. ASSUME NEW c \in Calls,
                 \/ checkSku(c) \/ validateRelations(c) \/ readVariants(c) \/ deleteLinks(c)
                 \/ createSupplier(c) \/ deleteSupplier(c) \/ createCustomer(c) \/ deleteCustomer(c) \/ createBin(c)
                 \/ createPurchaseOrder(c) \/ createSalesOrder(c) \/ storeOrder(c) \/ validateInventoryIdentity(c) \/ Abort(c)
          PROVE  FormsInv'
      BY <1>2, <2>2, OtherForms
    <2>3. ASSUME NEW c \in Calls, Send(c) \/ handleDelete(c) \/ Answer(c)
          PROVE  FormsInv'
      BY <1>2, <2>3, SendForms, AnswerForms
    <2>4. ASSUME NEW c \in Calls, NEW f \in Forms,
                 \/ OpenForm(f) \/ handleSubmit(f, c) \/ handleCreateCategory(f, c) \/ handleCreateSupplier(f, c)
                 \/ handleCreateCustomer(f, c) \/ handleCreateZone(f, c) \/ handleCreateBin(f, c)
          PROVE  FormsInv'
      BY <1>2, <2>4, OpenFormForms, SubmitForms
    <2> QED
      BY <1>2, <2>1, <2>2, <2>3, <2>4 DEF CatalogNext
  <1> QED
    BY <1>1, <1>2

\* A product, category or zone form creates one record, however often it is submitted and however late what was given
\* up is served: as long as the record has the name that the form gave it, it stands in the way of a second.
THEOREM FormsAlwaysCreateOne == CatalogSpec => []FormCreatesOne
  <1>1. FormsInv => FormCreatesOne
    BY DEF FormsInv, CreatedOnce, FormCreatesOne
  <1>2. CatalogInv /\ FormsInv /\ [CatalogNext]_catalogVars => FormsInv'
    BY FormsNextSound
  <1> QED
    BY <1>1, <1>2, InitForms, CatalogInvariant, PTL DEF CatalogSpec
=============================================================================
