------------------------------ MODULE Authorize -----------------------------
(***************************************************************************)
(* The access cache (Authorize): users, groups, roles, permissions, the    *)
(* acl and the resources, loaded in one swap and then kept by events       *)
(* (AccessListener), each under the mutex.  Every user carries what the    *)
(* acl gives it - its permissions and, OR'd by resource, its rights - and  *)
(* an event rebuilds only the users it concerns.  Each operation is an     *)
(* operator from a cache to a cache.                                       *)
(***************************************************************************)
EXTENDS Naturals, FiniteSets, Sequences, SequencesExt, Functions

CONSTANTS UserPKs, GroupPKs, RolePKs, PermissionPKs,
          ResourcePKs,     \* each a row: its slug's root, or one of the slug's criterias
          RowKeys,         \* RowKeys[pk]: the keys <<slug, criteria>> a row of this pk may have; "" is the root
          Bits,            \* the rights
          Grants,          \* what a permission may be: a resource, rights allowed, rights denied
          Snapshots,       \* what Load may read: users, groups, roles, permissions, acl, resources
          MaxEvents

VARIABLES c,        \* the cache
          adding,   \* members tested and not yet added: <<group, member>> and <<role, member>>
          events

vars == <<c, adding, events>>

None == [allowed |-> {}, denied |-> {}]
NoRights == [x \in ResourcePKs |-> None]
Or(a, b) == [allowed |-> a.allowed \cup b.allowed, denied |-> a.denied \cup b.denied]

\* One key is closed under a step: what a walk with a visited set visits.
RECURSIVE Closure(_, _)
Closure(step, from) ==
  LET more == from \cup UNION {step[k] : k \in from \cap DOMAIN step}
  IN  IF more = from THEN from ELSE Closure(step, more)

Live(map) == {k \in DOMAIN map : ~map[k].deleted}

-----------------------------------------------------------------------------
(* The walks.                                                              *)

\* The users under an identity, through live groups.
RecursiveUsers(s, i) ==
  LET members == [g \in Live(s.groups) |-> s.groups[g].members]
  IN  IF i \in UserPKs THEN {i} \cap DOMAIN s.users ELSE Closure(members, {i}) \cap DOMAIN s.users

\* The permissions under a permission or a role, through live roles.
Permitted(s, pr) ==
  LET members == [r \in Live(s.roles) |-> s.roles[r].members]
  IN  Closure(members, {pr}) \cap DOMAIN s.permissions

Clear(s, users) ==
  [s EXCEPT !.users = [u \in DOMAIN s.users |->
     IF u \in users THEN [s.users[u] EXCEPT !.rights = NoRights, !.permissions = << >>] ELSE s.users[u]]]

\* user += each of the permissions.
AddUserPermissions(s, user, ps) ==
  [user EXCEPT !.permissions = [p \in DOMAIN user.permissions \cup ps |->
                                  IF p \in ps THEN s.permissions[p] ELSE user.permissions[p]],
               !.rights = [x \in ResourcePKs |->
                  LET on == {p \in ps : s.permissions[p].resource = x}
                  IN  Or(user.rights[x], [allowed |-> UNION {s.permissions[p].allowed : p \in on},
                                          denied |-> UNION {s.permissions[p].denied : p \in on}])]]

\* The whole acl, for these users; none names everyone.
SetUserPermissions(s, users) ==
  LET granted(u) == UNION {Permitted(s, e[2]) : e \in {a \in s.acl : u \in RecursiveUsers(s, a[1])}}
  IN  [s EXCEPT !.users = [u \in DOMAIN s.users |->
         IF users = {} \/ u \in users THEN AddUserPermissions(s, s.users[u], granted(u)) ELSE s.users[u]]]

Recalc(s) == SetUserPermissions(Clear(s, DOMAIN s.users), {})

\* Cleared and set again, if there are any.
Rebuild(s, users) == IF users = {} THEN s ELSE SetUserPermissions(Clear(s, users), users)

RecalcGroupMembers(s, g) == Rebuild(s, RecursiveUsers(s, g))

-----------------------------------------------------------------------------
(* Users and groups.                                                       *)

CreateUser(s, u) ==
  IF u \in DOMAIN s.users THEN s
  ELSE [s EXCEPT !.users = (u :> [deleted |-> FALSE, permissions |-> << >>, rights |-> NoRights]) @@ @]

SetUserDeleted(s, u, deleted) == IF u \in DOMAIN s.users THEN [s EXCEPT !.users[u].deleted = deleted] ELSE s

PurgeIdentity(s, i) ==
  [s EXCEPT !.acl = {e \in @ : e[1] # i},
            !.groups = [g \in DOMAIN @ |-> [@[g] EXCEPT !.members = @ \ {i}]]]

PurgeUser(s, u) == PurgeIdentity([s EXCEPT !.users = Restrict(@, DOMAIN @ \ {u})], u)

CreateGroup(s, g) ==
  IF g \in DOMAIN s.groups THEN s ELSE [s EXCEPT !.groups = (g :> [deleted |-> FALSE, members |-> {}]) @@ @]

\* A member group's users are collected once it is in; users are rebuilt, groups' users with them.
AddToGroup(s, g, m) ==
  LET t == [CreateGroup(s, g) EXCEPT !.groups[g].members = @ \cup {m}]
  IN  Rebuild(t, RecursiveUsers(t, m))

\* Mutant of RemoveFromGroup: only a user's own membership is looked at.
RemoveFromGroupUser(s, g, m) ==
  IF g \notin DOMAIN s.groups \/ m \notin s.groups[g].members THEN s
  ELSE Rebuild([s EXCEPT !.groups[g].members = @ \ {m}], {m} \cap DOMAIN s.users)

RemoveFromGroup(s, g, m) ==
  IF g \notin DOMAIN s.groups \/ m \notin s.groups[g].members THEN s
  ELSE Rebuild([s EXCEPT !.groups[g].members = @ \ {m}], RecursiveUsers(s, m))

\* Mutant of DeleteGroup: the users are collected once it is deleted.
DeleteGroupFirst(s, g) ==
  IF g \notin Live(s.groups) THEN s
  ELSE RecalcGroupMembers([s EXCEPT !.groups[g].deleted = TRUE], g)

DeleteGroup(s, g) ==
  IF g \notin Live(s.groups) THEN s
  ELSE Rebuild([s EXCEPT !.groups[g].deleted = TRUE], RecursiveUsers(s, g))

RestoreGroup(s, g) ==
  IF g \notin DOMAIN s.groups THEN s ELSE RecalcGroupMembers([s EXCEPT !.groups[g].deleted = FALSE], g)

PurgeGroup(s, g) ==
  LET users == RecursiveUsers(s, g)
      gone == [s EXCEPT !.groups = Restrict(@, DOMAIN @ \ {g})]
  IN  IF g \notin DOMAIN s.groups THEN s
      ELSE PurgeIdentity(IF s.groups[g].deleted THEN gone ELSE Rebuild(gone, users), g)

\* What createGroup's and addRole's members are tested for: a member that has the parent below it.
IsBelow(map, parent, child) ==
  LET members == [k \in DOMAIN map |-> map[k].members] IN child \in Closure(members, {parent})

TestAddGroupMember(s, g, m) == m \in UserPKs \/ ~IsBelow(s.groups, m, g)
TestAddRoleMember(s, r, m) == ~IsBelow(s.roles, m, r)

-----------------------------------------------------------------------------
(* Grants and roles.                                                       *)

\* Mutant of AddAcl: a re-grant reaches only the identity it names.
AddAclNamed(s, i, p, permission) ==
  LET t == [s EXCEPT !.permissions = (p :> permission) @@ @, !.acl = @ \cup {<<i, p>>}]
  IN  Rebuild(t, RecursiveUsers(t, i))

\* A permission granted: one that changed may be on anyone.
AddAcl(s, i, p, permission) ==
  LET changed == p \in DOMAIN s.permissions /\ s.permissions[p] # permission
      t == [s EXCEPT !.permissions = (p :> permission) @@ @, !.acl = @ \cup {<<i, p>>}]
  IN  IF changed THEN Recalc(t) ELSE Rebuild(t, RecursiveUsers(t, i))

\* A role granted: to a user, on top of what it has.
AddAclRole(s, i, r) ==
  LET t == [s EXCEPT !.acl = @ \cup {<<i, r>>}]
  IN  IF i \in DOMAIN t.users
      THEN [t EXCEPT !.users[i] = AddUserPermissions(t, t.users[i], Permitted(t, r))]
      ELSE RecalcGroupMembers(t, i)

RemoveAcl(s, i, pr) ==
  LET t == [s EXCEPT !.acl = @ \ {<<i, pr>>}] IN Rebuild(t, RecursiveUsers(t, i))

Index(s, pk) ==
  IF s.resources[pk].deleted THEN s ELSE [s EXCEPT !.index = (s.resources[pk].key :> pk) @@ @]

\* Only while the entry is still this row's.
Unindex(s, pk) ==
  LET key == s.resources[pk].key
  IN  IF key \in DOMAIN s.index /\ s.index[key] = pk THEN [s EXCEPT !.index = Restrict(@, DOMAIN @ \ {key})] ELSE s

\* A role's grant names its row: another row cached under its pk is stale, and goes.
AddRolePermission(s, r, p, permission, key) ==
  LET pk == permission.resource
      known == pk \in DOMAIN s.resources /\ s.resources[pk].key = key
      stale == IF pk \in DOMAIN s.resources /\ ~known THEN Unindex(s, pk) ELSE s
      t == IF known THEN s
           ELSE Index([stale EXCEPT !.resources = (pk :> [key |-> key, deleted |-> FALSE]) @@ @], pk)
      members == IF r \in DOMAIN t.roles THEN t.roles[r].members ELSE {}
  IN  Recalc([t EXCEPT !.permissions = (p :> permission) @@ @,
                       !.roles = (r :> [deleted |-> r \in DOMAIN @ /\ @[r].deleted, members |-> members \cup {p}]) @@ @])

AddRoleChild(s, r, child) ==
  LET members == IF r \in DOMAIN s.roles THEN s.roles[r].members ELSE {}
  IN  Recalc([s EXCEPT !.roles = (r :> [deleted |-> r \in DOMAIN @ /\ @[r].deleted, members |-> members \cup {child}]) @@ @])

RemoveRoleChildren(s, r, m) ==
  IF r \notin DOMAIN s.roles THEN s ELSE Recalc([s EXCEPT !.roles[r].members = @ \ {m}])

DeleteRestoreRole(s, r, deleted) ==
  Recalc(IF r \in DOMAIN s.roles THEN [s EXCEPT !.roles[r].deleted = deleted] ELSE s)

\* Mutant of PurgeRole: nobody is rebuilt.
PurgeRoleQuietly(s, r) ==
  IF r \notin DOMAIN s.roles THEN s
  ELSE LET roles == Restrict(s.roles, DOMAIN s.roles \ {r})
       IN  [s EXCEPT !.roles = [k \in DOMAIN roles |-> [roles[k] EXCEPT !.members = @ \ {r}]],
                     !.acl = {e \in @ : e[2] # r}]

\* A deleted role gave nothing, so nobody is rebuilt.
PurgeRole(s, r) ==
  IF r \notin DOMAIN s.roles THEN s
  ELSE LET roles == Restrict(s.roles, DOMAIN s.roles \ {r})
           t == [s EXCEPT !.roles = [k \in DOMAIN roles |-> [roles[k] EXCEPT !.members = @ \ {r}]],
                          !.acl = {e \in @ : e[2] # r}]
       IN  IF s.roles[r].deleted THEN t ELSE Recalc(t)

\* In place, on every user that has the permission: the resource's rights are OR'd again.
UpdatePermission(s, p, allowed, denied) ==
  LET updated == [s.permissions[p] EXCEPT !.allowed = allowed, !.denied = denied]
      user(u) ==
        IF p \notin DOMAIN s.users[u].permissions THEN s.users[u]
        ELSE LET ps == [s.users[u].permissions EXCEPT ![p] = updated]
                 on == {q \in DOMAIN ps : ps[q].resource = updated.resource}
             IN  [s.users[u] EXCEPT !.permissions = ps,
                    !.rights[updated.resource] = [allowed |-> UNION {ps[q].allowed : q \in on},
                                                  denied |-> UNION {ps[q].denied : q \in on}]]
  IN  IF p \notin DOMAIN s.permissions THEN s
      ELSE [s EXCEPT !.permissions[p] = updated, !.users = [u \in DOMAIN s.users |-> user(u)]]

-----------------------------------------------------------------------------
(* Resources.                                                              *)

CreateResource(s, pk, key) == Index([s EXCEPT !.resources = (pk :> [key |-> key, deleted |-> FALSE]) @@ @], pk)

\* Mutant of UpdateResourceDeleted: the slug's criterias go with its root.
UpdateSlugDeleted(s, pk, deleted) ==
  IF pk \notin DOMAIN s.resources THEN s
  ELSE LET t == [s EXCEPT !.resources[pk].deleted = deleted]
       IN  IF ~deleted THEN Index(t, pk)
           ELSE [t EXCEPT !.index = Restrict(@, {k \in DOMAIN @ : k[1] # s.resources[pk].key[1]})]

UpdateResourceDeleted(s, pk, deleted) ==
  IF pk \notin DOMAIN s.resources THEN s
  ELSE LET t == [s EXCEPT !.resources[pk].deleted = deleted] IN IF deleted THEN Unindex(t, pk) ELSE Index(t, pk)

\* The row, its permissions, and the grants and members that name them; only its rights change.
PurgeResource(s, pk) ==
  LET purged == {p \in DOMAIN s.permissions : s.permissions[p].resource = pk}
      keep(ps) == Restrict(ps, {p \in DOMAIN ps : ps[p].resource # pk})
  IN  [s EXCEPT !.resources = Restrict(@, DOMAIN @ \ {pk}),
                !.index = Restrict(@, {k \in DOMAIN @ : @[k] # pk}),
                !.permissions = keep(@),
                !.acl = {e \in @ : e[2] \notin purged},
                !.roles = [r \in DOMAIN @ |-> [@[r] EXCEPT !.members = @ \ purged]],
                !.users = [u \in DOMAIN @ |-> [@[u] EXCEPT !.rights[pk] = None, !.permissions = keep(@)]]]

\* The snapshot, in one swap.
Load(snapshot) ==
  LET s == [users |-> [u \in snapshot.users |-> [deleted |-> FALSE, permissions |-> << >>, rights |-> NoRights]],
            groups |-> snapshot.groups, roles |-> snapshot.roles, permissions |-> snapshot.permissions,
            acl |-> snapshot.acl, resources |-> snapshot.resources,
            index |-> [k \in {snapshot.resources[x].key : x \in Live(snapshot.resources)} |->
                         CHOOSE x \in Live(snapshot.resources) : snapshot.resources[x].key = k]]
  IN  SetUserPermissions(s, {})

-----------------------------------------------------------------------------
(* What is asked of it.                                                    *)

\* A slug without its root is not enforced.
FindActiveResourcePK(s, slug, criteria) ==
  IF {<<slug, "">>, <<slug, criteria>>} \subseteq DOMAIN s.index THEN {s.index[<<slug, criteria>>]} ELSE {}

\* The criteria's row, else the slug's root.
Scoped(s, slug, criteria) ==
  LET own == FindActiveResourcePK(s, slug, criteria)
  IN  IF own # {} THEN own ELSE FindActiveResourcePK(s, slug, "")

Known(s, u) == u \in DOMAIN s.users /\ ~s.users[u].deleted

HasRights(s, u, pk, bit) ==
  Known(s, u) /\ bit \notin s.users[u].rights[pk].denied /\ bit \in s.users[u].rights[pk].allowed

Check(s, slug, criteria, bit, u) == \A pk \in Scoped(s, slug, criteria) : HasRights(s, u, pk, bit)

\* Mutant of CheckEnforced: an unmapped criteria has no row.
CheckEnforcedOwn(s, slug, criteria, bit, u) ==
  \E pk \in FindActiveResourcePK(s, slug, criteria) : HasRights(s, u, pk, bit)

CheckEnforced(s, slug, criteria, bit, u) == \E pk \in Scoped(s, slug, criteria) : HasRights(s, u, pk, bit)

ScopedRights(s, slug, criteria, u) ==
  LET scope == Scoped(s, slug, criteria)
      of(pk) == IF Known(s, u) THEN s.users[u].rights[pk].allowed \ s.users[u].rights[pk].denied ELSE {}
  IN  [rights |-> IF scope = {} THEN Bits ELSE UNION {of(pk) : pk \in scope}, enforced |-> scope # {}]

\* The ways from an identity, or a permission or role, to what it is granted to or grants: each a path
\* that repeats nobody.
RECURSIVE Ways(_, _, _, _)
Ways(map, from, to, path) ==
  IF from = to THEN {path}
  ELSE IF from \notin Live(map) \/ from \in ToSet(path) THEN {}
  ELSE UNION {Ways(map, m, to, Append(path, from)) : m \in map[from].members}

\* IdentityRightsLocked: the sources of an identity's rights, path by path.
Sources(s, i) ==
  UNION {{[permission |-> p, groups |-> gs, roles |-> rs] :
            gs \in Ways(s.groups, e[1], i, << >>), rs \in Ways(s.roles, e[2], p, << >>)} :
         e \in s.acl, p \in DOMAIN s.permissions}

IdentityRights(s, i, pk) ==
  LET on == {src \in Sources(s, i) : s.permissions[src.permission].resource = pk}
  IN  [allowed |-> UNION {s.permissions[src.permission].allowed : src \in on},
       denied |-> UNION {s.permissions[src.permission].denied : src \in on}]

\* Mutant of HolderRights: a group that holds a holder is not climbed.
HolderRightsDirect(s, pk, u) ==
  LET ps(pr) == {p \in DOMAIN s.permissions : s.permissions[p].resource = pk /\ Ways(s.roles, pr, p, << >>) # {}}
      via == UNION {ps(e[2]) : e \in {a \in s.acl : a[1] = u}}
  IN  [allowed |-> UNION {s.permissions[p].allowed : p \in via}, denied |-> UNION {s.permissions[p].denied : p \in via}]

\* Holders: the resource's permissions upwards - the roles that hold one, then whom the acl reaches.
HolderRights(s, pk, u) ==
  LET ps(pr) == {p \in DOMAIN s.permissions : s.permissions[p].resource = pk /\ Ways(s.roles, pr, p, << >>) # {}}
      via == UNION {ps(e[2]) : e \in {a \in s.acl : Ways(s.groups, a[1], u, << >>) # {}}}
  IN  [allowed |-> UNION {s.permissions[p].allowed : p \in via}, denied |-> UNION {s.permissions[p].denied : p \in via}]

-----------------------------------------------------------------------------
(* The events, in the order the server publishes them.                     *)

Apply(s) == c' = s /\ events < MaxEvents /\ events' = events + 1

Init == (\E snapshot \in Snapshots : c = Load(snapshot)) /\ adding = {} /\ events = 0

Test(parent, m) ==
  /\ <<parent, m>> \notin adding /\ Cardinality(adding) < 2 /\ parent # m
  /\ \/ parent \in DOMAIN c.groups /\ m \in DOMAIN c.groups /\ TestAddGroupMember(c, parent, m)
     \/ parent \in DOMAIN c.roles /\ m \in DOMAIN c.roles /\ TestAddRoleMember(c, parent, m)
  /\ adding' = adding \cup {<<parent, m>>}
  /\ UNCHANGED <<c, events>>

Added(pair) ==
  /\ pair \in adding /\ adding' = adding \ {pair}
  /\ Apply(IF pair[1] \in GroupPKs THEN AddToGroup(c, pair[1], pair[2]) ELSE AddRoleChild(c, pair[1], pair[2]))

UserChanged ==
  /\ UNCHANGED adding
  /\ \E u \in UserPKs : \/ u \notin DOMAIN c.users /\ Apply(CreateUser(c, u))
                        \/ \E deleted \in BOOLEAN : Apply(SetUserDeleted(c, u, deleted))
                        \/ Apply(PurgeUser(c, u))

GroupChanged ==
  /\ UNCHANGED adding
  /\ \E g \in GroupPKs : \/ Apply(CreateGroup(c, g)) \/ Apply(DeleteGroup(c, g))
                         \/ Apply(RestoreGroup(c, g)) \/ Apply(PurgeGroup(c, g))
                         \/ \E u \in DOMAIN c.users : g \in DOMAIN c.groups /\ Apply(AddToGroup(c, g, u))
                         \/ \E m \in UserPKs \cup GroupPKs : Apply(RemoveFromGroup(c, g, m))

RoleChanged ==
  /\ UNCHANGED adding
  /\ \E r \in RolePKs :
       \/ \E deleted \in BOOLEAN : Apply(DeleteRestoreRole(c, r, deleted))
       \/ Apply(PurgeRole(c, r))
       \/ \E m \in RolePKs \cup PermissionPKs : Apply(RemoveRoleChildren(c, r, m))
       \/ \E p \in PermissionPKs, g \in Grants, key \in UNION {RowKeys[x] : x \in ResourcePKs} :
            key \in RowKeys[g.resource] /\ Apply(AddRolePermission(c, r, p, g, key))

AclChanged ==
  /\ UNCHANGED adding
  /\ \E i \in DOMAIN c.users \cup DOMAIN c.groups :
       \/ \E p \in PermissionPKs, g \in Grants : g.resource \in DOMAIN c.resources /\ Apply(AddAcl(c, i, p, g))
       \/ \E r \in DOMAIN c.roles : Apply(AddAclRole(c, i, r))
       \/ \E pr \in PermissionPKs \cup RolePKs : <<i, pr>> \in c.acl /\ Apply(RemoveAcl(c, i, pr))

PermissionUpdated ==
  /\ UNCHANGED adding
  /\ \E p \in DOMAIN c.permissions, g \in Grants : Apply(UpdatePermission(c, p, g.allowed, g.denied))

ResourceChanged ==
  /\ UNCHANGED adding
  /\ \E pk \in ResourcePKs :
       \/ \E key \in RowKeys[pk] : pk \notin DOMAIN c.resources /\ Apply(CreateResource(c, pk, key))
       \/ \E deleted \in BOOLEAN : Apply(UpdateResourceDeleted(c, pk, deleted))
       \/ Apply(PurgeResource(c, pk))

Next ==
  \/ \E parent, m \in GroupPKs \cup RolePKs : Test(parent, m)
  \/ \E pair \in adding : Added(pair)
  \/ UserChanged \/ GroupChanged \/ RoleChanged \/ AclChanged \/ PermissionUpdated \/ ResourceChanged

Spec == Init /\ [][Next]_vars

-----------------------------------------------------------------------------
TypeOK ==
  /\ DOMAIN c.users \subseteq UserPKs /\ DOMAIN c.groups \subseteq GroupPKs /\ DOMAIN c.roles \subseteq RolePKs
  /\ c.acl \subseteq (UserPKs \cup GroupPKs) \X (PermissionPKs \cup RolePKs)
  /\ \A u \in DOMAIN c.users : DOMAIN c.users[u].permissions \subseteq PermissionPKs
  /\ DOMAIN c.resources \subseteq ResourcePKs

\* What the effective-rights view shows a user has, path by path through the acl, the live groups and the
\* live roles, is what is enforced: the rights the events left cached on the user, cycles included.
ShownIsEnforced ==
  \A u \in DOMAIN c.users, pk \in ResourcePKs : IdentityRights(c, u, pk) = c.users[u].rights[pk]

\* The resource's holders, found upwards from its permissions, have on it what is enforced for them.
HoldersAreEnforced ==
  \A u \in DOMAIN c.users, pk \in ResourcePKs : HolderRights(c, pk, u) = c.users[u].rights[pk]

\* The index enforcement looks rows up in is the live rows, each under its own key: deleting a slug's root
\* loses none of its criterias, and a stale row's pk leaves nothing behind.
IndexIsTheLiveRows ==
  c.index = [k \in {c.resources[x].key : x \in Live(c.resources)} |->
               CHOOSE x \in Live(c.resources) : c.resources[x].key = k]

\* The three questions agree, for any user and any criteria, mapped or not: one that may throw (Check), one
\* that requires enforcement (CheckEnforced) and the mask (ScopedRights).
AnswersAgree ==
  \A u \in UserPKs, key \in UNION {RowKeys[x] : x \in ResourcePKs}, bit \in Bits :
    LET scoped == ScopedRights(c, key[1], key[2], u)
    IN  /\ Check(c, key[1], key[2], bit, u) = (bit \in scoped.rights)
        /\ CheckEnforced(c, key[1], key[2], bit, u) = (bit \in scoped.rights /\ scoped.enforced)
=============================================================================
