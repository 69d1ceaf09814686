----------------------------- MODULE Permissions -----------------------------
(***************************************************************************)
(* Roles, permissions and the checks on the claims of a token: rag-auth's  *)
(* rbac/ (permission.rs, role.rs, service.rs, middleware.rs).              *)
(*                                                                         *)
(* A permission "resource:action" is a pair, and the string of a claim is  *)
(* a pair as well; a role named in a claim is the name as it is spelt.     *)
(* One request is one value of permit.                                     *)
(***************************************************************************)
EXTENDS Integers, FiniteSets

CONSTANTS
    Claims,         \* [sub, tenant, roles, groups, permissions] of the tokens considered
    Subjects, AuthTenants,
    Owners,         \* owner_id of a resource: a subject or Nobody
    Nobody,
    AllowLists,     \* allowed_groups of a resource
    Required        \* permissions a route asks for

VARIABLE permit

----------------------------------------------------------------------------
(* Permissions and roles.                                                  *)

Permission ==
    {<<"document", a>> : a \in {"read", "write", "update", "delete"}}
    \cup {<<"query", a>> : a \in {"execute", "history"}}
    \cup {<<"ingestion", a>> : a \in {"submit", "view", "cancel"}}
    \cup {<<"user", a>> : a \in {"read", "create", "update", "delete"}}
    \cup ({"role", "group"} \X {"read", "manage"})
    \cup {<<"tenant", a>> : a \in {"read", "update"}}
    \cup {<<"admin", "access">>, <<"super", "admin">>}
    \cup {<<"apikey", a>> : a \in {"create", "read", "revoke"}}
    \cup {<<"audit", a>> : a \in {"read", "export"}}
    \cup {<<"usage", "read">>, <<"quota", "manage">>}

\* Who holds a token is somebody; a route asks for a permission there is.
ASSUME PermissionsAssumption ==
    /\ \A c \in Claims : c.sub # Nobody
    /\ Required \subseteq Permission

ForResource(resource) == {p \in Permission : p[1] = resource}

\* Permission::from_str: the names as_str gives, and no others.
PermissionNamed(text) == {p \in Permission : p = text}

Roles == {"anonymous", "user", "analyst", "engineer", "tenant_admin", "admin",
          "super_admin", "service"}

\* Role::from_str, which ignores case; a spelling says whether it is lower case.
Spellings == [name : Roles \cup {"tenantadmin", "superadmin", "reader", "writer", "owner"},
              lower : BOOLEAN]
Aliases == [tenantadmin |-> "tenant_admin", superadmin |-> "super_admin",
            reader |-> "user", writer |-> "engineer"]
RoleNamed(spelling) ==
    {r \in Roles : \/ r = spelling.name
                   \/ /\ spelling.name \in DOMAIN Aliases
                      /\ r = Aliases[spelling.name]}

AnonymousGrants == {<<"document", "read">>, <<"query", "execute">>}
UserGrants ==
    AnonymousGrants \cup {<<"document", "write">>, <<"query", "history">>,
                          <<"ingestion", "view">>, <<"apikey", "read">>}
AnalystGrants == UserGrants \cup {<<"audit", "read">>}
EngineerMore == {<<"document", "update">>, <<"ingestion", "submit">>, <<"apikey", "create">>}
\* The engineer who is made from the user.
EngineerGrantsOfUser == UserGrants \cup EngineerMore
EngineerGrants ==
    AnalystGrants \cup EngineerMore
TenantAdminGrants ==
    EngineerGrants
    \cup ForResource("user") \cup ForResource("role") \cup ForResource("group")
    \cup ForResource("tenant")
    \cup {<<"document", "delete">>, <<"ingestion", "cancel">>, <<"apikey", "revoke">>,
          <<"audit", "export">>, <<"usage", "read">>, <<"quota", "manage">>}
AdminGrants == TenantAdminGrants \cup {<<"admin", "access">>}

Grants(role) ==
    CASE role = "anonymous" -> AnonymousGrants
      [] role = "user" -> UserGrants
      [] role = "analyst" -> AnalystGrants
      [] role = "engineer" -> EngineerGrants
      [] role = "tenant_admin" -> TenantAdminGrants
      [] role = "admin" -> AdminGrants
      [] role = "super_admin" -> AdminGrants \cup {<<"super", "admin">>}
      [] role = "service" -> UserGrants \cup {<<"ingestion", "submit">>}

Level(role) ==
    CASE role = "anonymous" -> 0
      [] role \in {"user", "service"} -> 1
      [] role = "analyst" -> 2
      [] role = "engineer" -> 3
      [] role = "tenant_admin" -> 4
      [] role = "admin" -> 5
      [] role = "super_admin" -> 6

Implies(role, other) == Level(role) >= Level(other)

----------------------------------------------------------------------------
(* The checks of AuthorizationService.                                     *)

NamedRoles(claims) == UNION {RoleNamed(s) : s \in claims.roles}

HasRole(claims, name) == [name |-> name, lower |-> TRUE] \in claims.roles
HasPermission(claims, p) == p \in claims.permissions
IsSuperAdmin(claims) ==
    HasRole(claims, "super_admin") \/ HasPermission(claims, <<"super", "admin">>)

CheckPermission(claims, p) ==
    \/ IsSuperAdmin(claims)
    \/ HasPermission(claims, p)
    \/ \E r \in NamedRoles(claims) : p \in Grants(r)

HighestRoles(claims) ==
    {r \in NamedRoles(claims) : \A s \in NamedRoles(claims) : Level(r) >= Level(s)}

CheckRole(claims, required) ==
    \/ IsSuperAdmin(claims)
    \/ \E r \in HighestRoles(claims) : Implies(r, required)

CheckTenant(claims, tenant) == IsSuperAdmin(claims) \/ claims.tenant = tenant

CheckResourceAccess(claims, allowed, owner) ==
    \/ IsSuperAdmin(claims) \/ HasRole(claims, "admin")
    \/ HasPermission(claims, <<"admin", "access">>)
    \/ owner # Nobody /\ claims.sub = owner
    \/ allowed = {}
    \/ allowed \cap claims.groups # {}

CheckAll(claims, ps) == \A p \in ps : CheckPermission(claims, p)
CheckAny(claims, ps) == \E p \in ps : CheckPermission(claims, p)

EffectivePermissions(claims) ==
    (UNION {Grants(r) : r \in NamedRoles(claims)})
    \cup (UNION {PermissionNamed(t) : t \in claims.permissions})

----------------------------------------------------------------------------
(* The middleware. Missing: no claims in the request's extensions.          *)

Missing == [sub |-> Nobody]
Unrequired == "any"
NoPermission == <<"any", "any">>

Answer(status, passed) == [status |-> status, inner |-> passed]

\* AuthMiddleware::call and AuthError::into_response.
Layer(claims, permission, role) ==
    IF claims = Missing THEN Answer(401, FALSE)
    ELSE IF permission # NoPermission /\ ~CheckPermission(claims, permission) THEN Answer(403, FALSE)
    ELSE IF role # Unrequired /\ ~CheckRole(claims, role) THEN Answer(403, FALSE)
    ELSE Answer(200, TRUE)

PermInit == permit = [kind |-> "none"]

PassLayer ==
    \E c \in Claims \cup {Missing}, p \in Required \cup {NoPermission}, r \in Roles \cup {Unrequired} :
        permit' = [kind |-> "layer", claims |-> c, permission |-> p, role |-> r,
                   answer |-> Layer(c, p, r)]

CheckResource ==
    \E c \in Claims, t \in AuthTenants, allowed \in AllowLists, owner \in Owners :
        permit' = [kind |-> "resource", claims |-> c, tenant |-> t, allowed |-> allowed,
                   owner |-> owner, answer |-> CheckTenant(c, t) /\ CheckResourceAccess(c, allowed, owner)]

CheckSets ==
    \E c \in Claims, ps \in SUBSET Required :
        permit' = [kind |-> "set", claims |-> c, ps |-> ps,
                   all |-> CheckAll(c, ps), some |-> CheckAny(c, ps),
                   effective |-> EffectivePermissions(c)]

PermNext == permit.kind = "none" /\ (PassLayer \/ CheckResource \/ CheckSets)
PermSpec == PermInit /\ [][PermNext]_permit

----------------------------------------------------------------------------
(* Properties.                                                             *)

\* get_effective_permissions and check_permission are two readings of the claims:
\* for one who is no super admin they agree on every permission, and check_all and
\* check_any on every set of them.
EffectiveIsChecked ==
    permit.kind = "set" =>
        LET c == permit.claims
        IN /\ permit.effective \subseteq {p \in Permission : CheckPermission(c, p)}
           /\ ~IsSuperAdmin(c) =>
                  /\ permit.all <=> permit.ps \subseteq permit.effective
                  /\ permit.some <=> permit.ps \cap permit.effective # {}

\* What the layer lets through holds the permission of the route and may do all
\* that the role of the route may do: level() orders the roles as permissions()
\* does. Service is the exception, it ranks with the user and may submit as well.
RoleCarriesGrants ==
    permit.kind = "layer" /\ permit.answer.inner =>
        \A p \in Permission :
            \/ p = permit.permission
            \/ permit.role \notin {Unrequired, "service"} /\ p \in Grants(permit.role)
            => CheckPermission(permit.claims, p)

\* Who shares a group with a resource reaches it whoever owns it, its owner reaches
\* it whatever its groups are, and who holds more reaches no less.
MoreClaimsReachMore ==
    permit.kind = "resource" /\ CheckTenant(permit.claims, permit.tenant) =>
        LET c == permit.claims
        IN /\ \/ permit.allowed \cap c.groups # {}
              \/ permit.owner = c.sub
              => permit.answer
           /\ \A d \in Claims :
                  /\ d.sub = c.sub /\ d.tenant = c.tenant
                  /\ c.roles \subseteq d.roles /\ c.groups \subseteq d.groups
                  /\ c.permissions \subseteq d.permissions
                  /\ permit.answer
                  => CheckTenant(d, permit.tenant)
                     /\ CheckResourceAccess(d, permit.allowed, permit.owner)

\* Roles, explicit permissions and the levels of routes are read in several
\* places (claims, layers, resource checks): they grant alike.
GrantsAgree == EffectiveIsChecked /\ RoleCarriesGrants /\ MoreClaimsReachMore
=============================================================================
