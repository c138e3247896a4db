------------------------------- MODULE Identity -------------------------------
(***************************************************************************)
(* Who a request is from: JWT verification (packages/identity/src/jwt),    *)
(* the kernel's tenant resolution (packages/http/src/middleware.ts), the   *)
(* resolver that packages/identity offers beside it, and role-based        *)
(* permissions in TypeScript (packages/identity/src/rbac) and in Rust      *)
(* (crates/permissions).                                                   *)
(*                                                                         *)
(* A host is the sequence of its labels, without its port; that of a       *)
(* missing or empty Host header is the empty one. A token is NoValue (no   *)
(* bearer token), BadToken (jose rejects it) or the record of its claims,  *)
(* in which a missing claim is NoValue.                                    *)
(***************************************************************************)
EXTENDS Integers, FiniteSets, SequencesExt

CONSTANTS
    NoValue,    \* null, undefined, or a missing header or claim
    BadToken,
    Failure     \* the call throws, or returns Err

-----------------------------------------------------------------------------
(* packages/identity/src/jwt *)

\* The VerifiedToken of a token, or Failure.
verifyJWT(token) ==
    IF token = BadToken \/ token.sub = NoValue \/ token.tenant_id = NoValue
    THEN Failure
    ELSE [ userId   |-> token.sub,
           tenantId |-> token.tenant_id,
           role     |-> IF token.roles # <<>> THEN Head(token.roles)
                        ELSE IF token.role # NoValue THEN token.role
                        ELSE "member" ]

\* The claims the middleware goes on with: an absent or a rejected token leaves
\* the user unauthenticated.
ClaimsOf(token) ==
    IF token = NoValue \/ verifyJWT(token) = Failure THEN NoValue ELSE verifyJWT(token)

-----------------------------------------------------------------------------
(* Tenant resolution *)

\* The Host header, or else the host of the request's URL, as some runtimes and
\* synthetic requests have no such header.
resolveHost(req) == IF req.host # <<>> THEN req.host ELSE req.urlHost

\* The labels of one to three digits, but for leading zeros.
Numerals == {ToString(n) : n \in 0..999}

IsIpv4(host) == Len(host) = 4 /\ ToSet(host) \subseteq Numerals

\* The tenant that the host names, or NoValue.
HostTenant(host) ==
    IF ~IsIpv4(host) /\ Len(host) >= 3 /\ Head(host) \notin {"www", "api"}
    THEN Head(host) ELSE NoValue

\* The kernel's resolution order; Failure is the strict tenancy violation.
resolveTenant(req, claims, strict) ==
    IF req.tenantHeader # NoValue THEN req.tenantHeader
    ELSE IF claims # NoValue THEN claims.tenantId
    ELSE IF HostTenant(resolveHost(req)) # NoValue THEN HostTenant(resolveHost(req))
    ELSE IF strict THEN Failure
    ELSE "system"

\* The addresses among them are compared with a label and never match one.
ReservedLabels == {"www", "api", "localhost", "127.0.0.1", "0.0.0.0"}

\* The first label of the host unless it is reserved; the URL is not looked at.
ResolverHostTenant(host) ==
    IF host = <<>> \/ Head(host) \in ReservedLabels THEN NoValue ELSE Head(host)

\* The resolver of packages/identity, with no custom callback configured.
resolveIdentity(req, strict) ==
    LET claims == ClaimsOf(req.token)
        As(tenant, user, role) == [tenantId |-> tenant, userId |-> user, role |-> role]
    IN  IF req.tenantHeader # NoValue THEN As(req.tenantHeader, req.userHeader, "member")
        ELSE IF claims # NoValue THEN claims
        ELSE IF ResolverHostTenant(req.host) # NoValue
             THEN As(ResolverHostTenant(req.host), NoValue, "member")
        ELSE IF strict THEN As(Failure, NoValue, NoValue)
        ELSE As("system", NoValue, "anonymous")

-----------------------------------------------------------------------------
(* Permissions: the TypeScript bit masks *)

PERMISSIONS ==
    [ read |-> 1, write |-> 2, delete |-> 4, export |-> 8,
      admin |-> 16, billing |-> 32, impersonate |-> 64, sudo |-> 128 ]

ROLES ==
    [ owner |-> 255, admin |-> 63, billing |-> 41, member |-> 3, viewer |-> 1, anonymous |-> 0 ]

roleMask(role) == IF role \in DOMAIN ROLES THEN ROLES[role] ELSE 0

HasBit(mask, bit) == (mask \div bit) % 2 = 1

can(role, permission) ==
    permission \in DOMAIN PERMISSIONS /\ HasBit(roleMask(role), PERMISSIONS[permission])

canAll(role, permissions) == \A p \in permissions : can(role, p)

canAny(role, permissions) == \E p \in permissions : can(role, p)

-----------------------------------------------------------------------------
(* Permissions: the Rust registry, as the sets its masks are compiled from *)

default_roles ==
    [ owner   |-> {"read", "write", "delete", "export", "admin", "billing", "impersonate", "sudo"},
      admin   |-> {"read", "write", "delete", "export", "admin", "billing"},
      billing |-> {"read", "billing", "export"},
      member  |-> {"read", "write"},
      viewer  |-> {"read"} ]

\* check_by_name: Failure is UnknownPermission or UnknownRole.
check_by_name(role, permission) ==
    IF permission \notin DOMAIN PERMISSIONS \/ role \notin DOMAIN default_roles
    THEN Failure
    ELSE permission \in default_roles[role]

=============================================================================
