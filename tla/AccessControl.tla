--------------------------- MODULE AccessControl ---------------------------
(***************************************************************************)
(* Who a request comes from and what its user may do: the authenticators   *)
(* and the role-based authorizer of krake/api/auth.py, and the             *)
(* authentication middleware of krake/api/middlewares.py.                  *)
(***************************************************************************)
EXTENDS ResourceKinds, SequencesExt

Anonymous == "system:anonymous"

\* An authenticator, given what came with the request, returns a user, None
\* or the error of an invalid token
Unauthorized == "unauthorized"
StaticAuthentication(credentials, name) == name
ClientCertificate(credentials) == credentials.certificate
\* keystone_authentication and keycloak_authentication: the service that issued
\* the token is asked whose it is
KeystoneAuthentication(credentials) ==
    CASE credentials.token = Null -> Null
      [] credentials.token = "invalid" -> Unauthorized
      [] OTHER -> credentials.token
KeycloakAuthentication(credentials) == KeystoneAuthentication(credentials)

\* load_authentication: one strategy, and client certificates over TLS
Authenticators(config, credentials) ==
    (CASE config.strategy = "static" -> <<StaticAuthentication(credentials, "system")>>
       [] config.strategy = "keystone" -> <<KeystoneAuthentication(credentials)>>
       [] config.strategy = "keycloak" -> <<KeycloakAuthentication(credentials)>>
       [] OTHER -> <<>>)
      \o (IF config.tls THEN <<ClientCertificate(credentials)>> ELSE <<>>)

\* auth_middleware: the first authenticator that knows the user
User(config, credentials) ==
    LET known == SelectSeq(Authenticators(config, credentials), LAMBDA u : u # Null)
    IN  CASE known # <<>> -> known[1]
          [] known = <<>> /\ config.allow_anonymous -> Anonymous
          [] OTHER -> Unauthorized

-----------------------------------------------------------------------------
\* Faulty variant of RuleGrants: any namespace will do
RuleGrantsAnywhere(rule, request) ==
    /\ rule.api \in {request.api, ""}
    /\ request.verb \in rule.verbs
    /\ request.resource \in rule.resources \/ <<"">> \in rule.resources

\* The innermost part of rbac: does a rule of a role allow the request?
RuleGrants(rule, request) ==
    /\ rule.api \in {request.api, ""}
    /\ request.verb \in rule.verbs
    /\ request.resource \in rule.resources \/ <<"">> \in rule.resources
    /\ \/ request.namespace = Null
       \/ request.namespace \in rule.namespaces
       \/ "" \in rule.namespaces

Grants(role, request) == \E rule \in role.rules : RuleGrants(rule, request)

\* Faulty variant of RolesOf: a binding that does not name the user takes its
\* roles out of the ones to look at all the same
RolesOfSeen(bindings, user) ==
    LET Step(acc, b) ==
          [seen |-> acc.seen \cup {b.roles[i] : i \in DOMAIN b.roles},
           roles |-> IF user \in b.users
                       THEN acc.roles \o SelectSeq(b.roles, LAMBDA r : r \notin acc.seen)
                       ELSE acc.roles]
    IN  FoldLeft(Step, [seen |-> {}, roles |-> <<>>], bindings).roles

\* _fetch_roles: the names of the roles of a user, each once, in the order of
\* the bindings
RolesOf(bindings, user) ==
    LET named == FlattenSeq([i \in DOMAIN bindings |->
                   IF user \in bindings[i].users THEN bindings[i].roles ELSE <<>>])
    IN  FoldLeft(LAMBDA roles, r : IF Contains(roles, r) THEN roles ELSE Append(roles, r),
                 <<>>, named)
=============================================================================
