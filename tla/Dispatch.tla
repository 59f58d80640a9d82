------------------------------ MODULE Dispatch ------------------------------
(***************************************************************************)
(* From a parsed request to a handler: the router (http/router.c), the     *)
(* policy table (api/rbac.c), the dispatcher that enforces it              *)
(* (api/routes.c), the access tokens it trusts (auth/jwt.c,                *)
(* auth/claims.c) and the one handler decided by identity, GET             *)
(* /v1/users/{userId} (api/user_api.c).  The other handlers have modules   *)
(* of their own; here they are "handled".                                  *)
(*                                                                         *)
(* Access tokens are not looked up anywhere: what they say was true when   *)
(* they were signed, and is believed until they expire.                    *)
(***************************************************************************)
EXTENDS Integers, Sequences, FiniteSets, FiniteSetsExt

CONSTANTS
    Ids,          \* user_ids that may come to exist
    AdminIds,     \* those created with ADMIN
    Paths,        \* request paths, as sequences of segments
    ParseInt64,   \* what ps_parse_int64 makes of a segment; others fail
    TTL,          \* access_token_ttl_s
    Skew,         \* PS_JWT_CLOCK_SKEW_S
    MaxTokens,    \* bound on the tokens signed
    MaxTime       \* bound on the clock

ASSUME DispatchAssumption ==
    /\ Ids \subseteq Int /\ AdminIds \subseteq Ids
    /\ {TTL, Skew, MaxTokens, MaxTime} \subseteq Nat

VARIABLES
    now,      \* the clock
    users,    \* users in the table, never deleted
    tokens,   \* access tokens signed so far
    audit,    \* ADMIN_USER_READ rows
    reply     \* what the last request came to

vars == <<now, users, tokens, audit, reply>>

Methods == {"GET", "POST"}
Roles == {"USER", "ADMIN"}
Token == [sub : Ids, roles : SUBSET Roles, nbf : Nat, exp : Nat]

\* Stand-ins for a missing header and for a token that fails verification for
\* another reason than time: form, algorithm, signature, issuer, audience.
Missing == [form |-> "missing"]
Invalid == [form |-> "invalid"]
-----------------------------------------------------------------------------
\* ps_routes_register
Route(method, pattern, id) == [method |-> method, pattern |-> pattern, id |-> id]

Routes ==
    << Route("GET",  <<"healthz">>,                         "HEALTHZ"),
       Route("GET",  <<"readyz">>,                          "READYZ"),
       Route("POST", <<"v1", "auth", "register">>,          "REGISTER"),
       Route("POST", <<"v1", "auth", "verify">>,            "VERIFY"),
       Route("POST", <<"v1", "auth", "resend-verification">>, "RESEND"),
       Route("POST", <<"v1", "auth", "login">>,             "LOGIN"),
       Route("POST", <<"v1", "auth", "refresh">>,           "REFRESH"),
       Route("POST", <<"v1", "auth", "logout">>,            "LOGOUT"),
       Route("POST", <<"v1", "auth", "password">>,          "PASSWORD_CHANGE"),
       Route("GET",  <<"v1", "users", "{userId}">>,         "GET_USER"),
       Route("GET",  <<"v1", "admin", "users", "count">>,   "ADMIN_COUNT_USERS"),
       Route("GET",  <<"v1", "admin", "users">>,            "ADMIN_LIST_USERS") >>

\* match_path: as many segments, each equal or captured, never empty.
MatchPath(pattern, path) ==
    /\ Len(pattern) = Len(path)
    /\ \A i \in DOMAIN path :
          \/ pattern[i] = path[i]
          \/ pattern[i] = "{userId}" /\ path[i] # ""

OnPath(path) == {i \in DOMAIN Routes : MatchPath(Routes[i].pattern, path)}

Matches(method, path) == {i \in OnPath(path) : Routes[i].method = method}

\* ps_router_match: the first entry that matches path and method.
RouterMatch(method, path) ==
    IF Matches(method, path) # {} THEN Routes[Min(Matches(method, path))].id
    ELSE IF OnPath(path) # {} THEN "METHOD_NOT_ALLOWED"
    ELSE "NOT_FOUND"

\* PS_RBAC_POLICIES
Policy(id) ==
    IF id \in {"HEALTHZ", "READYZ", "REGISTER", "VERIFY", "RESEND", "LOGIN",
               "REFRESH"}                                     THEN "PUBLIC"
    ELSE IF id \in {"LOGOUT", "PASSWORD_CHANGE"}             THEN "AUTHENTICATED"
    ELSE IF id = "GET_USER"                                  THEN "SELF_OR_ROLE"
    ELSE IF id \in {"ADMIN_COUNT_USERS", "ADMIN_LIST_USERS"} THEN "ROLE"
    ELSE "NONE"
-----------------------------------------------------------------------------
NeverExpires_Authentic(bearer) ==
    bearer \notin {Missing, Invalid} /\ now >= bearer.nbf - Skew

\* ps_auth_authenticate_bearer and the time checks of ps_claims_parse.
Authentic(bearer) ==
    /\ bearer \notin {Missing, Invalid}
    /\ now <= bearer.exp + Skew
    /\ now >= bearer.nbf - Skew

\* ps_rbac_check; every role policy of the table requires ADMIN.
Allows(policy, bearer, target) ==
    /\ policy = "ROLE"         => "ADMIN" \in bearer.roles
    /\ policy = "SELF_OR_ROLE" => bearer.sub = target \/ "ADMIN" \in bearer.roles

\* sub and target are Nobody where the request has none.
Nobody == -1

Reply(id, status, view, sub, target) ==
    [route |-> id, status |-> status, view |-> view, sub |-> sub,
     target |-> target, at |-> now]

Refused(id, status) == Reply(id, status, "none", Nobody, Nobody)

\* user_write_self has the address, user_write_admin cannot have it.
View(bearer, target) == IF bearer.sub = target THEN "self" ELSE "admin"

AuditSelf_GetUser(bearer, target) ==
    IF target \notin users
    THEN reply' = Refused("GET_USER", 404) /\ UNCHANGED audit
    ELSE /\ reply' = Reply("GET_USER", 200, View(bearer, target), bearer.sub, target)
         /\ audit' = audit \cup {<<bearer.sub, target>>}

\* ps_user_handle_get_user.  The audit row is best effort.
GetUser(bearer, target) ==
    IF target \notin users
    THEN reply' = Refused("GET_USER", 404) /\ UNCHANGED audit
    ELSE /\ reply' = Reply("GET_USER", 200, View(bearer, target), bearer.sub, target)
         /\ \/ bearer.sub # target /\ audit' = audit \cup {<<bearer.sub, target>>}
            \/ UNCHANGED audit

\* ps_routes_dispatch
Enforce(id, bearer, segment) ==
    LET policy == Policy(id)
        target == IF policy = "SELF_OR_ROLE" THEN ParseInt64[segment] ELSE Nobody
    IN  IF policy = "NONE" \/ (policy # "PUBLIC" /\ ~Authentic(bearer))
        THEN reply' = Refused(id, 401) /\ UNCHANGED audit
        ELSE IF policy = "SELF_OR_ROLE" /\ segment \notin DOMAIN ParseInt64
        THEN reply' = Refused(id, 400) /\ UNCHANGED audit
        ELSE IF ~Allows(policy, bearer, target)
        THEN reply' = Refused(id, 403) /\ UNCHANGED audit
        ELSE IF id = "GET_USER" THEN GetUser(bearer, target)
        ELSE /\ reply' = Reply(id, 200, "handled",
                               IF policy = "PUBLIC" THEN Nobody ELSE bearer.sub,
                               Nobody)
             /\ UNCHANGED audit

\* A request arrives; OPTIONS never gets here (HttpConnection).
Request ==
    /\ \E method \in Methods, path \in Paths,
          bearer \in tokens \cup {Missing, Invalid} :
          LET id == RouterMatch(method, path)
          IN  IF id \in {"NOT_FOUND", "METHOD_NOT_ALLOWED"}
              THEN /\ reply' = Refused(id, IF id = "NOT_FOUND" THEN 404 ELSE 405)
                   /\ UNCHANGED audit
              ELSE Enforce(id, bearer, path[Len(path)])
    /\ UNCHANGED <<now, users, tokens>>

\* A row and its roles are committed together; roles never change after.
Create ==
    /\ \E u \in Ids \ users : users' = users \cup {u}
    /\ UNCHANGED <<now, tokens, audit, reply>>

\* ps_user_store_get_roles
RolesOf(u) == IF u \in AdminIds THEN Roles ELSE {"USER"}

\* build_access_token, at login and at every refresh.
Issue ==
    /\ Cardinality(tokens) < MaxTokens
    /\ \E u \in users :
          tokens' = tokens \cup {[sub |-> u, roles |-> RolesOf(u),
                                  nbf |-> now, exp |-> now + TTL]}
    /\ UNCHANGED <<now, users, audit, reply>>

Tick ==
    /\ now < MaxTime
    /\ now' = now + 1
    /\ UNCHANGED <<users, tokens, audit, reply>>

Init ==
    /\ now = 0
    /\ users = {}
    /\ tokens = {}
    /\ audit = {}
    /\ reply = Refused("NOT_FOUND", 404)

Next == Request \/ Create \/ Issue \/ Tick

Spec == Init /\ [][Next]_vars
-----------------------------------------------------------------------------
\* Tables and tokens have the declared shape.
TypeOK ==
    /\ now \in 0 .. MaxTime
    /\ users \subseteq Ids
    /\ tokens \subseteq Token
    /\ audit \subseteq Ids \X Ids
    /\ reply.status \in {200, 400, 401, 403, 404, 405}

\* Whoever reached a handler that is not on the public list of seven holds a
\* token signed for that user, at most TTL and the skew ago, and what the route
\* asks for is true of the user in the table, not only in the token; the view
\* with the e-mail address goes to its owner alone (user_api.c:31).
OnlyEntitled ==
    LET public == {"HEALTHZ", "READYZ", "REGISTER", "VERIFY", "RESEND", "LOGIN",
                   "REFRESH"}
    IN  reply.status = 200 /\ reply.route \notin public =>
          /\ reply.sub \in users
          /\ \E t \in tokens : t.sub = reply.sub /\ reply.at <= t.nbf + TTL + Skew
          /\ reply.route \in {"ADMIN_COUNT_USERS", "ADMIN_LIST_USERS"} =>
                reply.sub \in AdminIds
          /\ reply.route = "GET_USER" =>
                /\ reply.sub = reply.target \/ reply.sub \in AdminIds
                /\ reply.view = "self" <=> reply.sub = reply.target

\* ADMIN_USER_READ rows name an administrator and somebody else: "when an
\* admin reads someone else's record, and not when a user reads their own"
\* (user_api.c:104).
AuditHonest ==
    TypeOK /\ \A row \in audit : row[1] \in AdminIds /\ row[1] # row[2] /\ row[2] \in users
=============================================================================
