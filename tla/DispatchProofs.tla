---------------------------- MODULE DispatchProofs --------------------------
(***************************************************************************)
(* Dispatch for any users, paths, lifetimes and clock: what a handler that *)
(* is not public was reached with, and what the audit rows say.  The proof *)
(* needs the routes only through their policy.                             *)
(***************************************************************************)
EXTENDS Dispatch, TLAPS

\* What a signed token says is true of its user, and stays true.
TokensTrue ==
    \A t \in tokens :
        /\ t.sub \in users
        /\ t.exp = t.nbf + TTL
        /\ "ADMIN" \in t.roles => t.sub \in AdminIds

IInv == AuditHonest /\ TokensTrue /\ OnlyEntitled

LEMMA InitEntitles == Init => IInv
BY DispatchAssumption
   DEF Init, IInv, AuditHonest, TypeOK, TokensTrue, OnlyEntitled, Refused, Reply

\* A request that is refused satisfies whatever is said of answered ones.
LEMMA RefusalEntitles ==
    ASSUME IInv, UNCHANGED <<now, users, tokens, audit>>,
           NEW id, NEW status \in {400, 401, 403, 404, 405},
           reply' = Refused(id, status)
    PROVE  IInv'
BY DEF IInv, AuditHonest, TypeOK, TokensTrue, OnlyEntitled, Refused, Reply

\* A bearer that passes the time checks is a token signed at most TTL and the
\* skew ago.
LEMMA AuthenticSigned ==
    ASSUME IInv, NEW bearer \in tokens \cup {Missing, Invalid}, Authentic(bearer)
    PROVE  /\ bearer \in tokens
           /\ bearer.sub \in users /\ bearer.sub \in Ids
           /\ now <= bearer.nbf + TTL + Skew
           /\ "ADMIN" \in bearer.roles => bearer.sub \in AdminIds
BY DispatchAssumption DEF IInv, TokensTrue, AuditHonest, TypeOK, Token, Authentic

LEMMA GetUserEntitles ==
    ASSUME IInv, UNCHANGED <<now, users, tokens>>,
           NEW bearer \in tokens \cup {Missing, Invalid}, Authentic(bearer), NEW target,
           bearer.sub = target \/ "ADMIN" \in bearer.roles,
           GetUser(bearer, target)
    PROVE  IInv'
<1>1. CASE target \notin users
    BY <1>1, RefusalEntitles DEF GetUser
<1>2. CASE target \in users
    <2>1. reply' = Reply("GET_USER", 200, View(bearer, target), bearer.sub, target)
        BY <1>2 DEF GetUser
    <2>2. \/ audit' = audit
          \/ bearer.sub # target /\ audit' = audit \cup {<<bearer.sub, target>>}
        BY <1>2 DEF GetUser
    <2>3. TokensTrue'
        BY DEF IInv, TokensTrue
    <2>4. OnlyEntitled'
        BY <2>1, AuthenticSigned, DispatchAssumption
           DEF OnlyEntitled, Reply, View
    <2>5. AuditHonest'
        BY <1>2, <2>1, <2>2, AuthenticSigned DEF IInv, AuditHonest, TypeOK, Reply
    <2>6. QED
        BY <2>3, <2>4, <2>5 DEF IInv
<1>3. QED
    BY <1>1, <1>2

\* One step per way through ps_routes_dispatch.
LEMMA EnforceEntitles ==
    ASSUME IInv, UNCHANGED <<now, users, tokens>>,
           NEW bearer \in tokens \cup {Missing, Invalid}, NEW id, NEW segment,
           Enforce(id, bearer, segment)
    PROVE  IInv'
<1> DEFINE policy == Policy(id)
           target == IF policy = "SELF_OR_ROLE" THEN ParseInt64[segment] ELSE Nobody
<1>1. CASE policy = "NONE" \/ (policy # "PUBLIC" /\ ~Authentic(bearer))
    BY <1>1, RefusalEntitles DEF Enforce
<1>2. CASE /\ ~(policy = "NONE" \/ (policy # "PUBLIC" /\ ~Authentic(bearer)))
           /\ policy = "SELF_OR_ROLE" /\ segment \notin DOMAIN ParseInt64
    BY <1>2, RefusalEntitles DEF Enforce
<1>3. CASE /\ ~(policy = "NONE" \/ (policy # "PUBLIC" /\ ~Authentic(bearer)))
           /\ ~(policy = "SELF_OR_ROLE" /\ segment \notin DOMAIN ParseInt64)
           /\ ~Allows(policy, bearer, target)
    BY <1>3, RefusalEntitles DEF Enforce
<1>4. CASE /\ ~(policy = "NONE" \/ (policy # "PUBLIC" /\ ~Authentic(bearer)))
           /\ ~(policy = "SELF_OR_ROLE" /\ segment \notin DOMAIN ParseInt64)
           /\ Allows(policy, bearer, target)
    <2>1. CASE id = "GET_USER"
        <3>1. policy = "SELF_OR_ROLE"
            BY <2>1 DEF Policy
        <3>2. Authentic(bearer) /\ (bearer.sub = target \/ "ADMIN" \in bearer.roles)
            BY <1>4, <3>1 DEF Allows
        <3>3. GetUser(bearer, target)
            BY <1>4, <2>1 DEF Enforce
        <3>4. QED
            BY <3>2, <3>3, GetUserEntitles
    <2>2. CASE id # "GET_USER"
        <3>1. /\ reply' = Reply(id, 200, "handled",
                                IF policy = "PUBLIC" THEN Nobody ELSE bearer.sub, Nobody)
              /\ audit' = audit
            BY <1>4, <2>2 DEF Enforce
        <3>2. TokensTrue' /\ AuditHonest'
            BY <3>1 DEF IInv, TokensTrue, AuditHonest, TypeOK, Reply
        <3>3. OnlyEntitled'
            <4>1. CASE policy = "PUBLIC"
                BY <3>1, <4>1 DEF OnlyEntitled, Reply, Policy
            <4>2. CASE policy # "PUBLIC"
                <5>1. Authentic(bearer)
                    BY <1>4, <4>2
                <5>2. id \in {"ADMIN_COUNT_USERS", "ADMIN_LIST_USERS"} =>
                          "ADMIN" \in bearer.roles
                    BY <1>4 DEF Policy, Allows
                <5>3. QED
                    BY <2>2, <3>1, <4>2, <5>1, <5>2, AuthenticSigned DEF OnlyEntitled, Reply
            <4>3. QED
                BY <4>1, <4>2
        <3>4. QED
            BY <3>2, <3>3 DEF IInv
    <2>3. QED
        BY <2>1, <2>2
<1>5. QED
    BY <1>1, <1>2, <1>3, <1>4

LEMMA NextEntitles == IInv /\ [Next]_vars => IInv'
<1> SUFFICES ASSUME IInv, [Next]_vars
             PROVE  IInv'
    OBVIOUS
<1>1. CASE UNCHANGED vars
    BY <1>1 DEF vars, IInv, AuditHonest, TypeOK, TokensTrue, OnlyEntitled
<1>2. CASE Request
    <2>1. PICK method \in Methods, path \in Paths, bearer \in tokens \cup {Missing, Invalid} :
              LET id == RouterMatch(method, path)
              IN  IF id \in {"NOT_FOUND", "METHOD_NOT_ALLOWED"}
                  THEN /\ reply' = Refused(id, IF id = "NOT_FOUND" THEN 404 ELSE 405)
                       /\ UNCHANGED audit
                  ELSE Enforce(id, bearer, path[Len(path)])
        BY <1>2 DEF Request
    <2> DEFINE id == RouterMatch(method, path)
    <2>2. UNCHANGED <<now, users, tokens>>
        BY <1>2 DEF Request
    <2>3. CASE id \in {"NOT_FOUND", "METHOD_NOT_ALLOWED"}
        BY <2>1, <2>2, <2>3, RefusalEntitles
    <2>4. CASE id \notin {"NOT_FOUND", "METHOD_NOT_ALLOWED"}
        <3>1. Enforce(id, bearer, path[Len(path)])
            BY <2>1, <2>4
        <3> HIDE DEF id
        <3>2. QED
            BY <2>2, <3>1, EnforceEntitles
    <2>5. QED
        BY <2>3, <2>4
<1>3. CASE Create
    BY <1>3 DEF Create, IInv, AuditHonest, TypeOK, TokensTrue, OnlyEntitled
<1>4. CASE Issue
    <2>1. PICK u \in users :
              tokens' = tokens \cup {[sub |-> u, roles |-> RolesOf(u),
                                      nbf |-> now, exp |-> now + TTL]}
        BY <1>4 DEF Issue
    <2>2. UNCHANGED <<now, users, audit, reply>>
        BY <1>4 DEF Issue
    <2>3. RolesOf(u) \subseteq Roles /\ ("ADMIN" \in RolesOf(u) => u \in AdminIds)
        BY DEF RolesOf, Roles
    <2>4. [sub |-> u, roles |-> RolesOf(u), nbf |-> now, exp |-> now + TTL] \in Token
        BY <2>3, DispatchAssumption DEF IInv, AuditHonest, TypeOK, Token
    <2>5. AuditHonest'
        BY <2>1, <2>2, <2>4 DEF IInv, AuditHonest, TypeOK
    <2>6. TokensTrue'
        BY <2>1, <2>2, <2>3 DEF IInv, TokensTrue
    <2>7. OnlyEntitled'
        BY <2>1, <2>2 DEF IInv, OnlyEntitled
    <2>8. QED
        BY <2>5, <2>6, <2>7 DEF IInv
<1>5. CASE Tick
    BY <1>5, DispatchAssumption DEF Tick, IInv, AuditHonest, TypeOK, TokensTrue, OnlyEntitled
<1>6. QED
    BY <1>1, <1>2, <1>3, <1>4, <1>5 DEF Next

LEMMA DispatchInvariant == Spec => []IInv
BY InitEntitles, NextEntitles, PTL DEF Spec

\* Whoever was answered by a handler that is not public held a token signed
\* for that user within its lifetime and the skew, and is in the table what
\* the route's policy asks for (ps_routes_dispatch, ps_rbac_check).
THEOREM DispatchOnlyEntitled == Spec => []OnlyEntitled
<1>1. IInv => OnlyEntitled
    BY DEF IInv
<1>2. QED
    BY <1>1, DispatchInvariant, PTL

\* Every ADMIN_USER_READ row names an administrator and another, existing
\* user (ps_user_handle_get_user).
THEOREM DispatchAuditHonest == Spec => []AuditHonest
<1>1. IInv => AuditHonest
    BY DEF IInv
<1>2. QED
    BY <1>1, DispatchInvariant, PTL
=============================================================================
