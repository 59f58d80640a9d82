------------------------------ MODULE Sessions ------------------------------
(***************************************************************************)
(* Login sessions: session families and rotating refresh tokens            *)
(* (auth/session.c, store/session_store.c), the four handlers of           *)
(* api/auth_api.c that touch them (login, refresh, logout, password        *)
(* change), and the part of the maintenance sweep that removes them.       *)
(*                                                                         *)
(* Workers run requests side by side.  A read outside a transaction is one *)
(* step.  A BEGIN IMMEDIATE ... COMMIT block is one step: SQLite admits    *)
(* one writer at a time and shows nothing before COMMIT.  Between the      *)
(* steps of a request anything may happen: other requests, the sweep, the  *)
(* clock, a crash.                                                         *)
(***************************************************************************)
EXTENDS Naturals, FiniteSets, Functions

CONSTANTS
    Workers,       \* worker threads, each running at most one request
    Users,         \* registered accounts
    Passwords,     \* passwords a client may send
    Families,      \* session family ids, 128 random bits in the code
    Tokens,        \* refresh tokens, 256 random bits in the code
    IdleTTL,       \* refresh_idle_ttl_s
    AbsoluteTTL,   \* refresh_absolute_ttl_s
    AccessTTL,     \* access_token_ttl_s plus the accepted clock skew
    RevokedGrace,  \* the 30 days a revoked family is kept
    BatchSize,     \* rows one sweep statement removes at most
    MaxTime,       \* bound on the clock
    StoreFaults    \* whether single statements may fail on their own

ASSUME ConstantsAssumption ==
    /\ {IdleTTL, AbsoluteTTL, AccessTTL, RevokedGrace, MaxTime} \subseteq Nat
    /\ BatchSize \in Nat \ {0}
    /\ StoreFaults \in BOOLEAN

VARIABLES
    now,              \* wall clock, in seconds; 0 stands for SQL NULL
    password,         \* users.password_hash, as the password it accepts
    session_families, \* family id -> row
    refresh_tokens,   \* token (hash) -> row
    usedFamilies,     \* ids ever drawn: random ids never repeat
    usedTokens,       \* tokens ever drawn
    held,             \* refresh tokens some client has received
    access_tokens,    \* claims of the access tokens clients have received
    acknowledged,     \* families reported ended: logout 204, reuse detected
    req,              \* the request each worker is running
    sweeper           \* the maintenance thread

tables  == <<password, session_families, refresh_tokens>>
ids     == <<usedFamilies, usedTokens>>
clients == <<held, access_tokens>>
vars    == <<now, tables, ids, clients, acknowledged, req, sweeper>>
-----------------------------------------------------------------------------
Time == Nat

\* `pw` is a history field, not a column: the password that last vouched for
\* the session, at its login or at a password change made from it.
FamilyRow == [user : Users, absolute_exp : Time, revoked_at : Time,
              pw : Passwords]

TokenRow == [family : Families, generation : Nat, idle_exp : Time,
             consumed : BOOLEAN]

Claims == [user : Users, family : Families, exp : Time]

Idle == [op |-> "idle"]

Requests ==
    {Idle}
    \cup [op : {"login_read", "login_txn"}, user : Users, pw : Passwords,
          t : Time]
    \cup [op : {"refresh_txn"}, token : Tokens, t : Time]
    \cup [op : {"logout_token"}, user : Users, token : Tokens, t : Time]
    \cup [op : {"logout_family", "logout_txn"}, user : Users,
          family : Families, t : Time]
    \cup [op : {"password_read", "password_txn"}, user : Users,
          family : Families, pw : Passwords, new : Passwords, t : Time]
    \cup [op : {"respond"}, user : Users, family : Families, token : Tokens,
          t : Time]

Asleep == [pc |-> "sleep", t |-> 0]

Sweeps == {Asleep} \cup [pc : {"tokens", "families"}, t : Time]

EmptyTable == [k \in {} |-> Idle]

InsertRow(table, key, row) ==
    [k \in DOMAIN table \cup {key} |-> IF k = key THEN row ELSE table[k]]

DeleteRows(table, keys) == Restrict(table, DOMAIN table \ keys)

Become(w, r) == req' = [req EXCEPT ![w] = r]
-----------------------------------------------------------------------------
Init ==
    /\ now = 1
    /\ password \in [Users -> Passwords]
    /\ session_families = EmptyTable
    /\ refresh_tokens = EmptyTable
    /\ usedFamilies = {}
    /\ usedTokens = {}
    /\ held = {}
    /\ access_tokens = {}
    /\ acknowledged = {}
    /\ req = [w \in Workers |-> Idle]
    /\ sweeper = Asleep

Tick ==
    /\ now < MaxTime
    /\ now' = now + 1
    /\ UNCHANGED <<tables, ids, clients, acknowledged, req, sweeper>>
-----------------------------------------------------------------------------
(***************************************************************************)
(* Revoke is the UPDATE with `revoked_at IS NULL` in its WHERE clause: a   *)
(* first revocation time is never overwritten.                             *)
(***************************************************************************)
Revoke(rows, t) ==
    [f \in DOMAIN session_families |->
        IF f \in rows /\ session_families[f].revoked_at = 0
        THEN [session_families[f] EXCEPT !.revoked_at = t]
        ELSE session_families[f]]

\* A statement of worker w's request fails, or its COMMIT: nothing is written.
\* The client gets a 500, or, since a failing lookup looks like an empty one,
\* the answer to an unknown token.
Fail(w) ==
    /\ req[w].op \notin {"idle", "respond"}
    /\ Become(w, Idle)
    /\ UNCHANGED <<now, tables, ids, clients, acknowledged, sweeper>>
-----------------------------------------------------------------------------
(***************************************************************************)
(* POST /v1/auth/login.  The clock is read first, then the user row, and   *)
(* only then does the transaction start.  Whether the account is ACTIVE    *)
(* and unlocked is the subject of another module: here it is a free        *)
(* choice.  A failing login writes lockout columns and audit rows only.    *)
(***************************************************************************)
LoginArrive(w) ==
    /\ req[w].op = "idle"
    /\ \E u \in Users, p \in Passwords :
          Become(w, [op |-> "login_read", user |-> u, pw |-> p, t |-> now])
    /\ UNCHANGED <<now, tables, ids, clients, acknowledged, sweeper>>

LoginRead(w) ==
    /\ req[w].op = "login_read"
    /\ \E admitted \in BOOLEAN :
          Become(w, IF password[req[w].user] = req[w].pw /\ admitted
                    THEN [req[w] EXCEPT !.op = "login_txn"]
                    ELSE Idle)
    /\ UNCHANGED <<now, tables, ids, clients, acknowledged, sweeper>>

NewFamily(user, pw, t) ==
    [user |-> user, absolute_exp |-> t + AbsoluteTTL, revoked_at |-> 0,
     pw |-> pw]

NewToken(f, generation, t) ==
    [family |-> f, generation |-> generation, idle_exp |-> t + IdleTTL,
     consumed |-> FALSE]

\* ps_session_create: a fresh family and its first token.
CreateSession(f, tk, r) ==
    /\ session_families' =
          InsertRow(session_families, f, NewFamily(r.user, r.pw, r.t))
    /\ refresh_tokens' = InsertRow(refresh_tokens, tk, NewToken(f, 1, r.t))
    /\ usedFamilies' = usedFamilies \cup {f}
    /\ usedTokens' = usedTokens \cup {tk}

LoginTxn(w) ==
    /\ req[w].op = "login_txn"
    /\ \E f \in Families \ usedFamilies, tk \in Tokens \ usedTokens :
          /\ CreateSession(f, tk, req[w])
          /\ Become(w, [op |-> "respond", user |-> req[w].user, family |-> f,
                        token |-> tk, t |-> req[w].t])
    /\ UNCHANGED <<now, password, clients, acknowledged, sweeper>>

\* After COMMIT the token pair is built and sent.  The client may never see
\* it: building it fails with a 500, or the connection is gone.
Respond(w) ==
    /\ req[w].op = "respond"
    /\ \/ /\ held' = held \cup {req[w].token}
          /\ access_tokens' = access_tokens \cup
                {[user |-> req[w].user, family |-> req[w].family,
                  exp |-> req[w].t + AccessTTL]}
       \/ UNCHANGED clients
    /\ Become(w, Idle)
    /\ UNCHANGED <<now, tables, ids, acknowledged, sweeper>>
-----------------------------------------------------------------------------
(***************************************************************************)
(* POST /v1/auth/refresh, one transaction around ps_session_refresh.       *)
(***************************************************************************)
RefreshArrive(w) ==
    /\ req[w].op = "idle"
    /\ \E tk \in held :
          Become(w, [op |-> "refresh_txn", token |-> tk, t |-> now])
    /\ UNCHANGED <<now, tables, ids, clients, acknowledged, sweeper>>

\* The lookups of session_store.c, as whether they find a row.
GetToken(tk) == tk \in DOMAIN refresh_tokens

GetFamily(f) == f \in DOMAIN session_families

\* Both rows ps_session_refresh reads before it decides anything.
Known(tk) == GetToken(tk) /\ GetFamily(refresh_tokens[tk].family)

\* An unknown token is a 401; a token whose family is missing is a 500.
RefreshUnknown(w) ==
    /\ req[w].op = "refresh_txn"
    /\ ~Known(req[w].token)
    /\ Become(w, Idle)
    /\ UNCHANGED <<now, tables, ids, clients, acknowledged, sweeper>>

\* A consumed token: the family is revoked.  The return value of the UPDATE
\* is ignored, so when that one statement fails the rest still commits.
RefreshReuse(w) ==
    LET tk == req[w].token
        f  == refresh_tokens[tk].family
    IN  /\ req[w].op = "refresh_txn"
        /\ Known(tk)
        /\ refresh_tokens[tk].consumed
        /\ \/ session_families' = Revoke({f}, req[w].t)
           \/ StoreFaults /\ UNCHANGED session_families
        /\ acknowledged' = acknowledged \cup {f}
        /\ Become(w, Idle)
        /\ UNCHANGED <<now, password, refresh_tokens, ids, clients, sweeper>>

NoRevokedCheck_Rotatable(tk, t) ==
    /\ session_families[refresh_tokens[tk].family].absolute_exp >= t
    /\ refresh_tokens[tk].idle_exp >= t

NoAbsoluteCheck_Rotatable(tk, t) ==
    /\ session_families[refresh_tokens[tk].family].revoked_at = 0
    /\ refresh_tokens[tk].idle_exp >= t

Rotatable(tk, t) ==
    /\ session_families[refresh_tokens[tk].family].revoked_at = 0
    /\ session_families[refresh_tokens[tk].family].absolute_exp >= t
    /\ refresh_tokens[tk].idle_exp >= t

Consume(tk) == [refresh_tokens EXCEPT ![tk].consumed = TRUE]

\* Revoked or expired: the token is consumed all the same, nothing replaces it.
RefreshDead(w) ==
    LET tk == req[w].token
    IN  /\ req[w].op = "refresh_txn"
        /\ Known(tk)
        /\ ~refresh_tokens[tk].consumed
        /\ ~Rotatable(tk, req[w].t)
        /\ refresh_tokens' = Consume(tk)
        /\ Become(w, Idle)
        /\ UNCHANGED <<now, password, session_families, ids, clients,
                       acknowledged, sweeper>>

SameGeneration_Successor(row, t) == NewToken(row.family, row.generation, t)

Successor(row, t) == NewToken(row.family, row.generation + 1, t)

RefreshRotate(w) ==
    LET tk == req[w].token
        f  == refresh_tokens[tk].family
    IN  /\ req[w].op = "refresh_txn"
        /\ Known(tk)
        /\ ~refresh_tokens[tk].consumed
        /\ Rotatable(tk, req[w].t)
        /\ \E new \in Tokens \ usedTokens :
              /\ refresh_tokens' =
                    InsertRow(Consume(tk), new,
                              Successor(refresh_tokens[tk], req[w].t))
              /\ usedTokens' = usedTokens \cup {new}
              /\ Become(w, [op |-> "respond",
                            user |-> session_families[f].user,
                            family |-> f, token |-> new, t |-> req[w].t])
        /\ UNCHANGED <<now, password, session_families, usedFamilies, clients,
                       acknowledged, sweeper>>
-----------------------------------------------------------------------------
(***************************************************************************)
(* POST /v1/auth/logout.  The bearer names the user, the body names the    *)
(* refresh token.  Token row, family row and revocation are three steps.   *)
(***************************************************************************)
Bearers == {c \in access_tokens : now <= c.exp}

LogoutArrive(w) ==
    /\ req[w].op = "idle"
    /\ \E c \in Bearers, tk \in held :
          Become(w, [op |-> "logout_token", user |-> c.user, token |-> tk,
                     t |-> now])
    /\ UNCHANGED <<now, tables, ids, clients, acknowledged, sweeper>>

\* 204 at once when the token is not found.
LogoutReadToken(w) ==
    /\ req[w].op = "logout_token"
    /\ Become(w, IF GetToken(req[w].token)
                 THEN [op |-> "logout_family", user |-> req[w].user,
                       family |-> refresh_tokens[req[w].token].family,
                       t |-> req[w].t]
                 ELSE Idle)
    /\ UNCHANGED <<now, tables, ids, clients, acknowledged, sweeper>>

AnyOwner_MayLogout(f, user) == GetFamily(f)

MayLogout(f, user) == GetFamily(f) /\ session_families[f].user = user

\* 500 when the family is gone, 403 when it belongs to someone else.
LogoutReadFamily(w) ==
    /\ req[w].op = "logout_family"
    /\ Become(w, IF MayLogout(req[w].family, req[w].user)
                 THEN [req[w] EXCEPT !.op = "logout_txn"]
                 ELSE Idle)
    /\ UNCHANGED <<now, tables, ids, clients, acknowledged, sweeper>>

LogoutTxn(w) ==
    /\ req[w].op = "logout_txn"
    /\ session_families' = Revoke({req[w].family}, req[w].t)
    /\ acknowledged' = acknowledged \cup {req[w].family}
    /\ Become(w, Idle)
    /\ UNCHANGED <<now, password, refresh_tokens, ids, clients, sweeper>>
-----------------------------------------------------------------------------
(***************************************************************************)
(* POST /v1/auth/password.  current_password is verified against the row   *)
(* read before the transaction; the transaction writes the new hash and    *)
(* revokes every family of the user but the one in the bearer's claims.    *)
(***************************************************************************)
PasswordArrive(w) ==
    /\ req[w].op = "idle"
    /\ \E c \in Bearers, p, q \in Passwords :
          Become(w, [op |-> "password_read", user |-> c.user,
                     family |-> c.family, pw |-> p, new |-> q, t |-> now])
    /\ UNCHANGED <<now, tables, ids, clients, acknowledged, sweeper>>

PasswordRead(w) ==
    /\ req[w].op = "password_read"
    /\ Become(w, IF password[req[w].user] = req[w].pw
                 THEN [req[w] EXCEPT !.op = "password_txn"]
                 ELSE Idle)
    /\ UNCHANGED <<now, tables, ids, clients, acknowledged, sweeper>>

OtherFamilies(user, surviving) ==
    {f \in DOMAIN session_families :
        session_families[f].user = user /\ f # surviving}

PasswordTxn(w) ==
    LET r       == req[w]
        revoked == Revoke(OtherFamilies(r.user, r.family), r.t)
    IN  /\ r.op = "password_txn"
        /\ password' = [password EXCEPT ![r.user] = r.new]
        /\ session_families' =
              [f \in DOMAIN revoked |->
                  IF f = r.family THEN [revoked[f] EXCEPT !.pw = r.new]
                                  ELSE revoked[f]]
        /\ Become(w, Idle)
        /\ UNCHANGED <<now, refresh_tokens, ids, clients, acknowledged,
                       sweeper>>
-----------------------------------------------------------------------------
(***************************************************************************)
(* The maintenance sweep, as far as it concerns sessions.  It reads the    *)
(* clock once, then deletes in batches, each batch a transaction of its    *)
(* own.  A full batch is followed by another unless shutdown was asked     *)
(* for; a failing statement ends the table's turn.                         *)
(***************************************************************************)
SweepStart ==
    /\ sweeper.pc = "sleep"
    /\ sweeper' = [pc |-> "tokens", t |-> now]
    /\ UNCHANGED <<now, tables, ids, clients, acknowledged, req>>

Batches(rows) ==
    {B \in SUBSET rows :
        \/ Cardinality(B) = BatchSize
        \/ Cardinality(B) < BatchSize /\ B = rows}

Resume(B, next) ==
    \/ Cardinality(B) = BatchSize /\ UNCHANGED sweeper
    \/ sweeper' = next

Early_Expired(f, t) == session_families[f].absolute_exp <= t

Expired(f, t) == session_families[f].absolute_exp < t

SweepTokens ==
    LET rows == {tk \in DOMAIN refresh_tokens :
                    /\ refresh_tokens[tk].family \in DOMAIN session_families
                    /\ Expired(refresh_tokens[tk].family, sweeper.t)}
    IN  /\ sweeper.pc = "tokens"
        /\ \E B \in Batches(rows) :
              /\ refresh_tokens' = DeleteRows(refresh_tokens, B)
              /\ Resume(B, [sweeper EXCEPT !.pc = "families"])
        /\ UNCHANGED <<now, password, session_families, ids, clients,
                       acknowledged, req>>

\* ON DELETE CASCADE of refresh_tokens.family_id.
Cascade(B) ==
    DeleteRows(refresh_tokens,
               {tk \in DOMAIN refresh_tokens : refresh_tokens[tk].family \in B})

SweepFamilies ==
    LET rows == {f \in DOMAIN session_families :
                    \/ Expired(f, sweeper.t)
                    \/ /\ session_families[f].revoked_at # 0
                       /\ session_families[f].revoked_at + RevokedGrace
                             < sweeper.t}
    IN  /\ sweeper.pc = "families"
        /\ \E B \in Batches(rows) :
              /\ session_families' = DeleteRows(session_families, B)
              /\ refresh_tokens' = Cascade(B)
              /\ Resume(B, Asleep)
        /\ UNCHANGED <<now, password, ids, clients, acknowledged, req>>

SweepFails ==
    /\ StoreFaults
    /\ \/ sweeper.pc = "tokens" /\ sweeper' = [sweeper EXCEPT !.pc = "families"]
       \/ sweeper.pc = "families" /\ sweeper' = Asleep
    /\ UNCHANGED <<now, tables, ids, clients, acknowledged, req>>

\* The process dies and comes back: committed rows and what clients hold
\* stay, requests and the sweep in progress are gone.
Crash ==
    /\ req' = [w \in Workers |-> Idle]
    /\ sweeper' = Asleep
    /\ UNCHANGED <<now, tables, ids, clients, acknowledged>>
-----------------------------------------------------------------------------
Request(w) ==
    \/ LoginRead(w) \/ LoginTxn(w)
    \/ RefreshUnknown(w) \/ RefreshReuse(w) \/ RefreshDead(w)
    \/ RefreshRotate(w)
    \/ LogoutReadToken(w) \/ LogoutReadFamily(w) \/ LogoutTxn(w)
    \/ PasswordRead(w) \/ PasswordTxn(w)
    \/ Fail(w) \/ Respond(w)

Arrive(w) ==
    \/ LoginArrive(w) \/ RefreshArrive(w) \/ LogoutArrive(w)
    \/ PasswordArrive(w)

Sweep == SweepStart \/ SweepTokens \/ SweepFamilies \/ SweepFails

Next ==
    \/ \E w \in Workers : Arrive(w) \/ Request(w)
    \/ Sweep
    \/ Tick
    \/ Crash

Spec == Init /\ [][Next]_vars
-----------------------------------------------------------------------------
\* Every variable holds rows, requests and ids of the declared shape, and the
\* ids of existing rows were drawn before (session.c).
TypeOK ==
    /\ now \in Nat \ {0}
    /\ password \in [Users -> Passwords]
    /\ session_families \in [DOMAIN session_families -> FamilyRow]
    /\ refresh_tokens \in [DOMAIN refresh_tokens -> TokenRow]
    /\ DOMAIN session_families \subseteq usedFamilies
    /\ DOMAIN refresh_tokens \subseteq usedTokens
    /\ usedFamilies \subseteq Families
    /\ usedTokens \subseteq Tokens
    /\ held \subseteq Tokens
    /\ access_tokens \subseteq Claims
    /\ acknowledged \subseteq Families
    /\ req \in [Workers -> Requests]
    /\ sweeper \in Sweeps

\* Every refresh token row has its family row, so that the branch of
\* ps_session_refresh for a missing family (session.c:60) is never taken.
ReferentialIntegrity ==
    \A tk \in DOMAIN refresh_tokens :
        refresh_tokens[tk].family \in DOMAIN session_families

\* The tokens of a family form one chain: no two rows share a generation,
\* and a token that can still be spent is the newest of its family.  So a
\* family never offers two spendable tokens, whatever interleaving of
\* refreshes, sweeps and crashes produced it (plan 6.8, rotation).
TokenChain ==
    \A a, b \in DOMAIN refresh_tokens :
        a # b /\ refresh_tokens[a].family = refresh_tokens[b].family =>
            /\ refresh_tokens[a].generation # refresh_tokens[b].generation
            /\ ~refresh_tokens[a].consumed =>
                  refresh_tokens[b].generation < refresh_tokens[a].generation

\* Rotation slides the idle window but never past the absolute cap: no token
\* of a family expires later than one idle window after absolute_exp, which
\* itself never moves (plan 6.8, two expiries).
AbsoluteCap ==
    \A tk \in DOMAIN refresh_tokens :
        LET f == refresh_tokens[tk].family
        IN  f \in DOMAIN session_families =>
               refresh_tokens[tk].idle_exp
                  <= session_families[f].absolute_exp + IdleTTL

\* Once a client was told its session is over (204 from logout) or a reuse
\* was reported, the family is revoked or its row is gone (session.h:56).
AcknowledgedEnds ==
    \A f \in acknowledged :
        f \in DOMAIN session_families => session_families[f].revoked_at # 0

RevocationKept ==
    \A f \in DOMAIN session_families :
        session_families[f].revoked_at # 0 =>
            /\ f \in DOMAIN session_families' =>
                  session_families'[f].revoked_at
                     = session_families[f].revoked_at
            /\ \A tk \in DOMAIN refresh_tokens' \ DOMAIN refresh_tokens :
                  refresh_tokens'[tk].family # f

\* A revoked family stays revoked, with its first revocation time, and gets
\* no further token: revocation cannot be undone by a concurrent rotation.
RevocationFinal == [][RevocationKept]_vars

\* What may revoke family f: its owner's logout, its owner's password change
\* made from another family, or the presentation of one of its spent tokens.
RevokedFor(f, r) ==
    \/ /\ r.op = "logout_txn"
       /\ r.family = f /\ r.user = session_families[f].user
    \/ /\ r.op = "password_txn"
       /\ r.family # f /\ r.user = session_families[f].user
    \/ /\ r.op = "refresh_txn"
       /\ r.token \in DOMAIN refresh_tokens
       /\ refresh_tokens[r.token].family = f
       /\ refresh_tokens[r.token].consumed

\* No request ends a session of another account, a password change never
\* ends the session it came from, and nothing else revokes a family.
OnlyOwnerOrReuseRevokes ==
    [][\A f \in DOMAIN session_families \cap DOMAIN session_families' :
          session_families'[f].revoked_at # session_families[f].revoked_at =>
             \E w \in Workers :
                req'[w] # req[w] /\ RevokedFor(f, req[w])]_vars

\* The sweep deletes only rows no request arriving now could still use: the
\* family is revoked, or past its absolute expiry by the current clock.
SweepRemovesOnlyDead ==
    [][\A tk \in DOMAIN refresh_tokens \ DOMAIN refresh_tokens' :
          LET f == refresh_tokens[tk].family
          IN  f \in DOMAIN session_families =>
                 \/ session_families[f].revoked_at # 0
                 \/ session_families[f].absolute_exp < now]_vars

\* The tokens of family f that a refresh could exchange, time aside.
Live(f) ==
    {tk \in DOMAIN refresh_tokens :
        /\ refresh_tokens[tk].family = f
        /\ ~refresh_tokens[tk].consumed
        /\ f \in DOMAIN session_families
        /\ session_families[f].revoked_at = 0}

Contract == INSTANCE SessionContract WITH
    live   <- [f \in Families |-> Live(f)],
    opened <- usedFamilies,
    issued <- usedTokens

\* Handlers, sweep and crashes together keep the contract of a session: one
\* token at a time, exchanged at most once, and no return once it has ended.
ImplementsContract == Contract!Spec
-----------------------------------------------------------------------------
(***************************************************************************)
(* Statements of the repository's documents that the code does not keep.   *)
(***************************************************************************)
\* Every session that still works was vouched for by the account's present
\* password: "every other session family dies; the one that issued this very
\* request survives" (auth_api.c:1480).
NoSupersededSession ==
    \A f \in DOMAIN session_families :
        session_families[f].revoked_at = 0 =>
            session_families[f].pw = password[session_families[f].user]

\* A logout that found its token also finds the family, and so answers 204:
\* "logout is idempotent" (auth_api.c:1282).
LogoutFindsFamily ==
    \A w \in Workers :
        req[w].op = "logout_family" => req[w].family \in DOMAIN session_families

\* A consumed token is removed only "once their family is long past
\* absolute_exp" (session_store.h:5).
ConsumedRetained ==
    [][\A tk \in DOMAIN refresh_tokens \ DOMAIN refresh_tokens' :
          refresh_tokens[tk].consumed =>
             session_families[refresh_tokens[tk].family].absolute_exp < now]_vars
=============================================================================
