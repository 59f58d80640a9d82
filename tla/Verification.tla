---------------------------- MODULE Verification ----------------------------
(***************************************************************************)
(* Registration and e-mail verification: the register, verify and resend   *)
(* handlers of api/auth_api.c, store/token_store.c, the outbox and the     *)
(* part of the maintenance sweep that removes verification tokens.         *)
(*                                                                         *)
(* As in Sessions, a read outside a transaction and a BEGIN IMMEDIATE ...  *)
(* COMMIT block are one step each, and the clock is read on arrival.       *)
(***************************************************************************)
EXTENDS Naturals, FiniteSets, Functions

CONSTANTS
    Workers,      \* worker threads
    Users,        \* usernames, folded to lower case
    Emails,       \* normalised e-mail addresses
    Tokens,       \* verification tokens, 256 random bits in the code
    TTL,          \* verification_ttl_s
    MinInterval,  \* resend_min_interval_s
    MaxPerDay,    \* resend_max_per_day
    Day,          \* 24 hours
    BatchSize,    \* rows one sweep statement removes at most
    MaxLatency,   \* seconds a request may take: the busy timeout bounds it
    MaxTime       \* bound on the clock

ASSUME VerificationAssumption ==
    /\ {TTL, MinInterval, MaxPerDay, Day, MaxLatency, MaxTime} \subseteq Nat
    /\ BatchSize \in Nat \ {0}

VARIABLES
    now,      \* wall clock; 0 stands for SQL NULL
    users,    \* username -> row, for registered users
    tokens,   \* token (hash) -> row of email_verification_tokens
    issued,   \* token -> whom it was made for and when, never forgotten
    mailed,   \* tokens that reached the outbox
    answered, \* token -> verify requests answered with 200
    req,      \* the request each worker is running
    sweeper   \* the time the running sweep began, 0 when it sleeps

db   == <<users, tokens, issued>>
vars == <<now, db, mailed, answered, req, sweeper>>
-----------------------------------------------------------------------------
UserRow  == [email : Emails, status : {"PENDING", "ACTIVE"}]
TokenRow == [user : Users, expires_at : Nat, created_at : Nat,
             consumed_at : Nat]
Issue    == [user : Users, at : Nat]

Idle == [op |-> "idle"]

Requests ==
    {Idle}
    \cup [op : {"register_txn"}, user : Users, email : Emails, t : Nat]
    \cup [op : {"mail"}, token : Tokens]
    \cup [op : {"verify_read"}, token : Tokens, t : Nat]
    \cup [op : {"verify_txn"}, token : Tokens, user : Users, t : Nat]
    \cup [op : {"resend_find"}, email : Emails, t : Nat]
    \cup [op : {"resend_recent", "resend_day", "resend_txn"}, user : Users,
          t : Nat]

EmptyTable == [k \in {} |-> Idle]

InsertRow(table, key, row) ==
    [k \in DOMAIN table \cup {key} |-> IF k = key THEN row ELSE table[k]]

Become(w, r) == req' = [req EXCEPT ![w] = r]

Init ==
    /\ now = 1
    /\ users = EmptyTable
    /\ tokens = EmptyTable
    /\ issued = EmptyTable
    /\ mailed = {}
    /\ answered = [tk \in Tokens |-> 0]
    /\ req = [w \in Workers |-> Idle]
    /\ sweeper = 0

Tick ==
    /\ now < MaxTime
    /\ \A w \in Workers :
          "t" \in DOMAIN req[w] => now < req[w].t + MaxLatency
    /\ now' = now + 1
    /\ UNCHANGED <<db, mailed, answered, req, sweeper>>

\* A statement, or the COMMIT, fails: nothing was written.  The answer is a
\* 500, or the one for an unknown token or address.
Fail(w) ==
    /\ req[w].op \notin {"idle", "mail"}
    /\ Become(w, Idle)
    /\ UNCHANGED <<now, db, mailed, answered, sweeper>>
-----------------------------------------------------------------------------
NewToken(user, t) ==
    [user |-> user, expires_at |-> t + TTL, created_at |-> t,
     consumed_at |-> 0]

\* insert_fresh_token, on top of a token table `rows`.
InsertFreshToken(rows, tk, user, t) ==
    /\ tokens' = InsertRow(rows, tk, NewToken(user, t))
    /\ issued' = InsertRow(issued, tk, [user |-> user, at |-> t])

\* send_verification_email, after COMMIT; a failing outbox insert is ignored.
Mail(w) ==
    /\ req[w].op = "mail"
    /\ \/ mailed' = mailed \cup {req[w].token}
       \/ UNCHANGED mailed
    /\ Become(w, Idle)
    /\ UNCHANGED <<now, db, answered, sweeper>>
-----------------------------------------------------------------------------
(***************************************************************************)
(* POST /v1/auth/register.                                                 *)
(***************************************************************************)
RegisterArrive(w) ==
    /\ req[w].op = "idle"
    /\ \E u \in Users, e \in Emails :
          Become(w, [op |-> "register_txn", user |-> u, email |-> e,
                     t |-> now])
    /\ UNCHANGED <<now, db, mailed, answered, sweeper>>

Taken(u, e) == u \in DOMAIN users \/ \E v \in DOMAIN users : users[v].email = e

\* 409 for a taken name.  A taken address gets the 202 of a success; its
\* owner gets a notice, which carries no token.
RegisterDuplicate(w) ==
    /\ req[w].op = "register_txn"
    /\ Taken(req[w].user, req[w].email)
    /\ Become(w, Idle)
    /\ UNCHANGED <<now, db, mailed, answered, sweeper>>

Trusting_NewUser(email) == [email |-> email, status |-> "ACTIVE"]

NewUser(email) == [email |-> email, status |-> "PENDING"]

RegisterTxn(w) ==
    LET r == req[w]
    IN  /\ r.op = "register_txn"
        /\ ~Taken(r.user, r.email)
        /\ users' = InsertRow(users, r.user, NewUser(r.email))
        /\ \E tk \in Tokens \ DOMAIN issued :
              /\ InsertFreshToken(tokens, tk, r.user, r.t)
              /\ Become(w, [op |-> "mail", token |-> tk])
        /\ UNCHANGED <<now, mailed, answered, sweeper>>
-----------------------------------------------------------------------------
(***************************************************************************)
(* POST /v1/auth/verify.  The token row is read and judged before the      *)
(* transaction that consumes it and activates the account.                 *)
(***************************************************************************)
VerifyArrive(w) ==
    /\ req[w].op = "idle"
    /\ \E tk \in mailed :
          Become(w, [op |-> "verify_read", token |-> tk, t |-> now])
    /\ UNCHANGED <<now, db, mailed, answered, sweeper>>

Usable(tk, t) ==
    /\ tk \in DOMAIN tokens
    /\ tokens[tk].consumed_at = 0
    /\ tokens[tk].expires_at >= t

VerifyRead(w) ==
    LET r == req[w]
    IN  /\ r.op = "verify_read"
        /\ Become(w, IF Usable(r.token, r.t)
                     THEN [op |-> "verify_txn", token |-> r.token,
                           user |-> tokens[r.token].user, t |-> r.t]
                     ELSE Idle)
        /\ UNCHANGED <<now, db, mailed, answered, sweeper>>

\* The UPDATE has no condition on consumed_at.
Consume(rows, tks, t) ==
    [k \in DOMAIN rows |->
        IF k \in tks THEN [rows[k] EXCEPT !.consumed_at = t] ELSE rows[k]]

VerifyTxn(w) ==
    LET r == req[w]
    IN  /\ r.op = "verify_txn"
        /\ tokens' = Consume(tokens, {r.token}, r.t)
        /\ users' = [users EXCEPT ![r.user].status = "ACTIVE"]
        /\ answered' = [answered EXCEPT ![r.token] = @ + 1]
        /\ Become(w, Idle)
        /\ UNCHANGED <<now, issued, mailed, sweeper>>
-----------------------------------------------------------------------------
(***************************************************************************)
(* POST /v1/auth/resend-verification.  Three reads decide, a transaction   *)
(* acts.                                                                   *)
(***************************************************************************)
ResendArrive(w) ==
    /\ req[w].op = "idle"
    /\ \E e \in Emails :
          Become(w, [op |-> "resend_find", email |-> e, t |-> now])
    /\ UNCHANGED <<now, db, mailed, answered, sweeper>>

ResendFind(w) ==
    LET r == req[w]
        u == {v \in DOMAIN users :
                 users[v].email = r.email /\ users[v].status = "PENDING"}
    IN  /\ r.op = "resend_find"
        /\ \/ \E v \in u : Become(w, [op |-> "resend_recent", user |-> v,
                                      t |-> r.t])
           \/ u = {} /\ Become(w, Idle)
        /\ UNCHANGED <<now, db, mailed, answered, sweeper>>

CreatedSince(user, t, span) ==
    {tk \in DOMAIN tokens :
        tokens[tk].user = user /\ tokens[tk].created_at + span >= t}

Recent(user, t) == CreatedSince(user, t, MinInterval)

Exhausted(user, t) == Cardinality(CreatedSince(user, t, Day)) >= MaxPerDay

ResendRecent(w) ==
    /\ req[w].op = "resend_recent"
    /\ Become(w, IF Recent(req[w].user, req[w].t) = {}
                 THEN [req[w] EXCEPT !.op = "resend_day"]
                 ELSE Idle)
    /\ UNCHANGED <<now, db, mailed, answered, sweeper>>

ResendDay(w) ==
    /\ req[w].op = "resend_day"
    /\ Become(w, IF Exhausted(req[w].user, req[w].t)
                 THEN Idle
                 ELSE [req[w] EXCEPT !.op = "resend_txn"])
    /\ UNCHANGED <<now, db, mailed, answered, sweeper>>

Keep_InvalidateAll(user, t) == tokens

\* ps_token_store_invalidate_all_for_user
InvalidateAll(user, t) ==
    Consume(tokens, {tk \in DOMAIN tokens : /\ tokens[tk].user = user
                                            /\ tokens[tk].consumed_at = 0}, t)

ResendTxn(w) ==
    LET r == req[w]
    IN  /\ r.op = "resend_txn"
        /\ \E tk \in Tokens \ DOMAIN issued :
              /\ InsertFreshToken(InvalidateAll(r.user, r.t), tk, r.user, r.t)
              /\ Become(w, [op |-> "mail", token |-> tk])
        /\ UNCHANGED <<now, users, mailed, answered, sweeper>>
-----------------------------------------------------------------------------
(***************************************************************************)
(* The sweep keeps a token for one more day after it expired.              *)
(***************************************************************************)
SweepStart ==
    /\ sweeper = 0
    /\ sweeper' = now
    /\ UNCHANGED <<now, db, mailed, answered, req>>

Eager_Stale == {tk \in DOMAIN tokens : tokens[tk].expires_at < sweeper}

Stale == {tk \in DOMAIN tokens : tokens[tk].expires_at + Day < sweeper}

SweepTokens ==
    /\ sweeper # 0
    /\ \E B \in SUBSET Stale :
          /\ \/ Cardinality(B) = BatchSize
             \/ Cardinality(B) < BatchSize /\ B = Stale
          /\ tokens' = Restrict(tokens, DOMAIN tokens \ B)
          /\ \/ Cardinality(B) = BatchSize /\ UNCHANGED sweeper
             \/ sweeper' = 0
    /\ UNCHANGED <<now, users, issued, mailed, answered, req>>

Crash ==
    /\ req' = [w \in Workers |-> Idle]
    /\ sweeper' = 0
    /\ UNCHANGED <<now, db, mailed, answered>>
-----------------------------------------------------------------------------
Handle(w) ==
    \/ RegisterArrive(w) \/ RegisterDuplicate(w) \/ RegisterTxn(w)
    \/ VerifyArrive(w) \/ VerifyRead(w) \/ VerifyTxn(w)
    \/ ResendArrive(w) \/ ResendFind(w) \/ ResendRecent(w) \/ ResendDay(w)
    \/ ResendTxn(w)
    \/ Mail(w) \/ Fail(w)

Next ==
    \/ \E w \in Workers : Handle(w)
    \/ SweepStart \/ SweepTokens
    \/ Tick \/ Crash

Spec == Init /\ [][Next]_vars
-----------------------------------------------------------------------------
\* Rows, requests and histories have the declared shape; a token row belongs
\* to a registered user.
TypeOK ==
    /\ now \in Nat \ {0}
    /\ users \in [DOMAIN users -> UserRow] /\ DOMAIN users \subseteq Users
    /\ tokens \in [DOMAIN tokens -> TokenRow]
    /\ issued \in [DOMAIN issued -> Issue]
    /\ DOMAIN tokens \subseteq DOMAIN issued /\ DOMAIN issued \subseteq Tokens
    /\ mailed \subseteq DOMAIN issued
    /\ answered \in [Tokens -> Nat]
    /\ req \in [Workers -> Requests]
    /\ sweeper \in Nat

\* A user has at most one token that was neither used nor invalidated, however
\* registrations, resends and sweeps interleave: "live tokens must not
\* accumulate" (auth_api.c:874).
OneLiveToken ==
    /\ TypeOK
    /\ \A a, b \in DOMAIN tokens :
          /\ tokens[a].user = tokens[b].user
          /\ tokens[a].consumed_at = 0 /\ tokens[b].consumed_at = 0
          => a = b

\* An account is active only if a token made for it reached its inbox, was
\* presented and answered 200; also after the token row is swept.
ActiveProved ==
    \A u \in DOMAIN users :
        users[u].status = "ACTIVE" =>
            \E tk \in mailed : issued[tk].user = u /\ answered[tk] > 0

\* "Single-use" (plan 4.2) with the check of consumed_at outside the
\* transaction: a token is answered with 200 once per worker at most, so once
\* if the requests that carry it do not overlap.
UsesBounded == \A tk \in Tokens : answered[tk] <= Cardinality(Workers)

\* Tokens made for u in the `span` seconds from time a on.
MadeWithin(u, a, span) ==
    {tk \in DOMAIN issued :
        /\ issued[tk].user = u
        /\ a <= issued[tk].at /\ issued[tk].at <= a + span}

\* "at most 1 send per address per 60 seconds, and 5 per 24 hours" (plan 4.3)
\* with the reads of a resend outside its transaction: one send per worker and
\* minimum interval, for no worker passes its own previous send; and in a day
\* the requests that overlap the one which reaches the limit may exceed it, and
\* nobody after them, whatever the sweep removed meanwhile.  UsesBounded is
\* the same for the uses of a token.
SendsBounded ==
    /\ UsesBounded
    /\ \A tk \in DOMAIN issued :
          LET made(span) == MadeWithin(issued[tk].user, issued[tk].at, span)
          IN  /\ Cardinality(made(MinInterval)) <= Cardinality(Workers)
              /\ Cardinality(made(Day)) <= MaxPerDay + Cardinality(Workers) - 1
-----------------------------------------------------------------------------
(***************************************************************************)
(* Statements of the repository's documents that the code does not keep    *)
(* when requests overlap.                                                  *)
(***************************************************************************)
\* "at most 1 send per address per 60 seconds" (plan 4.3).
SendsSpaced ==
    \A tk \in DOMAIN issued :
        MadeWithin(issued[tk].user, issued[tk].at, MinInterval) = {tk}

\* A token works once: "Single-use" and "already-consumed tokens all return
\* the same 400" (plan 4.2).
SingleUse == \A tk \in Tokens : answered[tk] <= 1

\* "Already-ACTIVE accounts do nothing at all (no email, no token)"
\* (plan 4.3).
TokensOnlyForPending ==
    [][\A tk \in DOMAIN issued' \ DOMAIN issued :
          users'[issued'[tk].user].status = "PENDING"]_vars
=============================================================================
