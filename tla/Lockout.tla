------------------------------ MODULE Lockout -------------------------------
(***************************************************************************)
(* Account lockout: the columns status, failed_logins and locked_until of  *)
(* the users table, the login handler of api/auth_api.c that maintains     *)
(* them, and the part of the maintenance sweep that clears expired locks.  *)
(*                                                                         *)
(* A login reads the clock and the user row, runs the key derivation, and  *)
(* only then starts the transaction that writes the columns back: it       *)
(* writes values computed from the row as it was.  What else a login does  *)
(* is in Sessions.                                                         *)
(***************************************************************************)
EXTENDS Naturals, FiniteSets

CONSTANTS
    Workers,     \* worker threads
    Users,       \* registered accounts
    Threshold,   \* lockout_threshold
    Duration,    \* lockout_duration_s
    BatchSize,   \* rows one sweep statement clears at most
    MaxLogins,   \* bound on the logins of a behaviour
    MaxTime      \* bound on the clock

\* ps_config_validate insists on the threshold.
ASSUME LockoutAssumption ==
    /\ {Threshold, BatchSize} \subseteq Nat \ {0}
    /\ {Duration, MaxLogins, MaxTime} \subseteq Nat

VARIABLES
    now,       \* wall clock, in seconds; 0 stands for SQL NULL
    account,   \* user -> row
    req,       \* the login each worker is running
    sweeper,   \* the time the running sweep began, 0 when it sleeps
    logins,    \* logins begun
    total,     \* user -> wrong passwords counted, ever
    misses     \* user -> consecutive misses, none of them from a stale row

history == <<total, misses>>
vars    == <<now, account, req, sweeper, logins, history>>
-----------------------------------------------------------------------------
Row == [status : {"PENDING", "ACTIVE"}, failed_logins : Nat,
        locked_until : Nat]

Idle == [op |-> "idle"]

Requests ==
    {Idle}
    \cup [op : {"login_read"}, user : Users, t : Nat]
    \cup [op : {"login_txn"}, user : Users, t : Nat, row : Row,
          password_ok : BOOLEAN]

Become(w, r) == req' = [req EXCEPT ![w] = r]

NewAccount == [status |-> "PENDING", failed_logins |-> 0, locked_until |-> 0]

Init ==
    /\ now = 1
    /\ account = [u \in Users |-> NewAccount]
    /\ req = [w \in Workers |-> Idle]
    /\ sweeper = 0
    /\ logins = 0
    /\ total = [u \in Users |-> 0]
    /\ misses = [u \in Users |-> 0]

Tick ==
    /\ now < MaxTime
    /\ now' = now + 1
    /\ UNCHANGED <<account, req, sweeper, logins, history>>

\* ps_user_store_update_status, from the verify handler.
Activate(u) ==
    /\ account' = [account EXCEPT ![u].status = "ACTIVE"]
    /\ UNCHANGED <<now, req, sweeper, logins, history>>
-----------------------------------------------------------------------------
LoginArrive(w) ==
    /\ req[w] = Idle
    /\ logins < MaxLogins
    /\ logins' = logins + 1
    /\ \E u \in Users :
          Become(w, [op |-> "login_read", user |-> u, t |-> now])
    /\ UNCHANGED <<now, account, sweeper, history>>

LoginRead(w) ==
    LET r == req[w]
    IN  /\ r.op = "login_read"
        /\ \E ok \in BOOLEAN :
              Become(w, [op |-> "login_txn", user |-> r.user, t |-> r.t,
                         row |-> account[r.user], password_ok |-> ok])
        /\ UNCHANGED <<now, account, sweeper, logins, history>>

Ignored_Locked(r) == FALSE

\* Judged on the row and the time the request started with.
Locked(r) == r.row.locked_until # 0 /\ r.row.locked_until > r.t

Success(r) == r.password_ok /\ r.row.status = "ACTIVE" /\ ~Locked(r)

Miss(r) == ~r.password_ok /\ ~Locked(r)

\* ps_user_store_set_login_failure_state overwrites both columns.
SetLoginFailureState(u, failed, until) ==
    account' = [account EXCEPT ![u].failed_logins = failed,
                               ![u].locked_until = until]

Twice_FailedAfter(row) == row.failed_logins + 2

FailedAfter(row) == row.failed_logins + 1

OffByOne_LockAfter(row, t) ==
    IF FailedAfter(row) > Threshold THEN t + Duration ELSE 0

LockAfter(row, t) == IF FailedAfter(row) >= Threshold THEN t + Duration ELSE 0

\* No login has moved the counter since request r read it.
Fresh(r) == r.row.failed_logins = account[r.user].failed_logins

\* 401, and the counter moves.
LoginMiss(w) ==
    LET r == req[w]
    IN  /\ r.op = "login_txn"
        /\ Miss(r)
        /\ SetLoginFailureState(r.user, FailedAfter(r.row),
                                LockAfter(r.row, r.t))
        /\ total' = [total EXCEPT ![r.user] = @ + 1]
        /\ misses' = [misses EXCEPT ![r.user] = IF Fresh(r) THEN @ + 1 ELSE 0]
        /\ Become(w, Idle)
        /\ UNCHANGED <<now, sweeper, logins>>

\* 401 for a locked account or the right password of an unverified one: the
\* row is left alone.
LoginRefused(w) ==
    /\ req[w].op = "login_txn"
    /\ ~Success(req[w]) /\ ~Miss(req[w])
    /\ Become(w, Idle)
    /\ UNCHANGED <<now, account, sweeper, logins, history>>

LoginSuccess(w) ==
    LET r == req[w]
    IN  /\ r.op = "login_txn"
        /\ Success(r)
        /\ SetLoginFailureState(r.user, 0, 0)
        /\ misses' = [misses EXCEPT ![r.user] = 0]
        /\ Become(w, Idle)
        /\ UNCHANGED <<now, sweeper, logins, total>>

\* A statement or the COMMIT fails: 500, nothing written.
Fail(w) ==
    /\ req[w] # Idle
    /\ Become(w, Idle)
    /\ UNCHANGED <<now, account, sweeper, logins, history>>
-----------------------------------------------------------------------------
(***************************************************************************)
(* sweep_expired_lockouts.                                                 *)
(***************************************************************************)
SweepStart ==
    /\ sweeper = 0
    /\ sweeper' = now
    /\ UNCHANGED <<now, account, req, logins, history>>

Late_Expired ==
    {u \in Users : /\ account[u].locked_until # 0
                   /\ account[u].locked_until + Duration < sweeper}

Expired ==
    {u \in Users : /\ account[u].locked_until # 0
                   /\ account[u].locked_until < sweeper}

\* One batch; a full one is followed by another, unless the thread must stop.
SweepLockouts ==
    /\ sweeper # 0
    /\ \E B \in SUBSET Expired :
          /\ \/ Cardinality(B) = BatchSize
             \/ Cardinality(B) < BatchSize /\ B = Expired
          /\ account' = [u \in Users |->
                            IF u \in B
                            THEN [account[u] EXCEPT !.locked_until = 0]
                            ELSE account[u]]
          /\ sweeper' \in {0} \cup
                {s \in {sweeper} : Cardinality(B) = BatchSize}
    /\ UNCHANGED <<now, req, logins, history>>

Crash ==
    /\ req' = [w \in Workers |-> Idle]
    /\ sweeper' = 0
    /\ UNCHANGED <<now, account, logins, history>>
-----------------------------------------------------------------------------
Handle(w) ==
    \/ LoginArrive(w) \/ LoginRead(w)
    \/ LoginMiss(w) \/ LoginRefused(w) \/ LoginSuccess(w)
    \/ Fail(w)

Next ==
    \/ \E w \in Workers : Handle(w)
    \/ \E u \in Users : Activate(u)
    \/ SweepStart \/ SweepLockouts
    \/ Tick \/ Crash

Spec == Init /\ [][Next]_vars

\* The maintenance thread wakes up again and again, and crashes do not cut
\* every single sweep short.
FairSpec == Spec /\ WF_vars(SweepStart) /\ SF_vars(SweepLockouts)
-----------------------------------------------------------------------------
\* Rows, requests and counters have the declared shape.
TypeOK ==
    /\ now \in Nat \ {0}
    /\ account \in [Users -> Row]
    /\ req \in [Workers -> Requests]
    /\ sweeper \in Nat
    /\ logins \in Nat
    /\ total \in [Users -> Nat]
    /\ misses \in [Users -> Nat]

InForce(u) == account[u].locked_until > now

\* No interleaving of logins locks an account further than one lock duration
\* ahead: "Lockout is temporary and self-clearing" (README.md:242).
LockBounded == \A u \in Users : account[u].locked_until <= now + Duration

\* The counter never runs ahead of the wrong passwords really answered, so a
\* lock was earned by at least Threshold of them, also when rows are stale.
LocksEarned ==
    \A u \in Users :
        /\ account[u].failed_logins <= total[u]
        /\ account[u].locked_until # 0 => total[u] >= Threshold

EarlyEndIsStale ==
    \A u \in Users :
        InForce(u) /\ account'[u].locked_until < account[u].locked_until =>
            \E w \in Workers :
                /\ req[w].op = "login_txn" /\ req[w].user = u
                /\ req[w].row.locked_until # account[u].locked_until

\* A lock in force ends early, or shrinks, only by a login that read the row
\* before the lock was written; the sweep never lifts it.
LockEndsEarlyOnlyByStaleLogin == [][EarlyEndIsStale]_vars

\* A lock that has run out is cleared by the sweep, or renewed.
ExpiredLockCleared ==
    \A u \in Users :
        (account[u].locked_until # 0 /\ account[u].locked_until < now)
            ~> (account[u].locked_until = 0 \/ account[u].locked_until >= now)

\* "Failed attempts before lock | 10 consecutive" (plan 6.9): the Threshold-th
\* of a row of misses leaves the account locked, whatever sweeps, refusals and
\* crashes come between, as long as none of them worked from a stale row.
ThresholdLocks ==
    [][\A u \in Users :
          misses'[u] > misses[u] /\ misses'[u] >= Threshold =>
              account'[u].locked_until # 0]_vars
-----------------------------------------------------------------------------
(***************************************************************************)
(* Statements of the repository's documents that the code does not keep    *)
(* when logins of one account overlap.                                     *)
(***************************************************************************)
\* The same without the proviso, on an account no success can interrupt.
EveryMissCounts ==
    [][\A u \in Users :
          /\ total'[u] > total[u] /\ total'[u] >= Threshold
          /\ account[u].status = "PENDING"
          => account'[u].locked_until # 0]_vars

\* "an already-locked account gains nothing from a higher count while the
\* lock itself already blocks it" (auth_api.c:1008): a lock in force stays.
LockHolds ==
    [][\A u \in Users :
          InForce(u) => account'[u].locked_until >= account[u].locked_until]_vars
=============================================================================
