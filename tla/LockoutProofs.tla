--------------------------- MODULE LockoutProofs ----------------------------
(***************************************************************************)
(* Proofs for Lockout, for any number of workers and accounts.             *)
(*                                                                         *)
(* The two invariants about the row are not inductive on their own: a      *)
(* login writes back what it computed from the row it read, so they are    *)
(* strengthened with what is true of every snapshot still under way.       *)
(***************************************************************************)
EXTENDS Lockout, TLAPS

\* A request, and the sweep, carry a time that has passed.
TimesPassed ==
    /\ sweeper <= now
    /\ \A w \in Workers : req[w] # Idle => req[w].t <= now

\* A row read earlier does not count more wrong passwords than were answered.
SnapshotsEarned ==
    \A w \in Workers :
        req[w].op = "login_txn" =>
            req[w].row.failed_logins <= total[req[w].user]

IInv == TypeOK /\ TimesPassed /\ SnapshotsEarned /\ LockBounded /\ LocksEarned
-----------------------------------------------------------------------------
\* The fields of a request, by its kind.
LEMMA RequestFacts ==
    ASSUME NEW r \in Requests
    PROVE  /\ r.op = "login_read" =>
                 /\ r = [op |-> "login_read", user |-> r.user, t |-> r.t]
                 /\ r.user \in Users /\ r.t \in Nat
           /\ r.op = "login_txn" =>
                 /\ r.user \in Users /\ r.t \in Nat /\ r.row \in Row
                 /\ r.password_ok \in BOOLEAN
           /\ r.op \in {"login_read", "login_txn"} <=> r # Idle
BY DEF Requests, Idle

\* Lockout's initial state satisfies the inductive invariant.
LEMMA InitIInv == Init => IInv
<1> SUFFICES ASSUME Init PROVE IInv
    OBVIOUS
<1>1. NewAccount \in Row /\ Idle \in Requests
    BY DEF NewAccount, Row, Idle, Requests
<1>2. \A w \in Workers : req[w] = Idle /\ req[w].op = "idle"
    BY DEF Init, Idle
<1>3. TypeOK
    BY <1>1 DEF Init, TypeOK
<1>4. TimesPassed /\ SnapshotsEarned
    BY <1>2 DEF Init, TimesPassed, SnapshotsEarned
<1>5. LockBounded /\ LocksEarned
    BY LockoutAssumption DEF Init, LockBounded, LocksEarned, NewAccount
<1> QED
    BY <1>3, <1>4, <1>5 DEF IInv

\* Writing the two columns of user u touches no other row and no other column.
LEMMA SetFacts ==
    ASSUME TypeOK, NEW u \in Users, NEW failed \in Nat, NEW until \in Nat,
           SetLoginFailureState(u, failed, until)
    PROVE  /\ account' \in [Users -> Row]
           /\ account'[u].failed_logins = failed
           /\ account'[u].locked_until = until
           /\ \A v \in Users \ {u} : account'[v] = account[v]
BY DEF TypeOK, SetLoginFailureState, Row
-----------------------------------------------------------------------------
\* A counted miss keeps the invariant: the snapshot bounds what is written.
LEMMA MissKeeps ==
    ASSUME IInv, NEW w \in Workers, LoginMiss(w)
    PROVE  IInv'
<1> DEFINE r == req[w]
<1>1. r.op = "login_txn" /\ r \in Requests
    BY DEF LoginMiss, IInv, TypeOK
<1>2. r.user \in Users /\ r.t \in Nat /\ r.row \in Row
    BY <1>1, RequestFacts
<1>3. r.row.failed_logins \in Nat /\ r.row.failed_logins <= total[r.user]
    BY <1>1, <1>2 DEF Row, IInv, SnapshotsEarned
<1>4. r.t <= now
    BY <1>1, RequestFacts DEF IInv, TimesPassed
<1>5. /\ FailedAfter(r.row) \in Nat
      /\ LockAfter(r.row, r.t) \in Nat
      /\ FailedAfter(r.row) <= total[r.user] + 1
      /\ LockAfter(r.row, r.t) <= now + Duration
      /\ LockAfter(r.row, r.t) # 0 => Threshold <= total[r.user] + 1
    BY <1>2, <1>3, <1>4, LockoutAssumption
    DEF FailedAfter, LockAfter, IInv, TypeOK
<1>6. SetLoginFailureState(r.user, FailedAfter(r.row), LockAfter(r.row, r.t))
    BY DEF LoginMiss
<1>7. /\ account' \in [Users -> Row]
      /\ account'[r.user].failed_logins = FailedAfter(r.row)
      /\ account'[r.user].locked_until = LockAfter(r.row, r.t)
      /\ \A v \in Users \ {r.user} : account'[v] = account[v]
    BY <1>2, <1>5, <1>6, SetFacts DEF IInv
<1>8. /\ total' \in [Users -> Nat] /\ misses' \in [Users -> Nat]
      /\ total'[r.user] = total[r.user] + 1
      /\ \A v \in Users : total'[v] >= total[v]
    BY <1>2 DEF LoginMiss, IInv, TypeOK
<1>9. req' = [req EXCEPT ![w] = Idle] /\ UNCHANGED <<now, sweeper, logins>>
    BY DEF LoginMiss, Become
<1>10. \A v \in Workers : req'[v] = req[v] \/ req'[v] = Idle
    BY <1>9 DEF IInv, TypeOK
<1>11. TypeOK'
    BY <1>7, <1>8, <1>9 DEF IInv, TypeOK, Requests
<1>12. TimesPassed'
    BY <1>9, <1>10 DEF IInv, TimesPassed
<1>13. SnapshotsEarned'
  <2> SUFFICES ASSUME NEW v \in Workers, req'[v].op = "login_txn"
               PROVE  req'[v].row.failed_logins <= total'[req'[v].user]
      BY DEF SnapshotsEarned
  <2>1. req'[v] = req[v] /\ req[v] \in Requests
      BY <1>10 DEF Idle, IInv, TypeOK
  <2>2. req[v].user \in Users /\ req[v].row.failed_logins \in Nat
      BY <2>1, RequestFacts DEF Row
  <2> QED
      BY <2>1, <2>2, <1>8 DEF IInv, SnapshotsEarned, TypeOK
<1>14. LockBounded'
    BY <1>5, <1>7, <1>9 DEF IInv, LockBounded
<1>15. LocksEarned'
  <2> SUFFICES ASSUME NEW u \in Users
               PROVE  /\ account'[u].failed_logins <= total'[u]
                      /\ account'[u].locked_until # 0 => total'[u] >= Threshold
      BY DEF LocksEarned
  <2>1. CASE u = r.user
      BY <2>1, <1>5, <1>7, <1>8
  <2>2. CASE u # r.user
    <3>1. account'[u] = account[u] /\ account[u].failed_logins \in Nat
        BY <2>2, <1>7 DEF IInv, TypeOK, Row
    <3> QED
        BY <3>1, <1>8, LockoutAssumption DEF IInv, LocksEarned, TypeOK
  <2> QED
      BY <2>1, <2>2
<1> QED
    BY <1>11, <1>12, <1>13, <1>14, <1>15 DEF IInv

\* A success writes zeros, which every bound allows.
LEMMA SuccessKeeps ==
    ASSUME IInv, NEW w \in Workers, LoginSuccess(w)
    PROVE  IInv'
<1> DEFINE u == req[w].user
<1>1. u \in Users
    BY RequestFacts DEF LoginSuccess, IInv, TypeOK
<1>2. /\ account' \in [Users -> Row]
      /\ account'[u].failed_logins = 0
      /\ account'[u].locked_until = 0
      /\ \A v \in Users \ {u} : account'[v] = account[v]
    BY <1>1, SetFacts DEF LoginSuccess, IInv
<1>3. /\ UNCHANGED <<now, sweeper, logins, total>>
      /\ req' = [req EXCEPT ![w] = Idle]
      /\ misses' = [misses EXCEPT ![u] = 0]
    BY DEF LoginSuccess, Become
<1>4. \A v \in Workers : req'[v] = req[v] \/ req'[v] = Idle
    BY <1>3 DEF IInv, TypeOK
<1>5. TypeOK'
    BY <1>2, <1>3 DEF IInv, TypeOK, Requests
<1>6. TimesPassed' /\ SnapshotsEarned'
    BY <1>3, <1>4 DEF IInv, TimesPassed, SnapshotsEarned, Idle
<1>7. LockBounded'
    BY <1>2, <1>3, LockoutAssumption DEF IInv, LockBounded, TypeOK
<1>8. LocksEarned'
    BY <1>2, <1>3 DEF IInv, LocksEarned, TypeOK
<1> QED
    BY <1>5, <1>6, <1>7, <1>8 DEF IInv

\* What the sweep clears, by its batch.
LEMMA SweepFacts ==
    ASSUME IInv, SweepLockouts
    PROVE  /\ account' \in [Users -> Row]
           /\ sweeper' \in {0, sweeper}
           /\ UNCHANGED <<now, req, logins, history>>
           /\ \A u \in Users :
                 /\ account'[u].failed_logins = account[u].failed_logins
                 /\ \/ account'[u].locked_until = account[u].locked_until
                    \/ /\ account'[u].locked_until = 0
                       /\ account[u].locked_until < now
<1>1. PICK B \in SUBSET Expired :
          /\ account' = [u \in Users |->
                            IF u \in B
                            THEN [account[u] EXCEPT !.locked_until = 0]
                            ELSE account[u]]
          /\ sweeper' \in {0} \cup
                {s \in {sweeper} : Cardinality(B) = BatchSize}
    BY DEF SweepLockouts
<1>2. \A u \in B : account[u].locked_until < sweeper
    BY DEF Expired
<1>3. \A u \in Users : account[u] \in Row
    BY DEF IInv, TypeOK
<1>4. account' \in [Users -> Row]
    BY <1>1, <1>3 DEF Row
<1>5. ASSUME NEW u \in Users
      PROVE  /\ account'[u].failed_logins = account[u].failed_logins
             /\ \/ account'[u].locked_until = account[u].locked_until
                \/ /\ account'[u].locked_until = 0
                   /\ account[u].locked_until < now
  <2>1. account[u].locked_until \in Nat /\ sweeper \in Nat /\ now \in Nat
      BY <1>3 DEF Row, IInv, TypeOK
  <2>2. sweeper <= now
      BY DEF IInv, TimesPassed
  <2>3. CASE u \in B
      BY <2>1, <2>2, <2>3, <1>1, <1>2, <1>3 DEF Row
  <2>4. CASE u \notin B
      BY <2>4, <1>1
  <2> QED
      BY <2>3, <2>4
<1> QED
    BY <1>1, <1>4, <1>5 DEF SweepLockouts

\* The sweep keeps the invariant.
LEMMA SweepKeeps ==
    ASSUME IInv, SweepLockouts
    PROVE  IInv'
<1>1. /\ account' \in [Users -> Row]
      /\ sweeper' \in {0, sweeper}
      /\ UNCHANGED <<now, req, logins, total, misses>>
      /\ \A u \in Users :
            /\ account'[u].failed_logins = account[u].failed_logins
            /\ account'[u].locked_until \in {0, account[u].locked_until}
    BY SweepFacts DEF history
<1>2. TypeOK'
    BY <1>1 DEF IInv, TypeOK
<1>3. TimesPassed' /\ SnapshotsEarned'
    BY <1>1 DEF IInv, TimesPassed, SnapshotsEarned, TypeOK
<1>4. LockBounded'
    BY <1>1, LockoutAssumption DEF IInv, LockBounded, TypeOK
<1>5. LocksEarned'
    BY <1>1 DEF IInv, LocksEarned
<1> QED
    BY <1>2, <1>3, <1>4, <1>5 DEF IInv

\* Steps that leave the counters and locks alone: only a request, the clock,
\* a status or the sweep's start moves.
LEMMA QuietKeeps ==
    ASSUME IInv, UNCHANGED history, logins' \in Nat,
           now' \in Nat \ {0}, now' >= now,
           sweeper' \in Nat, sweeper' <= now',
           account' \in [Users -> Row],
           \A u \in Users :
               /\ account'[u].failed_logins = account[u].failed_logins
               /\ account'[u].locked_until = account[u].locked_until,
           req' \in [Workers -> Requests],
           \A w \in Workers :
               /\ req'[w] # Idle => req'[w].t <= now'
               /\ req'[w].op = "login_txn" =>
                     req'[w].row.failed_logins <= total[req'[w].user]
    PROVE  IInv'
<1>1. TypeOK' /\ TimesPassed'
    BY DEF IInv, TypeOK, TimesPassed, history
<1>2. SnapshotsEarned' /\ LocksEarned'
    BY DEF IInv, SnapshotsEarned, LocksEarned, history
<1>3. LockBounded'
  <2> SUFFICES ASSUME NEW u \in Users
               PROVE  account'[u].locked_until <= now' + Duration
      BY DEF LockBounded
  <2>1. account[u].locked_until <= now + Duration
      BY DEF IInv, LockBounded
  <2>2. account[u].locked_until \in Nat /\ now \in Nat
      BY DEF IInv, TypeOK, Row
  <2> QED
      BY <2>1, <2>2, LockoutAssumption
<1> QED
    BY <1>1, <1>2, <1>3 DEF IInv
-----------------------------------------------------------------------------
\* What the invariant says of the requests, in the form QuietKeeps asks for.
LEMMA RequestBounds ==
    ASSUME IInv
    PROVE  /\ now \in Nat \ {0} /\ logins \in Nat
           /\ sweeper \in Nat /\ sweeper <= now
           /\ account \in [Users -> Row] /\ req \in [Workers -> Requests]
           /\ Idle \in Requests /\ Idle.op = "idle"
           /\ \A w \in Workers :
                 /\ req[w] # Idle => req[w].t <= now /\ req[w].t \in Nat
                 /\ req[w].op = "login_txn" =>
                       req[w].row.failed_logins <= total[req[w].user]
<1>1. \A w \in Workers : req[w] # Idle => req[w].t \in Nat
    BY RequestFacts DEF IInv, TypeOK
<1> QED
    BY <1>1 DEF IInv, TypeOK, TimesPassed, SnapshotsEarned, Requests, Idle

\* Every step keeps the inductive invariant.
LEMMA IInvStep == IInv /\ [Next]_vars => IInv'
<1> SUFFICES ASSUME IInv, [Next]_vars PROVE IInv'
    OBVIOUS
<1> USE RequestBounds
<1>1. ASSUME NEW w \in Workers, LoginArrive(w) PROVE IInv'
  <2>1. PICK u \in Users :
            req' = [req EXCEPT ![w] = [op |-> "login_read", user |-> u,
                                       t |-> now]]
      BY <1>1 DEF LoginArrive, Become
  <2>2. [op |-> "login_read", user |-> u, t |-> now] \in Requests
      BY DEF Requests
  <2>3. UNCHANGED <<now, account, sweeper, history>> /\ logins' \in Nat
      BY <1>1 DEF LoginArrive
  <2> QED
      BY <2>1, <2>2, <2>3, QuietKeeps
<1>2. ASSUME NEW w \in Workers, LoginRead(w) PROVE IInv'
  <2>1. req[w] \in Requests /\ req[w].op = "login_read"
      BY <1>2 DEF LoginRead
  <2>2. req[w].user \in Users /\ req[w].t \in Nat /\ req[w].t <= now
      BY <2>1, RequestFacts
  <2>3. account[req[w].user] \in Row
      BY <2>2
  <2>4. account[req[w].user].failed_logins <= total[req[w].user]
      BY <2>2 DEF IInv, LocksEarned
  <2>5. PICK ok \in BOOLEAN :
            req' = [req EXCEPT ![w] =
                       [op |-> "login_txn", user |-> req[w].user,
                        t |-> req[w].t, row |-> account[req[w].user],
                        password_ok |-> ok]]
      BY <1>2 DEF LoginRead, Become
  <2>6. [op |-> "login_txn", user |-> req[w].user, t |-> req[w].t,
         row |-> account[req[w].user], password_ok |-> ok] \in Requests
      BY <2>2, <2>3 DEF Requests
  <2>7. UNCHANGED <<now, account, sweeper, logins, history>>
      BY <1>2 DEF LoginRead
  <2> QED
      BY <2>2, <2>4, <2>5, <2>6, <2>7, QuietKeeps
<1>3. ASSUME NEW w \in Workers, LoginRefused(w) \/ Fail(w) PROVE IInv'
  <2>1. /\ req' = [req EXCEPT ![w] = Idle]
        /\ UNCHANGED <<now, account, sweeper, logins, history>>
      BY <1>3 DEF LoginRefused, Fail, Become
  <2> QED
      BY <2>1, QuietKeeps
<1>4. ASSUME NEW u \in Users, Activate(u) PROVE IInv'
  <2>1. /\ account' = [account EXCEPT ![u].status = "ACTIVE"]
        /\ UNCHANGED <<now, req, sweeper, logins, history>>
      BY <1>4 DEF Activate
  <2>2. /\ account' \in [Users -> Row]
        /\ \A v \in Users :
              /\ account'[v].failed_logins = account[v].failed_logins
              /\ account'[v].locked_until = account[v].locked_until
      BY <2>1 DEF Row
  <2> QED
      BY <2>1, <2>2, QuietKeeps
<1>5. CASE SweepStart
  <2>1. sweeper' = now /\ UNCHANGED <<now, account, req, logins, history>>
      BY <1>5 DEF SweepStart
  <2> QED
      BY <2>1, QuietKeeps
<1>6. CASE Tick
  <2>1. now' = now + 1 /\ UNCHANGED <<account, req, sweeper, logins, history>>
      BY <1>6 DEF Tick
  <2> QED
      BY <2>1, QuietKeeps
<1>7. CASE Crash
  <2>1. /\ req' = [w \in Workers |-> Idle] /\ sweeper' = 0
        /\ UNCHANGED <<now, account, logins, history>>
      BY <1>7 DEF Crash
  <2> QED
      BY <2>1, QuietKeeps
<1>8. CASE UNCHANGED vars
    BY <1>8, QuietKeeps DEF vars
<1> QED
    BY <1>1, <1>2, <1>3, <1>4, <1>5, <1>6, <1>7, <1>8, MissKeeps,
       SuccessKeeps, SweepKeeps DEF Next, Handle

\* The inductive invariant holds in every reachable state.
THEOREM LockoutInvariant == Spec => []IInv
BY InitIInv, IInvStep, PTL DEF Spec

\* Rows, requests and counters keep their shape (auth_api.c, user_store.c).
THEOREM LockoutTypeOK == Spec => []TypeOK
<1>1. IInv => TypeOK
    BY DEF IInv
<1> QED
    BY <1>1, LockoutInvariant, PTL

\* For any number of concurrent logins, no lock reaches further than one
\* lock duration ahead of the clock.
THEOREM LockoutBounded == Spec => []LockBounded
<1>1. IInv => LockBounded
    BY DEF IInv
<1> QED
    BY <1>1, LockoutInvariant, PTL

\* For any number of concurrent logins, a lock is backed by at least
\* Threshold wrong passwords that were answered with a 401.
THEOREM LockoutEarned == Spec => []LocksEarned
<1>1. IInv => LocksEarned
    BY DEF IInv
<1> QED
    BY <1>1, LockoutInvariant, PTL
-----------------------------------------------------------------------------
\* A login that read the lock in force writes nothing.
LEMMA FreshLoginRefused ==
    ASSUME IInv, NEW w \in Workers, NEW u \in Users, InForce(u),
           req[w].op = "login_txn", req[w].user = u,
           req[w].row.locked_until = account[u].locked_until
    PROVE  ~Miss(req[w]) /\ ~Success(req[w])
<1>1. req[w].t <= now /\ req[w].t \in Nat /\ now \in Nat
    BY RequestBounds
<1>2. account[u].locked_until \in Nat /\ account[u].locked_until > now
    BY RequestBounds DEF InForce, Row
<1>3. Locked(req[w])
    BY <1>1, <1>2 DEF Locked
<1> QED
    BY <1>3 DEF Miss, Success

\* A lock in force ends early only by a login that read the row before the
\* lock was written (auth_api.c:989), whatever the sweep does meanwhile.
THEOREM LockoutEndsEarlyOnlyByStaleLogin ==
    Spec => LockEndsEarlyOnlyByStaleLogin
<1>1. IInv /\ [Next]_vars => [EarlyEndIsStale]_vars
  <2> SUFFICES ASSUME IInv, Next, NEW u \in Users, InForce(u),
                      account'[u].locked_until < account[u].locked_until
               PROVE  \E w \in Workers :
                         /\ req[w].op = "login_txn" /\ req[w].user = u
                         /\ req[w].row.locked_until # account[u].locked_until
      BY DEF EarlyEndIsStale
  <2>0. account[u] \in Row /\ account[u].locked_until \in Nat /\ now \in Nat
      BY RequestBounds DEF Row
  <2>1. account'[u] # account[u]
      BY <2>0
  <2>2. CASE SweepLockouts
      BY <2>0, <2>2, SweepFacts DEF InForce
  <2>3. ASSUME NEW w \in Workers, LoginMiss(w) \/ LoginSuccess(w)
        PROVE  /\ req[w].op = "login_txn" /\ req[w].user = u
               /\ req[w].row.locked_until # account[u].locked_until
    <3>1. req[w].op = "login_txn" /\ (Miss(req[w]) \/ Success(req[w]))
        BY <2>3 DEF LoginMiss, LoginSuccess
    <3>2. PICK failed, until :
              SetLoginFailureState(req[w].user, failed, until)
        BY <2>3 DEF LoginMiss, LoginSuccess
    <3>3. req[w].user = u
        BY <2>1, <3>2, RequestBounds DEF SetLoginFailureState
    <3> QED
        BY <3>1, <3>3, FreshLoginRefused
  <2>4. ASSUME NEW v \in Users, Activate(v) PROVE FALSE
      BY <2>0, <2>4, RequestBounds DEF Activate, Row
  <2> QED
      BY <2>1, <2>2, <2>3, <2>4
      DEF Next, Handle, LoginArrive, LoginRead, LoginRefused, Fail,
          SweepStart, Tick, Crash
<1> QED
    BY <1>1, LockoutInvariant, PTL DEF Spec, LockEndsEarlyOnlyByStaleLogin
=============================================================================
