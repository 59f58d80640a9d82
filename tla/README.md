# PlatformService: TLA+ models, checks and proofs

PlatformService is a TLS service in C for accounts and sessions: a listener
hands connections to a fixed pool of worker threads, each worker runs one HTTP/1.1
connection at a time, handlers use a SQLite database through a pool of
connections, and a maintenance thread removes what has expired.

This directory models the parts of it whose correctness depends on the order of
steps, and the decoders that stand before them. TLC checks the models on small
instances; for eight components TLAPS proves the main properties for every value
of the constants. Paths are relative
to the root of the repository; `plan` is `plans/00-project-plan.md`.

    tlc -workers 2 -config Sessions_sessions.cfg MCSessions
    tlapm SessionsProofs.tla

`PROJECT.json` lists components, runs, theorems and hazards, and maps every
definition to the lines it stands for.

## 1. The system

| Part | Source | State | Operations | What is hard | What must hold |
|---|---|---|---|---|---|
| Sessions | `src/auth/session.c`, `src/store/session_store.c`, login, refresh, logout and password change of `src/api/auth_api.c` | `session_families`, `refresh_tokens` | create, rotate, reuse detection, logout, revoke others, sweep | reads before the transaction, two presentations of a token, sweep under a handler, lost answers, crashes | one live token per family; revoked is final; two expiries; only the owner or a replay ends a session |
| Verification | register, verify, resend of `auth_api.c`, `src/store/token_store.c`, `src/mail/mailer_outbox.c` | users, verification tokens, outbox | register, verify, resend, sweep | checks outside the transaction, throttle counted from rows the sweep deletes | one live token; activation only by a mailed token in time; bounded mail |
| Lockout | login of `auth_api.c`, `src/store/user_store.c` | `failed_logins`, `locked_until` | login, sweep | absolute values computed from a row read before the hash | locks are earned, bounded, and end |
| Thread pool | `src/platform/threadpool.c` | ring, flags, threads | create, submit, work, shutdown, destroy, destroy_timed | condition variables, giving up a join half-way | FIFO, no lost wakeup, no early free, no double join |
| Server | `src/server.c`, `src/platform/net.c`, `src/main.c` | acceptor, listener flags, sockets, what main has freed | accept, hand over, signal, drain, teardown | acceptor and workers running during teardown | a socket has one owner; work keeps its resources; the process ends |
| Connection pool, transactions, KDF slots | `src/store/db.c`, `src/crypto/kdf_semaphore.c`, the handlers of `auth_api.c` | free stack, semaphore, the write lock and what is pending under it | acquire, release, try_acquire, BEGIN, statements, COMMIT, ROLLBACK | hold and wait, early returns, a COMMIT that fails on a connection others will use | nothing leaks, no stranded sleeper, in the configured size nobody waits, answers match what is durable |
| Rate limiter | `src/platform/ratelimit.c` | a shard's slots, `occupied` | allow | probing, eviction, clocks read before the lock | a bucket per key, burst and refill |
| HTTP connection | `src/http/conn.c`, `src/http/request.c` | buffer, counters | handshake, read, frame, serve, close | pipelining, fragments, limits | answers in order, bounded buffer, every connection ends |
| Routing, authorisation | `src/http/router.c`, `src/api/routes.c`, `src/api/rbac.c`, `src/api/user_api.c`, `src/auth/jwt.c` | tokens in use, audit rows | match, authorise, get user | tokens older than the facts they carry | only the entitled; honest audit rows |
| User listing | `src/api/admin_api.c`, `src/store/user_store.c` | users, cursors | page | accounts created between pages | nothing skipped or repeated |
| Start-up | `src/main.c`, `src/auth/bootstrap.c`, `src/store/db.c` | schema, administrators, audit | migrate, bootstrap, serve | two instances that count before either inserts, crash or refusal anywhere | only overlapping starts seed, never one account twice; audited; nobody serves without an administrator |
| Maintenance thread | `src/platform/maintenance.c` | stop flag, batches | start, sweeps, timed wait, stop | sweeps beside handlers; a stop that races the wait | removes only what is dead; always stops |
| JSON | `src/json/json_parse.c`, `src/json/json_write.c` | a heap whose allocations may fail | parse, write, build a body | errors half-way through a tree | the grammar's value or nothing; nothing leaks |
| Credentials, base64url | `src/auth/validate.c`, `src/auth/password.c`, `src/crypto/base64url.c` | | normalise, look up, encode, decode | buffers, a search in a file somebody edits | one spelling per token; what is stored is accepted again |
| Configuration, CORS | `src/platform/config.c`, `src/http/cors.c` | settings, origins | defaults, file, environment, validation, scan | precedence, two scanners of one list | runs with what it was told, or not at all |
| Health, audit, responses, crypto, TLS, logging | see `PROJECT.json` | | | | |

The worker that pops a connection runs `ps_conn_handle`, which frames requests and
calls the router; a handler consults the rate limiter, takes a KDF slot and a
database connection, and runs statements and transactions. The sweep touches
the same tables from its own thread. On a signal, main stops the listener, drains
the pool and frees what the workers used.

## 2. How the models are built

* A `BEGIN IMMEDIATE ... COMMIT` block is one step: SQLite runs one writer at a
  time. A read outside a transaction is a step of its own, so anything may happen
  between it and what it decides. `Resources` takes the block apart, statement by
  statement, for what a failure in the middle leaves on the connection.
* A handler reads the clock once, when it starts; the model keeps this reading in
  `req[w].t`, and handlers run with readings older than what others have written.
* A mutex's critical section is one step; waiting on a condition variable is a
  state of the thread, and a signal wakes any one sleeper.
* Where a statement or a `COMMIT` can fail, `Fail(w)` answers 500 at any point and
  leaves what was committed before. A crash clears the requests and keeps the tables.
* Random identifiers are values never used twice. Hashes and headers are
  abstracted to what the code distinguishes: right or wrong, well formed or not.
* A decoder is an operator from its input to its result. It runs before anything it
  decodes is used and keeps no state, so the run of the component behind it also
  enumerates its inputs, each in a state of its own (`input`).
* A handler that touches several components appears in each module with the part
  that concerns it. Login, for instance, is in `Sessions` (family and first
  token), `Lockout` (counters) and `Resources` (slot and connection).

| Module | Models | Actions |
|---|---|---|
| `SessionContract` | what sessions promise: start, rotate, end, forget | |
| `Sessions` | families, tokens, four handlers, family and token sweep, crash | one per statement outside a transaction, one per transaction |
| `Verification` | users, tokens, outbox; register, verify, resend, sweep | the same |
| `Lockout` | the lockout columns; login in three steps, sweep | the same |
| `JobQueue` | a bounded FIFO queue that closes | |
| `ThreadPool` | `threadpool.c`, one action per critical section | |
| `Maintenance` | the maintenance thread: passes, timed wait, stop request | |
| `Server` | composes `ThreadPool` and `Maintenance` with acceptor, main and teardown | |
| `Resources` | both pools, the write lock, and for every handler the order in which it takes, uses and returns them | one per resource operation and SQL statement, and one per way it can fail |
| `TokenBuckets` | one bucket per key: `ratelimit.h` | |
| `RateLimiter` | one shard: probing, insertion, eviction, buckets | |
| `HttpConnection` | the loop of `conn.c` over a wire of requests cut into reads anywhere | |
| `Dispatch` | router, policies, bearer tokens, the user handlers | |
| `UserListing` | keyset pagination | |
| `Startup` | the start-up sequence of `main.c`, bootstrap, crash | |
| `Json`, `JsonGrammar` | parser, tree and writer, with the allocations they make; a grammar to hold them against | operators |
| `Base64url`, `Credentials` | the codec; user names, addresses, the password denylist | operators |
| `Config` | configuration and the list of origins | operators |
| `MC...` | symmetry and small sets for TLC; the decoders' inputs | |
| `...Proofs` | theorems | |

## 3. The runs

Every run finishes within five minutes with two workers. The sizes are the
smallest at which the cases named occur; each property has a mutation of the code,
listed in `PROJECT.json`, that TLC refutes at this size. A module's `TypeOK` is a conjunct
of one of the invariants checked, or proved where there is a `...Proofs` module.

**`sessions`** (`Sessions_sessions.cfg`): two workers, two users, two families, three
tokens, of both together at most four (`MaxDrawn`), two seconds, statements that fail. Two workers suffice for every race of two
requests and for a third party, the sweep. One family with three
tokens is two rotations, or two refreshes of one token that race for its successor; two families are a session for each user.
`TokenChain`: generations are
distinct and an unconsumed token is the newest, whatever refreshes race.
`AbsoluteCap`: rotation does not move the end of a session.
`OnlyOwnerOrReuseRevokes`: who ends a session. `SweepRemovesOnlyDead`.
`ImplementsContract`: refinement of `SessionContract`, so an ended session stays ended.

**`sessions_password_race`**: see section 6.

**`pool`** (`ThreadPool_pool.cfg`): three workers, two slots, four jobs, so the ring
wraps, fills and empties and two workers compete for one wakeup. `NoIdleBacklog`: no
job waits beside workers of which none has been told. `FreedOnlyWhenQuiet`: also for
`destroy` after a `destroy_timed` that gave up, which must join nobody twice (`JoinedOnce`).
`ImplementsQueue`: refinement of `JobQueue`. `ShutdownEnds`: every worker leaves and no
job stays behind.

**`server`** (`Server_shutdown.cfg`): two workers, one slot, three connections, the
maintenance thread with two of its six tables, a signal at any moment. `SocketOwners`: an open socket is held by exactly one of
queue, worker and acceptor. `ResourcesOutliveWork`. `ShutdownCompletes`: the process ends
even if a worker never does and the interval of the maintenance thread never elapses: main joins that thread
without a timeout, so its stop request must reach it before, in or after its wait. Two tables are a first and a last one.

**`verification`** (`Verification_accounts.cfg`): two workers, one address, four tokens, five
seconds, so the interval, the day and the lifetime all pass. `OneLiveToken`,
`ActiveProved`. `SendsBounded`, with `UsesBounded` as a part of it: how far `n` overlapping requests can exceed the two
throttles and single use, by `n - 1` at most, with a sweep that deletes the rows the throttles count.
The daily limit needs requests that take no longer than a token lives (`MaxLatency`).

**`lockout`** (`Lockout_concurrent.cfg`): two workers, one account, threshold two, four logins.
`LocksEarned`. `ThresholdLocks`: misses that each read the row the one before
left do lock. `LockEndsEarlyOnlyByStaleLogin`. `ExpiredLockCleared`: liveness.

**`ratelimit`** (`RateLimiter_shard.cfg`): two keys with every pair of hash values and one key without a
budget, in a shard with room for one key or two; three requests are allowed in all (`MaxTotal`) within two minutes, so a bucket is
emptied, idles past the time that fills it, and is emptied again. With room for all: `BurstBound` and `ImplementsBuckets`,
which includes that probing finds every key. Also when entries are evicted: `RefusalsDeserved`, and `OccupiedExact`, a part of `BurstBound`.

**`resources`** (`Resources_pool.cfg`): three workers, one to three connections, one slot, and a failure at each step of
each handler. `NothingLeaks`; `NoStrandedSleeper`, which says of the size main.c configures, as many connections as workers, that nobody waits at all.
`AnswersTruthful`: a 200 means committed, a 500 at or before the `COMMIT` means that nothing of the request is or will become durable. It is
not obvious because a failed `COMMIT` is not followed by a `ROLLBACK`: the connection may go back to the pool inside the transaction, with the writes
pending, and the next handler that takes it adds its own statements. It holds because that handler's `BEGIN` fails there, so nobody commits.
What does not hold is that the service recovers, see section 6. Deadlock is checked, so no order of slots and connections ends in one.

**`http_pipeline`** (`HttpConnection_pipeline.cfg`): up to three pipelined requests of eleven shapes at and beyond
each limit, read in every possible fragmentation, three keep-alive limits. `AnswersInOrder`, which includes when the
connection must close and that each request is handled once; `BufferBounded`, `ConnectionEnds`.

**`user_listing`** (`UserListing_walk.cfg`): two administrators, five accounts, page sizes 0, 1, 2 and one
above the maximum, lost answers. `NothingSkipped`, `WalkComplete`, `WalkEnds`.

**`startup`** (`Startup_instances.cfg`): two instances, four starts, credentials that are missing, weak, or good and of accounts that share
username and address, one of them, or neither. `SeededOnce`: the count of administrators is read outside the transaction that inserts, and the transaction refuses only a username or an address
in use, so two starts that overlap may both seed one. What holds is that nobody who starts later does, that the two have neither in common, and that each has its audit row; with credentials of one account it is one
administrator (proved, `SharedCredentialsOneAdmin`), with others it is not (section 6). `ServesReady`. Two instances may serve side by side, each on its own port. `ConfigExact`: before that, a process reads files of up to two lines and an environment, about each setting alone and
each pair that meets in a check, with values that are good, bad and at the bounds, and every list of origins of up to five characters. Numbers and sizes are
scaled down (a port is at most 3, a secret at least 3 characters, two origins at most), and settings that the table treats alike share a row.

**`dispatch`** (`Dispatch_policy.cfg`): all registered paths and near misses, both methods, tokens of a user and of an
administrator that age past expiry and skew. `OnlyEntitled`, `AuditHonest`; that no request fits two routes is an assumption TLC evaluates
(`RoutesUnambiguous`). The decoders, over bounded inputs: `JsonExact` against the grammar, on all texts of up to three tokens and on every one-token edit of ten longer ones
(duplicate keys, NUL in a key, surrogates, depth and number length at their limits); `JsonBalanced`, the same texts and the bodies the service builds with every
allocation failing in turn; `Base64Canonical` on all texts and byte strings of up to four characters of the interesting classes, a whole group and each remainder; `CredentialRules` on all
names of up to four and all addresses and denylist files of up to six characters.

Deadlock is checked except where the system may stop: a closed connection, a bounded number of starts, and the bounds
on clock and admissions of the limiter.

## 4. Fairness

* `ThreadPool`: a worker that can run does, and a job returns, since `ps_conn_handle` is bounded by socket timeouts and a
  request count; a thread in its join loop goes on. Nothing makes the owner shut down.
* `Server`: acceptor and main run whenever they are not blocked. A worker need not finish; the grace period ends. The maintenance
  thread goes on once it has been asked to stop; nothing makes its interval elapse.
* `Lockout`: the maintenance thread wakes again and again (weak), and not every sweep is cut short by a crash (strong).
* `HttpConnection`: `poll` and the socket timeouts bound every blocking call.
* `UserListing`: an administrator keeps asking and is answered in the end.

The other modules claim no liveness.

## 5. The proofs

They hold for any number of workers, users, families, tokens, accounts, connections, slots and jobs and any lifetimes that satisfy the
named assumptions of the modules (`ConstantsAssumption` of `Sessions`, `LockoutAssumption`, `ListingAssumption`, `VerificationAssumption`,
`ThreadPoolAssumption`, `ResourcesAssumption`, `StartupAssumption`, `DispatchAssumption`: natural numbers, a positive threshold, page size, batch or capacity, finite sets of workers
and connections, and values such as `None` that are no member of the set they stand beside), with crashes and failing statements included.

**`SessionsProofs`.** The inductive invariant is `TypeOK /\ ReferentialIntegrity /\ TokenChain /\ AbsoluteCap`. `TokenChain` is
inductive because `consumed` is tested and set in the transaction that inserts the successor: the token found unconsumed is the
newest of its family, and the successor has the next generation. `AbsoluteCap` needs `ReferentialIntegrity`, as the family a token names must be the one it was
created with, and both need `TypeOK` for arithmetic. From it follow `SessionsRevocationFinal`, an action property, and
`SessionsRefinement`: each step is a step of `SessionContract` or leaves the families it talks of unchanged.

**`LockoutProofs`.** `LockBounded` and `LocksEarned` are not inductive, as a login writes values derived from a row it read earlier. The
invariant adds `TimesPassed` (no reading of the clock lies ahead of it) and `SnapshotsEarned` (a row some login
read earlier counts no more wrong passwords than were answered). `LockoutEndsEarlyOnlyByStaleLogin` is proved from it.

**`UserListingProofs`.** The invariant says that what a walk has seen is exactly the accounts up to its cursor; a page adds the accounts
in the next interval and moves the cursor to its end; the cursor is 0 or the id of an account. `ListedOnce` and `WalkComplete` follow because ids only grow.

**`VerificationProofs`.** Verify judges a token, and resend an account, in a read before the transaction that acts on them, so `OneLiveToken` and
`ActiveProved` are not inductive alone. `Sound` says what stays true of such a request until its transaction runs (the token it carries was mailed, and to the user it is
about to activate), and `Owned` that a row agrees with what was issued. `OneLiveToken` then needs that a resend invalidates inside the transaction that inserts.

**`ThreadPoolProofs`.** `Accounted` relates the array of threads, the joined ones and the states of the workers: each thread started is joined or still to be joined, once, and a
worker has left only when the pool is shutting down and the queue is empty. `PoolFreedOnlyWhenQuiet` follows from it at `Free`. `PoolNoIdleBacklog` counts the awake workers: submit adds a job and wakes one
sleeper, a worker that takes a job leaves the count with it. `PoolImplementsQueue` maps the ring to the sequence of its occupied slots, and shows push to append and pop to take the head whatever the wrap, from facts
about remainders (`ModFacts`).

**`ResourcesProofs`.** What a worker holds and whether it is inside a transaction is a function of the steps its request has left. `Rule` and `Good` say what those sets look like; `PlansFresh` shows that the
plans of all handlers have this form, and `TailFacts` that a step keeps it. The invariant is `Exclusive` (a connection is in the stack once or with one worker), `Holdings` (connection and slot follow from the steps left) and
`Transactions` (the lock is with the one worker inside a transaction; only its writes are in `wrote`; writes of an answered request are there only when nobody is inside one).
`ResourcesNothingLeaks` and `ResourcesAnswersTruthful` follow. `ResourcesNoStrandedSleeper` is inductive relative to it; that a pool with as many connections as workers never makes anybody wait is a counting argument: on an
empty stack, the connections would be mapped one to one to the workers other than the one that looks (`SizedNeverEmpty`).

**`StartupProofs`.** `SeededOnce` and `ServesReady` with `Established`: what a start has passed stays true, as nothing removes the schema or an administrator; and a start about to insert has counted none, so an administrator
there is now was committed after it began. `SharedCredentialsOneAdmin` adds `Origin`, that name and address of every administrator come from good credentials of some environment, and assumes of the environments that such
credentials have the username or the address of one account in common (`SharedCredentials`): then any two administrators would clash, which `SeededOnce` excludes. The assumption is about the deployment; the code does not see to it.

**`DispatchProofs`.** `OnlyEntitled` and `AuditHonest` with `TokensTrue`: a token was signed for a user of the table, expires one lifetime after it was issued, and carries ADMIN only for an administrator. The answer to a request is
then followed through route, policy, bearer token and handler.

`TypeOK` of these modules, `ReferentialIntegrity`, `RevocationFinal`, `LockBounded` and `ListedOnce` are proved and are not repeated as
properties of a run. Only model-checked: all liveness; the decoders; `RateLimiter`, `Server`, `Maintenance` and `HttpConnection`; of `Sessions`, `OnlyOwnerOrReuseRevokes` and
`SweepRemovesOnlyDead`; of `Lockout`, `ThresholdLocks`; of `Verification`, `SendsBounded`.

Out of reach of the prover, and so left to TLC for good: liveness under fairness, and what recursively defined operators compute, which the decoders are.

## 6. Statements of the documents that the code does not keep

Each is a definition in a section of its own at the end of its module, with a configuration that lets TLC produce the behaviour. The
first is among the listed runs; the others are run by hand, `tlc -config <cfg> <module>` with the `MC` module where there is one, and with `-continue` where a
configuration lists several properties. All of them end with a violation, which is the point: the trace shows how.

| Configuration, property | What the repository says | What the code does |
|---|---|---|
| `Sessions_password_race`, `NoSupersededSession` | plan:741 "every other session family for that user is revoked" | Login verifies the password before its transaction. A change that commits in between revokes the sessions it can see; the login then creates one for the old password. |
| `Sessions_logout_race`, `LogoutFindsFamily` | plan:717 "Idempotent: revoking an already-revoked family still returns `204`" | Logout reads token and family as two statements; when the sweep deletes a dead family in between, the answer is 500. |
| `Sessions_retention`, `ConsumedRetained` | `src/store/session_store.h:4` consumed tokens are removed "once their family is long past absolute_exp" | The sweep also removes families revoked longer ago than the retention period, with their tokens. |
| `Sessions_revoke_fault`, `AcknowledgedEnds` | `src/auth/session.h:56` "the family has already been revoked as a side effect" | The result of the revoking UPDATE is ignored (`session.c:70`, `84`); when it fails, reuse is reported and the family lives. |
| `Verification_single_use`, `SingleUse` | plan:621 "Single-use. Consumes the token" | The token is read outside the transaction, and consuming it does not test `consumed_at`: two overlapping requests are both answered 200. |
| `Verification_resend_race`, `TokensOnlyForPending` | plan:642 "Already-`ACTIVE` accounts do nothing at all (no email, no token)" | Resend acts on the status read before its transaction. |
| `Verification_throttle_race`, `SendsSpaced` | plan:649 "at most **1 send per address per 60 seconds**" | The throttle is counted outside the transaction that inserts the token. |
| `Lockout_documented`, `EveryMissCounts` | plan:1329 "Failed attempts before lock, 10 consecutive" | A miss writes the count it read before the hash plus one; concurrent misses overwrite each other. |
| `Lockout_documented`, `LockHolds` | `src/api/auth_api.c:1008` "the lock itself already blocks it" | A login that read the row before the lock writes `locked_until = 0` over it. |
| `RateLimiter_eviction`, `ProbeAlwaysFindsKeys` | `src/platform/ratelimit.c:158` an unoccupied slot "proves the key isn't present anywhere further along" | The evicted slot need not be on the probe path of the key that replaces it; that key is not found again and gets a new bucket. |
| `Server_documented`, `PoolNotUsedAfterFree` | `src/server.h:81` "server->pool must not be used again" | The pool is freed before the acceptor is joined, which may be between accept and submit. |
| `Server_documented`, `NothingFreedUnderWorker` | `src/platform/threadpool.h:53` "nothing is ever freed out from under a still-running worker" | After a grace period that ran out, cleanup still wipes the configuration. |
| `Server_documented`, `TornDownAlike` | `src/main.c:466` "tear it down the same way a signal would" | After a failed `sigwait` the pools are destroyed without asking whether the drain succeeded. |
| `Server_documented`, `SecondSignalExits` | plan:1450 "A second signal during draining exits immediately." | `sigwait` is called once and the signals stay blocked. |
| `Startup_documented`, `OnlyOneAdmin` | plan:1218 "There is exactly one admin"; plan:1373 `BOOTSTRAP_ADMIN_CREATED` "once per database, ever" | Two instances that start at once with different credentials both count none, and both insert: nothing in the transaction counts again. |
| `Startup_documented`, `SeededWithSchema` | plan:1216 "Runs inside the migration transaction" | Migration and bootstrap are transactions of their own, and the count is in neither: a start that ends between them leaves a migrated database without an administrator. A partially created one, which the plan wants to exclude, still cannot be. |
| `Startup_documented`, `PasswordWiped` | `src/auth/bootstrap.h:29` the password is cleansed "before this returns, on every path" | With an administrator present the bootstrap returns before it; so do a failed count and missing credentials. |

The passing properties state what does hold in the same places: `UsesBounded` and `SendsBounded` for single use and the throttle,
`LockEndsEarlyOnlyByStaleLogin` and `ThresholdLocks` for the lock, `ImplementsBuckets` for a table that evicts nothing, `SeededOnce` for the administrator.

Noted while modelling, without a statement to hold it against: a failed `COMMIT` returns its connection to the pool without `ROLLBACK`, and if SQLite has kept the transaction, the write lock
stays with an idle connection, every later `BEGIN` of the process answers 500, and audit rows written on that connection are pending with it (`NoAbandonedTransaction`, `Resources_commit_fault.cfg`);
any error of `accept` ends the acceptor for good; a short `fread` of the denylist is not noticed, and the list is what was read;
a JSON number beyond the range of a double is accepted and would be written as `null`; `failed_logins` stays at the threshold when a lock expires, so that one more miss locks again;
login waits for a database connection while it holds a KDF slot; a request takes effect also when its answer cannot be written.

## 7. Not modelled

* Responses and header syntax: formatting and character classes. `HttpConnection` takes the outcome of parsing a request as part of its shape.
* Cryptographic primitives, TLS and logging: libraries or output. A signature is valid or not, a hash is of the right password or not, a TLS read or write succeeds or fails.
* Of the audit store only the rows a property is about; of the health endpoints their routes and the draining flag, not the answer they compute from it.
* Socket creation and address formatting of `net.c`, the text of mails, and the SQL of lookups by primary key.
* Of configuration files, lines longer than the 1023 bytes one `fgets` returns, which the code reads as several lines. `--check-config`, which exits before the checks of TLS and of the
  number of origins, is not a start.
* The rounding of the token counts of the limiter, which are doubles: the model counts in exact fractions.
* `strtod`, `strtol` and `strtoll`: a number is the digits they are given, or comes from a table.
* `Resources` gives each worker one request after another and abstracts what a statement writes to whose it is; what the rows are is in the modules that own them.
  That a transaction that fails leaves nothing behind, which those modules take for granted, is what `AnswersTruthful` states.

## 8. Plan

The order was: sessions first, as the heart of the service and the most interleaved; then thread pool and server, verification and lockout, the shared
resources and the limiter, the connection loop, dispatch, listing and start-up; then the maintenance thread beside the teardown, the transaction state of a connection, and the decoders; proofs for the modules whose invariants do
not depend on a bound.

Left, in this order:

1. Composition: a worker that runs a connection through `Resources` under `Server`'s shutdown; readiness following the draining flag.
2. Header syntax of `request.c` as an algorithm against a reference definition.
3. Proofs: `SocketOwners` of `Server`; `BurstBound` of `RateLimiter`; `ThresholdLocks` of `Lockout`; `OnlyOwnerOrReuseRevokes` and `SweepRemovesOnlyDead` of `Sessions`.
