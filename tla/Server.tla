------------------------------- MODULE Server -------------------------------
(***************************************************************************)
(* The accept loop and the graceful shutdown: server.c, the listener of    *)
(* platform/net.c and the end of main.c, around the worker pool of         *)
(* ThreadPool and the thread of Maintenance.  Four kinds of threads take   *)
(* part: the acceptor, the main thread, the maintenance thread, and the    *)
(* pool's workers, whose jobs are connections.                             *)
(***************************************************************************)
EXTENDS Naturals, Sequences, FiniteSets

CONSTANTS
    N, Capacity, None,  \* of the pool
    Conns,              \* client connections
    Tables              \* of the maintenance thread

VARIABLES
    ring, head, count, shutting_down, worker, job, workers, joining, joined,
    owner, submitted,   \* of the pool
    stop, thread, table,    \* of the maintenance thread
    backlog,    \* connections the kernel has queued on the listening socket
    sockets,    \* client sockets this process holds open
    acceptor,   \* where the acceptor thread is
    conn,       \* the connection it has accepted and not yet handed over
    draining,   \* ps_server_t.draining, what /readyz reports
    stopping,   \* ps_listener_t.stopping
    eventfd,    \* shutdown_fd is readable
    main,       \* where the main thread is
    signals,    \* shutdown signals pending
    drained,    \* the result of ps_server_shutdown
    failed,     \* sigwait returned an error
    freed,      \* what the main thread has freed or wiped
    undefined   \* the pool was used after it was freed

queueVars == <<ring, head, count, shutting_down>>
poolVars  == <<queueVars, worker, job, workers, joining, joined, owner,
               submitted>>
maintVars == <<stop, thread, table>>
connVars  == <<backlog, sockets, acceptor, conn>>
stopVars  == <<draining, stopping, eventfd>>
mainVars  == <<main, signals, drained, failed, freed>>
vars      == <<poolVars, maintVars, connVars, stopVars, mainVars, undefined>>

Pool == INSTANCE ThreadPool WITH Jobs <- Conns
Maint == INSTANCE Maintenance

Workers == 1..N

\* What workers use through app_ctx and the server structure.
Resources == {"tls_ctx", "ratelimiter", "kdf_semaphore", "denylist",
              "db_pool", "config"}

Running == {w \in Workers : worker[w] = "running"}
-----------------------------------------------------------------------------
\* The acceptor starts only after the whole pool did.
Init ==
    /\ ring = [s \in 0..Capacity - 1 |-> None]
    /\ head = 0 /\ count = 0 /\ shutting_down = FALSE
    /\ worker = [w \in Workers |-> "loop"]
    /\ job = [w \in Workers |-> None]
    /\ workers = [w \in Workers |-> w]
    /\ joining = 1 /\ joined = {} /\ owner = "up" /\ submitted = {}
    /\ backlog = Conns
    /\ sockets = {}
    /\ acceptor = "check"
    /\ conn = None
    /\ draining = FALSE /\ stopping = FALSE /\ eventfd = FALSE
    /\ main = "sigwait" /\ signals = 0
    /\ drained = FALSE /\ failed = FALSE /\ freed = {}
    /\ undefined = FALSE
    /\ Maint!Init
-----------------------------------------------------------------------------
(***************************************************************************)
(* ps_listener_accept and ps_server_run.                                   *)
(***************************************************************************)
AcceptCheck ==
    /\ acceptor = "check"
    /\ acceptor' = IF stopping THEN "exited" ELSE "poll"
    /\ UNCHANGED <<poolVars, backlog, sockets, conn, stopVars, mainVars,
                   undefined, maintVars>>

\* poll reports the listening socket, and not the eventfd, as readable.
Accept(c) ==
    /\ acceptor = "poll" /\ ~eventfd
    /\ c \in backlog
    /\ backlog' = backlog \ {c}
    /\ sockets' = sockets \cup {c}
    /\ conn' = c
    /\ acceptor' = "submit"
    /\ UNCHANGED <<poolVars, stopVars, mainVars, undefined, maintVars>>

PollShutdown ==
    /\ acceptor = "poll" /\ eventfd
    /\ acceptor' = "exited"
    /\ UNCHANGED <<poolVars, backlog, sockets, conn, stopVars, mainVars,
                   undefined, maintVars>>

\* poll or accept4 fails: the loop ends for good.
AcceptError ==
    /\ acceptor = "poll"
    /\ acceptor' = "exited"
    /\ UNCHANGED <<poolVars, backlog, sockets, conn, stopVars, mainVars,
                   undefined, maintVars>>

NextConn == acceptor' = "check" /\ conn' = None /\ UNCHANGED backlog

HandOver ==
    /\ acceptor = "submit" /\ owner # "gone"
    /\ Pool!SubmitOk(conn)
    /\ NextConn
    /\ UNCHANGED <<sockets, stopVars, mainVars, undefined, maintVars>>

Leaky_HandBack == sockets

HandBack == sockets \ {conn}

\* The queue is full, the pool is shutting down, or malloc failed.
Refuse ==
    /\ acceptor = "submit" /\ owner # "gone"
    /\ \/ Pool!SubmitRefused(conn)
       \/ UNCHANGED poolVars
    /\ sockets' = HandBack
    /\ NextConn
    /\ UNCHANGED <<stopVars, mainVars, undefined, maintVars>>

\* ps_threadpool_submit on a pool that is freed, or on server->pool = NULL:
\* what happens from here on is anyone's guess.
SubmitToFreed ==
    /\ acceptor = "submit" /\ owner = "gone"
    /\ undefined' = TRUE
    /\ UNCHANGED <<poolVars, connVars, stopVars, mainVars, maintVars>>
-----------------------------------------------------------------------------
(***************************************************************************)
(* The workers.  conn_job_fn closes the socket when the connection ends.   *)
(***************************************************************************)
Work(w) ==
    /\ Pool!Wait(w) \/ Pool!Wake(w) \/ Pool!Exit(w) \/ Pool!Take(w)
    /\ UNCHANGED <<connVars, stopVars, mainVars, undefined, maintVars>>

Serve(w) ==
    /\ Pool!Finish(w)
    /\ sockets' = sockets \ {job[w]}
    /\ UNCHANGED <<backlog, acceptor, conn, stopVars, mainVars, undefined, maintVars>>
-----------------------------------------------------------------------------
(***************************************************************************)
(* The main thread.                                                        *)
(***************************************************************************)
SignalArrives ==
    /\ signals < 2
    /\ signals' = signals + 1
    /\ UNCHANGED <<poolVars, connVars, stopVars, main, drained, failed, freed,
                   undefined, maintVars>>

Sigwait ==
    /\ main = "sigwait"
    /\ \/ signals > 0 /\ signals' = signals - 1 /\ UNCHANGED failed
       \/ failed' = TRUE /\ UNCHANGED signals
    /\ main' = "drain"
    /\ UNCHANGED <<poolVars, connVars, stopVars, drained, freed, undefined, maintVars>>

Drain ==
    /\ main = "drain"
    /\ draining' = TRUE
    /\ main' = "stop"
    /\ UNCHANGED <<poolVars, connVars, stopping, eventfd, signals,
                   drained, failed, freed, undefined, maintVars>>

\* ps_listener_stop: first the flag, then the eventfd.
StopFlag ==
    /\ main = "stop"
    /\ stopping' = TRUE
    /\ main' = "wake"
    /\ UNCHANGED <<poolVars, connVars, draining, eventfd, signals,
                   drained, failed, freed, undefined, maintVars>>

NoWake_StopWake ==
    /\ main = "wake"
    /\ main' = "pool"
    /\ UNCHANGED <<poolVars, connVars, stopVars, signals, drained, failed,
                   freed, undefined, maintVars>>

StopWake ==
    /\ main = "wake"
    /\ eventfd' = TRUE
    /\ main' = "pool"
    /\ UNCHANGED <<poolVars, connVars, draining, stopping, signals,
                   drained, failed, freed, undefined, maintVars>>

ShutdownPool ==
    /\ main = "pool"
    /\ Pool!Shutdown(TRUE)
    /\ main' = "destroy"
    /\ UNCHANGED <<connVars, stopVars, signals, drained, failed, freed,
                   undefined, maintVars>>

DestroyPool ==
    /\ main = "destroy"
    /\ Pool!DestroyTimed \/ Pool!Join
    /\ UNCHANGED <<connVars, stopVars, mainVars, undefined, maintVars>>

Drained ==
    /\ main = "destroy"
    /\ Pool!Free
    /\ drained' = TRUE
    /\ main' = "join_acceptor"
    /\ UNCHANGED <<connVars, stopVars, signals, failed, freed, undefined, maintVars>>

GraceOver ==
    /\ main = "destroy"
    /\ Pool!JoinTimesOut
    /\ main' = "join_acceptor"
    /\ UNCHANGED <<connVars, stopVars, signals, drained, failed, freed,
                   undefined, maintVars>>

\* pthread_join on the acceptor, then the listener is closed.
JoinAcceptor ==
    /\ main = "join_acceptor" /\ acceptor = "exited"
    /\ main' = "stop_maintenance"
    /\ UNCHANGED <<poolVars, connVars, stopVars, signals, drained, failed,
                   freed, undefined, maintVars>>

StopMaintenance ==
    /\ main = "stop_maintenance"
    /\ Maint!Stop
    /\ main' = "join_maintenance"
    /\ UNCHANGED <<poolVars, connVars, stopVars, signals, drained, failed,
                   freed, undefined>>

JoinMaintenance ==
    /\ main = "join_maintenance" /\ thread = "exited"
    /\ main' = "release"
    /\ UNCHANGED <<poolVars, connVars, stopVars, signals, drained, failed,
                   freed, undefined, maintVars>>

Careless_Released == Resources \ {"config"}

\* After a failed sigwait all but the TLS context is freed, drained or not.
Released ==
    IF failed THEN Resources \ {"config", "tls_ctx"}
    ELSE IF drained THEN Resources \ {"config"}
    ELSE {}

Release ==
    /\ main = "release"
    /\ freed' = Released
    /\ main' = "cleanup"
    /\ UNCHANGED <<poolVars, connVars, stopVars, signals, drained, failed,
                   undefined, maintVars>>

\* ps_config_free wipes the secrets, the token signing key among them.
Cleanup ==
    /\ main = "cleanup"
    /\ freed' = freed \cup {"config"}
    /\ main' = "return"
    /\ UNCHANGED <<poolVars, connVars, stopVars, signals, drained, failed,
                   undefined, maintVars>>

Return ==
    /\ main = "return"
    /\ main' = "exited"
    /\ UNCHANGED <<poolVars, connVars, stopVars, signals, drained, failed,
                   freed, undefined, maintVars>>
-----------------------------------------------------------------------------
Acceptor ==
    \/ AcceptCheck \/ PollShutdown
    \/ HandOver \/ Refuse \/ SubmitToFreed

Main ==
    \/ Sigwait \/ Drain \/ StopFlag \/ StopWake \/ ShutdownPool
    \/ DestroyPool \/ Drained \/ GraceOver
    \/ JoinAcceptor \/ StopMaintenance \/ JoinMaintenance
    \/ Release \/ Cleanup \/ Return

others == <<poolVars, connVars, stopVars, mainVars, undefined>>

Sweep == Maint!Run /\ UNCHANGED others

IntervalOver == Maint!TimedOut /\ UNCHANGED others

Ended == main = "exited" \/ undefined

Next ==
    \/ /\ ~Ended
       /\ \/ Acceptor \/ AcceptError \/ \E c \in Conns : Accept(c)
          \/ \E w \in Workers : Work(w) \/ Serve(w)
          \/ Main \/ SignalArrives
          \/ Sweep \/ IntervalOver
    \/ Ended /\ UNCHANGED vars

\* The acceptor runs whenever it is not blocked in poll, the main thread
\* goes on once it has its signal, and the grace period runs out.  Nothing
\* makes a worker finish its connection or a client connect.  The maintenance
\* thread ends its pass once it is asked to stop; before, a backlog may keep
\* it busy.  Nothing makes its interval run out.
Fairness ==
    /\ WF_vars(~Ended /\ Acceptor)
    /\ WF_vars(~Ended /\ Main)
    /\ WF_vars(~Ended /\ stop /\ Sweep)

Spec == Init /\ [][Next]_vars

FairSpec == Spec /\ Fairness
-----------------------------------------------------------------------------
\* The pool's own type invariant, and where the acceptor and main may be.
TypeOK ==
    /\ Pool!TypeOK /\ Maint!TypeOK
    /\ backlog \subseteq Conns /\ sockets \subseteq Conns
    /\ conn \in Conns \cup {None}
    /\ acceptor \in {"check", "poll", "submit", "exited"}
    /\ signals \in 0..2
    /\ freed \subseteq Resources

Queued == {Pool!Queued[i] : i \in 1..count}

\* Every open client socket is in exactly one pair of hands: the acceptor's,
\* the queue's, or one worker's.  So no refused, queued or served connection
\* leaks its descriptor and none is closed under its worker (server.c:36-57).
SocketOwners ==
    LET held == {job[w] : w \in Running}
    IN  /\ TypeOK
        /\ sockets = Queued \cup held \cup ({conn} \ {None})
        /\ Queued \cap held = {} /\ conn \notin Queued \cup held
        /\ Cardinality(Queued) = count
        /\ \A v, w \in Running : job[v] = job[w] => v = w

\* After a signal, what workers use is freed only when no connection is queued
\* or running; the config, which cleanup always wipes, is the exception
\* (main.c:495-510).
ResourcesOutliveWork ==
    ~failed /\ freed \ {"config"} # {} => Running = {} /\ count = 0

\* Once told to stop, the process ends, also when a worker never finishes and
\* when the maintenance thread has just begun to wait for an interval that may
\* be an hour, unless the pool was used after it was freed (server.h:68,
\* "never longer"; maintenance.h:35, "Wakes the sweeper if it's sleeping").
ShutdownCompletes == main # "sigwait" ~> Ended
-----------------------------------------------------------------------------
(***************************************************************************)
(* Statements of the repository's documents that the code does not keep.   *)
(***************************************************************************)
\* "the thread pool is fully torn down, and server->pool must not be used
\* again" (server.h:81).
PoolNotUsedAfterFree == ~undefined

\* "nothing is ever freed out from under a still-running worker"
\* (threadpool.h:54).
NothingFreedUnderWorker == ~failed /\ freed # {} => Running = {}

\* After a failed sigwait too: "tear it down the same way a signal would"
\* (main.c:466).
TornDownAlike == failed /\ freed \ {"config"} # {} => Running = {}

\* "A second signal during draining exits immediately" (plan 7.2a): with a
\* second signal pending, the main thread takes no step but to exit.
SecondSignalExits ==
    [][main # "sigwait" /\ signals > 0 => main' \in {main, "exited"}]_vars
=============================================================================
