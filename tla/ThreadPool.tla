----------------------------- MODULE ThreadPool -----------------------------
(***************************************************************************)
(* The bounded worker pool of platform/threadpool.c.                       *)
(*                                                                         *)
(* Every field of the pool is read and written under one mutex, so each    *)
(* critical section is one step.  pthread_cond_wait gives up the mutex     *)
(* and sleeps in that same step; a signal wakes one sleeper if there is    *)
(* one and is lost otherwise; a sleeper may also wake for no reason.       *)
(***************************************************************************)
EXTENDS Naturals, Sequences, FiniteSets

CONSTANTS
    N,         \* worker threads asked for
    Capacity,  \* slots of the ring
    Jobs,      \* jobs callers may submit, each at most once
    None       \* no job

ASSUME ThreadPoolAssumption ==
    /\ N \in Nat \ {0}
    /\ Capacity \in Nat \ {0}
    /\ None \notin Jobs

VARIABLES
    ring,           \* slot -> job, with what earlier jobs left behind
    head,           \* slot of the next job to pop
    count,          \* jobs queued
    shutting_down,
    worker,         \* worker -> where it is in worker_main
    job,            \* worker -> the job it is running
    workers,        \* the array of threads not joined yet
    joining,        \* the loop index of the joining thread
    joined,         \* threads joined so far
    owner,          \* what the thread that owns the pool is doing
    submitted       \* jobs callers have handed over, accepted or not

queueVars == <<ring, head, count, shutting_down>>
ownerVars == <<workers, joining, joined, owner>>
poolVars  == <<queueVars, worker, job, ownerVars, submitted>>

Workers == 1..N
Slots   == 0..Capacity - 1
-----------------------------------------------------------------------------
Init ==
    /\ ring = [s \in Slots |-> None]
    /\ head = 0
    /\ count = 0
    /\ shutting_down = FALSE
    /\ worker = [w \in Workers |-> "unborn"]
    /\ job = [w \in Workers |-> None]
    /\ workers = <<>>
    /\ joining = 1
    /\ joined = {}
    /\ owner = "create"
    /\ submitted = {}

Waiting == {w \in Workers : worker[w] = "waiting"}

\* pthread_cond_broadcast: every sleeper competes for the mutex again.
Broadcast ==
    worker' = [w \in Workers |-> IF w \in Waiting THEN "loop" ELSE worker[w]]

Close == shutting_down' = TRUE /\ Broadcast
-----------------------------------------------------------------------------
(***************************************************************************)
(* ps_threadpool_create starts the workers one by one.                     *)
(***************************************************************************)
Spawn ==
    LET w == Len(workers) + 1
    IN  /\ owner = "create" /\ w \in Workers
        /\ worker' = [worker EXCEPT ![w] = "loop"]
        /\ workers' = Append(workers, w)
        /\ owner' = IF w = N THEN "up" ELSE "create"
        /\ UNCHANGED <<queueVars, job, joining, joined, submitted>>

\* pthread_create fails: the workers started so far are told to stop, joined
\* and the pool is freed.
SpawnFails ==
    /\ owner = "create"
    /\ Close
    /\ owner' = "join"
    /\ UNCHANGED <<ring, head, count, job, workers, joining, joined, submitted>>
-----------------------------------------------------------------------------
(***************************************************************************)
(* worker_main: one iteration either sleeps, leaves, or pops and runs.     *)
(***************************************************************************)
Uninformed_Wait(w) ==
    /\ worker[w] = "loop"
    /\ count = 0
    /\ worker' = [worker EXCEPT ![w] = "waiting"]
    /\ UNCHANGED <<queueVars, job, ownerVars, submitted>>

Wait(w) ==
    /\ worker[w] = "loop"
    /\ count = 0 /\ ~shutting_down
    /\ worker' = [worker EXCEPT ![w] = "waiting"]
    /\ UNCHANGED <<queueVars, job, ownerVars, submitted>>

Wake(w) ==
    /\ worker[w] = "waiting"
    /\ worker' = [worker EXCEPT ![w] = "loop"]
    /\ UNCHANGED <<queueVars, job, ownerVars, submitted>>

Exit(w) ==
    /\ worker[w] = "loop"
    /\ count = 0 /\ shutting_down
    /\ worker' = [worker EXCEPT ![w] = "exited"]
    /\ UNCHANGED <<queueVars, job, ownerVars, submitted>>

Pop ==
    /\ head' = (head + 1) % Capacity
    /\ count' = count - 1

Take(w) ==
    /\ worker[w] = "loop"
    /\ count > 0
    /\ worker' = [worker EXCEPT ![w] = "running"]
    /\ job' = [job EXCEPT ![w] = ring[head]]
    /\ Pop
    /\ UNCHANGED <<ring, shutting_down, ownerVars, submitted>>

\* job.fn returns.
Finish(w) ==
    /\ worker[w] = "running"
    /\ worker' = [worker EXCEPT ![w] = "loop"]
    /\ job' = [job EXCEPT ![w] = None]
    /\ UNCHANGED <<queueVars, ownerVars, submitted>>
-----------------------------------------------------------------------------
(***************************************************************************)
(* ps_threadpool_submit.                                                   *)
(***************************************************************************)
NoSignal_Signal == UNCHANGED worker

Signal ==
    \/ \E w \in Waiting : worker' = [worker EXCEPT ![w] = "loop"]
    \/ Waiting = {} /\ UNCHANGED worker

Wrong_Push(j) ==
    /\ ring' = [ring EXCEPT ![head] = j]
    /\ count' = count + 1

Push(j) ==
    /\ ring' = [ring EXCEPT ![(head + count) % Capacity] = j]
    /\ count' = count + 1

Full == shutting_down \/ count = Capacity

SubmitOk(j) ==
    /\ ~Full
    /\ Push(j)
    /\ Signal
    /\ submitted' = submitted \cup {j}
    /\ UNCHANGED <<head, shutting_down, job, ownerVars>>

SubmitRefused(j) ==
    /\ Full
    /\ submitted' = submitted \cup {j}
    /\ UNCHANGED <<queueVars, worker, job, ownerVars>>

\* Callers hold the pool from its creation until they hand it to destroy.
Submit(j) ==
    /\ owner \in {"up", "shut"} /\ j \notin submitted
    /\ SubmitOk(j) \/ SubmitRefused(j)
-----------------------------------------------------------------------------
(***************************************************************************)
(* ps_threadpool_shutdown, then ps_threadpool_destroy or                   *)
(* ps_threadpool_destroy_timed.  A timed destroy that gives up leaves the  *)
(* threads not joined yet at the front of the array, for a later destroy.  *)
(***************************************************************************)
Shutdown(drain) ==
    /\ owner = "up"
    /\ Close
    /\ IF drain THEN UNCHANGED <<head, count>> ELSE head' = 0 /\ count' = 0
    /\ owner' = "shut"
    /\ UNCHANGED <<ring, job, workers, joining, joined, submitted>>

Destroy ==
    /\ owner \in {"shut", "timed_out"}
    /\ owner' = "join"
    /\ joining' = 1
    /\ UNCHANGED <<queueVars, worker, job, workers, joined, submitted>>

DestroyTimed ==
    /\ owner = "shut"
    /\ owner' = "timed_join"
    /\ joining' = 1
    /\ UNCHANGED <<queueVars, worker, job, workers, joined, submitted>>

Exited_Joinable == TRUE

Joinable == worker[workers[joining]] = "exited"

Join ==
    /\ owner \in {"join", "timed_join"}
    /\ joining <= Len(workers) /\ Joinable
    /\ joined' = joined \cup {workers[joining]}
    /\ joining' = joining + 1
    /\ UNCHANGED <<queueVars, worker, job, workers, owner, submitted>>

Compact == SubSeq(workers, joining, Len(workers))

JoinTimesOut ==
    /\ owner = "timed_join"
    /\ joining <= Len(workers) /\ ~Joinable
    /\ workers' = Compact
    /\ joining' = 1
    /\ owner' = "timed_out"
    /\ UNCHANGED <<queueVars, worker, job, joined, submitted>>

\* Everyone joined: mutex, condition variable, ring, array and pool go.
Free ==
    /\ owner \in {"join", "timed_join"}
    /\ joining > Len(workers)
    /\ owner' = "gone"
    /\ UNCHANGED <<queueVars, worker, job, workers, joining, joined, submitted>>
-----------------------------------------------------------------------------
Work(w) == Wait(w) \/ Exit(w) \/ Take(w) \/ Finish(w)

Own ==
    \/ Spawn \/ SpawnFails
    \/ \E drain \in BOOLEAN : Shutdown(drain)
    \/ Destroy \/ DestroyTimed \/ Join \/ JoinTimesOut \/ Free

\* The life of a pool is over.
Over == owner = "gone" /\ UNCHANGED poolVars

Next ==
    \/ \E w \in Workers : Work(w) \/ Wake(w)
    \/ \E j \in Jobs : Submit(j)
    \/ Own
    \/ Over

Spec == Init /\ [][Next]_poolVars

\* Threads that can run do run and jobs return: ps_conn_handle is bounded by
\* socket timeouts and a request count.  The owner keeps joining, but nothing
\* makes it shut down, time out or try again.
Fairness ==
    /\ \A w \in Workers : WF_poolVars(Work(w))
    /\ WF_poolVars(Spawn \/ SpawnFails)
    /\ WF_poolVars(Join) /\ WF_poolVars(Free)

FairSpec == Spec /\ Fairness
-----------------------------------------------------------------------------
\* The fields stay within their ranges: head inside the ring, count within
\* its capacity, the array of threads within its size.
TypeOK ==
    /\ ring \in [Slots -> Jobs \cup {None}]
    /\ head \in Slots
    /\ count \in 0..Capacity
    /\ shutting_down \in BOOLEAN
    /\ worker \in [Workers -> {"unborn", "loop", "waiting", "running",
                               "exited"}]
    /\ job \in [Workers -> Jobs \cup {None}]
    /\ workers \in Seq(Workers) /\ Len(workers) <= N
    /\ joining \in 1..N + 1
    /\ joined \subseteq Workers
    /\ owner \in {"create", "up", "shut", "join", "timed_join", "timed_out",
                  "gone"}
    /\ submitted \subseteq Jobs

Awake == {w \in Workers : worker[w] = "loop"}

\* No wakeup is lost: while a worker sleeps, the workers already awake and
\* looking for work are at least as many as the queued jobs, and nobody
\* sleeps through a shutdown (threadpool.c:36, 145, 160).
NoIdleBacklog ==
    /\ TypeOK
    /\ Waiting # {} => ~shutting_down /\ count <= Cardinality(Awake)

\* No thread is joined twice, not even by the destroy that follows a timed
\* destroy that gave up half way (threadpool.c:192).
JoinedOnce ==
    \A i \in joining..Len(workers) : workers[i] \notin joined

\* The pool is freed only when every thread it started has left worker_main
\* and no accepted job is left in the ring: "nothing is ever freed out from
\* under a still-running worker" (threadpool.h:54); and JoinedOnce holds.
FreedOnlyWhenQuiet ==
    /\ JoinedOnce
    /\ owner = "gone" =>
          /\ \A w \in Workers : worker[w] \in {"unborn", "exited"}
          /\ count = 0

\* The jobs in the ring, oldest first.
Queued == [i \in 1..count |-> ring[(head + i - 1) % Capacity]]

Queue == INSTANCE JobQueue WITH queue <- Queued, closed <- shutting_down

\* The ring arithmetic implements a bounded FIFO queue.
ImplementsQueue == Queue!Spec

\* After a shutdown every started worker exits, whatever it was doing, and no
\* accepted job stays behind in the queue.
ShutdownEnds ==
    shutting_down ~>
        count = 0 /\ \A w \in Workers : worker[w] \in {"unborn", "exited"}
=============================================================================
