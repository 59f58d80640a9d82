------------------------------ MODULE Resources -----------------------------
(***************************************************************************)
(* The two resources handlers compete for: the SQLite connections of       *)
(* store/db.c, taken with a blocking acquire, and the slots of             *)
(* crypto/kdf_semaphore.c, taken with a try that answers 503 when there is *)
(* none.  A critical section of the pool's mutex is one step; a waiter     *)
(* goes to sleep in the step that finds the stack empty.                   *)
(*                                                                         *)
(* A handler also leaves a mark on the connection it gives back: whether   *)
(* the transaction it opened there has ended.  SQLite is external: BEGIN   *)
(* IMMEDIATE takes the only write lock and is an error inside a            *)
(* transaction; a COMMIT that fails makes nothing durable and may or may   *)
(* not have ended the transaction.                                         *)
(*                                                                         *)
(* Which handler takes what, and in which order, is in Plans.              *)
(***************************************************************************)
EXTENDS Naturals, Sequences, FiniteSets

CONSTANTS
    Workers,    \* worker threads
    Conns,      \* connections a pool may own
    KdfSlots,   \* capacity of the semaphore
    None,       \* no connection
    Gone        \* a request that was answered while its writes were pending

ASSUME ResourcesAssumption ==
    /\ IsFiniteSet(Conns) /\ Conns # {}
    /\ IsFiniteSet(Workers)
    /\ KdfSlots \in Nat \ {0}
    /\ None \notin Conns
    /\ Gone \notin Workers

VARIABLES
    conns,      \* the connections the pool owns; fixed
    free_stack, \* connections nobody holds; the last one is taken first
    conn,       \* worker -> the connection it holds
    sleeping,   \* workers in pthread_cond_wait
    sem,        \* value of the semaphore
    kdf,        \* workers that hold a slot
    plan,       \* worker -> the steps its request still has to take
    writer,     \* the connection inside a transaction: it has the write lock
    wrote,      \* the requests whose writes that transaction holds
    saved,      \* the requests whose writes are durable
    answer      \* worker -> what its last request was told

database == <<writer, wrote, saved>>
vars == <<conns, free_stack, conn, sleeping, sem, kdf, plan, database, answer>>
-----------------------------------------------------------------------------
\* What a request does, in order: "kdf" and "conn" acquire, "hash" derives the
\* key and gives the slot back, "begin", "write" and "commit" run a transaction,
\* "undo" rolls it back, "note" is one statement outside a transaction whose
\* result is ignored (an audit row, a mail), "token" builds the token pair.
\* "reply" reports the committed change, "end" answers without claiming one.
Plans ==
    {\* register: sent, or the address or the name is taken
     <<"kdf", "hash", "conn", "begin", "write", "commit", "note", "reply">>,
     <<"kdf", "hash", "conn", "begin", "undo", "note", "end">>,
     <<"kdf", "hash", "conn", "begin", "undo", "end">>,
     \* login, which waits for a connection while it holds a slot
     <<"kdf", "conn", "hash", "begin", "write", "commit", "token", "reply">>,
     <<"kdf", "conn", "hash", "begin", "write", "commit", "reply">>,
     \* password change, which asks for a slot while it holds a connection
     <<"conn", "kdf", "hash", "begin", "write", "commit", "reply">>,
     <<"conn", "kdf", "hash", "note", "end">>,
     \* resend; refresh; verify and logout; what refuses or only reads
     <<"conn", "begin", "write", "commit", "note", "reply">>,
     <<"conn", "begin", "write", "commit", "token", "reply">>,
     <<"conn", "begin", "write", "commit", "reply">>,
     <<"conn", "note", "end">>,
     <<"conn", "end">>}

Busy(w, step) == plan[w] # <<>> /\ Head(plan[w]) = step

Proceed(w) == plan' = [plan EXCEPT ![w] = Tail(@)] /\ UNCHANGED conns

\* The handler returns: done, or failed (500), or late (500 after the commit).
Stop(w, told) ==
    /\ plan' = [plan EXCEPT ![w] = <<>>]
    /\ answer' = [answer EXCEPT ![w] = told]
    /\ UNCHANGED conns

Init ==
    /\ conns \in SUBSET Conns \ {{}}
    /\ free_stack \in {s \in [1 .. Cardinality(conns) -> conns] :
                          \A c \in conns : \E i \in DOMAIN s : s[i] = c}
    /\ conn = [w \in Workers |-> None]
    /\ sleeping = {}
    /\ sem = KdfSlots
    /\ kdf = {}
    /\ plan = [w \in Workers |-> <<>>]
    /\ writer = None
    /\ wrote = {}
    /\ saved = {}
    /\ answer = [w \in Workers |-> "none"]

Arrive(w) ==
    /\ plan[w] = <<>>
    /\ \E p \in Plans : plan' = [plan EXCEPT ![w] = p]
    /\ saved' = saved \ {w}
    /\ answer' = [answer EXCEPT ![w] = "none"]
    /\ UNCHANGED <<conns, free_stack, conn, sleeping, sem, kdf, writer, wrote>>
-----------------------------------------------------------------------------
(***************************************************************************)
(* ps_db_pool_acquire and ps_db_pool_release.                              *)
(***************************************************************************)
Pop == SubSeq(free_stack, 1, Len(free_stack) - 1)

Acquire(w) ==
    /\ Busy(w, "conn")
    /\ w \notin sleeping
    /\ free_stack # <<>>
    /\ conn' = [conn EXCEPT ![w] = free_stack[Len(free_stack)]]
    /\ free_stack' = Pop
    /\ Proceed(w)
    /\ UNCHANGED <<sleeping, sem, kdf, database, answer>>

Sleep(w) ==
    /\ Busy(w, "conn")
    /\ w \notin sleeping
    /\ free_stack = <<>>
    /\ sleeping' = sleeping \cup {w}
    /\ UNCHANGED <<conns, free_stack, conn, sem, kdf, plan, database, answer>>

SpuriousWakeup(w) ==
    /\ w \in sleeping
    /\ sleeping' = sleeping \ {w}
    /\ UNCHANGED <<conns, free_stack, conn, sem, kdf, plan, database, answer>>

Silent_Signal == UNCHANGED sleeping

\* pthread_cond_signal wakes one waiter, if there is one.
Signal ==
    \/ \E v \in sleeping : sleeping' = sleeping \ {v}
    \/ sleeping = {} /\ UNCHANGED sleeping

Release(w) ==
    /\ free_stack' = Append(free_stack, conn[w])
    /\ Signal
    /\ conn' = [conn EXCEPT ![w] = None]
-----------------------------------------------------------------------------
(***************************************************************************)
(* ps_kdf_semaphore_try_acquire and ps_kdf_semaphore_release.              *)
(***************************************************************************)
TryAcquireKdf(w) ==
    /\ Busy(w, "kdf")
    /\ sem > 0
    /\ sem' = sem - 1
    /\ kdf' = kdf \cup {w}
    /\ Proceed(w)
    /\ UNCHANGED <<free_stack, conn, sleeping, database, answer>>

PostKdf(w) == sem' = sem + 1 /\ kdf' = kdf \ {w}

Hash(w) ==
    /\ Busy(w, "hash")
    /\ PostKdf(w)
    /\ Proceed(w)
    /\ UNCHANGED <<free_stack, conn, sleeping, database, answer>>
-----------------------------------------------------------------------------
Leak_GiveBack(w) == UNCHANGED <<free_stack, conn, sleeping>>

\* Every return from a handler gives back the connection it took.
GiveBack(w) ==
    \/ conn[w] # None /\ Release(w)
    \/ conn[w] = None /\ UNCHANGED <<free_stack, conn, sleeping>>

Return(w, told) == GiveBack(w) /\ Stop(w, told)

Finish(w) ==
    /\ Busy(w, "reply") \/ Busy(w, "end")
    /\ Return(w, IF Busy(w, "reply") THEN "done" ELSE "none")
    /\ UNCHANGED <<sem, kdf, database>>

\* 503: no slot is free.
Shed(w) ==
    /\ Busy(w, "kdf")
    /\ sem = 0
    /\ Return(w, "failed")
    /\ UNCHANGED <<sem, kdf, database>>

\* 429 before a slot is asked for.
Refuse(w) ==
    /\ Busy(w, "kdf")
    /\ Return(w, "failed")
    /\ UNCHANGED <<sem, kdf, database>>

\* The derivation fails: 500, after the slot is given back.
HashFails(w) ==
    /\ Busy(w, "hash")
    /\ PostKdf(w)
    /\ Return(w, "failed")
    /\ UNCHANGED database
-----------------------------------------------------------------------------
(***************************************************************************)
(* The transaction of a handler, on the connection it holds.               *)
(***************************************************************************)
inTransaction == <<free_stack, conn, sleeping, sem, kdf, answer>>

Nested_Begin(w) ==
    /\ Busy(w, "begin")
    /\ writer \in {None, conn[w]}
    /\ writer' = conn[w]
    /\ Proceed(w)
    /\ UNCHANGED <<inTransaction, wrote, saved>>

Begin(w) ==
    /\ Busy(w, "begin")
    /\ writer = None
    /\ writer' = conn[w]
    /\ Proceed(w)
    /\ UNCHANGED <<inTransaction, wrote, saved>>

\* The lock is not to be had, or the connection is inside a transaction.
BeginFails(w) ==
    /\ Busy(w, "begin")
    /\ Return(w, "failed")
    /\ UNCHANGED <<sem, kdf, database>>

Write(w) ==
    /\ Busy(w, "write")
    /\ wrote' = wrote \cup {w}
    /\ Proceed(w)
    /\ UNCHANGED <<inTransaction, writer, saved>>

Rollback == writer' = None /\ wrote' = {} /\ UNCHANGED saved

\* A statement fails, the first or a later one: ROLLBACK and 500.
WriteFails(w) ==
    /\ Busy(w, "write") \/ Busy(w, "commit")
    /\ Rollback
    /\ Return(w, "failed")
    /\ UNCHANGED <<sem, kdf>>

Undo(w) ==
    /\ Busy(w, "undo")
    /\ Rollback
    /\ Proceed(w)
    /\ UNCHANGED inTransaction

Commit(w) ==
    /\ Busy(w, "commit")
    /\ saved' = saved \cup wrote
    /\ writer' = None
    /\ wrote' = {}
    /\ Proceed(w)
    /\ UNCHANGED inTransaction

\* 500 without a ROLLBACK: SQLite has ended the transaction, or the
\* connection goes back to the pool inside it, with the lock.
CommitFails(w) ==
    /\ Busy(w, "commit")
    /\ \/ Rollback
       \/ wrote' = (wrote \ {w}) \cup {Gone} /\ UNCHANGED <<writer, saved>>
    /\ Return(w, "failed")
    /\ UNCHANGED <<sem, kdf>>

\* On a connection left inside a transaction the row joins that transaction.
Note(w) ==
    /\ Busy(w, "note")
    /\ wrote' = IF writer = conn[w] THEN wrote \cup {Gone} ELSE wrote
    /\ Proceed(w)
    /\ UNCHANGED <<inTransaction, writer, saved>>

Token(w) ==
    /\ Busy(w, "token")
    /\ Proceed(w)
    /\ UNCHANGED <<inTransaction, database>>

\* The roles cannot be read or the pair not built: 500 after the commit.
TokenFails(w) ==
    /\ Busy(w, "token")
    /\ Return(w, "late")
    /\ UNCHANGED <<sem, kdf, database>>
-----------------------------------------------------------------------------
Handle(w) ==
    \/ Acquire(w) \/ Sleep(w)
    \/ TryAcquireKdf(w) \/ Hash(w)
    \/ Begin(w) \/ Write(w) \/ Undo(w) \/ Commit(w) \/ Note(w) \/ Token(w)
    \/ Finish(w) \/ Shed(w)

Fault(w) ==
    \/ Refuse(w) \/ HashFails(w) \/ SpuriousWakeup(w)
    \/ BeginFails(w) \/ WriteFails(w) \/ CommitFails(w) \/ TokenFails(w)

Next == \E w \in Workers : Arrive(w) \/ Handle(w) \/ Fault(w)

Spec == Init /\ [][Next]_vars
-----------------------------------------------------------------------------
Held == {w \in Workers : conn[w] # None}

\* Workers in ps_db_pool_acquire that are not asleep.
Acquiring == {w \in Workers : Busy(w, "conn") /\ w \notin sleeping}

\* State has the declared shape; a sleeper is a worker in acquire.
TypeOK ==
    /\ conns \subseteq Conns
    /\ free_stack \in Seq(conns)
    /\ conn \in [Workers -> conns \cup {None}]
    /\ sleeping \subseteq {w \in Workers : Busy(w, "conn")}
    /\ sem \in Nat
    /\ kdf \subseteq Workers
    /\ plan \in [Workers -> Seq({"kdf", "conn", "hash", "begin", "write", "undo",
                                "commit", "note", "token", "reply", "end"})]
    /\ writer \in conns \cup {None}
    /\ wrote \subseteq Workers \cup {Gone}
    /\ saved \subseteq Workers \cup {Gone}
    /\ answer \in [Workers -> {"none", "done", "failed", "late"}]

\* Every connection is in the stack once or in the hands of one worker, on
\* every way out of a handler: "Every acquire must be matched by exactly one
\* release" (db.h:37).  So are the KDF slots, and an idle worker holds none
\* (kdf_semaphore.h:24).
NothingLeaks ==
    /\ TypeOK
    /\ \A c \in conns :
          Cardinality({i \in DOMAIN free_stack : free_stack[i] = c}) +
          Cardinality({w \in Workers : conn[w] = c}) = 1
    /\ sem + Cardinality(kdf) = KdfSlots
    /\ \A w \in Workers : plan[w] = <<>> => conn[w] = None /\ w \notin kdf

\* main.c gives the pool as many connections as there are workers.
Sized == Cardinality(Workers) <= Cardinality(conns)

\* No wakeup is lost: while someone sleeps, every free connection has an
\* awake worker on its way to it.  In a pool of the size main.c:301 gives it
\* nobody ever waits for a connection, also not after any number of refusals,
\* failures and early returns.
NoStrandedSleeper ==
    /\ sleeping # {} => Len(free_stack) <= Cardinality(Acquiring)
    /\ Sized => sleeping = {}

\* A request told that its change was made has it committed, and one told 500
\* at or before its COMMIT (auth_api.c:640) has left nothing behind: also not
\* later, when other requests run on the connection on which a failed COMMIT
\* left the writes pending.
AnswersTruthful ==
    /\ Gone \notin saved
    /\ \A w \in Workers :
          plan[w] = <<>> =>
            /\ answer[w] \in {"done", "late"} => w \in saved
            /\ answer[w] \in {"none", "failed"} => w \notin saved

\* A transaction belongs to a request that is still running.  It does not hold
\* once a COMMIT fails: the lock stays with an idle connection, and every later
\* BEGIN of the process answers 500.
NoAbandonedTransaction == writer # None => \E w \in Workers : conn[w] = writer
=============================================================================
