----------------------------- MODULE Maintenance -----------------------------
(***************************************************************************)
(* The maintenance thread of platform/maintenance.c: passes over the       *)
(* tables, a timed wait between them, and the stop request of another      *)
(* thread.  What a batch removes is in the modules that own the rows.      *)
(***************************************************************************)
EXTENDS Naturals

CONSTANT Tables     \* sweeps of one pass; six in run_sweep

VARIABLES
    stop,       \* ps_maintenance_t.stop
    thread,     \* where the thread is
    table       \* the sweep it is at

maintVars == <<stop, thread, table>>

\* ps_maintenance_start: the first pass begins at once.
Init ==
    /\ stop = FALSE
    /\ thread = "sweep"
    /\ table = 1

\* The last batch of a sweep: it was short, failed, or the thread saw the stop
\* flag after it.  A full batch with no stop request is followed by another
\* and leaves this state as it is.
LastBatch ==
    /\ thread = "sweep"
    /\ \/ table < Tables /\ table' = table + 1 /\ UNCHANGED thread
       \/ table = Tables /\ thread' = "swept" /\ UNCHANGED table
    /\ UNCHANGED stop

\* Under the lock, after the pass: wait, or leave.
Wait ==
    /\ thread = "swept"
    /\ thread' = IF stop THEN "exited" ELSE "waiting"
    /\ UNCHANGED <<stop, table>>

\* The interval is over, or the wakeup is spurious.
TimedOut ==
    /\ thread = "waiting"
    /\ thread' = "woken"
    /\ UNCHANGED <<stop, table>>

\* pthread_cond_timedwait has returned, with the lock held again.
Resume ==
    /\ thread = "woken"
    /\ \/ stop /\ thread' = "exited" /\ UNCHANGED table
       \/ ~stop /\ thread' = "sweep" /\ table' = 1
    /\ UNCHANGED stop

\* ps_maintenance_stop up to the join: flag and signal in one critical section.
Stop ==
    /\ stop' = TRUE
    /\ thread' = IF thread = "waiting" THEN "woken" ELSE thread
    /\ UNCHANGED table

Run == LastBatch \/ Wait \/ Resume

TypeOK ==
    /\ stop \in BOOLEAN
    /\ thread \in {"sweep", "swept", "waiting", "woken", "exited"}
    /\ table \in 1 .. Tables
=============================================================================
