------------------------------ MODULE Startup -------------------------------
(***************************************************************************)
(* Starting the service: main.c up to the open listener, with the schema   *)
(* migration (store/db.c) and the seeding of the first administrator       *)
(* (auth/bootstrap.c).  Several instances may be started on one database,  *)
(* at once or one after another; each may crash or be refused anywhere and *)
(* be started again.  A BEGIN IMMEDIATE ... COMMIT block is one step.      *)
(***************************************************************************)
EXTENDS Naturals, FiniteSets

CONSTANTS
    Instances,     \* processes that may be started on the database
    Usernames,     \* BOOTSTRAP_ADMIN_USERNAME where it is set
    Emails,        \* BOOTSTRAP_ADMIN_EMAIL where it is set
    Environments,  \* combinations of the three variables a process may find
    MaxStarts      \* bound on the number of starts

\* A variable that is not set is "".  A username and an address are as
\* validation normalises them; "weak" stands for a set of values of which one
\* fails validation or policy.
Credentials ==
    [username : Usernames \cup {""}, email : Emails \cup {""}, password : {"", "weak", "good"}]

ASSUME StartupAssumption ==
    /\ Environments \subseteq Credentials
    /\ MaxStarts \in Nat

VARIABLES
    schema,    \* schema_version and the tables, committed together
    admins,    \* users holding ADMIN: name, address, and the start that seeded it
    audit,     \* BOOTSTRAP_ADMIN_CREATED rows written, by their target
    cfg,       \* instance -> cfg.bootstrap_admin_*
    pc,        \* instance -> where main stands
    starts,    \* starts so far
    begun,     \* history: instance -> which of the starts it is in
    seeded     \* history: starts there had been when the first administrator was committed

vars == <<schema, admins, audit, cfg, pc, starts, begun, seeded>>
db == <<schema, admins, audit>>
history == <<starts, begun, seeded>>

Stages == {"down", "open", "migrate", "load", "count", "insert", "listen", "up"}
Unset == [username |-> "", email |-> "", password |-> ""]

Init ==
    /\ schema = 0 /\ admins = {} /\ audit = {}
    /\ cfg = [i \in Instances |-> Unset]
    /\ pc = [i \in Instances |-> "down"]
    /\ starts = 0 /\ begun = [i \in Instances |-> 0] /\ seeded = 0

Goto(i, stage) == pc' = [pc EXCEPT ![i] = stage]

\* cleanup: the pools are destroyed, ps_config_free wipes what is secret, and
\* the process is gone.
Exit(i) ==
    /\ Goto(i, "down")
    /\ cfg' = [cfg EXCEPT ![i] = Unset]

\* ps_config_load reads the environment.
Start(i) ==
    /\ pc[i] = "down" /\ starts < MaxStarts
    /\ starts' = starts + 1
    /\ begun' = [begun EXCEPT ![i] = starts + 1]
    /\ \E e \in Environments : cfg' = [cfg EXCEPT ![i] = e]
    /\ Goto(i, "open")
    /\ UNCHANGED <<schema, admins, audit, seeded>>

\* current_schema_version, read outside the migration's transaction.
ReadVersion(i) ==
    /\ pc[i] = "open"
    /\ Goto(i, IF schema >= 1 THEN "load" ELSE "migrate")
    /\ UNCHANGED <<db, cfg, history>>

\* CREATE TABLE fails when another instance has created the tables meanwhile;
\* the transaction is rolled back and the start refused.
Migrate(i) ==
    /\ pc[i] = "migrate"
    /\ \/ schema = 0 /\ schema' = 1 /\ Goto(i, "load") /\ UNCHANGED cfg
       \/ schema = 1 /\ Exit(i) /\ UNCHANGED schema
    /\ UNCHANGED <<admins, audit, history>>

\* The denylist, the KDF semaphore and the rate limiter.
Load(i) ==
    /\ pc[i] = "load"
    /\ Goto(i, "count")
    /\ UNCHANGED <<db, cfg, history>>
-----------------------------------------------------------------------------
Complete(e) == "" \notin {e.username, e.email, e.password}

Cleanse(i) == cfg' = [cfg EXCEPT ![i].password = ""]

Lenient_Bootstrap(i) ==
    /\ pc[i] = "count"
    /\ \/ (admins # {} \/ ~Complete(cfg[i])) /\ Goto(i, "listen") /\ UNCHANGED cfg
       \/ admins = {} /\ cfg[i].password = "weak" /\ Exit(i)
       \/ /\ admins = {} /\ Complete(cfg[i]) /\ cfg[i].password = "good"
          /\ Goto(i, "insert")
          /\ Cleanse(i)
    /\ UNCHANGED <<db, history>>

\* ps_bootstrap_admin up to the hash: the count is read outside the
\* transaction that inserts, and an administrator already there ends it.
Bootstrap(i) ==
    /\ pc[i] = "count"
    /\ \/ admins # {} /\ Goto(i, "listen") /\ UNCHANGED cfg
       \/ admins = {} /\ (~Complete(cfg[i]) \/ cfg[i].password = "weak") /\ Exit(i)
       \/ /\ admins = {} /\ Complete(cfg[i]) /\ cfg[i].password = "good"
          /\ Goto(i, "insert")
          /\ Cleanse(i)
    /\ UNCHANGED <<db, history>>

\* ps_user_store_insert refuses a username or an address that is in use.
Clash(a, b) == a.username = b.username \/ a.email = b.email

\* User, roles and audit row of the administrator instance i seeds.
Seed(i) ==
    /\ admins' = admins \cup {[username |-> cfg[i].username, email |-> cfg[i].email,
                               start |-> begun[i]]}
    /\ audit' = audit \cup {cfg[i].username}
    /\ seeded' = IF admins = {} THEN starts ELSE seeded
    /\ Goto(i, "listen")
    /\ UNCHANGED cfg

NoUnique_InsertAdmin(i) ==
    /\ pc[i] = "insert"
    /\ Seed(i)
    /\ UNCHANGED <<schema, starts, begun>>

\* The transaction.  It does not count again: an administrator made meanwhile
\* stops it only by having the same name or address.  (So does a user who
\* registered with it at another instance: Refuse.)
InsertAdmin(i) ==
    /\ pc[i] = "insert"
    /\ \/ (\A a \in admins : ~Clash(a, cfg[i])) /\ Seed(i)
       \/ (\E a \in admins : Clash(a, cfg[i])) /\ Exit(i) /\ UNCHANGED <<admins, audit, seeded>>
    /\ UNCHANGED <<schema, starts, begun>>

\* Maintenance thread, listener, TLS, workers.  A port already bound refuses
\* the start; instances with ports of their own serve side by side.
Listen(i) ==
    /\ pc[i] = "listen"
    /\ Goto(i, "up")
    /\ UNCHANGED <<db, cfg, history>>

\* Any call on the way may fail, in a transaction before its commit: what it
\* wrote is rolled back.  A running server leaves the same way on a signal.
Refuse(i) ==
    /\ pc[i] # "down"
    /\ Exit(i)
    /\ UNCHANGED <<db, history>>

Step(i) ==
    \/ ReadVersion(i) \/ Migrate(i) \/ Load(i)
    \/ Bootstrap(i) \/ InsertAdmin(i) \/ Listen(i)

Next == \E i \in Instances : Start(i) \/ Step(i) \/ Refuse(i)

Spec == Init /\ [][Next]_vars
-----------------------------------------------------------------------------
\* Tables, buffers and control points have the declared shape.
TypeOK ==
    /\ schema \in {0, 1}
    /\ admins \subseteq [username : Usernames, email : Emails, start : 1 .. MaxStarts]
    /\ audit \subseteq Usernames
    /\ cfg \in [Instances -> Credentials]
    /\ pc \in [Instances -> Stages]
    /\ starts \in 0 .. MaxStarts /\ seeded \in 0 .. MaxStarts
    /\ begun \in [Instances -> 0 .. MaxStarts]

\* What seeding guarantees although the count is read outside the transaction
\* that inserts, instances start together, and any of them may crash.  Only
\* starts already under way when the first administrator was committed seed
\* one: "restarting against the same DB creates no second admin"
\* (plans/00-project-plan.md:1612).  Those that overlap may both, but then
\* neither username nor address is shared.  An administrator never exists
\* without the audit row that says so: "in one transaction" (bootstrap.h:33);
\* the row may be swept when its retention is over, its writing is kept here.
SeededOnce ==
    /\ TypeOK
    /\ \A a \in admins : a.start <= seeded
    /\ \A a, b \in admins : a # b => ~Clash(a, b)
    /\ audit = {a.username : a \in admins}

\* Whoever serves, serves a migrated database with an administrator.
ServesReady ==
    \A i \in Instances : pc[i] = "up" => schema = 1 /\ admins # {}
-----------------------------------------------------------------------------
\* Statements of the documents that the code does not keep.

\* "There is exactly one admin" (plans/00-project-plan.md:1218), and its audit
\* row is written "once per database, ever" (1373): at most one, once seeded.
OnlyOneAdmin == \A a, b \in admins : a = b

\* Seeding "runs inside the migration transaction" (plans/00-project-plan.md:1216):
\* a migrated database has its administrator.
SeededWithSchema == schema = 1 => admins # {}

\* "cfg->bootstrap_admin_password is OPENSSL_cleanse'd before this returns, on
\* every path, success or failure" (bootstrap.h:29).
PasswordWiped ==
    \A i \in Instances : pc[i] \in {"listen", "up"} => cfg[i].password = ""
=============================================================================
