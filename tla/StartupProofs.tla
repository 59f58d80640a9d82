---------------------------- MODULE StartupProofs ---------------------------
(***************************************************************************)
(* Startup for any number of instances, starts and environments: who may   *)
(* seed an administrator, when there is only one, and that nobody serves   *)
(* without.                                                                *)
(***************************************************************************)
EXTENDS Startup, TLAPS

\* What main has established where it stands: the schema before anything
\* reads a table, an administrator before the listener.  An instance about to
\* insert has counted none, so if there is one now it was committed after
\* this start began.
Established ==
    \A i \in Instances :
        /\ pc[i] \in {"load", "count", "insert", "listen", "up"} => schema = 1
        /\ pc[i] \in {"listen", "up"} => admins # {}
        /\ pc[i] = "insert" /\ admins # {} => begun[i] <= seeded
        /\ begun[i] <= starts
        /\ pc[i] # "down" => begun[i] >= 1
        /\ pc[i] = "insert" => cfg[i].username \in Usernames /\ cfg[i].email \in Emails

IInv == SeededOnce /\ ServesReady /\ Established

USE StartupAssumption DEF TypeOK, db, history

LEMMA UnsetType == Unset \in Credentials
BY DEF Unset, Credentials

\* Overwriting the password leaves name and address.
LEMMA Cleansed ==
    ASSUME NEW c \in Credentials
    PROVE  LET d == [c EXCEPT !.password = ""]
           IN  d \in Credentials /\ d.username = c.username /\ d.email = c.email
BY DEF Credentials

LEMMA InitEstablishes == Init => IInv
<1> SUFFICES ASSUME Init
             PROVE  IInv
    OBVIOUS
<1>1. TypeOK
    BY UnsetType DEF Init, Stages
<1>2. audit = {a.username : a \in admins}
    BY Zenon DEF Init
<1>3. QED
    BY <1>1, <1>2 DEF Init, IInv, SeededOnce, ServesReady, Established

\* A step that leaves the administrators alone keeps what is said of them.
LEMMA TablesKept ==
    ASSUME SeededOnce, TypeOK', UNCHANGED <<admins, audit, seeded>>
    PROVE  SeededOnce'
<1>1. (\A a \in admins : a.start <= seeded)'
    BY DEF SeededOnce
<1>2. (\A a, b \in admins : a # b => ~Clash(a, b))'
    BY Zenon DEF SeededOnce, Clash
<1>3. (audit = {a.username : a \in admins})'
    BY Zenon DEF SeededOnce
<1>4. QED
    BY <1>1, <1>2, <1>3 DEF SeededOnce

\* Leaving does not touch the database.
LEMMA ExitPreserves ==
    ASSUME IInv, NEW i \in Instances, Exit(i), UNCHANGED <<schema, admins, audit, starts, begun, seeded>>
    PROVE  IInv'
<1>1. TypeOK'
    BY UnsetType DEF IInv, SeededOnce, Exit, Goto, Stages
<1>2. SeededOnce'
    BY <1>1, TablesKept DEF IInv
<1>3. ServesReady' /\ Established'
    BY DEF IInv, SeededOnce, ServesReady, Established, Exit, Goto
<1>4. QED
    BY <1>2, <1>3 DEF IInv

\* The one step that seeds.
LEMMA SeedPreserves ==
    ASSUME IInv, NEW i \in Instances, pc[i] = "insert", Seed(i),
           \A a \in admins : ~Clash(a, cfg[i]),
           UNCHANGED <<schema, starts, begun>>
    PROVE  IInv'
<1> DEFINE new == [username |-> cfg[i].username, email |-> cfg[i].email, start |-> begun[i]]
<1>1. new \in [username : Usernames, email : Emails, start : 1 .. MaxStarts]
    <2>1. cfg[i].username \in Usernames /\ cfg[i].email \in Emails
        BY DEF IInv, Established
    <2>2. begun[i] \in 1 .. MaxStarts
        BY DEF IInv, SeededOnce, Established
    <2>3. QED
        BY <2>1, <2>2
<1>2. admins' = admins \cup {new} /\ audit' = audit \cup {new.username}
    BY DEF Seed
<1>3. new.start <= seeded' /\ (admins # {} => seeded' = seeded) /\ seeded' \in 0 .. MaxStarts
    BY DEF IInv, SeededOnce, Established, Seed
<1>4. \A a \in admins : ~Clash(a, new) /\ ~Clash(new, a)
    BY DEF Clash
<1>5. TypeOK'
    BY <1>1, <1>2, <1>3 DEF IInv, SeededOnce, Seed, Goto, Stages
<1>6. \A a \in admins' : a.start <= seeded'
    BY <1>2, <1>3 DEF IInv, SeededOnce
<1>7. \A a, b \in admins' : a # b => ~Clash(a, b)
    <2> SUFFICES ASSUME NEW a \in admins', NEW b \in admins', a # b
                 PROVE  ~Clash(a, b)
        OBVIOUS
    <2>1. CASE a \in admins /\ b \in admins
        BY <2>1 DEF IInv, SeededOnce
    <2>2. CASE a = new \/ b = new
        BY <1>2, <1>4, <2>2
    <2>3. QED
        BY <1>2, <2>1, <2>2
<1>8. audit' = {a.username : a \in admins'}
    BY <1>2, Zenon DEF IInv, SeededOnce
<1>9. SeededOnce'
    BY <1>5, <1>6, <1>7, <1>8 DEF SeededOnce, Clash
<1>10. ServesReady'
    BY <1>2 DEF IInv, ServesReady, SeededOnce, Seed, Goto
<1>11. Established'
    BY <1>2, <1>3, Zenon DEF IInv, SeededOnce, Established, Seed, Goto
<1>12. QED
    BY <1>9, <1>10, <1>11 DEF IInv

\* A step of instance i from one stage to the next that seeds nobody.
LEMMA MovePreserves ==
    ASSUME IInv, NEW i \in Instances, NEW stage \in Stages, Goto(i, stage),
           cfg' \in [Instances -> Credentials],
           UNCHANGED <<admins, audit, starts, begun, seeded>>,
           schema' \in {schema, 1},
           pc[i] # "down",
           stage \in {"load", "count", "insert", "listen", "up"} => schema' = 1,
           stage \in {"listen", "up"} => admins # {},
           stage = "insert" => /\ admins = {}
                               /\ cfg'[i].username \in Usernames /\ cfg'[i].email \in Emails,
           \A j \in Instances \ {i} : cfg'[j] = cfg[j]
    PROVE  IInv'
<1>1. TypeOK'
    BY Zenon DEF IInv, SeededOnce, Goto
<1>2. SeededOnce'
    BY <1>1, TablesKept DEF IInv
<1>3. ServesReady' /\ Established'
    BY DEF IInv, SeededOnce, ServesReady, Established, Goto, Stages
<1>4. QED
    BY <1>2, <1>3 DEF IInv

LEMMA NextPreserves == IInv /\ [Next]_vars => IInv'
<1> SUFFICES ASSUME IInv, [Next]_vars
             PROVE  IInv'
    OBVIOUS
<1>0. TypeOK /\ SeededOnce /\ Established
    BY DEF IInv, SeededOnce
<1>1. CASE UNCHANGED vars
    <2>1. TypeOK'
        BY <1>0, <1>1 DEF vars, Stages
    <2>2. SeededOnce'
        BY <1>0, <1>1, <2>1, TablesKept DEF vars
    <2>3. ServesReady' /\ Established'
        BY <1>1 DEF vars, IInv, ServesReady, Established
    <2>4. QED
        BY <2>2, <2>3 DEF IInv
<1>2. ASSUME NEW i \in Instances, Start(i)
      PROVE  IInv'
    <2>1. TypeOK'
        BY <1>0, <1>2 DEF Start, Goto, Stages
    <2>2. SeededOnce'
        BY <1>0, <1>2, <2>1, TablesKept DEF Start
    <2>3. ServesReady' /\ Established'
        BY <1>2 DEF Start, Goto, IInv, SeededOnce, ServesReady, Established
    <2>4. QED
        BY <2>2, <2>3 DEF IInv
<1>3. ASSUME NEW i \in Instances, ReadVersion(i)
      PROVE  IInv'
    BY <1>0, <1>3, MovePreserves DEF ReadVersion, Stages
<1>4. ASSUME NEW i \in Instances, Migrate(i)
      PROVE  IInv'
    <2>1. CASE Exit(i) /\ UNCHANGED schema
        BY <1>4, <2>1, ExitPreserves DEF Migrate
    <2>2. CASE schema' = 1 /\ Goto(i, "load") /\ UNCHANGED cfg
        BY <1>0, <1>4, <2>2, MovePreserves DEF Migrate, Stages
    <2>3. QED
        BY <1>4, <2>1, <2>2 DEF Migrate
<1>5. ASSUME NEW i \in Instances, Load(i)
      PROVE  IInv'
    BY <1>0, <1>5, MovePreserves DEF Load, Stages, Established
<1>6. ASSUME NEW i \in Instances, Bootstrap(i)
      PROVE  IInv'
    <2>1. CASE Exit(i)
        BY <1>6, <2>1, ExitPreserves DEF Bootstrap
    <2>2. CASE admins # {} /\ Goto(i, "listen") /\ UNCHANGED cfg
        BY <1>0, <1>6, <2>2, MovePreserves DEF Bootstrap, Stages, Established
    <2>3. CASE admins = {} /\ Complete(cfg[i]) /\ Goto(i, "insert") /\ Cleanse(i)
        <3>0. cfg[i] \in Credentials /\ cfg' = [cfg EXCEPT ![i] = [cfg[i] EXCEPT !.password = ""]]
            BY <1>0, <2>3 DEF Cleanse
        <3>1. cfg' \in [Instances -> Credentials]
            BY <1>0, <3>0, Cleansed
        <3>2. cfg'[i].username \in Usernames /\ cfg'[i].email \in Emails
            <4>1. cfg[i].username \in Usernames /\ cfg[i].email \in Emails
                BY <2>3, <3>0 DEF Complete, Credentials
            <4>2. cfg'[i] = [cfg[i] EXCEPT !.password = ""]
                BY <1>0, <3>0
            <4>3. QED
                BY <3>0, <4>1, <4>2, Cleansed
        <3>3. \A j \in Instances \ {i} : cfg'[j] = cfg[j]
            BY <1>0, <3>0
        <3>4. QED
            BY <1>0, <1>6, <2>3, <3>1, <3>2, <3>3, MovePreserves DEF Bootstrap, Stages, Established
    <2>4. QED
        BY <1>6, <2>1, <2>2, <2>3 DEF Bootstrap
<1>7. ASSUME NEW i \in Instances, InsertAdmin(i)
      PROVE  IInv'
    BY <1>7, SeedPreserves, ExitPreserves DEF InsertAdmin
<1>8. ASSUME NEW i \in Instances, Listen(i)
      PROVE  IInv'
    BY <1>0, <1>8, MovePreserves DEF Listen, Stages, Established
<1>9. ASSUME NEW i \in Instances, Refuse(i)
      PROVE  IInv'
    BY <1>9, ExitPreserves DEF Refuse
<1>10. QED
    BY <1>1, <1>2, <1>3, <1>4, <1>5, <1>6, <1>7, <1>8, <1>9 DEF Next, Step

LEMMA StartupInvariant == Spec => []IInv
BY InitEstablishes, NextPreserves, PTL DEF Spec

\* ps_bootstrap_admin seeds nothing once a start begins with an administrator
\* committed, no two administrators share name or address, and each has its
\* audit row, however many instances start at once and wherever they crash.
THEOREM StartupSeededOnce == Spec => []SeededOnce
<1>1. IInv => SeededOnce
    BY DEF IInv
<1>2. QED
    BY <1>1, StartupInvariant, PTL

\* An instance that listens has a migrated database and an administrator.
THEOREM StartupServesReady == Spec => []ServesReady
<1>1. IInv => ServesReady
    BY DEF IInv
<1>2. QED
    BY <1>1, StartupInvariant, PTL
-----------------------------------------------------------------------------
\* All good credentials found in the environments have the username, or the
\* address, of one account in common.
SharedCredentials ==
    \A e, f \in Environments :
        /\ Complete(e) /\ e.password = "good"
        /\ Complete(f) /\ f.password = "good"
        => Clash(e, f)

\* Name and address are those of good credentials from an environment.
Given(c) ==
    \E e \in Environments :
        /\ Complete(e) /\ e.password = "good"
        /\ c.username = e.username /\ c.email = e.email

\* Where the name and the address of an administrator come from.
Origin ==
    /\ \A i \in Instances : pc[i] \in {"open", "migrate", "load", "count"} => cfg[i] \in Environments
    /\ \A i \in Instances : pc[i] = "insert" => Given(cfg[i])
    /\ \A a \in admins : Given(a)

LEMMA InitOrigin == Init => Origin
BY DEF Init, Origin

LEMMA NextOrigin == TypeOK /\ Origin /\ [Next]_vars => Origin'
<1> SUFFICES ASSUME TypeOK, Origin, [Next]_vars
             PROVE  Origin'
    OBVIOUS
<1> USE DEF Origin
<1>1. CASE UNCHANGED vars
    BY <1>1 DEF vars, Given
<1>2. ASSUME NEW i \in Instances, Exit(i), UNCHANGED admins
      PROVE  Origin'
    BY <1>2 DEF Exit, Goto, Given
<1>3. ASSUME NEW i \in Instances, Start(i)
      PROVE  Origin'
    BY <1>3 DEF Start, Goto, Given
<1>4. ASSUME NEW i \in Instances, ReadVersion(i) \/ Load(i) \/ Listen(i)
      PROVE  Origin'
    BY <1>4 DEF ReadVersion, Load, Listen, Goto, Given
<1>5. ASSUME NEW i \in Instances, Migrate(i)
      PROVE  Origin'
    BY <1>2, <1>5 DEF Migrate, Goto, Given
<1>6. ASSUME NEW i \in Instances, Bootstrap(i)
      PROVE  Origin'
    <2>1. CASE admins # {} /\ Goto(i, "listen") /\ UNCHANGED cfg
        BY <1>6, <2>1 DEF Bootstrap, Goto, Given
    <2>2. CASE Complete(cfg[i]) /\ cfg[i].password = "good" /\ Goto(i, "insert") /\ Cleanse(i)
        <3>1. Given(cfg[i])
            BY <1>6, <2>2 DEF Bootstrap, Given
        <3>2. cfg'[i].username = cfg[i].username /\ cfg'[i].email = cfg[i].email
            BY <2>2, Cleansed DEF Cleanse
        <3>3. Given(cfg'[i])
            BY <3>1, <3>2 DEF Given
        <3>4. QED
            BY <1>6, <2>2, <3>3 DEF Bootstrap, Goto, Cleanse, Given
    <2>3. QED
        BY <1>2, <1>6, <2>1, <2>2 DEF Bootstrap
<1>7. ASSUME NEW i \in Instances, InsertAdmin(i)
      PROVE  Origin'
    <2>1. CASE Seed(i)
        <3> DEFINE new == [username |-> cfg[i].username, email |-> cfg[i].email, start |-> begun[i]]
        <3>1. Given(new)
            BY <1>7 DEF InsertAdmin, Given
        <3>2. \A a \in admins' : Given(a)
            BY <2>1, <3>1 DEF Seed
        <3>3. QED
            BY <1>7, <2>1, <3>2 DEF InsertAdmin, Seed, Goto, Given
    <2>2. QED
        BY <1>2, <1>7, <2>1 DEF InsertAdmin
<1>8. ASSUME NEW i \in Instances, Refuse(i)
      PROVE  Origin'
    BY <1>2, <1>8 DEF Refuse
<1>9. QED
    BY <1>1, <1>3, <1>4, <1>5, <1>6, <1>7, <1>8 DEF Next, Step

\* "There is exactly one admin" (plans/00-project-plan.md:1218) does hold when
\* all starts have one account's credentials, as when a deployment starts its
\* instances from one environment: then starts that overlap meet the unique
\* username or address.
THEOREM SharedCredentialsOneAdmin == ASSUME SharedCredentials PROVE Spec => []OnlyOneAdmin
<1>1. IInv => TypeOK
    BY DEF IInv, SeededOnce
<1>2. IInv /\ Origin => OnlyOneAdmin
    <2> SUFFICES ASSUME IInv, Origin, NEW a \in admins, NEW b \in admins
                 PROVE  a = b
        BY DEF OnlyOneAdmin
    <2>1. Clash(a, b)
        BY DEF Origin, Given, SharedCredentials, Clash
    <2>2. QED
        BY <2>1 DEF IInv, SeededOnce
<1>3. QED
    BY <1>1, <1>2, StartupInvariant, InitOrigin, NextOrigin, PTL DEF Spec
=============================================================================
