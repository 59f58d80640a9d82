-------------------------- MODULE ThreadPoolProofs --------------------------
(***************************************************************************)
(* Proofs for ThreadPool, for any number of workers, slots and jobs: what  *)
(* is true of the pool when it is freed, that no wakeup is lost, and that  *)
(* the ring arithmetic implements a bounded queue.                         *)
(***************************************************************************)
EXTENDS ThreadPool, FiniteSetTheorems, SequenceTheorems, TLAPS

\* The array from joining on: the threads still to be joined.
ToJoin == joining..Len(workers)

\* How the array, the joined threads and the states of the workers hang
\* together.  Every thread started is joined or to be joined, once; a worker
\* leaves only when the queue is empty for good.
Accounted ==
    /\ joining <= Len(workers) + 1
    /\ \A i, k \in ToJoin : workers[i] = workers[k] => i = k
    /\ \A i \in ToJoin : workers[i] \notin joined
    /\ \A w \in Workers :
          worker[w] # "unborn" => w \in joined \/ \E i \in ToJoin : workers[i] = w
    /\ \A w \in joined : worker[w] = "exited"
    /\ \A w \in Workers : worker[w] = "exited" => shutting_down /\ count = 0
    /\ owner = "create" =>
          /\ joining = 1 /\ joined = {} /\ count = 0 /\ ~shutting_down
          /\ \A i \in 1..Len(workers) : workers[i] = i
          /\ \A w \in Workers : worker[w] = "unborn" <=> w > Len(workers)
    /\ owner \in {"up", "shut"} => worker[1] # "unborn"
    /\ owner \in {"up", "shut", "timed_out"} => joining = 1
    /\ worker[1] = "unborn" => count = 0
    /\ owner = "up" => ~shutting_down
    /\ owner = "gone" => joining > Len(workers)

IInv == TypeOK /\ Accounted /\ NoIdleBacklog
-----------------------------------------------------------------------------
(***************************************************************************)
(* The initial state and the types.                                        *)
(***************************************************************************)
LEMMA ModFacts ==
    ASSUME NEW x \in 0..2 * Capacity - 1
    PROVE  /\ x % Capacity \in Slots
           /\ x % Capacity = IF x < Capacity THEN x ELSE x - Capacity
BY ThreadPoolAssumption, Z3 DEF Slots

LEMMA InitTypes == Init => TypeOK /\ Accounted /\ Waiting = {}
<1> SUFFICES ASSUME Init
             PROVE  TypeOK /\ Accounted /\ Waiting = {}
    OBVIOUS
<1>1. TypeOK
    <2>1. /\ workers \in Seq(Workers) /\ Len(workers) <= N
          /\ joining \in 1..N + 1 /\ count \in 0..Capacity /\ head \in Slots
        BY ThreadPoolAssumption DEF Init, Slots
    <2>2. ring \in [Slots -> Jobs \cup {None}] /\ job \in [Workers -> Jobs \cup {None}]
        BY DEF Init
    <2>3. worker \in [Workers -> {"unborn", "loop", "waiting", "running", "exited"}]
        BY DEF Init
    <2>4. QED
        BY <2>1, <2>2, <2>3 DEF Init, TypeOK
<1>2. Accounted
    BY ThreadPoolAssumption DEF Init, Accounted, ToJoin, Workers
<1>3. Waiting = {}
    BY DEF Init, Waiting
<1> QED
    BY <1>1, <1>2, <1>3

LEMMA NextTypes == TypeOK /\ [Next]_poolVars => TypeOK'
<1> SUFFICES ASSUME TypeOK, [Next]_poolVars
             PROVE  TypeOK'
    OBVIOUS
<1> USE ThreadPoolAssumption DEF TypeOK, queueVars, ownerVars
<1>1. CASE UNCHANGED poolVars
    BY <1>1 DEF poolVars
<1>2. ASSUME NEW w \in Workers, Wait(w) \/ Exit(w) \/ Wake(w)
      PROVE  TypeOK'
    BY <1>2 DEF Wait, Exit, Wake
<1>3. ASSUME NEW w \in Workers, Take(w)
      PROVE  TypeOK'
    <2>1. (head + 1) % Capacity \in Slots
        BY ModFacts DEF Slots
    <2>2. QED
        BY <1>3, <2>1 DEF Take, Pop
<1>4. ASSUME NEW w \in Workers, Finish(w)
      PROVE  TypeOK'
    BY <1>4 DEF Finish
<1>5. ASSUME NEW j \in Jobs, Submit(j)
      PROVE  TypeOK'
    <2>1. CASE SubmitRefused(j)
        BY <1>5, <2>1 DEF SubmitRefused
    <2>2. CASE SubmitOk(j)
        <3>1. count < Capacity
            BY <2>2 DEF SubmitOk, Full
        <3>2. (head + count) % Capacity \in Slots
            BY <3>1, ModFacts DEF Slots
        <3>3. worker' \in [Workers -> {"unborn", "loop", "waiting", "running", "exited"}]
            BY <2>2 DEF SubmitOk, Signal, Waiting
        <3>4. QED
            BY <2>2, <3>1, <3>2, <3>3 DEF SubmitOk, Push
    <2>3. QED
        BY <1>5, <2>1, <2>2 DEF Submit
<1>6. CASE Spawn
    BY <1>6 DEF Spawn, Workers
<1>7. CASE SpawnFails
    BY <1>7 DEF SpawnFails, Close, Broadcast
<1>8. ASSUME NEW drain \in BOOLEAN, Shutdown(drain)
      PROVE  TypeOK'
    BY <1>8 DEF Shutdown, Close, Broadcast, Slots
<1>9. CASE Destroy \/ DestroyTimed \/ Free
    BY <1>9 DEF Destroy, DestroyTimed, Free
<1>10. CASE Join
    BY <1>10 DEF Join
<1>11. CASE JoinTimesOut
    BY <1>11 DEF JoinTimesOut, Compact
<1>12. QED
    BY <1>1, <1>2, <1>3, <1>4, <1>5, <1>6, <1>7, <1>8, <1>9, <1>10, <1>11
       DEF Next, Work, Own, Over
-----------------------------------------------------------------------------
(***************************************************************************)
(* The life of the threads.                                                *)
(***************************************************************************)
LEMMA NextAccounted == TypeOK /\ Accounted /\ [Next]_poolVars => Accounted'
<1> SUFFICES ASSUME TypeOK, Accounted, [Next]_poolVars
             PROVE  Accounted'
    OBVIOUS
<1>t. TypeOK'
    BY NextTypes
<1> USE ThreadPoolAssumption DEF queueVars, ownerVars
<1>1. CASE UNCHANGED poolVars
    BY <1>1 DEF poolVars, Accounted, ToJoin
<1>2. ASSUME NEW w \in Workers, Wait(w) \/ Wake(w) \/ Finish(w)
      PROVE  Accounted'
    <2>1. /\ UNCHANGED <<count, shutting_down, ownerVars>>
          /\ worker[w] \notin {"unborn", "exited"}
          /\ \/ worker' = [worker EXCEPT ![w] = "loop"]
             \/ worker' = [worker EXCEPT ![w] = "waiting"]
        BY <1>2 DEF Wait, Wake, Finish
    <2>2. \A v \in Workers : /\ worker'[v] = "unborn" <=> worker[v] = "unborn"
                             /\ worker'[v] = "exited" <=> worker[v] = "exited"
        BY <2>1 DEF TypeOK
    <2>3. QED
        BY <2>1, <2>2 DEF Accounted, ToJoin, TypeOK, Workers
<1>3. ASSUME NEW w \in Workers, Take(w)
      PROVE  Accounted'
    BY <1>3 DEF Take, Pop, Accounted, ToJoin, TypeOK
<1>4. ASSUME NEW w \in Workers, Exit(w)
      PROVE  Accounted'
    BY <1>4 DEF Exit, Accounted, ToJoin, TypeOK
<1>5. ASSUME NEW j \in Jobs, Submit(j)
      PROVE  Accounted'
    <2>1. CASE SubmitRefused(j)
        BY <2>1 DEF SubmitRefused, Accounted, ToJoin
    <2>2. CASE SubmitOk(j)
        <3>1. \A w \in Workers :
                  \/ worker'[w] = worker[w]
                  \/ worker[w] = "waiting" /\ worker'[w] = "loop"
            BY <2>2 DEF SubmitOk, Signal, Waiting, TypeOK
        <3>2. UNCHANGED <<shutting_down, ownerVars>> /\ ~shutting_down
            BY <2>2 DEF SubmitOk, Full
        <3>3. owner \in {"up", "shut"}
            BY <1>5 DEF Submit
        <3>4. QED
            BY <3>1, <3>2, <3>3 DEF Accounted, ToJoin, TypeOK, Workers
    <2>3. QED
        BY <1>5, <2>1, <2>2 DEF Submit
<1>6. CASE Spawn
    <2> DEFINE n == Len(workers) + 1
    <2>1. /\ owner = "create" /\ n \in Workers /\ joining = 1 /\ joined = {}
          /\ count = 0 /\ ~shutting_down
          /\ worker' = [worker EXCEPT ![n] = "loop"]
          /\ workers' = Append(workers, n)
          /\ owner' = IF n = N THEN "up" ELSE "create"
          /\ UNCHANGED <<count, shutting_down, joining, joined>>
        BY <1>6 DEF Spawn, Accounted
    <2>2. /\ Len(workers') = n
          /\ \A i \in 1..n : workers'[i] = i
        BY <2>1 DEF Accounted, TypeOK
    <2>3. \A w \in Workers : worker'[w] = "unborn" <=> w > n
        BY <2>1 DEF Accounted, TypeOK, Workers
    <2>4. \A w \in Workers : worker'[w] # "exited"
        BY <2>1 DEF Accounted, TypeOK
    <2> HIDE DEF n
    <2>5. QED
        BY <2>1, <2>2, <2>3, <2>4, <1>t DEF Accounted, ToJoin, TypeOK, Workers
<1>7. CASE SpawnFails
    BY <1>7 DEF SpawnFails, Close, Broadcast, Waiting, Accounted, ToJoin, TypeOK, Workers
<1>8. ASSUME NEW drain \in BOOLEAN, Shutdown(drain)
      PROVE  Accounted'
    BY <1>8 DEF Shutdown, Close, Broadcast, Waiting, Accounted, ToJoin, TypeOK, Workers
<1>9. CASE Destroy \/ DestroyTimed \/ Free
    BY <1>9 DEF Destroy, DestroyTimed, Free, Accounted, ToJoin, TypeOK
<1>10. CASE Join
    BY <1>10 DEF Join, Joinable, Accounted, ToJoin, TypeOK
<1>11. CASE JoinTimesOut
    <2>1. /\ Len(workers') = Len(workers) - joining + 1
          /\ \A i \in 1..Len(workers') : workers'[i] = workers[i + joining - 1]
        BY <1>11 DEF JoinTimesOut, Compact, TypeOK
    <2>2. joining' = 1 /\ owner' = "timed_out" /\ joining <= Len(workers)
          /\ UNCHANGED <<joined, worker, count, shutting_down>>
        BY <1>11 DEF JoinTimesOut
    <2>3. \A i \in ToJoin : i - joining + 1 \in ToJoin' /\ workers'[i - joining + 1] = workers[i]
        BY <2>1, <2>2 DEF ToJoin, TypeOK
    <2>4. \A i \in ToJoin' : i + joining - 1 \in ToJoin /\ workers'[i] = workers[i + joining - 1]
        BY <2>1, <2>2 DEF ToJoin, TypeOK
    <2>5. \A i, k \in ToJoin' : workers'[i] = workers'[k] => i = k
        BY <2>4, <2>2 DEF Accounted, TypeOK, ToJoin
    <2>6. \A w \in Workers :
              worker'[w] # "unborn" => w \in joined' \/ \E i \in ToJoin' : workers'[i] = w
        BY <2>2, <2>3 DEF Accounted
    <2>7. \A i \in ToJoin' : workers'[i] \notin joined'
        BY <2>2, <2>4 DEF Accounted
    <2>8. QED
        BY <2>1, <2>2, <2>5, <2>6, <2>7, <1>t DEF Accounted, TypeOK
<1>12. QED
    BY <1>1, <1>2, <1>3, <1>4, <1>5, <1>6, <1>7, <1>8, <1>9, <1>10, <1>11
       DEF Next, Work, Own, Over
-----------------------------------------------------------------------------
(***************************************************************************)
(* Wakeups.                                                                *)
(***************************************************************************)
LEMMA WorkersFinite ==
    ASSUME NEW S \in SUBSET Workers
    PROVE  IsFiniteSet(S) /\ Cardinality(S) \in Nat
<1>1. IsFiniteSet(Workers)
    BY ThreadPoolAssumption, FS_Interval DEF Workers
<1>2. IsFiniteSet(S)
    BY <1>1, FS_Subset
<1>3. QED
    BY <1>2, FS_CardinalityType

\* A worker that comes back to the loop is one more awake.
LEMMA AwakeGains ==
    ASSUME TypeOK, NEW w \in Workers, worker[w] # "loop",
           worker' = [worker EXCEPT ![w] = "loop"]
    PROVE  Cardinality(Awake') = Cardinality(Awake) + 1
<1>1. Awake' = Awake \cup {w} /\ w \notin Awake
    BY DEF Awake, TypeOK
<1>2. QED
    BY <1>1, WorkersFinite, FS_AddElement DEF Awake

\* A worker that takes a job is one fewer awake.
LEMMA AwakeLoses ==
    ASSUME TypeOK, NEW w \in Workers, worker[w] = "loop",
           worker' = [worker EXCEPT ![w] = "running"]
    PROVE  Cardinality(Awake') = Cardinality(Awake) - 1
<1>1. Awake' = Awake \ {w} /\ w \in Awake
    BY DEF Awake, TypeOK
<1>2. QED
    BY <1>1, WorkersFinite, FS_RemoveElement DEF Awake

LEMMA NextBacklog == IInv /\ [Next]_poolVars => NoIdleBacklog'
<1> SUFFICES ASSUME IInv, [Next]_poolVars
             PROVE  NoIdleBacklog'
    OBVIOUS
<1>t. TypeOK /\ TypeOK'
    BY NextTypes DEF IInv
<1>b. Waiting # {} => ~shutting_down /\ count <= Cardinality(Awake)
    BY DEF IInv, NoIdleBacklog
<1>c. Cardinality(Awake) \in Nat /\ Cardinality(Awake') \in Nat /\ count \in Nat
    <2>1. Awake \in SUBSET Workers /\ Awake' \in SUBSET Workers
        BY DEF Awake
    <2>2. QED
        BY <1>t, <2>1, WorkersFinite, ThreadPoolAssumption DEF TypeOK
<1> SUFFICES Waiting' # {} => ~shutting_down' /\ count' <= Cardinality(Awake')
    BY <1>t DEF NoIdleBacklog
<1> USE DEF queueVars, ownerVars
<1>1. CASE UNCHANGED <<worker, count, shutting_down>>
    BY <1>1, <1>b DEF Waiting, Awake
<1>2. ASSUME NEW w \in Workers, Wait(w)
      PROVE  ~shutting_down' /\ count' <= Cardinality(Awake')
    BY <1>2, <1>c DEF Wait
<1>3. ASSUME NEW w \in Workers, Exit(w)
      PROVE  Waiting' = {}
    BY <1>3, <1>b, <1>t DEF Exit, Waiting, TypeOK
<1>4. ASSUME NEW w \in Workers, Wake(w)
      PROVE  ~shutting_down' /\ count' <= Cardinality(Awake')
    <2>1. Cardinality(Awake') = Cardinality(Awake) + 1
        BY <1>4, <1>t, AwakeGains DEF Wake
    <2>2. Waiting # {}
        BY <1>4 DEF Wake, Waiting
    <2>3. QED
        BY <1>4, <1>b, <1>c, <2>1, <2>2 DEF Wake
<1>5. ASSUME NEW w \in Workers, Finish(w)
      PROVE  Waiting' # {} => ~shutting_down' /\ count' <= Cardinality(Awake')
    <2>1. Cardinality(Awake') = Cardinality(Awake) + 1
        BY <1>5, <1>t, AwakeGains DEF Finish
    <2>2. Waiting' = Waiting
        BY <1>5, <1>t DEF Finish, Waiting, TypeOK
    <2>3. QED
        BY <1>5, <1>b, <1>c, <2>1, <2>2 DEF Finish
<1>6. ASSUME NEW w \in Workers, Take(w)
      PROVE  Waiting' # {} => ~shutting_down' /\ count' <= Cardinality(Awake')
    <2>1. Cardinality(Awake') = Cardinality(Awake) - 1
        BY <1>6, <1>t, AwakeLoses DEF Take
    <2>2. Waiting' = Waiting
        BY <1>6, <1>t DEF Take, Waiting, TypeOK
    <2>3. QED
        BY <1>6, <1>b, <1>c, <2>1, <2>2 DEF Take, Pop
<1>7. ASSUME NEW j \in Jobs, SubmitOk(j)
      PROVE  Waiting' # {} => ~shutting_down' /\ count' <= Cardinality(Awake')
    <2>1. CASE Waiting = {}
        <3>1. UNCHANGED worker
            BY <1>7, <2>1 DEF SubmitOk, Signal
        <3>2. QED
            BY <2>1, <3>1 DEF Waiting
    <2>2. CASE Waiting # {}
        <3>1. PICK w \in Waiting : worker' = [worker EXCEPT ![w] = "loop"]
            BY <1>7, <2>2 DEF SubmitOk, Signal
        <3>2. Cardinality(Awake') = Cardinality(Awake) + 1
            BY <3>1, <1>t, AwakeGains DEF Waiting
        <3>3. QED
            BY <1>7, <1>b, <1>c, <2>2, <3>2 DEF SubmitOk, Push
    <2>3. QED
        BY <2>1, <2>2
<1>8. CASE Spawn
    <2> DEFINE n == Len(workers) + 1
    <2>1. n \in Workers /\ worker' = [worker EXCEPT ![n] = "loop"]
          /\ UNCHANGED <<count, shutting_down>>
        BY <1>8 DEF Spawn
    <2>2. worker[n] = "unborn"
        BY <1>8, <1>t, <2>1 DEF Spawn, IInv, Accounted, TypeOK, Workers
    <2> HIDE DEF n
    <2>3. Cardinality(Awake') = Cardinality(Awake) + 1
        BY <2>1, <2>2, <1>t, AwakeGains
    <2>4. Waiting' = Waiting
        BY <2>1, <2>2, <1>t DEF Waiting, TypeOK
    <2>5. QED
        BY <1>b, <1>c, <2>1, <2>3, <2>4
<1>9. ASSUME SpawnFails \/ \E drain \in BOOLEAN : Shutdown(drain)
      PROVE  Waiting' = {}
    BY <1>9, <1>t DEF SpawnFails, Shutdown, Close, Broadcast, Waiting, TypeOK
<1>10. CASE Destroy \/ DestroyTimed \/ Join \/ JoinTimesOut \/ Free
    BY <1>1, <1>10 DEF Destroy, DestroyTimed, Join, JoinTimesOut, Free
<1>11. ASSUME NEW j \in Jobs, SubmitRefused(j)
       PROVE  UNCHANGED <<worker, count, shutting_down>>
    BY <1>11 DEF SubmitRefused
<1>12. ASSUME UNCHANGED poolVars
       PROVE  UNCHANGED <<worker, count, shutting_down>>
    BY <1>12 DEF poolVars
<1>13. QED
    BY <1>1, <1>2, <1>3, <1>4, <1>5, <1>6, <1>7, <1>8, <1>9, <1>10, <1>11, <1>12
       DEF Next, Work, Own, Over, Submit

LEMMA PoolInvariant == Spec => []IInv
<1>1. Init => IInv
    BY InitTypes DEF IInv, NoIdleBacklog
<1>2. IInv /\ [Next]_poolVars => IInv'
    BY NextTypes, NextAccounted, NextBacklog DEF IInv
<1>3. QED
    BY <1>1, <1>2, PTL DEF Spec

\* No wakeup of worker_main is lost, for any number of workers and slots: a
\* worker sleeps only while the others awake can take all that is queued.
THEOREM PoolNoIdleBacklog == Spec => []NoIdleBacklog
<1>1. IInv => NoIdleBacklog
    BY DEF IInv
<1>2. QED
    BY <1>1, PoolInvariant, PTL

\* ps_threadpool_destroy and the give-up-and-retry of
\* ps_threadpool_destroy_timed join every thread once and free the pool only
\* when no worker runs and the ring is empty.
THEOREM PoolFreedOnlyWhenQuiet == Spec => []FreedOnlyWhenQuiet
<1>1. IInv => FreedOnlyWhenQuiet
    <2> SUFFICES ASSUME IInv
                 PROVE  FreedOnlyWhenQuiet
        OBVIOUS
    <2>1. JoinedOnce
        BY DEF IInv, Accounted, ToJoin, JoinedOnce
    <2>2. ASSUME owner = "gone"
          PROVE  (\A w \in Workers : worker[w] \in {"unborn", "exited"}) /\ count = 0
        <3>1. ToJoin = {}
            BY <2>2, ThreadPoolAssumption DEF IInv, Accounted, ToJoin, TypeOK
        <3>2. \A w \in Workers : worker[w] \in {"unborn", "exited"}
            BY <3>1 DEF IInv, Accounted
        <3>3. count = 0
            BY <3>2, ThreadPoolAssumption DEF IInv, Accounted, Workers
        <3>4. QED
            BY <3>2, <3>3
    <2>3. QED
        BY <2>1, <2>2 DEF FreedOnlyWhenQuiet
<1>2. QED
    BY <1>1, PoolInvariant, PTL
-----------------------------------------------------------------------------
(***************************************************************************)
(* The ring is a queue.                                                    *)
(***************************************************************************)
LEMMA ModDistinct ==
    ASSUME NEW x \in 0..2 * Capacity - 1, NEW y \in 0..2 * Capacity - 1,
           x < y, y - x < Capacity
    PROVE  x % Capacity # y % Capacity
<1> DEFINE a == x % Capacity
           b == y % Capacity
<1>1. a = IF x < Capacity THEN x ELSE x - Capacity
    BY ModFacts
<1>2. b = IF y < Capacity THEN y ELSE y - Capacity
    BY ModFacts
<1> HIDE DEF a, b
<1>3. a # b
    BY <1>1, <1>2, ThreadPoolAssumption
<1>4. QED
    BY <1>3 DEF a, b

LEMMA ModSame ==
    ASSUME NEW x \in 0..2 * Capacity - 1, NEW y \in 0..2 * Capacity - 1,
           x = y \/ y = x + Capacity
    PROVE  x % Capacity = y % Capacity
BY ModFacts, ThreadPoolAssumption DEF Slots

Contents(r, h, c) == [i \in 1..c |-> r[(h + i - 1) % Capacity]]

Ring == [Slots -> Jobs \cup {None}]

LEMMA ContentsFacts ==
    ASSUME NEW r \in Ring, NEW h \in Slots, NEW c \in 0..Capacity
    PROVE  /\ Contents(r, h, c) \in Seq(Jobs \cup {None})
           /\ Len(Contents(r, h, c)) = c
           /\ \A i \in 1..c : Contents(r, h, c)[i] = r[(h + i - 1) % Capacity]
<1>1. \A i \in 1..c : (h + i - 1) % Capacity \in Slots
    BY ThreadPoolAssumption, ModFacts DEF Slots
<1>2. Contents(r, h, c) \in [1..c -> Jobs \cup {None}] /\ c \in Nat
    BY <1>1, ThreadPoolAssumption DEF Contents, Ring
<1>3. QED
    BY <1>2 DEF Contents

\* Push writes the slot after the last one and leaves the queued ones alone.
LEMMA PushAppends ==
    ASSUME NEW r \in Ring, NEW h \in Slots, NEW c \in 0..Capacity - 1, NEW j \in Jobs
    PROVE  Contents([r EXCEPT ![(h + c) % Capacity] = j], h, c + 1)
             = Append(Contents(r, h, c), j)
<1> DEFINE T == Jobs \cup {None}
           s == [r EXCEPT ![(h + c) % Capacity] = j]
           before == Contents(r, h, c)
           after  == Contents(s, h, c + 1)
<1>1. (h + c) % Capacity \in Slots
    BY ThreadPoolAssumption, ModFacts DEF Slots
<1>2. c \in 0..Capacity /\ c + 1 \in 0..Capacity /\ s \in Ring
    <2>1. c \in 0..Capacity /\ c + 1 \in 0..Capacity
        BY ThreadPoolAssumption
    <2>2. s \in Ring
        BY <1>1 DEF Ring
    <2>3. QED
        BY <2>1, <2>2
<1>3. /\ before \in Seq(T) /\ Len(before) = c
      /\ \A i \in 1..c : before[i] = r[(h + i - 1) % Capacity]
    BY <1>2, ContentsFacts
<1>4. /\ after \in Seq(T) /\ Len(after) = c + 1
      /\ \A i \in 1..c + 1 : after[i] = s[(h + i - 1) % Capacity]
    BY <1>2, ContentsFacts
<1>5. after[c + 1] = j
    <2>1. h + (c + 1) - 1 = h + c /\ c + 1 \in 1..c + 1
        BY DEF Slots
    <2>2. QED
        BY <1>4, <1>1, <2>1 DEF Ring
<1>6. ASSUME NEW i \in 1..c
      PROVE  after[i] = before[i]
    <2>1. h + i - 1 \in 0..2 * Capacity - 1 /\ h + c \in 0..2 * Capacity - 1
        BY ThreadPoolAssumption DEF Slots
    <2> DEFINE x == h + i - 1
               y == h + c
    <2>2. x < y /\ y - x < Capacity
        BY <2>1, ThreadPoolAssumption DEF Slots
    <2> HIDE DEF x, y
    <2>3. x % Capacity \in Slots /\ x % Capacity # y % Capacity
        BY <2>1, <2>2, ModFacts, ModDistinct DEF x, y
    <2>4. i \in 1..c + 1
        OBVIOUS
    <2>5. QED
        BY <1>3, <1>4, <2>3, <2>4 DEF Ring, x, y
<1>7. after = Append(before, j)
    <2> HIDE DEF before, after
    <2>1. /\ Append(before, j) \in Seq(T) /\ Len(Append(before, j)) = c + 1
          /\ Append(before, j)[c + 1] = j
          /\ \A i \in 1..c : Append(before, j)[i] = before[i]
        BY <1>3
    <2>2. \A i \in 1..c + 1 : after[i] = Append(before, j)[i]
        BY <1>5, <1>6, <2>1
    <2>3. QED
        BY <1>4, <2>1, <2>2, SeqEqual
<1>8. QED
    BY <1>7

\* Moving head on drops the oldest job.
LEMMA PopIsTail ==
    ASSUME NEW r \in Ring, NEW h \in Slots, NEW c \in 1..Capacity
    PROVE  /\ Contents(r, h, c) # <<>>
           /\ Contents(r, (h + 1) % Capacity, c - 1) = Tail(Contents(r, h, c))
<1> DEFINE T == Jobs \cup {None}
           g == (h + 1) % Capacity
           before == Contents(r, h, c)
           after  == Contents(r, g, c - 1)
<1>1. c \in 0..Capacity /\ c - 1 \in 0..Capacity /\ h + 1 \in 0..2 * Capacity - 1
    BY ThreadPoolAssumption DEF Slots
<1>2. g \in Slots /\ g = IF h + 1 < Capacity THEN h + 1 ELSE h + 1 - Capacity
    BY <1>1, ModFacts, ThreadPoolAssumption DEF Slots
<1>3. /\ before \in Seq(T) /\ Len(before) = c
      /\ \A i \in 1..c : before[i] = r[(h + i - 1) % Capacity]
    BY <1>1, ContentsFacts
<1>4. /\ after \in Seq(T) /\ Len(after) = c - 1
      /\ \A i \in 1..c - 1 : after[i] = r[(g + i - 1) % Capacity]
    BY <1>1, <1>2, ContentsFacts
<1> HIDE DEF g
<1>5. ASSUME NEW i \in 1..c - 1
      PROVE  (g + i - 1) % Capacity = (h + (i + 1) - 1) % Capacity
    <2> DEFINE x == g + i - 1
               y == h + (i + 1) - 1
    <2>1. /\ x \in 0..2 * Capacity - 1 /\ y \in 0..2 * Capacity - 1
          /\ x = y \/ y = x + Capacity
        BY <1>2, ThreadPoolAssumption DEF Slots
    <2> HIDE DEF x, y
    <2>2. x % Capacity = y % Capacity
        BY <2>1, ModSame
    <2>3. QED
        BY <2>2 DEF x, y
<1> HIDE DEF before, after
<1>6. /\ before # <<>>
      /\ Tail(before) \in Seq(T) /\ Len(Tail(before)) = c - 1
      /\ \A i \in 1..c - 1 : Tail(before)[i] = before[i + 1]
    BY <1>3
<1>7. ASSUME NEW i \in 1..c - 1
      PROVE  after[i] = Tail(before)[i]
    <2>1. i + 1 \in 1..c
        BY <1>1
    <2>2. before[i + 1] = r[(h + (i + 1) - 1) % Capacity]
        BY <1>3, <2>1
    <2>3. QED
        BY <1>4, <1>5, <1>6, <2>2
<1>8. after = Tail(before)
    BY <1>4, <1>6, <1>7, SeqEqual
<1>9. QED
    BY <1>6, <1>8 DEF before, after, g

\* Every step of the pool is a step of the queue, or leaves it alone.
LEMMA NextQueues ==
    IInv /\ [Next]_poolVars => [Queue!Next]_<<Queued, shutting_down>>
<1> SUFFICES ASSUME IInv, [Next]_poolVars
             PROVE  [Queue!Next]_<<Queued, shutting_down>>
    OBVIOUS
<1>q. /\ Queued = Contents(ring, head, count) /\ Queued' = Contents(ring', head', count')
      /\ ring \in Ring /\ head \in Slots /\ count \in 0..Capacity
    BY DEF Queued, Contents, IInv, TypeOK, Ring
<1>e. \A r, h : Contents(r, h, 0) = <<>>
    BY DEF Contents
<1> USE DEF queueVars, ownerVars
<1>1. ASSUME UNCHANGED <<ring, head, count, shutting_down>>
      PROVE  UNCHANGED <<Queued, shutting_down>>
    BY <1>1 DEF Queued
<1>2. ASSUME NEW w \in Workers, Take(w)
      PROVE  Queue!Dequeue
    <2>1. count \in 1..Capacity
        BY <1>2, <1>q, ThreadPoolAssumption DEF Take
    <2>2. Queued # <<>> /\ Queued' = Tail(Queued)
        BY <1>2, <1>q, <2>1, PopIsTail DEF Take, Pop
    <2>3. QED
        BY <1>2, <2>2 DEF Queue!Dequeue, Take
<1>3. ASSUME NEW j \in Jobs, SubmitOk(j)
      PROVE  Queue!Enqueue(j)
    <2>1. count \in 0..Capacity - 1 /\ ~shutting_down
        BY <1>3, <1>q, ThreadPoolAssumption DEF SubmitOk, Full
    <2>2. Queued' = Append(Queued, j)
        BY <1>3, <1>q, <2>1, PushAppends DEF SubmitOk, Push
    <2>3. Len(Queued) < Capacity
        BY <1>q, <2>1, ContentsFacts, ThreadPoolAssumption
    <2>4. QED
        BY <1>3, <2>1, <2>2, <2>3 DEF Queue!Enqueue, SubmitOk
<1>4. CASE SpawnFails
    <2>1. Queued' = Queued /\ ~shutting_down /\ shutting_down'
        BY <1>4 DEF SpawnFails, Close, Queued, IInv, Accounted
    <2>2. QED
        BY <1>4, <2>1 DEF Queue!Next, Queue!Close, SpawnFails, Close
<1>5. ASSUME NEW drain \in BOOLEAN, Shutdown(drain)
      PROVE  Queue!Close
    <2>1. Queued' \in {Queued, <<>>}
        BY <1>5, <1>q, <1>e DEF Shutdown
    <2>2. ~shutting_down /\ shutting_down' = TRUE
        BY <1>5 DEF Shutdown, Close, IInv, Accounted
    <2>3. QED
        BY <2>1, <2>2 DEF Queue!Close
<1>6. ASSUME NEW w \in Workers, Wait(w) \/ Exit(w) \/ Finish(w) \/ Wake(w)
      PROVE  UNCHANGED <<ring, head, count, shutting_down>>
    BY <1>6 DEF Wait, Exit, Finish, Wake
<1>7. ASSUME NEW j \in Jobs, SubmitRefused(j)
      PROVE  UNCHANGED <<ring, head, count, shutting_down>>
    BY <1>7 DEF SubmitRefused
<1>8. ASSUME Spawn \/ Destroy \/ DestroyTimed \/ Join \/ JoinTimesOut \/ Free \/ UNCHANGED poolVars
      PROVE  UNCHANGED <<ring, head, count, shutting_down>>
    BY <1>8 DEF Spawn, Destroy, DestroyTimed, Join, JoinTimesOut, Free, poolVars
<1>9. QED
    BY <1>1, <1>2, <1>3, <1>4, <1>5, <1>6, <1>7, <1>8
       DEF Next, Work, Own, Over, Submit, Queue!Next

\* ps_threadpool_submit, worker_main's pop and ps_threadpool_shutdown are the
\* operations of a bounded first-in first-out queue, for any ring size.
THEOREM PoolImplementsQueue == Spec => ImplementsQueue
<1>1. Init => Queue!Init
    BY DEF Init, Queue!Init, Queued
<1>2. QED
    BY <1>1, NextQueues, PoolInvariant, PTL DEF Spec, ImplementsQueue, Queue!Spec
=============================================================================
