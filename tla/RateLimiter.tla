----------------------------- MODULE RateLimiter ----------------------------
(***************************************************************************)
(* One shard of the token-bucket rate limiter (platform/ratelimit.c): an   *)
(* open-addressed hash table with linear probing that evicts the least     *)
(* recently used entry when it is full.  The sixteen shards share nothing, *)
(* and a key always meets the same one.                                    *)
(*                                                                         *)
(* A caller reads the monotonic clock first and then takes the shard's     *)
(* mutex, so the times the table sees need not be in order.  Levels count  *)
(* in units of 1/Minute token (see TokenBuckets); the code's doubles round *)
(* them.                                                                   *)
(***************************************************************************)
EXTENDS Integers, Sequences, FiniteSets, FiniteSetsExt

CONSTANTS
    Workers,     \* worker threads
    Keys,        \* keys that hash to this shard
    Unbudgeted,  \* keys whose configured limit is zero
    NoKey,       \* the key of an unoccupied slot
    Caps,        \* how many entries a shard may be created for
    PerMinute,   \* the configured limit of the other keys
    Minute,      \* clock units in a minute
    MaxAdmits,   \* a key allowed so often asks no more
    MaxTime      \* bound on the clock

ASSUME RateLimiterAssumption ==
    /\ Caps \cup {PerMinute, Minute} \subseteq Nat \ {0}
    /\ {MaxAdmits, MaxTime} \subseteq Nat
    /\ Unbudgeted \subseteq Keys
    /\ NoKey \notin Keys

VARIABLES
    now,         \* monotonic clock
    cap,         \* entries the shard may hold; fixed
    home,        \* key -> the slot its hash names; fixed
    slots,       \* slot -> entry
    occupied,    \* the shard's entry counter
    req,         \* the call each worker is in
    admits       \* key -> its allowed requests, by the bucket's refill time

vars == <<now, cap, home, slots, occupied, req, admits>>
-----------------------------------------------------------------------------
\* ps_ratelimiter_create: twice as many slots as entries.
SlotCount == 2 * cap

Slot == 0 .. SlotCount - 1

Entry == [key : Keys \cup {NoKey}, tokens : Nat, last_refill : Nat,
          last_used : Nat]

Empty == [key |-> NoKey, tokens |-> 0, last_refill |-> 0, last_used |-> 0]

Idle == [op |-> "idle"]

Init ==
    /\ now = 0
    /\ cap \in Caps
    /\ home \in [Keys -> Slot]
    /\ slots = [s \in Slot |-> Empty]
    /\ occupied = 0
    /\ req = [w \in Workers |-> Idle]
    /\ admits = [k \in Keys |-> <<>>]

Tick ==
    /\ now < MaxTime
    /\ now' = now + 1
    /\ UNCHANGED <<cap, home, slots, occupied, req, admits>>

\* ps_ratelimiter_allow: the clock is read before the lock is taken.
Arrive(w) ==
    /\ req[w] = Idle
    /\ \E k \in {x \in Keys : Len(admits[x]) < MaxAdmits} :
          req' = [req EXCEPT ![w] = [op |-> "allow", key |-> k, t |-> now]]
    /\ UNCHANGED <<now, cap, home, slots, occupied, admits>>
-----------------------------------------------------------------------------
Full == PerMinute * Minute

Forgetful_Refill(e, t) ==
    IF t > e.last_refill
    THEN [e EXCEPT !.tokens = Min({Full, @ + (t - e.last_refill) * PerMinute})]
    ELSE e

\* The first half of consume.  A time before the last refill adds nothing.
Refill(e, t) ==
    IF t > e.last_refill
    THEN [e EXCEPT !.tokens = Min({Full, @ + (t - e.last_refill) * PerMinute}),
                   !.last_refill = t]
    ELSE e

Drained_NewEntry(k, t) ==
    [key |-> k, tokens |-> 0, last_refill |-> t, last_used |-> t]

NewEntry(k, t) ==
    [key |-> k, tokens |-> Full, last_refill |-> t, last_used |-> t]

Partial_Affords(e) == e.tokens > 0

Affords(e) == e.tokens >= Minute

\* The second half of consume, for entry e in slot s: a token or a refusal.
Consume(w, s, e) ==
    LET used == [e EXCEPT !.last_used = req[w].t]
    IN  \/ /\ Affords(e)
           /\ slots' = [slots EXCEPT ![s] = [used EXCEPT !.tokens = @ - Minute]]
           /\ admits' = [admits EXCEPT ![e.key] = Append(@, e.last_refill)]
        \/ /\ ~Affords(e)
           /\ slots' = [slots EXCEPT ![s] = used]
           /\ UNCHANGED admits
-----------------------------------------------------------------------------
Occupied(s) == slots[s].key # NoKey

\* The slots of k's probe sequence, in order.
Probe(k, i) == (home[k] + i) % SlotCount

\* Where probing for k stops: at k, or at the first unoccupied slot; at
\* SlotCount when there is neither.
Stop(k) ==
    LET stops == {i \in Slot : slots[Probe(k, i)].key \in {k, NoKey}}
    IN  IF stops = {} THEN SlotCount ELSE Min(stops)

Finds(k) == Stop(k) < SlotCount /\ slots[Probe(k, Stop(k))].key = k

\* The least recently used entry, the first one in a tie.
Victim ==
    LET held == {s \in Slot : Occupied(s)}
        used == {slots[s].last_used : s \in held}
    IN  IF held = {} THEN 0
        ELSE Min({s \in held : slots[s].last_used = Min(used)})

Return(w) ==
    /\ req' = [req EXCEPT ![w] = Idle]
    /\ UNCHANGED <<now, cap, home>>

\* A limit of zero or less refuses before the table is looked at.
NoBudget(w) ==
    /\ req[w].op = "allow"
    /\ req[w].key \in Unbudgeted
    /\ Return(w)
    /\ UNCHANGED <<slots, occupied, admits>>

\* The three ways through ps_ratelimiter_allow_at, each under the mutex.
AllowKnown(w) ==
    LET k == req[w].key
        s == Probe(k, Stop(k))
    IN  /\ req[w].op = "allow"
        /\ k \notin Unbudgeted
        /\ Finds(k)
        /\ Consume(w, s, Refill(slots[s], req[w].t))
        /\ Return(w)
        /\ UNCHANGED occupied

HasRoom(k) == occupied < cap /\ Stop(k) < SlotCount

Increment == occupied + 1

AllowNew(w) ==
    LET k == req[w].key
    IN  /\ req[w].op = "allow"
        /\ k \notin Unbudgeted
        /\ ~Finds(k)
        /\ HasRoom(k)
        /\ Consume(w, Probe(k, Stop(k)), NewEntry(k, req[w].t))
        /\ occupied' = Increment
        /\ Return(w)

AllowEvict(w) ==
    LET k == req[w].key
    IN  /\ req[w].op = "allow"
        /\ k \notin Unbudgeted
        /\ ~Finds(k)
        /\ ~HasRoom(k)
        /\ Consume(w, Victim, NewEntry(k, req[w].t))
        /\ Return(w)
        /\ UNCHANGED occupied
-----------------------------------------------------------------------------
Next ==
    \/ \E w \in Workers :
          \/ Arrive(w) \/ NoBudget(w)
          \/ AllowKnown(w) \/ AllowNew(w) \/ AllowEvict(w)
    \/ Tick

Spec == Init /\ [][Next]_vars
-----------------------------------------------------------------------------
\* Entries, calls and counters have the declared shape.
TypeOK ==
    /\ now \in Nat
    /\ cap \in Caps
    /\ home \in [Keys -> Slot]
    /\ slots \in [Slot -> Entry]
    /\ occupied \in Nat
    /\ req \in [Workers -> {Idle} \cup [op : {"allow"}, key : Keys, t : Nat]]
    /\ admits \in [Keys -> Seq(Nat)]

\* The counter counts the occupied slots, and they stay within the cap, so
\* half the slots stay free and every probe ends (ratelimit.h:13).
OccupiedExact ==
    /\ occupied = Cardinality({s \in Slot : Occupied(s)})
    /\ occupied <= cap

\* There is room for every key, so that nothing is ever evicted.
Roomy == Cardinality(Keys \ Unbudgeted) <= cap

\* From one allowed request of a key to a later one it gets its burst and the
\* refill of the time between and no more.  Time is the latest clock reading
\* the bucket has seen: readings reach it out of order.  Throughout,
\* OccupiedExact holds.
BurstBound ==
    /\ TypeOK /\ OccupiedExact
    /\ Roomy =>
          \A k \in Keys : \A j \in DOMAIN admits[k] : \A i \in 1 .. j :
              (j - i + 1) * Minute <=
                  Full + (admits[k][j] - admits[k][i]) * PerMinute

\* A refusal is deserved: the key had a whole minute's worth of requests
\* allowed since a minute before the refused call read its clock.
RefusalsDeserved ==
    [][\A w \in Workers :
          LET r == req[w]
          IN  /\ r # Idle /\ req'[w] = Idle
              /\ r.key \notin Unbudgeted /\ admits' = admits
              => Cardinality({i \in DOMAIN admits[r.key] :
                                 admits[r.key][i] + Minute >= r.t})
                     >= PerMinute]_vars

Buckets ==
    INSTANCE TokenBuckets WITH
        Times    <- 0 .. MaxTime,
        bucket   <- [k \in {x \in Keys : Finds(x)} |->
                        LET e == slots[Probe(k, Stop(k))]
                        IN  [tokens |-> e.tokens, last_refill |-> e.last_refill]],
        admitted <- [k \in Keys |-> Len(admits[k])]

\* While nothing has to be evicted the table is what ratelimit.h promises,
\* wherever the keys hash to and in whatever order they came: a call finds and
\* moves the bucket of its own key as TokenBuckets says, and no other.
\* (home and cap are fixed, so only slots and admits can move a bucket.)
ImplementsBuckets ==
    /\ Buckets!Init
    /\ [][Roomy => \E w \in Workers :
                      /\ req[w] # Idle /\ req'[w] = Idle
                      /\ Buckets!Ask(req[w].key, req[w].t)]_<<slots, admits>>
-----------------------------------------------------------------------------
(***************************************************************************)
(* A statement of the source that does not hold once entries are evicted.  *)
(***************************************************************************)
\* "a genuinely unoccupied slot proves the key isn't present anywhere further
\* along this probe sequence" (ratelimit.c:158).
ProbeAlwaysFindsKeys ==
    \A s \in Slot :
        LET k == slots[s].key
        IN  Occupied(s) => Finds(k) /\ Probe(k, Stop(k)) = s
=============================================================================
