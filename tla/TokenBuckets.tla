---------------------------- MODULE TokenBuckets ----------------------------
(***************************************************************************)
(* What platform/ratelimit.h promises: every key has a token bucket of its *)
(* own, full when first seen, holding PerMinute tokens at most and         *)
(* refilled with PerMinute tokens a minute.                                *)
(*                                                                         *)
(* Levels count in units of 1/Minute token, so that refilling for one unit *)
(* of time adds PerMinute units and a request costs Minute units.          *)
(***************************************************************************)
EXTENDS Integers

CONSTANTS
    Keys,        \* addresses and usernames
    PerMinute,   \* capacity of a bucket, and its refill per minute
    Minute,      \* clock units in a minute
    Times        \* readings of the clock

VARIABLES
    bucket,      \* key -> level and refill time, for the keys seen
    admitted     \* key -> requests allowed so far

bucketVars == <<bucket, admitted>>

Full == PerMinute * Minute

Refill(b, t) ==
    IF t > b.last_refill
    THEN LET level == b.tokens + (t - b.last_refill) * PerMinute
         IN  [tokens |-> IF level > Full THEN Full ELSE level,
              last_refill |-> t]
    ELSE b

Init ==
    /\ bucket = [k \in {} |-> [tokens |-> 0, last_refill |-> 0]]
    /\ admitted = [k \in Keys |-> 0]

\* The bucket of k when it is asked at time t, before anything is taken.
Offered(k, t) ==
    IF k \in DOMAIN bucket THEN Refill(bucket[k], t)
    ELSE [tokens |-> Full, last_refill |-> t]

Store(k, b) ==
    bucket' = [x \in DOMAIN bucket \cup {k} |->
                  IF x = k THEN b ELSE bucket[x]]

Allow(k, t) ==
    /\ Offered(k, t).tokens >= Minute
    /\ Store(k, [Offered(k, t) EXCEPT !.tokens = @ - Minute])
    /\ admitted' = [admitted EXCEPT ![k] = @ + 1]

Refuse(k, t) ==
    /\ Offered(k, t).tokens < Minute
    /\ Store(k, Offered(k, t))
    /\ UNCHANGED admitted

Ask(k, t) == Allow(k, t) \/ Refuse(k, t)

Next == \E k \in Keys, t \in Times : Ask(k, t)

Spec == Init /\ [][Next]_bucketVars
=============================================================================
