---------------------------- MODULE MCRateLimiter ---------------------------
(***************************************************************************)
(* RateLimiter for TLC: workers and keys with a budget are interchangeable. *)
(***************************************************************************)
EXTENDS RateLimiter, TLC

Symmetry ==
    Permutations(Workers) \cup Permutations(Keys \ Unbudgeted)

\* Where a key without a budget hashes to, and when it asks, is never looked at.
MCInit == Init /\ \A k \in Unbudgeted : home[k] = 0

\* Bound on the requests allowed in all: three of one key, so that the burst is
\* used, idled through and used again, or of both.
MaxTotal == 3

MCNext ==
    /\ Next
    /\ FoldFunction(LAMBDA s, n : Len(s) + n, 0, admits') <= MaxTotal
    /\ \A w \in Workers : req'[w] # Idle /\ req'[w].key \in Unbudgeted => req'[w].t = 0

MCSpec == MCInit /\ [][MCNext]_vars
=============================================================================
