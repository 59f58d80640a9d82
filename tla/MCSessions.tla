---------------------------- MODULE MCSessions ----------------------------
(***************************************************************************)
(* Small instances of Sessions for TLC.                                    *)
(***************************************************************************)
EXTENDS Sessions, TLC

CONSTANTS w1, w2, u1, u2, p1, p2, f1, f2, t1, t2, t3

Symmetry ==
    Permutations(Workers) \cup Permutations(Users) \cup Permutations(Passwords)
    \cup Permutations(Families) \cup Permutations(Tokens)

\* Bound on the ids drawn: one family that rotates twice, as when two refreshes
\* of one token race, or two families.
MaxDrawn == 4

MCNext == Next /\ Cardinality(usedFamilies') + Cardinality(usedTokens') <= MaxDrawn

MCSpec == Init /\ [][MCNext]_vars
============================================================================
