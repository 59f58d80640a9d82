--------------------------- MODULE MCVerification ---------------------------
(***************************************************************************)
(* Verification for TLC: workers, names and tokens are interchangeable.    *)
(***************************************************************************)
EXTENDS Verification, TLC

Symmetry ==
    Permutations(Workers) \cup Permutations(Users) \cup Permutations(Tokens)
=============================================================================
