----------------------------- MODULE MCResources ----------------------------
(***************************************************************************)
(* Resources with the symmetry of workers and of connections, which is     *)
(* sound for invariants: no definition names a particular one.             *)
(***************************************************************************)
EXTENDS Resources, TLC

Symmetry == Permutations(Workers) \cup Permutations(Conns)
=============================================================================
