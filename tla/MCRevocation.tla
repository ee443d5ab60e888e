--------------------------- MODULE MCRevocation ---------------------------
(***************************************************************************)
(* The refresh period is two seconds of four, so that lists and           *)
(* answers are made, expire and are made again within the bound on time.   *)
(***************************************************************************)
EXTENDS Revocation, TLC

CONSTANTS p1, p2, v1, v2

Symmetry == Permutations(Procs) \union Permutations(Verifiers)
============================================================================
