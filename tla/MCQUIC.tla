------------------------------- MODULE MCQUIC -------------------------------
(***************************************************************************)
(* Two connections that dial two addresses at the same time.  The limit    *)
(* on open connections is out of their reach (see MCAdmission).            *)
(***************************************************************************)
EXTENDS QUIC, TLC

CONSTANTS c1, c2

Symmetry == Permutations(Conns)
=============================================================================
