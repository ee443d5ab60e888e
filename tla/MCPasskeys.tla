----------------------------- MODULE MCPasskeys -----------------------------
(***************************************************************************)
(* Two users share two browsers and have two keys.                         *)
(***************************************************************************)
EXTENDS Passkeys, TLC

CONSTANTS u1, u2, b1, b2, k1, k2

Symmetry == Permutations(Users) \union Permutations(Browsers) \union Permutations(Keys)
=============================================================================
