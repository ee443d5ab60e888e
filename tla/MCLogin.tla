------------------------------ MODULE MCLogin ------------------------------
(***************************************************************************)
(* Three hosts: one that wants a recent login of its own, one that is      *)
(* given ID tokens, and one with a SAML provider.                          *)
(***************************************************************************)
EXTENDS Login, TLC

CONSTANTS b1, b2, u1, u2, ha, hb, hc, h1, h2

MCProvider == (ha :> "oidc") @@ (hb :> "oidc") @@ (hc :> "saml")
MCACL == (ha :> {u1}) @@ (hb :> {u1, u2}) @@ (hc :> Users)
MCForceReAuth == (ha :> 1) @@ (hb :> 0) @@ (hc :> 0)
MCMayLogIn == <<{u1}, {u2}>>
Symmetry == Permutations(Browsers) \union Permutations(Handlers)
=============================================================================
