--------------------------- MODULE MCTokenManager ---------------------------
(***************************************************************************)
(* Scaled periods: a set of two keys every 3 rounds.  RetainFor is as      *)
(* small as LagAssumption allows, so that every period is tight.           *)
(***************************************************************************)
EXTENDS TokenManager

MCKeyTypes == <<"ES256", "EdDSA">>
=============================================================================
