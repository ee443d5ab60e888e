------------------------------ MODULE MCProxy ------------------------------
(***************************************************************************)
(* Instances of Proxy for TLC.  Two connections to one server name are     *)
(* enough for every race between two handlers, or between a handler and a  *)
(* callback of the other connection, on one backend.                       *)
(***************************************************************************)
EXTENDS Proxy, TLC

CONSTANTS c1, c2

MCNameOf == [c \in Conns |-> "a"]

\* c1 has a client certificate, c2 has none.
MCCertOf == [c \in Conns |-> IF c = c1 THEN "alice" ELSE None]

Plain(mode) ==
    [mode |-> mode, deny |-> {}, clientAuth |-> FALSE, hasACL |-> FALSE, acl |-> {}]

One(b, n) == [be |-> ("a" :> b), maxOpen |-> n]

Open     == One(Plain("HTTP"), 3)
DenyC2   == One([Plain("HTTP") EXCEPT !.deny = {c2}], 3)
AnyCert  == One([Plain("HTTP") EXCEPT !.clientAuth = TRUE], 3)
OnlyBob  == One([Plain("HTTP") EXCEPT !.clientAuth = TRUE, !.hasACL = TRUE,
                                      !.acl = {"bob"}], 3)
Bridged  == One(Plain("TCP"), 2)
BridgedAnyCert == One([Plain("TCP") EXCEPT !.clientAuth = TRUE], 2)
Through  == One(Plain("PASSTHROUGH"), 3)
Nothing  == [be |-> << >>, maxOpen |-> 3]

MCConfigs == {Open, DenyC2, AnyCert, OnlyBob, Bridged, Through, Nothing}

ShutdownConfigs == {Open, Through}
ClientAuthConfigs == {Bridged, BridgedAnyCert}
RemovedConfigs == {Open, Nothing}
=============================================================================
