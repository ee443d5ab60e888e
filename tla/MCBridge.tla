------------------------------ MODULE MCBridge ------------------------------
(***************************************************************************)
(* One chunk from the client and two from the server, over connections     *)
(* that take one: the copier of the response blocks.                       *)
(***************************************************************************)
EXTENDS Bridge

MCMaxData == [e \in Ends |-> IF e = "client" THEN 1 ELSE 2]
=============================================================================
