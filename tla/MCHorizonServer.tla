-------------------------- MODULE MCHorizonServer --------------------------
(***************************************************************************)
(* An instance of HorizonServer for TLC: clients are numbers, see          *)
(* MCMembership.                                                           *)
(***************************************************************************)
EXTENDS HorizonServer

\* Two full rounds of two shards with two clients each.
EightClients == 1 .. 8

NobodyYet == 0
=============================================================================
