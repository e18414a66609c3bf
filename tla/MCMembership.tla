--------------------------- MODULE MCMembership ---------------------------
(***************************************************************************)
(* Instances of Membership for TLC.  Clients are numbers, so that FreshId  *)
(* hands them out in order; None is a number no client has.                *)
(***************************************************************************)
EXTENDS Membership

\* Two full rounds of two shards with two clients each.
EightClients == 1 .. 8

\* Three full rounds of them: the third group registers while the first may
\* still be in the validation stage.
TwelveClients == 1 .. 12

NobodyYet == 0
=============================================================================
