------------------------------ MODULE MCPeers ------------------------------
(***************************************************************************)
(* Instances of Peers and PeersJoining for TLC.                            *)
(***************************************************************************)
EXTENDS PeersJoining

\* One full round of two shards with two clients each, and one client that joins
\* the next while the first group validates; or one too many for a shard.
FiveClients == 1 .. 5

\* Whoever fills a shard may win it or not.
Shuffled == [c \in FiveClients |-> (3 * c) % 7]

NobodyYet == 0
=============================================================================
