---------------------------- MODULE PeersJoining ----------------------------
(***************************************************************************)
(* The first round of two servers that do not get to sync in time: clients *)
(* ask for a shard and register at both while what either server wrote is  *)
(* still on its way.  Only assignment and registration change groups and   *)
(* elect, until the leader uploads; the leader's and the executors'        *)
(* requests, which do neither, are left out.                               *)
(***************************************************************************)
EXTENDS Peers

\* An id that neither server has drawn.
Fresh(c) == seat[c] = "none" /\ seat2[c] = "none"

\* As many clients ask for a shard as there are ids.
Expected ==
  MapThenSumSet(LAMBDA s : assigned[s] + assigned2[s], Shards)
    < Cardinality({c \in Client : Fresh(c)})

\* The two are connected, and Lag bounds what has not been read; the other server
\* may be taking a request too, and may have written what this one has not read.
FirstJoins ==
  /\ linked /\ linked2 /\ Len(outbox) < Lag
  /\ \/ First(Expected /\ Assigns)
     \/ \E c \in Client, s \in Shards : Fresh(c) /\ First(RegistersAs(c, s))

OtherJoins ==
  /\ linked /\ linked2 /\ Len(inbox) < Lag
  /\ \/ Other(Expected /\ Second!Assigns)
     \/ \E c \in Client, s \in Shards : Fresh(c) /\ Other(Second!RegistersAs(c, s))

JoiningNext ==
  \/ First(AcceptsPeer)
  \/ FirstJoins
  \/ First(Apply)
  \/ Other(Second!AcceptsPeer)
  \/ OtherJoins
  \/ Other(Second!Apply)

JoiningSpec == PeersInit /\ [][JoiningNext]_<<peerVars, second>>

-----------------------------------------------------------------------------
(***************************************************************************)
(* Properties                                                              *)
(***************************************************************************)
\* The clients the two servers have told shard s.
Told(s) ==
  assigned[s] + assigned2[s]
    + Cardinality(Registered(s, round) \cup Second!Registered(s, round2))

\* NodeNum "records how many nodes each shard has": whichever server gave a slot
\* away and in whatever order the messages crossed, once nothing is on its way
\* both servers have counted every slot once, those given away twice included.
SlotsCounted ==
  AtRest => \A s \in Shards : NodeNum[s] = Told(s) /\ NodeNum2[s] = Told(s)

\* Each server elects on its own, among the clients in the order it hears of them.
\* Unless they have given a slot away twice, the two have the same groups, the same
\* committee and the same leader once nothing is on its way.
ElectionsAgree ==
  AtRest /\ (\A s \in Shards : Told(s) <= CLIENT_MAX) =>
    <<NodeNum, client, seat, Consensus_Map, Validation_Map, Winner>> =
    <<NodeNum2, client2, seat2, Consensus_Map2, Validation_Map2, Winner2>>

\* A client is told 0 once the shards "have enough nodes", so that the two servers
\* together never tell more than CLIENT_MAX clients one shard.
SlotsShared == \A s \in Shards : Told(s) <= CLIENT_MAX
=============================================================================
