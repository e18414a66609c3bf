------------------------------- MODULE Peers -------------------------------
(***************************************************************************)
(* Two servers and the websockets between them.  The variables of Peer are *)
(* those of the first server; a 2 marks those of the second, whose inbox   *)
(* is the first one's outbox.                                              *)
(***************************************************************************)
EXTENDS Peer

CONSTANT Lag   \* bound: messages written and not read yet

VARIABLES
  round2, NodeNum2, assigned2, client2, seat2, Consensus_Map2,
  Validation_Map2, Winner2, NewRootsVote2, RootsVote2, lockHeld2, pool2,
  height2, chain2, WitnessCount2, AccountMap2, NewAccountMap2, Value2,
  StateRoot2, work2, linked2

second == <<round2, NodeNum2, assigned2, client2, seat2, Consensus_Map2,
            Validation_Map2, Winner2, NewRootsVote2, RootsVote2, lockHeld2,
            pool2, height2, chain2, WitnessCount2, AccountMap2,
            NewAccountMap2, Value2, StateRoot2, work2, linked2>>

Second == INSTANCE Peer WITH
  round <- round2, NodeNum <- NodeNum2, assigned <- assigned2,
  client <- client2, seat <- seat2, Consensus_Map <- Consensus_Map2,
  Validation_Map <- Validation_Map2, Winner <- Winner2,
  NewRootsVote <- NewRootsVote2, RootsVote <- RootsVote2,
  lockHeld <- lockHeld2, pool <- pool2, height <- height2, chain <- chain2,
  WitnessCount <- WitnessCount2, AccountMap <- AccountMap2,
  NewAccountMap <- NewAccountMap2, Value <- Value2,
  StateRoot <- StateRoot2, work <- work2, linked <- linked2,
  inbox <- outbox, outbox <- inbox

-----------------------------------------------------------------------------
PeersInit == PeerInit /\ Second!PeerInit

First(A)  == A /\ UNCHANGED second
Other(A)  == A /\ UNCHANGED <<serverVars, linked>>

\* A comment asks whether servers may fail to get to sync in time.  Here they do
\* get to: a server takes a request when the two are connected, it has read all
\* its peer wrote, and the peer is not between the two halves of an upload.  Lag
\* bounds how much the peer has to read, and as many clients ask for a shard as
\* there are ids.
Uploading(w) == \E c \in Client : w[c].step = "uploading"

InTime(in, out, peerWork) ==
  /\ linked /\ linked2
  /\ in = <<>> /\ Len(out) < Lag
  /\ ~Uploading(peerWork)

Newcomers ==
  MapThenSumSet(LAMBDA s : assigned[s] + assigned2[s], Shards)
    < Cardinality({c \in Client : seat[c] = "none"})

FirstServes ==
  /\ InTime(inbox, outbox, work2)
  /\ First(Requests \/ (Newcomers /\ Assigns))

OtherServes ==
  /\ InTime(outbox, inbox, work)
  /\ Other(Second!Requests \/ (Newcomers /\ Second!Assigns))

PeersNext ==
  \/ First(AcceptsPeer)
  \/ FirstServes
  \/ First(Finishes)
  \/ First(Apply)
  \/ Other(Second!AcceptsPeer)
  \/ OtherServes
  \/ Other(Second!Finishes)
  \/ Other(Second!Apply)

PeersSpec == PeersInit /\ [][PeersNext]_<<peerVars, second>>

-----------------------------------------------------------------------------
(***************************************************************************)
(* Properties                                                              *)
(***************************************************************************)
\* Nothing is on its way.
AtRest == inbox = <<>> /\ outbox = <<>> /\ ~Uploading(work) /\ ~Uploading(work2)

\* Servers that get to sync have the same groups, committee, leader, votes,
\* chain, accounts and pools whenever nothing is on its way.  The pool of stage 2
\* is left out: the peer packs it for another height than the server does.
ServersAgree ==
  AtRest =>
    /\ <<NodeNum, client, seat, Consensus_Map, Validation_Map, Winner>> =
       <<NodeNum2, client2, seat2, Consensus_Map2, Validation_Map2, Winner2>>
    /\ <<NewRootsVote, RootsVote, WitnessCount, height, chain, money>> =
       <<NewRootsVote2, RootsVote2, WitnessCount2, height2, chain2, Second!money>>
    /\ \A stage \in {0, 1} : pool[stage] = pool2[stage]

\* No forwarded block, vote or root ever meets a state in which the reading
\* goroutine keeps the lock or ends the process.
BothServe == ~lockHeld /\ ~lockHeld2
=============================================================================
