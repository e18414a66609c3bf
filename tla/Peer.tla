-------------------------------- MODULE Peer --------------------------------
(***************************************************************************)
(* One of two servers that replicate each other's requests: HorizonServer  *)
(* with the websocket to its peer (outbox) and the one from it (inbox).    *)
(* Every handler that changes state writes a message to the peer, and the  *)
(* goroutine in main.go reads the peer's messages one by one and repeats    *)
(* on this server what was done there.  A websocket keeps the order.       *)
(*                                                                          *)
(* A client talks to the server it registered with.  The peer has it       *)
(* without a socket: its work is "away" there.  On the reading goroutine   *)
(* nobody recovers a panic: the process ends, and lockHeld stands for that *)
(* too, because no handler runs any more.                                  *)
(***************************************************************************)
EXTENDS HorizonServer

\* The random number each client submits.  With equal ones two servers may elect
\* different clients.
CONSTANT RandomOf

ASSUME PeerAssumption ==
  RandomOf \in [Client -> Randoms] /\ IsInjective(RandomOf)

VARIABLES
  linked,   \* Server_CommunicationMap holds the peer
  inbox,    \* written by the peer, not read yet
  outbox    \* written to the peer, not read by it yet

links    == <<linked, inbox, outbox>>
peerVars == <<serverVars, links>>

PeerInit == HorizonInit /\ linked = FALSE /\ inbox = <<>> /\ outbox = <<>>

-----------------------------------------------------------------------------
\* ServerRegisterCommunication: the peer, which redials until it gets through,
\* is connected.
AcceptsPeer ==
  /\ ~linked /\ ~lockHeld
  /\ linked' = TRUE
  /\ UNCHANGED <<serverVars, inbox, outbox>>

\* A handler, and the message it writes to the peer once there is one.
Forwarding(Handler, m) ==
  /\ Handler
  /\ outbox' = IF linked THEN Append(outbox, m) ELSE outbox
  /\ UNCHANGED <<linked, inbox>>

Alone(Handler) == Handler /\ UNCHANGED links

Assigns ==
  \E s \in Shards :
    Forwarding(OnlyJoins(AssignShardNum) /\ NodeNum'[s] # NodeNum[s],
               [type |-> "NodeNum", shard |-> s])

Registers(s, x) ==
  Forwarding(OnlyJoins(RegisterCommunication(s, x)),
             [type |-> "client", id |-> FreshId, shard |-> s, random |-> x])

\* RegisterCommunication with the new id c: FreshId of a server that has not read
\* all messages may be in use at its peer, and a uuid never is.
RegistersAs(c, s) ==
  Forwarding(OnlyJoins(/\ ~lockHeld
                       /\ assigned[s] > 0
                       /\ seat[c] = "none"
                       /\ assigned' = [assigned EXCEPT ![s] = @ - 1]
                       /\ Join(c, s, RandomOf[c])),
             [type |-> "client", id |-> c, shard |-> s, random |-> RandomOf[c]])

\* PackTransaction and PackValidTx: the peer is to pack the same stage, and is
\* sent the height from which it computes the one to pack for.
Packs(c) ==
  \/ Forwarding(ExecutorPacks(c), [type |-> "pack", stage |-> 0, height |-> height])
  \/ Forwarding(LeaderPacks(c), [type |-> "pack", stage |-> 1, height |-> height])
  \/ Forwarding(PackValidTx(c), [type |-> "pack", stage |-> 2, height |-> height - 1])

ForwardsWitness(c) ==
  Forwarding(WitnessTx(c), [type |-> "witness", lists |-> work[c].lists])

ForwardsRoot(c, root) ==
  Forwarding(UploadRoot(c, root), [type |-> "root", id |-> c, root |-> root])

Proposes(c) == Forwarding(MultiCastBlock(c), [type |-> "block"])

\* SendVote: a leader without a socket is at the peer, and a vote that reaches a
\* leader after it has posted its block is not in that block.
Voted(c) == Goes(c, "voted") /\ UNCHANGED <<vars, books, money>>

Votes(c) ==
  /\ At(c, "asked")
  /\ \/ /\ c \in Committee /\ work[Winner].step = "away"
        /\ Forwarding(Voted(c), [type |-> "vote", id |-> Winner])
     \/ /\ c \in Committee /\ work[Winner].step = "uploading"
        /\ Alone(Voted(c))
     \/ /\ c \in Committee => work[Winner].step \notin {"away", "uploading"}
        /\ Alone(SendVote(c))

\* AppendBlock forwards the block before it takes Source.Lock.
ForwardsBlock(c) ==
  /\ At(c, "proposed") /\ Winner = c
  /\ Forwarding(Goes(c, "uploading") /\ UNCHANGED <<vars, books, money>>,
                [type |-> "upload", id |-> c, block |-> work[c]])

FinishesUpload(c) ==
  /\ At(c, "uploading")
  /\ Alone(TakesBlock(work[c]) /\ Goes(c, "uploaded"))

-----------------------------------------------------------------------------
\* The reading goroutine ends with Source.Lock held, or the process does.
Dies == lockHeld' = TRUE /\ UNCHANGED <<round, NodeNum, assigned, groups,
                            Validation_Map, Winner, votes, books, money, work>>

\* Mutant: a forwarded client is added and the election left to its server.
AddsClientOnly(m) ==
  /\ client' = [client EXCEPT ![m.id] =
       [shard |-> m.shard, round |-> round, random |-> m.random]]
  /\ Consensus_Map' = [Consensus_Map EXCEPT ![m.shard] = round]
  /\ seat' = [seat EXCEPT ![m.id] = "exec"]
  /\ work' = [work EXCEPT ![m.id].step = "away"]
  /\ UNCHANGED <<round, NodeNum, assigned, Validation_Map, Winner, votes, lockHeld,
                 books, money>>

\* The loop that looks for the winner meets a nil entry.
ElectionPanics(s) ==
  /\ Cardinality(Entries(s, round)) + 1 = CLIENT_MAX
  /\ \E c \in Entries(s, round) : seat[c] = "nil"

\* Message 1.
AddsClient(m) ==
  IF ElectionPanics(m.shard) THEN Dies
  ELSE /\ Join(m.id, m.shard, m.random)
       /\ work' = [work EXCEPT ![m.id].step = "away"]
       /\ UNCHANGED <<assigned, books, money>>

\* Message 2: the committee members that are here get the block.
PassesBlock ==
  /\ work' = [c \in Client |->
       IF c \in Asked THEN [work[c] EXCEPT !.step = "asked"] ELSE work[c]]
  /\ UNCHANGED <<vars, books, money>>

\* Message 3.  A target that has no entry is a nil *Client.
PassesVote(m) ==
  IF m.id \in Committee
    THEN /\ work' = IF work[m.id].step \in {"away", "uploading"} THEN work
                    ELSE [work EXCEPT ![m.id].vote = @ + 1]
         /\ UNCHANGED <<vars, books, money>>
    ELSE Dies

\* Mutant: a forwarded slot is not counted.
IgnoresNode(m) == UNCHANGED <<vars, books, money, work>>

\* Message 4.
CountsNode(m) ==
  /\ NodeNum' = [NodeNum EXCEPT ![m.shard] = @ + 1]
  /\ UNCHANGED <<round, assigned, groups, Validation_Map, Winner, votes, lockHeld,
                 books, money, work>>

\* Mutant: the peer packs for the height it was sent.
PacksForHeightSent(m) ==
  /\ pool' = Books!Packed(m.stage, Shards, m.height)
  /\ UNCHANGED <<vars, height, chain, WitnessCount, money, work>>

\* Message 5: every stage for all shards and for the height after the one sent.
PacksToo(m) ==
  /\ pool' = Books!Packed(m.stage, Shards, m.height + 1)
  /\ UNCHANGED <<vars, height, chain, WitnessCount, money, work>>

\* Message 6: for a block that is not its leader's the goroutine returns before
\* it unlocks.
TakesBlockToo(m) ==
  IF m.id = Winner THEN TakesBlock(m.block) /\ UNCHANGED work ELSE Dies

\* Message 7.
CountsWitness(m) ==
  /\ Books!Witnessed(m.lists)
  /\ UNCHANGED <<vars, height, chain, money, work>>

\* Message 8.
TakesRootToo(m) == TakesRoot(m.id, m.root) /\ UNCHANGED work

\* The goroutine takes the next message.
Apply ==
  /\ inbox # <<>>
  /\ ~lockHeld
  /\ LET m == Head(inbox)
     IN  CASE m.type = "client"  -> AddsClient(m)
           [] m.type = "block"   -> PassesBlock
           [] m.type = "vote"    -> PassesVote(m)
           [] m.type = "NodeNum" -> CountsNode(m)
           [] m.type = "pack"    -> PacksToo(m)
           [] m.type = "upload"  -> TakesBlockToo(m)
           [] m.type = "witness" -> CountsWitness(m)
           [] m.type = "root"    -> TakesRootToo(m)
  /\ inbox' = Tail(inbox)
  /\ UNCHANGED <<linked, outbox>>

-----------------------------------------------------------------------------
RegistersInStep(s) ==
  /\ Validation_Map[s] # Nil \/ OwedRoots = {}
  /\ Registers(s, RandomOf[FreshId])

\* Requests of clients on the steady schedule of HorizonServer; a leader waits
\* for the votes its block needs, whichever server they come through.
Requests ==
  \/ \E s \in Shards : RegistersInStep(s)
  \/ \E c \in Client :
       \/ Packs(c)
       \/ (\A d \in OwedRoots : client[d].round >= client[c].round) /\ ForwardsWitness(c)
       \/ Alone(LeaderReadsHeight(c))
       \/ Alone(PackAccount(c))
       \/ Proposes(c)
       \/ Votes(c)
       \/ OwedRoots = {} /\ work[c].vote >= MinVote /\ ForwardsBlock(c)
       \/ \E root \in Root : ForwardsRoot(c, root)

Finishes == \E c \in Client : FinishesUpload(c)
=============================================================================
