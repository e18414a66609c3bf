----------------------------- MODULE PeersProofs -----------------------------
(***************************************************************************)
(* Theorems about two servers that get to sync, for any number of shards,  *)
(* clients and transactions and however many messages are on their way:    *)
(* they agree whenever nothing is, neither stops serving, and together     *)
(* they are one Membership with rounds in step.  The last part is about    *)
(* two servers that need not get to sync, before the first block.          *)
(***************************************************************************)
EXTENDS PeersJoining, PeerProofs

\* What is proved of one server, for the second.
Two == INSTANCE PeerProofs WITH
  round <- round2, NodeNum <- NodeNum2, assigned <- assigned2,
  client <- client2, seat <- seat2, Consensus_Map <- Consensus_Map2,
  Validation_Map <- Validation_Map2, Winner <- Winner2,
  NewRootsVote <- NewRootsVote2, RootsVote <- RootsVote2,
  lockHeld <- lockHeld2, pool <- pool2, height <- height2, chain <- chain2,
  WitnessCount <- WitnessCount2, AccountMap <- AccountMap2,
  NewAccountMap <- NewAccountMap2, Value <- Value2,
  StateRoot <- StateRoot2, work <- work2, linked <- linked2,
  inbox <- outbox, outbox <- inbox

\* It has the first one's constants, so what these must satisfy too.
LEMMA SecondAssumptions ==
  /\ Two!MembershipAssumption
  /\ Two!ServerAssumption
  /\ Two!PeerAssumption
BY MembershipAssumption, ServerAssumption, PeerAssumption
   DEF MembershipAssumption, ServerAssumption, PeerAssumption, Two!MembershipAssumption,
       Two!ServerAssumption, Two!PeerAssumption, IsInjective, Two!IsInjective,
       IsFiniteSet, Two!IsFiniteSet

-----------------------------------------------------------------------------
(***************************************************************************)
(* Two and Second are the same server.                                     *)
(***************************************************************************)
\* Operators on sets are defined from nothing else.
LEMMA SameSets ==
  /\ \A S : Second!Cardinality(S) = Two!Cardinality(S)
  /\ \A S : Two!Cardinality(S) = Cardinality(S)
  /\ \A S : Second!Max(S) = Two!Max(S)
  /\ \A S : Two!Max(S) = Max(S)
BY DEF Second!Cardinality, Two!Cardinality, Cardinality, Second!Max, Two!Max, Max

\* Shards, seats and empty votes are constants.
LEMMA SameShards ==
  /\ Second!Shards = Shards /\ Two!Shards = Shards
  /\ Second!Nil = Nil /\ Two!Nil = Nil
  /\ Second!Seats = Seats /\ Two!Seats = Seats
  /\ Second!NoVotes = NoVotes /\ Two!NoVotes = NoVotes
BY DEF Second!Shards, Shards, Two!Shards, Second!Nil, Nil, Two!Nil, Second!Seats, Seats,
   Two!Seats,
  Second!NoVotes, NoVotes, Two!NoVotes

\* Packing a stage.
LEMMA SamePacked ==
  \A stage, S, h : Second!Books!Packed(stage, S, h) = Two!Books!Packed(stage, S, h)
BY DEF Second!Books!Packed, Two!Books!Packed, Second!Books!PackTransactionList,
   Two!Books!PackTransactionList,
  Second!Books!Taken, Two!Books!Taken, Second!Books!Kinds, Two!Books!Kinds,
  Second!Books!Shards, Two!Books!Shards

\* Groups, the committee and the clients that owe a root.
LEMMA SameGroups ==
  /\ \A s, r : Second!Registered(s, r) = Two!Registered(s, r)
  /\ \A s, r : Second!Entries(s, r) = Two!Entries(s, r)
  /\ Second!Committee = Two!Committee
  /\ Second!OwedRoots = Two!OwedRoots
  /\ Second!FreshId = Two!FreshId
  /\ \A c : Second!IsValidator(c) <=> Two!IsValidator(c)
  /\ \A c : Second!Notified(c) <=> Two!Notified(c)
BY DEF Second!Registered, Two!Registered, Second!Entries, Two!Entries, Second!Committee,
       Two!Committee, Second!OwedRoots, Two!OwedRoots, Second!FreshId, Two!FreshId,
       Second!IsValidator, Two!IsValidator, Second!Notified, Two!Notified

\* A primed tuple needs a fact of its own.
LEMMA SameTuples ==
  /\ Second!vars = Two!vars /\ Second!vars' = Two!vars'
  /\ Second!books = Two!books /\ Second!books' = Two!books'
  /\ Second!money = Two!money /\ Second!money' = Two!money'
  /\ Second!serverVars = Two!serverVars /\ Second!serverVars' = Two!serverVars'
  /\ Second!links = Two!links /\ Second!links' = Two!links'
  /\ Second!groups = Two!groups /\ Second!groups' = Two!groups'
  /\ Second!votes = Two!votes /\ Second!votes' = Two!votes'
BY DEF Second!vars, Two!vars, Second!books, Two!books, Second!money, Two!money,
       Second!serverVars, Two!serverVars, Second!links, Two!links, Second!groups,
       Two!groups, Second!votes, Two!votes

\* Asking for a shard and registering.
LEMMA SameJoin ==
  /\ \A C, f, m : Second!SmallestRandom(C, f, m) = Two!SmallestRandom(C, f, m)
  /\ \A s : Second!ShardFills(s) <=> Two!ShardFills(s)
  /\ \A s, w, C : Second!Elect(s, w, C) <=> Two!Elect(s, w, C)
  /\ \A c, s, x : Second!Join(c, s, x) <=> Two!Join(c, s, x)
  /\ \A s, x : Second!RegisterCommunication(s, x) <=> Two!RegisterCommunication(s, x)
  /\ Second!AssignShardNum <=> Two!AssignShardNum
<1>1. \A C, f, m : Second!SmallestRandom(C, f, m) = Two!SmallestRandom(C, f, m)
  BY DEF Second!SmallestRandom, Two!SmallestRandom
<1>2. \A s : Second!ShardFills(s) <=> Two!ShardFills(s)
  BY SameSets, SameGroups, SameTuples DEF Second!ShardFills, Two!ShardFills
<1>3. \A s, w, C : Second!Elect(s, w, C) <=> Two!Elect(s, w, C)
  BY SameSets, SameGroups, SameTuples, <1>1 DEF Second!Elect, Two!Elect, Second!Nil,
     Two!Nil
<1>4. ASSUME NEW c, NEW s, NEW x
      PROVE  Second!Join(c, s, x) <=> Two!Join(c, s, x)
  <2> DEFINE C == [client2 EXCEPT ![c] = [shard |-> s, round |-> round2, random |-> x]]
             J(fills, S, Elects(_)) ==
               /\ client2' = C
               /\ Consensus_Map2' = [Consensus_Map2 EXCEPT ![s] = round2]
               /\ \/ /\ ~fills
                     /\ seat2' = [seat2 EXCEPT ![c] = "exec"]
                     /\ UNCHANGED <<Validation_Map2, Winner2>>
                  \/ /\ fills
                     /\ \E w \in S :
                          /\ seat2' = [seat2 EXCEPT ![c] = "exec", ![w] = "committee"]
                          /\ Elects(w)
               /\ UNCHANGED <<round2, NodeNum2, Second!votes, lockHeld2>>
  <2>1. Second!Join(c, s, x) <=>
          J(Second!ShardFills(s), Second!SmallestRandom(C, c, Second!Entries(s, round2) \cup {c}),
            LAMBDA w : Second!Elect(s, w, C))
    BY DEF Second!Join
  <2>2. Two!Join(c, s, x) <=>
          J(Two!ShardFills(s), Two!SmallestRandom(C, c, Two!Entries(s, round2) \cup {c}),
            LAMBDA w : Two!Elect(s, w, C))
    BY SameTuples DEF Two!Join
  <2> HIDE DEF C
  <2>3. Second!SmallestRandom(C, c, Second!Entries(s, round2) \cup {c}) =
        Two!SmallestRandom(C, c, Two!Entries(s, round2) \cup {c})
    BY <1>1, SameGroups
  <2>4. \A w : Second!Elect(s, w, C) <=> Two!Elect(s, w, C)
    BY <1>3
  <2>5. Second!ShardFills(s) <=> Two!ShardFills(s)
    BY <1>2
  <2> QED BY <2>1, <2>2, <2>3, <2>4, <2>5
<1>5. \A s, x : Second!RegisterCommunication(s, x) <=> Two!RegisterCommunication(s, x)
  BY SameGroups, SameTuples, <1>4 DEF Second!RegisterCommunication,
     Two!RegisterCommunication
<1>6. Second!AssignShardNum <=> Two!AssignShardNum
  BY SameShards DEF Second!AssignShardNum, Two!AssignShardNum, Second!groups, Two!groups,
     Second!votes, Two!votes
<1> QED BY <1>1, <1>2, <1>3, <1>4, <1>5, <1>6

\* Reporting a root.
LEMMA SameRoot ==
  /\ \A c, root : Second!CountedVotes(c, root) = Two!CountedVotes(c, root)
  /\ \A c : Second!ShardDone(c) <=> Two!ShardDone(c)
  /\ \A c : Second!StageDone(c) <=> Two!StageDone(c)
  /\ \A c : Second!Restarted(c) <=> Two!Restarted(c)
  /\ \A c, root : Second!CollectRoot(c, root) <=> Two!CollectRoot(c, root)
  /\ \A c, root : Second!CollectRootPanics(c, root) <=> Two!CollectRootPanics(c, root)
  /\ \A c, root : Second!TakesRoot(c, root) <=> Two!TakesRoot(c, root)
<1>1. \A c, root : Second!CountedVotes(c, root) = Two!CountedVotes(c, root)
  BY DEF Second!CountedVotes, Two!CountedVotes
<1>2. \A c : Second!ShardDone(c) <=> Two!ShardDone(c)
  BY SameGroups, SameTuples DEF Second!ShardDone, Two!ShardDone
<1>3. \A c : Second!StageDone(c) <=> Two!StageDone(c)
  BY SameShards, <1>2 DEF Second!StageDone, Two!StageDone
<1>4. \A c : Second!Restarted(c) <=> Two!Restarted(c)
  BY <1>3 DEF Second!Restarted, Two!Restarted
<1>5. \A c, root : Second!CollectRoot(c, root) <=> Two!CollectRoot(c, root)
  BY SameShards, SameGroups, SameTuples, <1>1, <1>2, <1>3 DEF Second!CollectRoot,
     Two!CollectRoot
<1>6. \A c, root : Second!CollectRootPanics(c, root) <=> Two!CollectRootPanics(c, root)
  BY SameGroups, SameTuples, <1>1 DEF Second!CollectRootPanics, Two!CollectRootPanics,
     Second!groups, Two!groups
<1>7. \A c, root : Second!TakesRoot(c, root) <=> Two!TakesRoot(c, root)
  BY SameGroups, SameTuples, <1>4, <1>5, <1>6 DEF Second!TakesRoot, Two!TakesRoot
<1> QED BY <1>1, <1>2, <1>3, <1>4, <1>5, <1>6, <1>7

\* The votes a block and a witness need.
LEMMA SameMinVote ==
  /\ Second!MinVote = Two!MinVote
  /\ Two!MinVote = MinVote
BY SameSets
   DEF Second!MinVote, Two!MinVote, MinVote

\* Counting a witness.
LEMMA SameWitnessed ==
  \A lists : Second!Books!Witnessed(lists) <=> Two!Books!Witnessed(lists)
BY SameMinVote
   DEF Second!Books!Witnessed, Two!Books!Witnessed, Second!Books!Sent, Two!Books!Sent,
       Second!Books!Appended, Two!Books!Appended, Second!Books!Kinds, Two!Books!Kinds,
       Second!Books!Shards, Two!Books!Shards

\* Relays and the chain of a block.
LEMMA SameBooks ==
  \A h, vote, lists : Second!Books!Block(h, vote, lists) <=> Two!Books!Block(h, vote, lists)
BY SameMinVote
   DEF Second!Books!Block, Two!Books!Block, Second!Books!Accept, Two!Books!Accept,
       Second!Books!Refuse, Two!Books!Refuse, Second!Books!Sent, Two!Books!Sent,
       Second!Books!Appended, Two!Books!Appended, Second!Books!Kinds, Two!Books!Kinds,
       Second!Books!Shards, Two!Books!Shards, Second!Books!AllButLast,
       Two!Books!AllButLast, Second!Books!RelaysOf, Two!Books!RelaysOf,
       Second!Books!Origin, Two!Books!Origin, Second!Books!Empty, Two!Books!Empty

\* The sum of a function.
LEMMA SameSum ==
  \A f : Second!Books!SumOf(f) = Two!Books!SumOf(f)
BY DEF Second!Books!SumOf, Two!Books!SumOf, Second!Books!MapThenSumSet,
       Two!Books!MapThenSumSet, Second!Books!MapThenFoldSet, Two!Books!MapThenFoldSet

\* The accounts a block changes.
LEMMA SameBooked ==
  \A v, lists : Second!Books!Booked(v, lists) <=> Two!Books!Booked(v, lists)
BY SameSum, SameMinVote
   DEF Second!Books!Booked, Two!Books!Booked, Second!Books!ledger, Two!Books!ledger,
       Second!Books!UpdateChainWithBlock, Two!Books!UpdateChainWithBlock,
       Second!Books!Verified, Two!Books!Verified, Second!Books!UpdateChain,
       Two!Books!UpdateChain, Second!Books!Struct, Two!Books!Struct,
       Second!Books!Address, Two!Books!Address, Second!Books!Gain, Two!Books!Gain,
       Second!Books!Shards, Two!Books!Shards

\* Taking a block.
LEMMA SameBlock ==
  \A w : Second!TakesBlock(w) <=> Two!TakesBlock(w)
BY SameTuples, SameBooks, SameBooked
   DEF Second!TakesBlock, Two!TakesBlock, Second!AppendBlock, Two!AppendBlock,
       Second!votes, Two!votes, Second!Shards, Two!Shards, Second!Nil, Two!Nil

\* The handlers of executors, and packing by the leader.
LEMMA SameHandlers ==
  /\ \A c, step : Second!At(c, step) <=> Two!At(c, step)
  /\ \A c, step : Second!Goes(c, step) <=> Two!Goes(c, step)
  /\ \A P, stage : Second!Books!ListsOf(P, stage) = Two!Books!ListsOf(P, stage)
  /\ \A c : Second!ExecutorPacks(c) <=> Two!ExecutorPacks(c)
  /\ \A c : Second!WitnessTx(c) <=> Two!WitnessTx(c)
  /\ \A c : Second!LeaderPacks(c) <=> Two!LeaderPacks(c)
  /\ \A c : Second!LeaderReadsHeight(c) <=> Two!LeaderReadsHeight(c)
  /\ \A c : Second!PackValidTx(c) <=> Two!PackValidTx(c)
  /\ \A c, root : Second!UploadRoot(c, root) <=> Two!UploadRoot(c, root)
<1>1. \A c, step : Second!At(c, step) <=> Two!At(c, step)
  BY DEF Second!At, Two!At
<1>2. \A c, step : Second!Goes(c, step) <=> Two!Goes(c, step)
  BY DEF Second!Goes, Two!Goes
<1>3. \A P, stage : Second!Books!ListsOf(P, stage) = Two!Books!ListsOf(P, stage)
  BY DEF Second!Books!ListsOf, Two!Books!ListsOf, Second!Books!Shards, Two!Books!Shards
<1>4. \A c : Second!ExecutorPacks(c) <=> Two!ExecutorPacks(c)
  BY <1>1, <1>2, <1>3, SameShards, SameGroups, SameTuples, SamePacked DEF
     Second!ExecutorPacks, Two!ExecutorPacks
<1>5. \A c : Second!WitnessTx(c) <=> Two!WitnessTx(c)
  BY <1>1, <1>2, SameGroups, SameTuples, SameWitnessed DEF Second!WitnessTx, Two!WitnessTx
<1>6. \A c : Second!LeaderPacks(c) <=> Two!LeaderPacks(c)
  BY <1>1, <1>3, SameShards, SameGroups, SameTuples, SamePacked DEF Second!LeaderPacks,
     Two!LeaderPacks
<1>7. \A c : Second!LeaderReadsHeight(c) <=> Two!LeaderReadsHeight(c)
  BY SameGroups, SameTuples DEF Second!LeaderReadsHeight, Two!LeaderReadsHeight
<1>8. \A c : Second!PackValidTx(c) <=> Two!PackValidTx(c)
  BY <1>1, <1>2, SameGroups, SameTuples, SamePacked DEF Second!PackValidTx,
     Two!PackValidTx, Second!Books!AllButLast, Two!Books!AllButLast
<1>9. \A c, root : Second!UploadRoot(c, root) <=> Two!UploadRoot(c, root)
  BY <1>1, <1>2, SameRoot DEF Second!UploadRoot, Two!UploadRoot
<1> QED BY <1>1, <1>2, <1>3, <1>4, <1>5, <1>6, <1>7, <1>8, <1>9

\* The other handlers of leaders and committees.
LEMMA SameLeader ==
  /\ Second!VotesAnswered = Two!VotesAnswered
  /\ \A c : Second!PackAccount(c) <=> Two!PackAccount(c)
  /\ Second!Asked = Two!Asked
  /\ \A c : Second!MultiCastBlock(c) <=> Two!MultiCastBlock(c)
  /\ \A c : Second!SendVote(c) <=> Two!SendVote(c)
<1>1. Second!VotesAnswered = Two!VotesAnswered
  BY SameSets, SameShards DEF Second!VotesAnswered, Two!VotesAnswered
<1>2. \A c : Second!PackAccount(c) <=> Two!PackAccount(c)
  BY SameHandlers, SameGroups, SameTuples, <1>1 DEF Second!PackAccount, Two!PackAccount
<1>3. Second!Asked = Two!Asked
  BY SameGroups, SameTuples DEF Second!Asked, Two!Asked
<1>4. \A c : Second!MultiCastBlock(c) <=> Two!MultiCastBlock(c)
  BY SameHandlers, SameGroups, SameTuples, <1>3 DEF Second!MultiCastBlock,
     Two!MultiCastBlock
<1>5. \A c : Second!SendVote(c) <=> Two!SendVote(c)
  BY SameHandlers, SameGroups, SameTuples DEF Second!SendVote, Two!SendVote
<1> QED BY <1>1, <1>2, <1>3, <1>4, <1>5

\* The handlers with the messages they write.
LEMMA SameRequests ==
  /\ \A c : Second!Packs(c) <=> Two!Packs(c)
  /\ \A c : Second!ForwardsWitness(c) <=> Two!ForwardsWitness(c)
  /\ \A c, root : Second!ForwardsRoot(c, root) <=> Two!ForwardsRoot(c, root)
  /\ \A c : Second!Proposes(c) <=> Two!Proposes(c)
  /\ \A c : Second!Voted(c) <=> Two!Voted(c)
  /\ \A c : Second!Votes(c) <=> Two!Votes(c)
  /\ \A c : Second!ForwardsBlock(c) <=> Two!ForwardsBlock(c)
  /\ \A s : Second!RegistersInStep(s) <=> Two!RegistersInStep(s)
  /\ Second!Assigns <=> Two!Assigns
  /\ Second!AcceptsPeer <=> Two!AcceptsPeer
  /\ Second!Requests <=> Two!Requests
<1>1. \A c : Second!Packs(c) <=> Two!Packs(c)
  BY SameHandlers DEF Second!Packs, Two!Packs, Second!Forwarding, Two!Forwarding
<1>2. \A c : Second!ForwardsWitness(c) <=> Two!ForwardsWitness(c)
  BY SameHandlers DEF Second!ForwardsWitness, Two!ForwardsWitness, Second!Forwarding,
     Two!Forwarding
<1>3. \A c, root : Second!ForwardsRoot(c, root) <=> Two!ForwardsRoot(c, root)
  BY SameHandlers DEF Second!ForwardsRoot, Two!ForwardsRoot, Second!Forwarding,
     Two!Forwarding
<1>4. \A c : Second!Proposes(c) <=> Two!Proposes(c)
  BY SameLeader DEF Second!Proposes, Two!Proposes, Second!Forwarding, Two!Forwarding
<1>5. \A c : Second!Voted(c) <=> Two!Voted(c)
  BY SameHandlers, SameGroups, SameTuples DEF Second!Voted, Two!Voted
<1>6. \A c : Second!Votes(c) <=> Two!Votes(c)
  BY SameHandlers, SameLeader, SameGroups, SameTuples, <1>5 DEF Second!Votes, Two!Votes,
     Second!Forwarding, Two!Forwarding, Second!Alone, Two!Alone
<1>7. \A c : Second!ForwardsBlock(c) <=> Two!ForwardsBlock(c)
  BY SameHandlers, SameGroups, SameTuples DEF Second!ForwardsBlock, Two!ForwardsBlock,
     Second!Forwarding, Two!Forwarding
<1>8. \A s : Second!RegistersInStep(s) <=> Two!RegistersInStep(s)
  BY SameShards, SameGroups, SameTuples, SameJoin DEF Second!RegistersInStep,
     Two!RegistersInStep, Second!Registers, Two!Registers, Second!Forwarding,
     Two!Forwarding, Second!OnlyJoins, Two!OnlyJoins
<1>9. Second!Assigns <=> Two!Assigns
  BY SameShards, SameGroups, SameTuples, SameJoin DEF Second!Assigns, Two!Assigns,
     Second!Forwarding, Two!Forwarding, Second!OnlyJoins, Two!OnlyJoins
<1>10. Second!AcceptsPeer <=> Two!AcceptsPeer
  BY SameGroups, SameTuples DEF Second!AcceptsPeer, Two!AcceptsPeer
<1>11. Second!Requests <=> Two!Requests
  BY SameShards, SameGroups, SameTuples, SameMinVote, SameHandlers, SameLeader, <1>1, <1>2,
     <1>3, <1>4, <1>6, <1>7, <1>8 DEF
     Second!Requests, Two!Requests, Second!Alone, Two!Alone
<1> QED BY <1>1, <1>2, <1>3, <1>4, <1>5, <1>6, <1>7, <1>8, <1>9, <1>10, <1>11

\* The second half of an upload.
LEMMA SameFinish ==
  \A c : Second!FinishesUpload(c) <=> Two!FinishesUpload(c)
BY SameHandlers, SameGroups, SameTuples, SameBlock
   DEF Second!FinishesUpload, Two!FinishesUpload, Second!Alone, Two!Alone

\* What the reading goroutine does.
LEMMA SameApply ==
  /\ Second!Dies <=> Two!Dies
  /\ \A m : Second!AddsClient(m) <=> Two!AddsClient(m)
  /\ Second!PassesBlock <=> Two!PassesBlock
  /\ \A m : Second!PassesVote(m) <=> Two!PassesVote(m)
  /\ \A m : Second!CountsNode(m) <=> Two!CountsNode(m)
  /\ \A m : Second!PacksToo(m) <=> Two!PacksToo(m)
  /\ \A m : Second!TakesBlockToo(m) <=> Two!TakesBlockToo(m)
  /\ \A m : Second!CountsWitness(m) <=> Two!CountsWitness(m)
  /\ \A m : Second!TakesRootToo(m) <=> Two!TakesRootToo(m)
  /\ Second!Apply <=> Two!Apply
<1>1. Second!Dies <=> Two!Dies
  BY SameTuples, SameTuples DEF Second!Dies, Two!Dies, Second!groups, Two!groups,
     Second!votes, Two!votes
<1>2. \A m : Second!AddsClient(m) <=> Two!AddsClient(m)
  BY <1>1, SameSets, SameGroups, SameTuples, SameJoin DEF Second!AddsClient,
     Two!AddsClient, Second!ElectionPanics, Two!ElectionPanics
<1>3. Second!PassesBlock <=> Two!PassesBlock
  BY SameLeader, SameGroups, SameTuples DEF Second!PassesBlock, Two!PassesBlock
<1>4. \A m : Second!PassesVote(m) <=> Two!PassesVote(m)
  BY <1>1, SameGroups, SameTuples DEF Second!PassesVote, Two!PassesVote
<1>5. \A m : Second!CountsNode(m) <=> Two!CountsNode(m)
  BY SameGroups, SameTuples DEF Second!CountsNode, Two!CountsNode, Second!groups,
     Two!groups, Second!votes, Two!votes
<1>6. \A m : Second!PacksToo(m) <=> Two!PacksToo(m)
  BY SameGroups, SameTuples, SameShards, SamePacked DEF Second!PacksToo, Two!PacksToo
<1>7. \A m : Second!TakesBlockToo(m) <=> Two!TakesBlockToo(m)
  BY <1>1, SameBlock DEF Second!TakesBlockToo, Two!TakesBlockToo
<1>8. \A m : Second!CountsWitness(m) <=> Two!CountsWitness(m)
  BY SameTuples, SameWitnessed DEF Second!CountsWitness, Two!CountsWitness
<1>9. \A m : Second!TakesRootToo(m) <=> Two!TakesRootToo(m)
  BY SameRoot DEF Second!TakesRootToo, Two!TakesRootToo
<1>10. Second!Apply <=> Two!Apply
  BY <1>2, <1>3, <1>4, <1>5, <1>6, <1>7, <1>8, <1>9 DEF Second!Apply, Two!Apply
<1> QED BY <1>1, <1>2, <1>3, <1>4, <1>5, <1>6, <1>7, <1>8, <1>9, <1>10

\* The initial state.
LEMMA SameInit ==
  /\ Second!Init <=> Two!Init
  /\ Second!NoWork = Two!NoWork
  /\ Second!Rounds = Two!Rounds
  /\ \A S : Second!SetToSeq(S) = Two!SetToSeq(S)
  /\ \A r, e : Second!ExecutorAt(r, e) = Two!ExecutorAt(r, e)
  /\ Second!ExecOf = Two!ExecOf
  /\ Second!LeaderOf = Two!LeaderOf
  /\ Second!Books!Nothing = Two!Books!Nothing
  /\ Second!Books!Initially = Two!Books!Initially
  /\ Second!Books!MakePool = Two!Books!MakePool
  /\ Second!Books!NoLists = Two!Books!NoLists
  /\ Second!Seat = Two!Seat
  /\ Second!Books!Init <=> Two!Books!Init
  /\ Second!Books!LedgerInit <=> Two!Books!LedgerInit
  /\ Second!HorizonInit <=> Two!HorizonInit
  /\ Second!PeerInit <=> Two!PeerInit
<1>1. Second!Init <=> Two!Init
  BY SameShards DEF Second!Init, Two!Init
<1>2. Second!NoWork = Two!NoWork
  BY SameShards DEF Second!NoWork, Two!NoWork, Second!Empty, Two!Empty, Second!Kinds,
     Two!Kinds
<1>3. Second!Rounds = Two!Rounds
  BY SameSets DEF Second!Rounds, Two!Rounds
<1>4. \A S : Second!SetToSeq(S) = Two!SetToSeq(S)
  BY SameSets DEF Second!SetToSeq, Two!SetToSeq, Second!IsInjective, Two!IsInjective
<1>5. \A r, e : Second!ExecutorAt(r, e) = Two!ExecutorAt(r, e)
  BY SameGroups, <1>4, <1>2 DEF Second!ExecutorAt, Two!ExecutorAt
<1>6. Second!ExecOf = Two!ExecOf
  BY <1>5, <1>3 DEF Second!ExecOf, Two!ExecOf, Second!Held, Two!Held, Second!Seat,
     Two!Seat, Second!Shards, Two!Shards
<1>7. Second!LeaderOf = Two!LeaderOf
  BY <1>2 DEF Second!LeaderOf, Two!LeaderOf, Second!Held, Two!Held
<1>8. Second!Books!Nothing = Two!Books!Nothing
  BY DEF Second!Books!Nothing, Two!Books!Nothing, Second!Books!NoLists,
     Two!Books!NoLists, Second!Books!Empty, Two!Books!Empty, Second!Books!Kinds,
     Two!Books!Kinds, Second!Books!Shards, Two!Books!Shards
<1>9. Second!Books!Initially = Two!Books!Initially
  BY DEF Second!Books!Initially, Two!Books!Initially, Second!Books!Kinds,
     Two!Books!Kinds, Second!Books!Made, Two!Books!Made, Second!Books!Shards,
     Two!Books!Shards
<1>10. Second!Books!MakePool = Two!Books!MakePool
  BY DEF Second!Books!MakePool, Two!Books!MakePool, Second!Books!Empty, Two!Books!Empty,
     Second!Books!Kinds, Two!Books!Kinds
<1>11. Second!Books!NoLists = Two!Books!NoLists
  BY DEF Second!Books!NoLists, Two!Books!NoLists, Second!Books!Empty, Two!Books!Empty,
     Second!Books!Kinds, Two!Books!Kinds, Second!Books!Shards, Two!Books!Shards
<1>12. Second!Seat = Two!Seat
  BY SameShards DEF Second!Seat, Two!Seat
<1>13. Second!Books!Init <=> Two!Books!Init
  BY SameSets, <1>10, <1>11, <1>12, <1>3, <1>6, <1>7, <1>8, <1>9 DEF Second!Books!Init,
     Two!Books!Init, Second!Books!Stages, Two!Books!Stages, Second!Books!Shards,
     Two!Books!Shards
<1>14. Second!Books!LedgerInit <=> Two!Books!LedgerInit
  BY <1>13 DEF Second!Books!LedgerInit, Two!Books!LedgerInit, Second!Books!Accounts,
     Two!Books!Accounts, Second!Books!Struct, Two!Books!Struct, Second!Books!Address,
     Two!Books!Address, Second!Books!Shards, Two!Books!Shards
<1>15. Second!HorizonInit <=> Two!HorizonInit
  BY <1>1, <1>2, <1>14 DEF Second!HorizonInit, Two!HorizonInit
<1>16. Second!PeerInit <=> Two!PeerInit
  BY <1>15 DEF Second!PeerInit, Two!PeerInit
<1> QED BY <1>1, <1>2, <1>3, <1>4, <1>5, <1>6, <1>7, <1>8, <1>9, <1>10, <1>11, <1>12, <1>13,
       <1>14, <1>15, <1>16

\* Transactions and accounts of the second server's model are the first one's.
LEMMA SameBookkeeping ==
  /\ Two!Books!Kinds = Books!Kinds
  /\ \A p, h, n : Two!Books!PackTransactionList(p, h, n) = Books!PackTransactionList(p, h, n)
  /\ \A p, lists : Two!Books!Appended(p, lists) = Books!Appended(p, lists)
  /\ \A f : Two!Books!SumOf(f) = Books!SumOf(f)
  /\ \A lists, d : Two!Books!Gain(lists, d) = Books!Gain(lists, d)
  /\ Two!Books!Address = Books!Address
  /\ Two!Books!Struct = Books!Struct
  /\ \A lists : Two!Books!RelaysOf(lists) = Books!RelaysOf(lists)
<1>1. Two!Books!Kinds = Books!Kinds
  BY DEF Two!Books!Kinds, Books!Kinds
<1>2. \A p, h, n : Two!Books!PackTransactionList(p, h, n) = Books!PackTransactionList(p, h, n)
  BY <1>1 DEF Two!Books!PackTransactionList, Books!PackTransactionList, Two!Books!Taken,
     Books!Taken
<1>3. \A p, lists : Two!Books!Appended(p, lists) = Books!Appended(p, lists)
  BY <1>1 DEF Two!Books!Appended, Books!Appended
<1>4. \A f : Two!Books!SumOf(f) = Books!SumOf(f)
  BY DEF Two!Books!SumOf, Books!SumOf, Two!Books!MapThenSumSet, Books!MapThenSumSet,
     Two!Books!MapThenFoldSet, Books!MapThenFoldSet
<1>5. \A lists, d : Two!Books!Gain(lists, d) = Books!Gain(lists, d)
  BY DEF Two!Books!Gain, Books!Gain
<1>6. Two!Books!Address = Books!Address
  BY DEF Two!Books!Address, Books!Address
<1>7. Two!Books!Struct = Books!Struct
  BY <1>6 DEF Two!Books!Struct, Books!Struct, Two!Books!Shards, Books!Shards
<1>8. \A lists : Two!Books!RelaysOf(lists) = Books!RelaysOf(lists)
  BY <1>1 DEF Two!Books!RelaysOf, Books!RelaysOf, Two!Books!Shards, Books!Shards,
     Two!Books!Empty, Books!Empty, Two!Books!Origin, Books!Origin
<1> QED BY <1>1, <1>2, <1>3, <1>4, <1>5, <1>6, <1>7, <1>8

\* So is what a message does to pools, chain and accounts,
LEMMA SameMaps ==
  /\ \A p, h : Two!PackedFor(p, h) = PackedFor(p, h)
  /\ \A p, lists : Two!SentTo(p, lists) = SentTo(p, lists)
  /\ \A ch, lists : Two!ChainWith(ch, lists) = ChainWith(ch, lists)
  /\ \A old, new, v : Two!MapsWith(old, new, v) = MapsWith(old, new, v)
  /\ \A value, maps, lists : Two!ValuesWith(value, maps, lists) = ValuesWith(value, maps, lists)
  /\ Two!NoNodes = NoNodes
  /\ Two!NoSlots = NoSlots
<1>1. \A p, h : Two!PackedFor(p, h) = PackedFor(p, h)
  BY SameShards, SameBookkeeping DEF Two!PackedFor, PackedFor
<1>2. \A p, lists : Two!SentTo(p, lists) = SentTo(p, lists)
  BY SameShards, SameBookkeeping DEF Two!SentTo, SentTo
<1>3. \A ch, lists : Two!ChainWith(ch, lists) = ChainWith(ch, lists)
  BY SameShards, SameBookkeeping DEF Two!ChainWith, ChainWith
<1>4. \A old, new, v : Two!MapsWith(old, new, v) = MapsWith(old, new, v)
  BY SameShards, SameMinVote DEF Two!MapsWith, MapsWith
<1>5. \A value, maps, lists : Two!ValuesWith(value, maps, lists) = ValuesWith(value, maps, lists)
  BY SameBookkeeping DEF Two!ValuesWith, ValuesWith
<1>6. Two!NoNodes = NoNodes
  BY SameShards DEF Two!NoNodes, NoNodes
<1>7. Two!NoSlots = NoSlots
  BY SameShards DEF Two!NoSlots, NoSlots
<1> QED BY <1>1, <1>2, <1>3, <1>4, <1>5, <1>6, <1>7

\* the groups of a shared state and its next leader,
LEMMA SameGroupsAt ==
  /\ \A a, s, r : Two!RegisteredAt(a, s, r) = RegisteredAt(a, s, r)
  /\ \A a, s, r : Two!EntriesAt(a, s, r) = EntriesAt(a, s, r)
  /\ \A a : Two!CommitteeAt(a) = CommitteeAt(a)
  /\ \A a : Two!OwedAt(a) = OwedAt(a)
  /\ \A C, M : Two!Smallest(C, M) = Smallest(C, M)
  /\ \A C, M : Two!Least(C, M) = Least(C, M)
  /\ \A a, c, s, x : Two!NewClient(a, c, s, x) = NewClient(a, c, s, x)
  /\ \A a, c, s : Two!Group(a, c, s) = Group(a, c, s)
  /\ \A a, s : Two!Fills(a, s) <=> Fills(a, s)
  /\ \A a, c, s, x : Two!Chosen(a, c, s, x) = Chosen(a, c, s, x)
  /\ \A a, c, s, x : Two!Members(a, c, s, x) = Members(a, c, s, x)
<1>1. \A a, s, r : Two!RegisteredAt(a, s, r) = RegisteredAt(a, s, r)
  BY DEF Two!RegisteredAt, RegisteredAt
<1>2. \A a, s, r : Two!EntriesAt(a, s, r) = EntriesAt(a, s, r)
  BY <1>1 DEF Two!EntriesAt, EntriesAt
<1>3. \A a : Two!CommitteeAt(a) = CommitteeAt(a)
  BY DEF Two!CommitteeAt, CommitteeAt
<1>4. \A a : Two!OwedAt(a) = OwedAt(a)
  BY DEF Two!OwedAt, OwedAt
<1>5. \A C, M : Two!Smallest(C, M) = Smallest(C, M)
  BY DEF Two!Smallest, Smallest
<1>6. \A C, M : Two!Least(C, M) = Least(C, M)
  BY <1>5 DEF Two!Least, Least
<1>7. \A a, c, s, x : Two!NewClient(a, c, s, x) = NewClient(a, c, s, x)
  BY DEF Two!NewClient, NewClient
<1>8. \A a, c, s : Two!Group(a, c, s) = Group(a, c, s)
  BY <1>2 DEF Two!Group, Group
<1>9. \A a, s : Two!Fills(a, s) <=> Fills(a, s)
  BY <1>2, SameSets DEF Two!Fills, Fills
<1>10. \A a, c, s, x : Two!Chosen(a, c, s, x) = Chosen(a, c, s, x)
  BY <1>6, <1>7, <1>8 DEF Two!Chosen, Chosen
<1>11. \A a, c, s, x : Two!Members(a, c, s, x) = Members(a, c, s, x)
  BY <1>3, <1>10 DEF Two!Members, Members
<1> QED BY <1>1, <1>2, <1>3, <1>4, <1>5, <1>6, <1>7, <1>8, <1>9, <1>10, <1>11

\* the effect of every message on a shared state,
LEMMA SameEffects ==
  /\ \A a, c, s, x : Two!Joined(a, c, s, x) = Joined(a, c, s, x)
  /\ \A a, c, root : Two!Counted(a, c, root) = Counted(a, c, root)
  /\ \A a, c : Two!Empties(a, c) <=> Empties(a, c)
  /\ \A a, c : Two!EndsStage(a, c) <=> EndsStage(a, c)
  /\ \A a, c, root : Two!Reported(a, c, root) = Reported(a, c, root)
  /\ \A a, lists : Two!Recorded(a, lists) = Recorded(a, lists)
  /\ \A a, b : Two!Chained(a, b) = Chained(a, b)
  /\ \A m, a : Two!After(m, a) = After(m, a)
<1>1. ASSUME NEW a, NEW c, NEW s, NEW x
      PROVE  Two!Joined(a, c, s, x) = Joined(a, c, s, x)
  <2>1. /\ Two!NewClient(a, c, s, x) = NewClient(a, c, s, x)
        /\ Two!Fills(a, s) <=> Fills(a, s)
        /\ Two!Chosen(a, c, s, x) = Chosen(a, c, s, x)
        /\ Two!Members(a, c, s, x) = Members(a, c, s, x)
        /\ Two!Cardinality(Members(a, c, s, x)) = Cardinality(Members(a, c, s, x))
        /\ Two!Least(NewClient(a, c, s, x), Members(a, c, s, x)) =
           Least(NewClient(a, c, s, x), Members(a, c, s, x))
        /\ Two!Nil = Nil
    BY SameShards, SameSets, SameGroupsAt
  <2>2. /\ (IF Two!Fills(a, s)
               THEN [a.seat EXCEPT ![c] = "exec", ![Two!Chosen(a, c, s, x)] = "committee"]
               ELSE [a.seat EXCEPT ![c] = "exec"]) =
           (IF Fills(a, s)
               THEN [a.seat EXCEPT ![c] = "exec", ![Chosen(a, c, s, x)] = "committee"]
               ELSE [a.seat EXCEPT ![c] = "exec"])
        /\ (IF Two!Fills(a, s)
               THEN [a.Validation_Map EXCEPT ![s] = IF @ = Two!Nil THEN a.round ELSE @]
               ELSE a.Validation_Map) =
           (IF Fills(a, s)
               THEN [a.Validation_Map EXCEPT ![s] = IF @ = Nil THEN a.round ELSE @]
               ELSE a.Validation_Map)
        /\ (IF Two!Fills(a, s) /\ Two!Cardinality(Two!Members(a, c, s, x)) = ShardNum
               THEN Two!Least(Two!NewClient(a, c, s, x), Two!Members(a, c, s, x))
               ELSE a.Winner) =
           (IF Fills(a, s) /\ Cardinality(Members(a, c, s, x)) = ShardNum
               THEN Least(NewClient(a, c, s, x), Members(a, c, s, x))
               ELSE a.Winner)
    BY <2>1
  <2> QED BY <2>1, <2>2, Zenon DEF Two!Joined, Joined
<1>2. \A a, c, root : Two!Counted(a, c, root) = Counted(a, c, root)
  BY DEF Two!Counted, Counted
<1>3. \A a, c : Two!Empties(a, c) <=> Empties(a, c)
  BY SameGroupsAt DEF Two!Empties, Empties
<1>4. \A a, c : Two!EndsStage(a, c) <=> EndsStage(a, c)
  BY SameShards, <1>3 DEF Two!EndsStage, EndsStage
<1>5. ASSUME NEW a, NEW c, NEW root
      PROVE  Two!Reported(a, c, root) = Reported(a, c, root)
  <2>1. /\ Two!Counted(a, c, root) = Counted(a, c, root)
        /\ Two!Empties(a, c) <=> Empties(a, c)
        /\ Two!EndsStage(a, c) <=> EndsStage(a, c)
        /\ Two!Nil = Nil /\ Two!Shards = Shards /\ Two!NoVotes = NoVotes
    BY SameShards, <1>2, <1>3, <1>4
  <2>2. /\ (IF Two!EndsStage(a, c) THEN a.Consensus_Map
            ELSE IF Two!Empties(a, c)
              THEN [a.Validation_Map EXCEPT ![a.client[c].shard] = Two!Nil]
            ELSE a.Validation_Map) =
           (IF EndsStage(a, c) THEN a.Consensus_Map
            ELSE IF Empties(a, c) THEN [a.Validation_Map EXCEPT ![a.client[c].shard] = Nil]
            ELSE a.Validation_Map)
        /\ (IF Two!EndsStage(a, c) THEN Two!Counted(a, c, root) ELSE a.RootsVote) =
           (IF EndsStage(a, c) THEN Counted(a, c, root) ELSE a.RootsVote)
        /\ (IF Two!EndsStage(a, c) THEN [s \in Two!Shards |-> Two!NoVotes]
            ELSE Two!Counted(a, c, root)) =
           (IF EndsStage(a, c) THEN [s \in Shards |-> NoVotes] ELSE Counted(a, c, root))
        /\ (IF Two!EndsStage(a, c) THEN 0 ELSE a.WitnessCount) =
           (IF EndsStage(a, c) THEN 0 ELSE a.WitnessCount)
    BY <2>1
  <2> QED BY <2>2, Zenon DEF Two!Reported, Reported
<1>6. ASSUME NEW a, NEW lists
      PROVE  Two!Recorded(a, lists) = Recorded(a, lists)
  <2> DEFINE x == SentTo(a.witnessed, lists)
             y == [a EXCEPT !.witnessed = x, !.WitnessCount = -100000]
             z == [a EXCEPT !.WitnessCount = a.WitnessCount + 1]
  <2>1. Two!MinVote = MinVote /\ Two!SentTo(a.witnessed, lists) = x
    BY SameMinVote, SameMaps
  <2>2. Recorded(a, lists) = IF a.WitnessCount + 1 >= MinVote THEN y ELSE z
    BY DEF Recorded
  <2> HIDE DEF x
  <2>3. Two!Recorded(a, lists) = IF a.WitnessCount + 1 >= Two!MinVote THEN y ELSE z
    BY <2>1 DEF Two!Recorded
  <2> QED BY <2>1, <2>2, <2>3
<1>7. \A a, b : Two!Chained(a, b) = Chained(a, b)
  BY SameMaps, SameBookkeeping DEF Two!Chained, Chained
<1>8. \A m, a : Two!After(m, a) = After(m, a)
  BY SameMaps, <1>1, <1>5, <1>6, <1>7 DEF Two!After, After
<1> QED BY <1>1, <1>2, <1>3, <1>4, <1>5, <1>6, <1>7, <1>8

\* and which messages are good in which state, and what states are sound.
LEMMA SameSound ==
  /\ Two!Tx = Tx
  /\ Two!Lists = Lists
  /\ Two!Pool = Pool
  /\ \A m, a : Two!Good(m, a) <=> Good(m, a)
  /\ \A a : Two!IsShared(a) <=> IsShared(a)
  /\ \A a : Two!Sound(a) <=> Sound(a)
  /\ \A a, b : Two!Before(a, b) <=> Before(a, b)
<1>1. Two!Tx = Tx
  BY SameShards, SameBookkeeping DEF Two!Tx, Tx
<1>2. Two!Lists = Lists
  BY SameShards, SameBookkeeping, <1>1 DEF Two!Lists, Lists
<1>3. Two!Pool = Pool
  BY SameBookkeeping, <1>1 DEF Two!Pool, Pool
<1>4. \A m, a : Two!Good(m, a) <=> Good(m, a)
  BY SameShards, SameMinVote, SameSets, SameGroupsAt, <1>2 DEF Two!Good, Good
<1>5. \A a : Two!IsShared(a) <=> IsShared(a)
  BY DEF Two!IsShared, IsShared, Two!SharedFields, SharedFields
<1>6. \A a : Two!Sound(a) <=> Sound(a)
  BY <1>5, SameShards, <1>3 DEF Two!Sound, Sound, Two!NoRelay, NoRelay
<1>7. \A a, b : Two!Before(a, b) <=> Before(a, b)
  BY DEF Two!Before, Before
<1> QED BY <1>1, <1>2, <1>3, <1>4, <1>5, <1>6, <1>7
-----------------------------------------------------------------------------
(***************************************************************************)
(* The log: the state of a server that has done all that either was asked  *)
(* to do.  It is one Membership with rounds in step.                       *)
(***************************************************************************)
\* The one has done what the other has not repeated yet.
FirstAhead == IsAhead(outbox, IsUploading)
OtherAhead == IsAhead(inbox, Two!IsUploading)

Log == LogOf(inbox, Two!IsUploading, Done, Two!Done)

\* Clients that either server told a shard and that have not registered.
Awaiting == Together(assigned, assigned2)

L == INSTANCE MembershipProofs WITH
  round <- Log.round, NodeNum <- Log.NodeNum, assigned <- Awaiting,
  client <- Log.client, seat <- Log.seat, Consensus_Map <- Log.Consensus_Map,
  Validation_Map <- Log.Validation_Map, Winner <- Log.Winner,
  NewRootsVote <- Log.NewRootsVote, RootsVote <- Log.RootsVote, lockHeld <- FALSE

\* Its constants are those of the servers.
LEMMA LogAssumption == L!MembershipAssumption
BY MembershipAssumption
   DEF MembershipAssumption, L!MembershipAssumption, IsFiniteSet, L!IsFiniteSet

\* Its groups are those of the log.
LEMMA LogGroups ==
  /\ L!Shards = Shards /\ L!Nil = Nil /\ L!NoVotes = NoVotes
  /\ \A S : L!Cardinality(S) = Cardinality(S)
  /\ \A s, r : L!Registered(s, r) = RegisteredAt(Log, s, r)
  /\ \A s, r : L!Entries(s, r) = EntriesAt(Log, s, r)
  /\ L!Committee = CommitteeAt(Log)
  /\ L!OwedRoots = OwedAt(Log)
  /\ L!FreshId = (CHOOSE c \in Client : Log.seat[c] = "none")
  /\ \A C, first, M : L!SmallestRandom(C, first, M) = SmallestRandom(C, first, M)
<1>1. /\ L!Shards = Shards /\ L!Nil = Nil /\ L!NoVotes = NoVotes
      /\ \A S : L!Cardinality(S) = Cardinality(S)
  BY DEF L!Shards, Shards, L!Nil, Nil, L!NoVotes, NoVotes, L!Cardinality, Cardinality
<1>2. \A s, r : L!Registered(s, r) = RegisteredAt(Log, s, r)
  BY DEF L!Registered, RegisteredAt
<1>3. \A s, r : L!Entries(s, r) = EntriesAt(Log, s, r)
  BY <1>2 DEF L!Entries, EntriesAt
<1>4. L!Committee = CommitteeAt(Log) /\ L!OwedRoots = OwedAt(Log)
  BY DEF L!Committee, CommitteeAt, L!OwedRoots, OwedAt
<1>5. L!FreshId = (CHOOSE c \in Client : Log.seat[c] = "none")
  BY DEF L!FreshId
<1>6. \A C, first, M : L!SmallestRandom(C, first, M) = SmallestRandom(C, first, M)
  BY DEF L!SmallestRandom, SmallestRandom
<1> QED BY <1>1, <1>2, <1>3, <1>4, <1>5, <1>6

\* A message that is read or written is one step of the membership.
LEMMA JoinedLog ==
  ASSUME Sound(Log), NEW c, NEW s, NEW x, Log' = Joined(Log, c, s, x)
  PROVE  /\ Log'.client = NewClient(Log, c, s, x)
         /\ Log'.seat = IF Fills(Log, s)
                          THEN [Log.seat EXCEPT ![c] = "exec",
                                                ![Chosen(Log, c, s, x)] = "committee"]
                          ELSE [Log.seat EXCEPT ![c] = "exec"]
         /\ Log'.Consensus_Map = [Log.Consensus_Map EXCEPT ![s] = Log.round]
         /\ Log'.Validation_Map =
              IF Fills(Log, s)
                THEN [Log.Validation_Map EXCEPT ![s] = IF @ = Nil THEN Log.round ELSE @]
                ELSE Log.Validation_Map
         /\ Log'.Winner =
              IF Fills(Log, s) /\ Cardinality(Members(Log, c, s, x)) = ShardNum
                THEN Least(NewClient(Log, c, s, x), Members(Log, c, s, x))
                ELSE Log.Winner
         /\ Log'.round = Log.round /\ Log'.NodeNum = Log.NodeNum
         /\ Log'.NewRootsVote = Log.NewRootsVote /\ Log'.RootsVote = Log.RootsVote
<1>1. IsShared(Log)
  BY DEF Sound
<1> DEFINE z == Joined(Log, c, s, x)
<1>2. /\ z.client = NewClient(Log, c, s, x)
      /\ z.seat = IF Fills(Log, s)
                       THEN [Log.seat EXCEPT ![c] = "exec",
                                             ![Chosen(Log, c, s, x)] = "committee"]
                       ELSE [Log.seat EXCEPT ![c] = "exec"]
      /\ z.Consensus_Map = [Log.Consensus_Map EXCEPT ![s] = Log.round]
      /\ z.Validation_Map =
           IF Fills(Log, s)
             THEN [Log.Validation_Map EXCEPT ![s] = IF @ = Nil THEN Log.round ELSE @]
             ELSE Log.Validation_Map
      /\ z.Winner =
           IF Fills(Log, s) /\ Cardinality(Members(Log, c, s, x)) = ShardNum
             THEN Least(NewClient(Log, c, s, x), Members(Log, c, s, x))
             ELSE Log.Winner
      /\ z.round = Log.round /\ z.NodeNum = Log.NodeNum
      /\ z.NewRootsVote = Log.NewRootsVote /\ z.RootsVote = Log.RootsVote
  BY <1>1 DEF SharedFields, IsShared, Joined
<1>3. Log' = z
  OBVIOUS
<1> HIDE DEF z
<1> QED BY <1>2, <1>3

\* c may register with shard s as the next client.
MayJoin(a, c, s, x) ==
  /\ x = RandomOf[c]
  /\ c = (CHOOSE d \in Client : a.seat[d] = "none") /\ a.seat[c] = "none"
  /\ \A d \in EntriesAt(a, s, a.round) : a.seat[d] = "exec"
  /\ a.Validation_Map[s] # Nil \/ OwedAt(a) = {}
  /\ Fills(a, s) =>
       /\ Smallest(NewClient(a, c, s, x), Group(a, c, s)) # {}
       /\ Cardinality(Members(a, c, s, x)) = ShardNum =>
            Smallest(NewClient(a, c, s, x), Members(a, c, s, x)) # {}

\* A forwarded client registers in step.
LEMMA ClientLogged ==
  ASSUME Sound(Log), NEW c \in Client, NEW s \in Shards, NEW x,
         MayJoin(Log, c, s, x), Log' = Joined(Log, c, s, x),
         Awaiting[s] > 0, Awaiting' = [Awaiting EXCEPT ![s] = @ - 1]
  PROVE  L!InStepNext
<1> DEFINE C == NewClient(Log, c, s, x)
           w == Chosen(Log, c, s, x)
           G == Group(Log, c, s)
           M == Members(Log, c, s, x)
           E == EntriesAt(Log, s, Log.round)
<1>4. /\ Log'.client = C
      /\ Log'.seat = IF Fills(Log, s) THEN [Log.seat EXCEPT ![c] = "exec", ![w] = "committee"]
                     ELSE [Log.seat EXCEPT ![c] = "exec"]
      /\ Log'.Consensus_Map = [Log.Consensus_Map EXCEPT ![s] = Log.round]
      /\ Log'.Validation_Map =
           IF Fills(Log, s)
             THEN [Log.Validation_Map EXCEPT ![s] = IF @ = Nil THEN Log.round ELSE @]
             ELSE Log.Validation_Map
      /\ Log'.Winner = IF Fills(Log, s) /\ Cardinality(M) = ShardNum THEN Least(C, M)
                       ELSE Log.Winner
      /\ Log'.round = Log.round /\ Log'.NodeNum = Log.NodeNum
      /\ Log'.NewRootsVote = Log.NewRootsVote /\ Log'.RootsVote = Log.RootsVote
  BY JoinedLog
<1> HIDE DEF w
<1>1. /\ x = RandomOf[c]
      /\ c = (CHOOSE d \in Client : Log.seat[d] = "none") /\ Log.seat[c] = "none"
      /\ \A d \in E : Log.seat[d] = "exec"
      /\ Log.Validation_Map[s] # Nil \/ OwedAt(Log) = {}
      /\ Fills(Log, s) =>
           /\ Smallest(C, G) # {}
           /\ Cardinality(M) = ShardNum => Smallest(C, M) # {}
  BY DEF MayJoin
<1> DEFINE D == [Log.client EXCEPT ![c] = [shard |-> s, round |-> Log.round, random |-> x]]
<1>5. C = D
  BY DEF NewClient
<1> HIDE DEF C, G, M, E, D
<1>6. Fills(Log, s) => w \in SmallestRandom(C, c, G) /\ w \in G
  <2> SUFFICES ASSUME Fills(Log, s) PROVE w \in SmallestRandom(C, c, G) /\ w \in G
    OBVIOUS
  <2>1. w = Least(C, G) /\ Smallest(C, G) # {}
    BY <1>1 DEF w, Chosen, C, G
  <2>2. \A d \in G : d \in Client /\ (d = c \/ Log.seat[d] # "none")
    BY <1>1 DEF G, Group, EntriesAt, RegisteredAt
  <2>3. w \in SmallestRandom(C, c, G)
    BY <1>1, <2>1, <2>2, LeastOfSeated DEF C
  <2> QED BY <2>1, <2>3, LeastIn
<1>7. Fills(Log, s) /\ Cardinality(M) = ShardNum => Least(C, M) \in SmallestRandom(C, w, M)
  <2> SUFFICES ASSUME Fills(Log, s), Cardinality(M) = ShardNum
               PROVE  Least(C, M) \in SmallestRandom(C, w, M)
    OBVIOUS
  <2>1. \A d \in M : d \in Client /\ (d = c \/ Log.seat[d] # "none")
    BY <1>1, <1>6 DEF M, Members, CommitteeAt, G, Group, EntriesAt, RegisteredAt, w
  <2>2. Smallest(C, M) # {}
    BY <1>1
  <2> QED BY <1>1, <2>1, <2>2, LeastOfSeated DEF C
<1>8. L!ShardFills(s) <=> Fills(Log, s)
  BY <1>1, LogGroups DEF L!ShardFills, Fills, E
<1>9. L!Entries(s, Log.round) \cup {c} = G /\ L!Committee \cup {w} = M
  BY LogGroups DEF G, Group, M, Members, w
<1>10. L!Join(c, s, x)
  <2>1. CASE Fills(Log, s)
    <3>1. L!Elect(s, w, D)
      BY <1>4, <1>5, <1>7, <1>9, <2>1, LogGroups DEF L!Elect
    <3>2. \E v \in L!SmallestRandom(D, c, L!Entries(s, Log.round) \cup {c}) :
            /\ Log'.seat = [Log.seat EXCEPT ![c] = "exec", ![v] = "committee"]
            /\ L!Elect(s, v, D)
      BY <1>4, <1>5, <1>6, <1>9, <2>1, <3>1, LogGroups
    <3> QED BY <1>4, <1>5, <1>8, <2>1, <3>2 DEF L!Join, L!votes, D
  <2>2. CASE ~Fills(Log, s)
    BY <1>4, <1>5, <1>8, <2>2 DEF L!Join, L!votes, D
  <2> QED BY <2>1, <2>2
<1>11. x \in Randoms
  BY <1>1, PeerAssumption DEF PeerAssumption
<1>12. L!RegisterCommunication(s, x)
  BY <1>1, <1>10, LogGroups DEF L!RegisterCommunication
<1>13. L!RegisterInStep(s)
  BY <1>1, <1>11, <1>12, LogGroups DEF L!RegisterInStep
<1>14. s \in L!Shards
  BY <1>1, LogGroups
<1> QED BY <1>13, <1>14 DEF L!InStepNext

\* A slot is given away.
LEMMA NodeLogged ==
  ASSUME Sound(Log), NEW m, Good(m, Log), m.type = "NodeNum",
         Log' = After(m, Log), Awaited(m, Awaiting, Awaiting')
  PROVE  L!InStepNext
<1> DEFINE s == m.shard
           n == [Log.NodeNum EXCEPT ![s] = @ + 1]
<1>1. /\ s \in Shards /\ Log.NodeNum[s] # CLIENT_MAX
      /\ \A t \in Shards : t < s => Log.NodeNum[t] = CLIENT_MAX
  BY DEF Good
<1>2. Awaiting' = [Awaiting EXCEPT ![s] = @ + 1]
  BY DEF Awaited
<1>3. Log' = [Log EXCEPT !.NodeNum = n] /\ IsShared(Log)
  BY AfterIs DEF Sound
<1> HIDE DEF s, n
<1>4. /\ Log'.NodeNum = n
      /\ Log'.round = Log.round /\ Log'.client = Log.client /\ Log'.seat = Log.seat
      /\ Log'.Consensus_Map = Log.Consensus_Map /\ Log'.Validation_Map = Log.Validation_Map
      /\ Log'.Winner = Log.Winner
      /\ Log'.NewRootsVote = Log.NewRootsVote /\ Log'.RootsVote = Log.RootsVote
  BY <1>3, NodeMembers
<1>5. L!AssignShardNum
  BY <1>1, <1>2, <1>4, LogGroups DEF L!AssignShardNum, L!groups, L!votes, n
<1> QED BY <1>5 DEF L!InStepNext

\* What a block does to the log's membership.
LEMMA ChainedLog ==
  ASSUME Sound(Log), NEW b, Log' = Chained(Log, b)
  PROVE  /\ Log'.round = Log.round + 1 /\ Log'.NodeNum = NoNodes
         /\ Log'.client = Log.client /\ Log'.seat = Log.seat
         /\ Log'.Consensus_Map = NoSlots /\ Log'.Validation_Map = Log.Validation_Map
         /\ Log'.Winner = None
         /\ Log'.NewRootsVote = Log.NewRootsVote /\ Log'.RootsVote = Log.RootsVote
<1>1. IsShared(Log)
  BY DEF Sound
<1> QED BY <1>1, ChainedFields

\* A forwarded block is the upload of the leader, paced as it must be.
LEMMA UploadLogged ==
  ASSUME Sound(Log), NEW b, Log.Winner # None, OwedAt(Log) = {},
         Log' = Chained(Log, b), Awaiting' = Awaiting
  PROVE  L!InStepNext
<1>2. /\ Log'.round = Log.round + 1 /\ Log'.NodeNum = NoNodes
      /\ Log'.client = Log.client /\ Log'.seat = Log.seat
      /\ Log'.Consensus_Map = NoSlots /\ Log'.Validation_Map = Log.Validation_Map
      /\ Log'.Winner = None
      /\ Log'.NewRootsVote = Log.NewRootsVote /\ Log'.RootsVote = Log.RootsVote
  BY ChainedLog
<1>3. L!AppendBlock
  BY <1>2, LogGroups DEF L!AppendBlock, L!votes, NoNodes, NoSlots
<1>4. L!OwedRoots = {} /\ L!LeaderUploads
  BY <1>3, LogGroups DEF L!LeaderUploads
<1> QED BY <1>4 DEF L!InStepNext, L!PacedUploads

\* A forwarded root is the upload of an executor.
LEMMA RootLogged ==
  ASSUME Sound(Log), NEW c \in OwedAt(Log), NEW root \in Root,
         Log.Validation_Map[Log.client[c].shard] = Log.client[c].round,
         Log' = Reported(Log, c, root), Awaiting' = Awaiting
  PROVE  L!InStepNext
<1>1. IsShared(Log)
  BY DEF Sound
<1>4. /\ Log'.seat = [Log.seat EXCEPT ![c] = "nil"]
      /\ Log'.Validation_Map =
           IF EndsStage(Log, c) THEN Log.Consensus_Map
           ELSE IF Empties(Log, c) THEN [Log.Validation_Map EXCEPT ![Log.client[c].shard] = Nil]
           ELSE Log.Validation_Map
      /\ Log'.RootsVote = IF EndsStage(Log, c) THEN Counted(Log, c, root) ELSE Log.RootsVote
      /\ Log'.NewRootsVote =
           IF EndsStage(Log, c) THEN [s \in Shards |-> NoVotes] ELSE Counted(Log, c, root)
      /\ Log'.round = Log.round /\ Log'.NodeNum = Log.NodeNum /\ Log'.client = Log.client
      /\ Log'.Consensus_Map = Log.Consensus_Map /\ Log'.Winner = Log.Winner
  BY <1>1, ReportedMembers
<1>5. /\ c \in Client /\ Log.seat[c] = "exec" /\ Log.client[c].round < Log.round
      /\ c \in L!OwedRoots
  BY LogGroups DEF OwedAt
<1>6. L!ShardDone(c) <=> Empties(Log, c)
  BY LogGroups DEF L!ShardDone, Empties
<1>7. L!StageDone(c) <=> EndsStage(Log, c)
  BY <1>6, LogGroups DEF L!StageDone, EndsStage
<1>8. EndsStage(Log, c) => Empties(Log, c)
  BY DEF EndsStage
<1>9. L!CountedVotes(c, root) = Counted(Log, c, root)
  BY DEF L!CountedVotes, Counted
<1>10. L!CollectRoot(c, root)
  BY <1>4, <1>5, <1>6, <1>7, <1>8, <1>9, LogGroups DEF L!CollectRoot, L!IsValidator
<1>11. L!ExecutorUploads(c, root)
  BY <1>5, <1>10 DEF L!ExecutorUploads, L!Notified
<1> QED BY <1>5, <1>11 DEF L!InStepNext, L!PacedUploads

\* Any message is a step of the membership or changes nothing of it.
LEMMA LogSteps ==
  ASSUME Sound(Log), NEW m, Good(m, Log), Log' = After(m, Log),
         Awaited(m, Awaiting, Awaiting')
  PROVE  [L!InStepNext]_L!vars
<1>1. CASE m.type = "client"
  <2>1. /\ m.id \in Client /\ m.shard \in Shards /\ m.random = RandomOf[m.id]
        /\ MayJoin(Log, m.id, m.shard, m.random)
    BY <1>1 DEF Good, MayJoin
  <2>2. Log' = Joined(Log, m.id, m.shard, m.random)
    BY <1>1, AfterIs
  <2>3. Awaiting[m.shard] > 0 /\ Awaiting' = [Awaiting EXCEPT ![m.shard] = @ - 1]
    BY <1>1 DEF Awaited
  <2> DEFINE c == m.id
             s == m.shard
             x == m.random
  <2> HIDE DEF c, s, x
  <2>4. L!InStepNext
    BY <2>1, <2>2, <2>3, ClientLogged DEF c, s, x
  <2> QED BY <2>4
<1>2. CASE m.type = "NodeNum"
  BY <1>2, NodeLogged
<1>3. CASE m.type = "upload"
  <2>1. Log.Winner # None /\ OwedAt(Log) = {}
    BY <1>3 DEF Good
  <2>2. Log' = Chained(Log, m.block)
    BY <1>3, AfterIs
  <2>3. Awaiting' = Awaiting
    BY <1>3 DEF Awaited
  <2> QED BY <2>1, <2>2, <2>3, UploadLogged
<1>4. CASE m.type = "root"
  <2>1. /\ m.id \in OwedAt(Log) /\ m.root \in Root
        /\ Log.Validation_Map[Log.client[m.id].shard] = Log.client[m.id].round
    BY <1>4 DEF Good
  <2>2. Log' = Reported(Log, m.id, m.root)
    BY <1>4, AfterIs
  <2>3. Awaiting' = Awaiting
    BY <1>4 DEF Awaited
  <2> QED BY <2>1, <2>2, <2>3, RootLogged
<1>5. CASE m.type \notin {"client", "NodeNum", "upload", "root"}
  <2>1. SameMembers(Log', Log)
    BY <1>5, OthersKeepMembers DEF Sound
  <2>2. Awaiting' = Awaiting
    BY <1>5 DEF Awaited
  <2>3. UNCHANGED L!vars
    BY <2>1, <2>2 DEF SameMembers, L!vars, L!groups, L!votes
  <2> QED BY <2>3
<1> QED BY <1>1, <1>2, <1>3, <1>4, <1>5
-----------------------------------------------------------------------------
(***************************************************************************)
(* The inductive invariant: at most one server is ahead, and what it wrote *)
(* leads the other to where it is; no message is read where it must not    *)
(* be; and the log keeps what Membership with rounds in step keeps.        *)
(***************************************************************************)
Pair ==
  Paired(outbox, inbox, IsUploading, Two!IsUploading, Shared, Two!Shared, Done, Two!Done)

\* The clients that registered with the one and the other.
Own  == {c \in Client : Mine(c)}
Own2 == {c \in Client : Two!Mine(c)}

Replicas ==
  /\ Pair
  /\ Working /\ Two!Working /\ Sound(Shared) /\ Sound(Two!Shared)
  /\ ~lockHeld /\ ~lockHeld2
  /\ assigned \in [Shards -> Nat] /\ assigned2 \in [Shards -> Nat]
  /\ Own \cap Own2 = {}
  /\ Owned(outbox, Own) /\ Owned(inbox, Own2)

InSync == Replicas /\ L!HandOver /\ L!GroupsFull

-----------------------------------------------------------------------------
\* What the log's invariant says of its fields.
LEMMA LogSteady ==
  ASSUME L!HandOver
  PROVE  /\ Log.NodeNum \in [Shards -> Nat]
         /\ Log.round \in Nat \ {0}
         /\ \A c \in OwedAt(Log) :
              Log.seat[c] = "exec" /\ Log.Validation_Map[Log.client[c].shard] = Log.client[c].round
         /\ \A c \in Client : Log.seat[c] = "nil" => Log.client[c].round < Log.round
         /\ Log.Winner # None =>
              /\ Log.Winner \in CommitteeAt(Log)
              /\ \A s \in Shards : Log.NodeNum[s] = CLIENT_MAX /\ Awaiting[s] = 0
         /\ \A s \in Shards :
              /\ Cardinality(RegisteredAt(Log, s, Log.round)) \in Nat
              /\ Log.NodeNum[s] = Awaiting[s] + Cardinality(RegisteredAt(Log, s, Log.round))
              /\ Log.NodeNum[s] <= CLIENT_MAX
<1>1. /\ Log.NodeNum \in [Shards -> 0 .. CLIENT_MAX] /\ Log.round \in Nat \ {0}
      /\ Awaiting \in [Shards -> Nat]
  BY LogGroups DEF L!HandOver, L!Seating, L!TypeOK
<1>2. CLIENT_MAX \in Nat
  BY MembershipAssumption DEF MembershipAssumption
<1>3. \A s \in Shards : Cardinality(RegisteredAt(Log, s, Log.round)) \in Nat
  <2> TAKE s \in Shards
  <2>1. RegisteredAt(Log, s, Log.round) \in SUBSET Client /\ IsFiniteSet(Client)
    BY MembershipAssumption DEF MembershipAssumption, RegisteredAt
  <2> QED BY <2>1, FS_Subset, FS_CardinalityType
<1>4. \A s \in Shards :
        /\ Log.NodeNum[s] = Awaiting[s] + Cardinality(RegisteredAt(Log, s, Log.round))
        /\ Log.NodeNum[s] <= CLIENT_MAX
  BY LogGroups DEF L!HandOver, L!Seating, L!NoOverfill
<1>5. \A c \in OwedAt(Log) :
        Log.seat[c] = "exec" /\ Log.Validation_Map[Log.client[c].shard] = Log.client[c].round
  BY LogGroups, L!OwedIsHeld, LogAssumption DEF L!IsValidator
<1>6. \A c \in Client : Log.seat[c] = "nil" => Log.client[c].round < Log.round
  BY DEF L!HandOver, L!TwoGroups
<1>7. ASSUME Log.Winner # None
      PROVE  /\ Log.Winner \in CommitteeAt(Log)
             /\ \A s \in Shards : Log.NodeNum[s] = CLIENT_MAX /\ Awaiting[s] = 0
  <2>1. /\ Log.Winner \in CommitteeAt(Log)
        /\ \A s \in Shards : \E c \in CommitteeAt(Log) : Log.client[c].shard = s
    BY <1>7, LogGroups DEF L!HandOver, L!Seating, L!OneSeatPerShard
  <2>2. \A c \in CommitteeAt(Log) :
          Cardinality(RegisteredAt(Log, Log.client[c].shard, Log.round)) = CLIENT_MAX
    BY LogGroups DEF L!HandOver, L!Seating, L!SeatedWhenFull
  <2>3. \A s \in Shards : Cardinality(RegisteredAt(Log, s, Log.round)) = CLIENT_MAX
    BY <2>1, <2>2
  <2>4. \A s \in Shards : Log.NodeNum[s] = CLIENT_MAX /\ Awaiting[s] = 0
    BY <1>1, <1>2, <1>4, <2>3
  <2> QED BY <2>1, <2>4
<1>8. Log.NodeNum \in [Shards -> Nat]
  BY <1>1, <1>2
<1> QED BY <1>1, <1>3, <1>4, <1>5, <1>6, <1>7, <1>8

\* The log goes on as Membership does.
LEMMA LogMoves ==
  ASSUME Sound(Log),
         \/ Log' = Log /\ Awaiting' = Awaiting
         \/ \E m : Good(m, Log) /\ Log' = After(m, Log) /\ Awaited(m, Awaiting, Awaiting')
  PROVE  [L!InStepNext]_L!vars
<1>1. CASE Log' = Log /\ Awaiting' = Awaiting
  BY <1>1 DEF L!vars, L!groups, L!votes
<1>2. CASE \E m : Good(m, Log) /\ Log' = After(m, Log) /\ Awaited(m, Awaiting, Awaiting')
  BY <1>2, LogSteps
<1> QED BY <1>1, <1>2

\* The invariants of Membership with rounds in step are the log's.
LEMMA LogKeeps ==
  ASSUME L!HandOver, L!GroupsFull, [L!InStepNext]_L!vars
  PROVE  L!HandOver' /\ L!GroupsFull'
<1>1. [L!Next]_L!vars
  BY L!InStepIsNext, LogAssumption
<1>2. L!Seating
  BY DEF L!HandOver
<1> QED BY <1>1, <1>2, LogAssumption, L!StepHandOver, L!StepGroupsFull

-----------------------------------------------------------------------------
(***************************************************************************)
(* Whoever takes a request may.                                            *)
(***************************************************************************)
\* Nothing can be left over when three numbers add up to nothing.
LEMMA NothingLeft ==
  ASSUME NEW a \in Nat, NEW b \in Nat, NEW n \in Nat, 0 = a + b + n
  PROVE  a = 0 /\ b = 0
OBVIOUS

\* The first server holds the log: what the log says of its slots makes it steady.
LEMMA FirstSteady ==
  ASSUME InSync, Log = Done
  PROVE  Steady
<1>1. Working /\ assigned \in [Shards -> Nat] /\ assigned2 \in [Shards -> Nat]
  BY DEF InSync, Replicas
<1>2. \A s \in Shards : Awaiting[s] = assigned[s] + assigned2[s]
  BY DEF Awaiting, Together
<1>3. CASE IsUploading
  <2>1. Log.NodeNum = NoNodes
    <3>1. Chained(Shared, work[Winner]).NodeNum = NoNodes
      BY SharedIsShared, ChainedFields
    <3> QED BY <1>1, <1>3, <3>1, DoneIs
  <2>2. \A s \in Shards :
          /\ 0 = Awaiting[s] + Cardinality(RegisteredAt(Log, s, Log.round))
          /\ Cardinality(RegisteredAt(Log, s, Log.round)) \in Nat
    BY <2>1, LogSteady DEF InSync, NoNodes
  <2>3. \A s \in Shards : assigned[s] = 0
    <3> TAKE s \in Shards
    <3> DEFINE n == Cardinality(RegisteredAt(Log, s, Log.round))
    <3>1. assigned[s] \in Nat /\ assigned2[s] \in Nat
      BY <1>1
    <3>2. 0 = assigned[s] + assigned2[s] + n /\ n \in Nat
      BY <1>2, <2>2
    <3> HIDE DEF n
    <3> QED BY <3>1, <3>2, NothingLeft
  <2> QED BY <1>3, <2>3 DEF Steady
<1>4. CASE ~IsUploading
  <2>1. Log = Shared
    BY <1>1, <1>4, DoneIs
  <2>2. /\ NodeNum \in [Shards -> Nat]
        /\ \A c \in OwedRoots : seat[c] = "exec" /\ Validation_Map[client[c].shard] = client[c].round
        /\ \A c \in Client : seat[c] = "nil" => client[c].round < round
        /\ Winner # None =>
             /\ Winner \in Committee
             /\ \A s \in Shards : NodeNum[s] = CLIENT_MAX /\ Awaiting[s] = 0
    BY <2>1, LogSteady, SharedField, SharedGroups DEF InSync
  <2>3. \A s \in Shards : Awaiting[s] = 0 => assigned[s] = 0
    BY <1>1, <1>2
  <2>4. \A c \in OwedRoots : IsValidator(c)
    BY <2>2 DEF IsValidator
  <2>5. Winner # None =>
          Winner \in Committee /\ \A s \in Shards : NodeNum[s] = CLIENT_MAX /\ assigned[s] = 0
    BY <2>2, <2>3
  <2> QED BY <1>4, <2>2, <2>4, <2>5 DEF Steady
<1> QED BY <1>3, <1>4

\* The second one likewise.
LEMMA OtherSteady ==
  ASSUME InSync, Log = Two!Done
  PROVE  Two!Steady
<1>1. Two!Working /\ assigned \in [Shards -> Nat] /\ assigned2 \in [Shards -> Nat]
  BY DEF InSync, Replicas
<1>2. \A s \in Shards : Awaiting[s] = assigned[s] + assigned2[s]
  BY DEF Awaiting, Together
<1>3. CASE Two!IsUploading
  <2>1. Log.NodeNum = NoNodes
    <3>1. Two!Chained(Two!Shared, work2[Winner2]).NodeNum = Two!NoNodes
      BY SecondAssumptions, Two!SharedIsShared, Two!ChainedFields
    <3> QED BY <1>1, <1>3, <3>1, SecondAssumptions, Two!DoneIs, SameMaps
  <2>2. \A s \in Shards :
          /\ 0 = Awaiting[s] + Cardinality(RegisteredAt(Log, s, Log.round))
          /\ Cardinality(RegisteredAt(Log, s, Log.round)) \in Nat
    BY <2>1, LogSteady DEF InSync, NoNodes
  <2>3. \A s \in Shards : assigned2[s] = 0
    <3> TAKE s \in Shards
    <3> DEFINE n == Cardinality(RegisteredAt(Log, s, Log.round))
    <3>1. assigned[s] \in Nat /\ assigned2[s] \in Nat
      BY <1>1
    <3>2. 0 = assigned[s] + assigned2[s] + n /\ n \in Nat
      BY <1>2, <2>2
    <3> HIDE DEF n
    <3> QED BY <3>1, <3>2, NothingLeft
  <2> QED BY <1>3, <2>3, SameShards DEF Two!Steady
<1>4. CASE ~Two!IsUploading
  <2>1. Log = Two!Shared
    BY <1>1, <1>4, SecondAssumptions, Two!DoneIs
  <2>2. CommitteeAt(Log) = Two!Committee /\ OwedAt(Log) = Two!OwedRoots
    BY <2>1, SameGroupsAt, SecondAssumptions, Two!SharedGroups
  <2>3. /\ NodeNum2 \in [Shards -> Nat]
        /\ \A c \in Two!OwedRoots :
             seat2[c] = "exec" /\ Validation_Map2[client2[c].shard] = client2[c].round
        /\ \A c \in Client : seat2[c] = "nil" => client2[c].round < round2
        /\ Winner2 # None =>
             /\ Winner2 \in Two!Committee
             /\ \A s \in Shards : NodeNum2[s] = CLIENT_MAX /\ Awaiting[s] = 0
    BY <2>1, <2>2, LogSteady, SecondAssumptions, Two!SharedField DEF InSync
  <2>4. \A s \in Shards : Awaiting[s] = 0 => assigned2[s] = 0
    BY <1>1, <1>2
  <2>5. \A c \in Two!OwedRoots : Two!IsValidator(c)
    BY <2>3 DEF Two!IsValidator
  <2>6. Winner2 # None =>
          /\ Winner2 \in Two!Committee
          /\ \A s \in Shards : NodeNum2[s] = CLIENT_MAX /\ assigned2[s] = 0
    BY <2>3, <2>4
  <2> QED BY <1>4, <2>3, <2>5, <2>6, SameShards DEF Two!Steady
<1> QED BY <1>3, <1>4
-----------------------------------------------------------------------------
(***************************************************************************)
(* What one server does while the other stands still.                      *)
(***************************************************************************)
\* The first server stands still.
LEMMA FirstStands ==
  ASSUME UNCHANGED <<serverVars, linked>>
  PROVE  /\ Working' <=> Working
         /\ Shared' = Shared /\ Done' = Done
         /\ IsUploading' <=> IsUploading
         /\ Own' = Own
         /\ UNCHANGED <<assigned, lockHeld, linked>>
<1>1. UNCHANGED <<serverVars>> /\ linked' = linked
  OBVIOUS
<1>2. \A c \in Client : Mine(c)' <=> Mine(c)
  BY <1>1, StillWorking
<1>3. Own' = Own
  BY <1>2 DEF Own
<1> QED BY <1>1, <1>3, StillWorking

\* The second server stands still.
LEMMA OtherStands ==
  ASSUME UNCHANGED second
  PROVE  /\ Two!Working' <=> Two!Working
         /\ Two!Shared' = Two!Shared /\ Two!Done' = Two!Done
         /\ Two!IsUploading' <=> Two!IsUploading
         /\ Own2' = Own2
         /\ UNCHANGED <<assigned2, lockHeld2, linked2>>
<1>1. UNCHANGED <<Two!serverVars>> /\ linked2' = linked2
  BY DEF second, Two!serverVars, Two!vars, Two!groups, Two!votes, Two!books, Two!money
<1>2. \A c \in Client : Two!Mine(c)' <=> Two!Mine(c)
  BY <1>1, Two!StillWorking, SecondAssumptions
<1>3. Own2' = Own2
  BY <1>2 DEF Own2
<1> QED BY <1>1, <1>3, Two!StillWorking, SecondAssumptions

\* Whoever is not behind holds the log.
LEMMA FirstHolds ==
  ASSUME Pair, ~OtherAhead
  PROVE  Log = Done /\ Leads(outbox, Two!Shared, Done)
BY LogIs DEF Pair, Log, OtherAhead, Paired

\* The second one likewise.
LEMMA OtherHolds ==
  ASSUME Pair, ~FirstAhead
  PROVE  Log = Two!Done /\ Leads(inbox, Shared, Two!Done)
BY LogIs DEF Pair, Log, FirstAhead, Paired

\* What the one did before the other knew, the one has not forgotten.
LEMMA FirstKnows ==
  ASSUME Replicas, ~OtherAhead
  PROVE  Sound(Done) /\ Before(Two!Shared, Done) /\ Done.seat = seat /\ Done.client = client
<1>1. Leads(outbox, Two!Shared, Done)
  BY FirstHolds DEF Replicas
<1>2. Sound(Done) /\ Done.seat = seat /\ Done.client = client
  BY DoneSound DEF Replicas
<1> QED BY <1>1, <1>2, LeadsSound DEF Replicas

\* The second one likewise.
LEMMA OtherKnows ==
  ASSUME Replicas, ~FirstAhead
  PROVE  /\ Sound(Two!Done) /\ Before(Shared, Two!Done)
         /\ Two!Done.seat = seat2 /\ Two!Done.client = client2
<1>1. Leads(inbox, Shared, Two!Done)
  BY OtherHolds DEF Replicas
<1>2. Sound(Two!Done) /\ Two!Done.seat = seat2 /\ Two!Done.client = client2
  BY Two!DoneSound, SecondAssumptions, SameSound DEF Replicas
<1> QED BY <1>1, <1>2, LeadsSound DEF Replicas
-----------------------------------------------------------------------------
(***************************************************************************)
(* A server takes a request.                                               *)
(***************************************************************************)
\* The first server serves: the second one has read all and is not uploading.
LEMMA FirstServed ==
  ASSUME InSync, Served, UNCHANGED second, inbox = <<>>, ~Two!IsUploading
  PROVE  InSync' /\ [L!InStepNext]_L!vars
<1>1. /\ Pair /\ ~OtherAhead /\ Log = Done
      /\ Leads(outbox, Two!Shared, Done) /\ Replicas
      /\ Sound(Done) /\ Before(Two!Shared, Done) /\ Done.seat = seat
  <2>1. Pair /\ ~OtherAhead /\ Replicas
    BY DEF InSync, Replicas, OtherAhead, IsAhead
  <2> QED BY <2>1, FirstHolds, FirstKnows
<1>2. /\ Two!Working' /\ Two!Shared' = Two!Shared /\ Two!Done' = Two!Done
      /\ Two!IsUploading' <=> FALSE
      /\ Own2' = Own2 /\ assigned2' = assigned2 /\ lockHeld2' = lockHeld2
  BY <1>1, OtherStands DEF Replicas
<1>3. /\ Working' /\ Sound(Shared') /\ assigned' \in [Shards -> Nat]
      /\ inbox' = <<>> /\ lockHeld' = lockHeld
      /\ \A c \in Client : Mine(c) => Mine(c)'
      /\ \A c \in Client : Mine(c)' => Mine(c) \/ seat[c] = "none"
  BY DEF Served
<1>4. Quiet \/ \E m : Sends(m)
  BY DEF Served
<1>5. Pair'
  <2> DEFINE vp == Two!IsUploading
  <2>1. Paired(outbox, <<>>, IsUploading, vp, Shared, Two!Shared, Done, Two!Done) /\ ~vp
    BY <1>1 DEF Pair
  <2>2. ~IsUploading' => Done' = Shared'
    BY DoneNextIs
  <2>3. \/ outbox' = outbox /\ Done' = Done
        \/ \E m : outbox' = Append(outbox, m) /\ Good(m, Done) /\ Done' = After(m, Done)
    BY <1>4 DEF Quiet, Sends
  <2> DEFINE o == outbox'
             up2 == IsUploading'
             a2 == Shared'
             d2 == Done'
  <2>4. Paired(o, <<>>, up2, vp, a2, Two!Shared, d2, Two!Done)
    <3>1. ~up2 => d2 = a2
      BY <2>2
    <3>2. \/ o = outbox /\ d2 = Done
          \/ \E m : o = Append(outbox, m) /\ Good(m, Done) /\ d2 = After(m, Done)
      BY <2>3
    <3> HIDE DEF o, up2, vp, a2, d2
    <3> QED BY <2>1, <3>1, <3>2, PairedServes
  <2> QED BY <2>4, <1>2, <1>3 DEF Pair, Paired, IsAhead
<1>6. ~OtherAhead' /\ Log' = Done'
  BY <1>2, <1>3 DEF OtherAhead, IsAhead, Log, LogOf
<1>7. \/ Log' = Log /\ Awaiting' = Awaiting
      \/ \E m : Good(m, Log) /\ Log' = After(m, Log) /\ Awaited(m, Awaiting, Awaiting')
  <2>1. CASE Quiet
    BY <1>1, <1>2, <1>6, <2>1 DEF Quiet, Awaiting
  <2>2. ASSUME NEW m, Sends(m)
        PROVE  Good(m, Log) /\ Log' = After(m, Log) /\ Awaited(m, Awaiting, Awaiting')
    <3>1. Good(m, Done) /\ Done' = After(m, Done) /\ Awaited(m, assigned, assigned')
      BY <2>2 DEF Sends
    <3>2. Awaiting' = Together(assigned', assigned2)
      BY <1>2 DEF Awaiting
    <3>3. Awaited(m, Together(assigned, assigned2), Together(assigned', assigned2))
      BY <1>1, <1>3, <3>1, AwaitedOfBoth DEF Replicas
    <3> QED BY <1>1, <1>6, <3>1, <3>2, <3>3 DEF Awaiting
  <2> QED BY <1>4, <2>1, <2>2
<1>8. [L!InStepNext]_L!vars
  BY <1>1, <1>7, LogMoves
<1>9. L!HandOver' /\ L!GroupsFull'
  BY <1>8, LogKeeps DEF InSync
<1>10. (Own \cap Own2 = {})'
  <2>1. Own2 \subseteq {c \in Client : seat[c] # "none"}
    <3>1. \A c \in Client : Two!Shared.seat[c] # "none" => seat[c] # "none"
      BY <1>1 DEF Before
    <3>2. \A c \in Own2 : c \in Client /\ seat2[c] # "none"
      BY DEF Own2, Two!Mine
    <3> QED BY <3>1, <3>2, Two!SharedField, SecondAssumptions
  <2>2. \A c \in Own' : c \in Own \/ c \notin {d \in Client : seat[d] # "none"}
    BY <1>3 DEF Own
  <2>3. Own \cap Own2 = {}
    BY <1>1 DEF Replicas
  <2>4. Own' \cap Own2 = {}
    BY <2>1, <2>2, <2>3, OwnersApart
  <2> QED BY <1>2, <2>4
<1>11. Owned(outbox', Own') /\ Owned(inbox', Own2')
  <2>1. Own \subseteq Own'
    BY <1>3 DEF Own
  <2>2. Owned(outbox, Own')
    BY <1>1, <2>1, OwnedBy DEF Replicas
  <2>3. ASSUME Quiet
        PROVE  Owned(outbox', Own')
    BY <2>2, <2>3 DEF Quiet
  <2>4. ASSUME NEW m, Sends(m)
        PROVE  Owned(outbox', Own')
    <3>1. outbox' = Append(outbox, m) /\ (m.type = "root" => m.id \in Own')
      BY <2>4 DEF Sends, Own
    <3> QED BY <1>1, <2>2, <3>1, OwnedAppend
  <2>5. Owned(inbox', Own2')
    BY <1>2, <1>3 DEF Owned
  <2> QED BY <1>4, <2>3, <2>4, <2>5
<1>12. Replicas'
  <2>1. Sound(Two!Shared') /\ ~lockHeld' /\ ~lockHeld2' /\ assigned2' \in [Shards -> Nat]
    BY <1>1, <1>2, <1>3 DEF Replicas
  <2> QED BY <1>2, <1>3, <1>5, <1>10, <1>11, <2>1 DEF Replicas
<1> QED BY <1>8, <1>9, <1>12 DEF InSync

\* The second server serves.
LEMMA OtherServed ==
  ASSUME InSync, Two!Served, UNCHANGED <<serverVars, linked>>, outbox = <<>>, ~IsUploading
  PROVE  InSync' /\ [L!InStepNext]_L!vars
<1>1. /\ Pair /\ ~FirstAhead /\ Log = Two!Done
      /\ Leads(inbox, Shared, Two!Done) /\ Replicas
      /\ Sound(Two!Done) /\ Before(Shared, Two!Done) /\ Two!Done.seat = seat2
  <2>1. Pair /\ ~FirstAhead /\ Replicas
    BY DEF InSync, Replicas, FirstAhead, IsAhead
  <2> QED BY <2>1, OtherHolds, OtherKnows
<1>2. /\ Working' /\ Shared' = Shared /\ Done' = Done
      /\ IsUploading' <=> FALSE
      /\ Own' = Own /\ assigned' = assigned /\ lockHeld' = lockHeld
  BY <1>1, FirstStands DEF Replicas
<1>3. /\ Two!Working' /\ Sound(Two!Shared') /\ assigned2' \in [Shards -> Nat]
      /\ outbox' = <<>> /\ lockHeld2' = lockHeld2
      /\ \A c \in Client : Two!Mine(c) => Two!Mine(c)'
      /\ \A c \in Client : Two!Mine(c)' => Two!Mine(c) \/ seat2[c] = "none"
  BY SameSound, SameShards DEF Two!Served
<1>4. Two!Quiet \/ \E m : Two!Sends(m)
  BY DEF Two!Served
<1>5. Pair'
  <2> DEFINE vp == IsUploading
  <2>1. Paired(inbox, <<>>, Two!IsUploading, vp, Two!Shared, Shared, Two!Done, Done) /\ ~vp
    BY <1>1, PairedTurned DEF Pair
  <2>2. ~Two!IsUploading' => Two!Done' = Two!Shared'
    BY Two!DoneNextIs, SecondAssumptions
  <2>3. \/ inbox' = inbox /\ Two!Done' = Two!Done
        \/ \E m : /\ inbox' = Append(inbox, m)
                  /\ Good(m, Two!Done) /\ Two!Done' = After(m, Two!Done)
    BY <1>4, SameSound, SameEffects DEF Two!Quiet, Two!Sends
  <2> DEFINE o == inbox'
             up2 == Two!IsUploading'
             a2 == Two!Shared'
             d2 == Two!Done'
  <2>4. Paired(o, <<>>, up2, vp, a2, Shared, d2, Done)
    <3>1. ~up2 => d2 = a2
      BY <2>2
    <3>2. \/ o = inbox /\ d2 = Two!Done
          \/ \E m : o = Append(inbox, m) /\ Good(m, Two!Done) /\ d2 = After(m, Two!Done)
      BY <2>3
    <3> HIDE DEF o, up2, vp, a2, d2
    <3> QED BY <2>1, <3>1, <3>2, PairedServes
  <2> QED BY <2>4, <1>2, <1>3 DEF Pair, Paired, IsAhead
<1>6. ~FirstAhead' /\ Log' = Two!Done'
  <2>1. ~FirstAhead'
    BY <1>2, <1>3 DEF FirstAhead, IsAhead
  <2>2. Pair' => Log' = Two!Done'
    BY <2>1, OtherHolds, LogIs DEF Pair, Log, FirstAhead
  <2> QED BY <1>5, <2>1, <2>2
<1>7. \/ Log' = Log /\ Awaiting' = Awaiting
      \/ \E m : Good(m, Log) /\ Log' = After(m, Log) /\ Awaited(m, Awaiting, Awaiting')
  <2>1. CASE Two!Quiet
    BY <1>1, <1>2, <1>6, <2>1 DEF Two!Quiet, Awaiting
  <2>2. ASSUME NEW m, Two!Sends(m)
        PROVE  Good(m, Log) /\ Log' = After(m, Log) /\ Awaited(m, Awaiting, Awaiting')
    <3>1. Good(m, Two!Done) /\ Two!Done' = After(m, Two!Done)
      BY <2>2, SameSound, SameEffects DEF Two!Sends
    <3>2. Awaited(m, assigned2, assigned2')
      BY <2>2 DEF Two!Sends, Two!Awaited, Awaited
    <3>3. /\ Awaiting = Together(assigned2, assigned)
          /\ Awaiting' = Together(assigned2', assigned)
      BY <1>1, <1>2, <1>3, TogetherTurned DEF Awaiting, Replicas
    <3>4. Awaited(m, Together(assigned2, assigned), Together(assigned2', assigned))
      BY <1>1, <1>3, <3>1, <3>2, AwaitedOfBoth DEF Replicas
    <3> QED BY <1>1, <1>6, <3>1, <3>3, <3>4
  <2> QED BY <1>4, <2>1, <2>2
<1>8. [L!InStepNext]_L!vars
  BY <1>1, <1>7, LogMoves
<1>9. L!HandOver' /\ L!GroupsFull'
  BY <1>8, LogKeeps DEF InSync
<1>10. (Own \cap Own2 = {})'
  <2>1. Own \subseteq {c \in Client : seat2[c] # "none"}
    <3>1. \A c \in Client : Shared.seat[c] # "none" => seat2[c] # "none"
      BY <1>1 DEF Before
    <3>2. \A c \in Own : c \in Client /\ seat[c] # "none"
      BY DEF Own, Mine
    <3> QED BY <3>1, <3>2, SharedField
  <2>2. \A c \in Own2' : c \in Own2 \/ c \notin {d \in Client : seat2[d] # "none"}
    BY <1>3 DEF Own2
  <2>3. Own2 \cap Own = {}
    BY <1>1 DEF Replicas
  <2>4. Own2' \cap Own = {}
    BY <2>1, <2>2, <2>3, OwnersApart
  <2> QED BY <1>2, <2>4
<1>11. Owned(outbox', Own') /\ Owned(inbox', Own2')
  <2>1. Own2 \subseteq Own2'
    BY <1>3 DEF Own2
  <2>2. Owned(inbox, Own2')
    BY <1>1, <2>1, OwnedBy DEF Replicas
  <2>3. ASSUME Two!Quiet
        PROVE  Owned(inbox', Own2')
    BY <2>2, <2>3 DEF Two!Quiet
  <2>4. ASSUME NEW m, Two!Sends(m)
        PROVE  Owned(inbox', Own2')
    <3>1. inbox' = Append(inbox, m) /\ (m.type = "root" => m.id \in Own2')
      BY <2>4 DEF Two!Sends, Own2
    <3> QED BY <1>1, <2>2, <3>1, OwnedAppend
  <2>5. Owned(outbox', Own')
    BY <1>2, <1>3 DEF Owned
  <2> QED BY <1>4, <2>3, <2>4, <2>5
<1>12. Replicas'
  <2>1. Sound(Shared') /\ ~lockHeld' /\ ~lockHeld2' /\ assigned' \in [Shards -> Nat]
    BY <1>1, <1>2, <1>3 DEF Replicas
  <2> QED BY <1>2, <1>3, <1>5, <1>10, <1>11, <2>1 DEF Replicas
<1> QED BY <1>8, <1>9, <1>12 DEF InSync

-----------------------------------------------------------------------------
(***************************************************************************)
(* A server reads what the other wrote: the log does not notice.           *)
(***************************************************************************)
\* The first server reads.
LEMMA FirstReads ==
  ASSUME InSync, Apply, UNCHANGED second
  PROVE  InSync' /\ [L!InStepNext]_L!vars
<1>1. inbox # <<>>
  BY DEF Apply
<1>2. Pair /\ Replicas
  BY DEF InSync, Replicas
<1>3. /\ ~IsUploading /\ outbox = <<>> /\ Good(Head(inbox), Shared)
      /\ 1 \in 1 .. Len(inbox) /\ Head(inbox) = inbox[1]
  <2>1. ~IsAhead(outbox, IsUploading)
    BY <1>1, <1>2 DEF Pair, Paired, IsAhead
  <2> QED BY <1>1, <1>2, <2>1, PairedGood DEF Pair, IsAhead
<1>4. Reads
  <2>1. Head(inbox).type = "root" => Head(inbox).id \in Own2
    BY <1>2, <1>3 DEF Replicas, Owned
  <2>2. \A c \in Own2 : ~Mine(c)
    BY <1>2 DEF Replicas, Own, Own2
  <2> QED BY <1>2, <1>3, <2>1, <2>2 DEF Replicas, Reads
<1>5. Repeats /\ inbox' = Tail(inbox) /\ outbox' = outbox
  BY <1>4, Applied
<1>6. /\ Shared' = After(Head(inbox), Shared) /\ Working' /\ ~IsUploading'
      /\ assigned' = assigned /\ lockHeld' = lockHeld
      /\ \A d \in Client : Mine(d)' <=> Mine(d)
  BY <1>5 DEF Repeats
<1>7. Done' = Shared'
  BY <1>6, DoneNextIs
<1>8. /\ Two!Working' /\ Two!Shared' = Two!Shared /\ Two!Done' = Two!Done
      /\ Two!IsUploading' <=> Two!IsUploading
      /\ Own2' = Own2 /\ assigned2' = assigned2 /\ lockHeld2' = lockHeld2
  BY <1>2, OtherStands DEF Replicas
<1>9. /\ Paired(<<>>, Tail(inbox), FALSE, Two!IsUploading, Shared', Two!Shared, Done', Two!Done)
      /\ LogOf(inbox, Two!IsUploading, Done, Two!Done) = Two!Done
      /\ LogOf(Tail(inbox), Two!IsUploading, Done', Two!Done) = Two!Done
  <2> DEFINE vp == Two!IsUploading
             a2 == Shared'
             d2 == Done'
             up == IsUploading
             up2 == FALSE
  <2>1. Paired(outbox, inbox, up, vp, Shared, Two!Shared, Done, Two!Done)
    BY <1>2 DEF Pair
  <2>2. a2 = After(Head(inbox), Shared) /\ d2 = a2 /\ ~up2
    BY <1>6, <1>7
  <2> HIDE DEF vp, up, a2, d2, up2
  <2>3. outbox = <<>> /\ Paired(outbox, Tail(inbox), up2, vp, a2, Two!Shared, d2, Two!Done)
    BY <1>1, <2>1, <2>2, PairedReads
  <2>4. /\ LogOf(inbox, vp, Done, Two!Done) = Two!Done
        /\ LogOf(Tail(inbox), vp, d2, Two!Done) = Two!Done
    BY <1>1, <2>1, <2>2, LogStays
  <2> QED BY <2>3, <2>4 DEF vp, a2, d2, up2
<1>10. Pair'
  BY <1>3, <1>5, <1>6, <1>8, <1>9 DEF Pair, Paired, IsAhead
<1>11. Log' = Log /\ Awaiting' = Awaiting
  <2>1. Log = Two!Done
    BY <1>9 DEF Log
  <2>2. LogOf(Tail(inbox), Two!IsUploading', Done', Two!Done) = Two!Done
    BY <1>8, <1>9 DEF LogOf, IsAhead
  <2>3. Log' = Two!Done
    BY <1>5, <1>8, <2>2 DEF Log
  <2> QED BY <1>6, <1>8, <2>1, <2>3 DEF Awaiting
<1>12. [L!InStepNext]_L!vars
  BY <1>11 DEF L!vars, L!groups, L!votes
<1>13. L!HandOver' /\ L!GroupsFull'
  BY <1>12, LogKeeps DEF InSync
<1>14. Own' = Own
  BY <1>6 DEF Own
<1>15. Owned(outbox', Own') /\ Owned(inbox', Own2')
  <2>1. Leads(inbox, Shared, Two!Done)
    BY <1>2, <1>3, OtherHolds DEF FirstAhead, IsAhead
  <2> QED BY <1>1, <1>2, <1>5, <1>8, <1>14, <2>1, OwnedTail DEF Replicas
<1>16. Sound(Shared')
  BY <1>2, <1>3, <1>6, AfterSound DEF Replicas
<1> QED BY <1>2, <1>6, <1>8, <1>10, <1>12, <1>13, <1>14, <1>15, <1>16 DEF InSync, Replicas

\* The second server reads.
LEMMA OtherReads ==
  ASSUME InSync, Two!Apply, UNCHANGED <<serverVars, linked>>
  PROVE  InSync' /\ [L!InStepNext]_L!vars
<1>1. outbox # <<>>
  BY DEF Two!Apply
<1>2. Pair /\ Replicas
  BY DEF InSync, Replicas
<1>3. /\ ~Two!IsUploading /\ inbox = <<>> /\ Good(Head(outbox), Two!Shared)
      /\ 1 \in 1 .. Len(outbox) /\ Head(outbox) = outbox[1]
  <2>1. ~IsAhead(inbox, Two!IsUploading)
    BY <1>1, <1>2 DEF Pair, Paired, IsAhead
  <2>2. Paired(inbox, outbox, Two!IsUploading, IsUploading, Two!Shared, Shared, Two!Done, Done)
    BY <1>2, PairedTurned DEF Pair
  <2> QED BY <1>1, <2>1, <2>2, PairedGood DEF IsAhead
<1>4. Two!Reads
  <2>1. Head(outbox).type = "root" => Head(outbox).id \in Own
    BY <1>2, <1>3 DEF Replicas, Owned
  <2>2. \A c \in Own : ~Two!Mine(c)
    BY <1>2 DEF Replicas, Own, Own2
  <2> QED BY <1>2, <1>3, <2>1, <2>2, SameSound DEF Replicas, Two!Reads
<1>5. Two!Repeats /\ outbox' = Tail(outbox) /\ inbox' = inbox
  BY <1>4, Two!Applied, SecondAssumptions
<1>6. /\ Two!Shared' = After(Head(outbox), Two!Shared) /\ Two!Working' /\ ~Two!IsUploading'
      /\ assigned2' = assigned2 /\ lockHeld2' = lockHeld2
      /\ \A d \in Client : Two!Mine(d)' <=> Two!Mine(d)
  BY <1>5, SameEffects DEF Two!Repeats
<1>7. Two!Done' = Two!Shared'
  BY <1>6, Two!DoneNextIs, SecondAssumptions
<1>8. /\ Working' /\ Shared' = Shared /\ Done' = Done
      /\ IsUploading' <=> IsUploading
      /\ Own' = Own /\ assigned' = assigned /\ lockHeld' = lockHeld
  BY <1>2, FirstStands DEF Replicas
<1>9. Paired(<<>>, Tail(outbox), FALSE, IsUploading, Two!Shared', Shared, Two!Done', Done)
  <2> DEFINE vp == IsUploading
             a2 == Two!Shared'
             d2 == Two!Done'
             up == Two!IsUploading
             up2 == FALSE
  <2>1. Paired(inbox, outbox, up, vp, Two!Shared, Shared, Two!Done, Done)
    BY <1>2, PairedTurned DEF Pair
  <2>2. a2 = After(Head(outbox), Two!Shared) /\ d2 = a2 /\ ~up2
    BY <1>6, <1>7
  <2> HIDE DEF vp, up, a2, d2, up2
  <2>3. inbox = <<>> /\ Paired(inbox, Tail(outbox), up2, vp, a2, Shared, d2, Done)
    BY <1>1, <2>1, <2>2, PairedReads
  <2> QED BY <2>3 DEF vp, a2, d2, up2
<1>10. Pair'
  BY <1>3, <1>5, <1>6, <1>8, <1>9 DEF Pair, Paired, IsAhead
<1>11. Log' = Log /\ Awaiting' = Awaiting
  <2>1. Log = Done
    BY <1>3 DEF Log, LogOf, IsAhead
  <2>2. Log' = Done'
    BY <1>3, <1>5, <1>6 DEF Log, LogOf, IsAhead
  <2> QED BY <1>6, <1>8, <2>1, <2>2 DEF Awaiting
<1>12. [L!InStepNext]_L!vars
  BY <1>11 DEF L!vars, L!groups, L!votes
<1>13. L!HandOver' /\ L!GroupsFull'
  BY <1>12, LogKeeps DEF InSync
<1>14. Own2' = Own2
  BY <1>6 DEF Own2
<1>15. Owned(outbox', Own') /\ Owned(inbox', Own2')
  <2>1. Leads(outbox, Two!Shared, Done)
    BY <1>2, <1>3, FirstHolds DEF OtherAhead, IsAhead
  <2> QED BY <1>1, <1>2, <1>5, <1>8, <1>14, <2>1, OwnedTail DEF Replicas
<1>16. Sound(Two!Shared')
  BY <1>2, <1>3, <1>6, AfterSound DEF Replicas
<1> QED BY <1>2, <1>6, <1>8, <1>10, <1>12, <1>13, <1>14, <1>15, <1>16 DEF InSync, Replicas

-----------------------------------------------------------------------------
(***************************************************************************)
(* Every step, and the start.                                              *)
(***************************************************************************)
\* Nobody on the other server is between the two halves of an upload.
LEMMA WhoUploads ==
  /\ Uploading(work) <=> IsUploading
  /\ Uploading(work2) <=> Two!IsUploading
BY DEF Uploading, IsUploading, Two!IsUploading

\* The second half of an upload tells the other server nothing: it knows.
LEMMA FinishServed ==
  ASSUME InSync, Finishes
  PROVE  Served /\ inbox = <<>> /\ ~Two!IsUploading
<1>1. PICK c \in Client : FinishesUpload(c)
  BY DEF Finishes
<1>2. Working /\ Sound(Shared) /\ Pair /\ assigned \in [Shards -> Nat]
  BY DEF InSync, Replicas
<1>3. /\ IsUploading /\ Done' = Done
      /\ Working' /\ Sound(Shared')
      /\ UNCHANGED <<assigned, lockHeld, linked, inbox, outbox>>
      /\ \A d \in Client : Mine(d)' <=> Mine(d)
  BY <1>1, <1>2, Finished
<1>4. inbox = <<>> /\ ~Two!IsUploading
  BY <1>2, <1>3 DEF Pair, Paired, IsAhead
<1> QED BY <1>2, <1>3, <1>4 DEF Served, Quiet

\* The second one likewise.
LEMMA OtherFinishServed ==
  ASSUME InSync, Second!Finishes
  PROVE  Two!Served /\ outbox = <<>> /\ ~IsUploading
<1>1. PICK c \in Client : Two!FinishesUpload(c)
  BY SameFinish DEF Second!Finishes
<1>2. /\ Two!Working /\ Two!Sound(Two!Shared) /\ Pair
      /\ assigned2 \in [Two!Shards -> Nat]
  BY SameSound, SameShards DEF InSync, Replicas
<1>3. /\ Two!IsUploading /\ Two!Done' = Two!Done
      /\ Two!Working' /\ Two!Sound(Two!Shared')
      /\ UNCHANGED <<assigned2, lockHeld2, linked2, inbox, outbox>>
      /\ \A d \in Client : Two!Mine(d)' <=> Two!Mine(d)
  BY <1>1, <1>2, Two!Finished, SecondAssumptions
<1>4. outbox = <<>> /\ ~IsUploading
  BY <1>2, <1>3 DEF Pair, Paired, IsAhead
<1> QED BY <1>2, <1>3, <1>4 DEF Two!Served, Two!Quiet

\* A request is taken by a server that is not behind, and may be.
LEMMA RequestIsServed ==
  ASSUME InSync, FirstServes
  PROVE  Served /\ UNCHANGED second /\ inbox = <<>> /\ ~Two!IsUploading
<1>1. linked /\ inbox = <<>> /\ ~Two!IsUploading
  BY WhoUploads DEF FirstServes, InTime
<1>2. (Requests \/ Assigns) /\ UNCHANGED second
  BY DEF FirstServes, First
<1>3. Replicas /\ Log = Done
  BY <1>1, FirstHolds DEF InSync, Replicas, OtherAhead, IsAhead
<1>4. Serving
  BY <1>1, <1>3, FirstSteady DEF Replicas, Serving
<1> QED BY <1>1, <1>2, <1>4, Serves

\* The second one likewise.
LEMMA OtherRequestIsServed ==
  ASSUME InSync, OtherServes
  PROVE  Two!Served /\ UNCHANGED <<serverVars, linked>> /\ outbox = <<>> /\ ~IsUploading
<1>1. linked2 /\ outbox = <<>> /\ ~IsUploading
  BY WhoUploads DEF OtherServes, InTime
<1>2. (Two!Requests \/ Two!Assigns) /\ UNCHANGED <<serverVars, linked>>
  BY SameRequests DEF OtherServes, Other
<1>3. Replicas /\ Log = Two!Done
  BY <1>1, OtherHolds DEF InSync, Replicas, FirstAhead, IsAhead
<1>4. Two!Serving
  BY <1>1, <1>3, OtherSteady, SameSound, SameShards DEF Replicas, Two!Serving
<1> QED BY <1>1, <1>2, <1>4, Two!Serves, SecondAssumptions

\* Nothing but the connections changes.
LEMMA NobodyActs ==
  ASSUME InSync, UNCHANGED <<serverVars, inbox, outbox>>,
         UNCHANGED <<Two!serverVars>>
  PROVE  InSync' /\ [L!InStepNext]_L!vars
<1>1. Replicas
  BY DEF InSync
<1>2. UNCHANGED <<serverVars>> /\ inbox' = inbox /\ outbox' = outbox
  OBVIOUS
<1>3. /\ Working' /\ Shared' = Shared /\ Done' = Done
      /\ IsUploading' <=> IsUploading
      /\ assigned' = assigned /\ lockHeld' = lockHeld
      /\ \A c \in Client : Mine(c)' <=> Mine(c)
  BY <1>1, <1>2, StillWorking DEF Replicas
<1>4. /\ Two!Working' /\ Two!Shared' = Two!Shared /\ Two!Done' = Two!Done
      /\ Two!IsUploading' <=> Two!IsUploading
      /\ assigned2' = assigned2 /\ lockHeld2' = lockHeld2
      /\ \A c \in Client : Two!Mine(c)' <=> Two!Mine(c)
  BY <1>1, Two!StillWorking, SecondAssumptions DEF Replicas
<1>5. Own' = Own /\ Own2' = Own2
  BY <1>3, <1>4 DEF Own, Own2
<1>6. Pair'
  BY <1>1, <1>2, <1>3, <1>4 DEF Replicas, Pair, Paired, IsAhead
<1>7. Log' = Log /\ Awaiting' = Awaiting
  BY <1>2, <1>3, <1>4 DEF Log, LogOf, IsAhead, Awaiting
<1>8. [L!InStepNext]_L!vars
  BY <1>7 DEF L!vars, L!groups, L!votes
<1>9. L!HandOver' /\ L!GroupsFull'
  BY <1>8, LogKeeps DEF InSync
<1> QED BY <1>1, <1>2, <1>3, <1>4, <1>5, <1>6, <1>8, <1>9 DEF InSync, Replicas
\* The two start from the same state.
LEMMA StartsAlike ==
  ASSUME PeerInit, Two!PeerInit
  PROVE  Shared = Two!Shared
<1>1. Init /\ Two!Init /\ Books!LedgerInit /\ Two!Books!LedgerInit
  BY DEF PeerInit, HorizonInit, Two!PeerInit, Two!HorizonInit
<1>2. /\ round = round2 /\ NodeNum = NodeNum2 /\ client = client2 /\ seat = seat2
      /\ Consensus_Map = Consensus_Map2 /\ Validation_Map = Validation_Map2
      /\ Winner = Winner2 /\ NewRootsVote = NewRootsVote2 /\ RootsVote = RootsVote2
  BY <1>1, SameShards DEF Init, Two!Init
<1>3. /\ Two!Books!Shards = Books!Shards /\ Two!Books!Kinds = Books!Kinds
      /\ Two!Books!Stages = Books!Stages /\ Two!Books!Struct = Books!Struct
      /\ Two!Books!Address = Books!Address
  BY SameBookkeeping
     DEF Two!Books!Shards, Books!Shards, Two!Books!Stages, Books!Stages
<1>4. Two!Books!Empty = Books!Empty
  BY <1>3 DEF Two!Books!Empty, Books!Empty
<1>5. Two!Books!MakePool = Books!MakePool /\ Two!Books!NoLists = Books!NoLists
  BY <1>3, <1>4 DEF Two!Books!MakePool, Books!MakePool, Two!Books!NoLists, Books!NoLists
<1>6. Two!Books!Initially = Books!Initially
  BY <1>3 DEF Two!Books!Initially, Books!Initially, Two!Books!Made, Books!Made
<1>7. Two!Books!Accounts = Books!Accounts
  BY <1>3 DEF Two!Books!Accounts, Books!Accounts
<1>8. pool = pool2 /\ height = height2 /\ chain = chain2 /\ WitnessCount = WitnessCount2
  BY <1>1, <1>3, <1>5, <1>6 DEF Books!LedgerInit, Two!Books!LedgerInit, Books!Init,
     Two!Books!Init
<1>9. /\ AccountMap = AccountMap2 /\ NewAccountMap = NewAccountMap2
      /\ Value = Value2 /\ StateRoot = StateRoot2
  BY <1>1, <1>3, <1>7 DEF Books!LedgerInit, Two!Books!LedgerInit
<1> QED BY <1>2, <1>8, <1>9 DEF Shared, Two!Shared

\* Two servers that have just started are in sync, and the log is an empty membership.
LEMMA Starts ==
  ASSUME PeersInit
  PROVE  InSync /\ L!Init
<1>1. PeerInit /\ Two!PeerInit
  BY SameInit DEF PeersInit
<1>2. /\ Working /\ Sound(Shared) /\ ~IsUploading /\ Done = Shared
      /\ assigned = [s \in Shards |-> 0] /\ ~lockHeld
      /\ inbox = <<>> /\ outbox = <<>>
      /\ \A c \in Client : ~Mine(c)
  BY <1>1, StartsSound
<1>3. /\ Two!Working /\ Sound(Two!Shared) /\ ~Two!IsUploading /\ Two!Done = Two!Shared
      /\ assigned2 = [s \in Shards |-> 0] /\ ~lockHeld2
      /\ \A c \in Client : ~Two!Mine(c)
  BY <1>1, Two!StartsSound, SecondAssumptions, SameSound, SameShards
<1>4. Shared = Two!Shared
  BY <1>1, StartsAlike
<1>5. Pair
  <2>1. Leads(outbox, Two!Shared, Done) /\ Leads(inbox, Shared, Two!Done)
    BY <1>2, <1>3, <1>4, LeadsNowhere
  <2> QED BY <1>2, <1>3, <2>1 DEF Pair, Paired, IsAhead
<1>6. Replicas
  <2>1. Own = {} /\ Own2 = {}
    BY <1>2, <1>3 DEF Own, Own2
  <2>2. Owned(outbox, Own) /\ Owned(inbox, Own2)
    BY <1>2 DEF Owned
  <2> QED BY <1>2, <1>3, <1>5, <2>1, <2>2 DEF Replicas
<1>7. Log = Shared
  BY <1>2, <1>3 DEF Log, LogOf, IsAhead
<1>8. Awaiting = [s \in Shards |-> 0]
  BY <1>2, <1>3 DEF Awaiting, Together
<1>9. L!Init
  <2>1. Init
    BY <1>1 DEF PeerInit, HorizonInit
  <2> QED BY <1>7, <1>8, <2>1, SharedField, LogGroups DEF Init, L!Init
<1>10. L!HandOver
  BY <1>9, L!InitHandOver, LogAssumption
<1>11. L!GroupsFull
  BY <1>9 DEF L!Init, L!GroupsFull
<1> QED BY <1>6, <1>9, <1>10, <1>11 DEF InSync

\* Every step of either keeps them in sync and is a step of the log.
LEMMA Steps ==
  ASSUME InSync, [PeersNext]_<<peerVars, second>>
  PROVE  InSync' /\ [L!InStepNext]_L!vars
<1>1. CASE First(AcceptsPeer)
  <2>1. UNCHANGED <<serverVars, inbox, outbox>> /\ UNCHANGED second
    BY <1>1 DEF First, AcceptsPeer
  <2>2. UNCHANGED <<Two!serverVars>>
    BY <2>1 DEF second, Two!serverVars, Two!vars, Two!groups, Two!votes, Two!books, Two!money
  <2> QED BY <2>1, <2>2, NobodyActs
<1>2. CASE FirstServes
  BY <1>2, RequestIsServed, FirstServed
<1>3. CASE First(Finishes)
  BY <1>3, FinishServed, FirstServed DEF First
<1>4. CASE First(Apply)
  BY <1>4, FirstReads DEF First
<1>5. CASE Other(Second!AcceptsPeer)
  <2>1. Two!AcceptsPeer /\ UNCHANGED <<serverVars, linked>>
    BY <1>5, SameRequests DEF Other
  <2>2. UNCHANGED <<Two!serverVars>> /\ UNCHANGED <<serverVars, inbox, outbox>>
    BY <2>1 DEF Two!AcceptsPeer
  <2> QED BY <2>2, NobodyActs
<1>6. CASE OtherServes
  BY <1>6, OtherRequestIsServed, OtherServed
<1>7. CASE Other(Second!Finishes)
  BY <1>7, OtherFinishServed, OtherServed DEF Other
<1>8. CASE Other(Second!Apply)
  BY <1>8, SameApply, OtherReads DEF Other
<1>9. CASE UNCHANGED <<peerVars, second>>
  <2>1. UNCHANGED <<serverVars, inbox, outbox>> /\ UNCHANGED second
    BY <1>9 DEF peerVars, links
  <2>2. UNCHANGED <<Two!serverVars>>
    BY <2>1 DEF second, Two!serverVars, Two!vars, Two!groups, Two!votes, Two!books, Two!money
  <2> QED BY <2>1, <2>2, NobodyActs
<1> QED BY <1>1, <1>2, <1>3, <1>4, <1>5, <1>6, <1>7, <1>8, <1>9 DEF PeersNext

\* Two servers of which each takes requests only when it has read all the other
\* wrote, and the other is not uploading, stay in sync: at most one is ahead, its
\* messages lead the other to where it is, and what is ahead is a Membership in step.
THEOREM StaysInSync == PeersSpec => []InSync
<1>1. PeersInit => InSync
  BY Starts
<1>2. InSync /\ [PeersNext]_<<peerVars, second>> => InSync'
  BY Steps
<1> QED BY <1>1, <1>2, PTL DEF PeersSpec

-----------------------------------------------------------------------------
(***************************************************************************)
(* The theorems.                                                           *)
(***************************************************************************)
\* However the requests of the clients and the messages of the two servers
\* interleave, no forwarded client, block, vote or root reaches a server in a state
\* in which its reading goroutine keeps Source.Lock or ends the process.
THEOREM BothGoOn == PeersSpec => []BothServe
<1>1. InSync => BothServe
  BY DEF InSync, Replicas, BothServe
<1> QED BY <1>1, StaysInSync, PTL

\* Two servers that get to sync have the same groups, committee, leader, votes,
\* chain, accounts and pools whenever nothing is on its way between them.
THEOREM ServersEndAlike == PeersSpec => []ServersAgree
<1>1. InSync => ServersAgree
  <2> SUFFICES ASSUME InSync, AtRest
               PROVE  /\ <<NodeNum, client, seat, Consensus_Map, Validation_Map, Winner>> =
                         <<NodeNum2, client2, seat2, Consensus_Map2, Validation_Map2, Winner2>>
                      /\ <<NewRootsVote, RootsVote, WitnessCount, height, chain, money>> =
                         <<NewRootsVote2, RootsVote2, WitnessCount2, height2, chain2,
                           Second!money>>
                      /\ \A stage \in {0, 1} : pool[stage] = pool2[stage]
    BY DEF ServersAgree
  <2>1. inbox = <<>> /\ outbox = <<>> /\ ~IsUploading /\ ~Two!IsUploading
    BY WhoUploads DEF AtRest
  <2>2. Shared = Two!Shared
    BY <2>1, PairedAtRest DEF InSync, Replicas, Pair, IsAhead
  <2>3. /\ NodeNum = NodeNum2 /\ client = client2 /\ seat = seat2
        /\ Consensus_Map = Consensus_Map2 /\ Validation_Map = Validation_Map2
        /\ Winner = Winner2 /\ NewRootsVote = NewRootsVote2 /\ RootsVote = RootsVote2
        /\ pool[0] = pool2[0] /\ pool[1] = pool2[1]
        /\ height = height2 /\ chain = chain2 /\ WitnessCount = WitnessCount2
        /\ AccountMap = AccountMap2 /\ NewAccountMap = NewAccountMap2
        /\ Value = Value2 /\ StateRoot = StateRoot2
    BY <2>2, SharedField, Two!SharedField, SecondAssumptions
  <2>4. money = Second!money
    BY <2>3 DEF money, Second!money
  <2>5. \A stage \in {0, 1} : pool[stage] = pool2[stage]
    BY <2>3
  <2> QED BY <2>3, <2>4, <2>5
<1> QED BY <1>1, StaysInSync, PTL

\* Two servers that get to sync are one Membership with rounds in step: the state of
\* the one that is ahead starts as Membership does, and whatever either server does
\* is a step of it or leaves it alone.
THEOREM TwoServersAreOne == PeersSpec => L!Init /\ [][L!InStepNext]_L!vars
<1>1. PeersInit => L!Init
  BY Starts
<1>2. InSync /\ [PeersNext]_<<peerVars, second>> => [L!InStepNext]_L!vars
  BY Steps
<1> QED BY <1>1, <1>2, StaysInSync, PTL DEF PeersSpec

\* So what is proved of Membership holds of the two together: every shard has one
\* member in the committee, whichever server it registered with, the leader has the
\* smallest random number of all clients of either server, no shard has more than
\* CLIENT_MAX of them, and every executor that owes a root is in the validation map.
THEOREM PairElectsAsOne ==
  PeersSpec => [](L!NoOverfill /\ L!OneSeatPerShard /\ L!LeaderIsSmallest /\ L!ExecutorsHeld)
<1>1. [L!InStepNext]_L!vars => [L!Next]_L!vars
  BY L!InStepIsNext, LogAssumption
<1>2. L!Spec => [](L!NoOverfill /\ L!OneSeatPerShard /\ L!LeaderIsSmallest)
  <2>1. L!Spec => []L!NoOverfill
    BY L!NeverOverfilled, LogAssumption DEF L!MembershipAssumption
  <2>2. L!Spec => []L!OneSeatPerShard
    BY L!OneMemberPerShard, LogAssumption DEF L!MembershipAssumption
  <2>3. L!Spec => []L!LeaderIsSmallest
    BY L!LeaderCorrect, LogAssumption DEF L!MembershipAssumption
  <2> QED BY <2>1, <2>2, <2>3, PTL
<1>3. InSync => L!ExecutorsHeld
  <2>1. L!HandOver => \A c \in L!OwedRoots : L!IsValidator(c)
    BY L!OwedIsHeld, LogAssumption
  <2> QED BY <2>1 DEF InSync, L!ExecutorsHeld, L!HandOver
<1> QED BY <1>1, <1>2, <1>3, TwoServersAreOne, StaysInSync, PTL DEF L!Spec

-----------------------------------------------------------------------------
(***************************************************************************)
(* Two servers in the first round that need not get to sync.               *)
(***************************************************************************)
\* What crosses is the same seen from the second server.
LEMMA SameCrossing ==
  \A q, p, a, b : Two!Crossing(q, p, a, b) <=> Crossing(q, p, a, b)
<1>1. Two!Notes = Notes /\ \A s : Two!NodeNote(s) = NodeNote(s)
  BY SameShards DEF Two!Notes, Notes, Two!NodeNote, NodeNote, Two!ClientNote, ClientNote
<1>2. \A a : Two!IsView(a) <=> IsView(a)
  BY SameShards DEF Two!IsView, IsView
<1>3. \A q, a, b : Two!Carries(q, a, b) <=> Carries(q, a, b)
  BY <1>1 DEF Two!Carries, Carries
<1>4. \A q, s : Two!Unread(q, s) = Unread(q, s)
  BY <1>1 DEF Two!Unread, Unread
<1>5. \A a, s : Two!GroupOf(a, s) = GroupOf(a, s)
  BY DEF Two!GroupOf, GroupOf
<1>6. \A a, b, s : Two!ToldOf(a, b, s) = ToldOf(a, b, s)
  BY <1>5, SameSets DEF Two!ToldOf, ToldOf
<1>7. \A p, a, b : Two!Counts(p, a, b) <=> Counts(p, a, b)
  BY <1>4, <1>6, SameSets, SameShards DEF Two!Counts, Counts
<1> QED BY <1>2, <1>3, <1>7 DEF Two!Crossing, Crossing

\* Registering with a new id.
LEMMA SameRegisters ==
  \A c, s : Second!RegistersAs(c, s) <=> Two!RegistersAs(c, s)
BY SameJoin, SameTuples DEF Second!RegistersAs, Two!RegistersAs, Second!Forwarding, Two!Forwarding,
   Second!OnlyJoins, Two!OnlyJoins

\* Every client and every slot is known to both servers or in one message to the one
\* that does not know it, and each has elected as its clients have it.
Joining == Early /\ Two!Early /\ Crossing(outbox, inbox, View, Two!View)

\* It holds at first,
LEMMA StartsJoining == PeersInit => Joining
<1> SUFFICES ASSUME PeersInit
             PROVE  Joining
  OBVIOUS
<1>1. PeerInit /\ Two!PeerInit
  BY SameInit DEF PeersInit
<1> DEFINE a == View
           b == Two!View
<1>2. /\ Early /\ a.members = {}
      /\ \A s \in Shards : a.NodeNum[s] = 0 /\ a.assigned[s] = 0
      /\ a.NodeNum \in [Shards -> Nat] /\ a.assigned \in [Shards -> Nat]
  BY <1>1, StartsEarly
<1>3. /\ Two!Early /\ b.members = {}
      /\ \A s \in Shards : b.NodeNum[s] = 0 /\ b.assigned[s] = 0
      /\ b.NodeNum \in [Shards -> Nat] /\ b.assigned \in [Shards -> Nat]
  BY <1>1, SecondAssumptions, SameShards, Two!StartsEarly
<1>4. inbox = <<>> /\ outbox = <<>>
  BY <1>1 DEF PeerInit
<1> HIDE DEF a, b
<1>5. IsView(a) /\ IsView(b) /\ Carries(<<>>, a, b) /\ Carries(<<>>, b, a)
  BY <1>2, <1>3 DEF IsView, Carries
<1>6. \A s : GroupOf(a, s) = {} /\ GroupOf(b, s) = {} /\ Unread(<<>>, s) = {}
  BY <1>2, <1>3 DEF GroupOf, Unread
<1>7. ASSUME NEW s \in Shards
      PROVE  ToldOf(a, b, s) = 0 /\ ToldOf(b, a, s) = 0
  <2>1. GroupOf(a, s) \cup GroupOf(b, s) = {} /\ GroupOf(b, s) \cup GroupOf(a, s) = {}
    BY <1>6
  <2>2. Cardinality(GroupOf(a, s) \cup GroupOf(b, s)) = 0
    BY <2>1, FS_EmptySet
  <2>3. Cardinality(GroupOf(b, s) \cup GroupOf(a, s)) = 0
    BY <2>1, FS_EmptySet
  <2> QED BY <1>2, <1>3, <2>2, <2>3 DEF ToldOf
<1>8. Counts(<<>>, a, b) /\ Counts(<<>>, b, a)
  <2>1. \A s : Cardinality(Unread(<<>>, s)) = 0
    BY <1>6, FS_EmptySet
  <2> QED BY <1>2, <1>3, <1>7, <2>1 DEF Counts
<1>9. Crossing(<<>>, <<>>, a, b)
  BY <1>2, <1>5, <1>8 DEF Crossing
<1> QED BY <1>2, <1>3, <1>4, <1>9 DEF Joining, a, b

\* A step of the first server, at which its peer stands still.
LEMMA FirstMoves ==
  ASSUME Joining, UNCHANGED second, Early' /\ Crossing(outbox', inbox', View', Two!View)
  PROVE  Joining'
<1>1. Two!Early /\ UNCHANGED Two!serverVars
  BY SameTuples DEF Joining, second, Two!serverVars, Two!vars, Two!groups, Two!votes, Two!books, Two!money
<1>2. Two!Early' /\ Two!View' = Two!View
  BY <1>1, SecondAssumptions, Two!IdlesEarly
<1> QED BY <1>2 DEF Joining

\* The other way round.
LEMMA OtherMoves ==
  ASSUME Joining, UNCHANGED serverVars, Two!Early' /\ Crossing(inbox', outbox', Two!View', View)
  PROVE  Joining'
<1>1. Early' /\ View' = View
  BY IdlesEarly DEF Joining
<1>2. Crossing(outbox', inbox', View, Two!View')
  BY CrossingTurned
<1> QED BY <1>1, <1>2 DEF Joining

\* every step keeps it,
LEMMA KeepsJoining == Joining /\ [JoiningNext]_<<peerVars, second>> => Joining'
<1> SUFFICES ASSUME Joining, [JoiningNext]_<<peerVars, second>>
             PROVE  Joining'
  OBVIOUS
<1> DEFINE b == Two!View
           a == View
<1>1. Early /\ Two!Early /\ Crossing(outbox, inbox, View, b)
  BY DEF Joining
<1>2. Two!Crossing(inbox, outbox, Two!View, a)
  BY <1>1, CrossingTurned, SameCrossing
<1>3. CASE First(AcceptsPeer)
  <2>1. UNCHANGED serverVars /\ UNCHANGED second /\ inbox' = inbox /\ outbox' = outbox
    BY <1>3 DEF First, AcceptsPeer
  <2>2. Early' /\ View' = View
    BY <1>1, <2>1, IdlesEarly
  <2> QED BY <1>1, <2>1, <2>2, FirstMoves
<1>4. CASE FirstJoins
  <2>1. linked /\ UNCHANGED second
    BY <1>4 DEF FirstJoins, First
  <2>2. CASE Assigns
    <3> HIDE DEF b
    <3>1. Early' /\ Crossing(outbox', inbox', View', b)
      BY <1>1, <2>1, <2>2, AssignsEarly
    <3> QED BY <2>1, <3>1, FirstMoves DEF b
  <2>3. CASE \E c \in Client, s \in Shards : Fresh(c) /\ RegistersAs(c, s)
    <3>1. PICK c \in Client, s \in Shards : Fresh(c) /\ RegistersAs(c, s)
      BY <2>3
    <3>2. seat[c] = "none" /\ c \notin b.members
      BY <3>1 DEF Fresh, Two!View
    <3> HIDE DEF b
    <3>3. Early' /\ Crossing(outbox', inbox', View', b)
      BY <1>1, <2>1, <3>1, <3>2, RegistersEarly
    <3> QED BY <2>1, <3>3, FirstMoves DEF b
  <2> QED BY <1>4, <2>2, <2>3 DEF FirstJoins, First
<1>5. CASE First(Apply)
  <2>1. Apply /\ UNCHANGED second
    BY <1>5 DEF First
  <2> HIDE DEF b
  <2>2. Early' /\ Crossing(outbox', inbox', View', b)
    BY <1>1, <2>1, AppliesEarly
  <2> QED BY <2>1, <2>2, FirstMoves DEF b
<1>6. CASE Other(Second!AcceptsPeer)
  <2>1. UNCHANGED serverVars /\ UNCHANGED Two!serverVars /\ inbox' = inbox /\ outbox' = outbox
    BY <1>6, SameTuples DEF Other, Second!AcceptsPeer
  <2>2. Two!Early' /\ Two!View' = Two!View
    BY <1>1, <2>1, SecondAssumptions, Two!IdlesEarly
  <2>3. Crossing(inbox, outbox, Two!View, View)
    BY <1>1, CrossingTurned
  <2> QED BY <2>1, <2>2, <2>3, OtherMoves
<1>7. CASE OtherJoins
  <2>1. linked2 /\ UNCHANGED serverVars
    BY <1>7 DEF OtherJoins, Other
  <2>2. CASE Second!Assigns
    <3>1. Two!Assigns
      BY <2>2, SameRequests
    <3> HIDE DEF a
    <3>2. Two!Early' /\ Two!Crossing(inbox', outbox', Two!View', a)
      BY <1>1, <1>2, <2>1, <3>1, SecondAssumptions, Two!AssignsEarly
    <3>3. Crossing(inbox', outbox', Two!View', a)
      BY <3>2, SameCrossing
    <3> QED BY <2>1, <3>2, <3>3, OtherMoves DEF a
  <2>3. CASE \E c \in Client, s \in Shards : Fresh(c) /\ Second!RegistersAs(c, s)
    <3>1. PICK c \in Client, s \in Shards : Fresh(c) /\ Second!RegistersAs(c, s)
      BY <2>3
    <3>2. seat2[c] = "none" /\ c \notin a.members
      BY <3>1 DEF Fresh, View
    <3>3. Two!RegistersAs(c, s) /\ s \in Two!Shards
      BY <3>1, SameRegisters, SameShards
    <3> HIDE DEF a
    <3>4. Two!Early' /\ Two!Crossing(inbox', outbox', Two!View', a)
      BY <1>1, <1>2, <2>1, <3>2, <3>3, SecondAssumptions, Two!RegistersEarly
    <3>5. Crossing(inbox', outbox', Two!View', a)
      BY <3>4, SameCrossing
    <3> QED BY <2>1, <3>4, <3>5, OtherMoves DEF a
  <2> QED BY <1>7, <2>2, <2>3 DEF OtherJoins, Other
<1>8. CASE Other(Second!Apply)
  <2>1. Two!Apply /\ UNCHANGED serverVars
    BY <1>8, SameApply DEF Other
  <2> HIDE DEF a
  <2>2. Two!Early' /\ Two!Crossing(inbox', outbox', Two!View', a)
    BY <1>1, <1>2, <2>1, SecondAssumptions, Two!AppliesEarly
  <2>3. Crossing(inbox', outbox', Two!View', a)
    BY <2>2, SameCrossing
  <2> QED BY <2>1, <2>2, <2>3, OtherMoves DEF a
<1>9. CASE UNCHANGED <<peerVars, second>>
  <2>1. UNCHANGED serverVars /\ UNCHANGED second /\ inbox' = inbox /\ outbox' = outbox
    BY <1>9 DEF peerVars, links
  <2>2. Early' /\ View' = View
    BY <1>1, <2>1, IdlesEarly
  <2> QED BY <1>1, <2>1, <2>2, FirstMoves
<1> QED BY <1>3, <1>4, <1>5, <1>6, <1>7, <1>8, <1>9 DEF JoiningNext

\* and so it always holds.
THEOREM StaysJoining == JoiningSpec => []Joining
<1>1. PeersInit => Joining
  BY StartsJoining
<1>2. Joining /\ [JoiningNext]_<<peerVars, second>> => Joining'
  BY KeepsJoining
<1> QED BY <1>1, <1>2, PTL DEF JoiningSpec

\* Nothing on its way: both know all clients and all slots.
LEMMA AllHeard ==
  ASSUME Joining, AtRest
  PROVE  /\ \A s \in Shards : NodeNum[s] = Told(s) /\ NodeNum2[s] = Told(s)
         /\ \A c \in Client : (seat[c] = "none" <=> seat2[c] = "none") /\ client[c] = client2[c]
         /\ \A s \in Shards : Registered(s, round) = Second!Registered(s, round2)
         /\ \A s \in Shards : assigned[s] \in Nat /\ assigned2[s] \in Nat
         /\ NodeNum = NodeNum2 /\ client = client2
<1> DEFINE a == View
           b == Two!View
<1>1. /\ FirstRound /\ Two!FirstRound /\ Crossing(<<>>, <<>>, a, b)
  BY DEF Joining, AtRest, Early, Two!Early
<1>2. /\ IsView(a) /\ IsView(b) /\ Carries(<<>>, a, b) /\ Carries(<<>>, b, a)
      /\ \A c \in a.members \cap b.members : a.client[c].shard = b.client[c].shard
      /\ Counts(<<>>, a, b) /\ Counts(<<>>, b, a)
  BY <1>1 DEF Crossing
<1>3. a.members = b.members
  BY <1>2 DEF Carries
<1>4. /\ a.members = {c \in Client : seat[c] # "none"} /\ a.client = client
      /\ a.NodeNum = NodeNum /\ a.assigned = assigned
  BY DEF View
<1>5. /\ b.members = {c \in Client : seat2[c] # "none"} /\ b.client = client2
      /\ b.NodeNum = NodeNum2 /\ b.assigned = assigned2
  BY DEF Two!View
<1> HIDE DEF a, b
<1>6. ASSUME NEW c \in Client
      PROVE  (seat[c] = "none" <=> seat2[c] = "none") /\ client[c] = client2[c]
  <2>1. seat[c] = "none" <=> seat2[c] = "none"
    BY <1>3, <1>4, <1>5
  <2>2. CASE seat[c] = "none"
    BY <1>1, <2>1, <2>2 DEF FirstRound, Two!FirstRound
  <2>3. CASE seat[c] # "none"
    <3>1. client[c].shard = client2[c].shard
      BY <1>2, <1>3, <1>4, <1>5, <2>3
    <3>2. /\ client[c].round = client2[c].round /\ client[c].random = client2[c].random
          /\ client[c] \in [shard : 0 .. ShardNum, round : Nat, random : Int]
          /\ client2[c] \in [shard : 0 .. ShardNum, round : Nat, random : Int]
      BY <1>1, <2>1, <2>3 DEF FirstRound, Two!FirstRound
    <3>3. \A r \in [shard : 0 .. ShardNum, round : Nat, random : Int] :
            r = [shard |-> r.shard, round |-> r.round, random |-> r.random]
      OBVIOUS
    <3>4. client[c] = [shard |-> client[c].shard, round |-> client[c].round, random |-> client[c].random]
      BY <3>2, <3>3
    <3>5. client2[c] = [shard |-> client2[c].shard, round |-> client2[c].round, random |-> client2[c].random]
      BY <3>2, <3>3
    <3> QED BY <2>1, <3>1, <3>2, <3>4, <3>5
  <2> QED BY <2>1, <2>2, <2>3
<1>7. ASSUME NEW s \in Shards
      PROVE  Registered(s, round) = GroupOf(a, s) /\ Second!Registered(s, round2) = GroupOf(b, s)
  BY <1>1, <1>4, <1>5, <1>6 DEF Registered, Second!Registered, GroupOf, FirstRound, Two!FirstRound
<1>8. ASSUME NEW s \in Shards
      PROVE  ToldOf(a, b, s) = Told(s) /\ ToldOf(b, a, s) = Told(s)
  <2>1. assigned[s] \in Nat /\ assigned2[s] \in Nat
    BY <1>2, <1>4, <1>5 DEF IsView
  <2>2. GroupOf(b, s) \cup GroupOf(a, s) = GroupOf(a, s) \cup GroupOf(b, s)
    OBVIOUS
  <2>3. /\ ToldOf(a, b, s) = assigned[s] + assigned2[s] + Cardinality(GroupOf(a, s) \cup GroupOf(b, s))
        /\ ToldOf(b, a, s) = assigned2[s] + assigned[s] + Cardinality(GroupOf(a, s) \cup GroupOf(b, s))
    BY <1>4, <1>5, <2>2 DEF ToldOf
  <2>4. Told(s) = assigned[s] + assigned2[s] + Cardinality(GroupOf(a, s) \cup GroupOf(b, s))
    BY <1>7 DEF Told
  <2> QED BY <2>1, <2>3, <2>4
<1>9. ASSUME NEW s \in Shards
      PROVE  NodeNum[s] = Told(s) /\ NodeNum2[s] = Told(s)
  <2>1. Unread(<<>>, s) = {} /\ Cardinality({}) = 0
    BY FS_EmptySet DEF Unread
  <2>2. NodeNum[s] + 0 = Told(s) /\ NodeNum2[s] + 0 = Told(s)
    BY <1>2, <1>4, <1>5, <1>8, <2>1 DEF Counts
  <2>3. NodeNum[s] \in Nat /\ NodeNum2[s] \in Nat
    BY <1>2, <1>4, <1>5 DEF IsView
  <2> QED BY <2>2, <2>3
<1>10. \A s \in Shards : Registered(s, round) = Second!Registered(s, round2)
  <2>1. \A c \in a.members : c \in Client
    BY <1>4
  <2>2. \A s : GroupOf(a, s) = GroupOf(b, s)
    BY <1>3, <1>4, <1>5, <1>6, <2>1 DEF GroupOf
  <2> QED BY <1>7, <2>2
<1>11. NodeNum = NodeNum2 /\ client = client2
  <2>1. /\ NodeNum \in [Shards -> Nat] /\ NodeNum2 \in [Shards -> Nat]
        /\ client \in [Client -> [shard : 0 .. ShardNum, round : Nat, random : Int]]
        /\ client2 \in [Client -> [shard : 0 .. ShardNum, round : Nat, random : Int]]
    BY <1>1, <1>2, <1>4, <1>5 DEF IsView, FirstRound, Two!FirstRound
  <2> QED BY <2>1, <1>6, <1>9
<1> QED BY <1>2, <1>4, <1>5, <1>6, <1>9, <1>10, <1>11 DEF IsView

\* Two servers with the same clients have elected the same.
LEMMA ElectAlike ==
  ASSUME Joining, AtRest, \A s \in Shards : Told(s) <= CLIENT_MAX
  PROVE  <<seat, Consensus_Map, Validation_Map, Winner>> =
           <<seat2, Consensus_Map2, Validation_Map2, Winner2>>
<1>1. /\ FirstRound /\ Two!FirstRound /\ Electing /\ Two!Electing
  BY DEF Joining, Early, Two!Early
<1>2. /\ \A c \in Client : (seat[c] = "none" <=> seat2[c] = "none") /\ client[c] = client2[c]
      /\ \A s \in Shards : Registered(s, round) = Two!Registered(s, round2)
      /\ \A s \in Shards : assigned[s] \in Nat /\ assigned2[s] \in Nat
  BY AllHeard, SameGroups
<1>3. \A s \in Shards : Cardinality(Registered(s, round)) <= CLIENT_MAX
  <2> SUFFICES ASSUME NEW s \in Shards
               PROVE  Cardinality(Registered(s, round)) <= CLIENT_MAX
    OBVIOUS
  <2>1. Registered(s, round) \cup Second!Registered(s, round2) = Registered(s, round)
    BY <1>2, SameGroups
  <2>2. Told(s) = assigned[s] + assigned2[s] + Cardinality(Registered(s, round))
    BY <2>1 DEF Told
  <2>3. Cardinality(Registered(s, round)) \in Nat /\ CLIENT_MAX \in Nat
    BY GroupIsFinite, MembershipAssumption DEF MembershipAssumption
  <2> QED BY <1>2, <2>2, <2>3
<1>4. Led /\ \A s \in Shards : Elected(s)
  BY <1>1, <1>3 DEF Electing, RoomForAll
<1>5. Two!Led /\ \A s \in Shards : Two!Elected(s)
  BY <1>1, <1>2, <1>3, SameSets, SameShards DEF Two!Electing, Two!RoomForAll
<1>6. \A s \in Shards : Full(s) <=> Two!Full(s)
  BY <1>2, SameSets DEF Full, Two!Full
<1>7. \A c, M : Wins(c, M) <=> Two!Wins(c, M)
  BY DEF Wins, Two!Wins
<1>8. ASSUME NEW s \in Shards
      PROVE  /\ Consensus_Map[s] = Consensus_Map2[s] /\ Validation_Map[s] = Validation_Map2[s]
             /\ \A c \in Registered(s, round) : seat[c] = "committee" <=> seat2[c] = "committee"
  <2>1. Elected(s) /\ Two!Elected(s)
    BY <1>4, <1>5
  <2>2. CASE Full(s)
    BY <1>2, <1>6, <1>7, <2>1, <2>2 DEF Elected, Two!Elected
  <2>3. CASE ~Full(s)
    BY <1>2, <1>6, <2>1, <2>3, SameShards DEF Elected, Two!Elected
  <2> QED BY <2>2, <2>3
<1>9. ASSUME NEW c \in Client
      PROVE  seat[c] = seat2[c]
  <2>1. /\ seat[c] \in {"none", "exec", "committee"} /\ seat2[c] \in {"none", "exec", "committee"}
    BY <1>1 DEF FirstRound, Two!FirstRound
  <2>2. CASE seat[c] = "none"
    BY <1>2, <2>2
  <2>3. CASE seat[c] # "none"
    <3>1. client[c].shard \in Shards /\ c \in Registered(client[c].shard, round)
      BY <1>1, <2>3 DEF FirstRound, Registered
    <3>2. seat[c] = "committee" <=> seat2[c] = "committee"
      BY <1>8, <3>1
    <3> QED BY <1>2, <2>1, <2>3, <3>2
  <2> QED BY <2>2, <2>3
<1>10. seat = seat2 /\ Consensus_Map = Consensus_Map2 /\ Validation_Map = Validation_Map2
  <2>1. /\ seat \in [Client -> {"none", "exec", "committee"}]
        /\ seat2 \in [Client -> {"none", "exec", "committee"}]
        /\ Consensus_Map \in [Shards -> Nat] /\ Consensus_Map2 \in [Shards -> Nat]
        /\ Validation_Map \in [Shards -> Nat] /\ Validation_Map2 \in [Shards -> Nat]
    BY <1>1, SameShards DEF FirstRound, Two!FirstRound
  <2> QED BY <1>8, <1>9, <2>1
<1>11. Committee = Two!Committee
  BY <1>1, <1>2, <1>9 DEF Committee, Two!Committee, FirstRound, Two!FirstRound
<1>12. Winner = Winner2
  <2>1. CASE \A s \in Shards : Full(s)
    <3>1. Wins(Winner, Committee) /\ Wins(Winner2, Committee)
      BY <1>4, <1>5, <1>6, <1>7, <1>11, <2>1, SameShards DEF Led, Two!Led
    <3>2. Committee \in SUBSET Client
      BY DEF Committee
    <3> QED BY <3>1, <3>2, OneWins
  <2>2. CASE ~\A s \in Shards : Full(s)
    BY <1>4, <1>5, <1>6, <2>2, SameShards DEF Led, Two!Led
  <2> QED BY <2>1, <2>2
<1> QED BY <1>10, <1>12

\* Whichever server gave a slot away, and however the messages crossed: once nothing
\* is on its way both servers have counted every slot, given away twice or not, once.
THEOREM SlotsAreCounted == JoiningSpec => []SlotsCounted
<1>1. Joining => SlotsCounted
  BY AllHeard DEF SlotsCounted
<1> QED BY <1>1, StaysJoining, PTL

\* The two elect on their own, among clients they hear of in different orders, and
\* unless a slot was given away twice end with the same committee and leader.
THEOREM ElectionsEndAlike == JoiningSpec => []ElectionsAgree
<1>1. Joining => ElectionsAgree
  BY AllHeard, ElectAlike DEF ElectionsAgree
<1> QED BY <1>1, StaysJoining, PTL
=============================================================================
