----------------------------- MODULE Membership -----------------------------
(***************************************************************************)
(* Resharding, committee election and the hand-over from the consensus     *)
(* group to the validation group on one server: the handlers               *)
(* AssignShardNum, RegisterCommunication, AppendBlock and CollectRoot, each *)
(* with all it does to NodeNum, the two communication maps, Winner and the  *)
(* root votes.  Every handler runs under structure.Source.Lock, so it is    *)
(* one step.  What AppendBlock does to the pools and to the chain, and the  *)
(* WitnessCount that CollectRoot clears, belong to TxPipeline.              *)
(*                                                                          *)
(* Go maps are references.  The map object that holds the clients of shard  *)
(* s is allocated by the first registration after an upload, so it is named *)
(* by the round it was allocated in: Consensus_Map[s] and Validation_Map[s] *)
(* are round numbers, Nil for a nil map, and the two alias each other when  *)
(* they are equal.  What an object holds is read off the clients: seat[c]   *)
(* is "exec" while c's key maps to its Client, "nil" once CollectRoot has   *)
(* stored a nil under the key, and "committee" when the key was moved to    *)
(* Consensus_Map[0].                                                        *)
(***************************************************************************)
EXTENDS Integers, FiniteSets, FiniteSetsExt

CONSTANTS
  ShardNum,     \* execution shards (setup.go: 2)
  CLIENT_MAX,   \* clients a shard takes in a round (setup.go: 3)
  Client,       \* bound: the uuids that may ever be handed out
  Randoms,      \* the random numbers clients submit
  Root,         \* the state roots executors may report
  None          \* Winner's "": no leader yet

ASSUME MembershipAssumption ==
  /\ ShardNum \in Nat \ {0}
  /\ CLIENT_MAX \in Nat \ {0, 1}
  /\ IsFiniteSet(Client)
  /\ Randoms \subseteq Int
  /\ IsFiniteSet(Root)
  /\ None \notin Client

VARIABLES
  round,           \* uploads so far, plus one: names the map objects
  NodeNum,         \* clients assigned to each shard since the last upload
  assigned,        \* clients told a shard that have not registered yet
  client,          \* the Client structs, and the round each joined in
  seat,            \* how the map object of its round holds each client
  Consensus_Map,   \* per shard, the object being filled
  Validation_Map,  \* per shard, the object whose roots are being collected
  Winner,          \* leader of the committee
  NewRootsVote,    \* votes collected for the group being validated
  RootsVote,       \* votes of the last group validated in full
  lockHeld         \* a handler panicked between Lock and Unlock

groups == <<client, seat, Consensus_Map>>
votes  == <<NewRootsVote, RootsVote>>
vars   == <<round, NodeNum, assigned, groups, Validation_Map, Winner, votes,
            lockHeld>>

-----------------------------------------------------------------------------
Shards == 1 .. ShardNum
Nil    == 0
Seats  == {"none", "exec", "nil", "committee"}

\* Every client that registered with shard s in round r.
Registered(s, r) ==
  {c \in Client : seat[c] # "none" /\ client[c].shard = s /\ client[c].round = r}

\* The keys of the map object of shard s and round r, whatever they map to.
Entries(s, r) == {c \in Registered(s, r) : seat[c] # "committee"}

\* Consensus_Map[0].
Committee == {c \in Client : seat[c] = "committee" /\ client[c].round = round}

NoVotes == [root \in Root |-> 0]

TypeOK ==
  /\ round \in Nat \ {0}
  /\ NodeNum \in [Shards -> 0 .. CLIENT_MAX]
  /\ assigned \in [Shards -> Nat]
  /\ client \in [Client -> [shard : 0 .. ShardNum, round : Nat, random : Int]]
  /\ seat \in [Client -> Seats]
  /\ Consensus_Map \in [Shards -> Nat]
  /\ Validation_Map \in [Shards -> Nat]
  /\ Winner \in Client \cup {None}
  /\ NewRootsVote \in [Shards -> [Root -> Nat]]
  /\ RootsVote \in [Shards -> [Root -> Nat]]
  /\ lockHeld \in BOOLEAN

Init ==
  /\ round = 1
  /\ NodeNum = [s \in Shards |-> 0]
  /\ assigned = [s \in Shards |-> 0]
  /\ client = [c \in Client |-> [shard |-> 0, round |-> 0, random |-> 0]]
  /\ seat = [c \in Client |-> "none"]
  /\ Consensus_Map = [s \in Shards |-> Nil]
  /\ Validation_Map = [s \in Shards |-> Nil]
  /\ Winner = None
  /\ NewRootsVote = [s \in Shards |-> NoVotes]
  /\ RootsVote = [s \in Shards |-> NoVotes]
  /\ lockHeld = FALSE

-----------------------------------------------------------------------------
\* Mutant: a shard is full only beyond CLIENT_MAX.
AssignShardNumOffByOne ==
  \E s \in Shards :
    /\ ~lockHeld
    /\ NodeNum[s] <= CLIENT_MAX
    /\ \A t \in Shards : t < s => NodeNum[t] > CLIENT_MAX
    /\ NodeNum' = [NodeNum EXCEPT ![s] = @ + 1]
    /\ assigned' = [assigned EXCEPT ![s] = @ + 1]
    /\ UNCHANGED <<round, groups, Validation_Map, Winner, votes, lockHeld>>

\* GET /shard/shardNum: the client is given the first shard that is not full.
\* With every shard full it is told 0, which changes nothing.
AssignShardNum ==
  \E s \in Shards :
    /\ ~lockHeld
    /\ NodeNum[s] # CLIENT_MAX
    /\ \A t \in Shards : t < s => NodeNum[t] = CLIENT_MAX
    /\ NodeNum' = [NodeNum EXCEPT ![s] = @ + 1]
    /\ assigned' = [assigned EXCEPT ![s] = @ + 1]
    /\ UNCHANGED <<round, groups, Validation_Map, Winner, votes, lockHeld>>

-----------------------------------------------------------------------------
\* uuid.NewV4(): an id never used before.  Ids are only compared for equality,
\* so it does not matter which.
FreshId == CHOOSE c \in Client : seat[c] = "none"

\* Mutant: the loop's result is thrown away, the client that filled the map wins.
LastToJoin(C, first, m) == {first}

\* Where `for key, value := range m { if value.Random < best ... }` may end
\* when it starts from `first`: first itself when nothing is smaller, and any
\* of the smallest otherwise (Go ranges over a map in no fixed order).
SmallestRandom(C, first, m) ==
  LET smallest == {c \in m : \A d \in m : C[c].random <= C[d].random}
  IN  IF first \in smallest THEN {first} ELSE smallest

\* len(Consensus_Map[s]) reaches CLIENT_MAX with the new client.  A nil entry
\* would panic the loop that looks for the winner; the deferred Unlock then
\* leaves the client registered and nobody elected.
ShardFills(s) ==
  /\ Cardinality(Entries(s, round)) + 1 = CLIENT_MAX
  /\ \A c \in Entries(s, round) : seat[c] = "exec"

\* Mutant: the filled group is not handed to the validation stage.
ElectNoHandOver(s, w, C) ==
  LET members == Committee \cup {w}
  IN  /\ Validation_Map' = Validation_Map
      /\ IF Cardinality(members) = ShardNum
           THEN Winner' \in SmallestRandom(C, w, members)
           ELSE Winner' = Winner

\* Mutant: the committee is taken to be complete one member early.
ElectEarly(s, w, C) ==
  LET members == Committee \cup {w}
  IN  /\ Validation_Map' =
           [Validation_Map EXCEPT ![s] = IF @ = Nil THEN round ELSE @]
      /\ IF Cardinality(members) >= ShardNum - 1
           THEN Winner' \in SmallestRandom(C, w, members)
           ELSE Winner' = Winner

\* w moves from the shard's object to the committee, the shard's object is
\* handed to the validation stage if that stage is free, and the last shard
\* to elect completes the committee, which then has its leader.
Elect(s, w, C) ==
  LET members == Committee \cup {w}
  IN  /\ Validation_Map' =
           [Validation_Map EXCEPT ![s] = IF @ = Nil THEN round ELSE @]
      /\ IF Cardinality(members) = ShardNum
           THEN Winner' \in SmallestRandom(C, w, members)
           ELSE Winner' = Winner

\* c becomes a client of shard s with random number x, whichever server it
\* registered with.
Join(c, s, x) ==
  LET C == [client EXCEPT ![c] = [shard |-> s, round |-> round, random |-> x]]
  IN  /\ client' = C
      /\ Consensus_Map' = [Consensus_Map EXCEPT ![s] = round]
      /\ \/ /\ ~ShardFills(s)
            /\ seat' = [seat EXCEPT ![c] = "exec"]
            /\ UNCHANGED <<Validation_Map, Winner>>
         \/ /\ ShardFills(s)
            /\ \E w \in SmallestRandom(C, c, Entries(s, round) \cup {c}) :
                 /\ seat' = [seat EXCEPT ![c] = "exec", ![w] = "committee"]
                 /\ Elect(s, w, C)
      /\ UNCHANGED <<round, NodeNum, votes, lockHeld>>

\* GET /shard/register/:shardnum/:random, sent by a client that was told s.
RegisterCommunication(s, x) ==
  /\ ~lockHeld
  /\ assigned[s] > 0
  /\ \E c \in Client : seat[c] = "none"
  /\ assigned' = [assigned EXCEPT ![s] = @ - 1]
  /\ Join(FreshId, s, x)

-----------------------------------------------------------------------------
\* Mutant: the shards' counters are not reset for the next round.
AppendBlockKeepsNodeNum ==
  /\ ~lockHeld
  /\ round' = round + 1
  /\ Consensus_Map' = [s \in Shards |-> Nil]
  /\ Winner' = None
  /\ UNCHANGED <<NodeNum, assigned, client, seat, Validation_Map, votes, lockHeld>>

\* POST /block/upload: the membership part, the same for a block that is
\* appended and for one that is refused.  The handler compares the uploader
\* with Winner but goes on either way, so the uploader is no parameter here.
AppendBlock ==
  /\ ~lockHeld
  /\ round' = round + 1
  /\ NodeNum' = [s \in Shards |-> 0]
  /\ Consensus_Map' = [s \in Shards |-> Nil]
  /\ Winner' = None
  /\ UNCHANGED <<assigned, client, seat, Validation_Map, votes, lockHeld>>

\* The leader posts the block it was elected to build.
LeaderUploads == Winner # None /\ AppendBlock

-----------------------------------------------------------------------------
\* The vote is counted before the client is looked up.
CountedVotes(c, root) ==
  [NewRootsVote EXCEPT ![client[c].shard][root] = @ + 1]

\* The validation stage holds c's Client.
IsValidator(c) ==
  seat[c] = "exec" /\ Validation_Map[client[c].shard] = client[c].round

\* Whether c's upload empties its shard, and then the whole stage.
ShardDone(c) ==
  \A d \in Entries(client[c].shard, client[c].round) : d = c \/ seat[d] = "nil"

\* Mutant: one empty shard is taken for the whole stage.
StageDoneEarly(c) == ShardDone(c)

StageDone(c) ==
  /\ ShardDone(c)
  /\ \A s \in Shards : s = client[c].shard \/ Validation_Map[s] = Nil

\* POST /block/uploadroot by a client the validation stage holds.  The last
\* root of the stage publishes the votes and hands the stage whatever
\* Consensus_Map holds at that moment: a full group, one still filling, or nil.
CollectRoot(c, root) ==
  /\ ~lockHeld
  /\ IsValidator(c)
  /\ seat' = [seat EXCEPT ![c] = "nil"]
  /\ IF StageDone(c)
       THEN /\ Validation_Map' = Consensus_Map
            /\ RootsVote' = CountedVotes(c, root)
            /\ NewRootsVote' = [s \in Shards |-> NoVotes]
       ELSE /\ Validation_Map' =
                 IF ShardDone(c)
                   THEN [Validation_Map EXCEPT ![client[c].shard] = Nil]
                   ELSE Validation_Map
            /\ NewRootsVote' = CountedVotes(c, root)
            /\ UNCHANGED RootsVote
  /\ UNCHANGED <<round, NodeNum, assigned, client, Consensus_Map, Winner,
                 lockHeld>>

\* The same request for a client the validation stage does not hold: the nil
\* *Client is dereferenced with Source.Lock held.  gin recovers the panic and
\* nobody ever unlocks.
CollectRootPanics(c, root) ==
  /\ ~lockHeld
  /\ ~IsValidator(c)
  /\ NewRootsVote' = CountedVotes(c, root)
  /\ lockHeld' = TRUE
  /\ UNCHANGED <<round, NodeNum, assigned, groups, Validation_Map, Winner,
                 RootsVote>>

\* An execution client works from the message that names the leader, and
\* reports one root.
Notified(c) == client[c].round < round \/ Winner # None

ExecutorUploads(c, root) ==
  /\ seat[c] = "exec"
  /\ Notified(c)
  /\ CollectRoot(c, root) \/ CollectRootPanics(c, root)

-----------------------------------------------------------------------------
Next ==
  \/ AssignShardNum
  \/ \E s \in Shards, x \in Randoms : RegisterCommunication(s, x)
  \/ LeaderUploads
  \/ \E c \in Client, root \in Root : ExecutorUploads(c, root)

Spec == Init /\ [][Next]_vars

-----------------------------------------------------------------------------
(***************************************************************************)
(* Clients' schedules.  The server's comments take "only the ideal case"   *)
(* for granted and nothing in it enforces one, so the two below are        *)
(* assumptions.  In the first an executor reports the root of a block that *)
(* is on the chain, and a leader posts its block when the executors of the *)
(* rounds before have all reported.  In the second, besides, nobody joins  *)
(* a shard whose last group has reported while another shard's has not.    *)
(***************************************************************************)
OwedRoots == {c \in Client : seat[c] = "exec" /\ client[c].round < round}

PacedUploads ==
  \/ OwedRoots = {} /\ LeaderUploads
  \/ \E c \in OwedRoots, root \in Root : ExecutorUploads(c, root)

PacedNext ==
  \/ AssignShardNum
  \/ \E s \in Shards, x \in Randoms : RegisterCommunication(s, x)
  \/ PacedUploads

PacedSpec == Init /\ [][PacedNext]_vars

RegisterInStep(s) ==
  /\ Validation_Map[s] # Nil \/ OwedRoots = {}
  /\ \E x \in Randoms : RegisterCommunication(s, x)

InStepNext ==
  \/ AssignShardNum
  \/ \E s \in Shards : RegisterInStep(s)
  \/ PacedUploads

\* No client disappears once it was told a shard: sync.Mutex and the HTTP
\* server let every request through eventually, and there is no timeout that
\* would replace a client that stays away.
InStepFairness ==
  /\ WF_vars(AssignShardNum)
  /\ \A s \in Shards : WF_vars(RegisterInStep(s))
  /\ WF_vars(OwedRoots = {} /\ LeaderUploads)
  /\ \A c \in Client :
       WF_vars(c \in OwedRoots /\ \E root \in Root : ExecutorUploads(c, root))

InStepSpec == Init /\ [][InStepNext]_vars /\ InStepFairness

-----------------------------------------------------------------------------
(***************************************************************************)
(* Properties                                                              *)
(***************************************************************************)
VoteTotal(v) == MapThenSumSet(LAMBDA root : v[root], Root)

\* No shard takes more than CLIENT_MAX clients in any round, although
\* assignment and registration are separate requests and registration itself
\* checks nothing: the slots handed out are those taken plus those awaited.
NoOverfill ==
  \A s \in Shards :
    /\ NodeNum[s] = assigned[s] + Cardinality(Registered(s, round))
    /\ NodeNum[s] <= CLIENT_MAX

\* The committee never holds two clients of one shard, and a leader exists
\* exactly when every shard has sent its member; the leader is one of them.
OneSeatPerShard ==
  /\ \A c, d \in Committee : client[c].shard = client[d].shard => c = d
  /\ Winner # None =>
       /\ Winner \in Committee
       /\ \A s \in Shards : \E c \in Committee : client[c].shard = s

\* Two elections in a row, the second over the winners of the first, find the
\* smallest random number of the whole round, in whatever order shards fill.
LeaderIsSmallest ==
  Winner # None =>
    \A s \in Shards : \A c \in Registered(s, round) :
      client[Winner].random <= client[c].random

\* Once the leader is known the committee and the leader stay as they were
\* announced until the block is uploaded.
CommitteeFrozen ==
  [][Winner # None /\ round' = round =>
       Winner' = Winner /\ Committee' = Committee]_vars

\* With rounds in step RootsVote only ever holds the votes of whole groups:
\* as many votes as a group has executors, for every shard, however the
\* uploads of two shards interleave with the next group's registration.
RootsVoteWhole ==
  \E n \in {0, CLIENT_MAX - 1} :
    \A s \in Shards : VoteTotal(RootsVote[s]) = n

\* With rounds in step every executor that still owes the root of a closed
\* round is held by the validation stage, so that its upload is counted and
\* no handler dereferences a nil Client with the lock held.
ExecutorsHeld ==
  /\ \A c \in OwedRoots : IsValidator(c)
  /\ ~lockHeld

\* With rounds in step every round that can fill is closed, and every
\* executor's root is collected.
Rounds == 1 .. (Cardinality(Client) \div (ShardNum * CLIENT_MAX))

RoundsClose == \A r \in Rounds : round = r ~> round > r

RootsCollected ==
  \A c \in Client :
    (seat[c] = "exec" /\ client[c].round \in Rounds) ~> seat[c] = "nil"

\* What "judges whether everyone's vote was received (there may be a
\* problem)" is after: the stage moves on to the next group only when every
\* executor of the groups before has voted.  The comment's doubt is right: it
\* fails in PacedSpec.
EveryoneVoted ==
  [][RootsVote' # RootsVote =>
       \A c \in Client : seat'[c] = "exec" => client[c].round = round]_vars

=============================================================================
