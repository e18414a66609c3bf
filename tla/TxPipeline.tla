----------------------------- MODULE TxPipeline -----------------------------
(***************************************************************************)
(* The way of a transaction through one server: the original pool          *)
(* (stage 0), from which executors take lists to witness; the pool of      *)
(* witnessed transactions (stage 1), from which the committee packs its    *)
(* block; the chain; and the pool the validators read (stage 2).           *)
(* The handlers PackTransaction, WitnessTx, AppendBlock, PackValidTx, and  *)
(* of CollectRoot the counter it clears.  Who is in which group is         *)
(* Membership's business: a round here is one group of executors with the  *)
(* leader elected from it, and a group ends with the root of its last      *)
(* executor.                                                               *)
(***************************************************************************)
EXTENDS TxPool, FiniteSets, Functions

CONSTANTS
  ShardNum,   \* execution shards (setup.go: 2)
  TX_NUM,     \* transactions of a kind one pack takes at most (3000)
  MinVote,    \* witnesses, and votes, that suffice (2)
  Executor,   \* executors of a round
  Rounds,     \* bound: rounds modelled
  IntNum,     \* internal transactions a shard starts with (125000)
  CroNum      \* cross-shard transactions a shard starts with (125000)

ASSUME TxPipelineAssumption ==
  /\ ShardNum \in Nat \ {0, 1}
  /\ TX_NUM \in Nat \ {0}
  /\ MinVote \in Nat \ {0}
  /\ IsFiniteSet(Executor)
  /\ Cardinality(Executor) >= MinVote
  /\ Rounds \in Nat \ {0}
  /\ IntNum \in Nat
  /\ CroNum \in Nat

VARIABLES
  pool,          \* PoolMap, per stage and shard
  height,        \* of the chain
  chain,         \* the lists of its blocks, per shard and kind, in order
  WitnessCount,
  round,         \* uploads so far, plus one
  exec,          \* per round, what each executor did and holds
  leader         \* the same for the leader of the round

clients == <<round, exec, leader>>
vars    == <<pool, height, chain, WitnessCount, clients>>

-----------------------------------------------------------------------------
Shards == 1 .. ShardNum
Stages == 0 .. 2

\* A cross-shard transaction pays the next shard, the last shard's the first.
Origin == [s \in Shards |-> IF s = 1 THEN ShardNum ELSE s - 1]

\* InitController's transactions: what a shard's channels hold at the start.
\* A relay transaction is named by the cross-shard transaction it completes.
Made(s, k, n) == [i \in 1 .. n |-> <<s, k, i>>]

Initially ==
  [s \in Shards |->
    [k \in Kinds |-> CASE k = "Internal"   -> Made(s, k, IntNum)
                       [] k = "CrossShard" -> Made(s, k, CroNum)
                       [] k = "Relay"      -> <<>>]]

NoLists == [s \in Shards |-> Empty]
Nothing == [step |-> "idle", lists |-> NoLists, height |-> 0]

ExecSteps == {"idle", "packed", "witnessed", "validating", "rooted"}
LeadSteps == {"idle", "packing", "packed"}

\* The transactions a list of shard s and kind k may hold: execution ends the
\* process with log.Fatal on one that is filed under another shard.
TxsOf(s, k) ==
  CASE k = "Internal"   -> {s} \X {"Internal"} \X (1 .. IntNum)
    [] k = "CrossShard" -> {s} \X {"CrossShard"} \X (1 .. CroNum)
    [] k = "Relay"      -> {Origin[s]} \X {"CrossShard"} \X (1 .. CroNum)

Filed(lists, s) == DOMAIN lists = Kinds /\ \A k \in Kinds : lists[k] \in Seq(TxsOf(s, k))

AllFiled(lists) == DOMAIN lists = Shards /\ \A s \in Shards : Filed(lists[s], s)

TypeOK ==
  /\ DOMAIN pool = Stages
  /\ \A stage \in Stages :
       /\ AllFiled([s \in Shards |-> pool[stage][s].List])
       /\ AllFiled([s \in Shards |-> pool[stage][s].Channel])
       /\ \A s \in Shards : pool[stage][s].Height \in Int
  /\ height \in Nat
  /\ AllFiled(chain)
  /\ WitnessCount \in Int
  /\ round \in Nat \ {0}
  /\ \A r \in 1 .. Rounds, e \in Executor :
       /\ exec[r][e].step \in ExecSteps
       /\ AllFiled(exec[r][e].lists)
       /\ exec[r][e].height \in Nat
  /\ leader.step \in LeadSteps /\ AllFiled(leader.lists) /\ leader.height \in Nat

Init ==
  /\ pool = [stage \in Stages |-> [s \in Shards |->
       IF stage = 0 THEN [MakePool EXCEPT !.Channel = Initially[s]] ELSE MakePool]]
  /\ height = 0
  /\ chain = NoLists
  /\ WitnessCount = 0
  /\ round = 1
  /\ exec = [r \in 1 .. Rounds |-> [e \in Executor |-> Nothing]]
  /\ leader = Nothing

-----------------------------------------------------------------------------
\* The stage's pools after PackTransactionList on the shards of S.
Packed(stage, S, h) ==
  [pool EXCEPT ![stage] = [s \in Shards |->
     IF s \in S THEN PackTransactionList(@[s], h, TX_NUM) ELSE @[s]]]

ListsOf(P, stage) == [s \in Shards |-> P[stage][s].List]

\* Lists sent to the channels of a stage, for the shards of S.
Sent(P, stage, S, lists) ==
  [P EXCEPT ![stage] = [s \in Shards |->
     IF s \in S THEN Appended(@[s], lists[s]) ELSE @[s]]]

\* The executors once e has got its answer.
Stepped(r, e, step) == [exec EXCEPT ![r][e].step = step]

\* `for i := 1; i < len(list); i++` over a map with a key per shard.
AllButLast == 1 .. ShardNum - 1

\* Mutant: relay transactions are filed under the shard that pays.
RelaysOfPayer(lists) ==
  [s \in Shards |-> [Empty EXCEPT !["Relay"] = lists[s]["CrossShard"]]]

\* The relay transactions of a block's cross-shard transactions; the leader
\* uploads them next to the block.
RelaysOf(lists) ==
  [s \in Shards |-> [Empty EXCEPT !["Relay"] = lists[Origin[s]]["CrossShard"]]]

-----------------------------------------------------------------------------
\* POST for a block's transactions by an executor: the lists to witness.
\* The height in the answer is not used by anything the executor sends.
ExecutorPacks(r, e) ==
  /\ exec[r][e].step = "idle"
  /\ pool' = Packed(0, Shards, height + 1)
  /\ exec' = [exec EXCEPT ![r][e] =
       [step |-> "packed", lists |-> ListsOf(pool', 0), height |-> height + 1]]
  /\ UNCHANGED <<height, chain, WitnessCount, round, leader>>

\* The same request by the leader, up to Source.Lock.Unlock().
LeaderPacks ==
  /\ leader.step = "idle"
  /\ pool' = Packed(1, Shards, height + 1)
  /\ leader' = [leader EXCEPT !.step = "packing", !.lists = ListsOf(pool', 1)]
  /\ UNCHANGED <<height, chain, WitnessCount, round, exec>>

\* The height in its answer is read after the lock is released.
LeaderReadsHeight ==
  /\ leader.step = "packing"
  /\ leader' = [leader EXCEPT !.step = "packed", !.height = height + 1]
  /\ UNCHANGED <<pool, height, chain, WitnessCount, round, exec>>

\* Mutant: the counter is not made negative when the lists are recorded.
WitnessedCountsOn(lists) ==
  /\ WitnessCount' = WitnessCount + 1
  /\ pool' = IF WitnessCount + 1 >= MinVote THEN Sent(pool, 1, Shards, lists) ELSE pool

\* The witness that makes the count sufficient has its own lists recorded, and
\* the counter made so negative that no later one has.
Witnessed(lists) ==
  IF WitnessCount + 1 >= MinVote
    THEN pool' = Sent(pool, 1, Shards, lists) /\ WitnessCount' = -100000
    ELSE WitnessCount' = WitnessCount + 1 /\ UNCHANGED pool

\* POST of a witness.
WitnessTx(r, e) ==
  /\ exec[r][e].step = "packed"
  /\ exec' = Stepped(r, e, "witnessed")
  /\ Witnessed(exec[r][e].lists)
  /\ UNCHANGED <<height, chain, round, leader>>

-----------------------------------------------------------------------------
\* Mutant: the loop over the relay transactions stops before the last shard.
AcceptDropsRelays(lists) ==
  /\ height' = height + 1
  /\ chain' = [s \in Shards |-> [k \in Kinds |-> chain[s][k] \o lists[s][k]]]
  /\ pool' = Sent(Sent(pool, 2, AllButLast, lists), 1, AllButLast, RelaysOf(lists))

\* A block that verifies: it goes on the chain and to the validators' pool,
\* and its relay transactions join the witnessed ones.
Accept(lists) ==
  /\ height' = height + 1
  /\ chain' = [s \in Shards |-> [k \in Kinds |-> chain[s][k] \o lists[s][k]]]
  /\ pool' = Sent(Sent(pool, 2, AllButLast, lists), 1, Shards, RelaysOf(lists))

\* A block that does not: its transactions go back to the witnessed ones.
Refuse(lists) ==
  /\ pool' = Sent(pool, 1, AllButLast, lists)
  /\ UNCHANGED <<height, chain>>

\* A block for height h with that many votes.
Block(h, vote, lists) ==
  IF h = height + 1 /\ vote >= MinVote THEN Accept(lists) ELSE Refuse(lists)

\* POST /block/upload with the votes the leader collected.  Either way the
\* round is over and the next group takes its place.
AppendBlock(vote) ==
  /\ leader.step = "packed"
  /\ Block(leader.height, vote, leader.lists)
  /\ round' = round + 1
  /\ leader' = Nothing
  /\ UNCHANGED <<WitnessCount, exec>>

\* POST for the transactions to validate.  The height is one less than that of
\* the chain; on an empty chain the uint wraps around, which int() reads as -1.
PackValidTx(r, e) ==
  /\ exec[r][e].step = "witnessed"
  /\ r < round
  /\ pool' = Packed(2, AllButLast, height - 1)
  /\ exec' = Stepped(r, e, "validating")
  /\ UNCHANGED <<height, chain, WitnessCount, round, leader>>

\* POST /block/uploadroot: the last root of a group starts the count anew.
CollectRoot(r, e) ==
  /\ exec[r][e].step = "validating"
  /\ exec' = Stepped(r, e, "rooted")
  /\ WitnessCount' = IF \A d \in Executor : exec'[r][d].step = "rooted"
                       THEN 0 ELSE WitnessCount
  /\ UNCHANGED <<pool, height, chain, round, leader>>

-----------------------------------------------------------------------------
\* A group is known once the round before is closed; Rounds bounds them.
Groups == {r \in 1 .. Rounds : r <= round}

ExecutorSteps(r, e) ==
  ExecutorPacks(r, e) \/ WitnessTx(r, e) \/ PackValidTx(r, e) \/ CollectRoot(r, e)

Handlers ==
  \/ \E r \in Groups, e \in Executor : ExecutorSteps(r, e)
  \/ round <= Rounds /\ LeaderPacks
  \/ LeaderReadsHeight

Next == Handlers \/ \E vote \in {0, MinVote} : AppendBlock(vote)

Spec == Init /\ [][Next]_vars

\* Every block gets its votes.
VotedSpec == Init /\ [][Handlers \/ AppendBlock(MinVote)]_vars

-----------------------------------------------------------------------------
(***************************************************************************)
(* The steady schedule: a group witnesses when the roots of the one before *)
(* are in, its leader packs when enough of the group have witnessed, and   *)
(* blocks get their votes.  The server assumes it and enforces none of it. *)
(***************************************************************************)
Ended(r)   == \A q \in 1 .. r, e \in Executor : exec[q][e].step = "rooted"
Witness(r) == {e \in Executor : exec[r][e].step \notin {"idle", "packed"}}

SteadyNext ==
  \/ \E r \in Groups, e \in Executor :
       \/ ExecutorPacks(r, e)
       \/ Ended(r - 1) /\ WitnessTx(r, e)
       \/ PackValidTx(r, e)
       \/ CollectRoot(r, e)
  \/ round <= Rounds /\ Cardinality(Witness(round)) >= MinVote /\ LeaderPacks
  \/ LeaderReadsHeight
  \/ AppendBlock(MinVote)

SteadySpec == Init /\ [][SteadyNext]_vars

-----------------------------------------------------------------------------
(***************************************************************************)
(* Properties                                                              *)
(***************************************************************************)
\* How often a transaction occurs in a sequence.
Times(tx, seq) == Cardinality({i \in DOMAIN seq : seq[i] = tx})

\* The lists packed for the next block are not on the chain yet.
InBlock(s, k) ==
  IF pool[1][s].Height = height + 1 THEN pool[1][s].List[k] ELSE <<>>

\* Everything of a shard and kind that was witnessed or relayed, in order.
Recorded(s, k) == chain[s][k] \o InBlock(s, k) \o pool[1][s].Channel[k]

\* All executors that packed at one height witness the same transactions,
\* whatever was witnessed, packed, refused or put back in between.
ListsAgree ==
  \A q, r \in 1 .. Rounds, d, e \in Executor :
    (exec[q][d].step # "idle" /\ exec[r][e].step # "idle" /\
     exec[q][d].height = exec[r][e].height)
       => exec[q][d].lists = exec[r][e].lists

\* Money that left a shard is never lost: every payment on the chain has its
\* relay transaction on the chain or on the way there, whatever is refused.
RelaysSurvive ==
  \A s \in Shards : LET paid == chain[Origin[s]]["CrossShard"] IN
    \A tx \in Range(paid) : Times(tx, paid) <= Times(tx, Recorded(s, "Relay"))

\* On the steady schedule the pools are the queues of TxQueue: the lists a
\* group packed are at the front of the queue until its witnesses suffice.
Unwitnessed(s, k) ==
  IF pool[0][s].Height = height + 1 /\
     (round <= Rounds => Cardinality(Witness(round)) < MinVote)
    THEN pool[0][s].List[k] ELSE <<>>

Waiting ==
  [s \in Shards |-> [k \in Kinds |->
    InBlock(s, k) \o pool[1][s].Channel[k] \o Unwitnessed(s, k)
      \o pool[0][s].Channel[k]]]

Queue == INSTANCE TxQueue WITH Shard <- Shards, log <- chain, queue <- Waiting

PipelineIsQueue == Queue!Spec

\* "Makes sure that transactions submitted later are not recorded twice": no
\* original transaction is on the chain, in a block or in the witnessed pool
\* more than once.
RecordedOnce ==
  \A s \in Shards, k \in {"Internal", "CrossShard"} :
    \A tx \in Range(Recorded(s, k)) : Times(tx, Recorded(s, k)) = 1
=============================================================================
