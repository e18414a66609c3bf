# HorizonServer in TLA+

HorizonServer is the server of a sharded blockchain for mobile clients. Clients
ask it for a shard, register over a websocket, elect a committee and a leader by
random numbers, witness transactions, build a block, and later validate the
block and report the state root they computed. Several servers replicate each
other's requests over websockets. All state of a server is in one object,
`structure.Source`, behind one mutex, `Source.Lock`; the handlers of the HTTP
routes change it.

This directory holds a TLA+ model of the server, the TLC runs that check it and
TLAPS proofs about it. `PROJECT.json` lists runs, theorems, findings and hazards
and says which source lines each definition stands for.

## 1. Inventory

| Component | State it keeps | Operations | Interacts with |
|---|---|---|---|
| Membership (`controller/shard.go`, parts of `controller/block.go`) | `NodeNum`, `Consensus_CommunicationMap`, `Validation_CommunicationMap`, `Winner`, the root votes | `AssignShardNum`, `RegisterCommunication`, half of `AppendBlock` and `CollectRoot` | clients by websocket; ends the rounds of the pipeline |
| Pools (`structure/pool.go`) | three channels and the lists packed last, per stage and shard | `PackTransactionList`, `Append...Transaction`, `MakePool` | called by the handlers below |
| Pipeline (`controller/block.go`) | `PoolMap`, chain height, `WitnessCount` | `PackTransaction`, `WitnessTx`, `AppendBlock`, `PackValidTx`, the counter of `CollectRoot` | pools, chain; clients carry the lists from one handler to the next |
| Chain and ledger (`structure/block.go`, `structure/state.go`) | `Chain`, `Height`, `AccountMap`, `NewAccountMap`, `RootsVote` | `VerifyBlock`, `AppendBlock`, `UpdateChain`, `VerifyGSRoot`, `PackAccount` | pipeline (blocks), membership (votes) |
| Peers (`main.go`, `controller/forwarding.go`, `Request/`) | `Server_CommunicationMap`, the reading goroutine's socket | messages 1 to 8, one case each in the loop of `main.go` | every handler forwards what it did |
| Committee messages (`MultiCastBlock`, `SendVote`) | none | pass a block or a vote on | committee sockets, peers |
| Locks (`Controller.Lock`, `Server.Lock`) | who holds them | every handler and every message takes the first; writes to a peer take the second, or do not | the two servers' websockets |
| Routes, `model/`, `logger/` | none | declarations | |

What is hard about it:

- *Interleaving across requests.* A handler is atomic, a client's business is
  not: a slot is assigned in one request and taken in another, lists are packed,
  witnessed, put in a block and executed in four requests, and two groups of
  clients (one witnessing, one validating) are always on their way at once.
- *Aliased maps.* `Validation_Map[s]` is the same Go map as `Consensus_Map[s]`,
  handed over in two places and emptied in place.
- *Counters shared between rounds.* One `WitnessCount` for all of them.
- *Failure.* No timeouts and no retries on the server; a panic between `Lock`
  and `Unlock`; a client that repeats a request.
- *Replication.* Best-effort, no catching up, and a block is forwarded before
  its server applies it, everything else after.
- *Locks across servers.* Handlers write to the peer with the lock held that the
  peer's messages wait for.

What makes each component correct:

- membership: no shard is overfilled; one member per shard, the smallest random
  number leads; leader and committee stay until the block comes; every group is
  validated, and published votes are those of whole groups;
- pools and pipeline: transactions of a shard and kind go through the stages in
  order, none lost, none twice; executors of a group see the same lists; a
  payment is followed by its relay; a refused block loses nothing;
- ledger: value is conserved, and a state is current only once its root was
  voted for;
- committee messages: the header carries the votes of whole groups, and a block
  gets its votes and reaches the chain;
- peers: the servers' states agree when no message is on its way, and no message
  stops a server;
- locks: no two goroutines write to one connection at a time; a request that
  holds a lock gets on.

## 2. The modules and how they compose

| | Module | What it is |
|---|---|---|
| 1 | `Membership`, `MCMembership`; `MembershipProofs` | shards, committees, leaders, the validation stage |
| 2 | `TxPool`, `TxPipeline`, `MCTxPipeline`; `TxQueue` (abstract); `TxPipelineProofs` | the way of a transaction from the pool to the chain; implements `TxQueue` on the steady schedule (proved) |
| 3 | `Ledger`, extends `TxPipeline`; `LedgerProofs` | accounts, `UpdateChain`, `VerifyGSRoot` |
| 4 | `HorizonServer`, extends `Membership`, instantiates `Ledger`; `MCHorizonServer`; `HorizonServerProofs` | a whole server; implements `Membership` in step (proved) and steady `TxPipeline` and `Ledger` (proved) |
| 5 | `Peer`, extends `HorizonServer`; `Peers`, extends `Peer` and instantiates it for the second server; `PeersJoining`, extends `Peers`; `MCPeers`; `PeerProofs`, `PeersProofs` | two servers and their websockets; implement one `Membership` in step (proved); `PeersJoining`: their first elections when they do not get to sync |
| 6 | `ServerLocks`, `MCServerLocks`; `ServerLocksProofs` | the locks, which 1 to 5 take for granted when a handler is one step |
| | `SumProofs` | lemmas about sums over finite sets, for the votes of a shard and the money of all shards |

## 3. Modules

### Membership

| Model | Code |
|---|---|
| `AssignShardNum` | `GET /shard/shardNum`: the first shard whose `NodeNum` is not `CLIENT_MAX` |
| `RegisterCommunication(s, x)` with `ShardFills`, `SmallestRandom`, `Elect` | `GET /shard/register/:shardnum/:random`: insertion, the shard's election, the hand-over to validation, the committee's election |
| `AppendBlock`, `LeaderUploads` | `POST /block/upload`: resets `NodeNum`, `Consensus_Map`, `Winner`, whether the block is taken or not |
| `CollectRoot`, `CollectRootPanics` | `POST /block/uploadroot`: the vote, the nil entry, `isEmpty`, `isEnd`; the nil dereference with the lock held |
| `assigned` | slots told to clients that have not registered yet |
| `round` | number of uploads so far, plus one; names Go map objects |
| `lockHeld` | a handler panicked before `Unlock`: no handler runs any more |

A Go map is a reference, and the hand-over depends on it. Between two uploads
`Consensus_Map[s]` is one map object, so `Consensus_Map[s]` and
`Validation_Map[s]` hold the number of the round their object was allocated in,
and 0 for nil. What an object maps a client's id to is read from `seat`: its
Client, nil (its root is in), or nothing because the client moved to the
committee. Go ranges over a map in no fixed order: `SmallestRandom` is the set of
results a range may give. Ids are never reused; `Client` bounds how many are
handed out.

A client registers with the shard it was told, and an executor reports one
root, after the message that names the leader (`Notified`). Nothing else is
assumed of clients in `Spec`.

### TxPool, TxPipeline, TxQueue

`TxPool` is one pool. `Taken` is what a draining loop takes: `num` if there are
more, and otherwise half rounded up, because the loop's bound `len(channel)`
shrinks with every receive; `MCTxPipeline` checks the closed form against the
loop for up to 40 transactions.

| Model | Code |
|---|---|
| `ExecutorPacks` | `POST /block/transaction` or `/witness` with a shard: stage 0 |
| `LeaderPacks`, `LeaderReadsHeight` | the same with shard 0: stage 1; the height in the answer is read after `Unlock`, a step of its own. (Executors' requests need no second step: they never use that height.) |
| `WitnessTx` | `POST /block/witness_2`: the count, the quorum, the lists to stage 1, -100000 |
| `AppendBlock`, `Accept`, `Refuse` | `POST /block/upload`: `VerifyBlock`, then chain, stage 2 and relays, or stage 1 |
| `PackValidTx` | `POST /block/validate`: stage 2 |
| `CollectRoot` | `POST /block/uploadroot`: the counter |

In `Accept` the relays of a block are computed from its payments, and each is sent
to its shard's pool. In the code the client that built the block uploads these
lists next to it, and the loop at `controller/block.go:196` runs from 1 to
`len(ReLayList)`. That they are the relays of the block's payments, with a list
for every shard, is an assumption about that client.

A round of `TxPipeline` is one group of executors with its leader; which client
is in which group is Membership's matter. A group's executors may pack, witness,
validate and report in any order relative to each other, to their leader and to
the next group. Transactions are named `<<shard, kind, number>>`, a relay by the
payment it completes, so that losses, doubles and overtaking are visible.

`TxQueue` is the promise: a FIFO queue per shard and kind, blocks that take from
the front, and a relay at the back of the beneficiary's queue for each payment.
The refinement maps `log` to the chain and `queue` to the concatenation of what
is cached for the next block, the channel of stage 1, what is cached for
witnesses as long as they do not suffice, and the channel of stage 0. After the
last round that `Rounds` allows nobody witnesses any more, and what an executor
of an earlier round packs then stays at the front of stage 0's part.

### Ledger

`Ledger` extends `TxPipeline` with the two account maps. What counts about a map
is which `Account` structs it points to: `AccountMap` and `NewAccountMap` map a
shard and an address to a struct, and `Value` holds the structs' values.
`Accounts` is `AppendAccount`, which stores one pointer in both; `Verified` is
`VerifyGSRoot`; `UpdateChain` aliases the maps and executes a block, whose
transactions each move a value of 1 (`Gain`). `LedgerAppendBlock` is
`TxPipeline`'s `AppendBlock` with the ledger's part; every other handler leaves
the ledger alone. `StateRoot` keeps the votes of the last block's header. Payments
leave a shard's first address and relays arrive at the first address of the next
shard, as in `InitController`.

### HorizonServer

A whole server: `Membership`'s handlers, and on the same handlers what they do to
pools, chain and accounts, taken from `Ledger` through the instance `Books`. What
`TxPipeline` takes for granted is made here out of `Membership`'s state: the
executors of a round are the clients that registered for it and were not
elected (`ExecOf`), the leader is `Winner` (`LeaderOf`), `WitnessCount` is cleared
when the validation stage is done (`Restarted`), and a block has as many votes as
committee members sent. `work` is what clients keep between two requests: how far
they are, the lists they were handed, votes.

| Model | Code |
|---|---|
| `OnlyJoins(...)` | `AssignShardNum`, `RegisterCommunication`: they touch membership only |
| `ExecutorPacks`, `WitnessTx`, `LeaderPacks`, `LeaderReadsHeight`, `PackValidTx` | as in `TxPipeline`, for clients that membership put in that place |
| `PackAccount` | `POST /block/account`: answers `RootsVote`, which the leader puts into its header |
| `MultiCastBlock`, `SendVote` | the block to the committee's sockets, the vote to the leader's; a vote after the round is over meets a nil map, and `defer` unlocks |
| `UploadBlock` (`TakesBlock`) | all of `AppendBlock`: groups, `Winner`, `NodeNum`, chain, pools, accounts |
| `UploadRoot` (`TakesRoot`) | all of `CollectRoot`: votes, stage, `WitnessCount` |

### Peer, Peers

`Peer` is `HorizonServer` with the two websockets a server has with its peer, one
sequence of messages each (`inbox`, `outbox`). Each handler writes its message in
the same step (`Forwarding`), except `AppendBlock`: `ForwardsBlock` writes it
before the lock is taken, `FinishesUpload` is the rest. `Apply` is the loop of
`main.go`, with one definition per message type:

| Message | Written by | Applied by |
|---|---|---|
| 1 client | `RegisterCommunication` | `AddsClient`; a nil entry in the election's loop: `ElectionPanics` |
| 2 block | `MultiCastBlock` | `PassesBlock` |
| 3 vote | `SendVote` when the leader has no socket here | `PassesVote` |
| 4 NodeNum | `AssignShardNum` | `CountsNode` |
| 5 pack | `PackTransaction`, `PackValidTx` | `PacksToo` |
| 6 upload | `AppendBlock` | `TakesBlockToo` |
| 7 witness | `WitnessTx` | `CountsWitness` |
| 8 root | `CollectRoot` | `TakesRootToo` |

`PeersJoining` is about the first round, as far as the first election, with two
servers that do not get to sync: both give slots away (`Assigns`) and register
clients (`RegistersAs`) at once, and read each other's messages whenever they do.
An id is new to both servers (`Fresh`), as a UUID is; `FreshId` of `Peer` is new
to the server that hands it out, which is enough only when it has read
everything. The requests of leaders and executors are left out: until the leader
uploads they change neither slots nor groups.

A client has a socket at one server; the other has it as `away`. Ids (UUIDs in
the code) come from one set: both servers know the same clients when one of them
hands out the next, because of the schedule below. A panic on the reading
goroutine ends the process, and a return without unlocking stops it as well:
`Dies` sets `lockHeld` for both. `Peers` has the variables of `Peer` twice; the
second server's inbox is the first one's outbox.

### ServerLocks

The other modules make a handler one step because it holds `Source.Lock`. This one
opens the handlers up: what they compute is left out, and what remains is the
order in which they take locks, write to the peer, and let go.

| Model | Code |
|---|---|
| `sourceLock`, `peerLock` | `structure.Source.Lock`; the `Lock` of the peer's `Server` record |
| `pipe` | what the server wrote to the peer's websocket and nobody has read; a write blocks when it holds `Capacity` messages |
| `Begin`, `LockSource`, `LockPeer`, `StartWrite`, `EndWrite`, `UnlockSource` | the steps of a handler; `AppendBlock` writes first and takes `Source.Lock` after |
| `UnderPeerLock`, `Bare` | handlers that take the peer's lock around `WriteJSON`, and those that do not |
| `Clash` | gorilla's websocket panics when it notices a second writer; gin recovers, deferred `Unlock`s run, other locks stay held (`dead`) |
| `NeverUnlocks` | the nil `Client` in `CollectRoot` and in messages 1, 3 and 8, the early return in message 6. Whether it happens is `Membership`'s and `Peer`'s matter; here it may |
| `Read` | `comm1.ReadJSON` and what each message locks |

## 4. Runs

| Run | Specification, bounds | Shows |
|---|---|---|
| `Membership_free` | `Spec`; 2 shards, 2 clients each, 8 clients, random numbers 1 and 2 | `TypeOK`, `NoOverfill`, `OneSeatPerShard`, `LeaderIsSmallest`, `CommitteeFrozen` |
| `Membership_instep` | `InStepSpec`; 12 clients | `ExecutorsHeld`, `RootsVoteWhole`, `RoundsClose`, `RootsCollected` |
| `Membership_paced` | `PacedSpec`; 12 clients | `EveryoneVoted` fails |
| `Ledger_free` | `LedgerSpec`; 1 executor, 3 rounds, packs of 2, 1 internal and 2 cross-shard transactions per shard, blocks with and without votes | `TypeOK`, `LedgerTypeOK`, `ListsAgree`, `RelaysSurvive`, `ValueConserved` |
| `Ledger_roots` | `LedgerSpec`; the same, headers with 0 or 1 votes | `OnlyVerifiedStates` fails |
| `TxPipeline_steady` | `SteadySpec`; 4 executors, 3 rounds, 7 internal and 5 cross-shard transactions per shard | `PipelineIsQueue` |
| `TxPipeline_late` | `VotedSpec`; 2 executors, 2 rounds | `RecordedOnce` fails |
| `Horizon_steady` | `HorizonSpec`; 8 clients, 1 cross-shard transaction per shard | `HeaderHasVotes`, `ServerIsSteady`, `ChainGrows` |
| `Peers_synced` | `PeersSpec`; 5 clients, `Lag` 1 | `ServersAgree`, `BothServe` |
| `Peers_joining` | `JoiningSpec`; 5 clients, `Lag` 2 | `SlotsCounted`, `ElectionsAgree` |
| `Peers_slots` | `JoiningSpec`; the same | `SlotsShared` fails |
| `ServerLocks_two` | `Spec` of `ServerLocks`; two requests at a time on one server, one on the other, connections of one message | `TypeOK`, `OnlyUploadsClash`, `RequestsEnd` |

`ServerIsSteady` is a refinement: the whole server, with groups, elections and
votes of its own, implements `TxPipeline`'s `SteadySpec`; and that implements
`TxQueue` (`PipelineIsQueue`).

Why the bounds suffice. The code runs with two shards. With two clients a shard
has one executor and one committee member; eight clients make two full rounds,
so a group validates while the next fills, with every order of registrations,
uploads and roots, and twelve let a third group fill while the first still
validates: the validation stage never holds more than two groups' objects.
Random numbers 1 and 2 give smaller, larger and equal ones; in the runs about
hand-over the numbers do not matter and there is one. Roots are counted and not
compared in `Membership`, and one suffices. In `TxPipeline` two rounds have two
groups at work at once, three or four let a list be packed, refused, put back
and packed again, or a payment be made, relayed and received; packs of two with one, two and three transactions waiting
have the channel shorter than, as long as and longer than a pack. In
`TxPipeline_steady` seven are enough that stage 0 is not empty when an executor of
an old round packs after the last round. The quorum is
`max(1, 2*CLIENT_MAX/3)`: 2 in the code, and 1 with two clients per shard.

`Ledger_free` has one executor per group; that executors of one group agree is
proved for all numbers of them (`WitnessesAgree`), and `TxPipeline_steady` has
four.

`Horizon_steady` runs two full rounds: the second leader's header is the first
that can carry votes. `Peers_synced` runs one full round and the first client of
the next at either server, while the first group validates; the random numbers
(`Shuffled`) are such that whoever fills a shard may win it or not. `Lag` 1 with
five clients is what finishes in a minute; 4 clients with `Lag` 2 (222,000
states), 5 with `Lag` 2 (1.7 million) and 6 with `Lag` 1 (2.7 million) pass as
well, and so do random behaviours of up to 100 steps with three clients per shard
and a quorum of two (16 million states of them); the
theorems hold for any number of clients and any `Lag`. `Peers_joining` has one client more than the two
shards have slots for, so that slots run out and one may be given away twice, and
two unread messages in each direction, enough that both servers have given the
same slot away before either reads of it, and that two shards' registrations are
read in either order; `Lag` 3, and 6 clients with three per shard, pass as well.
In `ServerLocks_two` one handler uploads blocks while another writes under
both locks, under one or with a panic, and the peer's handler fills the
connection in the other direction: each kind of handler the locks tell apart has
one. With all five kinds on every handler (11.6 million states) both
invariants hold too. A connection of one message is full soonest; a larger one
only delays the moment both sides wait, and the theorems hold for any capacity.

`CHECK_DEADLOCK FALSE` is set everywhere because the bounds on clients or rounds
end every behaviour; in `ServerLocks_two` because the servers really may stop:
after a panic, or when they are `Jammed`. The two runs with one executor or four
differ from the others to keep the state space small: executors are
interchangeable, and `SYMMETRY` is used only with a safety refinement.

### Schedules

The comments in the server say "only the ideal case is considered"
(`controller/shard.go:36`), and no line enforces one. So the schedules are
assumptions, each as weak as TLC let it be:

- *paced* (`PacedSpec`): an executor reports after its round is closed, and a
  leader posts its block when the rounds before have been reported. It is not
  enough: see the first finding.
- *in step* (`InStepSpec`): besides, nobody joins a shard whose last group has
  reported while another shard's has not. Then every group is handed over.
- *steady* (`SteadySpec`): a group witnesses when the roots of the one before are
  in, its leader packs when its witnesses suffice, and blocks get their votes.
  `HorizonSpec` is in step and steady at once; its blocks get their votes because
  the leader waits for those of everyone it asked.
- *synced* (`Peers`): a comment asks whether servers may fail to get to sync
  (`controller/shard.go:37`). Here a server takes a request when the two are
  connected, it has read what its peer wrote, and the peer is not between the
  two halves of an upload. The last condition is needed: without it TLC finds
  `ServersAgree` violated, because a peer that has applied the forwarded block
  goes on to the last root of the stage, and that message reaches the uploader
  before its own `AppendBlock` has reset the groups the root hands over. A leader
  posts its block when it has the votes the block needs, as on the steady
  schedule: a refused block puts its transactions back into the pools, and a
  witness that comes between the two halves may come before them on one server
  and after them on the other. The block is the one that was posted: votes that
  come between the halves are not in it, on either server. Random
  numbers differ (`PeerAssumption`): with equal ones two servers range over their
  maps in different orders and may elect different clients.
- *joining* (`PeersJoining`): nothing but that the two are connected, and that it
  is the first round. `Lag` bounds the unread messages.

### Fairness

`InStepFairness` is weak fairness of assignment, of registration in each shard,
of the leader's upload and of each executor's report. Requests are served by
goroutines that only wait for a mutex held for a bounded time, so a request that
was made is handled; that a client makes its next request is an assumption
about clients: the server has no timeout that would replace one, and without it
neither `RoundsClose` nor `RootsCollected` holds. `HorizonFairness` is the same
for the whole server: assignment, registration, and each client's next request.

`ServerLocks` assumes strong fairness of each goroutine's own steps. A goroutine
that waits for a mutex is disabled whenever somebody else has it; Go's mutexes
hand themselves to whoever has waited for a millisecond, and a blocked write to
a connection is woken when there is room. Nothing is assumed about requests that
arrive, nor about panics.

### Findings

1. `CollectRoot` hands the stage on although not everyone has voted
   (`Membership_paced`): a shard that elects while its slot is still taken waits
   for the end of the whole stage, and if the other shard's slot was freed and
   taken by the next group, that end comes a round later, when
   `Consensus_Map` holds yet another group.
2. `WitnessCount` is cleared by the last root of one group, whichever group is
   witnessing (`TxPipeline_late`). Executors of two groups that pack at one height
   hold the same cached lists; the first group's witnesses record them, its roots
   clear the count, and the second group's witnesses record them again.
3. `VerifyGSRoot` decides nothing (`Ledger_roots`): both account maps hold the
   same pointers, so a block's execution is in force at once.
4. Two servers tell more than `CLIENT_MAX` clients one shard (`Peers_slots`): one
   has given all its slots away, and the other gives one of them away before it
   has read of them. `NodeNum` then passes `CLIENT_MAX`, and the test for a full
   shard is for equality. Nothing is counted twice or lost, though
   (`SlotsCounted`), and without such a slot the elections agree, in whatever order
   the messages cross (`ElectionsAgree`).

Two more were seen while modelling; the code shows them without a run.
`AppendBlock` answers an uploader that is not the leader and goes on
(`controller/block.go:147`; its copy in `main.go:321` returns), so that a block
posted twice closes the next round before it has a leader. The model lets only the
leader upload. And the put-back of a refused block skips the last shard
(`controller/block.go:160`: `i < len(list)` over keys 1 to `ShardNum`). The model
has that bound (`AllButLast`). The next leader still gets these transactions, from
the lists cached for the height, which is why `RelaysSurvive` holds; the other
shards' it gets twice.

A refused block can also make money: relay transactions are put back while the
cached lists still hold them, and the beneficiary is paid twice.
`ValueConserved` therefore says that balances and relays on their way never fall
below the deposits, and equal them as long as no block was refused. Nothing in
the repository says what should happen, so it is not a finding.

`ServersAgree` leaves the pool of stage 2 out: the server packs it for its height
less one and not for the last shard, the peer for the height it is sent plus
one and for every shard. `RequestsEnd` names what it cannot exclude: a request
waits for ever after a panic or an early return that keeps a lock (`Broken`), or
when both connections are full and each server's lock is held by a writer
(`Jammed`); TLC reaches `Jammed` without any panic. No comment claims either
away.

## 5. Proofs

`MembershipProofs` proves for `Spec`, for every number of shards, every
`CLIENT_MAX > 1`, every finite set of clients and any integers as random numbers:

- `TypeCorrect`: `[]TypeOK`;
- `SeatingInvariant`: `[]Seating`, the inductive invariant;
- `NeverOverfilled`, `OneMemberPerShard`, `LeaderCorrect`: `[]NoOverfill`,
  `[]OneSeatPerShard`, `[]LeaderIsSmallest`;
- `CommitteeStaysFrozen`: `CommitteeFrozen`.

The assumptions are `MembershipAssumption`, which TLC evaluates in every run of
`MCMembership`.

The properties are not inductive. That a leader means a full committee does not
say that a shard elects once; that needs the slots of a shard to be counted, and
that its committee member exists exactly when they are all taken. That the
leader has the smallest number of the round follows from two facts a state must
carry along: a committee member has the smallest number of its own shard, also
among those registered before, and the leader the smallest of the committee.
`Seating` adds these: `RegisteredPast` (no client is from a round to come),
`SeatedWhenFull` (a shard has its one member in the committee exactly when
`CLIENT_MAX` clients have registered), `SeatIsSmallest` and
`LeaderIsSmallestSeat`. TLC checked each of them first.

The proof has one lemma per action. Three of the four actions keep `Registered`
and `Committee` as they are, or move to a round nobody has joined
(`UploadSeating`, `AssignSeating`, `LeaderSeating`). Registration is cut in two:
a client that joins and elects nobody (`JoinOnlySeating`), and one that fills
its shard (`JoinElectSeating`), both on top of `JoinSlots`, `JoinKeepsSeated` and
`JoinKeepsRegistered`, which say what a registration does to one shard's slots
and leaves alone in the others. `LeaderMeansFull` is the fact `CommitteeFrozen`
needs: with a leader there is no slot left to register with.

`TxPipelineProofs` proves `WitnessesAgree`, `[]ListsAgree` for `Spec`, for every
number of shards, executors, rounds and transactions, from
`TxPipelineAssumption`. `ListsAgree` compares executors with each other and says
nothing of the pool the next one will pack from. `Agreement` adds what connects
them: stage 0 was packed for one height in every shard, at most the next
block's (`CacheInStep`); nobody packed for a later one, and who packed for that
one holds what is cached (`CacheIsShared`). Only `ExecutorPacks` touches
stage 0 (`ExecutorPacksAgreement`): if the height is the cached one the lists are
those the others got, otherwise nobody has packed for it yet. All other handlers
are shown to keep stage 0 and the lists in clients' hands (`KeepsLists`), and one
lemma, `KeepsAgreement`, covers them.

`TxPipelineProofs` also proves `PipelineTypes`, `[]TypeOK`: the lists in pools, on
the chain and in clients' hands are filed under the shard and kind they belong
to. `Typed` says so function by function (`TypeOK` does not say that `exec` is a
function of records). What needs an argument is that `SubSeq` splits a channel
into two lists of the same transactions (`Split`, `PackedIsPool`), and that
relays are filed under the shard they pay (`RelaysAreLists`).

What flows through stage 1 comes next in `TxPipelineProofs`. `Flow`
(`FlowInvariant`) ties the leader to the pools: a leader that has packed holds exactly what its shards have
cached for the next block (`LeaderHolds`), no shard is packed further ahead
(`NotAhead`), and relay transactions come from blocks alone (`NoRelays`). With it,
`Recorded(s, k)`, everything on the chain, in the block and in the channel of
stage 1, only grows at its end: a witness adds its lists (`ExecutorRecords`), a
pack moves within it (`LeaderRecords`), an accepted block moves its lists to the
chain and adds its relays, and a refused one adds its lists again
(`UploadRecords`). `NoPaymentLost`, `[]RelaysSurvive`, counts payments and relays:
both grow by the same lists or only the relays do (`GrowTogether`, on
`TimesConcat`). The property speaks of the payments on the chain, its inductive
form `NoneLost` of all transactions.

`PipelineImplementsQueue` proves `PipelineIsQueue` for `SteadySpec`. What the
schedule gives is `Paced`: a group has witnessed only if those before have
reported (`InTurn`); a round that has its block, or whose leader has packed, has
enough witnesses (`EnoughWitnesses`); who packed for a round did so at its height
or later (`InRound`); the one counter of all rounds stands where the witnesses of
the only group that is open have put it (`CountsOpen`, `OneOpen`); and a block is as
small as a pack (`SmallBlocks`). `Steady` is `Flow`, `Agreement` and `Paced`
together (`SteadyInvariant`). Then there is a lemma per action. Most leave the
queue as it is: `PacksQueue`, because a pack for a new height finds the lists of
the old one witnessed; `LastWitnessQueue`, because the witness that suffices holds
the lists cached for the open round (`OpenRoundCached`), and no other is
recorded. `BlockQueue` is `TxQueue`'s `Commit`. The theorem has one hypothesis:
a group has at most 100000 executors. It is needed: the code stops counting
by setting the counter to -100000, and a witness more than that would start the
count again.

`LedgerProofs` proves that `LedgerSpec` implements `Spec` of `TxPipeline`
(`LedgerIsPipeline`), so that all of the above holds of the ledger
(`LedgerLosesNoPayment`), and then `LedgerTypes` and `ValueIsConserved`.
`Books`, proved with `Flow` (`BooksInvariant`), says that both maps point to the
accounts made at the start. Money is counted shard by shard: `Worth` of a shard
is what its two accounts hold and what is on its way to it. A block takes
payments off a shard, and puts as much on the way to the next; a relay that is
executed changes its `Worth` by nothing. `Origin` permutes the shards, so the sums
over both sides are equal (`SumPermuted`), and the total stays. A refused block
leaves all accounts alone and can only add relays.

`SumProofs` has what the sums need. `MapThenSumSet` is a recursive function over
sets, and the library's induction theorems take an operator as parameter. The
way round is `WFMin`: a set of sizes at which a claim fails has a smallest
element. `SubsetInd` states induction over a finite set with a set of subsets in
place of the operator, and from it follow that the sum does not depend on the
order in which the elements are taken (`Swap`), and `SumChange`, `SumPlus`,
`SumConstant`, `SumPermuted`.

With rounds in step, `MembershipProofs` also proves `ExecutorsAlwaysHeld`,
`[]ExecutorsHeld` for `InStepSpec`, under the same assumptions. `ExecutorsHeld` is
about executors that owe a root; a root that ends the stage hands over whatever the consensus map holds, so the
invariant must say where every group is. `HandOver` adds to `Seating`: only the
executors of this round and of the last have not reported (`TwoGroups`); the
consensus map holds this round's groups (`SlotsAreFresh`); while a root is owed
the slots of the validation stage hold the last round's groups that owe one, and
nothing else (`StageHoldsOwed`); when none is, a group of this round is in its
slot as soon as it elects (`StageHoldsElected`). `StageDoneIsLast` is the step
where the two meet: on this schedule the stage is done exactly when nobody owes a
root any more. `VotesAlwaysWhole`, `[]RootsVoteWhole`, adds `VotesAccounted`: as long
as a root is owed, the votes a shard has and those it waits for make up its
group, and when none is, it has none. The last root therefore publishes a whole
group's votes for every shard. `MembershipAssumption` says that `Root` is finite: a
root is a hash. A server that never published would satisfy that, too, so
`VotesArePublished` proves the other half: from the last root of a round to the
close of the next one the votes of a whole group are there to be read
(`Published`). `ClosedRoundsFull` counts clients instead of roots, for `Spec` and so
for any schedule: the group of a closed round has `CLIENT_MAX` clients in every
shard (`GroupsFull`), and since no client is in two groups, a leader is only
elected in a round that the clients there are can fill.

`HorizonServerProofs` lifts this to the whole server. `ServerInStep` says that
`HorizonSpec` implements `Membership`'s `Init /\ [][InStepNext]_vars`. Most steps
leave membership alone; the one that needs an argument is `UploadRoot`, because
`Membership` lets only executors that owe a root report, and the server lets
whoever got to "validating". `Working` connects the two: what a client has done so
far fits its seat and round (`WorkingAsSeated`), which `PackValidTx`'s condition
on the round makes true. `ServerHoldsExecutors` and `ServerElects` follow from
`HandOver` and `Seating`; nothing is used of what the instance of `Ledger` does.

`HeadersCarryVotes`, `[]HeaderHasVotes`, has the hypothesis `Root = {r}`: every
executor computes the same root. (Otherwise `PackAccount` answers the votes of the
root that has most, and no shard need have all.) The leader reads the votes some
requests before it uploads; `Settled` says why they are not taken away from it: an
executor of the open round witnesses only when nobody owes a root
(`WitnessesSettle`), so from its first request on its leader acts while the
validation stage is empty (`LeaderSettles`), and a header written then has the
votes that `Published` speaks of (`HeaderIsWhole`).

`ServerImplementsPipeline` proves `ServerIsSteady`. Its refinement mapping gives
executors seats: the clients of a shard's group in some fixed order. The group of a
round is only looked at when it can no longer grow (`Served`: the round is over or
has its leader), because the order may change as long as it does; until then, the
executors are shown as having done nothing, which `WhatIsSeen` proves they have.
A group that is served has as many executors as seats (`ServedIsFull`,
`SeatsOccupied`), and no two seats the same one (`SeatsDiffer`); therefore a client's
request is one seat's step (`ExecutorMoves`). The invariant is `Serving`: `HandOver`,
`Working`, `GroupsFull`, and `Duties`, which has three parts. `Fits`: who leads is at
one of the leader's steps, who executes at one of an executor's. `Fresh`: an idle
client holds nothing. `Ballot`: the votes a leader has, and the members still to
vote, make up the committee. With the last one a block that is uploaded has the
votes of all `ShardNum` members (`BlockHasVotes`), and the hypothesis
`ShardNum >= MinVote` says that this is enough; `setup.go` has two shards and
needs two votes. What the pipeline takes for granted is then shown of Membership:
that a group has ended means all the rounds before owe nothing (`GroupsEnded`);
the counter is cleared by the last root of a group and by no other; a leader packs
in a round that is open, with enough witnesses (`WitnessesAreSeen`).

Nothing has to be proved again for the whole server. `Pipeline` is the same
instance as `Books`, of `LedgerProofs` and with any votes in a header.
`ServerImplementsLedger` adds to the refinement that a block is booked with the
votes in its leader's header, which are numbers (`StepHeaders`), and that no other
request touches rounds, height or accounts (`OnlyBlocksBook`). From `NoPaymentLost`,
`ValueIsConserved`, `LedgerLosesNoPayment` and `PipelineImplementsQueue` follow
`ServerConservesValue`, `ServerLosesNoPayment` and `ServerImplementsQueue`. Their
hypotheses are those of the two refinements; that the clients suffice for one round
(`Rounds # {}`; otherwise no leader is ever elected); and for the queue, at most
100000 seats. `PipelineAssumptions` proves that `TxPipelineAssumption` and
`LedgerAssumption` then hold of the instance, from `MembershipAssumption` and
`ServerAssumption`. `ValueConserved` says `=` only as long as no block was refused;
on this schedule none is.

`ServerLocksProofs` proves `[]TypeOK` and `[]OnlyUploadsClash` (`ClashesAreUploads`)
for any two or more servers, any handlers and any capacity, from
`LocksAssumption`. `Locking` says what a process holds where it is: whoever writes
and is not an upload holds `Source.Lock`, whoever writes and is not bare holds the
peer's. Two writers that are not the pair named would hold one lock together.

`PeerProofs` and `PeersProofs` are about two servers. They prove `ServersEndAlike`
and `BothGoOn` (`[]ServersAgree`, `[]BothServe`) for `PeersSpec`, for any number of shards, clients and transactions and any `Lag`, from
the assumptions on the constants and no others. `ServersAgree` speaks of moments
at which nothing is on its way; the proof must say what holds in between.

`PeerProofs` looks at one server. What two servers share is made a value
(`Shared`, a record), and so is what each of the eight messages does to it
(`After(m, a)`) and in which states it may be read (`Good(m, a)`). Two theorems
connect that to the handlers. `Serves`: a request that a server takes when it may
(`Serving`) changes nothing of the shared state and tells the peer nothing, or
writes one message, good where it is written, and changes the shared state as the
message does (`Sends`). `Applied`: the reading goroutine changes it in the same
way, and neither a nil entry nor a nil `Client` nor another leader's block is met
(`Repeats`). An upload is the exception, because it is forwarded before it is
applied: `Done` is the shared state with the block that has been posted, if one
has, and requests that come between the halves of an upload are shown to do to
`Done` what they do to `Shared`. A pack of stage 0 commutes with a block
(`PackCommutes`), and so does a witness, if its lists hold no relays
(`WitnessCommutes`); no other request touches what is shared then, because the groups
are full and everyone has reported. `Working` is what has to be known of the clients:
what they did fits their seat and round, and nobody uploads with fewer votes than
the block needs. Two servers elect the same leader because a search for the
smallest of different numbers has one result (`TheLeast`), whatever the order of
Go's maps.

`PeersProofs` puts two of them together; what is proved of one is used of the other
through an instance (`Two`; the lemmas `SameShards` to `SameSound` say that this
instance and the one in `Peers` are the same server). The inductive invariant is
`InSync` (`StaysInSync`). Its parts:

- `Paired`: at most one server is *ahead*, which means that it wrote something the
  other has not read or that it is uploading; and the unread messages lead from
  the other's shared state to the `Done` of the one that is ahead, every message
  being good where it is read (`Leads`);
- `Owned`: a root on its way is of a client that registered with the server that
  wrote it, so the server that reads it has not got that client at work;
- `Working`, and the types, of each server;
- `HandOver` and `GroupsFull` of the *log*: the `Done` of the server that is
  ahead, with the slots both servers have told and not seen taken (`Awaiting`).

The log is there for what one server cannot know, for instance that a
registration forwarded to it finds a slot: slots are told by either server. It is
one `Membership` with rounds in step. A request is a step of it (`LogSteps`),
reading a message leaves it alone (`FirstReads`, `OtherReads`), so what
`MembershipProofs` proves inductive stays true of it (`LogKeeps`), and in turn
makes the next request one that may be served (`FirstSteady`, `OtherSteady`). This
is the refinement `TwoServersAreOne`, and `PairElectsAsOne` takes over from
`Membership` that the clients of both servers elect one member per shard and the
leader with the smallest number, and that no executor is lost.

The two invariants are proved for the synced schedule, as they are checked for
it; on others they do not hold (see Schedules).

The last part of `PeerProofs` and of `PeersProofs` is about `PeersJoining`.
`SlotsAreCounted` and `ElectionsEndAlike` (`[]SlotsCounted`, `[]ElectionsAgree`) hold
of `JoiningSpec` for any number of shards and clients, any `CLIENT_MAX > 1` and any
`Lag`. Neither property is inductive: they speak of the moments at which nothing
is on its way. The invariant `Joining` (`StaysJoining`) has two halves. `Crossing`
is about what crosses: a client that registered with one server and is not known
to the other is in exactly one message to it, and what a server has counted of a
shard together with the slots in messages to it is what both have told.
What a server has and what crosses are values, so that one lemma per request and
per message serves both directions (`SlotGiven`, `SlotHeard`, `ClientAdded`,
`ClientHeard`, and `CrossingTurned`). `Early` is about one server: as long as no
shard has more clients than `CLIENT_MAX`, its seats and leader are a function of
the clients it knows (`Electing`), in whatever order it heard of them. A shard has
elected exactly when it is full, its member is the only one with the smallest
number (`OneWins`), and the committee is complete exactly when all shards are full
(`CommitteeIsFull`, because its members are of different shards). Two servers that
know the same clients have therefore elected the same (`ElectAlike`).

Not proved: liveness (`RoundsClose`, `RootsCollected`, `ChainGrows`, `RequestsEnd`),
which TLAPS cannot do and TLC checks. That `Taken` is what the draining loop
takes is induction over data: `MCTxPipeline` checks it for up to 40 transactions.
Every invariant of the runs that pass has its theorem.

## 6. Not modelled

- In `Membership`, clients that register with a shard they were not told; the
  sockets (a closed one changes nothing); `ClientNum`, which is never used.
- In `TxPool`, a send that blocks on a full channel: it holds a million
  transactions and the server makes half a million. `AppendBlock` sends to the
  channels without the check the `Append` methods make; `TypeOK` of
  `TxPipeline` shows that the check never fails.
- Blocks whose contents are not the lists their leader packed, or whose relay
  lists are not those of its payments; which root a
  validator computes, and so what the heights of `PackValidTx` do to it.
- `GetHeight`, which answers a number and changes nothing. The hashing of roots,
  and the addresses drawn from `address.txt`.
- Between servers: a websocket that breaks (`ReadJSON`'s error is ignored, the
  loop switches on an empty message and never redials), a server that is
  restarted (nothing is persisted, and there is no catching up), messages written
  before the peer has connected, more than two servers (`main.go` dials one).
- Message 2 is passed on without `Source.Lock`, and `Peer` makes it a step like
  the others; a server whose lock is held for good would still pass blocks on.
- Data races: the logging goroutine reads account maps (`main.go:504`), message 2
  (`main.go:241`) and the loop of `AppendBlock` (`controller/block.go:139`) range
  over maps, all without `Source.Lock`. Go aborts when it notices, and what
  it notices is not a state of the server.
- In `ServerLocks`, writes to clients' websockets, which may block on a slow client
  in the same way; and the lock inside the chain, which is taken and released
  within one call.
- Routes, request types, JSON, logging.
