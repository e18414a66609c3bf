--------------------------- MODULE HorizonServer ---------------------------
(***************************************************************************)
(* A whole server: Membership, and on the same handlers what they do to    *)
(* the pools, the chain and the accounts (Ledger, through the instance     *)
(* Books).  Here a group of executors is the clients that registered, a    *)
(* leader is the client that was elected, the votes of a block are those   *)
(* committee members sent, and the header carries the votes for state      *)
(* roots that PackAccount answered.                                        *)
(***************************************************************************)
EXTENDS Membership, TxPool, SequencesExt

CONSTANTS
  TX_NUM, IntNum, CroNum, Deposit   \* as in Ledger

\* As TxPipeline and Ledger assume; and executors have a root to upload.
ASSUME ServerAssumption ==
  /\ ShardNum # 1
  /\ TX_NUM \in Nat \ {0}
  /\ IntNum \in Nat
  /\ CroNum \in Nat
  /\ Deposit \in Nat
  /\ Root # {}

VARIABLES
  pool, height, chain, WitnessCount,             \* as in TxPipeline
  AccountMap, NewAccountMap, Value, StateRoot,   \* as in Ledger
  work   \* what each client did since it registered, and holds

books      == <<pool, height, chain, WitnessCount>>
money      == <<AccountMap, NewAccountMap, Value, StateRoot>>
serverVars == <<vars, books, money, work>>

-----------------------------------------------------------------------------
\* Witnesses, votes for a block and votes for a root that suffice.
MinVote == Max({1, (2 * CLIENT_MAX) \div 3})

\* A client that has registered and has asked for nothing yet.
NoWork ==
  [step |-> "idle", lists |-> [s \in Shards |-> Empty], height |-> 0,
   vote |-> 0, votes |-> [s \in Shards |-> 0]]

\* How the pipeline sees the clients: the executors of a shard's group in some
\* fixed order, and the leader as long as it is one.
Seat == Shards \X (1 .. CLIENT_MAX - 1)

Held(w) == [step |-> w.step, lists |-> w.lists, height |-> w.height]

ExecutorAt(r, e) ==
  LET group == SetToSeq(Entries(e[1], r))
  IN  IF e[2] \in DOMAIN group THEN work[group[e[2]]] ELSE NoWork

ExecOf == [r \in Rounds |-> [e \in Seat |-> Held(ExecutorAt(r, e))]]

LeaderOf ==
  IF Winner = None THEN Held(NoWork)
  ELSE [Held(work[Winner]) EXCEPT !.step =
          IF @ \in {"idle", "packing"} THEN @ ELSE "packed"]

Books == INSTANCE Ledger WITH
  Executor <- Seat, Rounds <- Cardinality(Rounds), RootVotes <- 0 .. CLIENT_MAX,
  exec <- ExecOf, leader <- LeaderOf

HorizonInit ==
  /\ Init
  /\ work = [c \in Client |-> NoWork]
  /\ Books!LedgerInit

At(c, step)   == ~lockHeld /\ work[c].step = step
Goes(c, step) == work' = [work EXCEPT ![c].step = step]

-----------------------------------------------------------------------------
\* AssignShardNum and RegisterCommunication touch Membership only.
OnlyJoins(A) == A /\ UNCHANGED <<books, money, work>>

\* PackTransaction by an executor: the lists to witness.
ExecutorPacks(c) ==
  /\ At(c, "idle") /\ seat[c] = "exec" /\ Notified(c)
  /\ pool' = Books!Packed(0, Shards, height + 1)
  /\ work' = [work EXCEPT ![c] = [@ EXCEPT
       !.step = "packed", !.lists = Books!ListsOf(pool', 0), !.height = height + 1]]
  /\ UNCHANGED <<vars, height, chain, WitnessCount, money>>

\* WitnessTx.
WitnessTx(c) ==
  /\ At(c, "packed") /\ seat[c] = "exec"
  /\ Books!Witnessed(work[c].lists)
  /\ Goes(c, "witnessed")
  /\ UNCHANGED <<vars, height, chain, money>>

\* PackTransaction by the leader, up to Source.Lock.Unlock().
LeaderPacks(c) ==
  /\ At(c, "idle") /\ Winner = c
  /\ pool' = Books!Packed(1, Shards, height + 1)
  /\ work' = [work EXCEPT ![c] = [@ EXCEPT
       !.step = "packing", !.lists = Books!ListsOf(pool', 1)]]
  /\ UNCHANGED <<vars, height, chain, WitnessCount, money>>

\* The height in its answer is read after the lock is released.
LeaderReadsHeight(c) ==
  /\ work[c].step = "packing"
  /\ work' = [work EXCEPT ![c] = [@ EXCEPT !.step = "packed", !.height = height + 1]]
  /\ UNCHANGED <<vars, books, money>>

-----------------------------------------------------------------------------
\* Mutant: the votes still being collected are handed out.
VotesAnsweredNew == [s \in Shards |-> Max({NewRootsVote[s][root] : root \in Root})]

\* What PackAccount answers of RootsVote: for each shard the votes of the root
\* that has most.  (VerifyGSRoot looks for one with enough.)
VotesAnswered == [s \in Shards |-> Max({RootsVote[s][root] : root \in Root})]

\* PackAccount by the leader, whose header will carry the answer.
PackAccount(c) ==
  /\ At(c, "packed") /\ Winner = c
  /\ work' = [work EXCEPT ![c] = [@ EXCEPT !.step = "ready", !.votes = VotesAnswered]]
  /\ UNCHANGED <<vars, books, money>>

\* Committee members other than the leader that are sent its block.
Asked == {c \in Committee \ {Winner} : work[c].step = "idle"}

\* MultiCastBlock by the leader, whose block has its own vote already.
MultiCastBlock(c) ==
  /\ At(c, "ready") /\ Winner = c
  /\ work' = [d \in Client |->
       IF d = c THEN [work[d] EXCEPT !.step = "proposed", !.vote = 1]
       ELSE IF d \in Asked THEN [work[d] EXCEPT !.step = "asked"]
       ELSE work[d]]
  /\ UNCHANGED <<vars, books, money>>

\* SendVote: the vote is passed on to the leader.  When the round is over the
\* committee's map is nil; gin recovers the panic, and the deferred Unlock
\* leaves everything as it was.
SendVote(c) ==
  /\ At(c, "asked")
  /\ work' = IF c \in Committee
               THEN [work EXCEPT ![c].step = "voted", ![Winner].vote = @ + 1]
               ELSE [work EXCEPT ![c].step = "voted"]
  /\ UNCHANGED <<vars, books, money>>

-----------------------------------------------------------------------------
\* AppendBlock with everything it does, for a block that a client w has built.
TakesBlock(w) ==
  /\ AppendBlock
  /\ Books!Block(w.height, w.vote, w.lists)
  /\ Books!Booked(w.votes, w.lists)
  /\ UNCHANGED WitnessCount

\* AppendBlock by the leader.
UploadBlock(c) ==
  /\ At(c, "proposed") /\ Winner = c
  /\ TakesBlock(work[c])
  /\ Goes(c, "uploaded")

\* PackValidTx.
PackValidTx(c) ==
  /\ At(c, "witnessed") /\ client[c].round < round
  /\ pool' = Books!Packed(2, Books!AllButLast, height - 1)
  /\ Goes(c, "validating")
  /\ UNCHANGED <<vars, height, chain, WitnessCount, money>>

\* Mutant: the counter is not cleared when the stage is done.
RestartedNever(c) == WitnessCount' = WitnessCount

\* CollectRoot clears the counter when the validation stage is done.
Restarted(c) == WitnessCount' = IF StageDone(c) THEN 0 ELSE WitnessCount

\* CollectRoot with everything it does.
TakesRoot(c, root) ==
  /\ IF IsValidator(c)
       THEN CollectRoot(c, root) /\ Restarted(c)
       ELSE CollectRootPanics(c, root) /\ UNCHANGED WitnessCount
  /\ UNCHANGED <<pool, height, chain, money>>

\* CollectRoot by an executor.
UploadRoot(c, root) ==
  /\ At(c, "validating")
  /\ TakesRoot(c, root)
  /\ Goes(c, "rooted")

-----------------------------------------------------------------------------
(***************************************************************************)
(* Clients on the steady schedule, Membership's and TxPipeline's together: *)
(* rounds in step; executors witness when the group before has reported    *)
(* and validate when their round's block is on the chain; the leader packs *)
(* when enough have witnessed, waits for its committee's votes, and then   *)
(* uploads when the rounds before have reported.                           *)
(***************************************************************************)
JoinsInStep ==
  \/ OnlyJoins(AssignShardNum)
  \/ \E s \in Shards : OnlyJoins(RegisterInStep(s))

Witnesses ==
  {c \in Client : client[c].round = round /\ seat[c] = "exec" /\ work[c].step = "witnessed"}

LeaderSteps(c) ==
  \/ Cardinality(Witnesses) >= MinVote /\ LeaderPacks(c)
  \/ LeaderReadsHeight(c)
  \/ PackAccount(c)
  \/ MultiCastBlock(c)
  \/ /\ OwedRoots = {}
     /\ \A d \in Committee : work[d].step # "asked"
     /\ UploadBlock(c)

ExecutorSteps(c) ==
  \/ ExecutorPacks(c)
  \/ (\A d \in OwedRoots : client[d].round >= client[c].round) /\ WitnessTx(c)
  \/ PackValidTx(c)
  \/ \E root \in Root : UploadRoot(c, root)

ClientSteps(c) == LeaderSteps(c) \/ SendVote(c) \/ ExecutorSteps(c)

HorizonNext == JoinsInStep \/ \E c \in Client : ClientSteps(c)

\* As in InStepFairness: no request waits for ever, and no client goes away.
HorizonFairness ==
  /\ WF_serverVars(OnlyJoins(AssignShardNum))
  /\ \A s \in Shards : WF_serverVars(OnlyJoins(RegisterInStep(s)))
  /\ \A c \in Client : WF_serverVars(ClientSteps(c))

HorizonSpec == HorizonInit /\ [][HorizonNext]_serverVars /\ HorizonFairness

-----------------------------------------------------------------------------
(***************************************************************************)
(* Properties                                                              *)
(***************************************************************************)
\* The pipeline, which takes groups, leaders and the end of a group for granted,
\* is what the server does with the groups and leaders that Membership makes:
\* WitnessCount is cleared exactly when the last executor of a group has
\* reported, a leader packs for the round that is open, a group is served when
\* the round before is closed.  So PipelineIsQueue holds of the whole server.
ServerIsSteady == Books!SteadySpec

\* From the second block on a header carries, for every shard, the votes of a
\* whole group, although its leader read them some requests before it uploads
\* and the validation stage moves on in between: no shard's state stays
\* unverified for good.
HeaderHasVotes == height >= 2 => \A s \in Shards : StateRoot[s] = CLIENT_MAX - 1

\* Every round that can fill puts a block on the chain, through election, votes
\* and the reports of the group before.
ChainGrows == \A r \in Rounds : round = r ~> height >= r
=============================================================================
