-------------------------- MODULE TxPipelineProofs --------------------------
(***************************************************************************)
(* Theorems about TxPipeline, for any number of shards, executors, rounds  *)
(* and transactions: executors that packed at one height hold the same     *)
(* lists; and everything that was witnessed or relayed stays recorded, in  *)
(* order, whatever is packed, refused or put back.                         *)
(***************************************************************************)
EXTENDS TxPipeline, FiniteSetTheorems, SequenceTheorems, TLAPS

-----------------------------------------------------------------------------
\* What the state is made of, as far as the argument needs it.
Shape ==
  /\ height \in Nat
  /\ DOMAIN pool = Stages
  /\ DOMAIN exec = 1 .. Rounds
  /\ \A r \in 1 .. Rounds : DOMAIN exec[r] = Executor
  /\ \A r \in 1 .. Rounds, e \in Executor :
       /\ DOMAIN exec[r][e] = {"step", "lists", "height"}
       /\ exec[r][e].height \in Nat

\* The height stage 0 was packed for last.
CachedFor == pool[0][1].Height

\* It is the same in every shard, and not beyond the next block.
CacheInStep ==
  /\ CachedFor \in 0 .. height + 1
  /\ \A s \in Shards : pool[0][s].Height = CachedFor

HasPacked(r, e) == exec[r][e].step # "idle"

\* Nobody packed for a later height, and who packed for that one holds the
\* lists that are cached.
CacheIsShared ==
  \A r \in 1 .. Rounds, e \in Executor :
    HasPacked(r, e) =>
      /\ exec[r][e].height <= CachedFor
      /\ exec[r][e].height = CachedFor => exec[r][e].lists = ListsOf(pool, 0)

Agreement == Shape /\ CacheInStep /\ CacheIsShared /\ ListsAgree

-----------------------------------------------------------------------------
\* A pool packed for a height holds that height, and one packed for the same
\* height already is left as it is.
LEMMA PackedFor ==
  ASSUME NEW p, NEW h, NEW num
  PROVE  /\ PackTransactionList(p, h, num).Height = h
         /\ p.Height = h => PackTransactionList(p, h, num) = p
BY DEF PackTransactionList

\* There is a first shard.
LEMMA FirstShard == 1 \in Shards
BY TxPipelineAssumption DEF TxPipelineAssumption, Shards

\* At the start nothing is packed.
LEMMA InitAgreement == Init => Agreement
<1> SUFFICES ASSUME Init PROVE Agreement
  OBVIOUS
<1>1. \A r \in 1 .. Rounds, e \in Executor : exec[r][e] = Nothing
  BY DEF Init
<1>2. \A s \in Shards : pool[0][s].Height = 0
  BY DEF Init, Stages, MakePool
<1>3. Shape
  BY <1>1 DEF Init, Shape, Nothing
<1>4. CacheInStep
  <2>1. height = 0
    BY DEF Init
  <2> QED BY <1>2, <2>1, FirstShard DEF CacheInStep, CachedFor
<1>5. CacheIsShared /\ ListsAgree
  BY <1>1 DEF CacheIsShared, ListsAgree, HasPacked, Nothing
<1> QED BY <1>3, <1>4, <1>5 DEF Agreement

\* A step that leaves stage 0, and what executors were handed, as it is.
KeepsLists ==
  /\ pool'[0] = pool[0]
  /\ height' \in {height, height + 1}
  /\ \A r \in 1 .. Rounds, e \in Executor :
       /\ HasPacked(r, e)' => HasPacked(r, e)
       /\ exec'[r][e].lists = exec[r][e].lists
       /\ exec'[r][e].height = exec[r][e].height

\* Such a step keeps the invariant.
LEMMA KeepsAgreement ==
  ASSUME Agreement, Shape', KeepsLists
  PROVE  Agreement'
<1>1. CachedFor' = CachedFor /\ ListsOf(pool, 0)' = ListsOf(pool, 0)
  BY DEF KeepsLists, CachedFor, ListsOf
<1>2. CacheInStep'
  <2>1. CachedFor' \in 0 .. height' + 1
    <3>1. CachedFor \in 0 .. height + 1 /\ height \in Nat
      BY DEF Agreement, CacheInStep, Shape
    <3>2. height' \in {height, height + 1}
      BY DEF KeepsLists
    <3>3. CASE height' = height
      BY <1>1, <3>1, <3>3
    <3>4. CASE height' = height + 1
      BY <1>1, <3>1, <3>4
    <3> QED BY <3>2, <3>3, <3>4
  <2>2. \A s \in Shards : pool'[0][s].Height = CachedFor'
    BY <1>1 DEF Agreement, CacheInStep, KeepsLists
  <2> QED BY <2>1, <2>2 DEF CacheInStep
<1>3. CacheIsShared'
  BY <1>1 DEF Agreement, CacheIsShared, KeepsLists
<1>4. ListsAgree'
  BY DEF Agreement, ListsAgree, KeepsLists, HasPacked
<1> QED BY <1>2, <1>3, <1>4 DEF Agreement

\* One executor takes a step in which it keeps the lists it was handed.
LEMMA ExecutorKeeps ==
  ASSUME Shape, NEW r \in 1 .. Rounds, NEW e \in Executor, NEW step,
         exec[r][e].step # "idle",
         exec' = Stepped(r, e, step),
         pool'[0] = pool[0], DOMAIN pool' = Stages, height' = height
  PROVE  Shape' /\ KeepsLists
<1>1. \A q \in 1 .. Rounds, d \in Executor :
        /\ DOMAIN exec'[q][d] = {"step", "lists", "height"}
        /\ exec'[q][d].lists = exec[q][d].lists
        /\ exec'[q][d].height = exec[q][d].height
        /\ HasPacked(q, d)' => HasPacked(q, d)
  BY DEF Shape, HasPacked, Stepped
<1>2. DOMAIN exec' = 1 .. Rounds /\ \A q \in 1 .. Rounds : DOMAIN exec'[q] = Executor
  BY DEF Shape, Stepped
<1> QED BY <1>1, <1>2 DEF Shape, KeepsLists

\* Sending to the later stages leaves stage 0 alone.
LEMMA SentElsewhere ==
  ASSUME NEW P, NEW stage, NEW S, NEW lists, stage # 0, DOMAIN P = Stages
  PROVE  Sent(P, stage, S, lists)[0] = P[0] /\ DOMAIN Sent(P, stage, S, lists) = Stages
BY DEF Sent, Stages

\* So does packing from them.
LEMMA PackedElsewhere ==
  ASSUME NEW stage, NEW S, NEW h, stage # 0, DOMAIN pool = Stages
  PROVE  Packed(stage, S, h)[0] = pool[0] /\ DOMAIN Packed(stage, S, h) = Stages
BY DEF Packed, Stages

-----------------------------------------------------------------------------
\* Packing for witnesses: the lists are those cached for the next block, or
\* nobody packed for it yet.
LEMMA ExecutorPacksAgreement ==
  ASSUME Agreement, NEW r \in 1 .. Rounds, NEW e \in Executor, ExecutorPacks(r, e)
  PROVE  Agreement'
<1>1. /\ DOMAIN pool' = Stages
      /\ \A s \in Shards :
           pool'[0][s] = PackTransactionList(pool[0][s], height + 1, TX_NUM)
  BY DEF ExecutorPacks, Packed, Agreement, Shape, Stages
<1>2. \A s \in Shards : pool'[0][s].Height = height + 1
  BY <1>1, PackedFor
<1>3. CachedFor' = height + 1
  BY <1>2, FirstShard DEF CachedFor
<1>4. height' = height /\ height \in Nat
  BY DEF ExecutorPacks, Agreement, Shape
<1>5. CachedFor = height + 1 => ListsOf(pool', 0) = ListsOf(pool, 0)
  <2> SUFFICES ASSUME CachedFor = height + 1 PROVE ListsOf(pool', 0) = ListsOf(pool, 0)
    OBVIOUS
  <2>1. \A s \in Shards : pool'[0][s] = pool[0][s]
    BY <1>1, PackedFor DEF Agreement, CacheInStep
  <2> QED BY <2>1 DEF ListsOf
<1>6. /\ exec'[r][e] = [step |-> "packed", lists |-> ListsOf(pool', 0), height |-> height + 1]
      /\ \A q \in 1 .. Rounds, d \in Executor :
           q # r \/ d # e => exec'[q][d] = exec[q][d]
      /\ DOMAIN exec' = 1 .. Rounds
      /\ \A q \in 1 .. Rounds : DOMAIN exec'[q] = Executor
  BY DEF ExecutorPacks, Agreement, Shape
<1>7. Shape'
  <2>1. \A q \in 1 .. Rounds, d \in Executor :
          /\ DOMAIN exec'[q][d] = {"step", "lists", "height"}
          /\ exec'[q][d].height \in Nat
    BY <1>4, <1>6 DEF Agreement, Shape
  <2> QED BY <1>1, <1>4, <1>6, <2>1 DEF Shape
<1>8. CacheInStep'
  BY <1>2, <1>3, <1>4 DEF CacheInStep
<1>9. CacheIsShared'
  <2> SUFFICES ASSUME NEW q \in 1 .. Rounds, NEW d \in Executor, HasPacked(q, d)'
               PROVE  /\ exec'[q][d].height <= height + 1
                      /\ exec'[q][d].height = height + 1
                           => exec'[q][d].lists = ListsOf(pool', 0)
    BY <1>3 DEF CacheIsShared, ListsOf
  <2>1. CASE q = r /\ d = e
    BY <1>4, <1>6, <2>1
  <2>2. CASE q # r \/ d # e
    <3>1. exec'[q][d] = exec[q][d]
      BY <1>6, <2>2
    <3>2. HasPacked(q, d)
      BY <3>1 DEF HasPacked
    <3>3. /\ exec[q][d].height <= CachedFor
          /\ exec[q][d].height = CachedFor => exec[q][d].lists = ListsOf(pool, 0)
      BY <3>2 DEF Agreement, CacheIsShared
    <3>4. CachedFor \in 0 .. height + 1 /\ exec[q][d].height \in Nat
      BY DEF Agreement, CacheInStep, Shape
    <3> QED BY <1>4, <1>5, <3>1, <3>3, <3>4
  <2> QED BY <2>1, <2>2
<1>10. ListsAgree'
  <2>1. \A q \in 1 .. Rounds, d \in Executor :
          HasPacked(q, d)' /\ exec'[q][d].height = height + 1
            => exec'[q][d].lists = ListsOf(pool', 0)
    BY <1>3, <1>9 DEF CacheIsShared, ListsOf
  <2> SUFFICES ASSUME NEW p \in 1 .. Rounds, NEW q \in 1 .. Rounds,
                      NEW c \in Executor, NEW d \in Executor,
                      HasPacked(p, c)', HasPacked(q, d)',
                      exec'[p][c].height = exec'[q][d].height
               PROVE  exec'[p][c].lists = exec'[q][d].lists
    BY DEF ListsAgree, HasPacked
  <2>2. CASE exec'[p][c].height = height + 1
    BY <2>1, <2>2
  <2>3. CASE exec'[p][c].height # height + 1
    <3>1. exec'[p][c] = exec[p][c] /\ exec'[q][d] = exec[q][d]
      BY <1>6, <2>3
    <3> QED BY <3>1 DEF Agreement, ListsAgree, HasPacked
  <2> QED BY <2>2, <2>3
<1> QED BY <1>7, <1>8, <1>9, <1>10 DEF Agreement
-----------------------------------------------------------------------------
\* A step no executor takes, and that leaves stage 0 alone.
LEMMA OthersKeep ==
  ASSUME Shape, exec' = exec, pool'[0] = pool[0], DOMAIN pool' = Stages,
         height' \in {height, height + 1}
  PROVE  Shape' /\ KeepsLists
<1>1. height' \in Nat
  <2>1. height \in Nat
    BY DEF Shape
  <2> QED BY <2>1
<1>2. Shape'
  BY <1>1 DEF Shape
<1> QED BY <1>2 DEF KeepsLists, HasPacked

\* The other three requests of an executor.
LEMMA ExecutorAgreement ==
  ASSUME Agreement, NEW r \in 1 .. Rounds, NEW e \in Executor, ExecutorSteps(r, e)
  PROVE  Agreement'
<1>1. CASE ExecutorPacks(r, e)
  BY <1>1, ExecutorPacksAgreement
<1>2. CASE WitnessTx(r, e)
  <2>1. pool'[0] = pool[0] /\ DOMAIN pool' = Stages
    <3>1. DOMAIN pool = Stages
      BY DEF Agreement, Shape
    <3>2. pool' \in {pool, Sent(pool, 1, Shards, exec[r][e].lists)}
      BY <1>2 DEF WitnessTx, Witnessed
    <3> QED BY <3>1, <3>2, SentElsewhere
  <2>2. /\ exec[r][e].step # "idle"
        /\ exec' = Stepped(r, e, "witnessed")
        /\ height' = height
    BY <1>2 DEF WitnessTx, Witnessed
  <2> QED BY <2>1, <2>2, ExecutorKeeps, KeepsAgreement DEF Agreement
<1>3. CASE PackValidTx(r, e)
  <2>1. pool'[0] = pool[0] /\ DOMAIN pool' = Stages
    BY <1>3, PackedElsewhere DEF PackValidTx, Agreement, Shape
  <2>2. /\ exec[r][e].step # "idle"
        /\ exec' = Stepped(r, e, "validating")
        /\ height' = height
    BY <1>3 DEF PackValidTx
  <2> QED BY <2>1, <2>2, ExecutorKeeps, KeepsAgreement DEF Agreement
<1>4. CASE CollectRoot(r, e)
  <2>1. /\ exec[r][e].step # "idle"
        /\ exec' = Stepped(r, e, "rooted")
        /\ height' = height /\ pool' = pool
    BY <1>4 DEF CollectRoot
  <2>2. DOMAIN pool' = Stages
    BY <2>1 DEF Agreement, Shape
  <2> QED BY <2>1, <2>2, ExecutorKeeps, KeepsAgreement DEF Agreement
<1> QED BY <1>1, <1>2, <1>3, <1>4 DEF ExecutorSteps

\* A block that is accepted or refused touches stages 1 and 2 only.
LEMMA AppendBlockAgreement ==
  ASSUME Agreement, NEW vote, AppendBlock(vote)
  PROVE  Agreement'
<1>1. DOMAIN pool = Stages
  BY DEF Agreement, Shape
<1>2. exec' = exec
  BY DEF AppendBlock, Block
<1>3. pool'[0] = pool[0] /\ DOMAIN pool' = Stages /\ height' \in {height, height + 1}
  <2>1. CASE Accept(leader.lists)
    <3> DEFINE Q == Sent(pool, 2, AllButLast, leader.lists)
    <3>1. Q[0] = pool[0] /\ DOMAIN Q = Stages
      BY <1>1, SentElsewhere
    <3>2. pool' = Sent(Q, 1, Shards, RelaysOf(leader.lists)) /\ height' = height + 1
      BY <2>1 DEF Accept
    <3> HIDE DEF Q
    <3> QED BY <3>1, <3>2, SentElsewhere
  <2>2. CASE Refuse(leader.lists)
    BY <1>1, <2>2, SentElsewhere DEF Refuse
  <2> QED BY <2>1, <2>2 DEF AppendBlock, Block
<1> QED BY <1>2, <1>3, OthersKeep, KeepsAgreement DEF Agreement

\* A leader packs from stage 1.
LEMMA LeaderAgreement ==
  ASSUME Agreement, LeaderPacks \/ LeaderReadsHeight
  PROVE  Agreement'
<1>1. DOMAIN pool = Stages
  BY DEF Agreement, Shape
<1>2. pool'[0] = pool[0] /\ DOMAIN pool' = Stages
  <2>1. pool' = Packed(1, Shards, height + 1) \/ pool' = pool
    BY DEF LeaderPacks, LeaderReadsHeight
  <2> QED BY <1>1, <2>1, PackedElsewhere
<1>3. exec' = exec /\ height' = height
  BY DEF LeaderPacks, LeaderReadsHeight
<1> QED BY <1>2, <1>3, OthersKeep, KeepsAgreement DEF Agreement

-----------------------------------------------------------------------------
\* Every step of the pipeline keeps the invariant.
LEMMA NextAgreement == Agreement /\ [Next]_vars => Agreement'
<1> SUFFICES ASSUME Agreement, [Next]_vars PROVE Agreement'
  OBVIOUS
<1>1. ASSUME NEW r \in Groups, NEW e \in Executor, ExecutorSteps(r, e)
      PROVE  Agreement'
  <2>1. r \in 1 .. Rounds
    BY DEF Groups
  <2> QED BY <1>1, <2>1, ExecutorAgreement
<1>2. ASSUME NEW vote \in {0, MinVote}, AppendBlock(vote) PROVE Agreement'
  BY <1>2, AppendBlockAgreement
<1>3. CASE UNCHANGED vars
  BY <1>3 DEF vars, clients, Agreement, Shape, CacheInStep, CachedFor, CacheIsShared,
              ListsAgree, HasPacked, ListsOf
<1> QED BY <1>1, <1>2, <1>3, LeaderAgreement DEF Next, Handlers

\* Stage 0's cache is always the one every executor of its height was served
\* from.
THEOREM AgreementInvariant == Spec => []Agreement
<1>1. Init => Agreement
  BY InitAgreement
<1>2. Agreement /\ [Next]_vars => Agreement'
  BY NextAgreement
<1> QED BY <1>1, <1>2, PTL DEF Spec

\* Executors that packed at one height witness the same transactions.
THEOREM WitnessesAgree == Spec => []ListsAgree
<1>1. Agreement => ListsAgree
  BY DEF Agreement
<1> QED BY <1>1, AgreementInvariant, PTL

-----------------------------------------------------------------------------
(***************************************************************************)
(* Types.  TypeOK says where a transaction may be filed; to see that every *)
(* step keeps it one must also know that pools and clients are records.    *)
(***************************************************************************)
Txs == Shards \X Kinds \X Nat

Lists(s) == {l \in [Kinds -> Seq(Txs)] : \A k \in Kinds : l[k] \in Seq(TxsOf(s, k))}

AllLists == {l \in [Shards -> [Kinds -> Seq(Txs)]] : \A s \in Shards : l[s] \in Lists(s)}

PoolOf(s) == [Height : Int, List : Lists(s), Channel : Lists(s)]

\* P is what a stage's pools, or all of them, can be.
IsStage(P) == DOMAIN P = Shards /\ \A s \in Shards : P[s] \in PoolOf(s)

IsPools(P) ==
  /\ DOMAIN P = Stages
  /\ \A stage \in Stages : IsStage(P[stage])

Typed ==
  /\ IsPools(pool)
  /\ height \in Nat
  /\ chain \in AllLists
  /\ WitnessCount \in Int
  /\ round \in Nat \ {0}
  /\ exec \in [1 .. Rounds -> [Executor -> [step : ExecSteps, lists : AllLists, height : Nat]]]
  /\ leader \in [step : LeadSteps, lists : AllLists, height : Nat]

\* Every shard receives the payments of one shard.
LEMMA OriginIsShard == Origin \in [Shards -> Shards]
BY TxPipelineAssumption DEF TxPipelineAssumption, Shards, Origin

\* Which those are, kind by kind.
LEMMA TxsOfKinds ==
  ASSUME NEW s
  PROVE  /\ TxsOf(s, "Internal") = {s} \X {"Internal"} \X (1 .. IntNum)
         /\ TxsOf(s, "CrossShard") = {s} \X {"CrossShard"} \X (1 .. CroNum)
         /\ TxsOf(s, "Relay") = {Origin[s]} \X {"CrossShard"} \X (1 .. CroNum)
<1>1. TxsOf(s, "Internal") = {s} \X {"Internal"} \X (1 .. IntNum)
  BY DEF TxsOf
<1>2. TxsOf(s, "CrossShard") = {s} \X {"CrossShard"} \X (1 .. CroNum)
  BY DEF TxsOf
<1>3. TxsOf(s, "Relay") = {Origin[s]} \X {"CrossShard"} \X (1 .. CroNum)
  BY DEF TxsOf
<1> QED BY <1>1, <1>2, <1>3

\* What a shard's lists hold are transactions.
LEMMA TxsOfAreTxs == \A s \in Shards, k \in Kinds : TxsOf(s, k) \subseteq Txs
<1> SUFFICES ASSUME NEW s \in Shards, NEW k \in Kinds PROVE TxsOf(s, k) \subseteq Txs
  OBVIOUS
<1>1. Origin[s] \in Shards
  BY OriginIsShard
<1> QED BY <1>1, TxsOfKinds, TxPipelineAssumption DEF TxPipelineAssumption, Txs, Kinds

\* Lists are lists of the right shards' transactions.
LEMMA MakeLists ==
  ASSUME NEW s \in Shards, NEW l, DOMAIN l = Kinds, l = [k \in Kinds |-> l[k]],
         \A k \in Kinds : l[k] \in Seq(TxsOf(s, k))
  PROVE  l \in Lists(s)
<1>1. ASSUME NEW k \in Kinds PROVE l[k] \in Seq(Txs)
  BY TxsOfAreTxs, SeqMonotonic
<1> QED BY <1>1 DEF Lists

\* What is taken out of a channel and what is left of it.
LEMMA TakenBounds ==
  ASSUME NEW n \in Nat, NEW num \in Nat
  PROVE  Taken(n, num) \in 0 .. n
BY DEF Taken

\* A sequence is its first n elements and the rest.
LEMMA Split ==
  ASSUME NEW T, NEW q \in Seq(T), NEW t \in 0 .. Len(q)
  PROVE  /\ SubSeq(q, 1, t) \in Seq(T) /\ Len(SubSeq(q, 1, t)) = t
         /\ SubSeq(q, t + 1, Len(q)) \in Seq(T)
         /\ Len(SubSeq(q, t + 1, Len(q))) = Len(q) - t
         /\ SubSeq(q, 1, t) \o SubSeq(q, t + 1, Len(q)) = q
<1>1. Len(q) \in Nat /\ \A i \in 1 .. Len(q) : q[i] \in T
  BY LenProperties, ElementOfSeq
<1>2. SubSeq(q, 1, t) \in Seq(T) /\ Len(SubSeq(q, 1, t)) = t
  <2>1. 1 \in Int /\ t \in Int /\ \A i \in 1 .. t : q[i] \in T
    BY <1>1
  <2>2. /\ SubSeq(q, 1, t) \in Seq(T)
        /\ Len(SubSeq(q, 1, t)) = IF 1 <= t THEN t - 1 + 1 ELSE 0
    BY <2>1, SubSeqProperties
  <2> QED BY <1>1, <2>2
<1>3. /\ SubSeq(q, t + 1, Len(q)) \in Seq(T)
      /\ Len(SubSeq(q, t + 1, Len(q))) = Len(q) - t
  <2>1. t + 1 \in Int /\ Len(q) \in Int /\ \A i \in t + 1 .. Len(q) : q[i] \in T
    BY <1>1
  <2>2. /\ SubSeq(q, t + 1, Len(q)) \in Seq(T)
        /\ Len(SubSeq(q, t + 1, Len(q)))
             = IF t + 1 <= Len(q) THEN Len(q) - (t + 1) + 1 ELSE 0
    BY <2>1, SubSeqProperties
  <2> QED BY <1>1, <2>2
<1>4. SubSeq(q, 1, t) \o SubSeq(q, t + 1, Len(q)) = SubSeq(q, 1, Len(q))
  <2>1. 1 \in 1 .. Len(q) + 1 /\ t \in 1 - 1 .. Len(q) /\ Len(q) \in t .. Len(q)
    BY <1>1
  <2> QED BY <2>1, ConcatAdjacentSubSeq
<1>5. SubSeq(q, 1, Len(q)) = q
  BY SubSeqFull
<1> QED BY <1>2, <1>3, <1>4, <1>5

\* Packing a pool gives a pool.
LEMMA PackedIsPool ==
  ASSUME NEW s \in Shards, NEW p \in PoolOf(s), NEW h \in Int
  PROVE  PackTransactionList(p, h, TX_NUM) \in PoolOf(s)
<1> DEFINE t(k)  == Taken(Len(p.Channel[k]), TX_NUM)
           front == [k \in Kinds |-> SubSeq(p.Channel[k], 1, t(k))]
           back  == [k \in Kinds |-> SubSeq(p.Channel[k], t(k) + 1, Len(p.Channel[k]))]
<1>1. ASSUME NEW k \in Kinds
      PROVE  front[k] \in Seq(TxsOf(s, k)) /\ back[k] \in Seq(TxsOf(s, k))
  <2>1. p.Channel[k] \in Seq(TxsOf(s, k))
    BY DEF PoolOf, Lists
  <2>2. t(k) \in 0 .. Len(p.Channel[k])
    <3>1. Len(p.Channel[k]) \in Nat /\ TX_NUM \in Nat
      BY <2>1, LenProperties, TxPipelineAssumption DEF TxPipelineAssumption
    <3> QED BY <3>1, TakenBounds
  <2> HIDE DEF t
  <2> QED BY <2>1, <2>2, Split
<1>2. front \in Lists(s) /\ back \in Lists(s)
  <2>1. DOMAIN front = Kinds /\ DOMAIN back = Kinds
    OBVIOUS
  <2>2. front = [k \in Kinds |-> front[k]] /\ back = [k \in Kinds |-> back[k]]
    OBVIOUS
  <2> HIDE DEF front, back
  <2> QED BY <1>1, <2>1, <2>2, MakeLists
<1>3. PackTransactionList(p, h, TX_NUM)
        = IF h = p.Height THEN p ELSE [Height |-> h, List |-> front, Channel |-> back]
  BY DEF PackTransactionList
<1> HIDE DEF front, back
<1> QED BY <1>2, <1>3 DEF PoolOf

\* So does sending to its channels.
LEMMA AppendedIsPool ==
  ASSUME NEW s \in Shards, NEW p \in PoolOf(s), NEW l \in Lists(s)
  PROVE  Appended(p, l) \in PoolOf(s)
<1> DEFINE more == [k \in Kinds |-> p.Channel[k] \o l[k]]
<1>1. \A k \in Kinds : more[k] \in Seq(TxsOf(s, k))
  <2> SUFFICES ASSUME NEW k \in Kinds PROVE p.Channel[k] \o l[k] \in Seq(TxsOf(s, k))
    OBVIOUS
  <2>1. p.Channel[k] \in Seq(TxsOf(s, k)) /\ l[k] \in Seq(TxsOf(s, k))
    BY DEF PoolOf, Lists
  <2> QED BY <2>1, ConcatProperties
<1>2. DOMAIN more = Kinds /\ more = [k \in Kinds |-> more[k]]
  OBVIOUS
<1>3. Appended(p, l) = [p EXCEPT !.Channel = more]
  BY DEF Appended
<1> HIDE DEF more
<1>4. more \in Lists(s)
  BY <1>1, <1>2, MakeLists
<1> QED BY <1>3, <1>4 DEF PoolOf

\* Packing a stage gives pools.
LEMMA PackedIsPools ==
  ASSUME IsPools(pool), NEW stage \in Stages, NEW S, NEW h \in Int
  PROVE  IsPools(Packed(stage, S, h))
<1> DEFINE P == Packed(stage, S, h)
<1>1. DOMAIN P = Stages /\ \A t \in Stages : t # stage => P[t] = pool[t]
  BY DEF Packed, IsPools
<1>2. P[stage] = [s \in Shards |->
        IF s \in S THEN PackTransactionList(pool[stage][s], h, TX_NUM) ELSE pool[stage][s]]
  BY DEF Packed, IsPools
<1> HIDE DEF P
<1>3. \A s \in Shards : P[stage][s] \in PoolOf(s)
  BY <1>2, PackedIsPool DEF IsPools, IsStage
<1> QED BY <1>1, <1>2, <1>3 DEF P, IsPools, IsStage

\* So does sending to one.
LEMMA SentIsPools ==
  ASSUME NEW P, IsPools(P), NEW stage \in Stages, NEW S, NEW lists \in AllLists
  PROVE  IsPools(Sent(P, stage, S, lists))
<1> DEFINE N == Sent(P, stage, S, lists)
<1>1. DOMAIN N = Stages /\ \A t \in Stages : t # stage => N[t] = P[t]
  BY DEF Sent, IsPools
<1>2. N[stage] = [s \in Shards |->
        IF s \in S THEN Appended(P[stage][s], lists[s]) ELSE P[stage][s]]
  BY DEF Sent, IsPools
<1> HIDE DEF N
<1>3. \A s \in Shards : N[stage][s] \in PoolOf(s)
  BY <1>2, AppendedIsPool DEF IsPools, IsStage, AllLists
<1> QED BY <1>1, <1>2, <1>3 DEF N, IsPools, IsStage

\* The lists that a stage's pools hold.
LEMMA ListsOfAreLists ==
  ASSUME NEW P, IsPools(P), NEW stage \in Stages
  PROVE  ListsOf(P, stage) \in AllLists
BY DEF ListsOf, AllLists, IsPools, IsStage, PoolOf, Lists

\* Relay transactions are filed under the shard they pay.
LEMMA RelaysAreLists ==
  ASSUME NEW lists \in AllLists
  PROVE  RelaysOf(lists) \in AllLists
<1> SUFFICES ASSUME NEW s \in Shards PROVE RelaysOf(lists)[s] \in Lists(s)
  BY DEF AllLists, RelaysOf, Lists
<1> DEFINE l == RelaysOf(lists)[s]
<1>1. l = [k \in Kinds |-> IF k = "Relay" THEN lists[Origin[s]]["CrossShard"] ELSE <<>>]
  BY DEF RelaysOf, Empty, Kinds
<1>2. lists[Origin[s]]["CrossShard"] \in Seq(TxsOf(Origin[s], "CrossShard"))
  BY OriginIsShard DEF AllLists, Lists, Kinds
<1>3. TxsOf(Origin[s], "CrossShard") = TxsOf(s, "Relay")
  BY TxsOfKinds
<1> HIDE DEF l
<1>4. ASSUME NEW k \in Kinds PROVE l[k] \in Seq(TxsOf(s, k))
  <2>1. <<>> \in Seq(TxsOf(s, k))
    BY EmptySeq
  <2> QED BY <1>1, <1>2, <1>3, <2>1
<1> QED BY <1>1, <1>4, MakeLists DEF l

\* The chain with a block's lists.
LEMMA ChainedAreLists ==
  ASSUME NEW log \in AllLists, NEW lists \in AllLists
  PROVE  [s \in Shards |-> [k \in Kinds |-> log[s][k] \o lists[s][k]]] \in AllLists
<1> DEFINE N == [s \in Shards |-> [k \in Kinds |-> log[s][k] \o lists[s][k]]]
<1>1. ASSUME NEW s \in Shards PROVE N[s] \in Lists(s)
  <2> DEFINE l == N[s]
  <2>1. l = [k \in Kinds |-> log[s][k] \o lists[s][k]]
    OBVIOUS
  <2>2. \A k \in Kinds : log[s][k] \in Seq(TxsOf(s, k)) /\ lists[s][k] \in Seq(TxsOf(s, k))
    BY DEF AllLists, Lists
  <2> HIDE DEF N, l
  <2>3. ASSUME NEW k \in Kinds PROVE l[k] \in Seq(TxsOf(s, k))
    BY <2>1, <2>2, ConcatProperties
  <2> QED BY <2>1, <2>3, MakeLists DEF l
<1> QED BY <1>1 DEF AllLists, Lists

\* No lists are lists, and so is what InitController makes.
LEMMA FirstLists ==
  NoLists \in AllLists /\ Initially \in AllLists
  /\ \A s \in Shards : Empty \in Lists(s)
<1>1. ASSUME NEW s \in Shards PROVE Empty \in Lists(s)
  <2>1. \A k \in Kinds : Empty[k] \in Seq(TxsOf(s, k))
    BY EmptySeq DEF Empty
  <2>2. DOMAIN Empty = Kinds /\ Empty = [k \in Kinds |-> Empty[k]]
    BY DEF Empty
  <2> QED BY <2>1, <2>2, MakeLists
<1>2. ASSUME NEW s \in Shards PROVE Initially[s] \in Lists(s)
  <2> DEFINE l == Initially[s]
  <2>1. l = [k \in Kinds |-> CASE k = "Internal"   -> Made(s, k, IntNum)
                               [] k = "CrossShard" -> Made(s, k, CroNum)
                               [] k = "Relay"      -> <<>>]
    BY DEF Initially
  <2>2. ASSUME NEW k, NEW n \in Nat PROVE Made(s, k, n) \in Seq({s} \X {k} \X (1 .. n))
    <3>1. Made(s, k, n) \in [1 .. n -> {s} \X {k} \X (1 .. n)]
      BY DEF Made
    <3> QED BY <3>1
  <2>3. l["Internal"] \in Seq(TxsOf(s, "Internal"))
    <3>1. l["Internal"] = Made(s, "Internal", IntNum)
      BY <2>1 DEF Kinds
    <3> QED BY <2>2, <3>1, TxsOfKinds, TxPipelineAssumption DEF TxPipelineAssumption
  <2>4. l["CrossShard"] \in Seq(TxsOf(s, "CrossShard"))
    <3>1. l["CrossShard"] = Made(s, "CrossShard", CroNum)
      BY <2>1 DEF Kinds
    <3> QED BY <2>2, <3>1, TxsOfKinds, TxPipelineAssumption DEF TxPipelineAssumption
  <2>5. l["Relay"] \in Seq(TxsOf(s, "Relay"))
    <3>1. l["Relay"] = <<>>
      BY <2>1 DEF Kinds
    <3> QED BY <3>1, EmptySeq
  <2>6. DOMAIN l = Kinds /\ l = [k \in Kinds |-> l[k]]
    BY <2>1
  <2> HIDE DEF l
  <2>7. l \in Lists(s)
    BY <2>3, <2>4, <2>5, <2>6, MakeLists DEF Kinds
  <2> QED BY <2>7 DEF l
<1>3. NoLists \in AllLists
  BY <1>1 DEF NoLists, AllLists, Lists
<1>4. Initially \in AllLists
  <2>1. Initially = [s \in Shards |-> Initially[s]]
    BY DEF Initially
  <2> QED BY <1>2, <2>1 DEF AllLists, Lists
<1> QED BY <1>1, <1>3, <1>4

-----------------------------------------------------------------------------
\* At the start only stage 0 holds anything.
LEMMA InitTyped == Init => Typed
<1> SUFFICES ASSUME Init PROVE Typed
  OBVIOUS
<1>1. \A s \in Shards : MakePool \in PoolOf(s)
  BY FirstLists DEF MakePool, PoolOf
<1>2. \A s \in Shards : [MakePool EXCEPT !.Channel = Initially[s]] \in PoolOf(s)
  <2>1. \A s \in Shards : Initially[s] \in Lists(s)
    BY FirstLists DEF AllLists
  <2> QED BY <1>1, <2>1 DEF PoolOf
<1>3. IsPools(pool)
  <2>1. pool = [stage \in Stages |-> [s \in Shards |->
          IF stage = 0 THEN [MakePool EXCEPT !.Channel = Initially[s]] ELSE MakePool]]
    BY DEF Init
  <2> QED BY <1>1, <1>2, <2>1 DEF IsPools, IsStage
<1>4. /\ exec \in [1 .. Rounds -> [Executor -> [step : ExecSteps, lists : AllLists, height : Nat]]]
      /\ leader \in [step : LeadSteps, lists : AllLists, height : Nat]
  BY FirstLists DEF Init, Nothing, ExecSteps, LeadSteps
<1> QED BY <1>3, <1>4, FirstLists DEF Typed, Init

\* One executor's answer keeps the types.
LEMMA SteppedTyped ==
  ASSUME Typed, NEW r \in 1 .. Rounds, NEW e \in Executor, NEW step \in ExecSteps
  PROVE  Stepped(r, e, step)
           \in [1 .. Rounds -> [Executor -> [step : ExecSteps, lists : AllLists, height : Nat]]]
<1> DEFINE E == [step : ExecSteps, lists : AllLists, height : Nat]
<1>1. exec \in [1 .. Rounds -> [Executor -> E]]
  BY DEF Typed
<1>2. [exec[r][e] EXCEPT !.step = step] \in E
  <2>1. exec[r][e] \in E
    BY <1>1
  <2> QED BY <2>1
<1> HIDE DEF E
<1>3. [exec EXCEPT ![r][e] = [exec[r][e] EXCEPT !.step = step]] \in [1 .. Rounds -> [Executor -> E]]
  BY <1>1, <1>2
<1>4. Stepped(r, e, step) = [exec EXCEPT ![r][e] = [exec[r][e] EXCEPT !.step = step]]
  BY DEF Stepped
<1> QED BY <1>3, <1>4 DEF E

\* Each request of an executor keeps the types.
LEMMA ExecutorTyped ==
  ASSUME Typed, NEW r \in 1 .. Rounds, NEW e \in Executor, ExecutorSteps(r, e)
  PROVE  Typed'
<1> DEFINE E == [step : ExecSteps, lists : AllLists, height : Nat]
<1>1. exec[r][e] \in E /\ height \in Nat
  BY DEF Typed
<1>2. CASE ExecutorPacks(r, e)
  <2>1. IsPools(pool')
    <3>1. 0 \in Stages /\ height + 1 \in Int
      BY DEF Typed, Stages
    <3>2. pool' = Packed(0, Shards, height + 1)
      BY <1>2 DEF ExecutorPacks
    <3> QED BY <3>1, <3>2, PackedIsPools DEF Typed
  <2> DEFINE w == [step |-> "packed", lists |-> ListsOf(pool', 0), height |-> height + 1]
  <2>2. w \in E
    <3>1. ListsOf(pool', 0) \in AllLists
      BY <2>1, ListsOfAreLists DEF Stages
    <3> QED BY <1>1, <3>1 DEF ExecSteps
  <2>3. exec' = [exec EXCEPT ![r][e] = w]
    BY <1>2 DEF ExecutorPacks
  <2> HIDE DEF w, E
  <2>4. exec' \in [1 .. Rounds -> [Executor -> E]]
    BY <2>2, <2>3 DEF Typed, E
  <2> QED BY <1>2, <2>1, <2>4 DEF Typed, ExecutorPacks, E
<1>3. CASE WitnessTx(r, e)
  <2>1. IsPools(pool') /\ WitnessCount' \in Int
    <3>1. 1 \in Stages /\ exec[r][e].lists \in AllLists
      BY <1>1 DEF Stages
    <3> QED BY <1>3, <3>1, SentIsPools DEF Typed, WitnessTx, Witnessed
  <2>2. exec' = Stepped(r, e, "witnessed") /\ "witnessed" \in ExecSteps
    BY <1>3 DEF WitnessTx, ExecSteps
  <2> QED BY <1>3, <2>1, <2>2, SteppedTyped DEF Typed, WitnessTx
<1>4. CASE PackValidTx(r, e)
  <2>1. IsPools(pool')
    <3>1. 2 \in Stages /\ height - 1 \in Int
      BY <1>1 DEF Stages
    <3>2. pool' = Packed(2, AllButLast, height - 1)
      BY <1>4 DEF PackValidTx
    <3> QED BY <3>1, <3>2, PackedIsPools DEF Typed
  <2>2. exec' = Stepped(r, e, "validating") /\ "validating" \in ExecSteps
    BY <1>4 DEF PackValidTx, ExecSteps
  <2> QED BY <1>4, <2>1, <2>2, SteppedTyped DEF Typed, PackValidTx
<1>5. CASE CollectRoot(r, e)
  <2>1. exec' = Stepped(r, e, "rooted") /\ "rooted" \in ExecSteps
    BY <1>5 DEF CollectRoot, ExecSteps
  <2>2. WitnessCount' \in Int
    <3>1. WitnessCount' \in {0, WitnessCount}
      BY <1>5 DEF CollectRoot
    <3> QED BY <3>1 DEF Typed
  <2> QED BY <1>5, <2>1, <2>2, SteppedTyped DEF Typed, CollectRoot
<1> QED BY <1>2, <1>3, <1>4, <1>5 DEF ExecutorSteps

\* So do the leader's.
LEMMA LeaderTyped ==
  ASSUME Typed, LeaderPacks \/ LeaderReadsHeight
  PROVE  Typed'
<1>1. leader \in [step : LeadSteps, lists : AllLists, height : Nat] /\ height \in Nat
  BY DEF Typed
<1>2. CASE LeaderPacks
  <2>1. IsPools(pool')
    <3>1. 1 \in Stages /\ height + 1 \in Int
      BY <1>1 DEF Stages
    <3>2. pool' = Packed(1, Shards, height + 1)
      BY <1>2 DEF LeaderPacks
    <3> QED BY <3>1, <3>2, PackedIsPools DEF Typed
  <2>2. ListsOf(pool', 1) \in AllLists
    BY <2>1, ListsOfAreLists DEF Stages
  <2>3. leader' \in [step : LeadSteps, lists : AllLists, height : Nat]
    BY <1>1, <1>2, <2>2 DEF LeaderPacks, LeadSteps
  <2> QED BY <1>2, <2>1, <2>3 DEF Typed, LeaderPacks
<1>3. CASE LeaderReadsHeight
  <2> DEFINE h == height + 1
  <2>1. h \in Nat /\ leader' = [leader EXCEPT !.step = "packed", !.height = h]
    BY <1>1, <1>3 DEF LeaderReadsHeight
  <2> HIDE DEF h
  <2>2. leader' \in [step : LeadSteps, lists : AllLists, height : Nat]
    BY <1>1, <2>1 DEF LeadSteps
  <2> QED BY <1>3, <2>2 DEF Typed, LeaderReadsHeight
<1> QED BY <1>2, <1>3

\* And an upload.
LEMMA UploadTyped ==
  ASSUME Typed, NEW vote, AppendBlock(vote)
  PROVE  Typed'
<1> DEFINE lists == leader.lists
<1>1. lists \in AllLists /\ height \in Nat /\ chain \in AllLists /\ 1 \in Stages /\ 2 \in Stages
  BY DEF Typed, Stages
<1>2. leader' \in [step : LeadSteps, lists : AllLists, height : Nat]
  BY FirstLists DEF AppendBlock, Nothing, LeadSteps
<1>3. IsPools(pool') /\ height' \in Nat /\ chain' \in AllLists
  <2> HIDE DEF lists
  <2>1. CASE Accept(lists)
    <3>1. IsPools(Sent(pool, 2, AllButLast, lists))
      BY <1>1, SentIsPools DEF Typed
    <3>2. IsPools(pool')
      BY <1>1, <2>1, <3>1, SentIsPools, RelaysAreLists DEF Accept
    <3>3. chain' \in AllLists
      BY <1>1, <2>1, ChainedAreLists DEF Accept
    <3>4. height' \in Nat
      BY <1>1, <2>1 DEF Accept
    <3> QED BY <3>2, <3>3, <3>4
  <2>2. CASE Refuse(lists)
    BY <1>1, <2>2, SentIsPools DEF Refuse, Typed
  <2> QED BY <2>1, <2>2 DEF AppendBlock, Block, lists
<1>4. round' \in Nat \ {0}
  BY DEF AppendBlock, Typed
<1> QED BY <1>2, <1>3, <1>4 DEF AppendBlock, Typed

\* Every step keeps the types.
LEMMA NextTyped == Typed /\ [Next]_vars => Typed'
<1> SUFFICES ASSUME Typed, [Next]_vars PROVE Typed'
  OBVIOUS
<1>1. ASSUME NEW r \in Groups, NEW e \in Executor, ExecutorSteps(r, e)
      PROVE  Typed'
  <2>1. r \in 1 .. Rounds
    BY DEF Groups
  <2> QED BY <1>1, <2>1, ExecutorTyped
<1>2. ASSUME NEW vote \in {0, MinVote}, AppendBlock(vote) PROVE Typed'
  BY <1>2, UploadTyped
<1>3. CASE UNCHANGED vars
  BY <1>3 DEF vars, clients, Typed
<1> QED BY <1>1, <1>2, <1>3, LeaderTyped DEF Next, Handlers

\* No list and no channel ever holds a transaction of another shard, on which
\* execution would end the process.
LEMMA TypedIsTypeOK == Typed => TypeOK
<1> SUFFICES ASSUME Typed PROVE TypeOK
  OBVIOUS
<1>1. ASSUME NEW l \in AllLists PROVE AllFiled(l)
  BY DEF AllLists, Lists, AllFiled, Filed
<1>2. ASSUME NEW stage \in Stages
      PROVE  /\ AllFiled([s \in Shards |-> pool[stage][s].List])
             /\ AllFiled([s \in Shards |-> pool[stage][s].Channel])
             /\ \A s \in Shards : pool[stage][s].Height \in Int
  BY DEF Typed, IsPools, IsStage, PoolOf, Lists, AllFiled, Filed
<1>3. \A r \in 1 .. Rounds, e \in Executor :
        /\ exec[r][e].step \in ExecSteps
        /\ exec[r][e].lists \in AllLists
        /\ exec[r][e].height \in Nat
  BY DEF Typed
<1>4. leader.step \in LeadSteps /\ leader.lists \in AllLists /\ leader.height \in Nat
  BY DEF Typed
<1> QED BY <1>1, <1>2, <1>3, <1>4 DEF Typed, TypeOK, IsPools

\* Transactions are only ever filed under their shard: every list packed,
\* witnessed, held or put on the chain is one that execution can take.
THEOREM PipelineTypes == Spec => []TypeOK
<1>1. Init => Typed
  BY InitTyped
<1>2. Typed /\ [Next]_vars => Typed'
  BY NextTyped
<1> QED BY <1>1, <1>2, TypedIsTypeOK, PTL DEF Spec
-----------------------------------------------------------------------------
(***************************************************************************)
(* What flows through the pools of stage 1, for any number of shards,      *)
(* executors, rounds and transactions: everything that was witnessed or    *)
(* relayed stays recorded, in order, whatever is packed, refused or put    *)
(* back; so money that left a shard is never lost.                         *)
(***************************************************************************)
-----------------------------------------------------------------------------
(***************************************************************************)
(* The inductive invariant: what a leader holds is what its shards' pools  *)
(* have cached for the block it builds, and only blocks make relay         *)
(* transactions.                                                           *)
(***************************************************************************)
\* Nothing was packed for a block beyond the next one.
NotAhead == \A s \in Shards : pool[1][s].Height <= height + 1

\* A leader's lists are those cached for the next block.
LeaderHolds ==
  leader.step # "idle" =>
    /\ \A s \in Shards :
         pool[1][s].Height = height + 1 /\ pool[1][s].List = leader.lists[s]
    /\ leader.step = "packed" => leader.height = height + 1

\* Neither stage 0 nor an executor holds relay transactions.
NoRelays ==
  /\ \A s \in Shards :
       pool[0][s].List["Relay"] = <<>> /\ pool[0][s].Channel["Relay"] = <<>>
  /\ \A r \in 1 .. Rounds, e \in Executor, s \in Shards :
       exec[r][e].lists[s]["Relay"] = <<>>

\* All of it.  A block takes a round, so the chain is shorter than rounds began.
Flow == Typed /\ NotAhead /\ LeaderHolds /\ NoRelays /\ height < round

-----------------------------------------------------------------------------
\* Only the pools of the stage and shards that are packed differ.
LEMMA PackedAt ==
  ASSUME IsPools(pool), NEW stage \in Stages, NEW S, NEW h
  PROVE  \A t \in Stages, s \in Shards :
           Packed(stage, S, h)[t][s] =
             IF t = stage /\ s \in S THEN PackTransactionList(pool[t][s], h, TX_NUM)
                                     ELSE pool[t][s]
BY DEF Packed, IsPools, IsStage

\* Only the channels of the stage and shards that are sent to differ.
LEMMA SentAt ==
  ASSUME NEW P, IsPools(P), NEW stage \in Stages, NEW S, NEW lists
  PROVE  \A t \in Stages, s \in Shards :
           Sent(P, stage, S, lists)[t][s] =
             IF t = stage /\ s \in S THEN Appended(P[t][s], lists[s]) ELSE P[t][s]
BY DEF Sent, IsPools, IsStage

\* A send adds to the channels and nothing else.
LEMMA AppendedAt ==
  ASSUME NEW s \in Shards, NEW p \in PoolOf(s), NEW l
  PROVE  /\ Appended(p, l).Height = p.Height
         /\ Appended(p, l).List = p.List
         /\ \A k \in Kinds : Appended(p, l).Channel[k] = p.Channel[k] \o l[k]
BY DEF Appended, PoolOf

\* A pack for another height drops the lists and takes new ones from the front
\* of the channels.
LEMMA PackedNew ==
  ASSUME NEW s \in Shards, NEW p \in PoolOf(s), NEW h \in Int, h # p.Height, NEW k \in Kinds
  PROVE  LET q == PackTransactionList(p, h, TX_NUM)
         IN  /\ q.List[k] \o q.Channel[k] = p.Channel[k]
             /\ Len(q.List[k]) + Len(q.Channel[k]) = Len(p.Channel[k])
<1> DEFINE q == PackTransactionList(p, h, TX_NUM)
           c == p.Channel[k]
           t == Taken(Len(c), TX_NUM)
<1>1. q.List[k] = SubSeq(c, 1, t) /\ q.Channel[k] = SubSeq(c, t + 1, Len(c))
  BY DEF PackTransactionList
<1>2. c \in Seq(TxsOf(s, k)) /\ Len(c) \in Nat
  BY LenProperties DEF PoolOf, Lists
<1>3. t \in 0 .. Len(c)
  <2>1. TX_NUM \in Nat
    BY TxPipelineAssumption DEF TxPipelineAssumption
  <2> HIDE DEF c
  <2> QED BY <1>2, <2>1, TakenBounds DEF t
<1> HIDE DEF q, c, t
<1>4. /\ SubSeq(c, 1, t) \o SubSeq(c, t + 1, Len(c)) = c
      /\ Len(SubSeq(c, 1, t)) = t /\ Len(SubSeq(c, t + 1, Len(c))) = Len(c) - t
  BY <1>2, <1>3, Split
<1>5. q.List[k] \o q.Channel[k] = c
  BY <1>1, <1>4
<1>6. Len(q.List[k]) = t /\ Len(q.Channel[k]) = Len(c) - t
  BY <1>1, <1>4
<1>7. Len(q.List[k]) + Len(q.Channel[k]) = Len(c)
  BY <1>2, <1>3, <1>6
<1> QED BY <1>5, <1>7 DEF q, c

\* An empty channel packs empty lists.
LEMMA PackedEmpty ==
  ASSUME NEW s \in Shards, NEW p \in PoolOf(s), NEW h \in Int, NEW k \in Kinds,
         p.List[k] = <<>>, p.Channel[k] = <<>>
  PROVE  LET q == PackTransactionList(p, h, TX_NUM)
         IN  q.List[k] = <<>> /\ q.Channel[k] = <<>>
<1>1. CASE h = p.Height
  BY <1>1, PackedFor
<1>2. CASE h # p.Height
  <2> DEFINE q == PackTransactionList(p, h, TX_NUM)
  <2>1. q \in PoolOf(s) /\ q.List[k] \o q.Channel[k] = <<>>
    BY <1>2, PackedNew, PackedIsPool
  <2>2. q.List[k] \in Seq(Txs) /\ q.Channel[k] \in Seq(Txs)
    BY <2>1 DEF PoolOf, Lists
  <2> HIDE DEF q
  <2>3. q.List[k] = <<>> /\ q.Channel[k] = <<>>
    BY <2>1, <2>2, ConcatEqualIffEmpty, EmptySeq
  <2> QED BY <2>3 DEF q
<1> QED BY <1>1, <1>2

-----------------------------------------------------------------------------
\* It holds at the start.
LEMMA InitFlow == Init => Flow
<1> SUFFICES ASSUME Init PROVE Flow
  OBVIOUS
<1>1. Typed
  BY InitTyped
<1>2. \A s \in Shards : /\ pool[1][s] = MakePool
                        /\ pool[0][s] = [MakePool EXCEPT !.Channel = Initially[s]]
  BY DEF Init, Stages
<1>3. NotAhead
  <2>1. MakePool.Height = 0 /\ height = 0
    BY DEF Init, MakePool
  <2>2. \A s \in Shards : pool[1][s].Height = 0
    BY <1>2, <2>1
  <2> QED BY <2>1, <2>2 DEF NotAhead
<1>4. LeaderHolds
  BY DEF Init, LeaderHolds, Nothing
<1>5. NoRelays
  <2>1. ASSUME NEW s \in Shards PROVE Initially[s]["Relay"] = <<>>
    <3>1. Initially[s] = [k \in Kinds |-> CASE k = "Internal"   -> Made(s, k, IntNum)
                                            [] k = "CrossShard" -> Made(s, k, CroNum)
                                            [] k = "Relay"      -> <<>>]
      BY DEF Initially
    <3> QED BY <3>1 DEF Kinds
  <2>2. "Relay" \in Kinds
    BY DEF Kinds
  <2>3. ASSUME NEW s \in Shards
        PROVE  pool[0][s].List["Relay"] = <<>> /\ pool[0][s].Channel["Relay"] = <<>>
    <3>1. [MakePool EXCEPT !.Channel = Initially[s]]
            = [Height |-> 0, List |-> Empty, Channel |-> Initially[s]]
      BY DEF MakePool
    <3>2. pool[0][s].List = Empty /\ pool[0][s].Channel = Initially[s]
      BY <1>2, <3>1
    <3> QED BY <2>1, <2>2, <3>2 DEF Empty
  <2>4. \A r \in 1 .. Rounds, e \in Executor : exec[r][e].lists = NoLists
    BY DEF Init, Nothing
  <2>5. \A s \in Shards : NoLists[s]["Relay"] = <<>>
    BY <2>2 DEF NoLists, Empty
  <2> QED BY <2>3, <2>4, <2>5 DEF NoRelays
<1>6. height < round
  BY DEF Init
<1> QED BY <1>1, <1>3, <1>4, <1>5, <1>6 DEF Flow

\* A step of others than the leader that leaves stage 1's lists as they are.
LEMMA ListsStay ==
  ASSUME Flow, Typed', NoRelays', UNCHANGED <<height, round, leader>>,
         \A s \in Shards : /\ pool'[1][s].Height = pool[1][s].Height
                           /\ pool'[1][s].List = pool[1][s].List
  PROVE  Flow'
BY DEF Flow, NotAhead, LeaderHolds

\* Executors leave stage 1's lists alone and bring no relay transactions.
LEMMA ExecutorFlow ==
  ASSUME Flow, NEW r \in 1 .. Rounds, NEW e \in Executor, ExecutorSteps(r, e)
  PROVE  Flow'
<1>1. Typed'
  BY ExecutorTyped DEF Flow
<1>2. IsPools(pool) /\ height \in Nat /\ 0 \in Stages /\ 1 \in Stages /\ 2 \in Stages
  BY DEF Flow, Typed, Stages
<1>3. \A s \in Shards, t \in Stages : pool[t][s] \in PoolOf(s)
  BY <1>2 DEF IsPools, IsStage
<1>4. CASE ExecutorPacks(r, e)
  <2>1. pool' = Packed(0, Shards, height + 1) /\ UNCHANGED <<height, round, leader>>
    BY <1>4 DEF ExecutorPacks
  <2>2. \A s \in Shards :
          /\ pool'[1][s] = pool[1][s]
          /\ pool'[0][s] = PackTransactionList(pool[0][s], height + 1, TX_NUM)
    BY <1>2, <2>1, PackedAt
  <2>3. ASSUME NEW s \in Shards
        PROVE  pool'[0][s].List["Relay"] = <<>> /\ pool'[0][s].Channel["Relay"] = <<>>
    <3>1. "Relay" \in Kinds /\ height + 1 \in Int
      BY <1>2 DEF Kinds
    <3>2. pool[0][s].List["Relay"] = <<>> /\ pool[0][s].Channel["Relay"] = <<>>
      BY DEF Flow, NoRelays
    <3> QED BY <1>2, <1>3, <2>2, <3>1, <3>2, PackedEmpty
  <2>4. \A q \in 1 .. Rounds, d \in Executor, s \in Shards :
          exec'[q][d].lists[s]["Relay"] = <<>>
    <3>1. \A q \in 1 .. Rounds, d \in Executor :
            exec'[q][d].lists = exec[q][d].lists \/ exec'[q][d].lists = ListsOf(pool', 0)
      BY <1>4 DEF ExecutorPacks, Flow, Typed
    <3>2. \A s \in Shards : ListsOf(pool', 0)[s]["Relay"] = <<>>
      BY <2>3 DEF ListsOf
    <3> QED BY <3>1, <3>2 DEF Flow, NoRelays
  <2>5. NoRelays'
    BY <2>3, <2>4 DEF NoRelays
  <2> QED BY <1>1, <2>1, <2>2, <2>5, ListsStay
<1>5. CASE ~ExecutorPacks(r, e)
  <2>1. PICK step : exec' = Stepped(r, e, step)
    BY <1>5 DEF ExecutorSteps, WitnessTx, PackValidTx, CollectRoot
  <2>2. \A q \in 1 .. Rounds, d \in Executor : exec'[q][d].lists = exec[q][d].lists
    BY <2>1 DEF Stepped, Flow, Typed
  <2>3. \A s \in Shards : /\ pool'[1][s].Height = pool[1][s].Height
                          /\ pool'[1][s].List = pool[1][s].List
                          /\ pool'[0][s] = pool[0][s]
    <3>1. CASE pool' = Sent(pool, 1, Shards, exec[r][e].lists)
      <4>1. \A s \in Shards : /\ pool'[1][s] = Appended(pool[1][s], exec[r][e].lists[s])
                              /\ pool'[0][s] = pool[0][s]
        BY <1>2, <3>1, SentAt
      <4> SUFFICES ASSUME NEW s \in Shards
                   PROVE  /\ pool'[1][s].Height = pool[1][s].Height
                          /\ pool'[1][s].List = pool[1][s].List
        BY <4>1
      <4>2. pool[1][s] \in PoolOf(s)
        BY <1>2, <1>3
      <4> DEFINE q == Appended(pool[1][s], exec[r][e].lists[s])
      <4>3. q.Height = pool[1][s].Height /\ q.List = pool[1][s].List
        BY <4>2, AppendedAt
      <4>4. pool'[1][s] = q
        BY <4>1
      <4> HIDE DEF q
      <4> QED BY <4>3, <4>4
    <3>2. CASE pool' = Packed(2, AllButLast, height - 1)
      <4>1. \A s \in Shards : pool'[1][s] = pool[1][s] /\ pool'[0][s] = pool[0][s]
        BY <1>2, <3>2, PackedAt
      <4> QED BY <4>1
    <3>3. pool' = pool \/ pool' = Sent(pool, 1, Shards, exec[r][e].lists)
            \/ pool' = Packed(2, AllButLast, height - 1)
      BY <1>5 DEF ExecutorSteps, WitnessTx, Witnessed, PackValidTx, CollectRoot
    <3> QED BY <3>1, <3>2, <3>3
  <2>4. UNCHANGED <<height, round, leader>>
    BY <1>5 DEF ExecutorSteps, WitnessTx, Witnessed, PackValidTx, CollectRoot
  <2>5. NoRelays'
    BY <2>2, <2>3 DEF Flow, NoRelays
  <2> QED BY <1>1, <2>3, <2>4, <2>5, ListsStay
<1> QED BY <1>4, <1>5

\* Packing for a block: every shard's lists are now those of the next block,
\* and the lists a shard already had for it are kept.
LEMMA LeaderFlow ==
  ASSUME Flow, LeaderPacks \/ LeaderReadsHeight
  PROVE  Flow'
<1>1. Typed'
  BY LeaderTyped DEF Flow
<1>2. IsPools(pool) /\ height \in Nat /\ 0 \in Stages /\ 1 \in Stages
  BY DEF Flow, Typed, Stages
<1>3. leader \in [step : LeadSteps, lists : AllLists, height : Nat]
  BY DEF Flow, Typed
<1>4. UNCHANGED <<height, round, exec>>
  BY DEF LeaderPacks, LeaderReadsHeight
<1>5. CASE LeaderPacks
  <2>1. pool' = Packed(1, Shards, height + 1)
    BY <1>5 DEF LeaderPacks
  <2>2. \A s \in Shards : /\ pool'[0][s] = pool[0][s]
                          /\ pool'[1][s].Height = height + 1
    BY <1>2, <2>1, PackedAt, PackedFor
  <2>3. leader'.step = "packing" /\ leader'.lists = ListsOf(pool', 1)
    BY <1>3, <1>5 DEF LeaderPacks
  <2>4. \A s \in Shards : ListsOf(pool', 1)[s] = pool'[1][s].List
    BY DEF ListsOf
  <2>5. LeaderHolds'
    BY <1>4, <2>2, <2>3, <2>4 DEF LeaderHolds
  <2>6. NotAhead'
    BY <1>2, <1>4, <2>2 DEF NotAhead
  <2>7. NoRelays'
    BY <1>4, <2>2 DEF Flow, NoRelays
  <2> QED BY <1>1, <1>4, <2>5, <2>6, <2>7 DEF Flow
<1>6. CASE LeaderReadsHeight
  <2>1. /\ leader.step = "packing" /\ pool' = pool
        /\ leader'.step = "packed" /\ leader'.lists = leader.lists
        /\ leader'.height = height + 1
    BY <1>3, <1>6 DEF LeaderReadsHeight
  <2>2. LeaderHolds'
    BY <1>4, <2>1 DEF Flow, LeaderHolds
  <2> QED BY <1>1, <1>4, <2>1, <2>2 DEF Flow, NotAhead, NoRelays
<1> QED BY <1>5, <1>6

\* What an upload does to the witnessed transactions, accepted and refused.
LEMMA UploadAt ==
  ASSUME Flow, NEW vote, AppendBlock(vote)
  PROVE  /\ leader.step = "packed" /\ leader.height = height + 1
         /\ leader.lists \in AllLists
         /\ round' = round + 1 /\ leader' = Nothing /\ exec' = exec
         /\ \A s \in Shards : /\ pool'[0][s] = pool[0][s]
                              /\ pool'[1][s].Height = pool[1][s].Height
                              /\ pool'[1][s].List = pool[1][s].List
         /\ \/ /\ vote >= MinVote
               /\ Accept(leader.lists)
               /\ \A s \in Shards, k \in Kinds :
                    pool'[1][s].Channel[k]
                      = pool[1][s].Channel[k] \o RelaysOf(leader.lists)[s][k]
            \/ /\ ~(vote >= MinVote)
               /\ Refuse(leader.lists)
               /\ \A s \in Shards, k \in Kinds :
                    pool'[1][s].Channel[k]
                      = IF s \in AllButLast
                          THEN pool[1][s].Channel[k] \o leader.lists[s][k]
                          ELSE pool[1][s].Channel[k]
<1> DEFINE lists == leader.lists
<1>1. /\ leader.step = "packed" /\ leader.height = height + 1
      /\ round' = round + 1 /\ leader' = Nothing /\ exec' = exec
      /\ lists \in AllLists
  BY DEF AppendBlock, Flow, LeaderHolds, Typed
<1>2. IsPools(pool) /\ 0 \in Stages /\ 1 \in Stages /\ 2 \in Stages
  BY DEF Flow, Typed, Stages
<1>3. IF vote >= MinVote THEN Accept(lists) ELSE Refuse(lists)
  BY <1>1 DEF AppendBlock, Block
<1> HIDE DEF lists
<1>4. ASSUME Accept(lists), NEW s \in Shards
      PROVE  /\ pool'[0][s] = pool[0][s]
             /\ pool'[1][s] = Appended(pool[1][s], RelaysOf(lists)[s])
  <2> DEFINE P == Sent(pool, 2, AllButLast, lists)
  <2>1. IsPools(P) /\ P[0][s] = pool[0][s] /\ P[1][s] = pool[1][s]
    BY <1>1, <1>2, SentIsPools, SentAt
  <2>2. pool' = Sent(P, 1, Shards, RelaysOf(lists))
    BY <1>4 DEF Accept
  <2> HIDE DEF P
  <2> QED BY <1>2, <2>1, <2>2, SentAt
<1>5. ASSUME Refuse(lists), NEW s \in Shards
      PROVE  /\ pool'[0][s] = pool[0][s]
             /\ pool'[1][s] = IF s \in AllButLast THEN Appended(pool[1][s], lists[s])
                                                  ELSE pool[1][s]
  <2>1. pool' = Sent(pool, 1, AllButLast, lists)
    BY <1>5 DEF Refuse
  <2> QED BY <1>2, <2>1, SentAt
<1>6. \A s \in Shards : pool[1][s] \in PoolOf(s)
  BY <1>2 DEF IsPools, IsStage
<1>7. CASE vote >= MinVote
  <2>1. Accept(lists)
    BY <1>3, <1>7
  <2>2. ASSUME NEW s \in Shards
        PROVE  /\ pool'[0][s] = pool[0][s]
               /\ pool'[1][s].Height = pool[1][s].Height
               /\ pool'[1][s].List = pool[1][s].List
               /\ \A k \in Kinds : pool'[1][s].Channel[k]
                                     = pool[1][s].Channel[k] \o RelaysOf(lists)[s][k]
    <3> DEFINE l == RelaysOf(lists)[s]
               q == Appended(pool[1][s], l)
    <3>1. pool'[0][s] = pool[0][s] /\ pool'[1][s] = q
      BY <1>4, <2>1
    <3>2. /\ q.Height = pool[1][s].Height /\ q.List = pool[1][s].List
          /\ \A k \in Kinds : q.Channel[k] = pool[1][s].Channel[k] \o l[k]
      BY <1>6, AppendedAt
    <3> HIDE DEF q
    <3> QED BY <3>1, <3>2
  <2> QED BY <1>1, <1>7, <2>1, <2>2 DEF lists
<1>8. CASE ~(vote >= MinVote)
  <2>1. Refuse(lists)
    BY <1>3, <1>8
  <2>2. ASSUME NEW s \in Shards
        PROVE  /\ pool'[0][s] = pool[0][s]
               /\ pool'[1][s].Height = pool[1][s].Height
               /\ pool'[1][s].List = pool[1][s].List
               /\ \A k \in Kinds : pool'[1][s].Channel[k]
                    = IF s \in AllButLast THEN pool[1][s].Channel[k] \o lists[s][k]
                                          ELSE pool[1][s].Channel[k]
    <3> DEFINE l == lists[s]
               q == Appended(pool[1][s], l)
    <3>1. pool'[0][s] = pool[0][s] /\ pool'[1][s] = IF s \in AllButLast THEN q ELSE pool[1][s]
      BY <1>5, <2>1
    <3>2. /\ q.Height = pool[1][s].Height /\ q.List = pool[1][s].List
          /\ \A k \in Kinds : q.Channel[k] = pool[1][s].Channel[k] \o l[k]
      BY <1>6, AppendedAt
    <3> HIDE DEF q
    <3> QED BY <3>1, <3>2
  <2> QED BY <1>1, <1>8, <2>1, <2>2 DEF lists
<1> QED BY <1>7, <1>8

\* An upload ends the round, so that nobody holds lists for the next block.
LEMMA UploadFlow ==
  ASSUME Flow, NEW vote, AppendBlock(vote)
  PROVE  Flow'
<1>1. Typed' /\ height \in Nat /\ round \in Nat
  BY UploadTyped DEF Flow, Typed
<1>2. /\ round' = round + 1 /\ leader' = Nothing /\ exec' = exec
      /\ \A s \in Shards : /\ pool'[0][s] = pool[0][s]
                           /\ pool'[1][s].Height = pool[1][s].Height
      /\ height' = height \/ height' = height + 1
  BY UploadAt DEF Accept, Refuse
<1>3. NotAhead'
  <2> SUFFICES ASSUME NEW s \in Shards PROVE pool'[1][s].Height <= height' + 1
    BY DEF NotAhead
  <2>1. pool[1][s].Height <= height + 1
    BY DEF Flow, NotAhead
  <2>2. pool[1][s].Height \in Int
    BY DEF Flow, Typed, IsPools, IsStage, PoolOf, Stages
  <2>3. pool'[1][s].Height = pool[1][s].Height
    BY <1>2
  <2> QED BY <1>1, <1>2, <2>1, <2>2, <2>3
<1>4. LeaderHolds'
  BY <1>2 DEF LeaderHolds, Nothing
<1>5. NoRelays'
  BY <1>2 DEF Flow, NoRelays
<1>6. height' < round'
  BY <1>1, <1>2 DEF Flow
<1> QED BY <1>1, <1>3, <1>4, <1>5, <1>6 DEF Flow

\* Every step keeps it.
LEMMA NextFlow == Flow /\ [Next]_vars => Flow'
<1> SUFFICES ASSUME Flow, [Next]_vars PROVE Flow'
  OBVIOUS
<1>1. ASSUME NEW r \in Groups, NEW e \in Executor, ExecutorSteps(r, e)
      PROVE  Flow'
  <2>1. r \in 1 .. Rounds
    BY DEF Groups
  <2> QED BY <1>1, <2>1, ExecutorFlow
<1>2. ASSUME NEW vote \in {0, MinVote}, AppendBlock(vote) PROVE Flow'
  BY <1>2, UploadFlow
<1>3. CASE UNCHANGED vars
  <2>1. Typed'
    BY <1>3, NextTyped DEF Flow
  <2> QED BY <1>3, <2>1 DEF vars, clients, Flow, NotAhead, LeaderHolds, NoRelays
<1> QED BY <1>1, <1>2, <1>3, LeaderFlow DEF Next, Handlers

-----------------------------------------------------------------------------
(***************************************************************************)
(* What is recorded only grows, and only at its end.                       *)
(***************************************************************************)
\* What it is made of.
LEMMA RecordedTypes ==
  ASSUME Typed, NEW s \in Shards, NEW k \in Kinds
  PROVE  /\ chain[s][k] \in Seq(Txs) /\ InBlock(s, k) \in Seq(Txs)
         /\ pool[1][s].List[k] \in Seq(Txs) /\ pool[1][s].Channel[k] \in Seq(Txs)
         /\ Recorded(s, k) \in Seq(Txs)
         /\ pool[1][s] \in PoolOf(s)
<1>1. pool[1][s] \in PoolOf(s)
  BY DEF Typed, IsPools, IsStage, Stages
<1>2. pool[1][s].List[k] \in Seq(Txs) /\ pool[1][s].Channel[k] \in Seq(Txs)
  BY <1>1 DEF PoolOf, Lists
<1>3. chain[s][k] \in Seq(Txs)
  BY DEF Typed, AllLists
<1>4. InBlock(s, k) \in Seq(Txs)
  BY <1>2, EmptySeq DEF InBlock
<1> QED BY <1>1, <1>2, <1>3, <1>4, ConcatProperties DEF Recorded

\* Adding to a channel adds to what is recorded.
LEMMA RecordedMore ==
  ASSUME Typed, NEW s \in Shards, NEW k \in Kinds, NEW x \in Seq(Txs),
         chain' = chain, InBlock(s, k)' = InBlock(s, k),
         pool'[1][s].Channel[k] = pool[1][s].Channel[k] \o x
  PROVE  Recorded(s, k)' = Recorded(s, k) \o x
<1> DEFINE front == chain[s][k] \o InBlock(s, k)
           c == pool[1][s].Channel[k]
<1>1. front \in Seq(Txs) /\ c \in Seq(Txs)
  BY RecordedTypes, ConcatProperties
<1>2. Recorded(s, k) = front \o c /\ Recorded(s, k)' = front \o (c \o x)
  BY DEF Recorded
<1> HIDE DEF front, c
<1>3. (front \o c) \o x = front \o (c \o x)
  BY <1>1, ConcatAssociative
<1> QED BY <1>2, <1>3

\* An executor adds at most its witnessed lists.
LEMMA ExecutorRecords ==
  ASSUME Flow, NEW r \in 1 .. Rounds, NEW e \in Executor, ExecutorSteps(r, e),
         NEW s \in Shards, NEW k \in Kinds
  PROVE  /\ chain' = chain
         /\ \/ Recorded(s, k)' = Recorded(s, k)
            \/ Recorded(s, k)' = Recorded(s, k) \o exec[r][e].lists[s][k]
<1>1. Typed /\ IsPools(pool) /\ 0 \in Stages /\ 1 \in Stages /\ 2 \in Stages
  BY DEF Flow, Typed, Stages
<1>2. UNCHANGED <<chain, height>>
  BY DEF ExecutorSteps, ExecutorPacks, WitnessTx, Witnessed, PackValidTx, CollectRoot
<1>3. CASE pool' = Sent(pool, 1, Shards, exec[r][e].lists)
  <2> DEFINE l == exec[r][e].lists[s]
             q == Appended(pool[1][s], l)
  <2>1. pool'[1][s] = q
    BY <1>1, <1>3, SentAt
  <2>2. /\ q.Height = pool[1][s].Height /\ q.List = pool[1][s].List
        /\ q.Channel[k] = pool[1][s].Channel[k] \o l[k]
    BY <1>1, RecordedTypes, AppendedAt
  <2>3. l[k] \in Seq(Txs)
    <3>1. exec[r][e].lists \in AllLists
      BY <1>1 DEF Typed
    <3> QED BY <3>1 DEF AllLists
  <2> HIDE DEF l, q
  <2>4. InBlock(s, k)' = InBlock(s, k)
    BY <1>2, <2>1, <2>2 DEF InBlock
  <2>5. Recorded(s, k)' = Recorded(s, k) \o l[k]
    BY <1>1, <1>2, <2>1, <2>2, <2>3, <2>4, RecordedMore
  <2> QED BY <1>2, <2>5 DEF l
<1>4. CASE pool'[1][s] = pool[1][s]
  BY <1>2, <1>4 DEF Recorded, InBlock
<1>5. \/ pool' = Packed(0, Shards, height + 1) \/ pool' = Packed(2, AllButLast, height - 1)
      \/ pool' = pool \/ pool' = Sent(pool, 1, Shards, exec[r][e].lists)
  BY DEF ExecutorSteps, ExecutorPacks, WitnessTx, Witnessed, PackValidTx, CollectRoot
<1>6. \A stage \in {0, 2} : \A S, h : Packed(stage, S, h)[1][s] = pool[1][s]
  BY <1>1, PackedAt
<1> QED BY <1>3, <1>4, <1>5, <1>6

\* Packing for a block moves transactions from the channel into the block.
LEMMA LeaderRecords ==
  ASSUME Flow, LeaderPacks \/ LeaderReadsHeight, NEW s \in Shards, NEW k \in Kinds
  PROVE  chain' = chain /\ Recorded(s, k)' = Recorded(s, k)
<1>1. Typed /\ IsPools(pool) /\ 1 \in Stages /\ height \in Nat
  BY DEF Flow, Typed, Stages
<1>2. UNCHANGED <<chain, height>>
  BY DEF LeaderPacks, LeaderReadsHeight
<1>3. CASE LeaderReadsHeight
  BY <1>2, <1>3 DEF LeaderReadsHeight, Recorded, InBlock
<1>4. CASE LeaderPacks
  <2> DEFINE p == pool[1][s]
             q == PackTransactionList(p, height + 1, TX_NUM)
  <2>1. pool'[1][s] = q
    BY <1>1, <1>4, PackedAt DEF LeaderPacks
  <2>2. CASE p.Height = height + 1
    <3>1. pool'[1][s] = pool[1][s]
      BY <2>1, <2>2, PackedFor
    <3> QED BY <1>2, <3>1 DEF Recorded, InBlock
  <2>3. CASE p.Height # height + 1
    <3>1. height + 1 \in Int /\ p \in PoolOf(s)
      BY <1>1, RecordedTypes
    <3>2. q \in PoolOf(s) /\ q.Height = height + 1 /\ q.List[k] \o q.Channel[k] = p.Channel[k]
      <4>1. q.Height = height + 1
        BY PackedFor
      <4>2. q \in PoolOf(s)
        BY <3>1, PackedIsPool
      <4>3. q.List[k] \o q.Channel[k] = p.Channel[k]
        BY <2>3, <3>1, PackedNew
      <4> QED BY <4>1, <4>2, <4>3
    <3>3. q.List[k] \in Seq(Txs) /\ q.Channel[k] \in Seq(Txs)
      BY <3>2 DEF PoolOf, Lists
    <3>4. chain[s][k] \in Seq(Txs) /\ p.Channel[k] \in Seq(Txs)
      BY <1>1, RecordedTypes
    <3>5. InBlock(s, k) = <<>>
      BY <2>3 DEF InBlock
    <3>6. InBlock(s, k)' = q.List[k]
      BY <1>2, <2>1, <3>2 DEF InBlock
    <3> HIDE DEF p, q
    <3>7. Recorded(s, k) = chain[s][k] \o p.Channel[k]
      BY <3>4, <3>5, ConcatEmptySeq DEF Recorded, p
    <3>8. Recorded(s, k)' = (chain[s][k] \o q.List[k]) \o q.Channel[k]
      BY <1>2, <2>1, <3>6 DEF Recorded
    <3> DEFINE a == chain[s][k]
               b == q.List[k]
               c == q.Channel[k]
    <3>9. (a \o b) \o c = a \o (b \o c)
      <4> HIDE DEF a, b, c
      <4>1. a \in Seq(Txs) /\ b \in Seq(Txs) /\ c \in Seq(Txs)
        BY <3>3, <3>4 DEF a, b, c
      <4> QED BY <4>1, ConcatAssociative
    <3> QED BY <1>2, <3>2, <3>7, <3>8, <3>9
  <2> QED BY <2>2, <2>3
<1> QED BY <1>3, <1>4

\* A block moves its lists to the chain and adds its relay transactions; one
\* that is refused adds its lists once more, but for the last shard's.
LEMMA UploadRecords ==
  ASSUME Flow, NEW vote, AppendBlock(vote), NEW s \in Shards, NEW k \in Kinds
  PROVE  \/ /\ height' = height + 1
            /\ \A t \in Shards, j \in Kinds : chain'[t][j] = chain[t][j] \o leader.lists[t][j]
            /\ Recorded(s, k)' = Recorded(s, k) \o RelaysOf(leader.lists)[s][k]
         \/ /\ height' = height /\ chain' = chain
            /\ Recorded(s, k)' =
                 IF s \in AllButLast THEN Recorded(s, k) \o leader.lists[s][k] ELSE Recorded(s, k)
<1> DEFINE lists == leader.lists
           p == pool[1][s]
           q == pool'[1][s]
<1>1. Typed /\ height \in Nat
  BY DEF Flow, Typed
<1>2. lists \in AllLists /\ RelaysOf(lists) \in AllLists
  BY UploadAt, RelaysAreLists
<1>3. lists[s][k] \in Seq(Txs) /\ RelaysOf(lists)[s][k] \in Seq(Txs)
  BY <1>2 DEF AllLists
<1>4. /\ chain[s][k] \in Seq(Txs) /\ InBlock(s, k) \in Seq(Txs)
      /\ p.Channel[k] \in Seq(Txs) /\ p.Height \in Int
  BY <1>1, RecordedTypes DEF PoolOf
<1>5. p.Height = height + 1 /\ p.List = lists[s]
  BY UploadAt DEF Flow, LeaderHolds
<1>6. q.Height = p.Height /\ q.List = p.List
  BY UploadAt
<1>7. CASE Accept(lists) /\ q.Channel[k] = p.Channel[k] \o RelaysOf(lists)[s][k]
  <2>1. height' = height + 1
    BY <1>7 DEF Accept
  <2>2. \A t \in Shards, j \in Kinds : chain'[t][j] = chain[t][j] \o lists[t][j]
    BY <1>7 DEF Accept
  <2>3. InBlock(s, k)' = <<>>
    <3>1. height + 1 # height' + 1
      BY <1>1, <2>1
    <3> QED BY <1>5, <1>6, <3>1 DEF InBlock
  <2>4. InBlock(s, k) = lists[s][k]
    BY <1>5 DEF InBlock
  <2> DEFINE a == chain[s][k] \o lists[s][k]
             c == p.Channel[k]
             x == RelaysOf(lists)[s][k]
  <2>5. a \in Seq(Txs) /\ c \in Seq(Txs) /\ x \in Seq(Txs)
    BY <1>3, <1>4, ConcatProperties
  <2>6. Recorded(s, k) = a \o c
    BY <2>4 DEF Recorded
  <2>7. Recorded(s, k)' = (a \o <<>>) \o (c \o x)
    BY <1>7, <2>2, <2>3 DEF Recorded
  <2> HIDE DEF a, c, x
  <2>8. Recorded(s, k)' = Recorded(s, k) \o x
    BY <2>5, <2>6, <2>7, ConcatEmptySeq, ConcatAssociative
  <2> QED BY <2>1, <2>2, <2>8 DEF x
<1>8. CASE /\ Refuse(lists)
           /\ q.Channel[k] = IF s \in AllButLast THEN p.Channel[k] \o lists[s][k] ELSE p.Channel[k]
  <2>1. UNCHANGED <<height, chain>>
    BY <1>8 DEF Refuse
  <2>2. InBlock(s, k)' = InBlock(s, k)
    BY <1>6, <2>1 DEF InBlock
  <2>3. CASE s \in AllButLast
    <3>1. Recorded(s, k)' = Recorded(s, k) \o lists[s][k]
      BY <1>1, <1>3, <1>8, <2>1, <2>2, <2>3, RecordedMore
    <3> QED BY <2>1, <2>3, <3>1
  <2>4. CASE s \notin AllButLast
    <3>1. Recorded(s, k)' = Recorded(s, k)
      BY <1>8, <2>1, <2>2, <2>4 DEF Recorded
    <3> QED BY <2>1, <2>4, <3>1
  <2> QED BY <2>3, <2>4
<1> QED BY <1>7, <1>8, UploadAt

-----------------------------------------------------------------------------
(***************************************************************************)
(* Payments and their relay transactions.                                  *)
(***************************************************************************)
\* How often a transaction occurs in a sequence is a number.
LEMMA TimesType ==
  ASSUME NEW tx, NEW a \in Seq(Txs)
  PROVE  IsFiniteSet({i \in DOMAIN a : a[i] = tx}) /\ Times(tx, a) \in Nat
<1>1. Len(a) \in Nat /\ DOMAIN a = 1 .. Len(a)
  BY LenProperties
<1>2. IsFiniteSet(DOMAIN a)
  BY <1>1, FS_Interval
<1>3. IsFiniteSet({i \in DOMAIN a : a[i] = tx})
  BY <1>2, FS_Subset
<1> QED BY <1>3, FS_CardinalityType DEF Times

\* It occurs in two sequences, one after the other, as often as in both.
LEMMA TimesConcat ==
  ASSUME NEW tx, NEW a \in Seq(Txs), NEW b \in Seq(Txs)
  PROVE  Times(tx, a \o b) = Times(tx, a) + Times(tx, b)
<1> DEFINE n == Len(a)
           A == {i \in DOMAIN a : a[i] = tx}
           B == {i \in DOMAIN b : b[i] = tx}
           C == {i \in DOMAIN (a \o b) : (a \o b)[i] = tx}
           D == {i \in C : i > n}
           f == [i \in B |-> i + n]
<1>1. /\ n \in Nat /\ Len(b) \in Nat
      /\ DOMAIN a = 1 .. n /\ DOMAIN b = 1 .. Len(b)
  BY LenProperties
<1>2. /\ a \o b \in Seq(Txs) /\ DOMAIN (a \o b) = 1 .. n + Len(b)
      /\ \A i \in 1 .. n + Len(b) : (a \o b)[i] = IF i <= n THEN a[i] ELSE b[i - n]
  BY ConcatProperties, LenProperties
<1>3. IsFiniteSet(A) /\ IsFiniteSet(B) /\ IsFiniteSet(C)
  BY <1>2, TimesType
<1> HIDE DEF n
<1>4. A = {i \in C : i <= n}
  BY <1>1, <1>2
<1>5. f \in Bijection(B, D)
  <2>1. ASSUME NEW i \in B PROVE f[i] \in D
    <3>1. i \in 1 .. Len(b) /\ b[i] = tx /\ f[i] = i + n
      BY <1>1
    <3>2. i + n \in 1 .. n + Len(b) /\ i + n > n /\ ~(i + n <= n) /\ (i + n) - n = i
      BY <1>1, <3>1
    <3>3. (a \o b)[i + n] = tx
      BY <1>2, <3>1, <3>2
    <3> QED BY <1>2, <3>1, <3>2, <3>3
  <2>2. ASSUME NEW i \in B, NEW j \in B, f[i] = f[j] PROVE i = j
    <3>1. i \in Nat /\ j \in Nat /\ i + n = j + n
      BY <1>1, <2>2
    <3> QED BY <1>1, <3>1
  <2>3. ASSUME NEW j \in D PROVE \E i \in B : f[i] = j
    <3>1. j \in 1 .. n + Len(b) /\ j > n /\ (a \o b)[j] = tx
      BY <1>2
    <3>2. j - n \in 1 .. Len(b) /\ ~(j <= n) /\ (j - n) + n = j
      BY <1>1, <3>1
    <3>3. b[j - n] = tx
      BY <1>2, <3>1, <3>2
    <3>4. j - n \in B
      BY <1>1, <3>2, <3>3
    <3> QED BY <3>2, <3>4
  <2>4. f \in [B -> D] /\ IsInjective(f)
    BY <2>1, <2>2 DEF IsInjective
  <2> QED BY <2>3, <2>4 DEF Bijection, Injection, Surjection
<1>6. IsFiniteSet(D) /\ Cardinality(D) = Cardinality(B)
  BY <1>3, <1>5, FS_Bijection DEF ExistsBijection
<1>7. C = A \cup D /\ A \cap D = {}
  <2>1. \A i \in C : i \in Nat
    BY <1>1, <1>2
  <2> QED BY <1>1, <1>4, <2>1
<1> HIDE DEF A, B, C, D, f
<1>8. Cardinality(C) = Cardinality(A) + Cardinality(D) - Cardinality(A \cap D)
  BY <1>3, <1>6, <1>7, FS_Union
<1>9. Cardinality(A \cap D) = 0 /\ Cardinality(A) \in Nat /\ Cardinality(D) \in Nat
  BY <1>3, <1>6, <1>7, FS_EmptySet, FS_CardinalityType
<1>10. Cardinality(C) = Cardinality(A) + Cardinality(B)
  BY <1>6, <1>8, <1>9
<1> QED BY <1>10 DEF Times, A, B, C

\* The payments of the shard that s receives from.
Paid(s) == chain[Origin[s]]["CrossShard"]

\* No payment is lost, for all transactions, paid or not.
NoneLost ==
  \A s \in Shards, tx \in Txs : Times(tx, Paid(s)) <= Times(tx, Recorded(s, "Relay"))

\* Payments and relays that grow by the same lists stay in step.
LEMMA GrowTogether ==
  ASSUME NEW tx, NEW a \in Seq(Txs), NEW b \in Seq(Txs), NEW x \in Seq(Txs),
         Times(tx, a) <= Times(tx, b)
  PROVE  /\ Times(tx, a \o x) <= Times(tx, b \o x)
         /\ Times(tx, a) <= Times(tx, b \o x)
<1>1. /\ Times(tx, a \o x) = Times(tx, a) + Times(tx, x)
      /\ Times(tx, b \o x) = Times(tx, b) + Times(tx, x)
  BY TimesConcat
<1>2. Times(tx, a) \in Nat /\ Times(tx, b) \in Nat /\ Times(tx, x) \in Nat
  BY TimesType
<1> QED BY <1>1, <1>2

\* What is paid and what is recorded are lists of transactions.
LEMMA PaidTypes ==
  ASSUME Typed, NEW s \in Shards
  PROVE  /\ Origin[s] \in Shards /\ "CrossShard" \in Kinds /\ "Relay" \in Kinds
         /\ Paid(s) \in Seq(Txs) /\ Recorded(s, "Relay") \in Seq(Txs)
<1>1. Origin[s] \in Shards /\ "CrossShard" \in Kinds /\ "Relay" \in Kinds
  BY OriginIsShard DEF Kinds
<1> QED BY <1>1, RecordedTypes DEF Paid

\* The steps that leave the chain alone.
LEMMA UnpaidSteps ==
  ASSUME Typed, NoneLost, chain' = chain,
         \A s \in Shards : \E x \in Seq(Txs) :
           \/ Recorded(s, "Relay")' = Recorded(s, "Relay")
           \/ Recorded(s, "Relay")' = Recorded(s, "Relay") \o x
  PROVE  NoneLost'
<1> SUFFICES ASSUME NEW s \in Shards, NEW tx \in Txs
             PROVE  Times(tx, Paid(s)') <= Times(tx, Recorded(s, "Relay")')
  BY DEF NoneLost, Times
<1> DEFINE a == Paid(s)
           b == Recorded(s, "Relay")
           c == Recorded(s, "Relay")'
<1>1. a \in Seq(Txs) /\ b \in Seq(Txs) /\ Times(tx, a) <= Times(tx, b) /\ Paid(s)' = a
  BY PaidTypes DEF NoneLost, Paid
<1>2. PICK x \in Seq(Txs) : c = b \/ c = b \o x
  OBVIOUS
<1> HIDE DEF a, b, c
<1>3. Times(tx, a) <= Times(tx, c)
  BY <1>1, <1>2, GrowTogether
<1> QED BY <1>1, <1>3 DEF c

\* A block adds as many relay transactions as it adds payments; everything
\* else leaves the payments alone.
LEMMA NextNoneLost == Flow /\ NoneLost /\ [Next]_vars => NoneLost'
<1> SUFFICES ASSUME Flow, NoneLost, [Next]_vars PROVE NoneLost'
  OBVIOUS
<1>1. Typed /\ "Relay" \in Kinds /\ <<>> \in Seq(Txs)
  BY EmptySeq DEF Flow, Kinds
<1>2. ASSUME NEW r \in Groups, NEW e \in Executor, ExecutorSteps(r, e)
      PROVE  NoneLost'
  <2>1. r \in 1 .. Rounds
    BY DEF Groups
  <2>2. chain' = chain
    BY <1>2 DEF ExecutorSteps, ExecutorPacks, WitnessTx, Witnessed, PackValidTx, CollectRoot
  <2>3. ASSUME NEW s \in Shards
        PROVE  \E x \in Seq(Txs) :
                 \/ Recorded(s, "Relay")' = Recorded(s, "Relay")
                 \/ Recorded(s, "Relay")' = Recorded(s, "Relay") \o x
    <3>1. exec[r][e].lists[s]["Relay"] \in Seq(Txs)
      <4>1. exec[r][e].lists \in AllLists
        BY <1>1, <2>1 DEF Typed
      <4> QED BY <1>1, <4>1 DEF AllLists
    <3> QED BY <1>1, <1>2, <2>1, <3>1, ExecutorRecords
  <2> QED BY <1>1, <2>2, <2>3, UnpaidSteps
<1>3. ASSUME LeaderPacks \/ LeaderReadsHeight PROVE NoneLost'
  <2>1. chain' = chain
    BY <1>3 DEF LeaderPacks, LeaderReadsHeight
  <2>2. \A s \in Shards : Recorded(s, "Relay")' = Recorded(s, "Relay")
    BY <1>1, <1>3, LeaderRecords
  <2> QED BY <1>1, <2>1, <2>2, UnpaidSteps
<1>4. ASSUME NEW vote \in {0, MinVote}, AppendBlock(vote) PROVE NoneLost'
  <2> DEFINE lists == leader.lists
  <2>1. lists \in AllLists
    BY <1>4, UploadAt
  <2> HIDE DEF lists
  <2> SUFFICES ASSUME NEW s \in Shards, NEW tx \in Txs
               PROVE  Times(tx, Paid(s)') <= Times(tx, Recorded(s, "Relay")')
    BY DEF NoneLost, Times
  <2> DEFINE a == Paid(s)
             b == Recorded(s, "Relay")
             c == Recorded(s, "Relay")'
             x == lists[Origin[s]]["CrossShard"]
             y == lists[s]["Relay"]
  <2>2. /\ Origin[s] \in Shards /\ "CrossShard" \in Kinds
        /\ a \in Seq(Txs) /\ b \in Seq(Txs) /\ Times(tx, a) <= Times(tx, b)
    BY <1>1, PaidTypes DEF NoneLost
  <2>3. x \in Seq(Txs) /\ y \in Seq(Txs)
    BY <1>1, <2>1, <2>2 DEF AllLists
  <2>4. RelaysOf(lists)[s]["Relay"] = x
    BY <1>1 DEF RelaysOf, Empty
  <2>5. \/ Paid(s)' = a \o x /\ c = b \o x
        \/ Paid(s)' = a /\ (c = b \/ c = b \o y)
    BY <1>1, <1>4, <2>2, <2>4, UploadRecords DEF lists, Paid
  <2>6. Times(tx, Paid(s)') <= Times(tx, c)
    <3> HIDE DEF a, b, c, x, y
    <3> QED BY <2>2, <2>3, <2>5, GrowTogether
  <2> QED BY <2>6 DEF c
<1>5. CASE UNCHANGED vars
  <2>1. chain' = chain /\ \A s \in Shards : Recorded(s, "Relay")' = Recorded(s, "Relay")
    BY <1>5 DEF vars, Recorded, InBlock
  <2> QED BY <1>1, <2>1, UnpaidSteps
<1> QED BY <1>2, <1>3, <1>4, <1>5 DEF Next, Handlers

\* At the start nothing is paid.
LEMMA InitNoneLost == Init => NoneLost
<1> SUFFICES ASSUME Init, NEW s \in Shards, NEW tx \in Txs
             PROVE  Times(tx, Paid(s)) <= Times(tx, Recorded(s, "Relay"))
  BY DEF NoneLost
<1>1. Typed
  BY InitTyped
<1>2. Paid(s) = <<>>
  BY <1>1, PaidTypes DEF Init, Paid, NoLists, Empty
<1>3. Times(tx, <<>>) = 0
  <2>1. {i \in DOMAIN <<>> : <<>>[i] = tx} = {}
    OBVIOUS
  <2> QED BY <2>1, FS_EmptySet DEF Times
<1>4. Times(tx, Recorded(s, "Relay")) \in Nat
  BY <1>1, PaidTypes, TimesType
<1> QED BY <1>2, <1>3, <1>4

\* The leader's lists and the pools' cached ones agree, as do rounds and
\* heights, whatever the order of requests.
THEOREM FlowInvariant == Spec => []Flow
<1> QED BY InitFlow, NextFlow, PTL DEF Spec

\* Money that left a shard is never lost, whatever is refused, put back, or
\* recorded twice.
THEOREM NoPaymentLost == Spec => []RelaysSurvive
<1>1. Init => Flow /\ NoneLost
  BY InitFlow, InitNoneLost
<1>2. Flow /\ NoneLost /\ [Next]_vars => (Flow /\ NoneLost)'
  BY NextFlow, NextNoneLost
<1>3. Flow /\ NoneLost => RelaysSurvive
  <2> SUFFICES ASSUME Flow, NoneLost, NEW s \in Shards,
                      NEW tx \in Range(chain[Origin[s]]["CrossShard"])
               PROVE  Times(tx, chain[Origin[s]]["CrossShard"])
                        <= Times(tx, Recorded(s, "Relay"))
    BY DEF RelaysSurvive
  <2>1. Paid(s) \in Seq(Txs)
    BY PaidTypes DEF Flow
  <2>2. tx \in Txs
    <3>1. PICK i \in DOMAIN Paid(s) : tx = Paid(s)[i]
      BY DEF Range, Paid
    <3> QED BY <2>1, <3>1, LenProperties
  <2> QED BY <2>2 DEF NoneLost, Paid
<1> QED BY <1>1, <1>2, <1>3, PTL DEF Spec

-----------------------------------------------------------------------------
(***************************************************************************)
(* The steady schedule: the pools are the queues of TxQueue.  The schedule *)
(* is about groups, the counter and the pools are not; the invariant says  *)
(* how far the open group has come when the counter stands where it does.  *)
(***************************************************************************)
\* Every step on the schedule is one of the pipeline.
LEMMA SteadyStepsAreSteps == [SteadyNext]_vars => [Next]_vars
BY DEF SteadyNext, Next, Handlers, ExecutorSteps

HasWitnessed(r, e) == exec[r][e].step \notin {"idle", "packed"}

\* The counter when n of a group have witnessed.
Counted(n) == IF n < MinVote THEN n ELSE n - MinVote - 100000

\* A group witnesses after the one before has reported.
InTurn == \A r \in 1 .. Rounds, e \in Executor : HasWitnessed(r, e) => Ended(r - 1)

\* A group whose leader has packed has enough witnesses.
EnoughWitnesses ==
  /\ \A r \in 1 .. Rounds :
       r < round \/ (r = round /\ leader.step # "idle") => Cardinality(Witness(r)) >= MinVote
  /\ leader.step # "idle" => round <= Rounds

\* A group validates after its block; who packed did so for its round or later.
InRound ==
  \A r \in 1 .. Rounds, e \in Executor :
    /\ exec[r][e].step \in {"validating", "rooted"} => r < round
    /\ exec[r][e].step # "idle" => exec[r][e].height >= r

\* The counter counts the witnesses of the group that is open.
CountsOpen ==
  \A r \in 1 .. Rounds :
    Ended(r - 1) /\ ~Ended(r) => WitnessCount = Counted(Cardinality(Witness(r)))

\* No block takes more than a pack takes.
SmallBlocks == \A s \in Shards, k \in Kinds : Len(pool[1][s].List[k]) <= TX_NUM

\* Every round has had its block.
EveryRoundABlock == height + 1 = round

Paced == InTurn /\ EnoughWitnesses /\ InRound /\ CountsOpen /\ SmallBlocks /\ EveryRoundABlock

Steady == Flow /\ Agreement /\ Paced

\* There is an executor, and a group is a finite set.
LEMMA GroupSizes ==
  /\ Executor # {} /\ MinVote \in Nat /\ MinVote > 0 /\ Rounds \in Nat
  /\ \A r : /\ IsFiniteSet(Witness(r)) /\ Cardinality(Witness(r)) \in Nat
            /\ Cardinality(Witness(r)) <= Cardinality(Executor)
  /\ Cardinality(Executor) \in Nat
<1>1. IsFiniteSet(Executor) /\ MinVote \in Nat /\ MinVote > 0 /\ Cardinality(Executor) >= MinVote
        /\ Rounds \in Nat
  BY TxPipelineAssumption DEF TxPipelineAssumption
<1>2. Cardinality(Executor) \in Nat
  BY <1>1, FS_CardinalityType
<1>3. Executor # {}
  BY <1>1, <1>2, FS_EmptySet
<1>4. ASSUME NEW r
      PROVE  /\ IsFiniteSet(Witness(r)) /\ Cardinality(Witness(r)) \in Nat
             /\ Cardinality(Witness(r)) <= Cardinality(Executor)
  <2>1. Witness(r) \in SUBSET Executor
    BY DEF Witness
  <2> QED BY <1>1, <2>1, FS_Subset, FS_CardinalityType
<1> QED BY <1>1, <1>2, <1>3, <1>4

\* One executor's step changes its step only.
LEMMA SteppedSteps ==
  ASSUME Typed, NEW r \in 1 .. Rounds, NEW e \in Executor, NEW step
  PROVE  \A q \in 1 .. Rounds, d \in Executor :
           LET new == Stepped(r, e, step)
           IN  /\ new[q][d].step = IF q = r /\ d = e THEN step ELSE exec[q][d].step
               /\ new[q][d].height = exec[q][d].height
               /\ new[q][d].lists = exec[q][d].lists
BY DEF Typed, Stepped

\* A step that neither witnesses nor reports leaves all groups where they are.
LEMMA SameProgress ==
  ASSUME \A q \in 1 .. Rounds, d \in Executor :
           /\ exec'[q][d].step \in {"idle", "packed"} <=> exec[q][d].step \in {"idle", "packed"}
           /\ exec'[q][d].step = "rooted" <=> exec[q][d].step = "rooted"
  PROVE  /\ \A q \in 1 .. Rounds : Witness(q)' = Witness(q)
         /\ \A q \in 0 .. Rounds : Ended(q)' <=> Ended(q)
         /\ InTurn => InTurn'
<1>1. \A q \in 1 .. Rounds : Witness(q)' = Witness(q)
  BY DEF Witness
<1>2. ASSUME NEW q \in 0 .. Rounds PROVE Ended(q)' <=> Ended(q)
  <2>1. \A p \in 1 .. q : p \in 1 .. Rounds
    BY GroupSizes
  <2> QED BY <2>1 DEF Ended
<1>3. InTurn => InTurn'
  <2> SUFFICES ASSUME InTurn, NEW q \in 1 .. Rounds, NEW d \in Executor, HasWitnessed(q, d)'
               PROVE  Ended(q - 1)'
    BY DEF InTurn
  <2>1. HasWitnessed(q, d)
    BY DEF HasWitnessed
  <2>2. q - 1 \in 0 .. Rounds
    BY GroupSizes
  <2>3. Ended(q - 1)
    BY <2>1 DEF InTurn
  <2> QED BY <1>2, <2>2, <2>3
<1> QED BY <1>1, <1>2, <1>3

\* The group that is open is the only one.
LEMMA OneOpen ==
  ASSUME NEW q \in 1 .. Rounds, NEW r \in 1 .. Rounds,
         Ended(q - 1), ~Ended(q), Ended(r - 1), ~Ended(r)
  PROVE  q = r
<1>1. Rounds \in Nat /\ q \in Nat /\ r \in Nat
  BY GroupSizes
<1>2. \A m, n \in Nat : m <= n /\ Ended(n) => Ended(m)
  BY DEF Ended
<1>3. ~(q <= r - 1) /\ ~(r <= q - 1)
  BY <1>1, <1>2
<1> QED BY <1>1, <1>3

\* Executors leave the lists of stage 1 alone.
LEMMA ExecutorsLeaveLists ==
  ASSUME Typed, NEW r \in 1 .. Rounds, NEW e \in Executor, ExecutorSteps(r, e), NEW s \in Shards
  PROVE  pool'[1][s].List = pool[1][s].List /\ pool'[1][s].Height = pool[1][s].Height
<1>1. IsPools(pool) /\ 0 \in Stages /\ 1 \in Stages /\ 2 \in Stages /\ pool[1][s] \in PoolOf(s)
  BY DEF Typed, IsPools, IsStage, Stages
<1>2. CASE pool' = Sent(pool, 1, Shards, exec[r][e].lists)
  <2> DEFINE q == Appended(pool[1][s], exec[r][e].lists[s])
  <2>1. pool'[1][s] = q
    BY <1>1, <1>2, SentAt
  <2>2. q.List = pool[1][s].List /\ q.Height = pool[1][s].Height
    BY <1>1, AppendedAt
  <2> HIDE DEF q
  <2> QED BY <2>1, <2>2
<1>3. \/ pool' = Packed(0, Shards, height + 1) \/ pool' = Packed(2, AllButLast, height - 1)
      \/ pool' = pool \/ pool' = Sent(pool, 1, Shards, exec[r][e].lists)
  BY DEF ExecutorSteps, ExecutorPacks, WitnessTx, Witnessed, PackValidTx, CollectRoot
<1>4. \A stage \in {0, 2} : \A S, h : Packed(stage, S, h)[1][s] = pool[1][s]
  BY <1>1, PackedAt
<1> QED BY <1>2, <1>3, <1>4

\* A step after which the groups are where they were.
LEMMA ProgressPaced ==
  ASSUME Paced, InRound', SmallBlocks',
         UNCHANGED <<height, round, leader, WitnessCount>>,
         \A q \in 1 .. Rounds, d \in Executor :
           /\ exec'[q][d].step \in {"idle", "packed"} <=> exec[q][d].step \in {"idle", "packed"}
           /\ exec'[q][d].step = "rooted" <=> exec[q][d].step = "rooted"
  PROVE  Paced'
<1>1. /\ \A q \in 1 .. Rounds : Witness(q)' = Witness(q)
      /\ \A q \in 0 .. Rounds : Ended(q)' <=> Ended(q)
      /\ InTurn'
  BY SameProgress DEF Paced
<1>2. EnoughWitnesses'
  BY <1>1 DEF Paced, EnoughWitnesses
<1>3. CountsOpen'
  <2>1. \A q \in 1 .. Rounds : q - 1 \in 0 .. Rounds /\ q \in 0 .. Rounds
    BY GroupSizes
  <2> QED BY <1>1, <2>1 DEF Paced, CountsOpen
<1>4. EveryRoundABlock'
  BY DEF Paced, EveryRoundABlock
<1> QED BY <1>1, <1>2, <1>3, <1>4 DEF Paced

\* Packing for witnesses, and for validation.
LEMMA PacksPaced ==
  ASSUME Steady, NEW r \in 1 .. Rounds, r <= round, NEW e \in Executor,
         ExecutorPacks(r, e) \/ PackValidTx(r, e)
  PROVE  Paced'
<1>1. Typed /\ height \in Nat /\ round \in Nat
  BY DEF Steady, Flow, Typed
<1>2. SmallBlocks'
  BY <1>1, ExecutorsLeaveLists DEF Steady, Paced, SmallBlocks, ExecutorSteps
<1>3. UNCHANGED <<height, round, leader, WitnessCount>>
  BY DEF ExecutorPacks, PackValidTx
<1>4. CASE ExecutorPacks(r, e)
  <2>1. \A q \in 1 .. Rounds, d \in Executor :
          IF q = r /\ d = e
            THEN /\ exec[q][d].step = "idle" /\ exec'[q][d].step = "packed"
                 /\ exec'[q][d].height = height + 1
            ELSE exec'[q][d] = exec[q][d]
    BY <1>1, <1>4 DEF ExecutorPacks, Typed
  <2>2. height + 1 >= r
    BY <1>1 DEF Steady, Paced, EveryRoundABlock
  <2>3. InRound'
    BY <1>3, <2>1, <2>2 DEF Steady, Paced, InRound
  <2> QED BY <1>2, <1>3, <2>1, <2>3, ProgressPaced DEF Steady
<1>5. CASE PackValidTx(r, e)
  <2>1. exec[r][e].step = "witnessed" /\ r < round /\ exec' = Stepped(r, e, "validating")
    BY <1>5 DEF PackValidTx
  <2>2. \A q \in 1 .. Rounds, d \in Executor :
          /\ exec'[q][d].step = IF q = r /\ d = e THEN "validating" ELSE exec[q][d].step
          /\ exec'[q][d].height = exec[q][d].height
    BY <1>1, <2>1, SteppedSteps
  <2>3. InRound'
    BY <1>3, <2>1, <2>2 DEF Steady, Paced, InRound
  <2> QED BY <1>2, <1>3, <2>1, <2>2, <2>3, ProgressPaced DEF Steady
<1> QED BY <1>4, <1>5

\* What a witness does to the counter, and when its lists are recorded: when it
\* is the one that makes its group's witnesses sufficient.
LEMMA WitnessCounted ==
  ASSUME Steady, Cardinality(Executor) <= 100000,
         NEW r \in 1 .. Rounds, NEW e \in Executor, WitnessTx(r, e), Ended(r - 1)
  PROVE  LET n == Cardinality(Witness(r))
         IN  /\ ~Ended(r)
             /\ n \in Nat /\ Cardinality(Witness(r)') = n + 1
             /\ Witness(r)' = Witness(r) \cup {e}
             /\ \A q \in 1 .. Rounds : q # r => Witness(q)' = Witness(q)
             /\ WitnessCount' = Counted(n + 1)
             /\ pool' = IF n + 1 = MinVote THEN Sent(pool, 1, Shards, exec[r][e].lists) ELSE pool
<1> DEFINE n == Cardinality(Witness(r))
<1>1. Typed /\ exec[r][e].step = "packed" /\ exec' = Stepped(r, e, "witnessed")
  BY DEF Steady, Flow, WitnessTx
<1>2. \A q \in 1 .. Rounds, d \in Executor :
        exec'[q][d].step = IF q = r /\ d = e THEN "witnessed" ELSE exec[q][d].step
  BY <1>1, SteppedSteps
<1>3. /\ Witness(r)' = Witness(r) \cup {e} /\ e \notin Witness(r)
      /\ \A q \in 1 .. Rounds : q # r => Witness(q)' = Witness(q)
  BY <1>1, <1>2 DEF Witness
<1>4. ~Ended(r)
  BY <1>1 DEF Ended
<1>5. /\ IsFiniteSet(Witness(r)) /\ n \in Nat /\ MinVote \in Nat /\ MinVote > 0
      /\ Cardinality(Executor) \in Nat
  BY GroupSizes
<1>6. Cardinality(Witness(r)') = n + 1
  BY <1>3, <1>5, FS_AddElement
<1>7. n + 1 <= Cardinality(Executor)
  <2>1. Witness(r) \cup {e} \in SUBSET Executor
    BY DEF Witness
  <2>2. Cardinality(Witness(r) \cup {e}) <= Cardinality(Executor)
    BY <2>1, FS_Subset, TxPipelineAssumption DEF TxPipelineAssumption
  <2> QED BY <1>3, <1>6, <2>2
<1>8. WitnessCount = Counted(n)
  BY <1>4 DEF Steady, Paced, CountsOpen
<1>9. Witnessed(exec[r][e].lists)
  BY DEF WitnessTx
<1> HIDE DEF n
<1>10. CASE n + 1 < MinVote
  <2>1. WitnessCount + 1 = n + 1 /\ Counted(n + 1) = n + 1
    BY <1>5, <1>8, <1>10 DEF Counted
  <2>2. WitnessCount' = n + 1 /\ pool' = pool
    <3>1. ~(WitnessCount + 1 >= MinVote)
      BY <1>5, <1>10, <2>1
    <3> QED BY <1>9, <2>1, <3>1 DEF Witnessed
  <2>3. n + 1 # MinVote
    BY <1>5, <1>10
  <2> QED BY <1>3, <1>4, <1>5, <1>6, <2>1, <2>2, <2>3 DEF n
<1>11. CASE n + 1 = MinVote
  <2>1. WitnessCount + 1 = MinVote /\ Counted(n + 1) = -100000
    BY <1>5, <1>8, <1>11 DEF Counted
  <2>2. WitnessCount' = -100000 /\ pool' = Sent(pool, 1, Shards, exec[r][e].lists)
    <3>1. WitnessCount + 1 >= MinVote
      BY <1>5, <2>1
    <3> QED BY <1>9, <3>1 DEF Witnessed
  <2> QED BY <1>3, <1>4, <1>5, <1>6, <1>11, <2>1, <2>2 DEF n
<1>12. CASE n + 1 > MinVote
  <2>1. WitnessCount + 1 = Counted(n + 1) /\ Counted(n + 1) <= 0
    BY <1>5, <1>7, <1>8, <1>12 DEF Counted
  <2>2. Counted(n + 1) \in Int /\ n + 1 # MinVote
    BY <1>5, <1>12 DEF Counted
  <2>3. WitnessCount' = Counted(n + 1) /\ pool' = pool
    <3>1. ~(WitnessCount + 1 >= MinVote)
      BY <1>5, <2>1, <2>2
    <3> QED BY <1>9, <2>1, <3>1 DEF Witnessed
  <2> QED BY <1>3, <1>4, <1>5, <1>6, <2>2, <2>3 DEF n
<1> QED BY <1>5, <1>10, <1>11, <1>12

\* A witness.
LEMMA WitnessPaced ==
  ASSUME Steady, Cardinality(Executor) <= 100000,
         NEW r \in 1 .. Rounds, NEW e \in Executor, WitnessTx(r, e), Ended(r - 1)
  PROVE  Paced'
<1> DEFINE n == Cardinality(Witness(r))
<1>1. Typed /\ exec[r][e].step = "packed" /\ exec' = Stepped(r, e, "witnessed")
        /\ UNCHANGED <<height, round, leader>>
  BY DEF Steady, Flow, WitnessTx
<1>2. \A q \in 1 .. Rounds, d \in Executor :
        /\ exec'[q][d].step = IF q = r /\ d = e THEN "witnessed" ELSE exec[q][d].step
        /\ exec'[q][d].height = exec[q][d].height
  BY <1>1, SteppedSteps
<1>3. /\ ~Ended(r) /\ n \in Nat /\ Cardinality(Witness(r)') = n + 1
      /\ \A q \in 1 .. Rounds : q # r => Witness(q)' = Witness(q)
      /\ WitnessCount' = Counted(n + 1)
  BY WitnessCounted
<1>4. ASSUME NEW q \in 0 .. Rounds PROVE Ended(q)' <=> Ended(q)
  <2>1. \A p \in 1 .. q : p \in 1 .. Rounds
    BY GroupSizes
  <2>2. \A p \in 1 .. Rounds, d \in Executor : exec'[p][d].step = "rooted" <=> exec[p][d].step = "rooted"
    BY <1>1, <1>2
  <2> QED BY <2>1, <2>2 DEF Ended
<1>5. \A q \in 1 .. Rounds : q - 1 \in 0 .. Rounds /\ q \in 0 .. Rounds
  BY GroupSizes
<1>6. InTurn'
  <2> SUFFICES ASSUME NEW q \in 1 .. Rounds, NEW d \in Executor, HasWitnessed(q, d)'
               PROVE  Ended(q - 1)'
    BY DEF InTurn
  <2>1. CASE q = r
    BY <1>4, <1>5, <2>1
  <2>2. CASE q # r
    <3>1. HasWitnessed(q, d)
      BY <1>2, <2>2 DEF HasWitnessed
    <3> QED BY <1>4, <1>5, <3>1 DEF Steady, Paced, InTurn
  <2> QED BY <2>1, <2>2
<1>7. EnoughWitnesses'
  <2> SUFFICES ASSUME NEW q \in 1 .. Rounds,
                      q < round \/ (q = round /\ leader.step # "idle")
               PROVE  Cardinality(Witness(q)') >= MinVote
    BY <1>1 DEF EnoughWitnesses, Steady, Paced
  <2>1. Cardinality(Witness(q)) >= MinVote
    BY DEF Steady, Paced, EnoughWitnesses
  <2>2. CASE q = r
    <3>1. n >= MinVote /\ MinVote \in Nat
      BY <2>1, <2>2, GroupSizes
    <3> HIDE DEF n
    <3>2. n + 1 >= MinVote
      BY <1>3, <3>1
    <3> QED BY <1>3, <2>2, <3>2
  <2>3. CASE q # r
    BY <1>3, <2>1, <2>3
  <2> QED BY <2>2, <2>3
<1>8. InRound'
  BY <1>1, <1>2 DEF InRound, Steady, Paced
<1>9. CountsOpen'
  <2> SUFFICES ASSUME NEW q \in 1 .. Rounds, Ended(q - 1)', ~Ended(q)'
               PROVE  WitnessCount' = Counted(Cardinality(Witness(q)'))
    BY DEF CountsOpen, Counted
  <2>1. q = r
    BY <1>3, <1>4, <1>5, OneOpen
  <2> QED BY <1>3, <2>1
<1>10. SmallBlocks'
  BY <1>1, ExecutorsLeaveLists DEF Steady, Paced, SmallBlocks, ExecutorSteps
<1>11. EveryRoundABlock'
  BY <1>1 DEF Steady, Paced, EveryRoundABlock
<1> QED BY <1>6, <1>7, <1>8, <1>9, <1>10, <1>11 DEF Paced

\* A root: the last one of a group opens the next, of which nobody has
\* witnessed, and starts the count anew.
LEMMA RootPaced ==
  ASSUME Steady, NEW r \in 1 .. Rounds, NEW e \in Executor, CollectRoot(r, e)
  PROVE  Paced'
<1>1. /\ Typed /\ exec[r][e].step = "validating" /\ exec' = Stepped(r, e, "rooted")
      /\ UNCHANGED <<pool, height, round, leader>>
      /\ WitnessCount' = IF \A d \in Executor : exec'[r][d].step = "rooted"
                           THEN 0 ELSE WitnessCount
  BY DEF Steady, Flow, CollectRoot
<1>2. \A q \in 1 .. Rounds, d \in Executor :
        /\ exec'[q][d].step = IF q = r /\ d = e THEN "rooted" ELSE exec[q][d].step
        /\ exec'[q][d].height = exec[q][d].height
  BY <1>1, SteppedSteps
<1>3. \A q \in 1 .. Rounds : Witness(q)' = Witness(q)
  BY <1>1, <1>2 DEF Witness
<1>4. \A q \in 1 .. Rounds : q - 1 \in 0 .. Rounds /\ q \in 0 .. Rounds /\ q \in Nat
  BY GroupSizes
<1>5. ASSUME NEW q \in 0 .. Rounds
      PROVE  (Ended(q) => Ended(q)') /\ (q < r => (Ended(q)' <=> Ended(q)))
  <2>1. \A p \in 1 .. q : p \in 1 .. Rounds /\ p <= q
    BY GroupSizes
  <2>2. q < r => \A p \in 1 .. q : p # r
    BY GroupSizes
  <2> QED BY <1>2, <2>1, <2>2 DEF Ended
<1>6. Ended(r - 1) /\ ~Ended(r) /\ Ended(r - 1)'
  <2>1. Ended(r - 1)
    BY <1>1 DEF Steady, Paced, InTurn, HasWitnessed
  <2>2. ~Ended(r)
    BY <1>1, <1>4 DEF Ended
  <2> QED BY <1>4, <1>5, <2>1, <2>2
<1>7. InTurn'
  <2> SUFFICES ASSUME NEW q \in 1 .. Rounds, NEW d \in Executor, HasWitnessed(q, d)'
               PROVE  Ended(q - 1)'
    BY DEF InTurn
  <2>1. HasWitnessed(q, d)
    BY <1>1, <1>2 DEF HasWitnessed
  <2> QED BY <1>4, <1>5, <2>1 DEF Steady, Paced, InTurn
<1>8. EnoughWitnesses'
  BY <1>1, <1>3 DEF Steady, Paced, EnoughWitnesses
<1>9. InRound'
  BY <1>1, <1>2 DEF Steady, Paced, InRound
<1>10. CountsOpen'
  <2> SUFFICES ASSUME NEW q \in 1 .. Rounds, Ended(q - 1)', ~Ended(q)'
               PROVE  WitnessCount' = Counted(Cardinality(Witness(q)))
    BY <1>3 DEF CountsOpen, Counted
  <2>1. \A m, k \in Nat : m <= k /\ Ended(k)' => Ended(m)'
    BY DEF Ended
  <2>2. ~(q <= r - 1)
    BY <1>4, <1>6, <2>1
  <2>3. CASE \A d \in Executor : exec'[r][d].step = "rooted"
    <3>1. Ended(r)'
      <4>1. \A p \in 1 .. r : p = r \/ p \in 1 .. r - 1
        BY <1>4
      <4> QED BY <1>6, <2>3, <4>1 DEF Ended
    <3>2. ~(q <= r)
      BY <1>4, <2>1, <3>1
    <3>3. \A d \in Executor : ~HasWitnessed(q, d)
      <4>1. r <= q - 1 /\ q - 1 \in Nat
        BY <1>4, <3>2
      <4>2. ~Ended(q - 1)
        BY <1>4, <1>6, <4>1 DEF Ended
      <4> QED BY <4>2 DEF Steady, Paced, InTurn
    <3>4. Witness(q) = {}
      BY <3>3 DEF Witness, HasWitnessed
    <3> QED BY <1>1, <2>3, <3>4, FS_EmptySet, GroupSizes DEF Counted
  <2>4. CASE ~(\A d \in Executor : exec'[r][d].step = "rooted")
    <3>1. ~Ended(r)'
      BY <1>4, <2>4 DEF Ended
    <3>2. ~(r <= q - 1)
      BY <1>4, <2>1, <3>1
    <3>3. q = r
      BY <1>4, <2>2, <3>2
    <3> QED BY <1>1, <1>6, <2>4, <3>3 DEF Steady, Paced, CountsOpen
  <2> QED BY <2>3, <2>4
<1>11. SmallBlocks'
  BY <1>1 DEF Steady, Paced, SmallBlocks
<1>12. EveryRoundABlock'
  BY <1>1 DEF Steady, Paced, EveryRoundABlock
<1> QED BY <1>7, <1>8, <1>9, <1>10, <1>11, <1>12 DEF Paced

\* Packing for a block takes at most TX_NUM of a kind.
LEMMA LeaderPaced ==
  ASSUME Steady,
         \/ round <= Rounds /\ Cardinality(Witness(round)) >= MinVote /\ LeaderPacks
         \/ LeaderReadsHeight
  PROVE  Paced'
<1>1. /\ Typed /\ height \in Nat /\ round \in Nat /\ exec' = exec
      /\ UNCHANGED <<height, round, WitnessCount>>
  BY DEF Steady, Flow, Typed, LeaderPacks, LeaderReadsHeight
<1>2. /\ \A q \in 1 .. Rounds : Witness(q)' = Witness(q)
      /\ \A q \in 0 .. Rounds : Ended(q)' <=> Ended(q)
      /\ InTurn'
  BY <1>1, SameProgress DEF Steady, Paced
<1>3. InRound' /\ CountsOpen' /\ EveryRoundABlock'
  <2>1. \A q \in 1 .. Rounds : q - 1 \in 0 .. Rounds /\ q \in 0 .. Rounds
    BY GroupSizes
  <2> QED BY <1>1, <1>2, <2>1 DEF Steady, Paced, InRound, CountsOpen, EveryRoundABlock
<1>4. EnoughWitnesses'
  <2>1. \/ round <= Rounds /\ Cardinality(Witness(round)) >= MinVote
        \/ leader.step # "idle"
    BY DEF LeaderReadsHeight
  <2>2. \A q \in 1 .. Rounds : q < round => Cardinality(Witness(q)) >= MinVote
    BY DEF Steady, Paced, EnoughWitnesses
  <2>3. round <= Rounds
    BY <2>1 DEF Steady, Paced, EnoughWitnesses
  <2>4. \A q \in 1 .. Rounds : q = round => Cardinality(Witness(q)) >= MinVote
    BY <2>1 DEF Steady, Paced, EnoughWitnesses
  <2> QED BY <1>1, <1>2, <2>2, <2>3, <2>4 DEF EnoughWitnesses
<1>5. SmallBlocks'
  <2>1. CASE LeaderReadsHeight
    BY <2>1 DEF LeaderReadsHeight, Steady, Paced, SmallBlocks
  <2>2. CASE LeaderPacks
    <3> SUFFICES ASSUME NEW s \in Shards, NEW k \in Kinds
                 PROVE  Len(pool'[1][s].List[k]) <= TX_NUM
      BY DEF SmallBlocks
    <3> DEFINE p == pool[1][s]
               q == PackTransactionList(p, height + 1, TX_NUM)
               c == p.Channel[k]
               t == Taken(Len(c), TX_NUM)
    <3>1. pool'[1][s] = q
      <4>1. IsPools(pool) /\ 1 \in Stages
        BY <1>1 DEF Typed, Stages
      <4> QED BY <2>2, <4>1, PackedAt DEF LeaderPacks
    <3>2. CASE height + 1 = p.Height
      BY <3>1, <3>2, PackedFor DEF Steady, Paced, SmallBlocks
    <3>3. CASE height + 1 # p.Height
      <4>1. q.List[k] = SubSeq(c, 1, t)
        BY <3>3 DEF PackTransactionList
      <4>2. c \in Seq(Txs) /\ Len(c) \in Nat
        BY <1>1, RecordedTypes, LenProperties
      <4>3. TX_NUM \in Nat /\ TX_NUM > 0
        BY TxPipelineAssumption DEF TxPipelineAssumption
      <4> HIDE DEF q, c
      <4>4. t \in 0 .. Len(c) /\ t <= TX_NUM
        <5>1. t \in 0 .. Len(c)
          BY <4>2, <4>3, TakenBounds
        <5>2. t <= TX_NUM
          BY <4>2, <4>3 DEF Taken
        <5> QED BY <5>1, <5>2
      <4> HIDE DEF t
      <4>5. Len(SubSeq(c, 1, t)) = t
        BY <4>2, <4>4, Split
      <4> QED BY <3>1, <4>1, <4>4, <4>5
    <3> QED BY <3>2, <3>3
  <2> QED BY <2>1, <2>2
<1> QED BY <1>2, <1>3, <1>4, <1>5 DEF Paced

\* An upload with its votes is accepted.
LEMMA BlockPaced ==
  ASSUME Steady, AppendBlock(MinVote)
  PROVE  Paced' /\ Accept(leader.lists)
<1>1. Flow /\ MinVote \in Nat /\ height \in Nat /\ round \in Nat
  BY GroupSizes DEF Steady, Flow, Typed
<1>2. /\ exec' = exec /\ round' = round + 1 /\ leader' = Nothing
      /\ leader.step = "packed"
      /\ \A s \in Shards : pool'[1][s].List = pool[1][s].List
      /\ WitnessCount' = WitnessCount
  <2>1. WitnessCount' = WitnessCount
    BY DEF AppendBlock
  <2> QED BY <1>1, <2>1, UploadAt
<1>3. Accept(leader.lists) /\ height' = height + 1
  <2>1. Accept(leader.lists)
    <3>1. MinVote >= MinVote
      BY <1>1
    <3> QED BY <1>1, <3>1, UploadAt
  <2> QED BY <2>1 DEF Accept
<1>4. /\ \A q \in 1 .. Rounds : Witness(q)' = Witness(q)
      /\ \A q \in 0 .. Rounds : Ended(q)' <=> Ended(q)
      /\ InTurn'
  BY <1>2, SameProgress DEF Steady, Paced
<1>5. CountsOpen' /\ SmallBlocks' /\ EveryRoundABlock'
  <2>1. \A q \in 1 .. Rounds : q - 1 \in 0 .. Rounds /\ q \in 0 .. Rounds
    BY GroupSizes
  <2>2. CountsOpen'
    BY <1>2, <1>4, <2>1 DEF Steady, Paced, CountsOpen
  <2>3. SmallBlocks'
    BY <1>2 DEF Steady, Paced, SmallBlocks
  <2>4. EveryRoundABlock'
    BY <1>1, <1>2, <1>3 DEF Steady, Paced, EveryRoundABlock
  <2> QED BY <2>2, <2>3, <2>4
<1>6. EnoughWitnesses'
  <2>1. leader'.step = "idle"
    BY <1>2 DEF Nothing
  <2>2. \A q \in 1 .. Rounds : q < round + 1 => Cardinality(Witness(q)) >= MinVote
    BY <1>1, <1>2, GroupSizes DEF Steady, Paced, EnoughWitnesses
  <2> QED BY <1>2, <1>4, <2>1, <2>2 DEF EnoughWitnesses
<1>7. InRound'
  <2>1. \A q \in 1 .. Rounds : q < round => q < round + 1
    BY <1>1
  <2> QED BY <1>2, <2>1 DEF Steady, Paced, InRound
<1> QED BY <1>3, <1>4, <1>5, <1>6, <1>7 DEF Paced

\* It holds at the start.
LEMMA InitSteady == Init => Steady
<1> SUFFICES ASSUME Init PROVE Steady
  OBVIOUS
<1>1. Flow /\ Agreement
  BY InitFlow, InitAgreement
<1>2. /\ \A r \in 1 .. Rounds, e \in Executor : exec[r][e].step = "idle"
      /\ height = 0 /\ round = 1 /\ WitnessCount = 0 /\ leader.step = "idle"
  BY DEF Init, Nothing
<1>3. \A r \in 1 .. Rounds : Witness(r) = {} /\ ~(r < 1)
  BY <1>2 DEF Witness
<1>4. InTurn /\ InRound /\ EveryRoundABlock
  BY <1>2 DEF InTurn, HasWitnessed, InRound, EveryRoundABlock
<1>5. EnoughWitnesses
  BY <1>2, <1>3 DEF EnoughWitnesses
<1>6. CountsOpen
  BY <1>2, <1>3, FS_EmptySet, GroupSizes DEF CountsOpen, Counted
<1>7. SmallBlocks
  <2> SUFFICES ASSUME NEW s \in Shards, NEW k \in Kinds PROVE Len(pool[1][s].List[k]) <= TX_NUM
    BY DEF SmallBlocks
  <2>1. pool[1][s].List = Empty
    BY DEF Init, Stages, MakePool
  <2>2. pool[1][s].List[k] = <<>>
    BY <2>1 DEF Empty
  <2>3. TX_NUM \in Nat
    BY TxPipelineAssumption DEF TxPipelineAssumption
  <2> QED BY <2>2, <2>3
<1> QED BY <1>1, <1>4, <1>5, <1>6, <1>7 DEF Steady, Paced

\* Every step on the schedule keeps it.
LEMMA NextSteady ==
  ASSUME Cardinality(Executor) <= 100000
  PROVE  Steady /\ [SteadyNext]_vars => Steady'
<1> SUFFICES ASSUME Steady, [SteadyNext]_vars PROVE Paced'
  BY NextFlow, NextAgreement, SteadyStepsAreSteps DEF Steady
<1>1. \A r \in Groups : r \in 1 .. Rounds /\ r <= round
  BY DEF Groups
<1>2. ASSUME NEW r \in Groups, NEW e \in Executor, ExecutorPacks(r, e) \/ PackValidTx(r, e)
      PROVE  Paced'
  BY <1>1, <1>2, PacksPaced
<1>3. ASSUME NEW r \in Groups, NEW e \in Executor, Ended(r - 1), WitnessTx(r, e)
      PROVE  Paced'
  BY <1>1, <1>3, WitnessPaced
<1>4. ASSUME NEW r \in Groups, NEW e \in Executor, CollectRoot(r, e) PROVE Paced'
  BY <1>1, <1>4, RootPaced
<1>5. CASE UNCHANGED vars
  BY <1>5 DEF vars, clients, Steady, Paced, InTurn, HasWitnessed, EnoughWitnesses, InRound,
              CountsOpen, SmallBlocks, EveryRoundABlock, Witness, Ended, Counted
<1> QED BY <1>2, <1>3, <1>4, <1>5, LeaderPaced, BlockPaced DEF SteadyNext

-----------------------------------------------------------------------------
(***************************************************************************)
(* The pipeline on the steady schedule implements TxQueue: a block takes   *)
(* from the front of every queue and adds its relay transactions at the    *)
(* back; every other step leaves the queues as they are.                   *)
(***************************************************************************)
\* The first sequence of two is at the front, and the second is what is left.
LEMMA FrontAndRest ==
  ASSUME NEW T, NEW a \in Seq(T), NEW b \in Seq(T)
  PROVE  /\ SubSeq(a \o b, 1, Len(a)) = a
         /\ SubSeq(a \o b, Len(a) + 1, Len(a \o b)) = b
         /\ Len(a) \in 0 .. Len(a \o b)
<1>1. Len(a) \in Nat /\ Len(b) \in Nat /\ Len(a \o b) = Len(a) + Len(b) /\ a \o b \in Seq(T)
  BY LenProperties, ConcatProperties
<1>2. Len(a) \in 0 .. Len(a \o b)
  BY <1>1
<1>3. SubSeq(a \o b, 1, Len(a)) = a
  <2>1. CASE Len(a) = 0
    <3>1. a = <<>>
      BY <2>1, EmptySeq
    <3>2. SubSeq(a \o b, 1, 0) = <<>>
      BY SubSeqEmpty
    <3> QED BY <2>1, <3>1, <3>2
  <2>2. CASE Len(a) > 0
    <3>1. 1 \in 1 .. Len(a) /\ Len(a) \in 1 .. Len(a)
      BY <1>1, <2>2
    <3>2. SubSeq(a \o b, 1, Len(a)) = SubSeq(a, 1, Len(a))
      BY <3>1, SubSeqOfConcat1
    <3> QED BY <3>2, SubSeqFull
  <2> QED BY <1>1, <2>1, <2>2
<1>4. SubSeq(a \o b, Len(a) + 1, Len(a \o b)) = b
  <2> DEFINE rest == SubSeq(a \o b, Len(a) + 1, Len(a \o b))
  <2>1. rest \in Seq(T) /\ SubSeq(a \o b, 1, Len(a)) \o rest = a \o b
    BY <1>1, <1>2, Split
  <2> HIDE DEF rest
  <2>2. a \o rest = a \o b
    BY <1>3, <2>1
  <2>3. rest = b
    BY <2>1, <2>2, ConcatSimplifications
  <2> QED BY <2>3 DEF rest
<1> QED BY <1>2, <1>3, <1>4

\* What waits is what stage 1 holds and then what stage 0 does.
Front(s, k) == InBlock(s, k) \o pool[1][s].Channel[k]
Back(s, k)  == Unwitnessed(s, k) \o pool[0][s].Channel[k]

\* The parts are sequences of transactions.
PartsTyped(s, k) ==
  /\ InBlock(s, k) \in Seq(Txs) /\ pool[1][s].Channel[k] \in Seq(Txs)
  /\ Unwitnessed(s, k) \in Seq(Txs) /\ pool[0][s].Channel[k] \in Seq(Txs)
  /\ pool[0][s].List[k] \in Seq(Txs) /\ pool[0][s] \in PoolOf(s)
  /\ Front(s, k) \in Seq(Txs) /\ Back(s, k) \in Seq(Txs)
  /\ Waiting[s][k] = Front(s, k) \o Back(s, k)

\* They are, and what waits is the two halves.
LEMMA WaitingParts == Typed => \A s \in Shards, k \in Kinds : PartsTyped(s, k)
<1> SUFFICES ASSUME Typed, NEW s \in Shards, NEW k \in Kinds PROVE PartsTyped(s, k)
  OBVIOUS
<1>1. pool[0][s] \in PoolOf(s)
  BY DEF Typed, IsPools, IsStage, Stages
<1>2. pool[0][s].List[k] \in Seq(Txs) /\ pool[0][s].Channel[k] \in Seq(Txs)
  BY <1>1 DEF PoolOf, Lists
<1>3. Unwitnessed(s, k) \in Seq(Txs)
  BY <1>2, EmptySeq DEF Unwitnessed
<1>4. InBlock(s, k) \in Seq(Txs) /\ pool[1][s].Channel[k] \in Seq(Txs)
  BY RecordedTypes
<1>5. Front(s, k) \in Seq(Txs) /\ Back(s, k) \in Seq(Txs)
  BY <1>2, <1>3, <1>4, ConcatProperties DEF Front, Back
<1>6. (Front(s, k) \o Unwitnessed(s, k)) \o pool[0][s].Channel[k] = Front(s, k) \o Back(s, k)
  <2> DEFINE a == Front(s, k)
             b == Unwitnessed(s, k)
             c == pool[0][s].Channel[k]
  <2>1. a \in Seq(Txs) /\ b \in Seq(Txs) /\ c \in Seq(Txs)
    BY <1>2, <1>3, <1>5
  <2> HIDE DEF a, b, c
  <2>2. (a \o b) \o c = a \o (b \o c)
    BY <2>1, ConcatAssociative
  <2> QED BY <2>2 DEF Back, a, b, c
<1>7. Waiting[s][k] = (Front(s, k) \o Unwitnessed(s, k)) \o pool[0][s].Channel[k]
  BY DEF Waiting, Front
<1> QED BY <1>1, <1>2, <1>3, <1>4, <1>5, <1>6, <1>7 DEF PartsTyped

\* The same of the state after a step.
LEMMA WaitingPartsNext == (Typed => \A s \in Shards, k \in Kinds : PartsTyped(s, k))'
BY WaitingParts, PTL

\* A step that keeps both parts, or moves transactions from one to the other.
LEMMA QueueStays ==
  ASSUME Typed, Typed',
         \A s \in Shards, k \in Kinds :
           Front(s, k)' \o Back(s, k)' = Front(s, k) \o Back(s, k)
  PROVE  Waiting' = Waiting
<1>1. \A s \in Shards, k \in Kinds :
        /\ Waiting[s][k] = Front(s, k) \o Back(s, k)
        /\ Waiting'[s][k] = Front(s, k)' \o Back(s, k)'
  BY WaitingParts, WaitingPartsNext DEF PartsTyped
<1>2. \A s \in Shards, k \in Kinds : Waiting'[s][k] = Waiting[s][k]
  BY <1>1
<1>3. /\ Waiting = [s \in Shards |-> [k \in Kinds |-> Waiting[s][k]]]
      /\ Waiting' = [s \in Shards |-> [k \in Kinds |-> Waiting'[s][k]]]
  BY DEF Waiting
<1> QED BY <1>2, <1>3

\* Who packed in the open round holds the lists that are cached.
LEMMA OpenRoundCached ==
  ASSUME Steady, round <= Rounds, NEW e \in Executor, exec[round][e].step # "idle"
  PROVE  /\ \A s \in Shards : pool[0][s].Height = height + 1
         /\ exec[round][e].lists = ListsOf(pool, 0)
<1>1. round \in 1 .. Rounds /\ height \in Nat
  BY GroupSizes DEF Steady, Flow, Typed
<1>2. exec[round][e].height >= height + 1 /\ exec[round][e].height \in Nat
  BY <1>1 DEF Steady, Flow, Typed, Paced, InRound, EveryRoundABlock
<1>3. exec[round][e].height <= CachedFor /\ CachedFor \in 0 .. height + 1
  BY <1>1 DEF Steady, Agreement, CacheIsShared, CacheInStep, HasPacked
<1>4. CachedFor = height + 1 /\ exec[round][e].height = CachedFor
  BY <1>1, <1>2, <1>3
<1> QED BY <1>1, <1>4 DEF Steady, Agreement, CacheIsShared, CacheInStep, HasPacked

\* Packing for witnesses moves transactions from stage 0's channels to its
\* lists, if the height is a new one; then nobody of the round has witnessed.
LEMMA PacksQueue ==
  ASSUME Steady, Typed', NEW r \in 1 .. Rounds, NEW e \in Executor, ExecutorPacks(r, e)
  PROVE  Waiting' = Waiting
<1>1. Typed /\ IsPools(pool) /\ height \in Nat /\ 0 \in Stages /\ 1 \in Stages
  BY DEF Steady, Flow, Typed, Stages
<1>2. /\ pool' = Packed(0, Shards, height + 1) /\ exec[r][e].step = "idle"
      /\ UNCHANGED <<height, round>>
  BY DEF ExecutorPacks
<1>3. \A q \in 1 .. Rounds : Witness(q)' = Witness(q)
  <2>1. \A q \in 1 .. Rounds, d \in Executor :
          IF q = r /\ d = e THEN exec'[q][d].step = "packed" ELSE exec'[q][d] = exec[q][d]
    BY <1>1 DEF ExecutorPacks, Typed
  <2> QED BY <1>2, <2>1 DEF Witness
<1> SUFFICES ASSUME NEW s \in Shards, NEW k \in Kinds
             PROVE  Front(s, k)' = Front(s, k) /\ Back(s, k)' = Back(s, k)
  BY <1>1, QueueStays
<1> DEFINE h == height + 1
           p == pool[0][s]
           q == PackTransactionList(p, h, TX_NUM)
<1>4. pool'[1][s] = pool[1][s] /\ pool'[0][s] = q
  BY <1>1, <1>2, PackedAt
<1>5. Front(s, k)' = Front(s, k)
  BY <1>2, <1>4 DEF Front, InBlock
<1>6. round \in Nat \ {0}
  BY <1>1 DEF Typed
<1>7. CASE p.Height = h
  <2>1. pool'[0][s] = pool[0][s]
    BY <1>4, <1>7, PackedFor
  <2>2. round <= Rounds => round \in 1 .. Rounds
    BY <1>6, GroupSizes
  <2>3. Unwitnessed(s, k)' = Unwitnessed(s, k)
    BY <1>2, <1>3, <2>1, <2>2 DEF Unwitnessed
  <2> QED BY <1>5, <2>1, <2>3 DEF Back
<1>8. CASE p.Height # h
  <2>1. Unwitnessed(s, k) = <<>>
    BY <1>8 DEF Unwitnessed
  <2>2. round <= Rounds => Cardinality(Witness(round)') < MinVote
    <3> SUFFICES ASSUME round <= Rounds PROVE Cardinality(Witness(round)') < MinVote
      OBVIOUS
    <3>1. Witness(round) = {}
      BY <1>8, OpenRoundCached DEF Witness
    <3>2. Witness(round)' = Witness(round)
      BY <1>2, <1>3, <1>6, GroupSizes
    <3> QED BY <3>1, <3>2, FS_EmptySet, GroupSizes
  <2>3. q.Height = h /\ q.List[k] \o q.Channel[k] = p.Channel[k]
    <3>1. h \in Int /\ p \in PoolOf(s)
      BY <1>1, WaitingParts DEF PartsTyped
    <3>2. q.Height = h
      BY PackedFor
    <3>3. q.List[k] \o q.Channel[k] = p.Channel[k]
      <4> HIDE DEF h
      <4> QED BY <1>8, <3>1, PackedNew
    <3> QED BY <3>2, <3>3
  <2>4. Unwitnessed(s, k)' = q.List[k]
    <3> HIDE DEF q
    <3> QED BY <1>2, <1>4, <2>2, <2>3 DEF Unwitnessed
  <2>5. Back(s, k)' = p.Channel[k]
    BY <1>4, <2>3, <2>4 DEF Back
  <2>6. Back(s, k) = p.Channel[k]
    BY <1>1, <2>1, WaitingParts, ConcatEmptySeq DEF Back, PartsTyped
  <2> QED BY <1>5, <2>5, <2>6
<1> QED BY <1>7, <1>8

\* A step that leaves stages 0 and 1, the height, and who has enough witnesses.
LEMMA SamePoolsQueue ==
  ASSUME Typed, Typed', UNCHANGED <<height, round>>,
         \A s \in Shards : pool'[0][s] = pool[0][s] /\ pool'[1][s] = pool[1][s],
         \A q \in 1 .. Rounds :
           Cardinality(Witness(q)') < MinVote <=> Cardinality(Witness(q)) < MinVote
  PROVE  Waiting' = Waiting
<1>1. round <= Rounds => round \in 1 .. Rounds
  BY GroupSizes DEF Typed
<1>2. \A s \in Shards, k \in Kinds : Unwitnessed(s, k)' = Unwitnessed(s, k)
  BY <1>1 DEF Unwitnessed
<1>3. \A s \in Shards, k \in Kinds : Front(s, k)' = Front(s, k) /\ Back(s, k)' = Back(s, k)
  BY <1>2 DEF Front, Back, InBlock
<1> QED BY <1>3, QueueStays

\* Whether the open round's witnesses suffice changes only when its own do.
LEMMA SufficeStays ==
  ASSUME Steady, Cardinality(Executor) <= 100000,
         NEW r \in 1 .. Rounds, NEW e \in Executor, WitnessTx(r, e), Ended(r - 1)
  PROVE  LET n == Cardinality(Witness(r))
         IN  /\ n + 1 # MinVote =>
                  /\ pool' = pool
                  /\ \A q \in 1 .. Rounds :
                       Cardinality(Witness(q)') < MinVote <=> Cardinality(Witness(q)) < MinVote
             /\ n + 1 = MinVote =>
                  /\ pool' = Sent(pool, 1, Shards, exec[r][e].lists)
                  /\ Cardinality(Witness(r)) < MinVote /\ ~(Cardinality(Witness(r)') < MinVote)
<1> DEFINE n == Cardinality(Witness(r))
<1>1. n \in Nat /\ Cardinality(Witness(r)') = n + 1
  BY WitnessCounted
<1>2. \A q \in 1 .. Rounds : q # r => Witness(q)' = Witness(q)
  BY WitnessCounted
<1>3. pool' = IF n + 1 = MinVote THEN Sent(pool, 1, Shards, exec[r][e].lists) ELSE pool
  BY WitnessCounted
<1>4. MinVote \in Nat
  BY GroupSizes
<1>5. ASSUME n + 1 # MinVote, NEW q \in 1 .. Rounds
      PROVE  Cardinality(Witness(q)') < MinVote <=> Cardinality(Witness(q)) < MinVote
  <2>1. n + 1 < MinVote <=> n < MinVote
    <3> HIDE DEF n
    <3> QED BY <1>1, <1>4, <1>5
  <2>2. CASE q = r
    BY <1>1, <2>1, <2>2
  <2>3. CASE q # r
    BY <1>2, <2>3
  <2> QED BY <2>2, <2>3
<1>6. ASSUME n + 1 = MinVote
      PROVE  n < MinVote /\ ~(Cardinality(Witness(r)') < MinVote)
  <2> HIDE DEF n
  <2> QED BY <1>1, <1>4, <1>6
<1> QED BY <1>3, <1>5, <1>6

\* The witness that makes its group's witnesses sufficient moves the lists
\* from stage 0 to stage 1: they are those of the open round.
LEMMA LastWitnessQueue ==
  ASSUME Steady, Typed', NEW r \in 1 .. Rounds, r <= round, NEW e \in Executor,
         exec[r][e].step = "packed", UNCHANGED <<height, round>>,
         pool' = Sent(pool, 1, Shards, exec[r][e].lists),
         Cardinality(Witness(r)) < MinVote, ~(Cardinality(Witness(r)') < MinVote)
  PROVE  Waiting' = Waiting
<1>1. Typed /\ IsPools(pool) /\ 0 \in Stages /\ 1 \in Stages
  BY DEF Steady, Flow, Typed, Stages
<1>2. r = round /\ round <= Rounds
  <2>1. round \in Nat /\ r \in Nat /\ Rounds \in Nat /\ r <= Rounds
    BY <1>1, GroupSizes DEF Typed
  <2>2. MinVote \in Nat /\ Cardinality(Witness(r)) \in Nat
    BY GroupSizes
  <2>3. ~(Cardinality(Witness(r)) >= MinVote)
    BY <2>2
  <2>4. ~(r < round)
    BY <2>3 DEF Steady, Paced, EnoughWitnesses
  <2> QED BY <2>1, <2>4
<1> SUFFICES ASSUME NEW s \in Shards, NEW k \in Kinds
             PROVE  Front(s, k)' \o Back(s, k)' = Front(s, k) \o Back(s, k)
  BY <1>1, QueueStays
<1>3. exec[r][e].step # "idle"
  OBVIOUS
<1>4. pool[0][s].Height = height + 1 /\ exec[r][e].lists = ListsOf(pool, 0)
  BY <1>2, <1>3, OpenRoundCached
<1>5. exec[r][e].lists[s] = pool[0][s].List
  BY <1>4 DEF ListsOf
<1> DEFINE q == Appended(pool[1][s], pool[0][s].List)
           i == InBlock(s, k)
           c == pool[1][s].Channel[k]
           x == pool[0][s].List[k]
           b == pool[0][s].Channel[k]
<1>6. pool'[1][s] = q /\ pool'[0][s] = pool[0][s]
  BY <1>1, <1>5, SentAt
<1>7. q.Height = pool[1][s].Height /\ q.List = pool[1][s].List /\ q.Channel[k] = c \o x
  <2>1. pool[1][s] \in PoolOf(s)
    BY <1>1, RecordedTypes
  <2> QED BY <2>1, AppendedAt
<1>8. Unwitnessed(s, k) = x
  BY <1>2, <1>4 DEF Unwitnessed
<1>9. Unwitnessed(s, k)' = <<>>
  BY <1>2 DEF Unwitnessed
<1>10. i \in Seq(Txs) /\ c \in Seq(Txs) /\ x \in Seq(Txs) /\ b \in Seq(Txs)
  BY <1>1, WaitingParts DEF PartsTyped
<1> HIDE DEF q
<1>11. Front(s, k)' = i \o (c \o x)
  <2>1. InBlock(s, k)' = i
    BY <1>6, <1>7 DEF InBlock
  <2> QED BY <1>6, <1>7, <2>1 DEF Front
<1>12. Back(s, k)' = <<>> \o b
  BY <1>6, <1>9 DEF Back
<1>13. Front(s, k) = i \o c /\ Back(s, k) = x \o b
  BY <1>8 DEF Front, Back
<1> HIDE DEF i, c, x, b
<1>14. (i \o (c \o x)) \o (<<>> \o b) = (i \o c) \o (x \o b)
  <2>1. i \o (c \o x) = (i \o c) \o x /\ <<>> \o b = b /\ i \o c \in Seq(Txs)
    BY <1>10, ConcatAssociative, ConcatEmptySeq, ConcatProperties
  <2>2. ((i \o c) \o x) \o b = (i \o c) \o (x \o b)
    BY <1>10, <2>1, ConcatAssociative
  <2> QED BY <2>1, <2>2
<1> QED BY <1>11, <1>12, <1>13, <1>14

\* A witness.
LEMMA WitnessQueue ==
  ASSUME Steady, Typed', Cardinality(Executor) <= 100000,
         NEW r \in 1 .. Rounds, r <= round, NEW e \in Executor,
         WitnessTx(r, e), Ended(r - 1)
  PROVE  Waiting' = Waiting
<1> DEFINE n == Cardinality(Witness(r))
<1>1. Typed /\ exec[r][e].step = "packed" /\ UNCHANGED <<height, round>>
  BY DEF Steady, Flow, WitnessTx
<1>2. CASE n + 1 # MinVote
  <2>1. /\ pool' = pool
        /\ \A q \in 1 .. Rounds :
             Cardinality(Witness(q)') < MinVote <=> Cardinality(Witness(q)) < MinVote
    BY <1>2, SufficeStays
  <2>2. \A s \in Shards : pool'[0][s] = pool[0][s] /\ pool'[1][s] = pool[1][s]
    BY <2>1
  <2> QED BY <1>1, <2>1, <2>2, SamePoolsQueue
<1>3. CASE n + 1 = MinVote
  <2>1. /\ pool' = Sent(pool, 1, Shards, exec[r][e].lists)
        /\ Cardinality(Witness(r)) < MinVote /\ ~(Cardinality(Witness(r)') < MinVote)
    BY <1>3, SufficeStays
  <2> QED BY <1>1, <2>1, LastWitnessQueue
<1> QED BY <1>2, <1>3

\* Packing for a block moves transactions within stage 1.
LEMMA LeaderQueue ==
  ASSUME Typed, Typed', LeaderPacks \/ LeaderReadsHeight
  PROVE  Waiting' = Waiting
<1>1. /\ IsPools(pool) /\ height \in Nat /\ 0 \in Stages /\ 1 \in Stages
      /\ UNCHANGED <<height, round, exec>>
  BY DEF Typed, Stages, LeaderPacks, LeaderReadsHeight
<1>2. \A q : Witness(q)' = Witness(q)
  BY <1>1 DEF Witness
<1>3. CASE LeaderReadsHeight
  BY <1>1, <1>2, <1>3, SamePoolsQueue DEF LeaderReadsHeight
<1>4. CASE LeaderPacks
  <2> SUFFICES ASSUME NEW s \in Shards, NEW k \in Kinds
               PROVE  Front(s, k)' = Front(s, k) /\ Back(s, k)' = Back(s, k)
    BY QueueStays
  <2> DEFINE h == height + 1
             p == pool[1][s]
             q == PackTransactionList(p, h, TX_NUM)
  <2>1. pool'[1][s] = q /\ pool'[0][s] = pool[0][s]
    BY <1>1, <1>4, PackedAt DEF LeaderPacks
  <2>2. Back(s, k)' = Back(s, k)
    BY <1>1, <1>2, <2>1 DEF Back, Unwitnessed
  <2>3. CASE p.Height = h
    <3>1. pool'[1][s] = pool[1][s]
      BY <2>1, <2>3, PackedFor
    <3> QED BY <1>1, <2>2, <3>1 DEF Front, InBlock
  <2>4. CASE p.Height # h
    <3>1. q.Height = h /\ q.List[k] \o q.Channel[k] = p.Channel[k]
      <4>1. h \in Int /\ p \in PoolOf(s)
        BY <1>1, RecordedTypes
      <4>2. q.Height = h
        BY PackedFor
      <4>3. q.List[k] \o q.Channel[k] = p.Channel[k]
        <5> HIDE DEF h
        <5> QED BY <2>4, <4>1, PackedNew
      <4> QED BY <4>2, <4>3
    <3>2. InBlock(s, k)' = q.List[k]
      <4> HIDE DEF q
      <4> QED BY <1>1, <2>1, <3>1 DEF InBlock
    <3>3. InBlock(s, k) = <<>>
      BY <2>4 DEF InBlock
    <3>4. Front(s, k)' = p.Channel[k]
      BY <2>1, <3>1, <3>2 DEF Front
    <3>5. Front(s, k) = p.Channel[k]
      BY <3>3, RecordedTypes, ConcatEmptySeq DEF Front
    <3> QED BY <2>2, <3>4, <3>5
  <2> QED BY <2>3, <2>4
<1> QED BY <1>3, <1>4

\* Before a block its lists are at the front of the queues; after it they are
\* gone, and its relay transactions are at the back of stage 1.
LEMMA BlockParts ==
  ASSUME Steady, Typed', AppendBlock(MinVote), NEW s \in Shards, NEW k \in Kinds
  PROVE  LET b == leader.lists[s][k]
             c == pool[1][s].Channel[k]
             d == pool[0][s].Channel[k]
             x == RelaysOf(leader.lists)[s][k]
         IN  /\ b \in Seq(Txs) /\ c \in Seq(Txs) /\ d \in Seq(Txs) /\ x \in Seq(Txs)
             /\ Waiting[s][k] = b \o (c \o d)
             /\ Waiting'[s][k] = (c \o x) \o d
             /\ Len(b) \in 0 .. TX_NUM
             /\ chain'[s][k] = chain[s][k] \o b
<1> DEFINE b == leader.lists[s][k]
           c == pool[1][s].Channel[k]
           d == pool[0][s].Channel[k]
           x == RelaysOf(leader.lists)[s][k]
<1>1. /\ Flow /\ Typed /\ MinVote \in Nat /\ height \in Nat /\ leader.step = "packed"
      /\ Accept(leader.lists)
  BY BlockPaced, GroupSizes DEF Steady, Flow, Typed, AppendBlock
<1>2. /\ leader.lists \in AllLists /\ RelaysOf(leader.lists) \in AllLists
      /\ pool'[0][s] = pool[0][s]
      /\ pool'[1][s].Height = pool[1][s].Height
      /\ pool'[1][s].Channel[k] = c \o x
  <2>1. MinVote >= MinVote
    BY <1>1
  <2> QED BY <1>1, <2>1, UploadAt, RelaysAreLists
<1>3. b \in Seq(Txs) /\ x \in Seq(Txs)
  BY <1>2 DEF AllLists
<1>4. c \in Seq(Txs) /\ d \in Seq(Txs) /\ c \o d \in Seq(Txs) /\ c \o x \in Seq(Txs)
  BY <1>1, <1>3, WaitingParts, ConcatProperties DEF PartsTyped
<1>5. pool[1][s].Height = height + 1 /\ pool[1][s].List = leader.lists[s]
  BY <1>1 DEF Flow, LeaderHolds
<1>6. height' = height + 1 /\ chain'[s][k] = chain[s][k] \o b
  BY <1>1 DEF Accept
<1>7. InBlock(s, k) = b /\ InBlock(s, k)' = <<>>
  <2>1. InBlock(s, k) = b
    BY <1>5 DEF InBlock
  <2>2. pool'[1][s].Height # height' + 1
    BY <1>1, <1>2, <1>5, <1>6
  <2> QED BY <2>1, <2>2 DEF InBlock
<1>8. Unwitnessed(s, k) = <<>> /\ Unwitnessed(s, k)' = <<>>
  <2>1. round <= Rounds /\ round \in 1 .. Rounds
    BY <1>1, GroupSizes DEF Steady, Paced, EnoughWitnesses, Typed
  <2>2. Cardinality(Witness(round)) >= MinVote
    BY <1>1, <2>1 DEF Steady, Paced, EnoughWitnesses
  <2>3. Unwitnessed(s, k) = <<>>
    <3>1. ~(Cardinality(Witness(round)) < MinVote)
      BY <2>2, GroupSizes
    <3> QED BY <2>1, <3>1 DEF Unwitnessed
  <2>4. pool[0][s].Height \in 0 .. height + 1
    BY DEF Steady, Agreement, CacheInStep
  <2>5. pool'[0][s].Height # height' + 1
    BY <1>1, <1>2, <1>6, <2>4
  <2> QED BY <2>3, <2>5 DEF Unwitnessed
<1>9. Waiting[s][k] = b \o (c \o d)
  <2>1. Waiting[s][k] = (b \o c) \o (<<>> \o d)
    BY <1>1, <1>7, <1>8, WaitingParts DEF PartsTyped, Front, Back
  <2> HIDE DEF b, c, d
  <2> QED BY <1>3, <1>4, <2>1, ConcatEmptySeq, ConcatAssociative
<1>10. Waiting'[s][k] = (c \o x) \o d
  <2>1. Waiting'[s][k] = Front(s, k)' \o Back(s, k)'
    BY WaitingPartsNext DEF PartsTyped
  <2>2. Front(s, k)' = <<>> \o (c \o x) /\ Back(s, k)' = <<>> \o d
    BY <1>2, <1>7, <1>8 DEF Front, Back
  <2> HIDE DEF c, d, x
  <2> QED BY <1>4, <2>1, <2>2, ConcatEmptySeq
<1>11. Len(b) \in 0 .. TX_NUM
  <2>1. Len(b) <= TX_NUM
    BY <1>5 DEF Steady, Paced, SmallBlocks
  <2>2. Len(b) \in Nat
    BY <1>3, LenProperties
  <2>3. TX_NUM \in Nat
    BY TxPipelineAssumption DEF TxPipelineAssumption
  <2> QED BY <2>1, <2>2, <2>3
<1> QED BY <1>3, <1>4, <1>6, <1>9, <1>10, <1>11

\* A block is a Commit.
LEMMA BlockQueue ==
  ASSUME Steady, Typed', AppendBlock(MinVote)
  PROVE  Queue!Commit
<1> DEFINE lists == leader.lists
           n     == [s \in Shards |-> [k \in Kinds |-> Len(lists[s][k])]]
           block == Queue!First(n)
           rest  == [s \in Shards |-> [k \in Kinds |->
                      SubSeq(Waiting[s][k], n[s][k] + 1, Len(Waiting[s][k]))]]
<1>1. ASSUME NEW s \in Shards, NEW k \in Kinds
      PROVE  /\ block[s][k] = lists[s][k]
             /\ rest[s][k] = pool[1][s].Channel[k] \o pool[0][s].Channel[k]
             /\ n[s][k] <= Len(Waiting[s][k]) /\ n[s][k] \in 0 .. TX_NUM
             /\ chain'[s][k] = chain[s][k] \o block[s][k]
  <2> DEFINE b == lists[s][k]
             c == pool[1][s].Channel[k]
             d == pool[0][s].Channel[k]
             w == Waiting[s][k]
  <2>1. /\ b \in Seq(Txs) /\ c \in Seq(Txs) /\ d \in Seq(Txs)
        /\ w = b \o (c \o d) /\ Len(b) \in 0 .. TX_NUM
        /\ chain'[s][k] = chain[s][k] \o b
    BY BlockParts
  <2>2. /\ block[s][k] = SubSeq(w, 1, Len(b))
        /\ rest[s][k] = SubSeq(w, Len(b) + 1, Len(w))
        /\ n[s][k] = Len(b)
    BY DEF Queue!First, Queue!Kinds, Kinds
  <2> HIDE DEF b, c, d, w, block, rest, n
  <2>3. c \o d \in Seq(Txs)
    BY <2>1, ConcatProperties
  <2>4. SubSeq(w, 1, Len(b)) = b /\ SubSeq(w, Len(b) + 1, Len(w)) = c \o d /\ Len(b) \in 0 .. Len(w)
    <3> DEFINE e == c \o d
    <3>1. b \in Seq(Txs) /\ e \in Seq(Txs) /\ w = b \o e
      BY <2>1, <2>3
    <3> HIDE DEF e
    <3>2. /\ SubSeq(b \o e, 1, Len(b)) = b
          /\ SubSeq(b \o e, Len(b) + 1, Len(b \o e)) = e
          /\ Len(b) \in 0 .. Len(b \o e)
      BY <3>1, FrontAndRest
    <3> QED BY <3>1, <3>2 DEF e
  <2>5. Len(b) <= Len(w)
    BY <2>1, <2>3, <2>4, LenProperties, ConcatProperties
  <2>6. block[s][k] = b /\ rest[s][k] = c \o d
    BY <2>2, <2>4
  <2>7. chain'[s][k] = chain[s][k] \o block[s][k] /\ n[s][k] <= Len(w) /\ n[s][k] \in 0 .. TX_NUM
    BY <2>1, <2>2, <2>5, <2>6
  <2> QED BY <2>6, <2>7 DEF b, c, d, w
<1>2. n \in [Shards -> [Kinds -> 0 .. TX_NUM]]
  <2>1. \A s \in Shards, k \in Kinds : Len(lists[s][k]) \in 0 .. TX_NUM
    BY <1>1
  <2> QED BY <2>1
<1>3. chain' = [s \in Shards |-> [k \in Kinds |-> chain[s][k] \o block[s][k]]]
  <2>1. chain' = [s \in Shards |-> [k \in Kinds |-> chain[s][k] \o lists[s][k]]]
    BY BlockPaced DEF Accept
  <2> HIDE DEF block, lists
  <2> QED BY <1>1, <2>1
<1>4. Waiting' = [s \in Shards |->
        [rest[s] EXCEPT !["Relay"] = @ \o block[Origin[s]]["CrossShard"]]]
  <2> DEFINE later == [s \in Shards |->
               [rest[s] EXCEPT !["Relay"] = @ \o block[Origin[s]]["CrossShard"]]]
  <2>1. "Relay" \in Kinds /\ "CrossShard" \in Kinds /\ Typed
    BY DEF Kinds, Steady, Flow
  <2>2. ASSUME NEW s \in Shards, NEW k \in Kinds PROVE Waiting'[s][k] = later[s][k]
    <3> DEFINE c == pool[1][s].Channel[k]
               d == pool[0][s].Channel[k]
               x == RelaysOf(lists)[s][k]
    <3>1. /\ c \in Seq(Txs) /\ d \in Seq(Txs) /\ x \in Seq(Txs)
          /\ Waiting'[s][k] = (c \o x) \o d
      BY BlockParts
    <3>2. rest[s][k] = c \o d
      BY <1>1
    <3>3. CASE k = "Relay"
      <4>1. x = lists[Origin[s]]["CrossShard"] /\ Origin[s] \in Shards
        BY <2>1, <3>3, OriginIsShard DEF RelaysOf, Empty
      <4>2. block[Origin[s]]["CrossShard"] = x
        BY <1>1, <2>1, <4>1
      <4>3. later[s][k] = rest[s][k] \o x
        <5> HIDE DEF block, x
        <5> QED BY <2>1, <3>3, <4>2
      <4>4. d = <<>>
        BY <3>3 DEF Steady, Flow, NoRelays
      <4> HIDE DEF c, d, x, rest, later
      <4>5. (c \o x) \o d = (c \o d) \o x
        <5>1. c \o x \in Seq(Txs)
          BY <3>1, ConcatProperties
        <5> QED BY <3>1, <4>4, <5>1, ConcatEmptySeq
      <4> QED BY <3>1, <3>2, <4>3, <4>5
    <3>4. CASE k # "Relay"
      <4>1. x = <<>>
        BY <3>4 DEF RelaysOf, Empty
      <4>2. later[s][k] = rest[s][k]
        <5> HIDE DEF block
        <5> QED BY <3>4
      <4> HIDE DEF c, d, x, rest, later
      <4> QED BY <3>1, <3>2, <4>1, <4>2, ConcatEmptySeq
    <3> QED BY <3>3, <3>4
  <2>3. Waiting' = [s \in Shards |-> [k \in Kinds |-> Waiting'[s][k]]]
    BY DEF Waiting
  <2>4. later = [s \in Shards |-> [k \in Kinds |-> later[s][k]]]
    <3> HIDE DEF block
    <3> QED OBVIOUS
  <2> HIDE DEF later
  <2>5. Waiting' = later
    BY <2>2, <2>3, <2>4
  <2> QED BY <2>5 DEF later
<1>5. \A s \in Shards, k \in Kinds : n[s][k] <= Len(Waiting[s][k])
  BY <1>1
<1> QED
  <2> HIDE DEF n
  <2> DEFINE left(m)  == [s \in Shards |-> [k \in Kinds |->
                           SubSeq(Waiting[s][k], m[s][k] + 1, Len(Waiting[s][k]))]]
             Takes(m) == /\ \A s \in Shards, k \in Kinds : m[s][k] <= Len(Waiting[s][k])
                         /\ chain' = [s \in Shards |-> [k \in Kinds |->
                                       chain[s][k] \o Queue!First(m)[s][k]]]
                         /\ Waiting' = [s \in Shards |->
                              [left(m)[s] EXCEPT !["Relay"] =
                                 @ \o Queue!First(m)[Origin[s]]["CrossShard"]]]
  <2>1. Takes(n)
    BY <1>3, <1>4, <1>5
  <2>2. Queue!Commit <=> \E m \in [Shards -> [Kinds -> 0 .. TX_NUM]] : Takes(m)
    BY DEF Queue!Commit, Queue!Kinds, Kinds
  <2> HIDE DEF Takes
  <2> QED BY <1>2, <2>1, <2>2

\* At the start everything waits in stage 0's channels.
LEMMA InitQueue == Init => Queue!Init
<1> SUFFICES ASSUME Init PROVE chain = [s \in Shards |-> Empty] /\ Waiting = Initially
  BY DEF Queue!Init, Queue!Empty, Queue!Kinds, Empty, Kinds
<1>1. chain = [s \in Shards |-> Empty]
  BY DEF Init, NoLists
<1>2. Typed
  BY InitTyped
<1>3. ASSUME NEW s \in Shards, NEW k \in Kinds PROVE Waiting[s][k] = Initially[s][k]
  <2>1. /\ pool[1][s] = MakePool
        /\ pool[0][s] = [Height |-> 0, List |-> Empty, Channel |-> Initially[s]]
    BY DEF Init, Stages, MakePool
  <2>2. InBlock(s, k) = <<>> /\ Unwitnessed(s, k) = <<>>
    BY <2>1 DEF Init, InBlock, Unwitnessed, MakePool, Empty
  <2>3. pool[1][s].Channel[k] = <<>> /\ pool[0][s].Channel[k] = Initially[s][k]
    BY <2>1 DEF MakePool, Empty
  <2>4. Initially[s][k] \in Seq(Txs) /\ Waiting[s][k] = Front(s, k) \o Back(s, k)
    BY <1>2, <2>3, WaitingParts DEF PartsTyped
  <2>5. Front(s, k) = <<>> \o <<>> /\ Back(s, k) = <<>> \o Initially[s][k]
    BY <2>2, <2>3 DEF Front, Back
  <2>6. <<>> \o <<>> = <<>>
    BY EmptySeq, ConcatEmptySeq
  <2> QED BY <2>4, <2>5, <2>6, ConcatEmptySeq
<1>4. Waiting = [s \in Shards |-> [k \in Kinds |-> Waiting[s][k]]]
  BY DEF Waiting
<1>5. Initially = [s \in Shards |-> [k \in Kinds |-> Initially[s][k]]]
  <2> DEFINE Start(s, k) == CASE k = "Internal"   -> Made(s, k, IntNum)
                              [] k = "CrossShard" -> Made(s, k, CroNum)
                              [] k = "Relay"      -> <<>>
  <2>1. Initially = [s \in Shards |-> [k \in Kinds |-> Start(s, k)]]
    BY DEF Initially
  <2> HIDE DEF Start
  <2> QED BY <2>1
<1> QED BY <1>1, <1>3, <1>4, <1>5

\* Every step on the schedule is a Commit, or leaves chain and queues.
LEMMA NextQueue ==
  ASSUME Steady, Steady', [SteadyNext]_vars, Cardinality(Executor) <= 100000
  PROVE  [Queue!Commit]_<<chain, Waiting>>
<1>1. Typed /\ Typed' /\ \A r \in Groups : r \in 1 .. Rounds /\ r <= round
  BY DEF Steady, Flow, Groups
<1>2. ASSUME NEW r \in Groups, NEW e \in Executor, ExecutorPacks(r, e)
      PROVE  UNCHANGED <<chain, Waiting>>
  <2>1. chain' = chain
    BY <1>2 DEF ExecutorPacks
  <2> QED BY <1>1, <1>2, <2>1, PacksQueue
<1>3. ASSUME NEW r \in Groups, NEW e \in Executor, Ended(r - 1), WitnessTx(r, e),
             Cardinality(Executor) <= 100000
      PROVE  UNCHANGED <<chain, Waiting>>
  <2>1. chain' = chain
    BY <1>3 DEF WitnessTx
  <2> QED BY <1>1, <1>3, <2>1, WitnessQueue
<1>4. ASSUME NEW r \in Groups, NEW e \in Executor, PackValidTx(r, e) \/ CollectRoot(r, e)
      PROVE  UNCHANGED <<chain, Waiting>>
  <2>1. UNCHANGED <<chain, height, round>>
    BY <1>4 DEF PackValidTx, CollectRoot
  <2>2. \E step : /\ exec' = Stepped(r, e, step) /\ step \notin {"idle", "packed"}
                  /\ exec[r][e].step \notin {"idle", "packed"}
    BY <1>4 DEF PackValidTx, CollectRoot
  <2>3. \A q \in 1 .. Rounds : Witness(q)' = Witness(q)
    BY <1>1, <2>2, SteppedSteps DEF Witness
  <2>4. \A s \in Shards : pool'[0][s] = pool[0][s] /\ pool'[1][s] = pool[1][s]
    <3>1. pool' = pool \/ pool' = Packed(2, AllButLast, height - 1)
      BY <1>4 DEF PackValidTx, CollectRoot
    <3>2. IsPools(pool) /\ 0 \in Stages /\ 1 \in Stages /\ 2 \in Stages
      BY <1>1 DEF Typed, Stages
    <3> QED BY <3>1, <3>2, PackedAt
  <2> QED BY <1>1, <2>1, <2>3, <2>4, SamePoolsQueue
<1>5. ASSUME LeaderPacks \/ LeaderReadsHeight PROVE UNCHANGED <<chain, Waiting>>
  <2>1. chain' = chain
    BY <1>5 DEF LeaderPacks, LeaderReadsHeight
  <2> QED BY <1>1, <1>5, <2>1, LeaderQueue
<1>6. ASSUME AppendBlock(MinVote) PROVE Queue!Commit
  BY <1>1, <1>6, BlockQueue
<1>7. ASSUME UNCHANGED vars PROVE UNCHANGED <<chain, Waiting>>
  BY <1>7 DEF vars, clients, Waiting, InBlock, Unwitnessed, Witness
<1> QED BY <1>2, <1>3, <1>4, <1>5, <1>6, <1>7 DEF SteadyNext

\* On the steady schedule counter, groups, pools and leader are in step, for
\* groups of at most as many executors as the counter is made negative by.
THEOREM SteadyInvariant ==
  ASSUME Cardinality(Executor) <= 100000
  PROVE  SteadySpec => []Steady
<1>1. Steady /\ [SteadyNext]_vars => Steady'
  BY NextSteady
<1> QED BY <1>1, InitSteady, PTL DEF SteadySpec

\* The three pool stages are, on the steady schedule, one first-in first-out
\* queue per shard and kind: nothing is lost, doubled or overtaken.
THEOREM PipelineImplementsQueue ==
  ASSUME Cardinality(Executor) <= 100000
  PROVE  SteadySpec => PipelineIsQueue
<1>1. Steady /\ Steady' /\ [SteadyNext]_vars => [Queue!Commit]_<<chain, Waiting>>
  BY NextQueue
<1>2. SteadySpec => []Steady
  BY SteadyInvariant
<1> QED BY <1>1, <1>2, InitQueue, PTL DEF SteadySpec, PipelineIsQueue, Queue!Spec
=============================================================================
