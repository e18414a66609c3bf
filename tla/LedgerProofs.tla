---------------------------- MODULE LedgerProofs ----------------------------
(***************************************************************************)
(* Theorems about Ledger, for any number of shards, executors, rounds and  *)
(* transactions: account maps always point to the accounts of the start,   *)
(* and blocks move value without making or losing any.                     *)
(***************************************************************************)
EXTENDS Ledger, TxPipelineProofs, SumProofs

-----------------------------------------------------------------------------
(***************************************************************************)
(* The ledger rides on the pipeline: what holds there holds here.          *)
(***************************************************************************)
\* Every step of the ledger is one of the pipeline, or none.
LEMMA LedgerStepsAreSteps == [LedgerNext]_<<vars, ledger>> => [Next]_vars
<1> SUFFICES ASSUME [LedgerNext]_<<vars, ledger>> PROVE [Next]_vars
  OBVIOUS
<1>1. CASE LedgerHandlers
  BY <1>1 DEF LedgerHandlers, Next
<1>2. ASSUME NEW vote \in {0, MinVote}, NEW votes, LedgerAppendBlock(vote, votes)
      PROVE  Next
  BY <1>2 DEF LedgerAppendBlock, Next
<1> QED BY <1>1, <1>2 DEF LedgerNext

\* Without its accounts the ledger is the pipeline.
THEOREM LedgerIsPipeline == LedgerSpec => Spec
<1>1. LedgerInit => Init
  BY DEF LedgerInit
<1> QED BY <1>1, LedgerStepsAreSteps, PTL DEF LedgerSpec, Spec

-----------------------------------------------------------------------------
(***************************************************************************)
(* The account maps.                                                       *)
(***************************************************************************)
\* Both maps always point to the accounts that AppendAccount made: the new
\* accounts are the very map in force.
Books ==
  /\ AccountMap = Accounts
  /\ NewAccountMap = Accounts
  /\ Value \in [Struct -> Int]
  /\ StateRoot \in [Shards -> Nat]

\* What a shard's lists bring an address is an integer; between them the two
\* addresses get what came in less what went out.
LEMMA GainsOfShard ==
  ASSUME NEW s \in Shards, NEW lists \in Lists(s)
  PROVE  /\ Gain(lists, "first") \in Int /\ Gain(lists, "second") \in Int
         /\ Gain(lists, "first") + Gain(lists, "second")
              = Len(lists["Relay"]) - Len(lists["CrossShard"])
<1> DEFINE r == Len(lists["Relay"])
           i == Len(lists["Internal"])
           c == Len(lists["CrossShard"])
<1>1. \A k \in Kinds : Len(lists[k]) \in Nat
  BY LenProperties DEF Lists
<1>2. r \in Nat /\ i \in Nat /\ c \in Nat
  BY <1>1 DEF Kinds
<1>3. Gain(lists, "first") = r - i - c /\ Gain(lists, "second") = i
  BY DEF Gain
<1> HIDE DEF r, i, c
<1>4. /\ Gain(lists, "first") \in Int /\ Gain(lists, "second") \in Int
      /\ Gain(lists, "first") + Gain(lists, "second") = r - c
  BY <1>2, <1>3
<1> QED BY <1>4 DEF r, c

\* The sum over a shard's two addresses.
LEMMA SumOfTwo ==
  ASSUME NEW f, DOMAIN f = Address, f["first"] \in Int, f["second"] \in Int
  PROVE  SumOf(f) = f["first"] + f["second"]
<1>1. SumOf(f) = SumOver(f, Address)
  BY DEF SumOf, SumOver
<1>2. IsFiniteSet(Address) /\ IsFiniteSet({"second"})
  BY FS_EmptySet, FS_AddElement, FS_Singleton DEF Address
<1>3. Address \ {"first"} = {"second"} /\ {"second"} \ {"second"} = {}
  BY DEF Address
<1>4. \A a \in Address : f[a] \in Int
  BY DEF Address
<1>5. SumOver(f, Address) = f["first"] + SumOver(f, {"second"})
  BY <1>2, <1>3, <1>4, SumElement DEF Address
<1>6. SumOver(f, {"second"}) = f["second"] + SumOver(f, {})
  BY <1>2, <1>3, SumElement
<1>7. SumOver(f, {}) = 0
  BY SumEmpty
<1> QED BY <1>1, <1>5, <1>6, <1>7

\* Executing a block adds to each account what its shard's lists say.
LEMMA Executed ==
  ASSUME Books, NEW lists \in AllLists, UpdateChain(Accounts, lists)
  PROVE  /\ NewAccountMap' = Accounts
         /\ Value' \in [Struct -> Int]
         /\ \A s \in Shards, a \in Address :
              Value'[<<s, a>>] = Value[<<s, a>>] + Gain(lists[s], a)
<1> DEFINE G(p) == [a \in Address |->
              IF Accounts[p[1]][a] = p THEN Gain(lists[p[1]], a) ELSE 0]
<1>1. NewAccountMap' = Accounts /\ Value' = [p \in Struct |-> Value[p] + SumOf(G(p))]
  BY DEF UpdateChain
<1>2. ASSUME NEW s \in Shards, NEW a \in Address
      PROVE  SumOf(G(<<s, a>>)) = Gain(lists[s], a) /\ Gain(lists[s], a) \in Int
  <2> DEFINE g == G(<<s, a>>)
  <2>1. lists[s] \in Lists(s)
    BY DEF AllLists
  <2>2. Gain(lists[s], "first") \in Int /\ Gain(lists[s], "second") \in Int
    BY <2>1, GainsOfShard
  <2>3. \A b \in Address : Accounts[s][b] = <<s, b>>
    BY DEF Accounts
  <2>4. /\ DOMAIN g = Address
        /\ \A b \in Address : g[b] = IF b = a THEN Gain(lists[s], b) ELSE 0
    BY <2>3
  <2> HIDE DEF g
  <2>5. CASE a = "first"
    <3>1. g["first"] = Gain(lists[s], a) /\ g["second"] = 0
      BY <2>4, <2>5 DEF Address
    <3> QED BY <2>2, <2>4, <2>5, <3>1, SumOfTwo DEF g
  <2>6. CASE a = "second"
    <3>1. g["first"] = 0 /\ g["second"] = Gain(lists[s], a)
      BY <2>4, <2>6 DEF Address
    <3> QED BY <2>2, <2>4, <2>6, <3>1, SumOfTwo DEF g
  <2> QED BY <2>5, <2>6 DEF Address
<1> HIDE DEF G
<1>3. ASSUME NEW s \in Shards, NEW a \in Address
      PROVE  Value'[<<s, a>>] = Value[<<s, a>>] + Gain(lists[s], a)
  <2>1. <<s, a>> \in Struct
    BY DEF Struct
  <2> QED BY <1>1, <1>2, <2>1
<1>4. ASSUME NEW p \in Struct PROVE Value[p] + SumOf(G(p)) \in Int
  <2>1. PICK s \in Shards, a \in Address : p = <<s, a>>
    BY DEF Struct
  <2>2. Value[p] \in Int
    BY DEF Books
  <2> QED BY <1>2, <2>1, <2>2
<1>5. Value' \in [Struct -> Int]
  BY <1>1, <1>4
<1> QED BY <1>1, <1>3, <1>5

\* An upload changes the accounts by its lists, or not at all.
LEMMA UploadBooks ==
  ASSUME Flow, Books, NEW vote, NEW votes \in [Shards -> RootVotes],
         LedgerAppendBlock(vote, votes)
  PROVE  /\ Books'
         /\ \/ height' = height /\ Value' = Value
            \/ /\ height' = height + 1
               /\ \A s \in Shards, a \in Address :
                    Value'[<<s, a>>] = Value[<<s, a>>] + Gain(leader.lists[s], a)
<1> DEFINE lists == leader.lists
<1>1. lists \in AllLists /\ height \in Nat /\ height' \in {height, height + 1}
  <2>1. AppendBlock(vote)
    BY DEF LedgerAppendBlock
  <2> QED BY <2>1, UploadAt DEF Accept, Refuse, Flow, Typed
<1>2. Booked(votes, lists)
  BY DEF LedgerAppendBlock
<1> HIDE DEF lists
<1>3. CASE height' = height
  BY <1>2, <1>3 DEF Booked, Books, ledger
<1>4. CASE height' # height
  <2>1. UpdateChainWithBlock(votes, lists) /\ height' = height + 1
    BY <1>1, <1>2, <1>4 DEF Booked
  <2>2. Verified(votes) = Accounts
    BY DEF Verified, Books, Accounts
  <2>3. AccountMap' = Accounts /\ StateRoot' = votes /\ UpdateChain(Accounts, lists)
    BY <2>1, <2>2 DEF UpdateChainWithBlock
  <2>4. /\ NewAccountMap' = Accounts
        /\ Value' \in [Struct -> Int]
        /\ \A s \in Shards, a \in Address :
             Value'[<<s, a>>] = Value[<<s, a>>] + Gain(lists[s], a)
    BY <1>1, <2>3, Executed
  <2>5. StateRoot' \in [Shards -> Nat]
    BY <2>3, LedgerAssumption DEF LedgerAssumption
  <2> QED BY <2>1, <2>3, <2>4, <2>5 DEF Books, lists
<1> QED BY <1>3, <1>4

\* Every step keeps the books.
LEMMA NextBooks == Flow /\ Books /\ [LedgerNext]_<<vars, ledger>> => Books'
<1> SUFFICES ASSUME Flow, Books, [LedgerNext]_<<vars, ledger>> PROVE Books'
  OBVIOUS
<1>1. CASE UNCHANGED ledger
  BY <1>1 DEF ledger, Books
<1>2. ASSUME NEW vote \in {0, MinVote}, NEW votes \in [Shards -> RootVotes],
             LedgerAppendBlock(vote, votes)
      PROVE  Books'
  BY <1>2, UploadBooks
<1> QED BY <1>1, <1>2 DEF LedgerNext, LedgerHandlers

\* At the start every account has its deposit.
LEMMA InitBooks == LedgerInit => Books
BY LedgerAssumption DEF LedgerAssumption, LedgerInit, Books

\* The inductive invariant of the ledger.
THEOREM BooksInvariant == LedgerSpec => [](Flow /\ Books)
<1>1. LedgerInit => Flow /\ Books
  BY InitFlow, InitBooks DEF LedgerInit
<1>2. Flow /\ Books /\ [LedgerNext]_<<vars, ledger>> => (Flow /\ Books)'
  BY NextFlow, NextBooks, LedgerStepsAreSteps
<1> QED BY <1>1, <1>2, PTL DEF LedgerSpec

\* No account map ever points outside the accounts, and none loses an address.
THEOREM LedgerTypes == LedgerSpec => []LedgerTypeOK
<1>1. Flow /\ Books => LedgerTypeOK
  BY DEF Books, LedgerTypeOK, Accounts, Struct
<1> QED BY <1>1, BooksInvariant, PTL

-----------------------------------------------------------------------------
(***************************************************************************)
(* Value.  A shard's worth is what its two accounts hold and what is on    *)
(* its way to them.                                                        *)
(***************************************************************************)
WorthAt(s) == InTransit(s) + (Value[<<s, "first">>] + Value[<<s, "second">>])

\* The same as a function of the shards.
Worth == [s \in Shards |-> WorthAt(s)]

\* The relay transactions on their way are those recorded that are not on the
\* chain.
LEMMA Transit ==
  Typed => \A s \in Shards :
    /\ InTransit(s) \in Nat
    /\ Len(chain[s]["Relay"]) \in Nat
    /\ Len(Recorded(s, "Relay")) = Len(chain[s]["Relay"]) + InTransit(s)
<1> SUFFICES ASSUME Typed, NEW s \in Shards
             PROVE  /\ InTransit(s) \in Nat
                    /\ Len(chain[s]["Relay"]) \in Nat
                    /\ Len(Recorded(s, "Relay")) = Len(chain[s]["Relay"]) + InTransit(s)
  OBVIOUS
<1> DEFINE a == chain[s]["Relay"]
           b == InBlock(s, "Relay")
           c == pool[1][s].Channel["Relay"]
<1>1. a \in Seq(Txs) /\ b \in Seq(Txs) /\ c \in Seq(Txs)
  BY RecordedTypes DEF Kinds
<1>2. Recorded(s, "Relay") = (a \o b) \o c /\ InTransit(s) = Len(b) + Len(c)
  BY DEF Recorded, InTransit
<1> HIDE DEF a, b, c
<1>3. Len(a) \in Nat /\ Len(b) \in Nat /\ Len(c) \in Nat
  BY <1>1, LenProperties
<1>4. Len((a \o b) \o c) = (Len(a) + Len(b)) + Len(c)
  BY <1>1, ConcatProperties
<1>5. /\ InTransit(s) \in Nat
      /\ Len(Recorded(s, "Relay")) = Len(a) + InTransit(s)
  BY <1>2, <1>3, <1>4
<1> QED BY <1>3, <1>5 DEF a

\* The same after a step.
LEMMA TransitNext ==
  (Typed => \A s \in Shards :
    /\ InTransit(s) \in Nat
    /\ Len(chain[s]["Relay"]) \in Nat
    /\ Len(Recorded(s, "Relay")) = Len(chain[s]["Relay"]) + InTransit(s))'
BY Transit, PTL

\* There are finitely many shards, two accounts in each.
LEMMA ShardsFinite ==
  /\ IsFiniteSet(Shards) /\ Cardinality(Shards) \in Nat
  /\ Cardinality(Struct) = Cardinality(Shards) * 2
<1>1. ShardNum \in Int
  BY TxPipelineAssumption DEF TxPipelineAssumption
<1>2. IsFiniteSet(Shards) /\ Cardinality(Shards) \in Nat
  BY <1>1, FS_Interval, FS_CardinalityType DEF Shards
<1>3. IsFiniteSet(Address) /\ Cardinality(Address) = 2
  <2> DEFINE F == {"first"}
  <2>1. Address = F \cup {"second"} /\ "second" \notin F
    BY DEF Address
  <2>2. IsFiniteSet(F) /\ Cardinality(F) = 1
    BY FS_Singleton
  <2> HIDE DEF F
  <2>3. IsFiniteSet(F \cup {"second"}) /\ Cardinality(F \cup {"second"}) = 1 + 1
    BY <2>1, <2>2, FS_AddElement
  <2> QED BY <2>1, <2>3
<1> QED BY <1>2, <1>3, FS_Product DEF Struct

\* The total is the sum of the shards' worth.
LEMMA TotalIsWorth ==
  Flow /\ Books =>
    /\ Total = SumOver(Worth, Shards)
    /\ \A s \in Shards : Worth[s] = WorthAt(s) /\ WorthAt(s) \in Int
                         /\ Value[<<s, "first">>] \in Int /\ Value[<<s, "second">>] \in Int
<1> SUFFICES ASSUME Flow, Books
             PROVE  /\ Total = SumOver(Worth, Shards)
                    /\ \A s \in Shards :
                         /\ Worth[s] = WorthAt(s) /\ WorthAt(s) \in Int
                         /\ Value[<<s, "first">>] \in Int /\ Value[<<s, "second">>] \in Int
  OBVIOUS
<1>1. ASSUME NEW s \in Shards
      PROVE  /\ Value[<<s, "first">>] \in Int /\ Value[<<s, "second">>] \in Int
             /\ SumOf([a \in Address |-> Balance(s, a)])
                  = Value[<<s, "first">>] + Value[<<s, "second">>]
  <2> DEFINE g == [a \in Address |-> Balance(s, a)]
  <2>1. <<s, "first">> \in Struct /\ <<s, "second">> \in Struct
    BY DEF Struct, Address
  <2>2. Value[<<s, "first">>] \in Int /\ Value[<<s, "second">>] \in Int
    BY <2>1 DEF Books
  <2>3. /\ DOMAIN g = Address
        /\ g["first"] = Value[<<s, "first">>] /\ g["second"] = Value[<<s, "second">>]
    BY DEF Balance, Books, Accounts, Address
  <2> HIDE DEF g
  <2>4. SumOf(g) = g["first"] + g["second"]
    BY <2>2, <2>3, SumOfTwo
  <2> QED BY <2>2, <2>3, <2>4 DEF g
<1>2. [s \in Shards |-> InTransit(s) + SumOf([a \in Address |-> Balance(s, a)])] = Worth
  BY <1>1 DEF Worth, WorthAt
<1>3. Total = SumOver(Worth, Shards)
  <2>1. Total = SumOf(Worth) /\ DOMAIN Worth = Shards
    BY <1>2 DEF Total, Worth
  <2> QED BY <2>1 DEF SumOf, SumOver
<1>4. \A s \in Shards : Worth[s] = WorthAt(s) /\ WorthAt(s) \in Int
  <2> SUFFICES ASSUME NEW s \in Shards PROVE Worth[s] = WorthAt(s) /\ WorthAt(s) \in Int
    OBVIOUS
  <2> DEFINE v == Value[<<s, "first">>]
             w == Value[<<s, "second">>]
  <2>1. InTransit(s) \in Nat /\ v \in Int /\ w \in Int
    BY <1>1, Transit DEF Flow
  <2>2. WorthAt(s) = InTransit(s) + (v + w) /\ Worth[s] = WorthAt(s)
    BY DEF Worth, WorthAt
  <2> HIDE DEF v, w
  <2> QED BY <2>1, <2>2
<1> QED BY <1>1, <1>3, <1>4

\* The same after a step.
LEMMA TotalIsWorthNext ==
  (Flow /\ Books =>
    /\ Total = SumOver(Worth, Shards)
    /\ \A s \in Shards : Worth[s] = WorthAt(s) /\ WorthAt(s) \in Int
                         /\ Value[<<s, "first">>] \in Int /\ Value[<<s, "second">>] \in Int)'
BY TotalIsWorth, PTL

\* Every shard pays one shard and is paid by one.
LEMMA OriginPermutes == Permutes(Origin, Shards)
<1>1. ShardNum \in Nat /\ ShardNum > 1
  BY TxPipelineAssumption DEF TxPipelineAssumption
<1>2. \A s \in Shards : Origin[s] = IF s = 1 THEN ShardNum ELSE s - 1
  BY DEF Origin
<1>3. \A s \in Shards : s \in Int /\ 1 <= s /\ s <= ShardNum
  BY <1>1 DEF Shards
<1>4. \A x, y \in Shards : Origin[x] = Origin[y] => x = y
  BY <1>1, <1>2, <1>3
<1>5. ASSUME NEW y \in Shards PROVE \E x \in Shards : Origin[x] = y
  <2>1. CASE y = ShardNum
    BY <1>1, <1>2, <2>1 DEF Shards
  <2>2. CASE y # ShardNum
    <3>1. y + 1 \in Shards /\ y + 1 # 1 /\ (y + 1) - 1 = y
      BY <1>1, <1>3, <2>2 DEF Shards
    <3> QED BY <1>2, <3>1
  <2> QED BY <2>1, <2>2
<1> QED BY <1>4, <1>5, OriginIsShard DEF Permutes

-----------------------------------------------------------------------------
(***************************************************************************)
(* What the steps do to it.                                                *)
(***************************************************************************)
\* A step of executors or the leader moves relay transactions, if at all, from
\* the channel to the block.
LEMMA HandlersKeepWorth ==
  ASSUME Flow, Books, Handlers, UNCHANGED ledger
  PROVE  Worth' = Worth
<1>1. Typed /\ Typed' /\ "Relay" \in Kinds
  BY NextTyped DEF Flow, Next, Kinds
<1>2. ASSUME NEW s \in Shards
      PROVE  chain' = chain /\ Recorded(s, "Relay")' = Recorded(s, "Relay")
  <2>1. ASSUME NEW r \in Groups, NEW e \in Executor, ExecutorSteps(r, e)
        PROVE  chain' = chain /\ Recorded(s, "Relay")' = Recorded(s, "Relay")
    <3>1. r \in 1 .. Rounds
      BY DEF Groups
    <3>2. exec[r][e].lists[s]["Relay"] = <<>>
      BY <3>1 DEF Flow, NoRelays
    <3>3. Recorded(s, "Relay") \o <<>> = Recorded(s, "Relay")
      BY <1>1, RecordedTypes, ConcatEmptySeq
    <3> QED BY <1>1, <2>1, <3>1, <3>2, <3>3, ExecutorRecords
  <2> QED BY <1>1, <2>1, LeaderRecords DEF Handlers
<1>3. ASSUME NEW s \in Shards PROVE WorthAt(s)' = WorthAt(s)
  <2> DEFINE n == Len(chain[s]["Relay"])
             m == Len(Recorded(s, "Relay"))
             t == InTransit(s)
             u == InTransit(s)'
  <2>1. t \in Nat /\ n \in Nat /\ m = n + t
    BY <1>1, Transit
  <2>2. u \in Nat /\ m = n + u
    BY <1>1, <1>2, TransitNext
  <2>3. t = u
    <3> HIDE DEF n, m, t, u
    <3> QED BY <2>1, <2>2
  <2> QED BY <2>3 DEF WorthAt, ledger
<1> QED BY <1>3 DEF Worth

\* A block that is refused moves no value, and what it puts back only adds to
\* the relay transactions on their way.
LEMMA RefusedWorth ==
  ASSUME Flow, Books, Typed', NEW vote, AppendBlock(vote), height' = height, UNCHANGED ledger
  PROVE  \A s \in Shards : WorthAt(s)' >= WorthAt(s)
<1> SUFFICES ASSUME NEW s \in Shards PROVE WorthAt(s)' >= WorthAt(s)
  OBVIOUS
<1>1. Typed /\ "Relay" \in Kinds /\ height \in Nat
  BY DEF Flow, Typed, Kinds
<1> DEFINE l == leader.lists[s]["Relay"]
<1>2. /\ chain' = chain
      /\ \/ Recorded(s, "Relay")' = Recorded(s, "Relay") \o l
         \/ Recorded(s, "Relay")' = Recorded(s, "Relay")
  <2>1. height' # height + 1
    BY <1>1
  <2>2. \/ height' = height + 1
        \/ /\ chain' = chain
           /\ Recorded(s, "Relay")' =
                IF s \in AllButLast THEN Recorded(s, "Relay") \o l ELSE Recorded(s, "Relay")
    BY <1>1, UploadRecords
  <2> QED BY <2>1, <2>2
<1> DEFINE n == Len(chain[s]["Relay"])
           m == Len(Recorded(s, "Relay"))
           t == InTransit(s)
           u == InTransit(s)'
           v == Value[<<s, "first">>]
           w == Value[<<s, "second">>]
<1>3. t \in Nat /\ n \in Nat /\ m = n + t
  BY <1>1, Transit
<1>4. u \in Nat /\ Len(Recorded(s, "Relay")') = n + u
  BY <1>2, TransitNext
<1>5. Len(Recorded(s, "Relay")') >= m
  <2> DEFINE b == Recorded(s, "Relay")
  <2>1. b \in Seq(Txs) /\ l \in Seq(Txs)
    <3>1. leader.lists \in AllLists
      BY <1>1 DEF Typed
    <3> QED BY <1>1, <3>1, RecordedTypes DEF AllLists
  <2> HIDE DEF b, l
  <2>2. Len(b \o l) = Len(b) + Len(l) /\ Len(b) \in Nat /\ Len(l) \in Nat
    BY <2>1, ConcatProperties, LenProperties
  <2>3. Len(b \o l) >= Len(b) /\ Len(b) >= Len(b)
    BY <2>2
  <2> QED BY <1>2, <2>3 DEF b
<1>6. v \in Int /\ w \in Int
  BY TotalIsWorth
<1>7. WorthAt(s) = t + (v + w) /\ WorthAt(s)' = u + (v + w)
  BY DEF WorthAt, ledger
<1> HIDE DEF n, m, t, u, v, w, l
<1>8. u + (v + w) >= t + (v + w)
  BY <1>3, <1>4, <1>5, <1>6
<1> QED BY <1>7, <1>8

\* A block that is accepted: what a shard pays leaves it, and what it is paid
\* sets out for it; its relay transactions arrive.
LEMMA AcceptedWorth ==
  ASSUME Flow, Books, Flow', Books', NEW vote, AppendBlock(vote), height' = height + 1,
         \A s \in Shards, a \in Address :
           Value'[<<s, a>>] = Value[<<s, a>>] + Gain(leader.lists[s], a)
  PROVE  \A s \in Shards :
           /\ Len(leader.lists[s]["CrossShard"]) \in Nat
           /\ WorthAt(s)' + Len(leader.lists[s]["CrossShard"])
                = WorthAt(s) + Len(leader.lists[Origin[s]]["CrossShard"])
<1> DEFINE lists == leader.lists
<1> SUFFICES ASSUME NEW s \in Shards
             PROVE  /\ Len(lists[s]["CrossShard"]) \in Nat
                    /\ WorthAt(s)' + Len(lists[s]["CrossShard"])
                         = WorthAt(s) + Len(lists[Origin[s]]["CrossShard"])
  OBVIOUS
<1>1. Typed /\ Typed' /\ "Relay" \in Kinds /\ "CrossShard" \in Kinds /\ height \in Nat
        /\ Origin[s] \in Shards
  BY OriginIsShard DEF Flow, Typed, Kinds
<1> DEFINE x == lists[Origin[s]]["CrossShard"]
           y == lists[s]["CrossShard"]
           z == lists[s]["Relay"]
           a == chain[s]["Relay"]
           b == Recorded(s, "Relay")
<1>2. lists[s] \in Lists(s) /\ x \in Seq(Txs) /\ y \in Seq(Txs) /\ z \in Seq(Txs)
        /\ a \in Seq(Txs) /\ b \in Seq(Txs)
  <2>1. lists \in AllLists
    BY <1>1 DEF Typed
  <2> QED BY <1>1, <2>1, RecordedTypes DEF AllLists
<1>3. chain'[s]["Relay"] = a \o z /\ Recorded(s, "Relay")' = b \o x
  <2>1. RelaysOf(lists)[s]["Relay"] = x
    BY <1>1 DEF RelaysOf, Empty
  <2>2. height' # height
    BY <1>1
  <2> HIDE DEF x, z
  <2> QED BY <1>1, <2>1, <2>2, UploadRecords DEF z
<1> DEFINE n == Len(a)
           m == Len(b)
           t == InTransit(s)
           u == InTransit(s)'
           v == Value[<<s, "first">>]
           w == Value[<<s, "second">>]
<1>4. t \in Nat /\ n \in Nat /\ m = n + t
  BY <1>1, Transit
<1>5. u \in Nat /\ Len(Recorded(s, "Relay")') = Len(chain'[s]["Relay"]) + u
  BY <1>1, TransitNext
<1>6. /\ Len(a \o z) = n + Len(z) /\ Len(b \o x) = m + Len(x)
      /\ Len(x) \in Nat /\ Len(y) \in Nat /\ Len(z) \in Nat
  <2> HIDE DEF a, b, x, y, z
  <2> QED BY <1>2, ConcatProperties, LenProperties
<1>7. v \in Int /\ w \in Int
  BY TotalIsWorth
<1> DEFINE i == Gain(lists[s], "first")
           j == Gain(lists[s], "second")
<1>8. i \in Int /\ j \in Int /\ i + j = Len(z) - Len(y)
  BY <1>2, GainsOfShard
<1>9. WorthAt(s) = t + (v + w) /\ WorthAt(s)' = u + ((v + i) + (w + j))
  <2>1. Value'[<<s, "first">>] = v + i /\ Value'[<<s, "second">>] = w + j
    BY DEF Address
  <2> QED BY <2>1 DEF WorthAt
<1> HIDE DEF i, j, n, m, t, u, v, w, a, b, x, y, z, lists
<1>10. (n + t) + Len(x) = (n + Len(z)) + u
  BY <1>3, <1>4, <1>5, <1>6
<1>11. (u + ((v + i) + (w + j))) + Len(y) = (t + (v + w)) + Len(x)
  BY <1>4, <1>5, <1>6, <1>7, <1>8, <1>10
<1> QED BY <1>6, <1>9, <1>11 DEF x, y

\* A step's blocks move value around and make or lose none; only what a refusal
\* puts back is more than there was.
LEMMA UploadTotal ==
  ASSUME Flow, Books, Flow', Books', NEW vote, NEW votes \in [Shards -> RootVotes],
         LedgerAppendBlock(vote, votes)
  PROVE  \/ height' = height + 1 /\ Total' = Total
         \/ height' = height /\ Total' >= Total
<1>1. AppendBlock(vote)
  BY DEF LedgerAppendBlock
<1>2. /\ Total = SumOver(Worth, Shards)
      /\ \A s \in Shards : Worth[s] = WorthAt(s) /\ Worth[s] \in Int
  BY TotalIsWorth
<1>3. /\ Total' = SumOver(Worth', Shards)
      /\ \A s \in Shards : Worth'[s] = WorthAt(s)' /\ Worth'[s] \in Int
  BY TotalIsWorthNext
<1>4. CASE height' = height
  <2>1. UNCHANGED ledger
    BY <1>4 DEF LedgerAppendBlock, Booked
  <2>2. \A s \in Shards : Worth[s] <= Worth'[s]
    <3>1. \A s \in Shards : WorthAt(s)' >= WorthAt(s)
      BY <1>1, <1>4, <2>1, RefusedWorth DEF Flow
    <3> QED BY <1>2, <1>3, <3>1
  <2>3. SumOver(Worth, Shards) <= SumOver(Worth', Shards)
    BY <1>2, <1>3, <2>2, ShardsFinite, SumAtMost
  <2>4. SumOver(Worth, Shards) \in Int /\ SumOver(Worth', Shards) \in Int
    BY <1>2, <1>3, ShardsFinite, SumInt
  <2> QED BY <1>2, <1>3, <1>4, <2>3, <2>4
<1>5. CASE /\ height' = height + 1
           /\ \A s \in Shards, a \in Address :
                Value'[<<s, a>>] = Value[<<s, a>>] + Gain(leader.lists[s], a)
  <2> DEFINE c(s) == Len(leader.lists[s]["CrossShard"])
             out  == [s \in Shards |-> c(s)]
             in   == [s \in Shards |-> c(Origin[s])]
             both == [s \in Shards |-> Worth[s] + in[s]]
  <2>1. \A s \in Shards : c(s) \in Nat /\ WorthAt(s)' + c(s) = WorthAt(s) + c(Origin[s])
    BY <1>1, <1>5, AcceptedWorth
  <2>2. \A s \in Shards : Origin[s] \in Shards
    BY OriginIsShard
  <2> HIDE DEF c
  <2>3. \A s \in Shards : /\ out[s] \in Int /\ in[s] \in Int /\ in[s] = out[Origin[s]]
                          /\ Worth[s] \in Int /\ Worth'[s] \in Int
                          /\ both[s] = Worth[s] + in[s] /\ both[s] = Worth'[s] + out[s]
    BY <1>2, <1>3, <2>1, <2>2
  <2> HIDE DEF out, in, both
  <2>4. SumOver(both, Shards) = SumOver(Worth, Shards) + SumOver(in, Shards)
    BY <2>3, ShardsFinite, SumPlus
  <2>5. SumOver(both, Shards) = SumOver(Worth', Shards) + SumOver(out, Shards)
    BY <2>3, ShardsFinite, SumPlus
  <2>6. SumOver(in, Shards) = SumOver(out, Shards)
    BY <2>3, ShardsFinite, OriginPermutes, SumPermuted
  <2>7. /\ SumOver(out, Shards) \in Int
        /\ SumOver(Worth, Shards) \in Int /\ SumOver(Worth', Shards) \in Int
    BY <2>3, ShardsFinite, SumInt
  <2>8. SumOver(Worth', Shards) = SumOver(Worth, Shards)
    BY <2>4, <2>5, <2>6, <2>7
  <2> QED BY <1>2, <1>3, <1>5, <2>8
<1> QED BY <1>4, <1>5, UploadBooks

-----------------------------------------------------------------------------
\* What it comes to: the property, and that no block is accepted without its
\* round.
Balanced == Flow /\ Books /\ ValueConserved

\* At the start every account holds its deposit and nothing is on its way.
LEMMA InitBalanced == LedgerInit => Balanced
<1> SUFFICES ASSUME LedgerInit PROVE Balanced
  OBVIOUS
<1>1. Flow /\ Books
  BY InitFlow, InitBooks DEF LedgerInit
<1>2. Total = SumOver(Worth, Shards)
  BY <1>1, TotalIsWorth
<1> DEFINE two == Deposit + Deposit
<1>3. ASSUME NEW s \in Shards PROVE Worth[s] = two
  <2>1. InBlock(s, "Relay") = <<>> /\ pool[1][s].Channel["Relay"] = <<>>
    BY DEF LedgerInit, Init, InBlock, MakePool, Empty, Kinds, Stages
  <2>2. InTransit(s) = 0
    BY <2>1 DEF InTransit
  <2>3. Value[<<s, "first">>] = Deposit /\ Value[<<s, "second">>] = Deposit
    BY DEF LedgerInit, Struct, Address
  <2>4. Worth[s] = 0 + (Deposit + Deposit)
    BY <2>2, <2>3 DEF Worth, WorthAt
  <2> QED BY <2>4, LedgerAssumption DEF LedgerAssumption
<1>4. two \in Int /\ Deposit \in Int /\ two = Deposit * 2
  BY LedgerAssumption DEF LedgerAssumption
<1> HIDE DEF two
<1>5. SumOver(Worth, Shards) = two * Cardinality(Shards)
  BY <1>3, <1>4, ShardsFinite, SumConstant
<1> DEFINE n == Cardinality(Shards)
<1>6. (Deposit * 2) * n = Deposit * (n * 2)
  <2>1. n \in Nat
    BY ShardsFinite
  <2> HIDE DEF n
  <2> QED BY <1>4, <2>1
<1>7. Total = Deposit * Cardinality(Struct)
  BY <1>2, <1>4, <1>5, <1>6, ShardsFinite
<1>8. Deposit * Cardinality(Struct) \in Int
  BY <1>2, <1>7, <1>3, <1>4, ShardsFinite, SumInt
<1> QED BY <1>1, <1>7, <1>8 DEF Balanced, ValueConserved

\* Every step keeps it.
LEMMA NextBalanced == Balanced /\ [LedgerNext]_<<vars, ledger>> => Balanced'
<1> SUFFICES ASSUME Balanced, [LedgerNext]_<<vars, ledger>> PROVE Balanced'
  OBVIOUS
<1>1. Flow /\ Books /\ Flow' /\ Books'
  BY NextFlow, NextBooks, LedgerStepsAreSteps DEF Balanced
<1> DEFINE deposits == Deposit * Cardinality(Struct)
<1>2. Total >= deposits /\ (height = round - 1 => Total = deposits)
  BY DEF Balanced, ValueConserved
<1>3. Total \in Int /\ Total' \in Int /\ deposits \in Int
  <2>1. \A s \in Shards : Worth[s] \in Int
    BY <1>1, TotalIsWorth
  <2>2. \A s \in Shards : Worth'[s] \in Int
    BY <1>1, TotalIsWorthNext
  <2>3. Total \in Int /\ Total' \in Int
    BY <1>1, <2>1, <2>2, TotalIsWorth, TotalIsWorthNext, ShardsFinite, SumInt
  <2>4. deposits \in Int
    <3> DEFINE n == Cardinality(Struct)
    <3>1. n \in Int /\ Deposit \in Int
      BY ShardsFinite, LedgerAssumption DEF LedgerAssumption
    <3> HIDE DEF n
    <3>2. Deposit * n \in Int
      BY <3>1
    <3> QED BY <3>2 DEF n
  <2> QED BY <2>3, <2>4
<1>4. height \in Nat /\ height < round /\ round \in Nat
  BY <1>1 DEF Flow, Typed
<1> HIDE DEF deposits
<1>5. SUFFICES Total' >= deposits /\ (height' = round' - 1 => Total' = deposits)
  BY <1>1 DEF Balanced, ValueConserved, deposits
<1>6. CASE Worth' = Worth /\ UNCHANGED <<height, round>>
  <2>1. Total' = Total
    BY <1>1, <1>6, TotalIsWorth, TotalIsWorthNext
  <2> QED BY <1>2, <1>6, <2>1
<1>7. CASE LedgerHandlers
  <2>1. Worth' = Worth
    BY <1>1, <1>7, HandlersKeepWorth DEF LedgerHandlers
  <2>2. UNCHANGED <<height, round>>
    BY <1>7 DEF LedgerHandlers, Handlers, ExecutorSteps, ExecutorPacks, WitnessTx, Witnessed,
                PackValidTx, CollectRoot, LeaderPacks, LeaderReadsHeight
  <2> QED BY <1>6, <2>1, <2>2
<1>8. ASSUME NEW vote \in {0, MinVote}, NEW votes \in [Shards -> RootVotes],
             LedgerAppendBlock(vote, votes)
      PROVE  Total' >= deposits /\ (height' = round' - 1 => Total' = deposits)
  <2>1. round' = round + 1
    BY <1>8 DEF LedgerAppendBlock, AppendBlock
  <2>2. \/ height' = height + 1 /\ Total' = Total
        \/ height' = height /\ Total' >= Total
    BY <1>1, <1>8, UploadTotal
  <2> QED BY <1>2, <1>3, <1>4, <2>1, <2>2
<1>9. CASE UNCHANGED <<vars, ledger>>
  <2>1. Worth' = Worth /\ UNCHANGED <<height, round>>
    BY <1>9 DEF vars, clients, ledger, Worth, WorthAt, InTransit, InBlock
  <2> QED BY <1>6, <2>1
<1> QED BY <1>7, <1>8, <1>9 DEF LedgerNext

\* As long as every block is accepted the balances and the payments on their
\* way are the deposits, and no refusal ever loses any.
THEOREM ValueIsConserved == LedgerSpec => []ValueConserved
<1>1. Balanced => ValueConserved
  BY DEF Balanced
<1> QED BY <1>1, InitBalanced, NextBalanced, PTL DEF LedgerSpec

\* The pipeline's properties hold of the ledger.
THEOREM LedgerLosesNoPayment == LedgerSpec => [](TypeOK /\ ListsAgree /\ RelaysSurvive)
BY LedgerIsPipeline, PipelineTypes, WitnessesAgree, NoPaymentLost, PTL
=============================================================================
