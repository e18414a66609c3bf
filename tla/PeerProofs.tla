----------------------------- MODULE PeerProofs -----------------------------
(***************************************************************************)
(* Lemmas about one server of a pair: what the requests it takes and the   *)
(* messages it reads do to the state it shares with its peer.  A request   *)
(* has the effect on the shared state that its message has on the peer's.  *)
(***************************************************************************)
EXTENDS Peer, FiniteSetTheorems, SequenceTheorems, TLAPS

-----------------------------------------------------------------------------
(***************************************************************************)
(* What two servers that agree agree on, and what a message makes of it.   *)
(* The shared state is a value, so that the states between a server that   *)
(* lags behind and the one that leads can be named.                        *)
(***************************************************************************)
Shared ==
  [round |-> round, NodeNum |-> NodeNum, client |-> client, seat |-> seat,
   Consensus_Map |-> Consensus_Map, Validation_Map |-> Validation_Map,
   Winner |-> Winner, NewRootsVote |-> NewRootsVote, RootsVote |-> RootsVote,
   original |-> pool[0], witnessed |-> pool[1], height |-> height,
   chain |-> chain, WitnessCount |-> WitnessCount, AccountMap |-> AccountMap,
   NewAccountMap |-> NewAccountMap, Value |-> Value, StateRoot |-> StateRoot]

\* a has these fields and no others.
SharedFields ==
  {"round", "NodeNum", "client", "seat", "Consensus_Map", "Validation_Map", "Winner",
   "NewRootsVote", "RootsVote", "original", "witnessed", "height", "chain",
   "WitnessCount", "AccountMap", "NewAccountMap", "Value", "StateRoot"}

IsShared(a) == a = [f \in SharedFields |-> a[f]]

\* Membership's operators for the state a.
RegisteredAt(a, s, r) ==
  {c \in Client : a.seat[c] # "none" /\ a.client[c].shard = s /\ a.client[c].round = r}

EntriesAt(a, s, r) == {c \in RegisteredAt(a, s, r) : a.seat[c] # "committee"}

CommitteeAt(a) == {c \in Client : a.seat[c] = "committee" /\ a.client[c].round = a.round}

OwedAt(a) == {c \in Client : a.seat[c] = "exec" /\ a.client[c].round < a.round}

\* The clients of M with the smallest random number, and one of them.
Smallest(C, M) == {c \in M : \A d \in M : C[c].random <= C[d].random}
Least(C, M)    == CHOOSE c \in Smallest(C, M) : TRUE

-----------------------------------------------------------------------------
\* The state after c has registered with shard s.
NewClient(a, c, s, x) == [a.client EXCEPT ![c] = [shard |-> s, round |-> a.round, random |-> x]]
Group(a, c, s)        == EntriesAt(a, s, a.round) \cup {c}
Fills(a, s)           == Cardinality(EntriesAt(a, s, a.round)) + 1 = CLIENT_MAX
Chosen(a, c, s, x)    == Least(NewClient(a, c, s, x), Group(a, c, s))
Members(a, c, s, x)   == CommitteeAt(a) \cup {Chosen(a, c, s, x)}

Joined(a, c, s, x) ==
  [a EXCEPT
    !.client = NewClient(a, c, s, x),
    !.seat = IF Fills(a, s)
               THEN [a.seat EXCEPT ![c] = "exec", ![Chosen(a, c, s, x)] = "committee"]
               ELSE [a.seat EXCEPT ![c] = "exec"],
    !.Consensus_Map = [a.Consensus_Map EXCEPT ![s] = a.round],
    !.Validation_Map =
       IF Fills(a, s)
         THEN [a.Validation_Map EXCEPT ![s] = IF @ = Nil THEN a.round ELSE @]
         ELSE a.Validation_Map,
    !.Winner =
       IF Fills(a, s) /\ Cardinality(Members(a, c, s, x)) = ShardNum
         THEN Least(NewClient(a, c, s, x), Members(a, c, s, x))
         ELSE a.Winner]

\* The state after c has reported a root.
Counted(a, c, root) == [a.NewRootsVote EXCEPT ![a.client[c].shard][root] = @ + 1]

Empties(a, c) ==
  \A d \in EntriesAt(a, a.client[c].shard, a.client[c].round) : d = c \/ a.seat[d] = "nil"

EndsStage(a, c) ==
  Empties(a, c) /\ \A s \in Shards : s = a.client[c].shard \/ a.Validation_Map[s] = Nil

Reported(a, c, root) ==
  [a EXCEPT
    !.seat = [a.seat EXCEPT ![c] = "nil"],
    !.Validation_Map =
       IF EndsStage(a, c) THEN a.Consensus_Map
       ELSE IF Empties(a, c) THEN [a.Validation_Map EXCEPT ![a.client[c].shard] = Nil]
       ELSE a.Validation_Map,
    !.RootsVote = IF EndsStage(a, c) THEN Counted(a, c, root) ELSE a.RootsVote,
    !.NewRootsVote = IF EndsStage(a, c) THEN [s \in Shards |-> NoVotes] ELSE Counted(a, c, root),
    !.WitnessCount = IF EndsStage(a, c) THEN 0 ELSE a.WitnessCount]

\* Pools after a pack for height h, and after lists were sent to them.
PackedFor(p, h)   == [s \in Shards |-> Books!PackTransactionList(p[s], h, TX_NUM)]
SentTo(p, lists)  == [s \in Shards |-> Books!Appended(p[s], lists[s])]

\* The state after lists were witnessed.
Recorded(a, lists) ==
  IF a.WitnessCount + 1 >= MinVote
    THEN [a EXCEPT !.witnessed = SentTo(a.witnessed, lists), !.WitnessCount = -100000]
    ELSE [a EXCEPT !.WitnessCount = a.WitnessCount + 1]

\* What an accepted block with these lists and votes makes of the chain, of the
\* accounts in force and of the values.
ChainWith(ch, lists) ==
  [s \in Shards |-> [k \in Books!Kinds |-> ch[s][k] \o lists[s][k]]]

MapsWith(old, new, votes_) ==
  [s \in Shards |-> IF votes_[s] >= MinVote THEN new[s] ELSE old[s]]

ValuesWith(value, maps, lists) ==
  [p \in Books!Struct |->
     LET s == p[1]
     IN  value[p] + Books!SumOf([d \in Books!Address |->
           IF maps[s][d] = p THEN Books!Gain(lists[s], d) ELSE 0])]

NoNodes == [s \in Shards |-> 0]
NoSlots == [s \in Shards |-> Nil]

\* The state after the block that b is the work on was accepted.
Chained(a, b) ==
  LET maps == MapsWith(a.AccountMap, a.NewAccountMap, b.votes)
  IN  [a EXCEPT
        !.round = a.round + 1,
        !.NodeNum = NoNodes,
        !.Consensus_Map = NoSlots,
        !.Winner = None,
        !.height = a.height + 1,
        !.chain = ChainWith(a.chain, b.lists),
        !.witnessed = SentTo(a.witnessed, Books!RelaysOf(b.lists)),
        !.AccountMap = maps,
        !.NewAccountMap = maps,
        !.Value = ValuesWith(a.Value, maps, b.lists),
        !.StateRoot = b.votes]

\* The state after message m.
After(m, a) ==
  CASE m.type = "client"  -> Joined(a, m.id, m.shard, m.random)
    [] m.type = "NodeNum" -> [a EXCEPT !.NodeNum = [a.NodeNum EXCEPT ![m.shard] = @ + 1]]
    [] m.type = "pack" /\ m.stage = 0 ->
         [a EXCEPT !.original = PackedFor(a.original, m.height + 1)]
    [] m.type = "pack" /\ m.stage = 1 ->
         [a EXCEPT !.witnessed = PackedFor(a.witnessed, m.height + 1)]
    [] m.type = "upload"  -> Chained(a, m.block)
    [] m.type = "witness" -> Recorded(a, m.lists)
    [] m.type = "root"    -> Reported(a, m.id, m.root)
    [] OTHER -> a

-----------------------------------------------------------------------------
\* A transaction, lists as clients hold them, and a shard's pool.
Tx    == Shards \X Books!Kinds \X Nat
Lists == [Shards -> [Books!Kinds -> Seq(Tx)]]
Pool  == [Height : Int, List : [Books!Kinds -> Seq(Tx)], Channel : [Books!Kinds -> Seq(Tx)]]

\* No relay transaction is among them.
NoRelays(lists) == \A s \in Shards : lists[s]["Relay"] = <<>>
NoRelay(p)      == p.List["Relay"] = <<>> /\ p.Channel["Relay"] = <<>>

\* What the state must be like for a server to send m, and to read it.
Good(m, a) ==
  \/ /\ m.type = "client"
     /\ m.id = (CHOOSE c \in Client : a.seat[c] = "none")
     /\ m.id \in Client /\ a.seat[m.id] = "none"
     /\ m.shard \in Shards
     /\ m.random = RandomOf[m.id]
     /\ \A c \in EntriesAt(a, m.shard, a.round) : a.seat[c] = "exec"
     /\ a.Winner = None
     /\ a.Validation_Map[m.shard] # Nil \/ OwedAt(a) = {}
     /\ Fills(a, m.shard) =>
          LET C == NewClient(a, m.id, m.shard, m.random)
              M == Members(a, m.id, m.shard, m.random)
          IN  /\ Smallest(C, Group(a, m.id, m.shard)) # {}
              /\ Cardinality(M) = ShardNum => Smallest(C, M) # {}
  \/ /\ m.type = "NodeNum"
     /\ m.shard \in Shards
     /\ a.NodeNum[m.shard] # CLIENT_MAX
     /\ \A s \in Shards : s < m.shard => a.NodeNum[s] = CLIENT_MAX
  \/ m.type = "pack" /\ m.stage \in 0 .. 2 /\ m.height \in Int
  \/ m.type = "block" /\ a.Winner # None
  \/ m.type = "vote" /\ m.id \in CommitteeAt(a)
  \/ /\ m.type = "upload"
     /\ a.Winner # None /\ m.id = a.Winner
     /\ OwedAt(a) = {}
     /\ m.block.height = a.height + 1 /\ m.block.vote >= MinVote
     /\ m.block.lists \in Lists
  \/ m.type = "witness" /\ m.lists \in Lists
  \/ /\ m.type = "root"
     /\ m.id \in OwedAt(a)
     /\ a.Validation_Map[a.client[m.id].shard] = a.client[m.id].round
     /\ m.root \in Root

-----------------------------------------------------------------------------
(***************************************************************************)
(* Invariants.                                                             *)
(***************************************************************************)
\* Of the state that is shared: types, and that the random number of whoever
\* has registered is the client's own.
Sound(a) ==
  /\ IsShared(a)
  /\ a.round \in Nat \ {0}
  /\ a.Winner \in Client \cup {None}
  /\ a.client \in [Client -> [shard : 0 .. ShardNum, round : Nat, random : Int]]
  /\ a.seat \in [Client -> Seats]
  /\ \A c \in Client :
       /\ a.client[c].round <= a.round
       /\ IF a.seat[c] = "none" THEN a.client[c].round = 0
          ELSE a.client[c].random = RandomOf[c]
  /\ a.height \in Nat
  /\ a.original \in [Shards -> Pool]
  /\ a.witnessed \in [Shards -> Pool]
  /\ \A s \in Shards : NoRelay(a.original[s])

\* Of the clients that talk to this server: w is what c did and holds.
WorkFields == {"step", "lists", "height", "vote", "votes"}
IsWork(w)  == w = [f \in WorkFields |-> w[f]] /\ w.lists \in Lists

Fits(c, w) ==
  /\ seat[c] = "none" => w.step = "idle"
  /\ w.step \in {"witnessed", "validating"} => seat[c] = "exec"
  /\ w.step = "validating" => client[c].round < round
  /\ w.step = "packing" => seat[c] = "committee"
  /\ w.step = "packed" /\ seat[c] = "exec" => NoRelays(w.lists)
  /\ client[c].round = round /\ Winner = None => w.step \in {"idle", "away"}
  /\ Winner = c /\ w.step \in {"packed", "ready", "proposed", "uploading"}
       => w.height = height + 1
  /\ w.step = "uploading" =>
       /\ Winner = c /\ w.vote >= MinVote
       /\ OwedRoots = {}
       /\ \A s \in Shards : NodeNum[s] = CLIENT_MAX

Working ==
  /\ pool = [stage \in 0 .. 2 |-> pool[stage]]
  /\ work = [c \in Client |-> work[c]]
  /\ \A c \in Client : IsWork(work[c]) /\ Fits(c, work[c])

\* Between the two halves of an upload.
IsUploading == \E c \in Client : work[c].step = "uploading"

\* What the two servers' slots and the rounds in step make sure of whenever this
\* server takes a request.
Steady ==
  IF IsUploading
    THEN \A s \in Shards : assigned[s] = 0
    ELSE /\ NodeNum \in [Shards -> Nat]
         /\ \A c \in OwedRoots : IsValidator(c)
         /\ \A c \in Client : seat[c] = "nil" => client[c].round < round
         /\ Winner # None =>
              Winner \in Committee
              /\ \A s \in Shards : NodeNum[s] = CLIENT_MAX /\ assigned[s] = 0

Serving ==
  /\ Working /\ Sound(Shared) /\ Steady
  /\ assigned \in [Shards -> Nat]
  /\ linked /\ ~lockHeld

\* The clients that registered here.
Mine(c) == seat[c] # "none" /\ work[c].step # "away"

\* The block that is being uploaded, as the peer is told of it, and the shared
\* state with it.
Posted == [type |-> "upload", id |-> Winner, block |-> work[Winner]]
Done   == IF IsUploading THEN After(Posted, Shared) ELSE Shared

-----------------------------------------------------------------------------
(***************************************************************************)
(* What the operators on shared states do to each field.                   *)
(***************************************************************************)
\* The shared state has its fields and no others.
LEMMA SharedIsShared == IsShared(Shared)
BY DEF SharedFields, IsShared, Shared

\* And after a step.
LEMMA SharedNextIsShared == IsShared(Shared')
BY DEF SharedFields, IsShared, Shared

\* Two shared states with equal fields are equal.
LEMMA SameFields ==
  ASSUME NEW a, NEW b, IsShared(a), IsShared(b),
         a.round = b.round, a.NodeNum = b.NodeNum, a.client = b.client, a.seat = b.seat,
         a.Consensus_Map = b.Consensus_Map, a.Validation_Map = b.Validation_Map,
         a.Winner = b.Winner, a.NewRootsVote = b.NewRootsVote, a.RootsVote = b.RootsVote,
         a.original = b.original, a.witnessed = b.witnessed, a.height = b.height,
         a.chain = b.chain, a.WitnessCount = b.WitnessCount, a.AccountMap = b.AccountMap,
         a.NewAccountMap = b.NewAccountMap, a.Value = b.Value, a.StateRoot = b.StateRoot
  PROVE  a = b
BY DEF SharedFields, IsShared

-----------------------------------------------------------------------------
(***************************************************************************)
(* Pools: packing and sending keep them pools, and originals have no       *)
(* relay transactions among them.                                          *)
(***************************************************************************)
\* No more is taken than there is.
LEMMA TakenIn ==
  ASSUME NEW n \in Nat
  PROVE  Books!Taken(n, TX_NUM) \in 0 .. n
BY ServerAssumption DEF ServerAssumption, Books!Taken

\* The front of a sequence and the rest of it.
LEMMA Parts ==
  ASSUME NEW S, NEW q \in Seq(S), NEW n \in 0 .. Len(q)
  PROVE  /\ SubSeq(q, 1, n) \in Seq(S) /\ SubSeq(q, n + 1, Len(q)) \in Seq(S)
         /\ q = <<>> => SubSeq(q, 1, n) = <<>> /\ SubSeq(q, n + 1, Len(q)) = <<>>
OBVIOUS

\* Packing a pool.
LEMMA PackedPool ==
  ASSUME NEW p \in Pool, NEW h \in Int
  PROVE  LET q == Books!PackTransactionList(p, h, TX_NUM)
         IN  q \in Pool /\ (NoRelay(p) => NoRelay(q))
<1> DEFINE q    == Books!PackTransactionList(p, h, TX_NUM)
           t(k) == Books!Taken(Len(p.Channel[k]), TX_NUM)
<1>1. \A k \in Books!Kinds : p.Channel[k] \in Seq(Tx) /\ t(k) \in 0 .. Len(p.Channel[k])
  BY TakenIn DEF Pool
<1>2. CASE h = p.Height
  BY <1>2 DEF Books!PackTransactionList
<1>3. CASE h # p.Height
  <2>1. q = [Height  |-> h,
             List    |-> [k \in Books!Kinds |-> SubSeq(p.Channel[k], 1, t(k))],
             Channel |-> [k \in Books!Kinds |->
                            SubSeq(p.Channel[k], t(k) + 1, Len(p.Channel[k]))]]
    BY <1>3 DEF Books!PackTransactionList
  <2> HIDE DEF q, t
  <2>2. \A k \in Books!Kinds :
          /\ SubSeq(p.Channel[k], 1, t(k)) \in Seq(Tx)
          /\ SubSeq(p.Channel[k], t(k) + 1, Len(p.Channel[k])) \in Seq(Tx)
          /\ p.Channel[k] = <<>> =>
               /\ SubSeq(p.Channel[k], 1, t(k)) = <<>>
               /\ SubSeq(p.Channel[k], t(k) + 1, Len(p.Channel[k])) = <<>>
    BY <1>1, Parts
  <2>3. q.List = [k \in Books!Kinds |-> SubSeq(p.Channel[k], 1, t(k))]
    BY <2>1
  <2>4. q.Channel = [k \in Books!Kinds |-> SubSeq(p.Channel[k], t(k) + 1, Len(p.Channel[k]))]
    BY <2>1
  <2>5. q.List \in [Books!Kinds -> Seq(Tx)] /\ q.Channel \in [Books!Kinds -> Seq(Tx)]
    BY <2>2, <2>3, <2>4
  <2>6. q \in Pool
    BY <2>1, <2>3, <2>4, <2>5 DEF Pool
  <2>7. NoRelay(p) => NoRelay(q)
    BY <2>2, <2>3, <2>4 DEF NoRelay, Books!Kinds
  <2> QED BY <2>6, <2>7 DEF q
<1> QED BY <1>2, <1>3

\* Sending lists to a pool.
LEMMA SentPool ==
  ASSUME NEW p \in Pool, NEW l \in [Books!Kinds -> Seq(Tx)]
  PROVE  /\ Books!Appended(p, l) \in Pool
         /\ Books!Appended(p, l) =
              [p EXCEPT !.Channel = [k \in Books!Kinds |-> p.Channel[k] \o l[k]]]
<1>1. \A k \in Books!Kinds : p.Channel[k] \o l[k] \in Seq(Tx)
  BY DEF Pool
<1>2. [k \in Books!Kinds |-> p.Channel[k] \o l[k]] \in [Books!Kinds -> Seq(Tx)]
  BY <1>1
<1> QED BY <1>2 DEF Books!Appended, Pool

\* Packing the pools of all shards.
LEMMA PackedPools ==
  ASSUME NEW p \in [Shards -> Pool], NEW h \in Int
  PROVE  /\ PackedFor(p, h) \in [Shards -> Pool]
         /\ (\A s \in Shards : NoRelay(p[s])) => \A s \in Shards : NoRelay(PackedFor(p, h)[s])
BY PackedPool DEF PackedFor

\* Sending to the pools of all shards.
LEMMA SentPools ==
  ASSUME NEW p \in [Shards -> Pool], NEW l \in Lists
  PROVE  SentTo(p, l) \in [Shards -> Pool]
BY SentPool DEF SentTo, Lists

\* The relays of a block are all there is in its relay lists.
LEMMA RelayLists ==
  ASSUME NEW l \in Lists
  PROVE  /\ Books!RelaysOf(l) \in Lists
         /\ \A s \in Shards : \A k \in Books!Kinds \ {"Relay"} :
              Books!RelaysOf(l)[s][k] = <<>>
<1>1. \A s \in Shards : Books!Origin[s] \in Shards
  BY MembershipAssumption DEF MembershipAssumption, Books!Origin, Books!Shards, Shards
<1>2. \A s \in Shards :
        LET r == [Books!Empty EXCEPT !["Relay"] = l[Books!Origin[s]]["CrossShard"]]
        IN  /\ r \in [Books!Kinds -> Seq(Tx)]
            /\ \A k \in Books!Kinds \ {"Relay"} : r[k] = <<>>
  <2> TAKE s \in Shards
  <2> DEFINE x == l[Books!Origin[s]]["CrossShard"]
  <2>1. x \in Seq(Tx) /\ <<>> \in Seq(Tx)
    BY <1>1 DEF Lists, Books!Kinds
  <2> HIDE DEF x
  <2>2. [Books!Empty EXCEPT !["Relay"] = x] =
        [k \in Books!Kinds |-> IF k = "Relay" THEN x ELSE <<>>]
    BY DEF Books!Empty, Books!Kinds
  <2> QED BY <2>1, <2>2 DEF x
<1> QED BY <1>2 DEF Books!RelaysOf, Lists, Books!Shards, Shards

\* Relays and lists without any can be sent in either order.
LEMMA SentEitherWay ==
  ASSUME NEW p \in [Shards -> Pool], NEW l \in Lists, NEW w \in Lists, NoRelays(w)
  PROVE  SentTo(SentTo(p, Books!RelaysOf(l)), w) = SentTo(SentTo(p, w), Books!RelaysOf(l))
<1> DEFINE r == Books!RelaysOf(l)
<1>1. r \in Lists /\ \A s \in Shards : \A k \in Books!Kinds \ {"Relay"} : r[s][k] = <<>>
  BY RelayLists
<1> HIDE DEF r
<1>2. ASSUME NEW s \in Shards
      PROVE  Books!Appended(Books!Appended(p[s], r[s]), w[s]) =
             Books!Appended(Books!Appended(p[s], w[s]), r[s])
  <2>1. \A k \in Books!Kinds : (p[s].Channel[k] \o r[s][k]) \o w[s][k] =
                               (p[s].Channel[k] \o w[s][k]) \o r[s][k]
    <3> TAKE k \in Books!Kinds
    <3>1. p[s].Channel[k] \in Seq(Tx) /\ r[s][k] \in Seq(Tx) /\ w[s][k] \in Seq(Tx)
      BY <1>1 DEF Pool, Lists
    <3>2. r[s][k] = <<>> \/ w[s][k] = <<>>
      BY <1>1 DEF NoRelays
    <3>3. \A q \in Seq(Tx) : q \o <<>> = q
      BY ConcatEmptySeq
    <3>4. p[s].Channel[k] \o r[s][k] \in Seq(Tx) /\ p[s].Channel[k] \o w[s][k] \in Seq(Tx)
      BY <3>1
    <3> QED BY <3>1, <3>2, <3>3, <3>4
  <2>2. p[s] \in Pool /\ r[s] \in [Books!Kinds -> Seq(Tx)] /\ w[s] \in [Books!Kinds -> Seq(Tx)]
    BY <1>1 DEF Lists
  <2>3. Books!Appended(p[s], r[s]) \in Pool /\ Books!Appended(p[s], w[s]) \in Pool
    BY <2>2, SentPool
  <2> DEFINE A == Books!Appended(p[s], r[s])
             B == Books!Appended(p[s], w[s])
  <2>4. /\ A = [p[s] EXCEPT !.Channel = [k \in Books!Kinds |-> p[s].Channel[k] \o r[s][k]]]
        /\ B = [p[s] EXCEPT !.Channel = [k \in Books!Kinds |-> p[s].Channel[k] \o w[s][k]]]
    BY <2>2, SentPool
  <2>5. /\ Books!Appended(A, w[s]) =
             [A EXCEPT !.Channel = [k \in Books!Kinds |-> A.Channel[k] \o w[s][k]]]
        /\ Books!Appended(B, r[s]) =
             [B EXCEPT !.Channel = [k \in Books!Kinds |-> B.Channel[k] \o r[s][k]]]
    BY <2>2, <2>3, SentPool
  <2> HIDE DEF A, B
  <2>6. \A k \in Books!Kinds :
          /\ A.Channel[k] = p[s].Channel[k] \o r[s][k]
          /\ B.Channel[k] = p[s].Channel[k] \o w[s][k]
    BY <2>2, <2>4 DEF Pool
  <2>7. [k \in Books!Kinds |-> A.Channel[k] \o w[s][k]] =
        [k \in Books!Kinds |-> B.Channel[k] \o r[s][k]]
    BY <2>1, <2>6
  <2>8. A.Height = B.Height /\ A.List = B.List
    BY <2>2, <2>4 DEF Pool
  <2>9. A \in Pool /\ B \in Pool
    BY <2>3 DEF A, B
  <2>10. \A x \in [Books!Kinds -> Seq(Tx)] :
           [A EXCEPT !.Channel = x] = [B EXCEPT !.Channel = x]
    BY <2>8, <2>9 DEF Pool
  <2>11. [k \in Books!Kinds |-> B.Channel[k] \o r[s][k]] \in [Books!Kinds -> Seq(Tx)]
    <3>1. \A k \in Books!Kinds : B.Channel[k] \in Seq(Tx) /\ r[s][k] \in Seq(Tx)
      BY <2>2, <2>9 DEF Pool
    <3> QED BY <3>1
  <2> QED BY <2>5, <2>7, <2>10, <2>11 DEF A, B
<1>3. /\ SentTo(SentTo(p, r), w) =
           [s \in Shards |-> Books!Appended(Books!Appended(p[s], r[s]), w[s])]
      /\ SentTo(SentTo(p, w), r) =
           [s \in Shards |-> Books!Appended(Books!Appended(p[s], w[s]), r[s])]
  BY DEF SentTo
<1> QED BY <1>2, <1>3 DEF r
-----------------------------------------------------------------------------
(***************************************************************************)
(* A message that a server sends keeps the shared state sound, and nobody  *)
(* who has registered disappears.                                          *)
(***************************************************************************)
Before(a, b) ==
  /\ a.round <= b.round
  /\ \A c \in Client :
       a.seat[c] # "none" => b.seat[c] # "none" /\ b.client[c] = a.client[c]

\* Every state is before itself,
LEMMA BeforeItself ==
  ASSUME NEW a, Sound(a)
  PROVE  Before(a, a)
BY DEF Sound, Before

\* and before what a later one is before.
LEMMA BeforeAll ==
  ASSUME NEW a, NEW b, NEW c, Sound(a), Sound(b), Sound(c), Before(a, b), Before(b, c)
  PROVE  Before(a, c)
BY DEF Sound, Before

\* The one of M with the smallest number.
LEMMA LeastIn ==
  ASSUME NEW C, NEW M, Smallest(C, M) # {}
  PROVE  Least(C, M) \in M /\ \A d \in M : C[Least(C, M)].random <= C[d].random
BY DEF Least, Smallest

\* A registration.
LEMMA JoinedSound ==
  ASSUME NEW a, Sound(a), NEW m, Good(m, a), m.type = "client"
  PROVE  LET b == Joined(a, m.id, m.shard, m.random)
         IN  Sound(b) /\ Before(a, b)
<1> DEFINE c == m.id
           s == m.shard
           C == NewClient(a, c, s, m.random)
           w == Chosen(a, c, s, m.random)
           b == Joined(a, c, s, m.random)
<1>1. /\ c \in Client /\ a.seat[c] = "none"
      /\ s \in Shards
      /\ m.random = RandomOf[c]
      /\ Fills(a, s) =>
           /\ Smallest(C, Group(a, c, s)) # {}
           /\ Cardinality(Members(a, c, s, m.random)) = ShardNum
                => Smallest(C, Members(a, c, s, m.random)) # {}
  BY DEF Good
<1>2. /\ a.round \in Nat \ {0} /\ RandomOf[c] \in Int /\ s \in 0 .. ShardNum
      /\ a.client \in [Client -> [shard : 0 .. ShardNum, round : Nat, random : Int]]
      /\ a.seat \in [Client -> Seats]
  <2>1. RandomOf[c] \in Int
    BY <1>1, PeerAssumption, MembershipAssumption DEF PeerAssumption, MembershipAssumption
  <2>2. s \in 0 .. ShardNum
    BY <1>1, MembershipAssumption DEF MembershipAssumption, Shards
  <2> QED BY <2>1, <2>2 DEF Sound
<1>3. /\ C \in [Client -> [shard : 0 .. ShardNum, round : Nat, random : Int]]
      /\ C[c].round = a.round /\ C[c].random = RandomOf[c]
      /\ \A d \in Client : d # c => C[d] = a.client[d]
  BY <1>1, <1>2 DEF NewClient
<1>4. ASSUME Fills(a, s)
      PROVE  w \in Client /\ (w = c \/ a.seat[w] # "none")
  <2>1. w \in Group(a, c, s)
    BY <1>1, <1>4, LeastIn DEF Chosen
  <2> QED BY <1>1, <2>1 DEF Group, EntriesAt, RegisteredAt
<1>5. /\ IsShared(b)
      /\ b.round = a.round /\ b.client = C
      /\ b.seat = IF Fills(a, s) THEN [a.seat EXCEPT ![c] = "exec", ![w] = "committee"]
                  ELSE [a.seat EXCEPT ![c] = "exec"]
      /\ b.Winner = IF Fills(a, s) /\ Cardinality(Members(a, c, s, m.random)) = ShardNum
                      THEN Least(C, Members(a, c, s, m.random)) ELSE a.Winner
      /\ b.original = a.original /\ b.witnessed = a.witnessed /\ b.height = a.height
  <2>1. IsShared(a)
    BY DEF Sound
  <2> HIDE DEF w, C, c, s
  <2> QED BY <2>1 DEF w, C, IsShared, SharedFields, Joined
<1>6. b.Winner \in Client \cup {None}
  <2>1. CASE Fills(a, s) /\ Cardinality(Members(a, c, s, m.random)) = ShardNum
    <3>1. b.Winner \in Members(a, c, s, m.random)
      BY <1>1, <1>5, <2>1, LeastIn
    <3> QED BY <1>4, <2>1, <3>1 DEF Members, CommitteeAt
  <2>2. CASE ~(Fills(a, s) /\ Cardinality(Members(a, c, s, m.random)) = ShardNum)
    BY <1>5, <2>2 DEF Sound
  <2> QED BY <2>1, <2>2
<1>7. /\ b.seat \in [Client -> Seats]
      /\ b.seat[c] # "none"
      /\ \A d \in Client : d # c /\ a.seat[d] # "none" => b.seat[d] # "none"
      /\ \A d \in Client : d # c /\ a.seat[d] = "none" => b.seat[d] = "none"
  BY <1>1, <1>2, <1>4, <1>5 DEF Seats
<1> HIDE DEF b, C
<1>8. \A d \in Client :
        /\ b.client[d].round <= b.round
        /\ IF b.seat[d] = "none" THEN b.client[d].round = 0
           ELSE b.client[d].random = RandomOf[d]
  BY <1>2, <1>3, <1>5, <1>7 DEF Sound
<1>9. Before(a, b)
  BY <1>1, <1>2, <1>3, <1>5, <1>7 DEF Before
<1>10. /\ a.height \in Nat
       /\ a.original \in [Shards -> Pool] /\ a.witnessed \in [Shards -> Pool]
       /\ \A t \in Shards : NoRelay(a.original[t])
  BY DEF Sound
<1>11. Sound(b)
  BY <1>2, <1>3, <1>5, <1>6, <1>7, <1>8, <1>10 DEF Sound
<1> QED BY <1>9, <1>11 DEF b

\* A block.
LEMMA ChainedSound ==
  ASSUME NEW a, Sound(a), NEW k, k.lists \in Lists
  PROVE  Sound(Chained(a, k)) /\ Before(a, Chained(a, k))
<1> DEFINE b == Chained(a, k)
<1>1. /\ IsShared(b)
      /\ b.round = a.round + 1 /\ b.Winner = None
      /\ b.client = a.client /\ b.seat = a.seat
      /\ b.original = a.original /\ b.height = a.height + 1
      /\ b.witnessed = SentTo(a.witnessed, Books!RelaysOf(k.lists))
  <2>1. IsShared(a)
    BY DEF Sound
  <2> QED BY <2>1 DEF IsShared, SharedFields, Chained
<1> HIDE DEF b
<1>2. b.witnessed \in [Shards -> Pool]
  BY <1>1, RelayLists, SentPools DEF Sound
<1> QED BY <1>1, <1>2 DEF Sound, Before, b

\* A root.
LEMMA ReportedSound ==
  ASSUME NEW a, Sound(a), NEW c \in OwedAt(a), NEW root
  PROVE  Sound(Reported(a, c, root)) /\ Before(a, Reported(a, c, root))
<1> DEFINE b == Reported(a, c, root)
<1>1. /\ IsShared(b)
      /\ b.round = a.round /\ b.Winner = a.Winner
      /\ b.client = a.client /\ b.seat = [a.seat EXCEPT ![c] = "nil"]
      /\ b.original = a.original /\ b.height = a.height /\ b.witnessed = a.witnessed
  <2>1. IsShared(a)
    BY DEF Sound
  <2> QED BY <2>1 DEF IsShared, SharedFields, Reported
<1>2. c \in Client /\ a.seat[c] = "exec" /\ a.seat \in [Client -> Seats]
  BY DEF OwedAt, Sound
<1> HIDE DEF b
<1>3. b.seat \in [Client -> Seats] /\ \A d \in Client : b.seat[d] = "none" <=> a.seat[d] = "none"
  BY <1>1, <1>2 DEF Seats
<1> QED BY <1>1, <1>3 DEF Sound, Before, b
\* What each kind of message does.
LEMMA AfterIs ==
  ASSUME NEW a, NEW m
  PROVE  /\ m.type = "client" => After(m, a) = Joined(a, m.id, m.shard, m.random)
         /\ m.type = "NodeNum" =>
              After(m, a) = [a EXCEPT !.NodeNum = [a.NodeNum EXCEPT ![m.shard] = @ + 1]]
         /\ m.type = "pack" /\ m.stage = 0 =>
              After(m, a) = [a EXCEPT !.original = PackedFor(a.original, m.height + 1)]
         /\ m.type = "pack" /\ m.stage = 1 =>
              After(m, a) = [a EXCEPT !.witnessed = PackedFor(a.witnessed, m.height + 1)]
         /\ m.type = "pack" /\ m.stage = 2 => After(m, a) = a
         /\ m.type \in {"block", "vote"} => After(m, a) = a
         /\ m.type = "upload" => After(m, a) = Chained(a, m.block)
         /\ m.type = "witness" => After(m, a) = Recorded(a, m.lists)
         /\ m.type = "root" => After(m, a) = Reported(a, m.id, m.root)
BY DEF After

\* There are no other messages.
LEMMA MessageTypes ==
  ASSUME NEW a, NEW m, Good(m, a)
  PROVE  \/ m.type \in {"client", "NodeNum", "block", "vote", "upload", "witness", "root"}
         \/ m.type = "pack" /\ m.stage \in {0, 1, 2}
BY DEF Good

\* Setting a field that has to do with pools or counters.
LEMMA FieldSound ==
  ASSUME NEW a, Sound(a), NEW b, IsShared(b),
         b.round = a.round, b.Winner = a.Winner, b.client = a.client, b.seat = a.seat,
         b.height = a.height, b.witnessed \in [Shards -> Pool],
         b.original \in [Shards -> Pool], \A s \in Shards : NoRelay(b.original[s])
  PROVE  Sound(b) /\ Before(a, b)
BY DEF Sound, Before

\* Setting the pools of stage 0,
LEMMA OriginalSet ==
  ASSUME NEW a, IsShared(a), NEW x
  PROVE  LET b == [a EXCEPT !.original = x] IN
         IsShared(b) /\ b.original = x /\ \A f \in SharedFields \ {"original"} : b[f] = a[f]
BY DEF IsShared, SharedFields

\* those of stage 1,
LEMMA WitnessedSet ==
  ASSUME NEW a, IsShared(a), NEW x
  PROVE  LET b == [a EXCEPT !.witnessed = x] IN
         IsShared(b) /\ b.witnessed = x /\ \A f \in SharedFields \ {"witnessed"} : b[f] = a[f]
BY DEF IsShared, SharedFields

\* and the counter of witnesses.
LEMMA CountSet ==
  ASSUME NEW a, IsShared(a), NEW x
  PROVE  LET b == [a EXCEPT !.WitnessCount = x] IN
         IsShared(b) /\ b.WitnessCount = x
         /\ \A f \in SharedFields \ {"WitnessCount"} : b[f] = a[f]
BY DEF IsShared, SharedFields

\* A pack.
LEMMA PackedSound ==
  ASSUME NEW a, Sound(a), NEW h \in Int
  PROVE  /\ Sound([a EXCEPT !.original = PackedFor(a.original, h)])
         /\ Before(a, [a EXCEPT !.original = PackedFor(a.original, h)])
         /\ Sound([a EXCEPT !.witnessed = PackedFor(a.witnessed, h)])
         /\ Before(a, [a EXCEPT !.witnessed = PackedFor(a.witnessed, h)])
<1> DEFINE p == PackedFor(a.original, h)
           q == PackedFor(a.witnessed, h)
           b == [a EXCEPT !.original = p]
           c == [a EXCEPT !.witnessed = q]
<1>1. p \in [Shards -> Pool] /\ q \in [Shards -> Pool] /\ \A s \in Shards : NoRelay(p[s])
  BY PackedPools DEF Sound
<1>2. IsShared(a)
  BY DEF Sound
<1> HIDE DEF p, q
<1>3. IsShared(b) /\ b.original = p /\ \A f \in SharedFields \ {"original"} : b[f] = a[f]
  BY <1>2, OriginalSet
<1>4. IsShared(c) /\ c.witnessed = q /\ \A f \in SharedFields \ {"witnessed"} : c[f] = a[f]
  BY <1>2, WitnessedSet
<1> HIDE DEF b, c
<1>5. Sound(b) /\ Before(a, b)
  <2>1. b.witnessed \in [Shards -> Pool]
    BY <1>3 DEF Sound, SharedFields
  <2> QED BY <1>1, <1>3, <2>1, FieldSound DEF SharedFields
<1>6. Sound(c) /\ Before(a, c)
  <2>1. c.original \in [Shards -> Pool] /\ \A s \in Shards : NoRelay(c.original[s])
    BY <1>4 DEF Sound, SharedFields
  <2> QED BY <1>1, <1>4, <2>1, FieldSound DEF SharedFields
<1> QED BY <1>5, <1>6 DEF b, c, p, q

\* What a witness does to each field.
LEMMA RecordedFields ==
  ASSUME NEW a, IsShared(a), NEW l
  PROVE  LET b == Recorded(a, l) IN
         /\ IsShared(b)
         /\ b.witnessed = IF a.WitnessCount + 1 >= MinVote THEN SentTo(a.witnessed, l)
                          ELSE a.witnessed
         /\ b.WitnessCount = IF a.WitnessCount + 1 >= MinVote THEN -100000
                             ELSE a.WitnessCount + 1
         /\ \A f \in SharedFields \ {"witnessed", "WitnessCount"} : b[f] = a[f]
<1> DEFINE b == Recorded(a, l)
<1>1. CASE a.WitnessCount + 1 >= MinVote
  <2> DEFINE w == SentTo(a.witnessed, l)
             c == [a EXCEPT !.witnessed = w]
  <2>1. b = [c EXCEPT !.WitnessCount = -100000]
    BY <1>1 DEF Recorded
  <2> HIDE DEF w
  <2>2. IsShared(c) /\ c.witnessed = w /\ \A f \in SharedFields \ {"witnessed"} : c[f] = a[f]
    BY WitnessedSet
  <2> HIDE DEF c
  <2>3. /\ IsShared(b) /\ b.WitnessCount = -100000
        /\ \A f \in SharedFields \ {"WitnessCount"} : b[f] = c[f]
    BY <2>1, <2>2, CountSet
  <2>4. b.witnessed = w
    BY <2>2, <2>3 DEF SharedFields
  <2> QED BY <1>1, <2>2, <2>3, <2>4 DEF SharedFields, w
<1>2. CASE ~(a.WitnessCount + 1 >= MinVote)
  <2>1. b = [a EXCEPT !.WitnessCount = a.WitnessCount + 1]
    BY <1>2 DEF Recorded
  <2>2. /\ IsShared(b) /\ b.WitnessCount = a.WitnessCount + 1
        /\ \A f \in SharedFields \ {"WitnessCount"} : b[f] = a[f]
    BY <2>1, CountSet
  <2>3. b.witnessed = a.witnessed
    BY <2>2 DEF SharedFields
  <2> QED BY <1>2, <2>2, <2>3 DEF SharedFields
<1> QED BY <1>1, <1>2

\* A witness.
LEMMA RecordedSound ==
  ASSUME NEW a, Sound(a), NEW l \in Lists
  PROVE  Sound(Recorded(a, l)) /\ Before(a, Recorded(a, l))
<1>1. SentTo(a.witnessed, l) \in [Shards -> Pool] /\ a.witnessed \in [Shards -> Pool]
  BY SentPools DEF Sound
<1> DEFINE b == Recorded(a, l)
<1>2. IsShared(a)
  BY DEF Sound
<1>3. /\ IsShared(b)
      /\ b.witnessed \in {a.witnessed, SentTo(a.witnessed, l)}
      /\ \A f \in SharedFields \ {"witnessed", "WitnessCount"} : b[f] = a[f]
  BY <1>2, RecordedFields
<1> HIDE DEF b
<1>4. b.original \in [Shards -> Pool] /\ \A s \in Shards : NoRelay(b.original[s])
  BY <1>3 DEF Sound, SharedFields
<1>5. b.witnessed \in [Shards -> Pool]
  BY <1>1, <1>3
<1>6. Sound(b) /\ Before(a, b)
  BY <1>3, <1>4, <1>5, FieldSound DEF SharedFields
<1> QED BY <1>6 DEF b

\* A slot.
LEMMA CountedSound ==
  ASSUME NEW a, Sound(a), NEW n
  PROVE  Sound([a EXCEPT !.NodeNum = n]) /\ Before(a, [a EXCEPT !.NodeNum = n])
<1> DEFINE b == [a EXCEPT !.NodeNum = n]
<1>2. /\ IsShared(b)
      /\ b.round = a.round /\ b.Winner = a.Winner /\ b.client = a.client
      /\ b.seat = a.seat /\ b.height = a.height /\ b.original = a.original
      /\ b.witnessed = a.witnessed
  BY DEF Sound, IsShared, SharedFields
<1> HIDE DEF b
<1> QED BY <1>2 DEF Sound, Before, b

\* Any message that may be sent.
LEMMA AfterSound ==
  ASSUME NEW a, Sound(a), NEW m, Good(m, a)
  PROVE  Sound(After(m, a)) /\ Before(a, After(m, a))
<1>1. CASE m.type = "client"
  BY <1>1, JoinedSound, AfterIs
<1>2. CASE m.type = "NodeNum"
  BY <1>2, CountedSound, AfterIs
<1>3. CASE m.type = "pack" /\ m.stage \in {0, 1}
  <2> DEFINE h == m.height + 1
  <2>1. h \in Int
    BY <1>3 DEF Good
  <2>2. \/ After(m, a) = [a EXCEPT !.original = PackedFor(a.original, h)]
        \/ After(m, a) = [a EXCEPT !.witnessed = PackedFor(a.witnessed, h)]
    BY <1>3, AfterIs
  <2> HIDE DEF h
  <2> QED BY <2>1, <2>2, PackedSound
<1>5. CASE (m.type = "pack" /\ m.stage = 2) \/ m.type \in {"block", "vote"}
  <2>1. After(m, a) = a
    BY <1>5, AfterIs
  <2> QED BY <2>1, BeforeItself
<1>6. CASE m.type = "upload"
  <2>1. m.block.lists \in Lists
    BY <1>6 DEF Good
  <2> QED BY <1>6, <2>1, ChainedSound, AfterIs
<1>7. CASE m.type = "witness"
  <2>1. m.lists \in Lists
    BY <1>7 DEF Good
  <2> QED BY <1>7, <2>1, RecordedSound, AfterIs
<1>8. CASE m.type = "root"
  <2>1. m.id \in OwedAt(a)
    BY <1>8 DEF Good
  <2> QED BY <1>8, <2>1, ReportedSound, AfterIs
<1> QED BY <1>1, <1>2, <1>3, <1>5, <1>6, <1>7, <1>8, MessageTypes

-----------------------------------------------------------------------------
(***************************************************************************)
(* Packing, and witnessing, between the two halves of an upload: the peer  *)
(* packs or counts when it has the block already.                          *)
(***************************************************************************)
\* What a block does to each field.
LEMMA ChainedFields ==
  ASSUME NEW a, IsShared(a), NEW b
  PROVE  LET z == Chained(a, b) IN
         /\ IsShared(z)
         /\ z.round = a.round + 1 /\ z.NodeNum = NoNodes
         /\ z.client = a.client /\ z.seat = a.seat
         /\ z.Consensus_Map = NoSlots /\ z.Validation_Map = a.Validation_Map
         /\ z.Winner = None
         /\ z.NewRootsVote = a.NewRootsVote /\ z.RootsVote = a.RootsVote
         /\ z.original = a.original
         /\ z.witnessed = SentTo(a.witnessed, Books!RelaysOf(b.lists))
         /\ z.height = a.height + 1
         /\ z.chain = ChainWith(a.chain, b.lists)
         /\ z.WitnessCount = a.WitnessCount
         /\ z.AccountMap = MapsWith(a.AccountMap, a.NewAccountMap, b.votes)
         /\ z.NewAccountMap = MapsWith(a.AccountMap, a.NewAccountMap, b.votes)
         /\ z.Value = ValuesWith(a.Value, MapsWith(a.AccountMap, a.NewAccountMap, b.votes),
                                 b.lists)
         /\ z.StateRoot = b.votes
BY DEF SharedFields, IsShared, Chained

Aside == {"original", "witnessed", "WitnessCount"}

\* States that agree but for pools and counter do so after a block.
LEMMA ChainedAlike ==
  ASSUME NEW a, NEW c, IsShared(a), IsShared(c), NEW b,
         \A f \in SharedFields \ Aside : c[f] = a[f]
  PROVE  \A f \in SharedFields \ Aside : Chained(c, b)[f] = Chained(a, b)[f]
<1>1. /\ c.round = a.round /\ c.height = a.height /\ c.client = a.client /\ c.seat = a.seat
      /\ c.Validation_Map = a.Validation_Map /\ c.NewRootsVote = a.NewRootsVote
      /\ c.RootsVote = a.RootsVote /\ c.chain = a.chain /\ c.AccountMap = a.AccountMap
      /\ c.NewAccountMap = a.NewAccountMap /\ c.Value = a.Value
  BY DEF SharedFields, Aside
<1> DEFINE u == Chained(c, b)
           v == Chained(a, b)
           M == MapsWith(a.AccountMap, a.NewAccountMap, b.votes)
<1>2. /\ u.round = a.round + 1 /\ u.NodeNum = NoNodes
      /\ u.client = a.client /\ u.seat = a.seat
      /\ u.Consensus_Map = NoSlots /\ u.Validation_Map = a.Validation_Map
      /\ u.Winner = None
      /\ u.NewRootsVote = a.NewRootsVote /\ u.RootsVote = a.RootsVote
      /\ u.height = a.height + 1 /\ u.chain = ChainWith(a.chain, b.lists)
      /\ u.AccountMap = M /\ u.NewAccountMap = M
      /\ u.Value = ValuesWith(a.Value, M, b.lists) /\ u.StateRoot = b.votes
  <2> DEFINE N == MapsWith(c.AccountMap, c.NewAccountMap, b.votes)
  <2>1. N = M
    BY <1>1
  <2>2. /\ u.round = c.round + 1 /\ u.NodeNum = NoNodes
        /\ u.client = c.client /\ u.seat = c.seat
        /\ u.Consensus_Map = NoSlots /\ u.Validation_Map = c.Validation_Map
        /\ u.Winner = None
        /\ u.NewRootsVote = c.NewRootsVote /\ u.RootsVote = c.RootsVote
        /\ u.height = c.height + 1 /\ u.chain = ChainWith(c.chain, b.lists)
        /\ u.AccountMap = N /\ u.NewAccountMap = N
        /\ u.Value = ValuesWith(c.Value, N, b.lists) /\ u.StateRoot = b.votes
    BY ChainedFields
  <2> HIDE DEF u, M, N
  <2> QED BY <1>1, <2>1, <2>2
<1>3. /\ v.round = a.round + 1 /\ v.NodeNum = NoNodes
      /\ v.client = a.client /\ v.seat = a.seat
      /\ v.Consensus_Map = NoSlots /\ v.Validation_Map = a.Validation_Map
      /\ v.Winner = None
      /\ v.NewRootsVote = a.NewRootsVote /\ v.RootsVote = a.RootsVote
      /\ v.height = a.height + 1 /\ v.chain = ChainWith(a.chain, b.lists)
      /\ v.AccountMap = M /\ v.NewAccountMap = M
      /\ v.Value = ValuesWith(a.Value, M, b.lists) /\ v.StateRoot = b.votes
  BY ChainedFields
<1> HIDE DEF u, v, M
<1>4. \A f \in SharedFields \ Aside : u[f] = v[f]
  BY <1>2, <1>3 DEF SharedFields, Aside
<1> QED BY <1>4 DEF u, v

\* A block and a pack of stage 0 may come in either order.
LEMMA PackCommutes ==
  ASSUME NEW a, IsShared(a), NEW b, NEW h
  PROVE  Chained([a EXCEPT !.original = PackedFor(a.original, h)], b) =
         [Chained(a, b) EXCEPT !.original = PackedFor(Chained(a, b).original, h)]
<1> DEFINE p == PackedFor(a.original, h)
           c == [a EXCEPT !.original = p]
           y == Chained(a, b)
           u == Chained(c, b)
           v == [y EXCEPT !.original = p]
<1>1. /\ IsShared(y) /\ y.original = a.original /\ y.WitnessCount = a.WitnessCount
      /\ y.witnessed = SentTo(a.witnessed, Books!RelaysOf(b.lists))
  BY ChainedFields
<1> HIDE DEF p
<1>2. IsShared(c) /\ c.original = p /\ \A f \in SharedFields \ {"original"} : c[f] = a[f]
  BY OriginalSet
<1>3. c.WitnessCount = a.WitnessCount /\ c.witnessed = a.witnessed
  BY <1>2 DEF SharedFields
<1> HIDE DEF c
<1>4. /\ IsShared(u) /\ u.original = p /\ u.WitnessCount = a.WitnessCount
      /\ u.witnessed = SentTo(a.witnessed, Books!RelaysOf(b.lists))
  <2>1. /\ IsShared(u) /\ u.original = c.original /\ u.WitnessCount = c.WitnessCount
        /\ u.witnessed = SentTo(c.witnessed, Books!RelaysOf(b.lists))
    BY <1>2, ChainedFields
  <2> HIDE DEF u
  <2> QED BY <1>2, <1>3, <2>1
<1>5. \A f \in SharedFields \ Aside : u[f] = y[f]
  BY <1>2, ChainedAlike DEF Aside
<1> HIDE DEF y, u
<1>6. IsShared(v) /\ v.original = p /\ \A f \in SharedFields \ {"original"} : v[f] = y[f]
  BY <1>1, OriginalSet
<1>7. \A f \in SharedFields : u[f] = v[f]
  BY <1>1, <1>4, <1>5, <1>6 DEF SharedFields, Aside
<1>8. u = v
  BY <1>4, <1>6, <1>7 DEF IsShared
<1> QED BY <1>1, <1>8 DEF u, v, c, y, p

\* So may a block and a witness of lists without relays.
LEMMA WitnessCommutes ==
  ASSUME NEW a, Sound(a), NEW b, b.lists \in Lists, NEW l \in Lists, NoRelays(l)
  PROVE  Chained(Recorded(a, l), b) = Recorded(Chained(a, b), l)
<1> DEFINE r == Books!RelaysOf(b.lists)
           c == Recorded(a, l)
           y == Chained(a, b)
           u == Chained(c, b)
           v == Recorded(y, l)
<1>1. IsShared(a)
  BY DEF Sound
<1>2. SentTo(SentTo(a.witnessed, r), l) = SentTo(SentTo(a.witnessed, l), r)
  BY SentEitherWay DEF Sound
<1>3. /\ IsShared(y) /\ y.original = a.original /\ y.WitnessCount = a.WitnessCount
      /\ y.witnessed = SentTo(a.witnessed, r)
  BY <1>1, ChainedFields
<1>4. /\ IsShared(c)
      /\ c.witnessed = IF a.WitnessCount + 1 >= MinVote THEN SentTo(a.witnessed, l)
                       ELSE a.witnessed
      /\ c.WitnessCount = IF a.WitnessCount + 1 >= MinVote THEN -100000
                          ELSE a.WitnessCount + 1
      /\ \A f \in SharedFields \ {"witnessed", "WitnessCount"} : c[f] = a[f]
  BY <1>1, RecordedFields
<1>5. c.original = a.original
  BY <1>4 DEF SharedFields
<1> HIDE DEF c
<1>6. /\ IsShared(u) /\ u.original = c.original /\ u.WitnessCount = c.WitnessCount
      /\ u.witnessed = SentTo(c.witnessed, r)
  <2>1. IsShared(c)
    BY <1>4
  <2> QED BY <2>1, ChainedFields
<1>7. \A f \in SharedFields \ Aside : u[f] = y[f]
  BY <1>1, <1>4, ChainedAlike DEF Aside
<1> HIDE DEF y, u, r
<1>8. /\ IsShared(v)
      /\ v.witnessed = IF y.WitnessCount + 1 >= MinVote THEN SentTo(y.witnessed, l)
                       ELSE y.witnessed
      /\ v.WitnessCount = IF y.WitnessCount + 1 >= MinVote THEN -100000
                          ELSE y.WitnessCount + 1
      /\ \A f \in SharedFields \ {"witnessed", "WitnessCount"} : v[f] = y[f]
  BY <1>3, RecordedFields
<1> HIDE DEF v
<1>9. u.witnessed = v.witnessed /\ u.WitnessCount = v.WitnessCount /\ u.original = v.original
  <2>1. v.original = y.original
    BY <1>8 DEF SharedFields
  <2>2. CASE a.WitnessCount + 1 >= MinVote
    BY <1>2, <1>3, <1>4, <1>5, <1>6, <1>8, <2>1, <2>2
  <2>3. CASE ~(a.WitnessCount + 1 >= MinVote)
    BY <1>2, <1>3, <1>4, <1>5, <1>6, <1>8, <2>1, <2>3
  <2> QED BY <2>2, <2>3
<1>10. \A f \in SharedFields : u[f] = v[f]
  BY <1>7, <1>8, <1>9 DEF SharedFields, Aside
<1>11. u = v
  BY <1>6, <1>8, <1>10 DEF IsShared
<1> QED BY <1>11 DEF u, v, c, y
-----------------------------------------------------------------------------
(***************************************************************************)
(* What the handlers do to the shared state.                               *)
(***************************************************************************)
\* The fields of the shared state.
LEMMA SharedField ==
  /\ Shared.round = round /\ Shared.NodeNum = NodeNum /\ Shared.client = client
  /\ Shared.seat = seat /\ Shared.Consensus_Map = Consensus_Map
  /\ Shared.Validation_Map = Validation_Map /\ Shared.Winner = Winner
  /\ Shared.NewRootsVote = NewRootsVote /\ Shared.RootsVote = RootsVote
  /\ Shared.original = pool[0] /\ Shared.witnessed = pool[1]
  /\ Shared.height = height /\ Shared.chain = chain /\ Shared.WitnessCount = WitnessCount
  /\ Shared.AccountMap = AccountMap /\ Shared.NewAccountMap = NewAccountMap
  /\ Shared.Value = Value /\ Shared.StateRoot = StateRoot
BY DEF Shared

\* And after a step.
LEMMA SharedFieldNext ==
  /\ Shared'.round = round' /\ Shared'.NodeNum = NodeNum' /\ Shared'.client = client'
  /\ Shared'.seat = seat' /\ Shared'.Consensus_Map = Consensus_Map'
  /\ Shared'.Validation_Map = Validation_Map' /\ Shared'.Winner = Winner'
  /\ Shared'.NewRootsVote = NewRootsVote' /\ Shared'.RootsVote = RootsVote'
  /\ Shared'.original = pool'[0] /\ Shared'.witnessed = pool'[1]
  /\ Shared'.height = height' /\ Shared'.chain = chain' /\ Shared'.WitnessCount = WitnessCount'
  /\ Shared'.AccountMap = AccountMap' /\ Shared'.NewAccountMap = NewAccountMap'
  /\ Shared'.Value = Value' /\ Shared'.StateRoot = StateRoot'
BY DEF Shared

\* The groups of the shared state are the server's.
LEMMA SharedGroups ==
  /\ \A s, r : RegisteredAt(Shared, s, r) = Registered(s, r) /\ EntriesAt(Shared, s, r) = Entries(s, r)
  /\ CommitteeAt(Shared) = Committee
  /\ OwedAt(Shared) = OwedRoots
BY SharedField DEF RegisteredAt, EntriesAt, CommitteeAt, OwedAt, Registered, Entries,
   Committee, OwedRoots

\* Where the search for the smallest number ends when no two are equal.
LEMMA TheLeast ==
  ASSUME NEW C, NEW first, NEW M, NEW w \in SmallestRandom(C, first, M),
         \A c \in M : C[c].random \in Int,
         \A c, d \in M : C[c].random = C[d].random => c = d
  PROVE  w = Least(C, M) /\ Smallest(C, M) # {}
<1>1. SmallestRandom(C, first, M) = IF first \in Smallest(C, M) THEN {first} ELSE Smallest(C, M)
  BY DEF SmallestRandom, Smallest
<1>2. w \in Smallest(C, M)
  BY <1>1
<1>3. \A v \in Smallest(C, M) : v = w
  BY <1>2 DEF Smallest
<1> QED BY <1>2, <1>3 DEF Least

\* Clients have numbers of their own.
LEMMA RandomsDiffer ==
  ASSUME NEW c \in Client, NEW d \in Client, RandomOf[c] = RandomOf[d]
  PROVE  c = d
BY PeerAssumption DEF PeerAssumption, IsInjective

\* Those numbers are integers.
LEMMA RandomIsInt == \A c \in Client : RandomOf[c] \in Int
BY PeerAssumption, MembershipAssumption DEF PeerAssumption, MembershipAssumption

\* Whoever sits in a round has its own number, and the newcomer has too.
LEMMA NumbersDiffer ==
  ASSUME Sound(Shared), NEW c \in Client, NEW s, NEW M,
         \A d \in M : d \in Client /\ (d = c \/ seat[d] # "none")
  PROVE  LET C == NewClient(Shared, c, s, RandomOf[c]) IN
         /\ \A d \in M : C[d].random \in Int
         /\ \A d, e \in M : C[d].random = C[e].random => d = e
<1> DEFINE C == NewClient(Shared, c, s, RandomOf[c])
<1>1. DOMAIN client = Client
  BY SharedField DEF Sound
<1>2. C[c].random = RandomOf[c] /\ \A d \in Client : d # c => C[d] = client[d]
  BY <1>1, SharedField DEF NewClient
<1>3. \A d \in Client : seat[d] # "none" => client[d].random = RandomOf[d]
  BY SharedField DEF Sound
<1>4. \A d \in M : d \in Client /\ C[d].random = RandomOf[d]
  BY <1>2, <1>3
<1> HIDE DEF C
<1>5. /\ \A d \in M : C[d].random \in Int
      /\ \A d, e \in M : C[d].random = C[e].random => d = e
  BY <1>4, RandomsDiffer, RandomIsInt
<1> QED BY <1>5 DEF C
\* A registration does to the shared state what its message does.
LEMMA JoinEffect ==
  ASSUME Sound(Shared), NEW c \in Client, seat[c] = "none", NEW s \in Shards,
         \A d \in Entries(s, round) : seat[d] = "exec",
         Join(c, s, RandomOf[c]), UNCHANGED <<books, money>>
  PROVE  /\ Shared' = Joined(Shared, c, s, RandomOf[c])
         /\ Fills(Shared, s) =>
              /\ Smallest(client', Group(Shared, c, s)) # {}
              /\ Cardinality(Members(Shared, c, s, RandomOf[c])) = ShardNum
                   => Smallest(client', Members(Shared, c, s, RandomOf[c])) # {}
         /\ client' = NewClient(Shared, c, s, RandomOf[c])
<1> DEFINE C == NewClient(Shared, c, s, RandomOf[c])
           E == Entries(s, round)
           G == Group(Shared, c, s)
           w == Chosen(Shared, c, s, RandomOf[c])
           M == Members(Shared, c, s, RandomOf[c])
<1>1. client' = C /\ Consensus_Map' = [Consensus_Map EXCEPT ![s] = round]
  BY SharedField DEF Join, NewClient
<1>2. G = E \cup {c} /\ M = Committee \cup {w} /\ w = Least(C, G)
  BY SharedField, SharedGroups DEF Group, Members, Chosen
<1>3. ShardFills(s) <=> Fills(Shared, s)
  BY SharedField, SharedGroups DEF ShardFills, Fills
<1>4. /\ UNCHANGED <<round, NodeNum, NewRootsVote, RootsVote, lockHeld>>
      /\ UNCHANGED <<pool, height, chain, WitnessCount>>
      /\ UNCHANGED <<AccountMap, NewAccountMap, Value, StateRoot>>
  BY DEF Join, votes, books, money
<1>5. \A d \in G : d \in Client /\ (d = c \/ seat[d] # "none")
  BY <1>2 DEF Entries, Registered
<1> HIDE DEF C, E, G, w, M
<1>6. CASE ~Fills(Shared, s)
  <2>1. seat' = [seat EXCEPT ![c] = "exec"] /\ UNCHANGED <<Validation_Map, Winner>>
    BY <1>3, <1>6 DEF Join
  <2>2. Shared' = Joined(Shared, c, s, RandomOf[c])
    <3> DEFINE a == Shared
               b == Joined(Shared, c, s, RandomOf[c])
    <3>1. /\ IsShared(b)
          /\ b.round = a.round /\ b.NodeNum = a.NodeNum
          /\ b.client = C
          /\ b.seat = [a.seat EXCEPT ![c] = "exec"]
          /\ b.Consensus_Map = [a.Consensus_Map EXCEPT ![s] = a.round]
          /\ b.Validation_Map = a.Validation_Map
          /\ b.Winner = a.Winner
          /\ b.NewRootsVote = a.NewRootsVote /\ b.RootsVote = a.RootsVote
          /\ b.original = a.original /\ b.witnessed = a.witnessed
          /\ b.height = a.height /\ b.chain = a.chain /\ b.WitnessCount = a.WitnessCount
          /\ b.AccountMap = a.AccountMap /\ b.NewAccountMap = a.NewAccountMap
          /\ b.Value = a.Value /\ b.StateRoot = a.StateRoot
      BY <1>6, SharedIsShared DEF C, IsShared, SharedFields, Joined
    <3> HIDE DEF b
    <3>2. IsShared(Shared')
      BY SharedNextIsShared
    <3>3. \A f \in SharedFields : Shared'[f] = b[f]
      BY <1>1, <1>4, <2>1, <3>1, SharedField, SharedFieldNext DEF SharedFields
    <3> QED BY <3>1, <3>2, <3>3 DEF IsShared, b
  <2> QED BY <1>1, <1>6, <2>2 DEF C
<1>7. CASE Fills(Shared, s)
  <2>1. PICK v \in SmallestRandom(C, c, G) :
          /\ seat' = [seat EXCEPT ![c] = "exec", ![v] = "committee"]
          /\ Elect(s, v, C)
    BY <1>1, <1>2, <1>3, <1>7 DEF Join, E
  <2>2. v = Least(C, G) /\ Smallest(C, G) # {}
    BY <1>5, <2>1, TheLeast, NumbersDiffer DEF C
  <2>3. v = w
    BY <1>2, <2>2
  <2>4. w \in G
    BY <1>2, <2>2, LeastIn
  <2>5. Validation_Map' = [Validation_Map EXCEPT ![s] = IF @ = Nil THEN round ELSE @]
    BY <2>1 DEF Elect
  <2>6. \A d \in M : d \in Client /\ (d = c \/ seat[d] # "none")
    BY <1>2, <1>5, <2>4 DEF Committee
  <2>7. /\ Cardinality(M) = ShardNum => Winner' = Least(C, M) /\ Smallest(C, M) # {}
        /\ Cardinality(M) # ShardNum => Winner' = Winner
    <3>1. CASE Cardinality(M) = ShardNum
      <4>1. Winner' \in SmallestRandom(C, w, M)
        BY <1>2, <2>1, <2>3, <3>1 DEF Elect
      <4>2. Winner' = Least(C, M) /\ Smallest(C, M) # {}
        <5>1. /\ \A d \in M : C[d].random \in Int
              /\ \A d, e \in M : C[d].random = C[e].random => d = e
          BY <2>6, NumbersDiffer DEF C
        <5> QED BY <4>1, <5>1, TheLeast
      <4> QED BY <3>1, <4>2
    <3>2. CASE Cardinality(M) # ShardNum
      BY <1>2, <2>1, <2>3, <3>2 DEF Elect
    <3> QED BY <3>1, <3>2
  <2>8. Shared' = Joined(Shared, c, s, RandomOf[c])
    <3> DEFINE a == Shared
               b == Joined(Shared, c, s, RandomOf[c])
    <3>1. /\ IsShared(b)
          /\ b.round = a.round /\ b.NodeNum = a.NodeNum
          /\ b.client = C
          /\ b.seat = [a.seat EXCEPT ![c] = "exec", ![w] = "committee"]
          /\ b.Consensus_Map = [a.Consensus_Map EXCEPT ![s] = a.round]
          /\ b.Validation_Map = [a.Validation_Map EXCEPT ![s] = IF @ = Nil THEN a.round ELSE @]
          /\ b.Winner = IF Cardinality(M) = ShardNum THEN Least(C, M) ELSE a.Winner
          /\ b.NewRootsVote = a.NewRootsVote /\ b.RootsVote = a.RootsVote
          /\ b.original = a.original /\ b.witnessed = a.witnessed
          /\ b.height = a.height /\ b.chain = a.chain /\ b.WitnessCount = a.WitnessCount
          /\ b.AccountMap = a.AccountMap /\ b.NewAccountMap = a.NewAccountMap
          /\ b.Value = a.Value /\ b.StateRoot = a.StateRoot
      BY <1>7, SharedIsShared DEF C, w, M, IsShared, SharedFields, Joined
    <3> HIDE DEF b
    <3>2. IsShared(Shared')
      BY SharedNextIsShared
    <3>3. Shared'.Winner = b.Winner
      BY <2>7, <3>1, SharedField, SharedFieldNext
    <3>4. Shared'.seat = b.seat /\ Shared'.Validation_Map = b.Validation_Map
      BY <2>1, <2>3, <2>5, <3>1, SharedField, SharedFieldNext
    <3>5. \A f \in SharedFields : Shared'[f] = b[f]
      BY <1>1, <1>4, <3>1, <3>3, <3>4, SharedField, SharedFieldNext DEF SharedFields
    <3> QED BY <3>1, <3>2, <3>5 DEF IsShared, b
  <2> QED BY <1>1, <2>2, <2>7, <2>8 DEF C, G, M
<1> QED BY <1>6, <1>7
\* A step that changes none of it.
LEMMA NothingShared ==
  ASSUME UNCHANGED <<round, NodeNum, client, seat, Consensus_Map, Validation_Map, Winner,
                     NewRootsVote, RootsVote, height, chain, WitnessCount, money>>,
         pool'[0] = pool[0], pool'[1] = pool[1]
  PROVE  Shared' = Shared
BY DEF Shared, money

\* Equal field by field.
LEMMA SharedNextIs ==
  ASSUME NEW b, IsShared(b), \A f \in SharedFields : Shared'[f] = b[f]
  PROVE  Shared' = b
BY SharedNextIsShared DEF IsShared

PoolShape == pool = [stage \in 0 .. 2 |-> pool[stage]]

\* Packing a stage touches its pools only.
LEMMA PackPools ==
  ASSUME PoolShape, NEW stage \in 0 .. 2, NEW S, NEW h, pool' = Books!Packed(stage, S, h)
  PROVE  /\ PoolShape'
         /\ \A t \in 0 .. 2 : t # stage => pool'[t] = pool[t]
         /\ S = Shards => pool'[stage] = PackedFor(pool[stage], h)
<1>1. pool' = [pool EXCEPT ![stage] = [s \in Shards |->
        IF s \in S THEN Books!PackTransactionList(pool[stage][s], h, TX_NUM)
        ELSE pool[stage][s]]]
  BY DEF Books!Packed, Books!Shards, Shards
<1>2. S = Shards => pool'[stage] = PackedFor(pool[stage], h)
  <2>1. ASSUME S = Shards
        PROVE  pool'[stage] = [s \in Shards |-> Books!PackTransactionList(pool[stage][s], h, TX_NUM)]
    <3>1. pool'[stage] = [s \in Shards |->
            IF s \in Shards THEN Books!PackTransactionList(pool[stage][s], h, TX_NUM)
            ELSE pool[stage][s]]
      BY <1>1, <2>1 DEF PoolShape
    <3>2. \A s \in Shards : (IF s \in Shards
            THEN Books!PackTransactionList(pool[stage][s], h, TX_NUM) ELSE pool[stage][s])
            = Books!PackTransactionList(pool[stage][s], h, TX_NUM)
      OBVIOUS
    <3> QED BY <3>1, <3>2
  <2> QED BY <2>1 DEF PackedFor
<1>3. PoolShape' /\ \A t \in 0 .. 2 : t # stage => pool'[t] = pool[t]
  BY <1>1 DEF PoolShape
<1> QED BY <1>2, <1>3

\* Sending lists to a stage likewise.
LEMMA SendPools ==
  ASSUME NEW P, P = [t \in 0 .. 2 |-> P[t]], NEW stage \in 0 .. 2, NEW S, NEW lists
  PROVE  LET Q == Books!Sent(P, stage, S, lists) IN
         /\ Q = [t \in 0 .. 2 |-> Q[t]]
         /\ \A t \in 0 .. 2 : t # stage => Q[t] = P[t]
         /\ S = Shards => Q[stage] = SentTo(P[stage], lists)
<1> DEFINE Q == Books!Sent(P, stage, S, lists)
<1>1. Q = [P EXCEPT ![stage] = [s \in Shards |->
        IF s \in S THEN Books!Appended(P[stage][s], lists[s]) ELSE P[stage][s]]]
  BY DEF Books!Sent, Books!Shards, Shards
<1> HIDE DEF Q
<1>2. S = Shards => Q[stage] = SentTo(P[stage], lists)
  <2>1. ASSUME S = Shards
        PROVE  Q[stage] = [s \in Shards |-> Books!Appended(P[stage][s], lists[s])]
    <3>1. Q[stage] = [s \in Shards |->
            IF s \in Shards THEN Books!Appended(P[stage][s], lists[s]) ELSE P[stage][s]]
      BY <1>1, <2>1
    <3>2. \A s \in Shards :
            (IF s \in Shards THEN Books!Appended(P[stage][s], lists[s]) ELSE P[stage][s])
            = Books!Appended(P[stage][s], lists[s])
      OBVIOUS
    <3> QED BY <3>1, <3>2
  <2> QED BY <2>1 DEF SentTo
<1>3. Q = [t \in 0 .. 2 |-> Q[t]] /\ \A t \in 0 .. 2 : t # stage => Q[t] = P[t]
  BY <1>1
<1> QED BY <1>2, <1>3 DEF Q

\* A pack of stage 0 or 1.
LEMMA PackEffect ==
  ASSUME PoolShape, NEW stage \in {0, 1}, NEW h, pool' = Books!Packed(stage, Shards, h),
         UNCHANGED <<round, NodeNum, client, seat, Consensus_Map, Validation_Map, Winner,
                     NewRootsVote, RootsVote, height, chain, WitnessCount, money>>
  PROVE  /\ PoolShape'
         /\ stage = 0 => Shared' = [Shared EXCEPT !.original = PackedFor(Shared.original, h)]
         /\ stage = 1 => Shared' = [Shared EXCEPT !.witnessed = PackedFor(Shared.witnessed, h)]
<1>1. /\ PoolShape'
      /\ \A t \in 0 .. 2 : t # stage => pool'[t] = pool[t]
      /\ pool'[stage] = PackedFor(pool[stage], h)
  BY PackPools
<1>2. UNCHANGED <<AccountMap, NewAccountMap, Value, StateRoot>>
  BY DEF money
<1>3. ASSUME stage = 0
      PROVE  Shared' = [Shared EXCEPT !.original = PackedFor(Shared.original, h)]
  <2> DEFINE p == PackedFor(Shared.original, h)
             b == [Shared EXCEPT !.original = p]
  <2>1. p = pool'[0] /\ pool'[1] = pool[1]
    BY <1>1, <1>3, SharedField
  <2> HIDE DEF p
  <2>2. IsShared(b) /\ b.original = p /\ \A f \in SharedFields \ {"original"} : b[f] = Shared[f]
    BY OriginalSet, SharedIsShared
  <2> HIDE DEF b
  <2>3. \A f \in SharedFields : Shared'[f] = b[f]
    BY <1>2, <2>1, <2>2, SharedField, SharedFieldNext DEF SharedFields
  <2>4. Shared' = b
    BY <2>2, <2>3, SharedNextIs
  <2> QED BY <2>4 DEF b, p
<1>4. ASSUME stage = 1
      PROVE  Shared' = [Shared EXCEPT !.witnessed = PackedFor(Shared.witnessed, h)]
  <2> DEFINE p == PackedFor(Shared.witnessed, h)
             b == [Shared EXCEPT !.witnessed = p]
  <2>1. p = pool'[1] /\ pool'[0] = pool[0]
    BY <1>1, <1>4, SharedField
  <2> HIDE DEF p
  <2>2. IsShared(b) /\ b.witnessed = p /\ \A f \in SharedFields \ {"witnessed"} : b[f] = Shared[f]
    BY WitnessedSet, SharedIsShared
  <2> HIDE DEF b
  <2>3. \A f \in SharedFields : Shared'[f] = b[f]
    BY <1>2, <2>1, <2>2, SharedField, SharedFieldNext DEF SharedFields
  <2>4. Shared' = b
    BY <2>2, <2>3, SharedNextIs
  <2> QED BY <2>4 DEF b, p
<1> QED BY <1>1, <1>3, <1>4

\* A pack of stage 2 is not seen.
LEMMA ValidPackEffect ==
  ASSUME PoolShape, NEW S, NEW h, pool' = Books!Packed(2, S, h),
         UNCHANGED <<round, NodeNum, client, seat, Consensus_Map, Validation_Map, Winner,
                     NewRootsVote, RootsVote, height, chain, WitnessCount, money>>
  PROVE  PoolShape' /\ Shared' = Shared
<1>1. PoolShape' /\ pool'[0] = pool[0] /\ pool'[1] = pool[1]
  BY PackPools
<1> QED BY <1>1, NothingShared

\* A witness.
LEMMA WitnessEffect ==
  ASSUME PoolShape, NEW lists, Books!Witnessed(lists),
         UNCHANGED <<round, NodeNum, client, seat, Consensus_Map, Validation_Map, Winner,
                     NewRootsVote, RootsVote, height, chain, money>>
  PROVE  PoolShape' /\ Shared' = Recorded(Shared, lists)
<1>1. UNCHANGED <<AccountMap, NewAccountMap, Value, StateRoot>>
  BY DEF money
<1>2. /\ WitnessCount' = IF WitnessCount + 1 >= MinVote THEN -100000 ELSE WitnessCount + 1
      /\ pool' = IF WitnessCount + 1 >= MinVote THEN Books!Sent(pool, 1, Shards, lists) ELSE pool
  BY DEF Books!Witnessed, Books!Shards, Shards
<1>3. /\ PoolShape' /\ pool'[0] = pool[0]
      /\ pool'[1] = IF WitnessCount + 1 >= MinVote THEN SentTo(pool[1], lists) ELSE pool[1]
  <2>1. CASE WitnessCount + 1 >= MinVote
    BY <1>2, <2>1, SendPools DEF PoolShape
  <2>2. CASE ~(WitnessCount + 1 >= MinVote)
    BY <1>2, <2>2 DEF PoolShape
  <2> QED BY <2>1, <2>2
<1> DEFINE b == Recorded(Shared, lists)
<1>4. /\ IsShared(b)
      /\ b.witnessed = IF Shared.WitnessCount + 1 >= MinVote THEN SentTo(Shared.witnessed, lists)
                       ELSE Shared.witnessed
      /\ b.WitnessCount = IF Shared.WitnessCount + 1 >= MinVote THEN -100000
                          ELSE Shared.WitnessCount + 1
      /\ \A f \in SharedFields \ {"witnessed", "WitnessCount"} : b[f] = Shared[f]
  BY SharedIsShared, RecordedFields
<1> HIDE DEF b
<1>5. Shared'.witnessed = b.witnessed /\ Shared'.WitnessCount = b.WitnessCount
  BY <1>2, <1>3, <1>4, SharedField, SharedFieldNext
<1>6. \A f \in SharedFields : Shared'[f] = b[f]
  BY <1>1, <1>3, <1>4, <1>5, SharedField, SharedFieldNext DEF SharedFields
<1>7. Shared' = b
  BY <1>4, <1>6, SharedNextIs
<1> QED BY <1>3, <1>7 DEF b
\* A block that is accepted.
LEMMA BlockEffect ==
  ASSUME PoolShape, Sound(Shared), NEW w, TakesBlock(w),
         w.height = height + 1, w.vote >= MinVote
  PROVE  /\ PoolShape' /\ Shared' = Chained(Shared, w)
         /\ UNCHANGED <<assigned, client, seat, lockHeld>>
         /\ round' = round + 1 /\ Winner' = None
<1> DEFINE r == Books!RelaysOf(w.lists)
           P == Books!Sent(pool, 2, Books!AllButLast, w.lists)
           M == MapsWith(AccountMap, NewAccountMap, w.votes)
<1>1. /\ round' = round + 1 /\ NodeNum' = NoNodes /\ Consensus_Map' = NoSlots /\ Winner' = None
      /\ UNCHANGED <<assigned, client, seat, Validation_Map, NewRootsVote, RootsVote, lockHeld>>
      /\ UNCHANGED WitnessCount
  BY DEF TakesBlock, AppendBlock, votes, NoNodes, NoSlots
<1>2. Books!Accept(w.lists)
  BY DEF TakesBlock, Books!Block
<1>3. /\ height' = height + 1
      /\ chain' = ChainWith(chain, w.lists)
      /\ pool' = Books!Sent(P, 1, Shards, r)
  BY <1>2 DEF Books!Accept, Books!Shards, Shards, ChainWith
<1>4. P = [t \in 0 .. 2 |-> P[t]] /\ P[0] = pool[0] /\ P[1] = pool[1]
  BY SendPools DEF PoolShape
<1>5. PoolShape' /\ pool'[0] = pool[0] /\ pool'[1] = SentTo(pool[1], r)
  <2> HIDE DEF P, r
  <2>1. LET Q == Books!Sent(P, 1, Shards, r) IN
         /\ Q = [t \in 0 .. 2 |-> Q[t]]
         /\ \A t \in 0 .. 2 : t # 1 => Q[t] = P[t]
         /\ Q[1] = SentTo(P[1], r)
    BY <1>4, SendPools
  <2> QED BY <1>3, <1>4, <2>1 DEF PoolShape
<1>6. height' # height
  BY <1>3, SharedField DEF Sound
<1>7. Books!UpdateChainWithBlock(w.votes, w.lists)
  BY <1>6 DEF TakesBlock, Books!Booked
<1>8. /\ AccountMap' = M /\ NewAccountMap' = M
      /\ Value' = ValuesWith(Value, M, w.lists) /\ StateRoot' = w.votes
  <2>1. AccountMap' = M /\ StateRoot' = w.votes
    BY <1>7 DEF Books!UpdateChainWithBlock, Books!Verified, Books!Shards, Shards, MapsWith
  <2>2. Books!UpdateChain(M, w.lists)
    BY <1>7, <2>1 DEF Books!UpdateChainWithBlock
  <2> HIDE DEF M
  <2> QED BY <2>1, <2>2 DEF Books!UpdateChain, ValuesWith
<1> HIDE DEF P, M, r
<1> DEFINE b == Chained(Shared, w)
<1>9. /\ IsShared(b)
      /\ b.round = round + 1 /\ b.NodeNum = NoNodes
      /\ b.client = client /\ b.seat = seat
      /\ b.Consensus_Map = NoSlots /\ b.Validation_Map = Validation_Map
      /\ b.Winner = None
      /\ b.NewRootsVote = NewRootsVote /\ b.RootsVote = RootsVote
      /\ b.original = pool[0]
      /\ b.witnessed = SentTo(pool[1], r)
      /\ b.height = height + 1
      /\ b.chain = ChainWith(chain, w.lists)
      /\ b.WitnessCount = WitnessCount
      /\ b.AccountMap = M /\ b.NewAccountMap = M
      /\ b.Value = ValuesWith(Value, M, w.lists)
      /\ b.StateRoot = w.votes
  <2>1. LET z == Chained(Shared, w) IN
         /\ IsShared(z)
         /\ z.round = Shared.round + 1 /\ z.NodeNum = NoNodes
         /\ z.client = Shared.client /\ z.seat = Shared.seat
         /\ z.Consensus_Map = NoSlots /\ z.Validation_Map = Shared.Validation_Map
         /\ z.Winner = None
         /\ z.NewRootsVote = Shared.NewRootsVote /\ z.RootsVote = Shared.RootsVote
         /\ z.original = Shared.original
         /\ z.witnessed = SentTo(Shared.witnessed, Books!RelaysOf(w.lists))
         /\ z.height = Shared.height + 1
         /\ z.chain = ChainWith(Shared.chain, w.lists)
         /\ z.WitnessCount = Shared.WitnessCount
         /\ z.AccountMap = MapsWith(Shared.AccountMap, Shared.NewAccountMap, w.votes)
         /\ z.NewAccountMap = MapsWith(Shared.AccountMap, Shared.NewAccountMap, w.votes)
         /\ z.Value = ValuesWith(Shared.Value, MapsWith(Shared.AccountMap, Shared.NewAccountMap, w.votes),
                                 w.lists)
         /\ z.StateRoot = w.votes
    BY SharedIsShared, ChainedFields
  <2> HIDE DEF b
  <2>2. b = Chained(Shared, w)
    BY DEF b
  <2> QED BY <2>1, <2>2, SharedField DEF M, r
<1> HIDE DEF b
<1>10. \A f \in SharedFields : Shared'[f] = b[f]
  BY <1>1, <1>3, <1>5, <1>8, <1>9, SharedFieldNext DEF SharedFields
<1>11. Shared' = b
  BY <1>9, <1>10, SharedNextIs
<1> QED BY <1>1, <1>5, <1>11 DEF b

\* A root of an executor that the validation stage holds.
LEMMA RootEffect ==
  ASSUME NEW c \in Client, NEW root, IsValidator(c), TakesRoot(c, root)
  PROVE  /\ Shared' = Reported(Shared, c, root)
         /\ UNCHANGED <<pool, assigned, lockHeld, round, client, Winner, height, NodeNum>>
         /\ seat' = [seat EXCEPT ![c] = "nil"]
<1> DEFINE b == Reported(Shared, c, root)
<1>1. CollectRoot(c, root) /\ Restarted(c) /\ UNCHANGED <<pool, height, chain, money>>
  BY DEF TakesRoot
<1>2. ShardDone(c) <=> Empties(Shared, c)
  BY SharedField, SharedGroups DEF ShardDone, Empties
<1>3. StageDone(c) <=> EndsStage(Shared, c)
  BY <1>2, SharedField DEF StageDone, EndsStage
<1>4. CountedVotes(c, root) = Counted(Shared, c, root)
  BY SharedField DEF CountedVotes, Counted
<1>5. /\ seat' = [seat EXCEPT ![c] = "nil"]
      /\ UNCHANGED <<round, NodeNum, assigned, client, Consensus_Map, Winner, lockHeld>>
      /\ UNCHANGED <<pool, height, chain, AccountMap, NewAccountMap, Value, StateRoot>>
  BY <1>1 DEF CollectRoot, money
<1>6. WitnessCount' = IF EndsStage(Shared, c) THEN 0 ELSE WitnessCount
  BY <1>1, <1>3 DEF Restarted
<1>7. /\ Validation_Map' = IF EndsStage(Shared, c) THEN Consensus_Map
                           ELSE IF Empties(Shared, c)
                             THEN [Validation_Map EXCEPT ![client[c].shard] = Nil]
                           ELSE Validation_Map
      /\ RootsVote' = IF EndsStage(Shared, c) THEN Counted(Shared, c, root) ELSE RootsVote
      /\ NewRootsVote' = IF EndsStage(Shared, c) THEN [s \in Shards |-> NoVotes]
                         ELSE Counted(Shared, c, root)
  <2>1. CASE StageDone(c)
    BY <1>1, <1>3, <1>4, <2>1 DEF CollectRoot
  <2>2. CASE ~StageDone(c)
    BY <1>1, <1>2, <1>3, <1>4, <2>2 DEF CollectRoot
  <2> QED BY <2>1, <2>2
<1>8. /\ IsShared(b)
      /\ b.round = Shared.round /\ b.NodeNum = Shared.NodeNum /\ b.client = Shared.client
      /\ b.seat = [Shared.seat EXCEPT ![c] = "nil"]
      /\ b.Consensus_Map = Shared.Consensus_Map
      /\ b.Validation_Map =
           IF EndsStage(Shared, c) THEN Shared.Consensus_Map
           ELSE IF Empties(Shared, c)
             THEN [Shared.Validation_Map EXCEPT ![Shared.client[c].shard] = Nil]
           ELSE Shared.Validation_Map
      /\ b.Winner = Shared.Winner
      /\ b.NewRootsVote = IF EndsStage(Shared, c) THEN [s \in Shards |-> NoVotes]
                          ELSE Counted(Shared, c, root)
      /\ b.RootsVote = IF EndsStage(Shared, c) THEN Counted(Shared, c, root) ELSE Shared.RootsVote
      /\ b.original = Shared.original /\ b.witnessed = Shared.witnessed
      /\ b.height = Shared.height /\ b.chain = Shared.chain
      /\ b.WitnessCount = IF EndsStage(Shared, c) THEN 0 ELSE Shared.WitnessCount
      /\ b.AccountMap = Shared.AccountMap /\ b.NewAccountMap = Shared.NewAccountMap
      /\ b.Value = Shared.Value /\ b.StateRoot = Shared.StateRoot
  BY SharedIsShared DEF IsShared, SharedFields, Reported
<1> HIDE DEF b
<1>9. \A f \in SharedFields : Shared'[f] = b[f]
  BY <1>5, <1>6, <1>7, <1>8, SharedField, SharedFieldNext DEF SharedFields
<1>10. Shared' = b
  BY <1>8, <1>9, SharedNextIs
<1> QED BY <1>5, <1>10 DEF b

\* One more client told a shard.
LEMMA NodeEffect ==
  ASSUME NEW s, NodeNum' = [NodeNum EXCEPT ![s] = @ + 1],
         UNCHANGED <<round, client, seat, Consensus_Map, Validation_Map, Winner,
                     NewRootsVote, RootsVote, books, money>>
  PROVE  Shared' = [Shared EXCEPT !.NodeNum = [Shared.NodeNum EXCEPT ![s] = @ + 1]]
<1> DEFINE n == [Shared.NodeNum EXCEPT ![s] = @ + 1]
           b == [Shared EXCEPT !.NodeNum = n]
<1>1. NodeNum' = n
  BY SharedField
<1> HIDE DEF n
<1>2. IsShared(b) /\ b.NodeNum = n /\ \A f \in SharedFields \ {"NodeNum"} : b[f] = Shared[f]
  BY SharedIsShared DEF IsShared, SharedFields
<1>3. UNCHANGED <<pool, height, chain, WitnessCount, AccountMap, NewAccountMap, Value, StateRoot>>
  BY DEF books, money
<1> HIDE DEF b
<1>4. \A f \in SharedFields : Shared'[f] = b[f]
  <2>1. Shared'.NodeNum = b.NodeNum
    BY <1>1, <1>2, SharedFieldNext
  <2>2. \A f \in SharedFields \ {"NodeNum"} : Shared'[f] = Shared[f]
    BY <1>3, SharedField, SharedFieldNext DEF SharedFields
  <2> QED BY <1>2, <2>1, <2>2
<1>5. Shared' = b
  BY <1>2, <1>4, SharedNextIs
<1> QED BY <1>5 DEF b, n
-----------------------------------------------------------------------------
(***************************************************************************)
(* What a server's work and its posted block become.                       *)
(***************************************************************************)
\* Setting the step of some work,
LEMMA StepSet ==
  ASSUME NEW w, IsWork(w), NEW x
  PROVE  LET v == [w EXCEPT !.step = x] IN
         /\ IsWork(v) /\ v.step = x
         /\ v.lists = w.lists /\ v.height = w.height /\ v.vote = w.vote /\ v.votes = w.votes
BY DEF IsWork, WorkFields

\* and its votes.
LEMMA VoteSet ==
  ASSUME NEW w, IsWork(w), NEW x
  PROVE  LET v == [w EXCEPT !.vote = x] IN
         /\ IsWork(v) /\ v.vote = x
         /\ v.lists = w.lists /\ v.height = w.height /\ v.step = w.step /\ v.votes = w.votes
BY DEF IsWork, WorkFields

\* Only the leader posts, and its work is what the peer is told.
LEMMA WhoPosts ==
  ASSUME Working, IsUploading
  PROVE  /\ Winner \in Client /\ work[Winner].step = "uploading"
         /\ \A c \in Client : work[c].step = "uploading" => c = Winner
BY DEF Working, IsUploading, Fits

\* What the state with the posted block is,
LEMMA DoneIs ==
  ASSUME Working
  PROVE  /\ ~IsUploading => Done = Shared
         /\ IsUploading => Done = Chained(Shared, work[Winner])
<1>1. After(Posted, Shared) = Chained(Shared, work[Winner])
  BY AfterIs DEF Posted
<1> QED BY <1>1 DEF Done

\* and after a step.
LEMMA DoneNextIs ==
  /\ ~IsUploading' => Done' = Shared'
  /\ IsUploading' => Done' = Chained(Shared', work'[Winner'])
<1>1. After(Posted', Shared') = Chained(Shared', work'[Winner'])
  BY AfterIs DEF Posted
<1>2. Done' = IF IsUploading' THEN After(Posted', Shared') ELSE Shared'
  BY DEF Done
<1> QED BY <1>1, <1>2

\* The block that is being posted may be.
LEMMA PostedIsGood ==
  ASSUME Working, IsUploading
  PROVE  Good(Posted, Shared)
<1>1. /\ Winner \in Client /\ IsWork(work[Winner]) /\ Fits(Winner, work[Winner])
      /\ work[Winner].step = "uploading"
  BY WhoPosts DEF Working
<1>2. /\ work[Winner].height = height + 1 /\ work[Winner].vote >= MinVote
      /\ OwedRoots = {} /\ work[Winner].lists \in Lists
  BY <1>1 DEF Fits, IsWork
<1>3. Winner # None
  BY <1>1, MembershipAssumption DEF MembershipAssumption
<1> QED BY <1>2, <1>3, SharedField, SharedGroups DEF Good, Posted

\* The state with the posted block is sound, and nobody joined or left.
LEMMA DoneSound ==
  ASSUME Working, Sound(Shared)
  PROVE  /\ Sound(Done) /\ Before(Shared, Done)
         /\ Done.seat = seat /\ Done.client = client
<1>1. CASE IsUploading
  <2>1. Done = After(Posted, Shared)
    BY <1>1 DEF Done
  <2>2. Done.seat = Shared.seat /\ Done.client = Shared.client
    <3>1. Chained(Shared, work[Winner]).seat = Shared.seat
          /\ Chained(Shared, work[Winner]).client = Shared.client
      BY SharedIsShared, ChainedFields
    <3> QED BY <1>1, <3>1, DoneIs
  <2> QED BY <1>1, <2>1, <2>2, PostedIsGood, AfterSound, SharedField
<1>2. CASE ~IsUploading
  BY <1>2, DoneIs, BeforeItself, SharedField
<1> QED BY <1>1, <1>2

-----------------------------------------------------------------------------
\* How a message changes the number of clients that are awaited.
Awaited(m, u, v) ==
  /\ m.type = "NodeNum" => v = [u EXCEPT ![m.shard] = @ + 1]
  /\ m.type = "client" => u[m.shard] > 0 /\ v = [u EXCEPT ![m.shard] = @ - 1]
  /\ m.type \notin {"NodeNum", "client"} => v = u

\* What a request does: the peer is told nothing and misses nothing, or it is
\* told what makes up for the change.
Quiet == outbox' = outbox /\ assigned' = assigned /\ Done' = Done

Sends(m) ==
  /\ outbox' = Append(outbox, m)
  /\ Good(m, Done) /\ Done' = After(m, Done)
  /\ Awaited(m, assigned, assigned')
  /\ m.type = "root" => m.id \in Client /\ Mine(m.id)'

Served ==
  /\ Working' /\ Sound(Shared')
  /\ assigned' \in [Shards -> Nat]
  /\ UNCHANGED <<linked, lockHeld, inbox>>
  /\ \A c \in Client : Mine(c) => Mine(c)'
  /\ \A c \in Client : Mine(c)' => Mine(c) \/ seat[c] = "none"
  /\ Quiet \/ \E m : Sends(m)

Standing == <<round, client, seat, Winner, height, NodeNum>>

\* A step that leaves the membership alone.
LEMMA WorksFit ==
  ASSUME Working, PoolShape', UNCHANGED Standing,
         work' = [d \in Client |-> work'[d]],
         \A d \in Client : IsWork(work'[d]) /\ Fits(d, work'[d])
  PROVE  Working'
<1>1. UNCHANGED <<round, client, seat, Winner, height, NodeNum>>
  BY DEF Standing
<1>2. OwedRoots' = OwedRoots
  BY <1>1 DEF OwedRoots
<1>3. \A d \in Client : Fits(d, work'[d]) <=> Fits(d, work[d])'
  BY <1>1, <1>2 DEF Fits
<1>4. \A d \in Client : IsWork(work[d])' <=> IsWork(work'[d])
  BY DEF IsWork
<1> QED BY <1>3, <1>4 DEF Working, PoolShape

\* A step of one client that is not about to post.
LEMMA OneWorks ==
  ASSUME Working, PoolShape', UNCHANGED Standing,
         NEW c \in Client, seat[c] # "none", NEW w, IsWork(w), Fits(c, w),
         work[c].step \notin {"uploading", "away"}, w.step \notin {"uploading", "away"},
         work' = [work EXCEPT ![c] = w]
  PROVE  /\ Working'
         /\ \A d \in Client : Mine(d)' <=> Mine(d)
         /\ IsUploading' <=> IsUploading
         /\ IsUploading => work'[Winner'] = work[Winner]
<1>1. UNCHANGED <<round, client, seat, Winner, height, NodeNum>>
  BY DEF Standing
<1>2. work = [d \in Client |-> work[d]]
  BY DEF Working
<1>3. work'[c] = w /\ \A d \in Client : d # c => work'[d] = work[d]
  BY <1>2
<1>4. Working'
  <2>1. work' = [d \in Client |-> work'[d]]
    BY <1>2
  <2> QED BY <1>3, <2>1, WorksFit DEF Working
<1>5. \A d \in Client : Mine(d)' <=> Mine(d)
  BY <1>1, <1>3 DEF Mine
<1>6. IsUploading' <=> IsUploading
  BY <1>3 DEF IsUploading
<1>7. IsUploading => work'[Winner'] = work[Winner]
  BY <1>1, <1>3, WhoPosts
<1> QED BY <1>4, <1>5, <1>6, <1>7

\* What is posted stays, and a message of those that may then be sent does to
\* the state with the block what it does to the one without.
LEMMA MessageServes ==
  ASSUME Working, Sound(Shared), NEW m, Shared' = After(m, Shared), Good(m, Shared),
         IsUploading' <=> IsUploading,
         IsUploading =>
           /\ work'[Winner'] = work[Winner]
           /\ \/ m.type = "pack" /\ m.stage \in {0, 2}
              \/ m.type = "witness" /\ NoRelays(m.lists)
  PROVE  Sound(Shared') /\ Good(m, Done) /\ Done' = After(m, Done)
<1>1. Sound(Shared')
  BY AfterSound
<1>2. CASE ~IsUploading
  BY <1>1, <1>2, DoneIs, DoneNextIs
<1>3. CASE IsUploading
  <2> DEFINE b == work[Winner]
  <2>1. Done = Chained(Shared, b) /\ Done' = Chained(Shared', b)
    BY <1>3, DoneIs, DoneNextIs
  <2>2. b.lists \in Lists
    BY <1>3, WhoPosts DEF Working, IsWork
  <2> HIDE DEF b
  <2>3. CASE m.type = "pack" /\ m.stage = 0
    <3>1. Shared' = [Shared EXCEPT !.original = PackedFor(Shared.original, m.height + 1)]
      BY <2>3, AfterIs
    <3>2. After(m, Done) = [Done EXCEPT !.original = PackedFor(Done.original, m.height + 1)]
      BY <2>3, AfterIs
    <3>3. Done' = After(m, Done)
      BY <2>1, <3>1, <3>2, PackCommutes, SharedIsShared
    <3>4. Good(m, Done)
      BY <2>3 DEF Good
    <3> QED BY <1>1, <3>3, <3>4
  <2>4. CASE m.type = "pack" /\ m.stage = 2
    <3>1. Shared' = Shared /\ After(m, Done) = Done
      BY <2>4, AfterIs
    <3>2. Good(m, Done)
      BY <2>4 DEF Good
    <3> QED BY <1>1, <2>1, <3>1, <3>2
  <2>5. CASE m.type = "witness" /\ NoRelays(m.lists)
    <3>1. m.lists \in Lists /\ Good(m, Done)
      BY <2>5 DEF Good
    <3>2. Shared' = Recorded(Shared, m.lists) /\ After(m, Done) = Recorded(Done, m.lists)
      BY <2>5, AfterIs
    <3>3. Done' = After(m, Done)
      BY <2>1, <2>2, <2>5, <3>1, <3>2, WitnessCommutes
    <3> QED BY <1>1, <3>1, <3>3
  <2> QED BY <1>3, <2>3, <2>4, <2>5
<1> QED BY <1>2, <1>3

\* A step that changes neither shared state nor what is posted.
LEMMA QuietServes ==
  ASSUME Working, Shared' = Shared, IsUploading' <=> IsUploading,
         IsUploading => work'[Winner'] = work[Winner]
  PROVE  Done' = Done
BY DoneIs, DoneNextIs
-----------------------------------------------------------------------------
(***************************************************************************)
(* The requests.                                                           *)
(***************************************************************************)
\* What the handlers that leave the membership alone do not touch.
Untouched ==
  UNCHANGED <<round, NodeNum, assigned, client, seat, Consensus_Map, Validation_Map, Winner,
              NewRootsVote, RootsVote, lockHeld, height, chain, money>>

\* A handler that leaves the membership, the chain and the accounts alone is one.
LEMMA UntouchedIs ==
  ASSUME UNCHANGED vars, UNCHANGED <<height, chain, money>>
  PROVE  /\ Untouched /\ UNCHANGED Standing
         /\ UNCHANGED <<assigned, lockHeld>>
         /\ UNCHANGED <<round, NodeNum, client, seat, Consensus_Map, Validation_Map, Winner,
                        NewRootsVote, RootsVote, height, chain, money>>
BY DEF vars, groups, votes, Untouched, Standing

\* A request of one client that sends a message.
LEMMA RequestServed ==
  ASSUME Serving, PoolShape', Untouched,
         NEW c \in Client, seat[c] # "none", NEW w, IsWork(w), Fits(c, w),
         work[c].step \notin {"uploading", "away"}, w.step \notin {"uploading", "away"},
         work' = [work EXCEPT ![c] = w],
         NEW m, m.type \notin {"NodeNum", "client", "root"},
         outbox' = Append(outbox, m), UNCHANGED <<linked, inbox>>,
         Shared' = After(m, Shared), Good(m, Shared),
         IsUploading =>
           \/ m.type = "pack" /\ m.stage \in {0, 2}
           \/ m.type = "witness" /\ NoRelays(m.lists)
  PROVE  Served
<1>1. Working /\ Sound(Shared) /\ assigned \in [Shards -> Nat]
  BY DEF Serving
<1>2. UNCHANGED Standing /\ assigned' = assigned /\ lockHeld' = lockHeld
  BY DEF Untouched, Standing
<1>3. /\ Working'
      /\ \A d \in Client : Mine(d)' <=> Mine(d)
      /\ IsUploading' <=> IsUploading
      /\ IsUploading => work'[Winner'] = work[Winner]
  BY <1>1, <1>2, OneWorks
<1>4. Sound(Shared') /\ Good(m, Done) /\ Done' = After(m, Done)
  BY <1>1, <1>3, MessageServes
<1>5. Sends(m)
  BY <1>2, <1>4 DEF Sends, Awaited
<1> QED BY <1>1, <1>2, <1>3, <1>4, <1>5 DEF Served

\* A request of one client that sends none.
LEMMA SilentServed ==
  ASSUME Serving, PoolShape', Untouched,
         NEW c \in Client, seat[c] # "none", NEW w, IsWork(w), Fits(c, w),
         work[c].step \notin {"uploading", "away"}, w.step \notin {"uploading", "away"},
         work' = [work EXCEPT ![c] = w],
         UNCHANGED <<linked, inbox, outbox>>,
         Shared' = Shared
  PROVE  Served
<1>1. Working /\ Sound(Shared) /\ assigned \in [Shards -> Nat]
  BY DEF Serving
<1>2. UNCHANGED Standing /\ assigned' = assigned /\ lockHeld' = lockHeld
  BY DEF Untouched, Standing
<1>3. /\ Working'
      /\ \A d \in Client : Mine(d)' <=> Mine(d)
      /\ IsUploading' <=> IsUploading
      /\ IsUploading => work'[Winner'] = work[Winner]
  BY <1>1, <1>2, OneWorks
<1>4. Done' = Done
  BY <1>1, <1>3, QuietServes
<1> QED BY <1>1, <1>2, <1>3, <1>4 DEF Served, Quiet

\* What a server that serves knows of a client.
LEMMA ClientIs ==
  ASSUME Serving, NEW c \in Client
  PROVE  /\ work = [d \in Client |-> work[d]]
         /\ IsWork(work[c]) /\ Fits(c, work[c]) /\ work[c].lists \in Lists
         /\ PoolShape /\ linked /\ ~lockHeld
         /\ c # None
         /\ height \in Nat /\ round \in Nat
         /\ client[c].round \in Nat /\ client[c].round <= round
BY SharedField, MembershipAssumption
DEF Serving, Working, IsWork, PoolShape, Sound, MembershipAssumption

\* What a client is handed of stage 0.
LEMMA HandedOut ==
  ASSUME Sound(Shared), NEW h \in Int, pool'[0] = PackedFor(pool[0], h)
  PROVE  Books!ListsOf(pool', 0) \in Lists /\ NoRelays(Books!ListsOf(pool', 0))
<1>1. pool[0] \in [Shards -> Pool] /\ \A s \in Shards : NoRelay(pool[0][s])
  BY SharedField DEF Sound
<1>2. pool'[0] \in [Shards -> Pool] /\ \A s \in Shards : NoRelay(pool'[0][s])
  BY <1>1, PackedPools
<1>3. Books!ListsOf(pool', 0) = [s \in Shards |-> pool'[0][s].List]
  BY DEF Books!ListsOf, Books!Shards, Shards
<1> QED BY <1>2, <1>3 DEF Lists, NoRelays, NoRelay, Pool

\* And of stage 1.
LEMMA HandedOutWitnessed ==
  ASSUME Sound(Shared), NEW h \in Int, pool'[1] = PackedFor(pool[1], h)
  PROVE  Books!ListsOf(pool', 1) \in Lists
<1>1. pool[1] \in [Shards -> Pool]
  BY SharedField DEF Sound
<1>2. pool'[1] \in [Shards -> Pool]
  BY <1>1, PackedPools
<1>3. Books!ListsOf(pool', 1) = [s \in Shards |-> pool'[1][s].List]
  BY DEF Books!ListsOf, Books!Shards, Shards
<1> QED BY <1>2, <1>3 DEF Lists, Pool

\* A pack of stage 0,
LEMMA ExecutorPacksServed ==
  ASSUME Serving, NEW c \in Client,
         Forwarding(ExecutorPacks(c), [type |-> "pack", stage |-> 0, height |-> height])
  PROVE  Served
<1> DEFINE m == [type |-> "pack", stage |-> 0, height |-> height]
           w == [work[c] EXCEPT !.step = "packed", !.lists = Books!ListsOf(pool', 0),
                                !.height = height + 1]
<1>1. /\ work[c].step = "idle" /\ seat[c] = "exec" /\ Notified(c)
      /\ pool' = Books!Packed(0, Shards, height + 1)
      /\ work' = [work EXCEPT ![c] = w]
      /\ UNCHANGED vars /\ UNCHANGED <<height, chain, WitnessCount, money>>
      /\ outbox' = Append(outbox, m) /\ UNCHANGED <<linked, inbox>>
  BY ClientIs DEF Forwarding, ExecutorPacks, At
<1>2. Untouched
  BY <1>1, UntouchedIs
<1>3. PoolShape' /\ Shared' = [Shared EXCEPT !.original = PackedFor(Shared.original, height + 1)]
  BY <1>1, UntouchedIs, ClientIs, PackEffect
<1>4. Shared' = After(m, Shared)
  BY <1>3, AfterIs
<1>5. Good(m, Shared)
  BY ClientIs DEF Good
<1>6. pool'[0] = PackedFor(pool[0], height + 1)
  BY <1>1, ClientIs, PackPools
<1>7. Books!ListsOf(pool', 0) \in Lists /\ NoRelays(Books!ListsOf(pool', 0))
  BY <1>6, ClientIs, HandedOut DEF Serving
<1>8. IsWork(w) /\ w.step = "packed" /\ w.lists = Books!ListsOf(pool', 0) /\ w.height = height + 1
  BY <1>7, ClientIs DEF IsWork, WorkFields
<1> HIDE DEF w
<1>9. Fits(c, w)
  BY <1>1, <1>7, <1>8, ClientIs DEF Fits, Notified
<1> HIDE DEF m
<1>10. m.type = "pack" /\ m.stage = 0
  BY DEF m
<1> QED BY <1>1, <1>2, <1>3, <1>4, <1>5, <1>8, <1>9, <1>10, RequestServed

\* of stage 1,
LEMMA LeaderPacksServed ==
  ASSUME Serving, NEW c \in Client,
         Forwarding(LeaderPacks(c), [type |-> "pack", stage |-> 1, height |-> height])
  PROVE  Served
<1> DEFINE m == [type |-> "pack", stage |-> 1, height |-> height]
           w == [work[c] EXCEPT !.step = "packing", !.lists = Books!ListsOf(pool', 1)]
<1>1. /\ work[c].step = "idle" /\ Winner = c
      /\ pool' = Books!Packed(1, Shards, height + 1)
      /\ work' = [work EXCEPT ![c] = w]
      /\ UNCHANGED vars /\ UNCHANGED <<height, chain, WitnessCount, money>>
      /\ outbox' = Append(outbox, m) /\ UNCHANGED <<linked, inbox>>
  BY ClientIs DEF Forwarding, LeaderPacks, At
<1>2. ~IsUploading
  BY <1>1, WhoPosts DEF Serving
<1>3. seat[c] = "committee"
  BY <1>1, <1>2, ClientIs DEF Serving, Steady, Committee
<1>4. Untouched
  BY <1>1, UntouchedIs
<1>5. PoolShape' /\ Shared' = [Shared EXCEPT !.witnessed = PackedFor(Shared.witnessed, height + 1)]
  BY <1>1, UntouchedIs, ClientIs, PackEffect
<1>6. Shared' = After(m, Shared)
  BY <1>5, AfterIs
<1>7. Good(m, Shared)
  BY ClientIs DEF Good
<1>8. pool'[1] = PackedFor(pool[1], height + 1)
  BY <1>1, ClientIs, PackPools
<1>9. Books!ListsOf(pool', 1) \in Lists
  BY <1>8, ClientIs, HandedOutWitnessed DEF Serving
<1>10. IsWork(w) /\ w.step = "packing"
  BY <1>9, ClientIs DEF IsWork, WorkFields
<1> HIDE DEF w
<1>11. Fits(c, w)
  BY <1>1, <1>3, <1>10, ClientIs DEF Fits
<1> HIDE DEF m
<1>12. m.type = "pack"
  BY DEF m
<1> QED BY <1>1, <1>2, <1>3, <1>4, <1>5, <1>6, <1>7, <1>10, <1>11, <1>12, RequestServed

\* and of stage 2.
LEMMA PackValidServed ==
  ASSUME Serving, NEW c \in Client,
         Forwarding(PackValidTx(c), [type |-> "pack", stage |-> 2, height |-> height - 1])
  PROVE  Served
<1> DEFINE m == [type |-> "pack", stage |-> 2, height |-> height - 1]
           w == [work[c] EXCEPT !.step = "validating"]
<1>1. /\ work[c].step = "witnessed" /\ client[c].round < round
      /\ pool' = Books!Packed(2, Books!AllButLast, height - 1)
      /\ work' = [work EXCEPT ![c] = w]
      /\ UNCHANGED vars /\ UNCHANGED <<height, chain, WitnessCount, money>>
      /\ outbox' = Append(outbox, m) /\ UNCHANGED <<linked, inbox>>
  BY ClientIs DEF Forwarding, PackValidTx, At, Goes
<1>2. seat[c] = "exec"
  BY <1>1, ClientIs DEF Fits
<1>3. Untouched
  BY <1>1, UntouchedIs
<1>4. PoolShape' /\ Shared' = Shared
  BY <1>1, UntouchedIs, ClientIs, ValidPackEffect
<1>5. Shared' = After(m, Shared)
  BY <1>4, AfterIs
<1>6. Good(m, Shared)
  BY ClientIs DEF Good
<1>7. IsWork(w) /\ w.step = "validating"
  BY ClientIs, StepSet
<1> HIDE DEF w
<1>8. Fits(c, w)
  BY <1>1, <1>2, <1>7, ClientIs DEF Fits
<1> HIDE DEF m
<1>9. m.type = "pack" /\ m.stage = 2
  BY DEF m
<1> QED BY <1>1, <1>2, <1>3, <1>4, <1>5, <1>6, <1>7, <1>8, <1>9, RequestServed

\* A witness.
LEMMA WitnessServed ==
  ASSUME Serving, NEW c \in Client, ForwardsWitness(c)
  PROVE  Served
<1> DEFINE m == [type |-> "witness", lists |-> work[c].lists]
           w == [work[c] EXCEPT !.step = "witnessed"]
<1>1. /\ work[c].step = "packed" /\ seat[c] = "exec"
      /\ Books!Witnessed(work[c].lists)
      /\ work' = [work EXCEPT ![c] = w]
      /\ UNCHANGED vars /\ UNCHANGED <<height, chain, money>>
      /\ outbox' = Append(outbox, m) /\ UNCHANGED <<linked, inbox>>
  BY ClientIs DEF ForwardsWitness, Forwarding, WitnessTx, At, Goes
<1>2. Untouched
  BY <1>1, UntouchedIs
<1>3. PoolShape' /\ Shared' = Recorded(Shared, work[c].lists)
  BY <1>1, UntouchedIs, ClientIs, WitnessEffect
<1>4. Shared' = After(m, Shared)
  BY <1>3, AfterIs
<1>5. m.type = "witness" /\ m.lists = work[c].lists /\ m.lists \in Lists
  BY ClientIs
<1> HIDE DEF m
<1>6. Good(m, Shared) /\ NoRelays(m.lists)
  BY <1>1, <1>5, ClientIs DEF Good, Fits
<1>7. IsWork(w) /\ w.step = "witnessed"
  BY ClientIs, StepSet
<1> HIDE DEF w
<1>8. Fits(c, w)
  BY <1>1, <1>7, ClientIs DEF Fits
<1> QED BY <1>1, <1>2, <1>3, <1>4, <1>5, <1>6, <1>7, <1>8, RequestServed
\* The leader's answers are not forwarded.
LEMMA LeaderReadsServed ==
  ASSUME Serving, NEW c \in Client, Alone(LeaderReadsHeight(c))
  PROVE  Served
<1> DEFINE w == [work[c] EXCEPT !.step = "packed", !.height = height + 1]
<1>1. /\ work[c].step = "packing"
      /\ work' = [work EXCEPT ![c] = w]
      /\ UNCHANGED vars /\ UNCHANGED <<pool, height, chain, WitnessCount, money>>
      /\ UNCHANGED <<linked, inbox, outbox>>
  BY DEF Alone, LeaderReadsHeight, books, links
<1>2. seat[c] = "committee" /\ ~(client[c].round = round /\ Winner = None)
  BY <1>1, ClientIs DEF Fits
<1>3. Untouched
  BY <1>1, UntouchedIs
<1>4. PoolShape' /\ Shared' = Shared
  BY <1>1, UntouchedIs, ClientIs, NothingShared DEF PoolShape
<1>5. IsWork(w) /\ w.step = "packed" /\ w.height = height + 1
  BY ClientIs DEF IsWork, WorkFields
<1> HIDE DEF w
<1>6. Fits(c, w)
  BY <1>2, <1>5, ClientIs DEF Fits
<1> QED BY <1>1, <1>2, <1>3, <1>4, <1>5, <1>6, SilentServed

\* PackAccount, of a leader.
LEMMA PackAccountServed ==
  ASSUME Serving, NEW c \in Client, Alone(PackAccount(c))
  PROVE  Served
<1> DEFINE w == [work[c] EXCEPT !.step = "ready", !.votes = VotesAnswered]
<1>1. /\ work[c].step = "packed" /\ Winner = c
      /\ work' = [work EXCEPT ![c] = w]
      /\ UNCHANGED vars /\ UNCHANGED <<pool, height, chain, WitnessCount, money>>
      /\ UNCHANGED <<linked, inbox, outbox>>
  BY DEF Alone, PackAccount, At, books, links
<1>2. seat[c] # "none" /\ work[c].height = height + 1
  BY <1>1, ClientIs DEF Fits
<1>3. Untouched
  BY <1>1, UntouchedIs
<1>4. PoolShape' /\ Shared' = Shared
  BY <1>1, UntouchedIs, ClientIs, NothingShared DEF PoolShape
<1>5. IsWork(w) /\ w.step = "ready" /\ w.height = work[c].height
  BY ClientIs DEF IsWork, WorkFields
<1> HIDE DEF w
<1>6. Fits(c, w)
  BY <1>1, <1>2, <1>5, ClientIs DEF Fits
<1> QED BY <1>1, <1>2, <1>3, <1>4, <1>5, <1>6, SilentServed

\* Steps that concern several clients while nobody posts: none of them is away,
\* before or after, who was not.
LEMMA ManyWork ==
  ASSUME Serving, PoolShape', Untouched, ~IsUploading,
         work' = [d \in Client |-> work'[d]],
         \A d \in Client : IsWork(work'[d]) /\ Fits(d, work'[d]),
         \A d \in Client : work'[d].step # "uploading",
         \A d \in Client : work'[d].step = "away" <=> work[d].step = "away"
  PROVE  /\ Working' /\ ~IsUploading'
         /\ \A d \in Client : Mine(d)' <=> Mine(d)
         /\ assigned' \in [Shards -> Nat] /\ assigned' = assigned /\ lockHeld' = lockHeld
<1>1. UNCHANGED Standing /\ assigned' = assigned /\ lockHeld' = lockHeld /\ seat' = seat
  BY DEF Untouched, Standing
<1>2. Working'
  BY <1>1, WorksFit DEF Serving
<1>3. ~IsUploading'
  BY DEF IsUploading
<1>4. \A d \in Client : Mine(d)' <=> Mine(d)
  BY <1>1 DEF Mine
<1> QED BY <1>1, <1>2, <1>3, <1>4 DEF Serving

\* The leader's block is multicast.
LEMMA ProposesServed ==
  ASSUME Serving, NEW c \in Client, Proposes(c)
  PROVE  Served
<1> DEFINE m == [type |-> "block"]
           p == [work[c] EXCEPT !.step = "proposed", !.vote = 1]
<1>1. /\ work[c].step = "ready" /\ Winner = c
      /\ work' = [d \in Client |->
           IF d = c THEN [work[d] EXCEPT !.step = "proposed", !.vote = 1]
           ELSE IF d \in Asked THEN [work[d] EXCEPT !.step = "asked"]
           ELSE work[d]]
      /\ UNCHANGED vars /\ UNCHANGED <<pool, height, chain, WitnessCount, money>>
      /\ outbox' = Append(outbox, m) /\ UNCHANGED <<linked, inbox>>
  BY ClientIs DEF Proposes, Forwarding, MultiCastBlock, At, books
<1>2. ~IsUploading
  BY <1>1, WhoPosts DEF Serving
<1>3. Untouched
  BY <1>1, UntouchedIs
<1>4. PoolShape' /\ Shared' = Shared
  BY <1>1, UntouchedIs, ClientIs, NothingShared DEF PoolShape
<1>5. IsWork(p) /\ p.step = "proposed" /\ p.height = work[c].height
  BY ClientIs DEF IsWork, WorkFields
<1>6. Winner # None /\ seat[c] # "none" /\ work[c].height = height + 1
  BY <1>1, ClientIs DEF Fits
<1>7. work'[c] = p
  BY <1>1
<1> HIDE DEF p
<1>8. \A d \in Client :
        /\ IsWork(work'[d]) /\ Fits(d, work'[d])
        /\ work'[d].step # "uploading"
        /\ work'[d].step = "away" <=> work[d].step = "away"
  <2> TAKE d \in Client
  <2>1. CASE d = c
    BY <1>1, <1>5, <1>6, <1>7, <2>1 DEF Fits
  <2>2. CASE d # c /\ d \in Asked
    <3>1. work'[d] = [work[d] EXCEPT !.step = "asked"] /\ work[d].step = "idle"
      BY <1>1, <2>2 DEF Asked
    <3>2. IsWork(work'[d]) /\ work'[d].step = "asked"
      BY <3>1, ClientIs, StepSet
    <3>3. seat[d] = "committee"
      BY <2>2 DEF Asked, Committee
    <3> QED BY <1>6, <3>1, <3>2, <3>3 DEF Fits
  <2>3. CASE d # c /\ d \notin Asked
    <3>1. work'[d] = work[d]
      BY <1>1, <2>3
    <3> QED BY <1>2, <3>1, ClientIs DEF IsUploading
  <2> QED BY <2>1, <2>2, <2>3
<1>9. work' = [d \in Client |-> work'[d]]
  BY <1>1
<1>10. /\ Working' /\ ~IsUploading'
       /\ \A d \in Client : Mine(d)' <=> Mine(d)
       /\ assigned' \in [Shards -> Nat] /\ assigned' = assigned /\ lockHeld' = lockHeld
  BY <1>2, <1>3, <1>4, <1>8, <1>9, ManyWork
<1>11. Shared' = After(m, Shared) /\ m.type = "block"
  BY <1>4, AfterIs
<1> HIDE DEF m
<1>12. Good(m, Shared)
  BY <1>6, <1>11, SharedField DEF Good
<1>13. Sound(Shared') /\ Good(m, Done) /\ Done' = After(m, Done)
  BY <1>2, <1>10, <1>11, <1>12, MessageServes DEF Serving
<1>14. Sends(m)
  BY <1>1, <1>10, <1>11, <1>13 DEF Sends, Awaited
<1> QED BY <1>1, <1>10, <1>13, <1>14 DEF Served

\* A vote, to a leader at the peer, to one that has posted, and to one here.
LEMMA VotesServed ==
  ASSUME Serving, NEW c \in Client, Votes(c)
  PROVE  Served
<1> DEFINE w == [work[c] EXCEPT !.step = "voted"]
<1>1. work[c].step = "asked"
  BY DEF Votes, At
<1>2. seat[c] # "none" /\ (c \in Committee => Winner # None /\ Winner \in Client)
  BY <1>1, ClientIs, SharedField DEF Fits, Committee, Serving, Sound
<1>3. IsWork(w) /\ w.step = "voted"
  BY ClientIs, StepSet
<1> HIDE DEF w
<1>4. Fits(c, w)
  BY <1>1, <1>2, <1>3, ClientIs DEF Fits
<1>5. ASSUME UNCHANGED <<vars, books, money>>
      PROVE  Untouched /\ PoolShape' /\ Shared' = Shared
  <2>1. UNCHANGED vars /\ UNCHANGED <<pool, height, chain, WitnessCount, money>>
    BY <1>5 DEF books
  <2> QED BY <2>1, UntouchedIs, ClientIs, NothingShared DEF PoolShape
<1>6. CASE c \in Committee /\ work[Winner].step = "away"
           /\ Forwarding(Voted(c), [type |-> "vote", id |-> Winner])
  <2> DEFINE m == [type |-> "vote", id |-> Winner]
  <2>1. /\ work' = [work EXCEPT ![c] = w]
        /\ UNCHANGED <<vars, books, money>>
        /\ outbox' = Append(outbox, m) /\ UNCHANGED <<linked, inbox>>
    BY <1>6, ClientIs DEF Forwarding, Voted, Goes, w
  <2>2. ~IsUploading
    BY <1>6, WhoPosts DEF Serving
  <2>3. m.type = "vote" /\ m.id = Winner /\ Winner \in Committee
    BY <1>2, <1>6, <2>2 DEF Serving, Steady
  <2> HIDE DEF m
  <2>4. Good(m, Shared)
    BY <2>3, SharedGroups DEF Good
  <2>5. Shared' = After(m, Shared)
    BY <1>5, <2>1, <2>3, AfterIs
  <2> QED BY <1>1, <1>2, <1>3, <1>4, <1>5, <2>1, <2>2, <2>3, <2>4, <2>5, RequestServed
<1>7. CASE Alone(Voted(c))
  <2>1. /\ work' = [work EXCEPT ![c] = w]
        /\ UNCHANGED <<vars, books, money>> /\ UNCHANGED <<linked, inbox, outbox>>
    BY <1>7 DEF Alone, Voted, Goes, links, w
  <2> QED BY <1>1, <1>2, <1>3, <1>4, <1>5, <2>1, SilentServed
<1>8. CASE (c \in Committee => work[Winner].step \notin {"away", "uploading"})
           /\ Alone(SendVote(c))
  <2>1. /\ work' = IF c \in Committee
               THEN [work EXCEPT ![c].step = "voted", ![Winner].vote = @ + 1]
               ELSE [work EXCEPT ![c].step = "voted"]
        /\ UNCHANGED <<vars, books, money>> /\ UNCHANGED <<linked, inbox, outbox>>
    BY <1>8 DEF Alone, SendVote, links
  <2>2. CASE c \notin Committee
    <3>1. work' = [work EXCEPT ![c] = w]
      BY <2>1, <2>2 DEF w
    <3> QED BY <1>1, <1>2, <1>3, <1>4, <1>5, <2>1, <3>1, SilentServed
  <2>3. CASE c \in Committee
    <3>1. ~IsUploading
      BY <1>8, <2>3, WhoPosts DEF Serving
    <3>2. Winner \in Client
      BY <1>2, <2>3
    <3>3. work' = [[work EXCEPT ![c] = w] EXCEPT ![Winner].vote = @ + 1]
      BY <2>1, <2>3 DEF w
    <3> DEFINE f == [work EXCEPT ![c] = w]
               v == [f[Winner] EXCEPT !.vote = f[Winner].vote + 1]
    <3>4. /\ f = [d \in Client |-> f[d]]
          /\ f[c] = w /\ \A d \in Client : d # c => f[d] = work[d]
      BY ClientIs
    <3>5. \A d \in Client : IsWork(f[d]) /\ Fits(d, f[d]) /\ f[d].step # "uploading"
                            /\ (f[d].step = "away" <=> work[d].step = "away")
      BY <1>1, <1>3, <1>4, <3>1, <3>4, ClientIs DEF IsUploading
    <3> HIDE DEF f
    <3>6. work' = [f EXCEPT ![Winner] = v]
      BY <3>3 DEF f
    <3>7. /\ IsWork(v) /\ v.lists = f[Winner].lists /\ v.height = f[Winner].height
          /\ v.step = f[Winner].step
      BY <3>2, <3>5, VoteSet
    <3> HIDE DEF v
    <3>8. /\ work' = [d \in Client |-> work'[d]]
          /\ work'[Winner] = v /\ \A d \in Client : d # Winner => work'[d] = f[d]
      BY <3>2, <3>4, <3>6
    <3>9. Fits(Winner, v)
      <4>1. Fits(Winner, f[Winner]) /\ f[Winner].step # "uploading"
        BY <3>2, <3>5
      <4> QED BY <3>7, <4>1 DEF Fits
    <3>10. \A d \in Client : IsWork(work'[d]) /\ Fits(d, work'[d])
      BY <3>5, <3>7, <3>8, <3>9
    <3>11. \A d \in Client : work'[d].step # "uploading"
                             /\ (work'[d].step = "away" <=> work[d].step = "away")
      BY <3>2, <3>5, <3>7, <3>8
    <3>12. Untouched /\ PoolShape' /\ Shared' = Shared
      BY <1>5, <2>1
    <3>13. /\ Working' /\ ~IsUploading'
           /\ \A d \in Client : Mine(d)' <=> Mine(d)
           /\ assigned' \in [Shards -> Nat] /\ assigned' = assigned /\ lockHeld' = lockHeld
      BY <3>1, <3>8, <3>10, <3>11, <3>12, ManyWork
    <3>14. Done' = Done
      BY <3>1, <3>12, <3>13, QuietServes DEF Serving
    <3> QED BY <2>1, <3>12, <3>13, <3>14 DEF Served, Quiet, Serving
  <2> QED BY <2>2, <2>3
<1> QED BY <1>6, <1>7, <1>8 DEF Votes
\* Only the lists and the votes of a block matter to the state it makes.
LEMMA ChainedSame ==
  ASSUME NEW a, NEW b, NEW c, b.lists = c.lists, b.votes = c.votes
  PROVE  Chained(a, b) = Chained(a, c)
BY DEF Chained

\* The leader posts its block.
LEMMA PostsServed ==
  ASSUME Serving, NEW c \in Client, OwedRoots = {}, work[c].vote >= MinVote, ForwardsBlock(c)
  PROVE  Served
<1> DEFINE m == [type |-> "upload", id |-> c, block |-> work[c]]
           w == [work[c] EXCEPT !.step = "uploading"]
<1>1. /\ work[c].step = "proposed" /\ Winner = c
      /\ work' = [work EXCEPT ![c] = w]
      /\ UNCHANGED vars /\ UNCHANGED <<pool, height, chain, WitnessCount, money>>
      /\ outbox' = Append(outbox, m) /\ UNCHANGED <<linked, inbox>>
  BY ClientIs DEF ForwardsBlock, Forwarding, At, Goes, books
<1>2. ~IsUploading /\ Winner # None
  BY <1>1, WhoPosts, ClientIs DEF Serving
<1>3. Untouched /\ UNCHANGED Standing
  BY <1>1, UntouchedIs
<1>4. PoolShape' /\ Shared' = Shared
  BY <1>1, UntouchedIs, ClientIs, NothingShared DEF PoolShape
<1>5. /\ IsWork(w) /\ w.step = "uploading" /\ w.lists = work[c].lists
      /\ w.height = work[c].height /\ w.vote = work[c].vote /\ w.votes = work[c].votes
  BY ClientIs, StepSet
<1>6. seat[c] # "none" /\ work[c].height = height + 1
  BY <1>1, ClientIs DEF Fits
<1>7. \A s \in Shards : NodeNum[s] = CLIENT_MAX
  BY <1>2 DEF Serving, Steady
<1>8. w.vote >= MinVote
  BY <1>5
<1> HIDE DEF w
<1>9. Fits(c, w)
  BY <1>1, <1>2, <1>5, <1>6, <1>7, <1>8, ClientIs DEF Fits
<1>10. /\ work' = [d \in Client |-> work'[d]]
       /\ work'[c] = w /\ \A d \in Client : d # c => work'[d] = work[d]
  BY <1>1, ClientIs
<1>11. Working'
  <2>1. \A d \in Client : IsWork(work'[d]) /\ Fits(d, work'[d])
    BY <1>5, <1>9, <1>10, ClientIs
  <2> QED BY <1>3, <1>4, <1>10, <2>1, WorksFit DEF Serving
<1>12. IsUploading' /\ Winner' = c
  BY <1>1, <1>3, <1>5, <1>10 DEF IsUploading, Standing
<1>13. Done' = Chained(Shared, w)
  BY <1>4, <1>10, <1>12, DoneNextIs
<1>14. Done = Shared
  BY <1>2, DoneIs DEF Serving
<1>15. m.type = "upload" /\ m.id = c /\ m.block = work[c]
  OBVIOUS
<1> HIDE DEF m
<1>16. Done' = After(m, Done)
  BY <1>5, <1>13, <1>14, <1>15, AfterIs, ChainedSame
<1>17. Good(m, Shared)
  BY <1>1, <1>2, <1>6, <1>15, ClientIs, SharedField, SharedGroups DEF Good
<1>18. \A d \in Client : Mine(d)' <=> Mine(d)
  BY <1>1, <1>3, <1>5, <1>10 DEF Mine, Standing
<1>19. Sends(m)
  BY <1>1, <1>3, <1>14, <1>15, <1>16, <1>17 DEF Sends, Awaited, Untouched
<1> QED BY <1>1, <1>3, <1>4, <1>11, <1>18, <1>19 DEF Served, Serving, Untouched

\* An executor reports its root.
LEMMA RootServed ==
  ASSUME Serving, NEW c \in Client, NEW root \in Root, ForwardsRoot(c, root)
  PROVE  Served
<1> DEFINE m == [type |-> "root", id |-> c, root |-> root]
           w == [work[c] EXCEPT !.step = "rooted"]
<1>1. /\ work[c].step = "validating"
      /\ TakesRoot(c, root)
      /\ work' = [work EXCEPT ![c] = w]
      /\ outbox' = Append(outbox, m) /\ UNCHANGED <<linked, inbox>>
  BY ClientIs DEF ForwardsRoot, Forwarding, UploadRoot, At, Goes
<1>2. seat[c] = "exec" /\ client[c].round < round /\ c \in OwedRoots
  BY <1>1, ClientIs DEF Fits, OwedRoots
<1>3. ~IsUploading
  BY <1>2, WhoPosts DEF Serving, Working, Fits
<1>4. IsValidator(c)
  BY <1>2, <1>3 DEF Serving, Steady
<1>5. /\ Shared' = Reported(Shared, c, root)
      /\ UNCHANGED <<pool, assigned, lockHeld, round, client, Winner, height, NodeNum>>
      /\ seat' = [seat EXCEPT ![c] = "nil"]
  BY <1>1, <1>4, RootEffect
<1>6. m.type = "root" /\ m.id = c /\ m.root = root
  OBVIOUS
<1> HIDE DEF m
<1>7. Good(m, Shared) /\ Shared' = After(m, Shared)
  BY <1>2, <1>4, <1>5, <1>6, SharedField, SharedGroups, AfterIs DEF Good, IsValidator
<1>8. IsWork(w) /\ w.step = "rooted"
  BY ClientIs, StepSet
<1> HIDE DEF w
<1>9. /\ work' = [d \in Client |-> work'[d]]
      /\ work'[c] = w /\ \A d \in Client : d # c => work'[d] = work[d]
  BY <1>1, ClientIs
<1>10. /\ seat'[c] = "nil" /\ \A d \in Client : d # c => seat'[d] = seat[d]
  BY <1>5, SharedField DEF Serving, Sound
<1>11. Working'
  <2>1. PoolShape'
    BY <1>5, ClientIs DEF PoolShape
  <2>2. ASSUME NEW d \in Client
        PROVE  IsWork(work'[d]) /\ Fits(d, work[d])'
    <3>1. CASE d = c
      BY <1>2, <1>5, <1>8, <1>9, <1>10, <3>1, ClientIs DEF Fits
    <3>2. CASE d # c
      BY <1>3, <1>5, <1>9, <1>10, <3>2, ClientIs DEF Fits, IsUploading
    <3> QED BY <3>1, <3>2
  <2>3. \A d \in Client : IsWork(work[d])' <=> IsWork(work'[d])
    BY DEF IsWork
  <2> QED BY <1>9, <2>1, <2>2, <2>3 DEF Working, PoolShape
<1>12. ~IsUploading'
  BY <1>3, <1>8, <1>9 DEF IsUploading
<1>13. Done = Shared /\ Done' = Shared'
  BY <1>3, <1>12, DoneIs, DoneNextIs DEF Serving
<1>14. \A d \in Client : Mine(d)' <=> Mine(d)
  BY <1>1, <1>2, <1>8, <1>9, <1>10 DEF Mine
<1>15. Mine(c)'
  BY <1>8, <1>9, <1>10 DEF Mine
<1>16. Sends(m)
  BY <1>1, <1>5, <1>6, <1>7, <1>13, <1>15 DEF Sends, Awaited
<1>17. Sound(Shared')
  BY <1>7, AfterSound DEF Serving
<1> QED BY <1>1, <1>5, <1>11, <1>14, <1>16, <1>17 DEF Served, Serving
-----------------------------------------------------------------------------
(***************************************************************************)
(* Requests that change the membership.                                    *)
(***************************************************************************)
\* Whom a registration seats, and who can be the leader then.
LEMMA JoinedSeats ==
  ASSUME NEW a, Sound(a), NEW m, Good(m, a), m.type = "client"
  PROVE  LET c == m.id
             s == m.shard
             b == Joined(a, c, s, m.random)
         IN  /\ b.round = a.round /\ b.height = a.height /\ b.NodeNum = a.NodeNum
             /\ \A d \in Client : d # c => b.client[d] = a.client[d]
             /\ b.client[c].round = a.round
             /\ b.seat[c] \in {"exec", "committee"}
             /\ \A d \in Client : d # c =>
                  \/ b.seat[d] = a.seat[d]
                  \/ b.seat[d] = "committee" /\ d \in EntriesAt(a, s, a.round)
             /\ b.Winner \in CommitteeAt(a) \cup EntriesAt(a, s, a.round) \cup {c, None}
<1> DEFINE c == m.id
           s == m.shard
           C == NewClient(a, c, s, m.random)
           w == Chosen(a, c, s, m.random)
           b == Joined(a, c, s, m.random)
<1>1. /\ c \in Client /\ a.seat[c] = "none" /\ a.Winner = None
      /\ Fills(a, s) =>
           /\ Smallest(C, Group(a, c, s)) # {}
           /\ Cardinality(Members(a, c, s, m.random)) = ShardNum
                => Smallest(C, Members(a, c, s, m.random)) # {}
  BY DEF Good
<1>2. a.client \in [Client -> [shard : 0 .. ShardNum, round : Nat, random : Int]]
      /\ a.seat \in [Client -> Seats]
  BY DEF Sound
<1>3. C[c].round = a.round /\ \A d \in Client : d # c => C[d] = a.client[d]
  BY <1>1, <1>2 DEF NewClient
<1>4. ASSUME Fills(a, s)
      PROVE  w \in Client /\ w \in EntriesAt(a, s, a.round) \cup {c}
  <2>1. w \in Group(a, c, s)
    BY <1>1, <1>4, LeastIn DEF Chosen
  <2> QED BY <1>1, <2>1 DEF Group, EntriesAt, RegisteredAt
<1>5. /\ b.round = a.round /\ b.client = C /\ b.height = a.height /\ b.NodeNum = a.NodeNum
      /\ b.seat = IF Fills(a, s) THEN [a.seat EXCEPT ![c] = "exec", ![w] = "committee"]
                  ELSE [a.seat EXCEPT ![c] = "exec"]
      /\ b.Winner = IF Fills(a, s) /\ Cardinality(Members(a, c, s, m.random)) = ShardNum
                      THEN Least(C, Members(a, c, s, m.random)) ELSE a.Winner
  <2>1. IsShared(a)
    BY DEF Sound
  <2> HIDE DEF w, C, c, s
  <2> QED BY <2>1 DEF w, C, IsShared, SharedFields, Joined
<1>6. b.Winner \in CommitteeAt(a) \cup EntriesAt(a, s, a.round) \cup {c, None}
  <2>1. CASE Fills(a, s) /\ Cardinality(Members(a, c, s, m.random)) = ShardNum
    <3>1. b.Winner \in Members(a, c, s, m.random)
      BY <1>1, <1>5, <2>1, LeastIn
    <3> QED BY <1>4, <2>1, <3>1 DEF Members
  <2>2. CASE ~(Fills(a, s) /\ Cardinality(Members(a, c, s, m.random)) = ShardNum)
    BY <1>1, <1>5, <2>2
  <2> QED BY <2>1, <2>2
<1>7. /\ b.seat[c] \in {"exec", "committee"}
      /\ \A d \in Client : d # c =>
           \/ b.seat[d] = a.seat[d]
           \/ b.seat[d] = "committee" /\ d \in EntriesAt(a, s, a.round)
  BY <1>1, <1>2, <1>4, <1>5
<1> HIDE DEF C
<1> QED BY <1>3, <1>5, <1>6, <1>7

\* The clients of a server still fit when one registers, here or at the peer.
LEMMA JoinWorks ==
  ASSUME Working, Sound(Shared), ~IsUploading, PoolShape',
         NEW m, m.type = "client", Good(m, Shared), Shared' = After(m, Shared),
         work' = work \/ work' = [work EXCEPT ![m.id].step = "away"]
  PROVE  /\ Working' /\ ~IsUploading'
         /\ \A d \in Client : Mine(d)' => Mine(d) \/ d = m.id
         /\ \A d \in Client : Mine(d) => Mine(d)'
         /\ work' # work => \A d \in Client : Mine(d)' => Mine(d)
<1> DEFINE c == m.id
<1>1. /\ c \in Client /\ seat[c] = "none" /\ Winner = None
  BY SharedField DEF Good
<1>2. Shared' = Joined(Shared, c, m.shard, m.random)
  BY AfterIs
<1>3. /\ round' = round /\ height' = height /\ NodeNum' = NodeNum
      /\ \A d \in Client : d # c => client'[d] = client[d]
      /\ client'[c].round = round
      /\ seat'[c] \in {"exec", "committee"}
      /\ \A d \in Client : d # c =>
           \/ seat'[d] = seat[d]
           \/ seat'[d] = "committee" /\ d \in Entries(m.shard, round)
      /\ Winner' \in Committee \cup Entries(m.shard, round) \cup {c, None}
  <2>1. /\ Shared'.round = Shared.round /\ Shared'.height = Shared.height
        /\ Shared'.NodeNum = Shared.NodeNum
        /\ \A d \in Client : d # c => Shared'.client[d] = Shared.client[d]
        /\ Shared'.client[c].round = Shared.round
        /\ Shared'.seat[c] \in {"exec", "committee"}
        /\ \A d \in Client : d # c =>
             \/ Shared'.seat[d] = Shared.seat[d]
             \/ Shared'.seat[d] = "committee" /\ d \in EntriesAt(Shared, m.shard, Shared.round)
        /\ Shared'.Winner \in CommitteeAt(Shared)
             \cup EntriesAt(Shared, m.shard, Shared.round) \cup {c, None}
    BY <1>2, JoinedSeats
  <2>2. EntriesAt(Shared, m.shard, Shared.round) = Entries(m.shard, round)
        /\ CommitteeAt(Shared) = Committee
    BY SharedField, SharedGroups
  <2> QED BY <2>1, <2>2, SharedField, SharedFieldNext
<1>4. work = [d \in Client |-> work[d]] /\ \A d \in Client : IsWork(work[d]) /\ Fits(d, work[d])
  BY DEF Working
<1>5. work[c].step = "idle"
  BY <1>1, <1>4 DEF Fits
<1>6. \A d \in Committee \cup Entries(m.shard, round) :
        d \in Client /\ work[d].step \in {"idle", "away"}
  BY <1>1, <1>4 DEF Committee, Entries, Registered, Fits
<1>7. /\ work' = [d \in Client |-> work'[d]]
      /\ \A d \in Client : d # c => work'[d] = work[d]
      /\ IsWork(work'[c]) /\ work'[c].step \in {"idle", "away"}
      /\ work' = work \/ work'[c].step = "away"
  <2>1. CASE work' = work
    BY <1>1, <1>4, <1>5, <2>1
  <2>2. CASE work' = [work EXCEPT ![c].step = "away"]
    <3>1. work' = [work EXCEPT ![c] = [work[c] EXCEPT !.step = "away"]]
      BY <2>2
    <3>2. IsWork([work[c] EXCEPT !.step = "away"]) /\ [work[c] EXCEPT !.step = "away"].step = "away"
      BY <1>1, <1>4, StepSet
    <3> QED BY <1>1, <1>4, <3>1, <3>2
  <2> QED BY <2>1, <2>2
<1> HIDE DEF c
<1>8. ASSUME NEW d \in Client
      PROVE  IsWork(work'[d]) /\ Fits(d, work[d])'
  <2>1. CASE d = c
    BY <1>3, <1>7, <2>1 DEF Fits
  <2>2. CASE d # c /\ d \in Entries(m.shard, round)
    BY <1>3, <1>4, <1>6, <1>7, <2>2 DEF Fits, Entries, Registered
  <2>3. CASE d # c /\ d \notin Entries(m.shard, round)
    <3>1. work'[d] = work[d] /\ seat'[d] = seat[d] /\ client'[d] = client[d]
      BY <1>3, <1>7, <2>3
    <3>2. Winner' = d => work[d].step \in {"idle", "away"}
      BY <1>3, <1>6, <2>3, MembershipAssumption DEF MembershipAssumption
    <3>3. work[d].step # "uploading"
      BY DEF IsUploading
    <3> QED BY <1>1, <1>3, <1>4, <3>1, <3>2, <3>3 DEF Fits
  <2> QED BY <2>1, <2>2, <2>3
<1>9. Working'
  <2>1. \A d \in Client : IsWork(work[d])' <=> IsWork(work'[d])
    BY DEF IsWork
  <2> QED BY <1>7, <1>8, <2>1 DEF Working, PoolShape
<1>10. ~IsUploading'
  BY <1>7 DEF IsUploading
<1>11. /\ \A d \in Client : Mine(d)' => Mine(d) \/ d = c
       /\ \A d \in Client : Mine(d) => Mine(d)'
       /\ work' # work => \A d \in Client : Mine(d)' => Mine(d)
  BY <1>1, <1>3, <1>7 DEF Mine, Entries, Registered
<1> QED BY <1>9, <1>10, <1>11 DEF c

\* A client registers.
LEMMA RegistersServed ==
  ASSUME Serving, NEW s \in Shards, RegistersInStep(s)
  PROVE  Served
<1> DEFINE c == FreshId
           m == [type |-> "client", id |-> c, shard |-> s, random |-> RandomOf[c]]
<1>1. /\ Validation_Map[s] # Nil \/ OwedRoots = {}
      /\ assigned[s] > 0 /\ \E d \in Client : seat[d] = "none"
      /\ assigned' = [assigned EXCEPT ![s] = @ - 1]
      /\ Join(c, s, RandomOf[c])
      /\ UNCHANGED <<books, money>> /\ work' = work
      /\ outbox' = Append(outbox, m) /\ UNCHANGED <<linked, inbox>>
  BY ClientIs DEF Serving, RegistersInStep, Registers, Forwarding, OnlyJoins,
     RegisterCommunication
<1>2. c \in Client /\ seat[c] = "none"
  BY <1>1 DEF FreshId
<1>3. /\ Sound(Shared) /\ Working /\ assigned \in [Shards -> Nat]
      /\ ~IsUploading /\ Winner = None
      /\ \A d \in Client : seat[d] = "nil" => client[d].round < round
  BY <1>1 DEF Serving, Steady
<1>4. \A d \in Entries(s, round) : seat[d] = "exec"
  <2>1. seat \in [Client -> Seats] /\ round \in Nat
    BY <1>3, SharedField DEF Sound
  <2> QED BY <1>3, <2>1 DEF Entries, Registered, Seats
<1>5. m.type = "client" /\ m.id = c /\ m.shard = s /\ m.random = RandomOf[c]
  OBVIOUS
<1>6. c = CHOOSE d \in Client : Shared.seat[d] = "none"
  BY SharedField DEF FreshId
<1> HIDE DEF m, c
<1>7. /\ Shared' = Joined(Shared, c, s, RandomOf[c])
      /\ Fills(Shared, s) =>
           /\ Smallest(NewClient(Shared, c, s, RandomOf[c]), Group(Shared, c, s)) # {}
           /\ Cardinality(Members(Shared, c, s, RandomOf[c])) = ShardNum
                => Smallest(NewClient(Shared, c, s, RandomOf[c]),
                            Members(Shared, c, s, RandomOf[c])) # {}
  BY <1>1, <1>2, <1>3, <1>4, JoinEffect
<1>8. Shared' = After(m, Shared)
  BY <1>5, <1>7, AfterIs
<1>9. Good(m, Shared)
  <2>1. /\ Shared.seat[c] = "none" /\ Shared.Winner = None
        /\ \A d \in EntriesAt(Shared, s, Shared.round) : Shared.seat[d] = "exec"
        /\ Shared.Validation_Map[s] # Nil \/ OwedAt(Shared) = {}
    BY <1>1, <1>2, <1>3, <1>4, SharedField, SharedGroups
  <2> QED BY <1>2, <1>5, <1>6, <1>7, <2>1 DEF Good
<1>10. PoolShape'
  BY <1>1, <1>2, ClientIs DEF PoolShape, books
<1>11. /\ Working' /\ ~IsUploading'
       /\ \A d \in Client : Mine(d)' => Mine(d) \/ d = c
       /\ \A d \in Client : Mine(d) => Mine(d)'
  BY <1>1, <1>3, <1>5, <1>8, <1>9, <1>10, JoinWorks
<1>12. Sound(Shared')
  BY <1>3, <1>8, <1>9, AfterSound
<1>13. Done = Shared /\ Done' = Shared'
  BY <1>3, <1>11, DoneIs, DoneNextIs
<1>14. Sends(m)
  BY <1>1, <1>5, <1>8, <1>9, <1>13 DEF Sends, Awaited
<1>15. assigned' \in [Shards -> Nat] /\ lockHeld' = lockHeld
  <2>1. lockHeld' = lockHeld
    BY <1>1 DEF Join
  <2> QED BY <1>1, <1>3, <2>1
<1> QED BY <1>1, <1>2, <1>11, <1>12, <1>14, <1>15 DEF Served

\* A client is told a shard.
LEMMA AssignsServed ==
  ASSUME Serving, Assigns
  PROVE  Served
<1>1. PICK s \in Shards :
        Forwarding(OnlyJoins(AssignShardNum) /\ NodeNum'[s] # NodeNum[s],
                   [type |-> "NodeNum", shard |-> s])
  BY DEF Assigns
<1> DEFINE m == [type |-> "NodeNum", shard |-> s]
<1>2. /\ AssignShardNum /\ NodeNum'[s] # NodeNum[s]
      /\ UNCHANGED <<books, money>> /\ work' = work
      /\ outbox' = Append(outbox, m) /\ UNCHANGED <<linked, inbox>>
  BY <1>1 DEF Serving, Forwarding, OnlyJoins
<1>3. PICK t \in Shards :
        /\ NodeNum[t] # CLIENT_MAX
        /\ \A u \in Shards : u < t => NodeNum[u] = CLIENT_MAX
        /\ NodeNum' = [NodeNum EXCEPT ![t] = @ + 1]
        /\ assigned' = [assigned EXCEPT ![t] = @ + 1]
        /\ UNCHANGED <<round, groups, Validation_Map, Winner, votes, lockHeld>>
  BY <1>2 DEF AssignShardNum
<1>4. ~IsUploading
  BY <1>3, WhoPosts DEF Serving, Working, Fits
<1>5. /\ Sound(Shared) /\ Working /\ assigned \in [Shards -> Nat]
      /\ NodeNum \in [Shards -> Nat]
  BY <1>4 DEF Serving, Steady
<1>6. s = t
  BY <1>2, <1>3, <1>5
<1>7. UNCHANGED <<round, client, seat, Consensus_Map, Validation_Map, Winner,
                  NewRootsVote, RootsVote, books, money>>
  BY <1>2, <1>3 DEF groups, votes
<1>8. Shared' = [Shared EXCEPT !.NodeNum = [Shared.NodeNum EXCEPT ![s] = @ + 1]]
  BY <1>3, <1>6, <1>7, NodeEffect
<1>9. m.type = "NodeNum" /\ m.shard = s
  OBVIOUS
<1> HIDE DEF m
<1>10. Shared' = After(m, Shared)
  BY <1>8, <1>9, AfterIs
<1>11. Good(m, Shared)
  BY <1>3, <1>6, <1>9, SharedField DEF Good
<1>12. ~IsUploading'
  BY <1>2, <1>4 DEF IsUploading
<1>13. Done = Shared /\ Done' = Shared'
  BY <1>4, <1>5, <1>12, DoneIs, DoneNextIs
<1>14. Sends(m)
  BY <1>2, <1>3, <1>6, <1>9, <1>10, <1>11, <1>13 DEF Sends, Awaited
<1>15. Working'
  <2>1. \A d \in Client : work[d].step # "uploading"
    BY <1>4 DEF IsUploading
  <2>2. \A d \in Client : IsWork(work[d])' /\ Fits(d, work[d])'
    BY <1>2, <1>5, <1>7, <2>1 DEF books, Working, Fits, IsWork
  <2> QED BY <1>2, <1>5, <1>7, <2>2 DEF Working, books
<1>16. \A d \in Client : Mine(d)' <=> Mine(d)
  BY <1>2, <1>7 DEF Mine
<1>17. Sound(Shared')
  BY <1>5, <1>10, <1>11, AfterSound
<1>18. assigned' \in [Shards -> Nat] /\ lockHeld' = lockHeld
  BY <1>3, <1>5
<1> QED BY <1>2, <1>14, <1>15, <1>16, <1>17, <1>18 DEF Served

-----------------------------------------------------------------------------
(***************************************************************************)
(* Whatever a server takes is served: the peer can be told of it.          *)
(***************************************************************************)
\* A request either changes nothing the peer shares, or writes one message that the
\* peer may read, and changes the shared state exactly as that message does.
THEOREM Serves ==
  ASSUME Serving, Requests \/ Assigns
  PROVE  Served
<1>1. CASE \E s \in Shards : RegistersInStep(s)
  BY <1>1, RegistersServed
<1>2. ASSUME NEW c \in Client,
             \/ Packs(c)
             \/ ForwardsWitness(c)
             \/ Alone(LeaderReadsHeight(c))
             \/ Alone(PackAccount(c))
             \/ Proposes(c)
             \/ Votes(c)
             \/ OwedRoots = {} /\ work[c].vote >= MinVote /\ ForwardsBlock(c)
             \/ \E root \in Root : ForwardsRoot(c, root)
      PROVE  Served
  <2>1. CASE Packs(c)
    BY <2>1, ExecutorPacksServed, LeaderPacksServed, PackValidServed DEF Packs
  <2>2. CASE ForwardsWitness(c)
    BY <2>2, WitnessServed
  <2>3. CASE Alone(LeaderReadsHeight(c))
    BY <2>3, LeaderReadsServed
  <2>4. CASE Alone(PackAccount(c))
    BY <2>4, PackAccountServed
  <2>5. CASE Proposes(c)
    BY <2>5, ProposesServed
  <2>6. CASE Votes(c)
    BY <2>6, VotesServed
  <2>7. CASE OwedRoots = {} /\ work[c].vote >= MinVote /\ ForwardsBlock(c)
    BY <2>7, PostsServed
  <2>8. CASE \E root \in Root : ForwardsRoot(c, root)
    BY <2>8, RootServed
  <2> QED BY <1>2, <2>1, <2>2, <2>3, <2>4, <2>5, <2>6, <2>7, <2>8
<1>3. CASE Assigns
  BY <1>3, AssignsServed
<1> QED BY <1>1, <1>2, <1>3 DEF Requests
-----------------------------------------------------------------------------
(***************************************************************************)
(* The second half of an upload, and what the goroutine repeats.           *)
(***************************************************************************)
\* Clients still fit when a round is over.
LEMMA RoundOver ==
  ASSUME Working, Sound(Shared), PoolShape', UNCHANGED <<client, seat>>,
         round' = round + 1, Winner' = None,
         work' = [d \in Client |-> work'[d]],
         \A d \in Client :
           \/ work'[d] = work[d] /\ work[d].step # "uploading"
           \/ IsWork(work'[d]) /\ work'[d].step = "uploaded" /\ work[d].step = "uploading"
  PROVE  /\ Working' /\ ~IsUploading'
         /\ \A d \in Client : Mine(d)' <=> Mine(d)
<1>1. \A d \in Client : IsWork(work[d]) /\ Fits(d, work[d])
  BY DEF Working
<1>2. \A d \in Client : client[d].round \in Nat /\ client[d].round <= round /\ round \in Nat
  BY SharedField DEF Sound
<1>3. None \notin Client
  BY MembershipAssumption DEF MembershipAssumption
<1>4. ASSUME NEW d \in Client
      PROVE  IsWork(work'[d]) /\ Fits(d, work[d])'
  <2>1. client[d].round # round' /\ Winner' # d /\ (client[d].round < round => client[d].round < round')
    BY <1>2, <1>3
  <2>2. CASE work'[d] = work[d] /\ work[d].step # "uploading"
    BY <1>1, <2>1, <2>2 DEF Fits
  <2>3. CASE IsWork(work'[d]) /\ work'[d].step = "uploaded" /\ work[d].step = "uploading"
    BY <1>1, <2>1, <2>3 DEF Fits
  <2> QED BY <2>2, <2>3
<1>5. \A d \in Client : IsWork(work[d])' <=> IsWork(work'[d])
  BY DEF IsWork
<1>6. Working'
  BY <1>4, <1>5 DEF Working, PoolShape
<1>7. ~IsUploading'
  BY DEF IsUploading
<1>8. \A d \in Client : Mine(d)' <=> Mine(d)
  BY DEF Mine
<1> QED BY <1>6, <1>7, <1>8

\* The leader's own server takes the block it has announced.
LEMMA Finished ==
  ASSUME Working, Sound(Shared), NEW c \in Client, FinishesUpload(c)
  PROVE  /\ IsUploading /\ ~IsUploading'
         /\ Shared' = Done /\ Done' = Done
         /\ Working' /\ Sound(Shared')
         /\ UNCHANGED <<assigned, lockHeld, linked, inbox, outbox>>
         /\ \A d \in Client : Mine(d)' <=> Mine(d)
<1> DEFINE w == [work[c] EXCEPT !.step = "uploaded"]
<1>1. /\ work[c].step = "uploading"
      /\ TakesBlock(work[c])
      /\ work' = [work EXCEPT ![c] = w]
      /\ UNCHANGED <<linked, inbox, outbox>>
  BY DEF FinishesUpload, At, Alone, Goes, links
<1>2. IsUploading /\ c = Winner
  BY <1>1, WhoPosts DEF IsUploading
<1>3. work = [d \in Client |-> work[d]] /\ PoolShape /\ IsWork(work[c]) /\ Fits(c, work[c])
  BY DEF Working, PoolShape
<1>4. work[c].height = height + 1 /\ work[c].vote >= MinVote
  BY <1>1, <1>2, <1>3 DEF Fits
<1>5. /\ PoolShape' /\ Shared' = Chained(Shared, work[c])
      /\ UNCHANGED <<assigned, client, seat, lockHeld>>
      /\ round' = round + 1 /\ Winner' = None
  BY <1>1, <1>3, <1>4, BlockEffect
<1>6. Shared' = Done
  BY <1>2, <1>5, DoneIs
<1>7. IsWork(w) /\ w.step = "uploaded"
  BY <1>3, StepSet
<1> HIDE DEF w
<1>8. /\ work' = [d \in Client |-> work'[d]]
      /\ work'[c] = w /\ \A d \in Client : d # c => work'[d] = work[d]
  BY <1>1, <1>3
<1>9. \A d \in Client :
        \/ work'[d] = work[d] /\ work[d].step # "uploading"
        \/ IsWork(work'[d]) /\ work'[d].step = "uploaded" /\ work[d].step = "uploading"
  BY <1>1, <1>2, <1>7, <1>8, WhoPosts
<1>10. /\ Working' /\ ~IsUploading'
       /\ \A d \in Client : Mine(d)' <=> Mine(d)
  BY <1>5, <1>8, <1>9, RoundOver
<1>11. Sound(Shared')
  BY <1>6, DoneSound
<1>12. Done' = Done
  BY <1>6, <1>10, DoneNextIs
<1> QED BY <1>1, <1>2, <1>5, <1>6, <1>10, <1>11, <1>12

\* The next message is there and can be read, and what it does.
Reads ==
  LET m == Head(inbox)
  IN  /\ Working /\ Sound(Shared) /\ ~IsUploading /\ ~lockHeld
      /\ Good(m, Shared)
      /\ m.type = "root" => ~Mine(m.id)

Repeats ==
  /\ Shared' = After(Head(inbox), Shared)
  /\ Working' /\ ~IsUploading'
  /\ UNCHANGED <<assigned, lockHeld>>
  /\ \A d \in Client : Mine(d)' <=> Mine(d)

\* Messages that change no client's work.
LEMMA WorkStays ==
  ASSUME Working, ~IsUploading, PoolShape', work' = work, UNCHANGED <<round, client, seat, Winner, height>>
  PROVE  /\ Working' /\ ~IsUploading'
         /\ \A d \in Client : Mine(d)' <=> Mine(d)
<1>1. \A d \in Client : work[d].step # "uploading"
  BY DEF IsUploading
<1>2. \A d \in Client : IsWork(work[d])' /\ Fits(d, work[d])'
  BY <1>1 DEF Working, Fits, IsWork
<1> QED BY <1>1, <1>2 DEF Working, PoolShape, IsUploading, Mine

\* Message 1, a client.
LEMMA AddsClientRepeats ==
  ASSUME Reads, Head(inbox).type = "client", AddsClient(Head(inbox))
  PROVE  Repeats
<1> DEFINE m == Head(inbox)
<1>1. /\ Good(m, Shared) /\ m.type = "client"
      /\ Working /\ Sound(Shared) /\ ~IsUploading
  BY DEF Reads
<1> HIDE DEF m
<1>2. /\ m.id \in Client /\ seat[m.id] = "none"
      /\ m.shard \in Shards /\ m.random = RandomOf[m.id]
      /\ \A c \in Entries(m.shard, round) : seat[c] = "exec"
  BY <1>1, SharedField, SharedGroups DEF Good
<1>3. ~ElectionPanics(m.shard)
  BY <1>2 DEF ElectionPanics
<1>4. /\ Join(m.id, m.shard, RandomOf[m.id])
      /\ work' = [work EXCEPT ![m.id].step = "away"]
      /\ UNCHANGED assigned /\ UNCHANGED <<books, money>>
  BY <1>2, <1>3 DEF AddsClient, m
<1>5. Shared' = After(m, Shared)
  <2>1. Shared' = Joined(Shared, m.id, m.shard, RandomOf[m.id])
    BY <1>1, <1>2, <1>4, JoinEffect
  <2> QED BY <1>1, <1>2, <2>1, AfterIs
<1>6. PoolShape'
  BY <1>1, <1>4 DEF books, Working, PoolShape
<1>7. work' # work
  <2>1. work[m.id].step = "idle" /\ work = [d \in Client |-> work[d]] /\ IsWork(work[m.id])
    BY <1>1, <1>2 DEF Working, Fits
  <2>2. work'[m.id] = [work[m.id] EXCEPT !.step = "away"]
    BY <1>2, <1>4, <2>1
  <2>3. work'[m.id].step = "away"
    BY <2>1, <2>2, StepSet
  <2> QED BY <2>1, <2>3
<1>8. /\ Working' /\ ~IsUploading'
      /\ \A d \in Client : Mine(d)' => Mine(d)
      /\ \A d \in Client : Mine(d) => Mine(d)'
  BY <1>1, <1>4, <1>5, <1>6, <1>7, JoinWorks
<1>9. lockHeld' = lockHeld
  BY <1>4 DEF Join
<1> QED BY <1>4, <1>5, <1>8, <1>9 DEF Repeats, m

\* Message 4, a slot.
LEMMA CountsNodeRepeats ==
  ASSUME Reads, Head(inbox).type = "NodeNum", CountsNode(Head(inbox))
  PROVE  Repeats
<1> DEFINE m == Head(inbox)
<1>1. /\ NodeNum' = [NodeNum EXCEPT ![m.shard] = @ + 1]
      /\ UNCHANGED <<round, client, seat, Consensus_Map, Validation_Map, Winner,
                     NewRootsVote, RootsVote, books, money>>
      /\ UNCHANGED <<assigned, lockHeld>> /\ work' = work /\ m.type = "NodeNum"
  BY DEF CountsNode, groups, votes
<1> HIDE DEF m
<1>2. Shared' = [Shared EXCEPT !.NodeNum = [Shared.NodeNum EXCEPT ![m.shard] = @ + 1]]
  BY <1>1, NodeEffect
<1>3. Shared' = After(m, Shared)
  BY <1>1, <1>2, AfterIs
<1>4. PoolShape' /\ height' = height
  BY <1>1 DEF books, Reads, Working, PoolShape
<1>5. Working' /\ ~IsUploading' /\ \A d \in Client : Mine(d)' <=> Mine(d)
  BY <1>1, <1>4, WorkStays DEF Reads
<1> QED BY <1>1, <1>3, <1>5 DEF Repeats, m

\* Message 5, a pack.
LEMMA PacksTooRepeats ==
  ASSUME Reads, Head(inbox).type = "pack", PacksToo(Head(inbox))
  PROVE  Repeats
<1> DEFINE m == Head(inbox)
           h == m.height + 1
<1>1. /\ pool' = Books!Packed(m.stage, Shards, h)
      /\ UNCHANGED vars /\ UNCHANGED <<height, chain, WitnessCount, money>>
      /\ work' = work /\ m.type = "pack"
  BY DEF PacksToo
<1>2. m.stage \in {0, 1, 2}
  BY <1>1 DEF Reads, Good
<1>3. PoolShape
  BY DEF Reads, Working, PoolShape
<1> HIDE DEF m
<1>4. Shared' = After(m, Shared) /\ PoolShape'
  <2>1. UNCHANGED <<round, NodeNum, client, seat, Consensus_Map, Validation_Map, Winner,
                    NewRootsVote, RootsVote, height, chain, WitnessCount, money>>
    BY <1>1, UntouchedIs
  <2>2. CASE m.stage \in {0, 1}
    <3>1. /\ PoolShape'
          /\ m.stage = 0 => Shared' = [Shared EXCEPT !.original = PackedFor(Shared.original, h)]
          /\ m.stage = 1 => Shared' = [Shared EXCEPT !.witnessed = PackedFor(Shared.witnessed, h)]
      <4> HIDE DEF h
      <4> QED BY <1>1, <1>3, <2>1, <2>2, PackEffect
    <3> QED BY <1>1, <2>2, <3>1, AfterIs
  <2>3. CASE m.stage = 2
    <3>1. PoolShape' /\ Shared' = Shared
      BY <1>1, <1>3, <2>1, <2>3, ValidPackEffect
    <3> QED BY <1>1, <2>3, <3>1, AfterIs
  <2> QED BY <1>2, <2>2, <2>3
<1>5. UNCHANGED <<round, client, seat, Winner, height>> /\ UNCHANGED <<assigned, lockHeld>>
  BY <1>1, UntouchedIs
<1>6. Working' /\ ~IsUploading' /\ \A d \in Client : Mine(d)' <=> Mine(d)
  BY <1>1, <1>4, <1>5, WorkStays DEF Reads
<1> QED BY <1>4, <1>5, <1>6 DEF Repeats, m

\* Message 7, a witness.
LEMMA CountsWitnessRepeats ==
  ASSUME Reads, Head(inbox).type = "witness", CountsWitness(Head(inbox))
  PROVE  Repeats
<1> DEFINE m == Head(inbox)
<1>1. /\ Books!Witnessed(m.lists)
      /\ UNCHANGED vars /\ UNCHANGED <<height, chain, money>>
      /\ work' = work /\ m.type = "witness"
  BY DEF CountsWitness
<1> HIDE DEF m
<1>2. PoolShape
  BY DEF Reads, Working, PoolShape
<1>3. /\ UNCHANGED <<round, client, seat, Winner, height>> /\ UNCHANGED <<assigned, lockHeld>>
      /\ UNCHANGED <<round, NodeNum, client, seat, Consensus_Map, Validation_Map, Winner,
                     NewRootsVote, RootsVote, height, chain, money>>
  BY <1>1, UntouchedIs
<1>4. PoolShape' /\ Shared' = Recorded(Shared, m.lists)
  BY <1>1, <1>2, <1>3, WitnessEffect
<1>5. Shared' = After(m, Shared)
  BY <1>1, <1>4, AfterIs
<1>6. Working' /\ ~IsUploading' /\ \A d \in Client : Mine(d)' <=> Mine(d)
  BY <1>1, <1>3, <1>4, WorkStays DEF Reads
<1> QED BY <1>3, <1>5, <1>6 DEF Repeats, m

\* Message 6, a block that was uploaded.
LEMMA TakesBlockTooRepeats ==
  ASSUME Reads, Head(inbox).type = "upload", TakesBlockToo(Head(inbox))
  PROVE  Repeats
<1> DEFINE m == Head(inbox)
<1>1. /\ m.type = "upload" /\ Good(m, Shared) /\ TakesBlockToo(m)
      /\ Working /\ Sound(Shared) /\ ~IsUploading
  BY DEF Reads
<1> HIDE DEF m
<1>2. m.id = Winner /\ m.block.height = height + 1 /\ m.block.vote >= MinVote
  BY <1>1, SharedField DEF Good
<1>3. TakesBlock(m.block) /\ work' = work
  BY <1>1, <1>2 DEF TakesBlockToo
<1>4. PoolShape /\ work = [d \in Client |-> work[d]] /\ \A d \in Client : work[d].step # "uploading"
  BY <1>1 DEF Working, PoolShape, IsUploading
<1>5. /\ PoolShape' /\ Shared' = Chained(Shared, m.block)
      /\ UNCHANGED <<assigned, client, seat, lockHeld>>
      /\ round' = round + 1 /\ Winner' = None
  BY <1>1, <1>2, <1>3, <1>4, BlockEffect
<1>6. Shared' = After(m, Shared)
  BY <1>1, <1>5, AfterIs
<1>7. Working' /\ ~IsUploading' /\ \A d \in Client : Mine(d)' <=> Mine(d)
  BY <1>1, <1>3, <1>4, <1>5, RoundOver
<1> QED BY <1>5, <1>6, <1>7 DEF Repeats, m

\* Message 8, a root.
LEMMA TakesRootTooRepeats ==
  ASSUME Reads, Head(inbox).type = "root", TakesRootToo(Head(inbox))
  PROVE  Repeats
<1> DEFINE m == Head(inbox)
<1>1. /\ m.type = "root" /\ Good(m, Shared) /\ TakesRoot(m.id, m.root) /\ work' = work
      /\ Working /\ Sound(Shared) /\ ~IsUploading /\ ~Mine(m.id)
  BY DEF Reads, TakesRootToo
<1> HIDE DEF m
<1>2. m.id \in Client /\ seat[m.id] = "exec" /\ client[m.id].round < round /\ IsValidator(m.id)
  BY <1>1, SharedField, SharedGroups DEF Good, OwedRoots, IsValidator
<1>3. /\ Shared' = Reported(Shared, m.id, m.root)
      /\ UNCHANGED <<pool, assigned, lockHeld, round, client, Winner, height, NodeNum>>
      /\ seat' = [seat EXCEPT ![m.id] = "nil"]
  BY <1>1, <1>2, RootEffect
<1>4. Shared' = After(m, Shared)
  BY <1>1, <1>3, AfterIs
<1>5. work[m.id].step = "away"
  BY <1>1, <1>2 DEF Mine
<1>6. /\ seat'[m.id] = "nil" /\ \A d \in Client : d # m.id => seat'[d] = seat[d]
  BY <1>1, <1>2, <1>3, SharedField DEF Sound
<1>7. \A d \in Client : work[d].step # "uploading"
  BY <1>1 DEF IsUploading
<1>8. \A d \in Client : IsWork(work[d])' /\ Fits(d, work[d])'
  <2> TAKE d \in Client
  <2>1. CASE d = m.id
    BY <1>1, <1>3, <1>5, <1>6, <2>1 DEF Working, Fits, IsWork
  <2>2. CASE d # m.id
    BY <1>1, <1>3, <1>6, <1>7, <2>2 DEF Working, Fits, IsWork
  <2> QED BY <2>1, <2>2
<1>9. Working' /\ ~IsUploading'
  BY <1>1, <1>3, <1>7, <1>8 DEF Working, IsUploading
<1>10. \A d \in Client : Mine(d)' <=> Mine(d)
  BY <1>1, <1>2, <1>6 DEF Mine
<1> QED BY <1>3, <1>4, <1>9, <1>10 DEF Repeats, m
\* Messages that change clients' work only.
LEMMA WorkChanges ==
  ASSUME Reads, UNCHANGED <<vars, books, money>>,
         work' = [d \in Client |-> work'[d]],
         \A d \in Client : IsWork(work'[d]) /\ Fits(d, work'[d]),
         \A d \in Client : work'[d].step # "uploading",
         \A d \in Client : work'[d].step = "away" <=> work[d].step = "away",
         Head(inbox).type \in {"block", "vote"}
  PROVE  Repeats
<1>1. UNCHANGED vars /\ UNCHANGED <<pool, height, chain, WitnessCount, money>>
  BY DEF books
<1>2. /\ UNCHANGED Standing /\ UNCHANGED <<assigned, lockHeld>>
      /\ UNCHANGED <<round, NodeNum, client, seat, Consensus_Map, Validation_Map, Winner,
                     NewRootsVote, RootsVote, height, chain, WitnessCount, money>>
  BY <1>1, UntouchedIs
<1>3. PoolShape'
  BY <1>1 DEF Reads, Working, PoolShape
<1>4. Shared' = Shared
  BY <1>1, <1>2, NothingShared
<1>5. Shared' = After(Head(inbox), Shared)
  BY <1>4, AfterIs
<1>6. Working' /\ ~IsUploading'
  BY <1>2, <1>3, WorksFit DEF Reads, IsUploading
<1>7. \A d \in Client : Mine(d)' <=> Mine(d)
  BY <1>2 DEF Mine
<1> QED BY <1>2, <1>5, <1>6, <1>7 DEF Repeats

\* Message 2, a block to vote on.
LEMMA PassesBlockRepeats ==
  ASSUME Reads, Head(inbox).type = "block", PassesBlock
  PROVE  Repeats
<1>1. Winner # None /\ Working /\ ~IsUploading
  BY SharedField DEF Reads, Good
<1>2. \A d \in Client : IsWork(work[d]) /\ Fits(d, work[d]) /\ work[d].step # "uploading"
  BY <1>1 DEF Working, IsUploading
<1>3. work' = [c \in Client |->
         IF c \in Asked THEN [work[c] EXCEPT !.step = "asked"] ELSE work[c]]
      /\ UNCHANGED <<vars, books, money>>
  BY DEF PassesBlock
<1>4. ASSUME NEW d \in Client
      PROVE  /\ IsWork(work'[d]) /\ Fits(d, work'[d])
             /\ work'[d].step # "uploading"
             /\ work'[d].step = "away" <=> work[d].step = "away"
  <2>1. CASE d \in Asked
    <3>1. work'[d] = [work[d] EXCEPT !.step = "asked"] /\ work[d].step = "idle"
      BY <1>3, <2>1 DEF Asked
    <3>2. IsWork(work'[d]) /\ work'[d].step = "asked"
      BY <1>2, <3>1, StepSet
    <3>3. seat[d] = "committee"
      BY <2>1 DEF Asked, Committee
    <3> QED BY <1>1, <3>1, <3>2, <3>3 DEF Fits
  <2>2. CASE d \notin Asked
    BY <1>2, <1>3, <2>2
  <2> QED BY <2>1, <2>2
<1>5. work' = [d \in Client |-> work'[d]]
  BY <1>3
<1> QED BY <1>3, <1>4, <1>5, WorkChanges

\* Message 3, a vote.
LEMMA PassesVoteRepeats ==
  ASSUME Reads, Head(inbox).type = "vote", PassesVote(Head(inbox))
  PROVE  Repeats
<1> DEFINE m == Head(inbox)
           v == [work[m.id] EXCEPT !.vote = work[m.id].vote + 1]
<1>1. /\ Good(m, Shared) /\ m.type = "vote" /\ Working /\ ~IsUploading /\ PassesVote(m)
  BY DEF Reads
<1> HIDE DEF m
<1>2. m.id \in Committee /\ m.id \in Client
  BY <1>1, SharedGroups DEF Good, Committee
<1>3. /\ work' = work \/ work' = [work EXCEPT ![m.id] = v]
      /\ UNCHANGED <<vars, books, money>>
  BY <1>1, <1>2 DEF PassesVote
<1>4. /\ work = [d \in Client |-> work[d]]
      /\ \A d \in Client : IsWork(work[d]) /\ Fits(d, work[d]) /\ work[d].step # "uploading"
  BY <1>1 DEF Working, IsUploading
<1>5. /\ IsWork(v) /\ v.step = work[m.id].step
      /\ v.lists = work[m.id].lists /\ v.height = work[m.id].height
  BY <1>2, <1>4, VoteSet
<1> HIDE DEF v
<1>6. Fits(m.id, v)
  <2>1. Fits(m.id, work[m.id]) /\ work[m.id].step # "uploading"
    BY <1>2, <1>4
  <2> QED BY <1>5, <2>1 DEF Fits
<1>7. /\ work' = [d \in Client |-> work'[d]]
      /\ \A d \in Client : work'[d] = work[d] \/ (d = m.id /\ work'[d] = v)
  BY <1>2, <1>3, <1>4
<1>8. \A d \in Client :
        /\ IsWork(work'[d]) /\ Fits(d, work'[d])
        /\ work'[d].step # "uploading"
        /\ work'[d].step = "away" <=> work[d].step = "away"
  BY <1>4, <1>5, <1>6, <1>7
<1>9. Head(inbox).type \in {"block", "vote"}
  BY <1>1 DEF m
<1> QED BY <1>3, <1>7, <1>8, <1>9, WorkChanges

\* Whatever the peer did is repeated here, and the goroutine lives on: each of the
\* eight messages changes the shared state as it did where it was written.
THEOREM Applied ==
  ASSUME Reads, Apply
  PROVE  /\ Repeats
         /\ inbox # <<>> /\ inbox' = Tail(inbox) /\ UNCHANGED <<linked, outbox>>
<1> DEFINE m == Head(inbox)
<1>1. inbox # <<>> /\ inbox' = Tail(inbox) /\ UNCHANGED <<linked, outbox>>
  BY DEF Apply
<1>2. /\ m.type = "client" => AddsClient(m)
      /\ m.type = "block" => PassesBlock
      /\ m.type = "vote" => PassesVote(m)
      /\ m.type = "NodeNum" => CountsNode(m)
      /\ m.type = "pack" => PacksToo(m)
      /\ m.type = "upload" => TakesBlockToo(m)
      /\ m.type = "witness" => CountsWitness(m)
      /\ m.type = "root" => TakesRootToo(m)
  BY DEF Apply
<1>3. m.type \in {"client", "block", "vote", "NodeNum", "pack", "upload", "witness", "root"}
  BY DEF Reads, Good
<1>4. Repeats
  BY <1>2, <1>3, AddsClientRepeats, PassesBlockRepeats, PassesVoteRepeats, CountsNodeRepeats,
     PacksTooRepeats, TakesBlockTooRepeats, CountsWitnessRepeats, TakesRootTooRepeats
<1> QED BY <1>1, <1>4

-----------------------------------------------------------------------------
(***************************************************************************)
(* At the start, and while the peer moves.                                 *)
(***************************************************************************)
LEMMA StartPool ==
  /\ Books!MakePool \in Pool /\ NoRelay(Books!MakePool)
  /\ \A s \in Shards :
       [Books!MakePool EXCEPT !.Channel = Books!Initially[s]] \in Pool
       /\ NoRelay([Books!MakePool EXCEPT !.Channel = Books!Initially[s]])
<1>1. Books!Empty \in [Books!Kinds -> Seq(Tx)] /\ Books!Empty["Relay"] = <<>>
  BY EmptySeq DEF Books!Empty, Books!Kinds
<1>2. Books!MakePool \in Pool /\ NoRelay(Books!MakePool)
      /\ Books!MakePool.List = Books!Empty
  BY <1>1 DEF Books!MakePool, Pool, NoRelay
<1>3. ASSUME NEW s \in Shards
      PROVE  Books!Initially[s] \in [Books!Kinds -> Seq(Tx)] /\ Books!Initially[s]["Relay"] = <<>>
  <2>1. ASSUME NEW k \in Books!Kinds, NEW n \in Nat
        PROVE  Books!Made(s, k, n) \in Seq(Tx)
    <3>1. \A i \in 1 .. n : <<s, k, i>> \in Tx
      BY <2>1 DEF Tx
    <3>2. [i \in 1 .. n |-> <<s, k, i>>] \in [1 .. n -> Tx]
      BY <3>1
    <3> QED BY <3>2, SeqDef DEF Books!Made
  <2>2. Books!Initially[s] =
          [k \in Books!Kinds |-> CASE k = "Internal"   -> Books!Made(s, k, IntNum)
                                   [] k = "CrossShard" -> Books!Made(s, k, CroNum)
                                   [] k = "Relay"      -> <<>>]
    BY DEF Books!Initially, Books!Shards, Shards
  <2>3. IntNum \in Nat /\ CroNum \in Nat
    BY ServerAssumption DEF ServerAssumption
  <2>4. "Internal" \in Books!Kinds /\ "CrossShard" \in Books!Kinds /\ "Relay" \in Books!Kinds
        /\ \A k \in Books!Kinds : k \in {"Internal", "CrossShard", "Relay"}
    BY DEF Books!Kinds
  <2>5. Books!Made(s, "Internal", IntNum) \in Seq(Tx)
        /\ Books!Made(s, "CrossShard", CroNum) \in Seq(Tx)
        /\ <<>> \in Seq(Tx)
    BY <2>1, <2>3, <2>4, EmptySeq
  <2>6. Books!Initially[s]["Relay"] = <<>>
    BY <2>2, <2>4
  <2> QED BY <2>2, <2>4, <2>5, <2>6
<1>4. ASSUME NEW x \in [Books!Kinds -> Seq(Tx)], x["Relay"] = <<>>
      PROVE  LET p == [Books!MakePool EXCEPT !.Channel = x] IN p \in Pool /\ NoRelay(p)
  BY <1>1, <1>2, <1>4 DEF Books!MakePool, Pool, NoRelay
<1> QED BY <1>2, <1>3, <1>4

\* A server that has just started.
LEMMA StartsSound ==
  ASSUME PeerInit
  PROVE  /\ Working /\ Sound(Shared) /\ ~IsUploading /\ Done = Shared
         /\ assigned = [s \in Shards |-> 0] /\ ~linked /\ ~lockHeld
         /\ inbox = <<>> /\ outbox = <<>>
         /\ \A c \in Client : ~Mine(c)
<1>1. /\ Init /\ work = [c \in Client |-> NoWork] /\ Books!LedgerInit
      /\ linked = FALSE /\ inbox = <<>> /\ outbox = <<>>
  BY DEF PeerInit, HorizonInit
<1>2. /\ round = 1 /\ Winner = None /\ lockHeld = FALSE
      /\ client = [c \in Client |-> [shard |-> 0, round |-> 0, random |-> 0]]
      /\ seat = [c \in Client |-> "none"]
      /\ assigned = [s \in Shards |-> 0]
  BY <1>1 DEF Init
<1>3. IsWork(NoWork) /\ NoWork.step = "idle"
  <2> DEFINE e == [s \in Shards |-> Empty]
  <2>1. e \in Lists
    BY EmptySeq DEF Lists, Empty, Kinds, Books!Kinds
  <2> HIDE DEF e
  <2>2. NoWork = [step |-> "idle", lists |-> e, height |-> 0,
                  vote |-> 0, votes |-> [s \in Shards |-> 0]]
    BY DEF NoWork, e
  <2> QED BY <2>1, <2>2 DEF IsWork, WorkFields
<1>4. \A c \in Client : work[c] = NoWork
  BY <1>1
<1>5. ~IsUploading /\ \A c \in Client : ~Mine(c)
  BY <1>2, <1>3, <1>4 DEF IsUploading, Mine
<1>6. height = 0 /\ PoolShape /\ pool[0] \in [Shards -> Pool] /\ pool[1] \in [Shards -> Pool]
      /\ \A s \in Shards : NoRelay(pool[0][s])
  <2>1. /\ height = 0
        /\ pool = [stage \in 0 .. 2 |-> [s \in Shards |->
             IF stage = 0 THEN [Books!MakePool EXCEPT !.Channel = Books!Initially[s]]
             ELSE Books!MakePool]]
    BY <1>1 DEF Books!LedgerInit, Books!Init, Books!Stages, Books!Shards, Shards
  <2>2. /\ Books!MakePool \in Pool /\ NoRelay(Books!MakePool)
        /\ \A s \in Shards :
             [Books!MakePool EXCEPT !.Channel = Books!Initially[s]] \in Pool
             /\ NoRelay([Books!MakePool EXCEPT !.Channel = Books!Initially[s]])
    BY StartPool
  <2>3. PoolShape
    BY <2>1 DEF PoolShape
  <2>4. /\ \A s \in Shards :
             pool[0][s] = [Books!MakePool EXCEPT !.Channel = Books!Initially[s]]
             /\ pool[1][s] = Books!MakePool
        /\ pool[0] = [s \in Shards |-> pool[0][s]]
        /\ pool[1] = [s \in Shards |-> pool[1][s]]
    BY <2>1
  <2> QED BY <2>1, <2>2, <2>3, <2>4
<1>7. Working
  BY <1>1, <1>2, <1>3, <1>4, <1>6 DEF Working, Fits, PoolShape
<1>8. Sound(Shared)
  <2>1. IsShared(Shared)
    BY SharedIsShared
  <2>2. client \in [Client -> [shard : 0 .. ShardNum, round : Nat, random : Int]]
    BY <1>2, MembershipAssumption DEF MembershipAssumption
  <2>3. seat \in [Client -> Seats]
    BY <1>2 DEF Seats
  <2> QED BY <1>2, <1>6, <2>1, <2>2, <2>3, SharedField DEF Sound
<1>9. Done = Shared
  BY <1>5, <1>7, DoneIs
<1> QED BY <1>1, <1>2, <1>5, <1>7, <1>8, <1>9

\* What the peer does with its own variables leaves this server's as they are.
LEMMA StillWorking ==
  ASSUME UNCHANGED <<serverVars>>
  PROVE  /\ Working' <=> Working
         /\ Shared' = Shared /\ Done' = Done
         /\ IsUploading' <=> IsUploading
         /\ \A c \in Client : Mine(c)' <=> Mine(c)
         /\ UNCHANGED <<assigned, lockHeld, round, seat, client>>
<1>1. UNCHANGED <<round, NodeNum, assigned, client, seat, Consensus_Map, Validation_Map, Winner,
                  NewRootsVote, RootsVote, lockHeld, pool, height, chain, WitnessCount,
                  AccountMap, NewAccountMap, Value, StateRoot, work>>
  BY DEF serverVars, vars, groups, votes, books, money
<1>2. Shared' = Shared
  BY <1>1 DEF Shared
<1>3. \A c \in Client : (Fits(c, work[c])' <=> Fits(c, work[c])) /\ (IsWork(work[c])' <=> IsWork(work[c]))
  BY <1>1 DEF Fits, IsWork, OwedRoots
<1>4. Working' <=> Working
  BY <1>1, <1>3 DEF Working
<1>5. IsUploading' <=> IsUploading
  BY <1>1 DEF IsUploading
<1>6. Posted' = Posted
  BY <1>1 DEF Posted
<1>7. Done' = Done
  BY <1>2, <1>5, <1>6 DEF Done
<1>8. \A c \in Client : Mine(c)' <=> Mine(c)
  BY <1>1 DEF Mine
<1> QED BY <1>1, <1>2, <1>4, <1>5, <1>7, <1>8
-----------------------------------------------------------------------------
(***************************************************************************)
(* The messages that are on their way lead from the shared state of the    *)
(* server that reads them to that of the one that wrote them.              *)
(***************************************************************************)
\* The states that ms leads through, each of which lets its message be read.
Through(R, ms, a, b) ==
  /\ R[0] = a /\ R[Len(ms)] = b
  /\ \A i \in 1 .. Len(ms) : Good(ms[i], R[i - 1]) /\ R[i] = After(ms[i], R[i - 1])
  /\ \A i \in 0 .. Len(ms) : Sound(R[i]) /\ Before(R[i], b)

Leads(ms, a, b) == (\E S : ms \in Seq(S)) /\ \E R : Through(R, ms, a, b)

\* No messages lead from a state to itself,
LEMMA LeadsNowhere ==
  ASSUME NEW a, Sound(a)
  PROVE  Leads(<<>>, a, a)
<1> DEFINE R == [i \in {0} |-> a]
<1>1. R[0] = a /\ Len(<<>>) = 0 /\ <<>> \in Seq({})
  OBVIOUS
<1>2. Through(R, <<>>, a, a)
  <2> HIDE DEF R
  <2> QED BY <1>1, BeforeItself DEF Through
<1> QED BY <1>1, <1>2 DEF Leads

\* and to no other.
LEMMA LeadsToItself ==
  ASSUME NEW a, NEW b, Leads(<<>>, a, b)
  PROVE  a = b
BY DEF Leads, Through

\* Messages lead to later states.
LEMMA LeadsSound ==
  ASSUME NEW ms, NEW a, NEW b, Leads(ms, a, b)
  PROVE  /\ Sound(a) /\ Sound(b) /\ Before(a, b)
         /\ Len(ms) \in Nat /\ (ms = <<>> <=> Len(ms) = 0)
<1>1. PICK S : ms \in Seq(S)
  BY DEF Leads
<1>2. PICK R : Through(R, ms, a, b)
  BY DEF Leads
<1>3. Len(ms) \in Nat /\ (ms = <<>> <=> Len(ms) = 0)
  BY <1>1, EmptySeq
<1> QED BY <1>2, <1>3 DEF Through

\* One more message.
LEMMA LeadsAppend ==
  ASSUME NEW ms, NEW a, NEW b, Leads(ms, a, b), NEW m, Good(m, b)
  PROVE  Leads(Append(ms, m), a, After(m, b))
<1> DEFINE c  == After(m, b)
           ns == Append(ms, m)
<1>1. PICK S : ms \in Seq(S)
  BY DEF Leads
<1>2. PICK R : Through(R, ms, a, b)
  BY DEF Leads
<1> DEFINE n == Len(ms)
           T == [i \in 0 .. n + 1 |-> IF i = n + 1 THEN c ELSE R[i]]
<1>3. n \in Nat /\ ms \in Seq(S \cup {m})
  BY <1>1
<1>4. /\ ns \in Seq(S \cup {m}) /\ Len(ns) = n + 1 /\ ns[n + 1] = m
      /\ \A i \in 1 .. n : ns[i] = ms[i]
  BY <1>3
<1>5. Sound(b) /\ Sound(c) /\ Before(b, c)
  BY LeadsSound, AfterSound
<1>6. T[n + 1] = c /\ \A i \in 0 .. n : T[i] = R[i]
  BY <1>3
<1> HIDE DEF ns, T, n, c
<1>7. /\ R[0] = a /\ R[n] = b
      /\ \A i \in 1 .. n : Good(ms[i], R[i - 1]) /\ R[i] = After(ms[i], R[i - 1])
      /\ \A i \in 0 .. n : Sound(R[i]) /\ Before(R[i], b)
  BY <1>2 DEF Through, n
<1>8. ASSUME NEW i \in 1 .. n + 1
      PROVE  Good(ns[i], T[i - 1]) /\ T[i] = After(ns[i], T[i - 1])
  <2>1. CASE i = n + 1
    <3>1. T[i - 1] = b
      BY <1>3, <1>6, <1>7, <2>1
    <3> QED BY <1>4, <1>6, <2>1, <3>1 DEF c
  <2>2. CASE i # n + 1
    <3>1. i \in 1 .. n /\ i - 1 \in 0 .. n /\ i \in 0 .. n
      BY <1>3, <2>2
    <3> QED BY <1>4, <1>6, <1>7, <3>1
  <2> QED BY <2>1, <2>2
<1>9. ASSUME NEW i \in 0 .. n + 1
      PROVE  Sound(T[i]) /\ Before(T[i], c)
  <2>1. CASE i = n + 1
    BY <1>5, <1>6, <2>1, BeforeItself
  <2>2. CASE i # n + 1
    <3>1. i \in 0 .. n
      BY <1>3, <2>2
    <3> QED BY <1>5, <1>6, <1>7, <3>1, BeforeAll
  <2> QED BY <2>1, <2>2
<1>10. T[0] = a /\ T[n + 1] = c
  BY <1>3, <1>6, <1>7
<1>11. Through(T, ns, a, c)
  BY <1>4, <1>8, <1>9, <1>10 DEF Through
<1> QED BY <1>4, <1>11 DEF Leads, ns, c

\* One message less.
LEMMA LeadsOn ==
  ASSUME NEW ms, NEW a, NEW b, Leads(ms, a, b), ms # <<>>
  PROVE  /\ Good(Head(ms), a)
         /\ Leads(Tail(ms), After(Head(ms), a), b)
         /\ \A i \in 1 .. Len(Tail(ms)) : i + 1 \in 1 .. Len(ms) /\ Tail(ms)[i] = ms[i + 1]
         /\ 1 \in 1 .. Len(ms) /\ Head(ms) = ms[1]
<1> DEFINE ns == Tail(ms)
           n  == Len(ms)
<1>1. PICK S : ms \in Seq(S)
  BY DEF Leads
<1>2. PICK R : Through(R, ms, a, b)
  BY DEF Leads
<1>3. /\ n \in Nat \ {0} /\ Head(ms) = ms[1]
      /\ ns \in Seq(S) /\ Len(ns) = n - 1 /\ \A i \in 1 .. n - 1 : ns[i] = ms[i + 1]
  BY <1>1
<1> DEFINE T == [i \in 0 .. n - 1 |-> R[i + 1]]
<1>4. \A i \in 0 .. n - 1 : T[i] = R[i + 1]
  OBVIOUS
<1> HIDE DEF ns, T, n
<1>5. /\ R[0] = a /\ R[n] = b
      /\ \A i \in 1 .. n : Good(ms[i], R[i - 1]) /\ R[i] = After(ms[i], R[i - 1])
      /\ \A i \in 0 .. n : Sound(R[i]) /\ Before(R[i], b)
  BY <1>2 DEF Through, n
<1>6. Good(Head(ms), a) /\ R[1] = After(Head(ms), a)
  BY <1>3, <1>5
<1>7. T[0] = R[1] /\ T[n - 1] = b
  BY <1>3, <1>4, <1>5
<1>8. \A i \in 1 .. n - 1 : Good(ns[i], T[i - 1]) /\ T[i] = After(ns[i], T[i - 1])
  <2> TAKE i \in 1 .. n - 1
  <2>1. /\ i + 1 \in 1 .. n /\ i - 1 \in 0 .. n - 1 /\ i \in 0 .. n - 1
        /\ (i - 1) + 1 = (i + 1) - 1
    BY <1>3
  <2>2. T[i - 1] = R[(i + 1) - 1] /\ T[i] = R[i + 1] /\ ns[i] = ms[i + 1]
    BY <1>3, <1>4, <2>1
  <2> QED BY <1>5, <2>1, <2>2
<1>9. \A i \in 0 .. n - 1 : Sound(T[i]) /\ Before(T[i], b)
  BY <1>3, <1>4, <1>5
<1>10. Through(T, ns, R[1], b)
  BY <1>3, <1>7, <1>8, <1>9 DEF Through
<1>11. \A i \in 1 .. Len(ns) : i + 1 \in 1 .. n /\ ns[i] = ms[i + 1]
  BY <1>3
<1>12. Leads(ns, After(Head(ms), a), b)
  BY <1>3, <1>6, <1>10 DEF Leads
<1> QED BY <1>3, <1>6, <1>11, <1>12 DEF ns, n
-----------------------------------------------------------------------------
(***************************************************************************)
(* What messages do to the part of the state that Membership describes.    *)
(***************************************************************************)
SameMembers(a, b) ==
  /\ a.round = b.round /\ a.NodeNum = b.NodeNum /\ a.client = b.client
  /\ a.seat = b.seat /\ a.Consensus_Map = b.Consensus_Map
  /\ a.Validation_Map = b.Validation_Map /\ a.Winner = b.Winner
  /\ a.NewRootsVote = b.NewRootsVote /\ a.RootsVote = b.RootsVote

\* A registration,
LEMMA JoinedMembers ==
  ASSUME NEW a, IsShared(a), NEW c, NEW s, NEW x
  PROVE  LET z == Joined(a, c, s, x) IN
         /\ z.client = NewClient(a, c, s, x)
         /\ z.seat = IF Fills(a, s)
                       THEN [a.seat EXCEPT ![c] = "exec", ![Chosen(a, c, s, x)] = "committee"]
                       ELSE [a.seat EXCEPT ![c] = "exec"]
         /\ z.Consensus_Map = [a.Consensus_Map EXCEPT ![s] = a.round]
         /\ z.Validation_Map =
              IF Fills(a, s)
                THEN [a.Validation_Map EXCEPT ![s] = IF @ = Nil THEN a.round ELSE @]
                ELSE a.Validation_Map
         /\ z.Winner =
              IF Fills(a, s) /\ Cardinality(Members(a, c, s, x)) = ShardNum
                THEN Least(NewClient(a, c, s, x), Members(a, c, s, x))
                ELSE a.Winner
         /\ z.round = a.round /\ z.NodeNum = a.NodeNum
         /\ z.NewRootsVote = a.NewRootsVote /\ z.RootsVote = a.RootsVote
BY DEF SharedFields, IsShared, Joined

\* a root,
LEMMA ReportedMembers ==
  ASSUME NEW a, IsShared(a), NEW c, NEW root
  PROVE  LET z == Reported(a, c, root) IN
         /\ z.seat = [a.seat EXCEPT ![c] = "nil"]
         /\ z.Validation_Map =
              IF EndsStage(a, c) THEN a.Consensus_Map
              ELSE IF Empties(a, c) THEN [a.Validation_Map EXCEPT ![a.client[c].shard] = Nil]
              ELSE a.Validation_Map
         /\ z.RootsVote = IF EndsStage(a, c) THEN Counted(a, c, root) ELSE a.RootsVote
         /\ z.NewRootsVote =
              IF EndsStage(a, c) THEN [s \in Shards |-> NoVotes] ELSE Counted(a, c, root)
         /\ z.round = a.round /\ z.NodeNum = a.NodeNum /\ z.client = a.client
         /\ z.Consensus_Map = a.Consensus_Map /\ z.Winner = a.Winner
BY DEF SharedFields, IsShared, Reported

\* a slot,
LEMMA NodeMembers ==
  ASSUME NEW a, IsShared(a), NEW x
  PROVE  LET z == [a EXCEPT !.NodeNum = x] IN
         /\ z.NodeNum = x
         /\ z.round = a.round /\ z.client = a.client /\ z.seat = a.seat
         /\ z.Consensus_Map = a.Consensus_Map /\ z.Validation_Map = a.Validation_Map
         /\ z.Winner = a.Winner
         /\ z.NewRootsVote = a.NewRootsVote /\ z.RootsVote = a.RootsVote
BY DEF SharedFields, IsShared

\* and what does not touch the membership.  (A block is ChainedFields.)
LEMMA OthersKeepMembers ==
  ASSUME NEW a, IsShared(a), NEW m, Good(m, a),
         m.type \notin {"client", "NodeNum", "upload", "root"}
  PROVE  SameMembers(After(m, a), a)
<1>1. CASE m.type = "pack" /\ m.stage = 0
  <2> DEFINE x == PackedFor(a.original, m.height + 1)
  <2>1. After(m, a) = [a EXCEPT !.original = x]
    BY <1>1, AfterIs
  <2> HIDE DEF x
  <2> QED BY <2>1, OriginalSet DEF SharedFields, SameMembers
<1>2. CASE m.type = "pack" /\ m.stage = 1
  <2> DEFINE x == PackedFor(a.witnessed, m.height + 1)
  <2>1. After(m, a) = [a EXCEPT !.witnessed = x]
    BY <1>2, AfterIs
  <2> HIDE DEF x
  <2> QED BY <2>1, WitnessedSet DEF SharedFields, SameMembers
<1>3. CASE m.type = "witness"
  <2>1. After(m, a) = Recorded(a, m.lists)
    BY <1>3, AfterIs
  <2>2. \A f \in SharedFields \ {"witnessed", "WitnessCount"} : After(m, a)[f] = a[f]
    BY <2>1, RecordedFields
  <2> QED BY <2>2 DEF SharedFields, SameMembers
<1>4. CASE (m.type = "pack" /\ m.stage = 2) \/ m.type \in {"block", "vote"}
  BY <1>4, AfterIs DEF SameMembers
<1> QED BY <1>1, <1>2, <1>3, <1>4, MessageTypes

\* In any sound state, whoever sits in a round has its own number, and the
\* newcomer has too.
LEMMA NumbersApart ==
  ASSUME NEW a, Sound(a), NEW c \in Client, NEW s, NEW M,
         \A d \in M : d \in Client /\ (d = c \/ a.seat[d] # "none")
  PROVE  LET C == NewClient(a, c, s, RandomOf[c]) IN
         \A d, e \in M : C[d].random = C[e].random => d = e
<1> DEFINE C == NewClient(a, c, s, RandomOf[c])
<1>1. DOMAIN a.client = Client
  BY DEF Sound
<1>2. C[c].random = RandomOf[c] /\ \A d \in Client : d # c => C[d] = a.client[d]
  BY <1>1 DEF NewClient
<1>3. \A d \in M : d \in Client /\ C[d].random = RandomOf[d]
  BY <1>2 DEF Sound
<1> HIDE DEF C
<1>4. \A d, e \in M : C[d].random = C[e].random => d = e
  BY <1>3, RandomsDiffer, RandomIsInt
<1> QED BY <1>4 DEF C

\* The one with the smallest number is where the search for it may end.
LEMMA LeastIsFound ==
  ASSUME NEW C, NEW first, NEW M, Smallest(C, M) # {},
         \A d \in M : C[d].random \in Int,
         \A d, e \in M : C[d].random = C[e].random => d = e
  PROVE  Least(C, M) \in SmallestRandom(C, first, M)
<1>1. Least(C, M) \in Smallest(C, M)
  BY DEF Least
<1>2. \A v \in Smallest(C, M) : v = Least(C, M)
  BY <1>1 DEF Smallest
<1>3. SmallestRandom(C, first, M) = IF first \in Smallest(C, M) THEN {first} ELSE Smallest(C, M)
  BY DEF SmallestRandom, Smallest
<1> QED BY <1>1, <1>2, <1>3
\* So it is among those who sit in a round, and the newcomer.
LEMMA LeastOfSeated ==
  ASSUME NEW a, Sound(a), NEW c \in Client, NEW s, NEW M, NEW first,
         \A d \in M : d \in Client /\ (d = c \/ a.seat[d] # "none"),
         Smallest(NewClient(a, c, s, RandomOf[c]), M) # {}
  PROVE  Least(NewClient(a, c, s, RandomOf[c]), M)
           \in SmallestRandom(NewClient(a, c, s, RandomOf[c]), first, M)
<1> DEFINE C == NewClient(a, c, s, RandomOf[c])
<1>1. DOMAIN a.client = Client
  BY DEF Sound
<1>2. C[c].random = RandomOf[c] /\ \A d \in Client : d # c => C[d] = a.client[d]
  BY <1>1 DEF NewClient
<1>3. \A d \in M : C[d].random = RandomOf[d]
  BY <1>2 DEF Sound
<1>4. \A d, e \in M : C[d].random = C[e].random => d = e
  BY NumbersApart
<1> HIDE DEF C
<1>5. \A d \in M : C[d].random \in Int
  BY <1>3, RandomIsInt
<1>6. Least(C, M) \in SmallestRandom(C, first, M)
  BY <1>4, <1>5, LeastIsFound DEF C
<1> QED BY <1>6 DEF C
-----------------------------------------------------------------------------
(***************************************************************************)
(* Two servers of which at most one is ahead.  For the one and the other:  *)
(* the messages it wrote that the other has not read (out, in), whether it *)
(* is between the two halves of an upload (up, vp), its shared state (a, b)*)
(* and that state with the block it posted (d, e).                         *)
(***************************************************************************)
IsAhead(out, up) == out # <<>> \/ up

Paired(out, in, up, vp, a, b, d, e) ==
  /\ ~(IsAhead(out, up) /\ IsAhead(in, vp))
  /\ ~IsAhead(in, vp) => Leads(out, b, d)
  /\ ~IsAhead(out, up) => Leads(in, a, e)
  /\ ~up => d = a
  /\ ~vp => e = b

\* It does not matter which server is called the one.
LEMMA PairedTurned ==
  ASSUME NEW out, NEW in, NEW up, NEW vp, NEW a, NEW b, NEW d, NEW e
  PROVE  Paired(out, in, up, vp, a, b, d, e) <=> Paired(in, out, vp, up, b, a, e, d)
BY DEF Paired

\* Nothing is on its way.
LEMMA PairedAtRest ==
  ASSUME NEW in, NEW out, NEW up, NEW vp, NEW a, NEW b, NEW d, NEW e,
         Paired(out, in, up, vp, a, b, d, e), ~IsAhead(out, up), ~IsAhead(in, vp)
  PROVE  a = b /\ d = a /\ e = a
<1>1. Leads(<<>>, b, d) /\ d = a /\ e = b
  BY DEF Paired, IsAhead
<1> QED BY <1>1, LeadsToItself

\* The other is not ahead and the one is not either when all is read.
LEMMA PairedAhead ==
  ASSUME NEW out, NEW up, NEW vp, NEW a, NEW b, NEW d, NEW e,
         ~vp, Leads(out, b, d), ~up => d = a, e = b
  PROVE  Paired(out, <<>>, up, vp, a, b, d, e)
<1>1. ~IsAhead(<<>>, vp)
  BY DEF IsAhead
<1>2. ASSUME ~IsAhead(out, up)
      PROVE  Leads(<<>>, a, e)
  <2>1. out = <<>> /\ d = a
    BY <1>2 DEF IsAhead
  <2>2. b = d /\ Sound(b)
    BY <2>1, LeadsToItself, LeadsSound
  <2> QED BY <2>1, <2>2, LeadsNowhere
<1> QED BY <1>1, <1>2 DEF Paired

\* The one takes a request, or the second half of an upload.
LEMMA PairedServes ==
  ASSUME NEW out, NEW up, NEW vp, NEW a, NEW b, NEW d, NEW e,
         Paired(out, <<>>, up, vp, a, b, d, e), ~vp,
         NEW o, NEW up2, NEW a2, NEW d2, ~up2 => d2 = a2,
         \/ o = out /\ d2 = d
         \/ \E m : o = Append(out, m) /\ Good(m, d) /\ d2 = After(m, d)
  PROVE  Paired(o, <<>>, up2, vp, a2, b, d2, e)
<1>1. Leads(out, b, d) /\ e = b
  BY DEF Paired, IsAhead
<1>2. Leads(o, b, d2)
  BY <1>1, LeadsAppend
<1> QED BY <1>1, <1>2, PairedAhead

\* The one reads what the other wrote: what the other did stays done.
LEMMA PairedReads ==
  ASSUME NEW out, NEW in, NEW up, NEW vp, NEW a, NEW b, NEW d, NEW e,
         Paired(out, in, up, vp, a, b, d, e), in # <<>>,
         NEW up2, NEW a2, NEW d2, a2 = After(Head(in), a), ~up2, d2 = a2
  PROVE  /\ out = <<>> /\ Paired(out, Tail(in), up2, vp, a2, b, d2, e)
         /\ ~IsAhead(Tail(in), vp) => d2 = e
<1>1. IsAhead(in, vp) /\ ~IsAhead(out, up) /\ out = <<>>
  BY DEF Paired, IsAhead
<1>2. Leads(Tail(in), a2, e) /\ (~vp => e = b)
  BY <1>1, LeadsOn DEF Paired
<1>3. Paired(Tail(in), <<>>, vp, up2, b, a2, e, d2)
  BY <1>2, PairedAhead
<1>4. Paired(out, Tail(in), up2, vp, a2, b, d2, e)
  BY <1>1, <1>3, PairedTurned
<1>5. ASSUME ~IsAhead(Tail(in), vp) PROVE d2 = e
  <2>1. Tail(in) = <<>>
    BY <1>5 DEF IsAhead
  <2> QED BY <1>2, <2>1, LeadsToItself
<1> QED BY <1>1, <1>4, <1>5

\* What the other wrote may be read, and it has not been done here.
LEMMA PairedGood ==
  ASSUME NEW out, NEW in, NEW up, NEW vp, NEW a, NEW b, NEW d, NEW e,
         Paired(out, in, up, vp, a, b, d, e), in # <<>>
  PROVE  ~up /\ Good(Head(in), a) /\ 1 \in 1 .. Len(in) /\ Head(in) = in[1]
<1>1. ~IsAhead(out, up) /\ ~up
  BY DEF Paired, IsAhead
<1> QED BY <1>1, LeadsOn DEF Paired
\* The state of the one that is ahead.
LogOf(in, vp, d, e) == IF IsAhead(in, vp) THEN e ELSE d

\* It is that of either one that is not behind.
LEMMA LogIs ==
  ASSUME NEW out, NEW in, NEW up, NEW vp, NEW a, NEW b, NEW d, NEW e,
         Paired(out, in, up, vp, a, b, d, e)
  PROVE  /\ ~IsAhead(in, vp) => LogOf(in, vp, d, e) = d
         /\ ~IsAhead(out, up) => LogOf(in, vp, d, e) = e
BY PairedAtRest DEF LogOf

\* What reading does to it: nothing.
LEMMA LogStays ==
  ASSUME NEW out, NEW in, NEW up, NEW vp, NEW a, NEW b, NEW d, NEW e,
         Paired(out, in, up, vp, a, b, d, e), in # <<>>,
         NEW up2, NEW a2, NEW d2, a2 = After(Head(in), a), ~up2, d2 = a2
  PROVE  /\ LogOf(in, vp, d, e) = e
         /\ LogOf(Tail(in), vp, d2, e) = e
BY PairedReads DEF LogOf, IsAhead

-----------------------------------------------------------------------------
(***************************************************************************)
(* Clients that were told a shard by either server, and who reports roots. *)
(***************************************************************************)
Together(u, v) == [s \in Shards |-> u[s] + v[s]]

\* It does not matter which server is called the one.
LEMMA TogetherTurned ==
  ASSUME NEW u \in [Shards -> Nat], NEW v \in [Shards -> Nat]
  PROVE  Together(u, v) = Together(v, u)
BY DEF Together

\* What a message does to the clients one server awaits it does to those of both.
LEMMA AwaitedOfBoth ==
  ASSUME NEW u \in [Shards -> Nat], NEW v \in [Shards -> Nat], NEW w \in [Shards -> Nat],
         NEW m, NEW a, Good(m, a), Awaited(m, u, v)
  PROVE  Awaited(m, Together(u, w), Together(v, w))
<1> DEFINE x == Together(u, w)
           y == Together(v, w)
<1>1. /\ x = [s \in Shards |-> x[s]] /\ y = [s \in Shards |-> y[s]]
      /\ \A s \in Shards : x[s] = u[s] + w[s] /\ y[s] = v[s] + w[s]
  BY DEF Together
<1> HIDE DEF x, y
<1>2. ASSUME NEW t \in Shards, v = [u EXCEPT ![t] = @ + 1]
      PROVE  y = [x EXCEPT ![t] = @ + 1]
  BY <1>1, <1>2
<1>3. ASSUME NEW t \in Shards, u[t] > 0, v = [u EXCEPT ![t] = @ - 1]
      PROVE  x[t] > 0 /\ y = [x EXCEPT ![t] = @ - 1]
  BY <1>1, <1>3
<1>4. CASE m.type = "NodeNum"
  <2>1. m.shard \in Shards /\ v = [u EXCEPT ![m.shard] = @ + 1]
    BY <1>4 DEF Good, Awaited
  <2>2. y = [x EXCEPT ![m.shard] = @ + 1]
    BY <1>2, <2>1
  <2> QED BY <1>4, <2>2 DEF Awaited, x, y
<1>5. CASE m.type = "client"
  <2>1. m.shard \in Shards /\ u[m.shard] > 0 /\ v = [u EXCEPT ![m.shard] = @ - 1]
    BY <1>5 DEF Good, Awaited
  <2>2. x[m.shard] > 0 /\ y = [x EXCEPT ![m.shard] = @ - 1]
    BY <1>3, <2>1
  <2> QED BY <1>5, <2>2 DEF Awaited, x, y
<1>6. CASE m.type \notin {"NodeNum", "client"}
  BY <1>6 DEF Awaited
<1> QED BY <1>4, <1>5, <1>6

\* The roots among these messages are of clients in M.
Owned(q, M) == \A i \in 1 .. Len(q) : q[i].type = "root" => q[i].id \in M

\* They are of a larger set too.
LEMMA OwnedBy ==
  ASSUME NEW q, NEW M, NEW N, Owned(q, M), M \subseteq N
  PROVE  Owned(q, N)
BY DEF Owned

\* One more message,
LEMMA OwnedAppend ==
  ASSUME NEW q, NEW a, NEW b, Leads(q, a, b), NEW M, Owned(q, M), NEW m,
         m.type = "root" => m.id \in M
  PROVE  Owned(Append(q, m), M)
<1>1. PICK S : q \in Seq(S)
  BY DEF Leads
<1>2. q \in Seq(S \cup {m}) /\ Len(q) \in Nat
  BY <1>1
<1> DEFINE n  == Len(q)
           ns == Append(q, m)
<1>3. Len(ns) = n + 1 /\ ns[n + 1] = m /\ \A i \in 1 .. n : ns[i] = q[i]
  BY <1>2
<1> HIDE DEF ns
<1>4. ASSUME NEW i \in 1 .. n + 1, ns[i].type = "root"
      PROVE  ns[i].id \in M
  <2>1. CASE i = n + 1
    BY <1>3, <1>4, <2>1
  <2>2. CASE i # n + 1
    <3>1. i \in 1 .. n
      BY <1>2, <2>2
    <3>2. ns[i] = q[i]
      BY <1>3, <3>1
    <3> QED BY <1>4, <3>1, <3>2 DEF Owned
  <2> QED BY <2>1, <2>2
<1>5. Owned(ns, M)
  BY <1>3, <1>4 DEF Owned
<1> QED BY <1>5 DEF ns

\* and one less.
LEMMA OwnedTail ==
  ASSUME NEW q, NEW a, NEW b, Leads(q, a, b), q # <<>>, NEW M, Owned(q, M)
  PROVE  Owned(Tail(q), M)
<1>1. \A i \in 1 .. Len(Tail(q)) : i + 1 \in 1 .. Len(q) /\ Tail(q)[i] = q[i + 1]
  BY LeadsOn
<1> QED BY <1>1 DEF Owned

\* A request of a client that registered here, or of one who had not registered
\* anywhere.
LEMMA OwnersApart ==
  ASSUME NEW M, NEW N, M \cap N = {}, NEW M2, NEW R, N \subseteq R,
         \A c \in M2 : c \in M \/ c \notin R
  PROVE  M2 \cap N = {}
OBVIOUS

-----------------------------------------------------------------------------
(***************************************************************************)
(* One server before its first block, however many slots were given away:  *)
(* as long as no shard has more clients than it takes, the elections have  *)
(* one outcome, whatever the order in which clients were added.            *)
(***************************************************************************)
\* What is known of the clients in any case.
FirstRound ==
  /\ round = 1
  /\ seat \in [Client -> {"none", "exec", "committee"}]
  /\ client \in [Client -> [shard : 0 .. ShardNum, round : Nat, random : Int]]
  /\ Consensus_Map \in [Shards -> Nat] /\ Validation_Map \in [Shards -> Nat]
  /\ \A c \in Client :
       IF seat[c] = "none" THEN client[c] = [shard |-> 0, round |-> 0, random |-> 0]
       ELSE client[c].shard \in Shards /\ client[c].round = 1 /\ client[c].random = RandomOf[c]

\* Shard s has all its clients, and no shard has more.
Full(s)     == Cardinality(Registered(s, round)) = CLIENT_MAX
RoomForAll  == \A s \in Shards : Cardinality(Registered(s, round)) <= CLIENT_MAX

\* c has the smallest random number of M.
Wins(c, M) == c \in M /\ \A d \in M : RandomOf[c] <= RandomOf[d]

Elected(s) ==
  IF Full(s)
    THEN /\ Consensus_Map[s] = 1 /\ Validation_Map[s] = 1
         /\ \E c \in Registered(s, round) : seat[c] = "committee"
         /\ \A c \in Registered(s, round) :
              seat[c] = "committee" <=> Wins(c, Registered(s, round))
    ELSE /\ Consensus_Map[s] = IF Registered(s, round) = {} THEN Nil ELSE 1
         /\ Validation_Map[s] = Nil
         /\ \A c \in Registered(s, round) : seat[c] = "exec"

Led == IF \A s \in Shards : Full(s) THEN Wins(Winner, Committee) ELSE Winner = None

Electing == RoomForAll => Led /\ \A s \in Shards : Elected(s)

\* A group is finite.
LEMMA GroupIsFinite ==
  ASSUME NEW s, NEW r
  PROVE  IsFiniteSet(Registered(s, r)) /\ Cardinality(Registered(s, r)) \in Nat
BY FS_Subset, FS_CardinalityType, MembershipAssumption DEF Registered, MembershipAssumption

\* Of two clients with the smallest number neither has a smaller one.
LEMMA OneWins ==
  ASSUME NEW M \in SUBSET Client, NEW c, NEW d, Wins(c, M), Wins(d, M)
  PROVE  c = d
<1>1. RandomOf[c] \in Int /\ RandomOf[d] \in Int /\ c \in Client /\ d \in Client
  BY PeerAssumption, MembershipAssumption DEF PeerAssumption, MembershipAssumption, Wins
<1>2. RandomOf[c] = RandomOf[d]
  BY <1>1 DEF Wins
<1> QED BY <1>1, <1>2, PeerAssumption DEF PeerAssumption, IsInjective

\* Members of different shards are as many as there are shards when every shard
\* has one.
LEMMA CommitteeIsFull ==
  ASSUME NEW M \in SUBSET Client, NEW f \in [M -> Shards],
         \A c, d \in M : f[c] = f[d] => c = d
  PROVE  Cardinality(M) = ShardNum <=> \A s \in Shards : \E c \in M : f[c] = s
<1>1. IsFiniteSet(Shards) /\ Cardinality(Shards) = ShardNum
  BY FS_Interval, MembershipAssumption DEF Shards, MembershipAssumption
<1>2. f \in Injection(M, Shards)
  BY DEF Injection, IsInjective
<1>3. Cardinality(M) = ShardNum <=> f \in Surjection(M, Shards)
  BY <1>1, <1>2, FS_Injection
<1> QED BY <1>3 DEF Surjection

\* The group a client joins.
LEMMA FirstJoin ==
  ASSUME FirstRound, NEW c \in Client, seat[c] = "none", NEW s \in Shards,
         Join(c, s, RandomOf[c])
  PROVE  /\ FirstRound'
         /\ Registered(s, round)' = Registered(s, round) \cup {c}
         /\ c \notin Registered(s, round)
         /\ Cardinality(Registered(s, round)') = Cardinality(Registered(s, round)) + 1
         /\ \A t \in Shards : t # s => Registered(t, round)' = Registered(t, round)
         /\ \A d \in Client \ {c} : client'[d] = client[d]
         /\ \A d \in Client \ {c} : seat'[d] = "none" <=> seat[d] = "none"
         /\ seat'[c] # "none" /\ client'[c] = [shard |-> s, round |-> 1, random |-> RandomOf[c]]
<1> DEFINE C == [client EXCEPT ![c] = [shard |-> s, round |-> round, random |-> RandomOf[c]]]
<1>1. /\ client' = C /\ round' = round
      /\ Consensus_Map' = [Consensus_Map EXCEPT ![s] = round]
  BY DEF Join
<1>2. RandomOf[c] \in Int /\ s \in 0 .. ShardNum
  BY RandomIsInt, MembershipAssumption DEF MembershipAssumption, Shards
<1>3. \/ /\ seat' = [seat EXCEPT ![c] = "exec"]
         /\ UNCHANGED <<Validation_Map, Winner>>
      \/ \E w \in Entries(s, round) \cup {c} :
           /\ seat' = [seat EXCEPT ![c] = "exec", ![w] = "committee"]
           /\ Validation_Map' = [Validation_Map EXCEPT ![s] = IF @ = Nil THEN round ELSE @]
  BY DEF Join, Elect, SmallestRandom
<1>4. /\ seat' \in [Client -> {"none", "exec", "committee"}]
      /\ Validation_Map' \in [Shards -> Nat]
      /\ seat'[c] # "none"
      /\ \A d \in Client \ {c} : seat'[d] = "none" <=> seat[d] = "none"
  <2>1. CASE seat' = [seat EXCEPT ![c] = "exec"] /\ UNCHANGED <<Validation_Map, Winner>>
    BY <2>1 DEF FirstRound
  <2>2. ASSUME NEW w \in Entries(s, round) \cup {c},
               seat' = [seat EXCEPT ![c] = "exec", ![w] = "committee"],
               Validation_Map' = [Validation_Map EXCEPT ![s] = IF @ = Nil THEN round ELSE @]
        PROVE  <1>4!1 /\ <1>4!2 /\ <1>4!3 /\ <1>4!4
    <3>1. w \in Client /\ (w # c => seat[w] # "none")
      BY DEF Entries, Registered
    <3> QED BY <2>2, <3>1 DEF FirstRound
  <2> QED BY <1>3, <2>1, <2>2
<1>5. /\ C \in [Client -> [shard : 0 .. ShardNum, round : Nat, random : Int]]
      /\ C[c] = [shard |-> s, round |-> 1, random |-> RandomOf[c]]
      /\ \A d \in Client \ {c} : C[d] = client[d]
  BY <1>2 DEF FirstRound
<1> HIDE DEF C
<1>6. FirstRound'
  <2>1. round' = 1 /\ Consensus_Map' \in [Shards -> Nat]
    BY <1>1 DEF FirstRound
  <2>2. ASSUME NEW d \in Client
        PROVE  IF seat'[d] = "none" THEN client'[d] = [shard |-> 0, round |-> 0, random |-> 0]
               ELSE client'[d].shard \in Shards /\ client'[d].round = 1 /\ client'[d].random = RandomOf[d]
    <3>1. CASE d = c
      BY <3>1, <1>1, <1>4, <1>5
    <3>2. CASE d # c
      <4>1. client'[d] = client[d] /\ (seat'[d] = "none" <=> seat[d] = "none")
        BY <3>2, <1>1, <1>4, <1>5
      <4> QED BY <4>1 DEF FirstRound
    <3> QED BY <3>1, <3>2
  <2> QED BY <2>1, <2>2, <1>1, <1>4, <1>5 DEF FirstRound
<1>7. /\ Registered(s, round)' = Registered(s, round) \cup {c}
      /\ c \notin Registered(s, round)
      /\ \A t \in Shards : t # s => Registered(t, round)' = Registered(t, round)
  <2>1. ASSUME NEW d \in Client, NEW t \in Shards
        PROVE  d \in Registered(t, round)' <=> d \in Registered(t, round) \/ (d = c /\ t = s)
    <3>1. CASE d = c
      BY <3>1, <1>1, <1>4, <1>5 DEF Registered, FirstRound
    <3>2. CASE d # c
      <4>1. client'[d] = client[d] /\ (seat'[d] = "none" <=> seat[d] = "none")
        BY <3>2, <1>1, <1>4, <1>5
      <4> QED BY <4>1, <3>2, <1>1 DEF Registered
    <3> QED BY <3>1, <3>2
  <2>2. \A t : Registered(t, round) \subseteq Client /\ Registered(t, round)' \subseteq Client
    BY DEF Registered
  <2>3. c \notin Registered(s, round)
    BY DEF Registered
  <2> QED BY <2>1, <2>2, <2>3
<1>8. Cardinality(Registered(s, round)') = Cardinality(Registered(s, round)) + 1
  BY <1>7, GroupIsFinite, FS_AddElement
<1> QED BY <1>1, <1>4, <1>5, <1>6, <1>7, <1>8

\* Where the winner is looked for, the newcomer's number is the one it submitted.
LEMMA SmallestWins ==
  ASSUME FirstRound, NEW c \in Client, seat[c] = "none", NEW s \in Shards,
         NEW M \in SUBSET Client, c \in M \/ \E d \in M : seat[d] # "none",
         \A d \in M : d = c \/ seat[d] # "none",
         NEW v,
         NEW w \in SmallestRandom([client EXCEPT ![c] = [shard |-> s, round |-> round,
                                   random |-> RandomOf[c]]], v, M)
  PROVE  Wins(w, M)
<1> DEFINE C == [client EXCEPT ![c] = [shard |-> s, round |-> round, random |-> RandomOf[c]]]
<1>1. \A d \in M : C[d].random = RandomOf[d]
  BY DEF FirstRound
<1> HIDE DEF C
<1>2. w \in {d \in M : \A e \in M : C[d].random <= C[e].random}
  BY DEF SmallestRandom, C
<1> QED BY <1>1, <1>2 DEF Wins

\* The shard c joins has room left: all its clients are executors still.
LEMMA RoomBefore ==
  ASSUME FirstRound, Electing, NEW c \in Client, seat[c] = "none", NEW s \in Shards,
         Join(c, s, RandomOf[c]), RoomForAll'
  PROVE  /\ Led /\ \A t \in Shards : Elected(t)
         /\ ~Full(s)
         /\ Entries(s, round) = Registered(s, round)
         /\ \A d \in Registered(s, round) : seat[d] = "exec"
         /\ Full(s)' <=> ShardFills(s)
         /\ \A t \in Shards \ {s} : Full(t)' <=> Full(t)
<1>1. /\ Cardinality(Registered(s, round)') = Cardinality(Registered(s, round)) + 1
      /\ \A t \in Shards : t # s => Registered(t, round)' = Registered(t, round)
  BY FirstJoin
<1>2. Cardinality(Registered(s, round)) \in Nat /\ CLIENT_MAX \in Nat
  BY GroupIsFinite, MembershipAssumption DEF MembershipAssumption
<1>3. Cardinality(Registered(s, round)') <= CLIENT_MAX
  BY DEF RoomForAll
<1>4. RoomForAll
  <2> SUFFICES ASSUME NEW t \in Shards
               PROVE  Cardinality(Registered(t, round)) <= CLIENT_MAX
    BY DEF RoomForAll
  <2>1. CASE t = s
    BY <2>1, <1>1, <1>2, <1>3
  <2>2. CASE t # s
    BY <2>2, <1>1 DEF RoomForAll
  <2> QED BY <2>1, <2>2
<1>5. Led /\ \A t \in Shards : Elected(t)
  BY <1>4 DEF Electing
<1>6. ~Full(s)
  BY <1>1, <1>2, <1>3 DEF Full
<1>7. \A d \in Registered(s, round) : seat[d] = "exec"
  BY <1>5, <1>6 DEF Elected
<1>8. Entries(s, round) = Registered(s, round)
  BY <1>7 DEF Entries
<1>9. Full(s)' <=> ShardFills(s)
  BY <1>1, <1>2, <1>7, <1>8 DEF Full, ShardFills
<1>10. \A t \in Shards \ {s} : Full(t)' <=> Full(t)
  BY <1>1 DEF Full
<1> QED BY <1>5, <1>6, <1>7, <1>8, <1>9, <1>10

\* The committee has one member of every shard that is full, and no other.
LEMMA MembersOfFull ==
  ASSUME FirstRound, \A s \in Shards : Elected(s)
  PROVE  /\ \A c \in Committee : c \in Registered(client[c].shard, round) /\ Full(client[c].shard)
         /\ \A c, d \in Committee : client[c].shard = client[d].shard => c = d
         /\ \A s \in Shards : Full(s) <=> \E c \in Committee : client[c].shard = s
         /\ Cardinality(Committee) = ShardNum <=> \A s \in Shards : Full(s)
<1>1. ASSUME NEW c \in Committee
      PROVE  /\ c \in Client /\ client[c].shard \in Shards
             /\ c \in Registered(client[c].shard, round) /\ Full(client[c].shard)
             /\ Wins(c, Registered(client[c].shard, round))
  <2>1. c \in Client /\ seat[c] = "committee"
    BY DEF Committee
  <2>2. client[c].shard \in Shards /\ c \in Registered(client[c].shard, round)
    BY <2>1 DEF FirstRound, Registered
  <2>3. Elected(client[c].shard)
    BY <2>2
  <2> QED BY <2>1, <2>2, <2>3 DEF Elected
<1>2. \A c, d \in Committee : client[c].shard = client[d].shard => c = d
  <2> SUFFICES ASSUME NEW c \in Committee, NEW d \in Committee, client[c].shard = client[d].shard
               PROVE  c = d
    OBVIOUS
  <2>1. Registered(client[c].shard, round) \in SUBSET Client
    BY DEF Registered
  <2> QED BY <1>1, <2>1, OneWins
<1>3. ASSUME NEW s \in Shards
      PROVE  Full(s) <=> \E c \in Committee : client[c].shard = s
  <2>1. ASSUME Full(s)
        PROVE  \E c \in Committee : client[c].shard = s
    <3>1. PICK c \in Registered(s, round) : seat[c] = "committee"
      BY <2>1 DEF Elected
    <3> QED BY <3>1 DEF Registered, Committee
  <2> QED BY <2>1, <1>1
<1>4. Cardinality(Committee) = ShardNum <=> \A s \in Shards : Full(s)
  <2> DEFINE f == [c \in Committee |-> client[c].shard]
  <2>1. Committee \in SUBSET Client /\ f \in [Committee -> Shards]
    BY <1>1 DEF Committee
  <2>2. \A c, d \in Committee : f[c] = f[d] => c = d
    BY <1>2
  <2>3. \A s \in Shards : Full(s) <=> \E c \in Committee : f[c] = s
    BY <1>3
  <2> HIDE DEF f
  <2> QED BY <2>1, <2>2, <2>3, CommitteeIsFull
<1> QED BY <1>1, <1>2, <1>3, <1>4

\* The elections after one more client.
LEMMA JoinElects ==
  ASSUME FirstRound, Electing, NEW c \in Client, seat[c] = "none", NEW s \in Shards,
         Join(c, s, RandomOf[c])
  PROVE  Electing'
<1> SUFFICES ASSUME RoomForAll'
             PROVE  Led' /\ \A t \in Shards : Elected(t)'
  BY DEF Electing
<1> DEFINE C == [client EXCEPT ![c] = [shard |-> s, round |-> round, random |-> RandomOf[c]]]
           G == Registered(s, round)
<1>1. /\ FirstRound'
      /\ Registered(s, round)' = G \cup {c} /\ c \notin G
      /\ \A t \in Shards : t # s => Registered(t, round)' = Registered(t, round)
      /\ \A d \in Client \ {c} : client'[d] = client[d]
      /\ client'[c].shard = s
  <2>1. client'[c] = [shard |-> s, round |-> 1, random |-> RandomOf[c]]
    BY FirstJoin
  <2> HIDE DEF C
  <2> QED BY <2>1, FirstJoin
<1>2. /\ Led /\ \A t \in Shards : Elected(t)
      /\ ~Full(s)
      /\ Entries(s, round) = G
      /\ \A d \in G : seat[d] = "exec"
      /\ Full(s)' <=> ShardFills(s)
      /\ \A t \in Shards \ {s} : Full(t)' <=> Full(t)
  BY RoomBefore
<1>3. Winner = None
  BY <1>2 DEF Led
<1>4. round = 1 /\ round' = 1 /\ Consensus_Map' = [Consensus_Map EXCEPT ![s] = 1]
  BY DEF Join, FirstRound
<1>5. G \subseteq Client /\ \A d \in G : client[d].shard = s
  BY DEF Registered
<1>6. CASE ~ShardFills(s)
  <2>1. seat' = [seat EXCEPT ![c] = "exec"] /\ Validation_Map' = Validation_Map /\ Winner' = Winner
    BY <1>6 DEF Join
  <2>2. ~Full(s)'
    BY <1>2, <1>6
  <2>3. Led'
    BY <2>1, <2>2, <1>3 DEF Led
  <2>4. ASSUME NEW t \in Shards
        PROVE  Elected(t)'
    <3>1. CASE t = s
      BY <3>1, <2>1, <2>2, <1>1, <1>2, <1>4, <1>5 DEF Elected, FirstRound
    <3>2. CASE t # s
      <4>1. \A d \in Registered(t, round) : seat'[d] = seat[d]
        BY <2>1 DEF Registered, FirstRound
      <4> QED BY <3>2, <4>1, <2>1, <1>1, <1>2, <1>4 DEF Elected, FirstRound
    <3> QED BY <3>1, <3>2
  <2> QED BY <2>3, <2>4
<1>7. CASE ShardFills(s)
  <2>1. PICK w \in SmallestRandom(C, c, G \cup {c}) :
          /\ seat' = [seat EXCEPT ![c] = "exec", ![w] = "committee"]
          /\ Elect(s, w, C)
    BY <1>2, <1>7 DEF Join
  <2>2. Full(s)'
    BY <1>2, <1>7
  <2>3. Wins(w, G \cup {c})
    <3> HIDE DEF C
    <3>1. G \cup {c} \in SUBSET Client /\ \A d \in G \cup {c} : d = c \/ seat[d] # "none"
      BY <1>2, <1>5
    <3> QED BY <3>1, <2>1, SmallestWins DEF C
  <2>4. w \in G \cup {c} /\ w \in Client
    BY <2>3, <1>5 DEF Wins
  <2>5. Validation_Map' = [Validation_Map EXCEPT ![s] = 1]
    BY <2>1, <1>2, <1>4 DEF Elect, Elected, FirstRound
  <2>6. /\ \A d \in G \cup {c} : seat'[d] = IF d = w THEN "committee" ELSE "exec"
        /\ \A d \in Client : d \notin G \cup {c} => seat'[d] = seat[d]
    BY <2>1, <2>4, <1>2, <1>5 DEF FirstRound
  <2>7. ASSUME NEW t \in Shards
        PROVE  Elected(t)'
    <3>1. CASE t = s
      <4>1. \A d \in G \cup {c} : Wins(d, G \cup {c}) => d = w
        BY <2>3, <1>5, OneWins
      <4>2. Consensus_Map'[s] = 1 /\ Validation_Map'[s] = 1
        BY <2>5, <1>4 DEF FirstRound
      <4> QED BY <3>1, <2>2, <2>3, <2>4, <2>6, <4>1, <4>2, <1>1 DEF Elected, Wins
    <3>2. CASE t # s
      <4>1. \A d \in Registered(t, round) : seat'[d] = seat[d]
        BY <2>6, <1>5, <3>2 DEF Registered, FirstRound
      <4> QED BY <3>2, <4>1, <2>5, <1>1, <1>2, <1>4 DEF Elected, FirstRound, Wins
    <3> QED BY <3>1, <3>2
  <2>8. Committee' = Committee \cup {w}
    <3>1. ASSUME NEW d \in Client
          PROVE  d \in Committee' <=> d \in Committee \/ d = w
      <4>1. CASE d \in G \cup {c}
        BY <4>1, <2>6, <1>1, <1>2, <1>4 DEF Committee, FirstRound
      <4>2. CASE d \notin G \cup {c}
        BY <4>2, <2>4, <2>6, <1>1, <1>4 DEF Committee
      <4> QED BY <4>1, <4>2
    <3> QED BY <3>1, <2>4 DEF Committee
  <2>9. Cardinality(Committee') = ShardNum <=> \A t \in Shards : Full(t)'
    <3> DEFINE M == Committee \cup {w}
               f == [d \in M |-> IF d = w THEN s ELSE client[d].shard]
    <3>1. /\ \A d \in Committee : d \in Registered(client[d].shard, round) /\ Full(client[d].shard)
          /\ \A d, e \in Committee : client[d].shard = client[e].shard => d = e
          /\ \A t \in Shards : Full(t) <=> \E d \in Committee : client[d].shard = t
      BY <1>2, MembersOfFull
    <3>2. \A d \in Committee : d \in Client /\ client[d].shard \in Shards
      BY DEF Committee, FirstRound
    <3>3. M \in SUBSET Client /\ f \in [M -> Shards]
      BY <2>4, <3>2
    <3>4. \A d, e \in M : f[d] = f[e] => d = e
      BY <3>1, <1>2
    <3>5. \A t \in Shards : Full(t)' <=> \E d \in M : f[d] = t
      <4>1. CASE ~(w \in Committee)
        BY <4>1, <3>1, <2>2, <1>2
      <4>2. w \notin Committee
        BY <2>4, <1>2 DEF Committee
      <4> QED BY <4>1, <4>2
    <3> HIDE DEF f
    <3> QED BY <3>3, <3>4, <3>5, <2>8, CommitteeIsFull
  <2>10. CASE \A t \in Shards : Full(t)'
    <3>1. Winner' \in SmallestRandom(C, w, Committee \cup {w})
      BY <2>1, <2>8, <2>9, <2>10 DEF Elect
    <3>2. Committee \cup {w} \in SUBSET Client
      BY <2>4 DEF Committee
    <3>3. \A d \in Committee \cup {w} : d = c \/ seat[d] # "none"
      BY <2>4, <1>2 DEF Committee
    <3>4. c \in Committee \cup {w} \/ \E d \in Committee \cup {w} : seat[d] # "none"
      BY <3>3
    <3> HIDE DEF C
    <3>5. Wins(Winner', Committee \cup {w})
      BY <3>1, <3>2, <3>3, <3>4, SmallestWins DEF C
    <3> QED BY <2>7, <2>8, <2>10, <3>5 DEF Led, Wins
  <2>11. CASE ~\A t \in Shards : Full(t)'
    <3>1. Winner' = None
      BY <2>1, <2>8, <2>9, <2>11, <1>3 DEF Elect
    <3> QED BY <2>7, <2>11, <3>1 DEF Led
  <2> QED BY <2>7, <2>10, <2>11
<1> QED BY <1>6, <1>7

-----------------------------------------------------------------------------
(***************************************************************************)
(* Two servers before the first block, with messages crossing.  Each knows *)
(* clients, the members among them, and counts; q is what the first has    *)
(* written and the second has not read, p the other way round.             *)
(***************************************************************************)
NodeNote(s)         == [type |-> "NodeNum", shard |-> s]
ClientNote(c, s, x) == [type |-> "client", id |-> c, shard |-> s, random |-> x]

Notes == {NodeNote(s) : s \in Shards}
           \cup {ClientNote(c, s, RandomOf[c]) : c \in Client, s \in Shards}

View == [client |-> client, members |-> {c \in Client : seat[c] # "none"},
         NodeNum |-> NodeNum, assigned |-> assigned]

GroupOf(a, s) == {c \in a.members : a.client[c].shard = s}

IsView(a) ==
  /\ a.members \subseteq Client
  /\ \A c \in a.members : a.client[c].shard \in Shards
  /\ a.NodeNum \in [Shards -> Nat] /\ a.assigned \in [Shards -> Nat]

\* Who registered with a and is new to b is in one message, every message is of
\* such a client, and b has counted the slots of shard s but those in messages.
Carries(q, a, b) ==
  /\ q \in Seq(Notes)
  /\ \A i \in 1 .. Len(q) : q[i].type = "client" =>
       /\ q[i].id \in a.members \ b.members
       /\ a.client[q[i].id].shard = q[i].shard
  /\ \A i, j \in 1 .. Len(q) :
       q[i].type = "client" /\ q[j].type = "client" /\ q[i].id = q[j].id => i = j
  /\ \A c \in a.members \ b.members :
       \E i \in 1 .. Len(q) : q[i].type = "client" /\ q[i].id = c

Unread(q, s) == {i \in 1 .. Len(q) : q[i] = NodeNote(s)}

ToldOf(a, b, s) == a.assigned[s] + b.assigned[s] + Cardinality(GroupOf(a, s) \cup GroupOf(b, s))

Counts(p, a, b) ==
  \A s \in Shards : a.NodeNum[s] + Cardinality(Unread(p, s)) = ToldOf(a, b, s)

Crossing(q, p, a, b) ==
  /\ IsView(a) /\ IsView(b)
  /\ Carries(q, a, b) /\ Carries(p, b, a)
  /\ \A c \in a.members \cap b.members : a.client[c].shard = b.client[c].shard
  /\ Counts(p, a, b) /\ Counts(q, b, a)

\* It is the same for the second server.
LEMMA CrossingTurned ==
  ASSUME NEW q, NEW p, NEW a, NEW b, Crossing(q, p, a, b)
  PROVE  Crossing(p, q, b, a)
BY DEF Crossing

\* What one message more and one less are.
LEMMA OneMore ==
  ASSUME NEW q \in Seq(Notes), NEW m \in Notes
  PROVE  /\ Append(q, m) \in Seq(Notes) /\ Len(q) \in Nat /\ Len(Append(q, m)) = Len(q) + 1
         /\ Append(q, m)[Len(q) + 1] = m
         /\ \A i \in 1 .. Len(q) : Append(q, m)[i] = q[i]
         /\ \A i \in 1 .. Len(q) : q[i] \in Notes
OBVIOUS

\* Reading the first message.
LEMMA OneLess ==
  ASSUME NEW q \in Seq(Notes), q # <<>>
  PROVE  /\ Tail(q) \in Seq(Notes) /\ Len(q) \in Nat \ {0} /\ Len(Tail(q)) = Len(q) - 1
         /\ Head(q) = q[1] /\ Head(q) \in Notes
         /\ \A i \in 1 .. Len(Tail(q)) : i + 1 \in 1 .. Len(q) /\ Tail(q)[i] = q[i + 1]
<1>1. /\ Tail(q) \in Seq(Notes) /\ Len(q) \in Nat \ {0} /\ Len(Tail(q)) = Len(q) - 1
      /\ Head(q) = q[1]
  BY EmptySeq
<1>2. Head(q) \in Notes
  OBVIOUS
<1>3. \A i \in 1 .. Len(Tail(q)) : i + 1 \in 1 .. Len(q) /\ Tail(q)[i] = q[i + 1]
  BY <1>1
<1> QED BY <1>1, <1>2, <1>3

\* The unread slots are finitely many.
LEMMA UnreadFinite ==
  ASSUME NEW q \in Seq(Notes), NEW s
  PROVE  IsFiniteSet(Unread(q, s)) /\ Cardinality(Unread(q, s)) \in Nat
<1>1. Len(q) \in Nat
  OBVIOUS
<1>2. IsFiniteSet(1 .. Len(q))
  BY <1>1, FS_Interval
<1> QED BY <1>2, FS_Subset, FS_CardinalityType DEF Unread

\* A slot more is unread when the new message is of one,
LEMMA UnreadMore ==
  ASSUME NEW q \in Seq(Notes), NEW m \in Notes, NEW s
  PROVE  Cardinality(Unread(Append(q, m), s)) =
           Cardinality(Unread(q, s)) + (IF m = NodeNote(s) THEN 1 ELSE 0)
<1> DEFINE n == Len(q)
           r == Append(q, m)
<1>1. /\ n \in Nat /\ Len(r) = n + 1 /\ r[n + 1] = m /\ \A i \in 1 .. n : r[i] = q[i]
  BY OneMore
<1> HIDE DEF r
<1>2. Unread(r, s) = Unread(q, s) \cup (IF m = NodeNote(s) THEN {n + 1} ELSE {})
  <2>1. ASSUME NEW i \in 1 .. n + 1
        PROVE  r[i] = NodeNote(s) <=> (i \in 1 .. n /\ q[i] = NodeNote(s)) \/ (i = n + 1 /\ m = NodeNote(s))
    BY <1>1
  <2> HIDE DEF n
  <2>2. 1 .. n \subseteq 1 .. n + 1 /\ n + 1 \in 1 .. n + 1
    BY <1>1
  <2>3. Unread(r, s) = {i \in 1 .. n + 1 : r[i] = NodeNote(s)} /\ Unread(q, s) = {i \in 1 .. n : q[i] = NodeNote(s)}
    BY <1>1 DEF Unread, n
  <2> QED BY <2>1, <2>2, <2>3
<1>3. n + 1 \notin Unread(q, s)
  BY <1>1 DEF Unread
<1>4. IsFiniteSet(Unread(q, s)) /\ Cardinality(Unread(q, s)) \in Nat
  BY UnreadFinite
<1>5. CASE m = NodeNote(s)
  <2>1. Cardinality(Unread(q, s) \cup {n + 1}) = Cardinality(Unread(q, s)) + 1
    BY <1>3, <1>4, FS_AddElement
  <2> QED BY <2>1, <1>2, <1>5 DEF r
<1>6. CASE m # NodeNote(s)
  BY <1>2, <1>4, <1>6 DEF r
<1> QED BY <1>5, <1>6

\* and a slot less when the message read is.
LEMMA UnreadLess ==
  ASSUME NEW q \in Seq(Notes), q # <<>>, NEW s
  PROVE  Cardinality(Unread(q, s)) =
           Cardinality(Unread(Tail(q), s)) + (IF Head(q) = NodeNote(s) THEN 1 ELSE 0)
<1> DEFINE n == Len(q)
           r == Tail(q)
           U == Unread(r, s)
           V == Unread(q, s) \ {1}
<1>1. /\ n \in Nat \ {0} /\ r \in Seq(Notes) /\ Len(r) = n - 1 /\ Head(q) = q[1]
      /\ \A i \in 1 .. n - 1 : r[i] = q[i + 1]
  BY OneLess
<1> HIDE DEF r
<1>2. IsFiniteSet(U) /\ Cardinality(U) \in Nat /\ IsFiniteSet(Unread(q, s))
  BY <1>1, UnreadFinite
<1>3. ExistsBijection(U, V)
  <2> DEFINE f == [i \in U |-> i + 1]
  <2>1. \A i \in U : i \in 1 .. n - 1 /\ q[i + 1] = NodeNote(s)
    BY <1>1 DEF Unread
  <2>2. f \in [U -> V]
    BY <2>1, <1>1 DEF Unread
  <2>3. \A i, j \in U : f[i] = f[j] => i = j
    BY <2>1
  <2>4. ASSUME NEW j \in V
        PROVE  \E i \in U : f[i] = j
    <3>1. j \in 2 .. n /\ q[j] = NodeNote(s)
      BY <1>1 DEF Unread
    <3>2. j - 1 \in 1 .. n - 1 /\ r[j - 1] = q[(j - 1) + 1] /\ (j - 1) + 1 = j
      BY <3>1, <1>1
    <3>3. j - 1 \in U
      BY <3>1, <3>2, <1>1 DEF Unread
    <3> QED BY <3>2, <3>3
  <2> HIDE DEF f, U, V
  <2>5. f \in Bijection(U, V)
    BY <2>2, <2>3, <2>4 DEF Bijection, Injection, Surjection, IsInjective
  <2> QED BY <2>5 DEF ExistsBijection
<1> HIDE DEF U, V
<1>4. IsFiniteSet(V) /\ Cardinality(V) = Cardinality(U)
  BY <1>2, <1>3, FS_Bijection
<1>5. Unread(q, s) = V \cup (IF Head(q) = NodeNote(s) THEN {1} ELSE {}) /\ 1 \notin V
  BY <1>1 DEF Unread, V
<1>6. CASE Head(q) = NodeNote(s)
  <2>1. Cardinality(V \cup {1}) = Cardinality(V) + 1
    BY <1>4, <1>5, FS_AddElement
  <2> QED BY <2>1, <1>4, <1>5, <1>6 DEF U, r
<1>7. CASE Head(q) # NodeNote(s)
  BY <1>2, <1>4, <1>5, <1>7 DEF U, r
<1> QED BY <1>6, <1>7

\* What the messages are.
LEMMA NotesAre ==
  /\ \A s \in Shards : NodeNote(s) \in Notes /\ NodeNote(s).type # "client"
  /\ \A c \in Client, s \in Shards :
       /\ ClientNote(c, s, RandomOf[c]) \in Notes
       /\ \A t : ClientNote(c, s, RandomOf[c]) # NodeNote(t)
  /\ \A c, s, x : ClientNote(c, s, x).type = "client" /\ ClientNote(c, s, x).id = c
                    /\ ClientNote(c, s, x).shard = s
BY DEF NodeNote, ClientNote, Notes

\* Groups are finite.
LEMMA GroupsFinite ==
  ASSUME NEW a, NEW b, IsView(a), IsView(b), NEW s
  PROVE  IsFiniteSet(GroupOf(a, s) \cup GroupOf(b, s))
           /\ Cardinality(GroupOf(a, s) \cup GroupOf(b, s)) \in Nat
<1>1. GroupOf(a, s) \cup GroupOf(b, s) \subseteq Client
  BY DEF IsView, GroupOf
<1> QED BY <1>1, FS_Subset, FS_CardinalityType, MembershipAssumption DEF MembershipAssumption

\* The clients a message more is of,
LEMMA CarriesMore ==
  ASSUME NEW q, NEW a, NEW b, Carries(q, a, b), NEW a2, NEW m \in Notes,
         \/ m.type # "client" /\ a2.members = a.members
         \/ /\ m.type = "client" /\ m.id \notin a.members \cup b.members
            /\ a2.members = a.members \cup {m.id} /\ a2.client[m.id].shard = m.shard,
         \A c \in a.members : a2.client[c].shard = a.client[c].shard
  PROVE  Carries(Append(q, m), a2, b)
<1> DEFINE n == Len(q)
           r == Append(q, m)
<1>1. q \in Seq(Notes)
  BY DEF Carries
<1>2. /\ r \in Seq(Notes) /\ n \in Nat /\ Len(r) = n + 1 /\ r[n + 1] = m
      /\ \A i \in 1 .. n : r[i] = q[i]
  BY <1>1, OneMore
<1> HIDE DEF r
<1>3. \A i \in 1 .. n : q[i].type = "client" =>
        q[i].id \in a.members \ b.members /\ a.client[q[i].id].shard = q[i].shard
  BY DEF Carries
<1>4. ASSUME NEW i \in 1 .. n + 1, r[i].type = "client"
      PROVE  r[i].id \in a2.members \ b.members /\ a2.client[r[i].id].shard = r[i].shard
  <2>1. CASE i = n + 1
    BY <2>1, <1>2, <1>4
  <2>2. CASE i # n + 1
    <3>1. i \in 1 .. n
      BY <2>2, <1>2
    <3> QED BY <3>1, <1>2, <1>3, <1>4
  <2> QED BY <2>1, <2>2
<1>5. ASSUME NEW i \in 1 .. n + 1, NEW j \in 1 .. n + 1, r[i].type = "client",
             r[j].type = "client", r[i].id = r[j].id
      PROVE  i = j
  <2>1. \A k \in 1 .. n : r[k].type = "client" => r[k].id \in a.members
    BY <1>2, <1>3
  <2>2. CASE i = n + 1 \/ j = n + 1
    BY <2>1, <2>2, <1>2, <1>5
  <2>3. CASE i # n + 1 /\ j # n + 1
    <3>1. i \in 1 .. n /\ j \in 1 .. n
      BY <2>3, <1>2
    <3> QED BY <3>1, <1>2, <1>5 DEF Carries
  <2> QED BY <2>2, <2>3
<1>6. ASSUME NEW c \in a2.members \ b.members
      PROVE  \E i \in 1 .. n + 1 : r[i].type = "client" /\ r[i].id = c
  <2>1. CASE c \in a.members
    <3>1. PICK i \in 1 .. n : q[i].type = "client" /\ q[i].id = c
      BY <2>1, <1>6 DEF Carries
    <3>2. i \in 1 .. n + 1
      BY <1>2
    <3> QED BY <3>1, <3>2, <1>2
  <2>2. CASE c \notin a.members
    <3>1. m.type = "client" /\ m.id = c /\ n + 1 \in 1 .. n + 1
      BY <2>2, <1>6, <1>2
    <3> QED BY <3>1, <1>2
  <2> QED BY <2>1, <2>2
<1>7. Carries(r, a2, b)
  BY <1>2, <1>4, <1>5, <1>6 DEF Carries
<1> QED BY <1>7 DEF r

\* and a message less.
LEMMA CarriesLess ==
  ASSUME NEW q, NEW a, NEW b, Carries(q, a, b), q # <<>>, NEW b2,
         \/ Head(q).type # "client" /\ b2.members = b.members
         \/ Head(q).type = "client" /\ b2.members = b.members \cup {Head(q).id}
  PROVE  Carries(Tail(q), a, b2)
<1> DEFINE n == Len(q)
           r == Tail(q)
<1>1. q \in Seq(Notes)
  BY DEF Carries
<1>2. /\ r \in Seq(Notes) /\ n \in Nat \ {0} /\ Len(r) = n - 1 /\ Head(q) = q[1]
      /\ \A i \in 1 .. n - 1 : i + 1 \in 1 .. n /\ r[i] = q[i + 1]
  BY <1>1, OneLess
<1> HIDE DEF r
<1>3. /\ \A i \in 1 .. n : q[i].type = "client" =>
           q[i].id \in a.members \ b.members /\ a.client[q[i].id].shard = q[i].shard
      /\ \A i, j \in 1 .. n :
           q[i].type = "client" /\ q[j].type = "client" /\ q[i].id = q[j].id => i = j
  BY DEF Carries
<1>4. 1 \in 1 .. n
  BY <1>2
<1>5. ASSUME NEW i \in 1 .. n - 1, r[i].type = "client"
      PROVE  r[i].id \in a.members \ b2.members /\ a.client[r[i].id].shard = r[i].shard
  <2>1. i + 1 \in 1 .. n /\ r[i] = q[i + 1] /\ i + 1 # 1
    BY <1>2
  <2>2. Head(q).type = "client" => q[i + 1].id # Head(q).id
    BY <2>1, <1>2, <1>3, <1>4, <1>5
  <2> QED BY <2>1, <2>2, <1>3, <1>5
<1>6. ASSUME NEW i \in 1 .. n - 1, NEW j \in 1 .. n - 1, r[i].type = "client",
             r[j].type = "client", r[i].id = r[j].id
      PROVE  i = j
  <2>1. i + 1 \in 1 .. n /\ r[i] = q[i + 1] /\ j + 1 \in 1 .. n /\ r[j] = q[j + 1]
    BY <1>2
  <2>2. i + 1 = j + 1
    BY <2>1, <1>3, <1>6
  <2> QED BY <2>2
<1>7. ASSUME NEW c \in a.members \ b2.members
      PROVE  \E i \in 1 .. n - 1 : r[i].type = "client" /\ r[i].id = c
  <2>1. PICK i \in 1 .. n : q[i].type = "client" /\ q[i].id = c
    BY <1>7 DEF Carries
  <2>2. i # 1
    BY <2>1, <1>2, <1>7
  <2>3. i - 1 \in 1 .. n - 1 /\ (i - 1) + 1 = i
    BY <2>2, <1>2
  <2>4. r[i - 1] = q[i]
    BY <2>3, <1>2
  <2> QED BY <2>1, <2>3, <2>4
<1>8. Carries(r, a, b2)
  BY <1>2, <1>5, <1>6, <1>7 DEF Carries
<1> QED BY <1>8 DEF r

\* Clients and shards the other server learns nothing of.
LEMMA CarriesStill ==
  ASSUME NEW q, NEW a, NEW b, Carries(q, a, b), NEW a2, NEW b2,
         a2.members \ b2.members = a.members \ b.members,
         \A c \in a.members \ b.members : a2.client[c].shard = a.client[c].shard
  PROVE  Carries(q, a2, b2)
BY DEF Carries

\* A server gives a slot away.
LEMMA SlotGiven ==
  ASSUME NEW q, NEW p, NEW a, NEW b, Crossing(q, p, a, b), NEW s \in Shards, NEW a2,
         a2.client = a.client, a2.members = a.members,
         a2.NodeNum = [a.NodeNum EXCEPT ![s] = @ + 1],
         a2.assigned = [a.assigned EXCEPT ![s] = @ + 1]
  PROVE  Crossing(Append(q, NodeNote(s)), p, a2, b)
<1> DEFINE r == Append(q, NodeNote(s))
<1>1. /\ IsView(a) /\ IsView(b) /\ Carries(q, a, b) /\ Carries(p, b, a)
      /\ \A c \in a.members \cap b.members : a.client[c].shard = b.client[c].shard
      /\ Counts(p, a, b) /\ Counts(q, b, a)
  BY DEF Crossing
<1>2. IsView(a2)
  BY <1>1 DEF IsView
<1>3. Carries(r, a2, b)
  BY <1>1, NotesAre, CarriesMore
<1>4. Carries(p, b, a2)
  BY <1>1, CarriesStill
<1>5. q \in Seq(Notes) /\ p \in Seq(Notes)
  BY <1>1 DEF Carries
<1>6. ASSUME NEW t \in Shards
      PROVE  /\ a2.NodeNum[t] + Cardinality(Unread(p, t)) = ToldOf(a2, b, t)
             /\ b.NodeNum[t] + Cardinality(Unread(r, t)) = ToldOf(b, a2, t)
  <2>1. /\ a.NodeNum[t] + Cardinality(Unread(p, t)) = ToldOf(a, b, t)
        /\ b.NodeNum[t] + Cardinality(Unread(q, t)) = ToldOf(b, a, t)
    BY <1>1 DEF Counts
  <2>2. Cardinality(Unread(r, t)) = Cardinality(Unread(q, t)) + (IF t = s THEN 1 ELSE 0)
    <3>1. NodeNote(s) = NodeNote(t) <=> t = s
      BY DEF NodeNote
    <3> QED BY <3>1, <1>5, NotesAre, UnreadMore
  <2>3. GroupOf(a2, t) = GroupOf(a, t)
    BY DEF GroupOf
  <2>4. /\ Cardinality(GroupOf(a, t) \cup GroupOf(b, t)) \in Nat
        /\ Cardinality(GroupOf(b, t) \cup GroupOf(a, t)) \in Nat
        /\ Cardinality(Unread(p, t)) \in Nat /\ Cardinality(Unread(q, t)) \in Nat
    BY <1>1, <1>5, GroupsFinite, UnreadFinite
  <2>5. /\ a.NodeNum[t] \in Nat /\ a.assigned[t] \in Nat /\ b.NodeNum[t] \in Nat /\ b.assigned[t] \in Nat
        /\ a2.NodeNum[t] = a.NodeNum[t] + (IF t = s THEN 1 ELSE 0)
        /\ a2.assigned[t] = a.assigned[t] + (IF t = s THEN 1 ELSE 0)
    BY <1>1 DEF IsView
  <2> QED BY <2>1, <2>2, <2>3, <2>4, <2>5 DEF ToldOf
<1>7. Counts(p, a2, b) /\ Counts(r, b, a2)
  BY <1>6 DEF Counts
<1> QED BY <1>1, <1>2, <1>3, <1>4, <1>7 DEF Crossing

\* It hears of one.
LEMMA SlotHeard ==
  ASSUME NEW q, NEW p, NEW a, NEW b, Crossing(q, p, a, b), p # <<>>, NEW s \in Shards,
         Head(p) = NodeNote(s), NEW a2,
         a2.client = a.client, a2.members = a.members, a2.assigned = a.assigned,
         a2.NodeNum = [a.NodeNum EXCEPT ![s] = @ + 1]
  PROVE  Crossing(q, Tail(p), a2, b)
<1> DEFINE r == Tail(p)
<1>1. /\ IsView(a) /\ IsView(b) /\ Carries(q, a, b) /\ Carries(p, b, a)
      /\ \A c \in a.members \cap b.members : a.client[c].shard = b.client[c].shard
      /\ Counts(p, a, b) /\ Counts(q, b, a)
  BY DEF Crossing
<1>2. IsView(a2)
  BY <1>1 DEF IsView
<1>3. Carries(r, b, a2)
  BY <1>1, NotesAre, CarriesLess
<1>4. Carries(q, a2, b)
  BY <1>1, CarriesStill
<1>5. q \in Seq(Notes) /\ p \in Seq(Notes) /\ r \in Seq(Notes)
  BY <1>1, <1>3 DEF Carries
<1>6. ASSUME NEW t \in Shards
      PROVE  /\ a2.NodeNum[t] + Cardinality(Unread(r, t)) = ToldOf(a2, b, t)
             /\ b.NodeNum[t] + Cardinality(Unread(q, t)) = ToldOf(b, a2, t)
  <2>1. /\ a.NodeNum[t] + Cardinality(Unread(p, t)) = ToldOf(a, b, t)
        /\ b.NodeNum[t] + Cardinality(Unread(q, t)) = ToldOf(b, a, t)
    BY <1>1 DEF Counts
  <2>2. Cardinality(Unread(p, t)) = Cardinality(Unread(r, t)) + (IF t = s THEN 1 ELSE 0)
    <3>1. NodeNote(s) = NodeNote(t) <=> t = s
      BY DEF NodeNote
    <3> QED BY <3>1, <1>5, NotesAre, UnreadLess
  <2>3. ToldOf(a2, b, t) = ToldOf(a, b, t) /\ ToldOf(b, a2, t) = ToldOf(b, a, t)
    BY DEF GroupOf, ToldOf
  <2>4. Cardinality(Unread(r, t)) \in Nat
    BY <1>5, UnreadFinite
  <2>5. a.NodeNum[t] \in Nat /\ a2.NodeNum[t] = a.NodeNum[t] + (IF t = s THEN 1 ELSE 0)
    BY <1>1 DEF IsView
  <2> QED BY <2>1, <2>2, <2>3, <2>4, <2>5
<1>7. Counts(r, a2, b) /\ Counts(q, b, a2)
  BY <1>6 DEF Counts
<1> QED BY <1>1, <1>2, <1>3, <1>4, <1>7 DEF Crossing

\* A client registers with it.
LEMMA ClientAdded ==
  ASSUME NEW q, NEW p, NEW a, NEW b, Crossing(q, p, a, b), NEW s \in Shards,
         NEW c \in Client, c \notin a.members \cup b.members, a.assigned[s] > 0, NEW a2,
         a2.members = a.members \cup {c}, a2.client[c].shard = s,
         \A d \in a.members : a2.client[d].shard = a.client[d].shard,
         a2.NodeNum = a.NodeNum, a2.assigned = [a.assigned EXCEPT ![s] = @ - 1]
  PROVE  Crossing(Append(q, ClientNote(c, s, RandomOf[c])), p, a2, b)
<1> DEFINE m == ClientNote(c, s, RandomOf[c])
           r == Append(q, m)
<1>1. /\ IsView(a) /\ IsView(b) /\ Carries(q, a, b) /\ Carries(p, b, a)
      /\ \A d \in a.members \cap b.members : a.client[d].shard = b.client[d].shard
      /\ Counts(p, a, b) /\ Counts(q, b, a)
  BY DEF Crossing
<1>2. IsView(a2)
  BY <1>1 DEF IsView
<1>3. m \in Notes /\ m.type = "client" /\ m.id = c /\ m.shard = s /\ \A t : m # NodeNote(t)
  BY NotesAre
<1> HIDE DEF m
<1>4. Carries(r, a2, b)
  BY <1>1, <1>3, CarriesMore
<1>5. Carries(p, b, a2)
  BY <1>1, CarriesStill
<1>6. q \in Seq(Notes) /\ p \in Seq(Notes)
  BY <1>1 DEF Carries
<1>7. ASSUME NEW t \in Shards
      PROVE  /\ a2.NodeNum[t] + Cardinality(Unread(p, t)) = ToldOf(a2, b, t)
             /\ b.NodeNum[t] + Cardinality(Unread(r, t)) = ToldOf(b, a2, t)
  <2>1. /\ a.NodeNum[t] + Cardinality(Unread(p, t)) = ToldOf(a, b, t)
        /\ b.NodeNum[t] + Cardinality(Unread(q, t)) = ToldOf(b, a, t)
    BY <1>1 DEF Counts
  <2>2. Cardinality(Unread(q, t)) \in Nat /\ Cardinality(Unread(r, t)) = Cardinality(Unread(q, t))
    BY <1>3, <1>6, UnreadMore, UnreadFinite
  <2>3. GroupOf(a2, t) = GroupOf(a, t) \cup (IF t = s THEN {c} ELSE {})
    BY DEF GroupOf
  <2>4. c \notin GroupOf(a, t) \cup GroupOf(b, t)
    BY DEF GroupOf
  <2>5. /\ IsFiniteSet(GroupOf(a, t) \cup GroupOf(b, t))
        /\ Cardinality(GroupOf(a, t) \cup GroupOf(b, t)) \in Nat
    BY <1>1, GroupsFinite
  <2>6. Cardinality(GroupOf(a2, t) \cup GroupOf(b, t)) =
          Cardinality(GroupOf(a, t) \cup GroupOf(b, t)) + (IF t = s THEN 1 ELSE 0)
    <3>1. CASE t = s
      <4>1. GroupOf(a2, t) \cup GroupOf(b, t) = (GroupOf(a, t) \cup GroupOf(b, t)) \cup {c}
        BY <2>3, <3>1
      <4>2. Cardinality((GroupOf(a, t) \cup GroupOf(b, t)) \cup {c}) =
              Cardinality(GroupOf(a, t) \cup GroupOf(b, t)) + 1
        BY <2>4, <2>5, FS_AddElement
      <4> QED BY <4>1, <4>2, <3>1
    <3>2. CASE t # s
      BY <2>3, <2>5, <3>2
    <3> QED BY <3>1, <3>2
  <2>7. /\ a.assigned[t] \in Nat /\ b.assigned[t] \in Nat
        /\ a2.assigned[t] = a.assigned[t] - (IF t = s THEN 1 ELSE 0)
    BY <1>1 DEF IsView
  <2>8. ToldOf(a2, b, t) = ToldOf(a, b, t)
    BY <2>5, <2>6, <2>7 DEF ToldOf
  <2>9. ToldOf(b, a2, t) = ToldOf(a2, b, t) /\ ToldOf(b, a, t) = ToldOf(a, b, t)
    <3>1. \A x : GroupOf(b, t) \cup GroupOf(x, t) = GroupOf(x, t) \cup GroupOf(b, t)
      OBVIOUS
    <3>2. /\ ToldOf(b, a, t) = b.assigned[t] + a.assigned[t] + Cardinality(GroupOf(a, t) \cup GroupOf(b, t))
          /\ ToldOf(b, a2, t) = b.assigned[t] + a2.assigned[t] + Cardinality(GroupOf(a2, t) \cup GroupOf(b, t))
      BY <3>1 DEF ToldOf
    <3> QED BY <3>2, <2>7 DEF ToldOf
  <2> QED BY <2>1, <2>2, <2>8, <2>9
<1>8. Counts(p, a2, b) /\ Counts(r, b, a2)
  BY <1>7 DEF Counts
<1>9. \A d \in a2.members \cap b.members : a2.client[d].shard = b.client[d].shard
  BY <1>1
<1> QED BY <1>1, <1>2, <1>4, <1>5, <1>8, <1>9 DEF Crossing, m

\* It hears of one.
LEMMA ClientHeard ==
  ASSUME NEW q, NEW p, NEW a, NEW b, Crossing(q, p, a, b), p # <<>>,
         Head(p).type = "client", NEW a2,
         a2.members = a.members \cup {Head(p).id}, a2.client[Head(p).id].shard = Head(p).shard,
         \A d \in a.members : a2.client[d].shard = a.client[d].shard,
         a2.NodeNum = a.NodeNum, a2.assigned = a.assigned
  PROVE  Crossing(q, Tail(p), a2, b)
<1> DEFINE r == Tail(p)
           m == Head(p)
           c == m.id
<1>1. /\ IsView(a) /\ IsView(b) /\ Carries(q, a, b) /\ Carries(p, b, a)
      /\ \A d \in a.members \cap b.members : a.client[d].shard = b.client[d].shard
      /\ Counts(p, a, b) /\ Counts(q, b, a)
  BY DEF Crossing
<1>2. q \in Seq(Notes) /\ p \in Seq(Notes)
  BY <1>1 DEF Carries
<1>3. c \in b.members \ a.members /\ b.client[c].shard = m.shard
  <2>1. m = p[1] /\ 1 \in 1 .. Len(p)
    BY <1>2, OneLess
  <2> QED BY <2>1, <1>1 DEF Carries
<1>4. \A t : m # NodeNote(t)
  BY DEF NodeNote
<1> HIDE DEF m
<1>5. IsView(a2)
  BY <1>1, <1>3 DEF IsView, m
<1>6. Carries(r, b, a2)
  BY <1>1, CarriesLess DEF m
<1>7. Carries(q, a2, b)
  BY <1>1, <1>3, CarriesStill DEF m
<1>8. ASSUME NEW t \in Shards
      PROVE  /\ a2.NodeNum[t] + Cardinality(Unread(r, t)) = ToldOf(a2, b, t)
             /\ b.NodeNum[t] + Cardinality(Unread(q, t)) = ToldOf(b, a2, t)
  <2>1. /\ a.NodeNum[t] + Cardinality(Unread(p, t)) = ToldOf(a, b, t)
        /\ b.NodeNum[t] + Cardinality(Unread(q, t)) = ToldOf(b, a, t)
    BY <1>1 DEF Counts
  <2>2. r \in Seq(Notes)
    BY <1>6 DEF Carries
  <2>3. Cardinality(Unread(p, t)) = Cardinality(Unread(r, t))
    <3>1. Head(p) # NodeNote(t)
      BY <1>4 DEF m
    <3>2. Cardinality(Unread(p, t)) =
            Cardinality(Unread(r, t)) + (IF Head(p) = NodeNote(t) THEN 1 ELSE 0)
      BY <1>2, UnreadLess
    <3>3. Cardinality(Unread(r, t)) \in Nat
      BY <2>2, UnreadFinite
    <3> QED BY <3>1, <3>2, <3>3
  <2>4. /\ GroupOf(a2, t) \cup GroupOf(b, t) = GroupOf(a, t) \cup GroupOf(b, t)
        /\ GroupOf(b, t) \cup GroupOf(a2, t) = GroupOf(b, t) \cup GroupOf(a, t)
    BY <1>3 DEF GroupOf, m
  <2>5. ToldOf(a2, b, t) = ToldOf(a, b, t) /\ ToldOf(b, a2, t) = ToldOf(b, a, t)
    BY <2>4 DEF ToldOf
  <2> QED BY <2>1, <2>3, <2>5
<1>9. Counts(r, a2, b) /\ Counts(q, b, a2)
  BY <1>8 DEF Counts
<1>10. \A d \in a2.members \cap b.members : a2.client[d].shard = b.client[d].shard
  BY <1>1, <1>3 DEF m
<1> QED BY <1>1, <1>5, <1>6, <1>7, <1>9, <1>10 DEF Crossing

-----------------------------------------------------------------------------
(***************************************************************************)
(* What one server does before its first block.                            *)
(***************************************************************************)
Early == FirstRound /\ Electing /\ ~lockHeld

\* It starts so.
LEMMA StartsEarly ==
  ASSUME PeerInit
  PROVE  /\ Early
         /\ View.members = {} /\ \A s \in Shards : View.NodeNum[s] = 0 /\ View.assigned[s] = 0
         /\ View.NodeNum \in [Shards -> Nat] /\ View.assigned \in [Shards -> Nat]
<1>1. Init
  BY DEF PeerInit, HorizonInit
<1>2. \A s \in Shards : Registered(s, round) = {} /\ ~Full(s)
  <2>1. \A s \in Shards : Registered(s, round) = {}
    BY <1>1 DEF Init, Registered
  <2>2. CLIENT_MAX # 0
    BY MembershipAssumption DEF MembershipAssumption
  <2> QED BY <2>1, <2>2, FS_EmptySet DEF Full
<1>3. Elected(1) /\ 1 \in Shards /\ \A s \in Shards : Elected(s)
  BY <1>1, <1>2, MembershipAssumption DEF Init, Elected, Shards, MembershipAssumption
<1>4. Led
  BY <1>1, <1>2, <1>3 DEF Init, Led
<1>5. FirstRound
  <2>1. 0 \in 0 .. ShardNum /\ 0 \in Int /\ 0 \in Nat
    BY MembershipAssumption DEF MembershipAssumption
  <2> QED BY <1>1, <2>1 DEF Init, FirstRound, Nil
<1>6. View.members = {}
  BY <1>1 DEF Init, View
<1> QED BY <1>1, <1>3, <1>4, <1>5, <1>6 DEF Early, Electing, Init, View

\* Whatever leaves the groups alone.
LEMMA StaysEarly ==
  ASSUME Early, UNCHANGED <<round, client, seat, Consensus_Map, Validation_Map, Winner, lockHeld>>
  PROVE  Early' /\ View'.client = View.client /\ View'.members = View.members
<1>1. \A s : Registered(s, round)' = Registered(s, round)
  BY DEF Registered
<1>2. Committee' = Committee
  BY DEF Committee
<1>3. \A s : Full(s)' <=> Full(s)
  BY <1>1 DEF Full
<1>4. \A s : Elected(s)' <=> Elected(s)
  BY <1>1, <1>3 DEF Elected
<1>5. Led' <=> Led
  BY <1>2, <1>3 DEF Led
<1>6. RoomForAll' <=> RoomForAll
  BY <1>1 DEF RoomForAll
<1>7. FirstRound' <=> FirstRound
  BY DEF FirstRound
<1> QED BY <1>4, <1>5, <1>6, <1>7 DEF Early, Electing, View

\* A client joins.
LEMMA JoinsEarly ==
  ASSUME Early, NEW c \in Client, seat[c] = "none", NEW s \in Shards,
         Join(c, s, RandomOf[c])
  PROVE  /\ Early'
         /\ View'.members = View.members \cup {c}
         /\ View'.client[c].shard = s
         /\ \A d \in View.members : View'.client[d].shard = View.client[d].shard
         /\ View'.NodeNum = View.NodeNum
<1>1. FirstRound' /\ Electing'
  BY FirstJoin, JoinElects DEF Early
<1>2. lockHeld' = lockHeld /\ NodeNum' = NodeNum
  BY DEF Join
<1>3. client'[c] = [shard |-> s, round |-> 1, random |-> RandomOf[c]]
  BY FirstJoin DEF Early
<1>4. /\ \A d \in Client \ {c} : client'[d] = client[d]
      /\ \A d \in Client \ {c} : seat'[d] = "none" <=> seat[d] = "none"
      /\ seat'[c] # "none"
  BY FirstJoin DEF Early
<1>5. client'[c].shard = s
  BY <1>3
<1>6. View'.members = View.members \cup {c}
  BY <1>4 DEF View
<1>7. \A d \in View.members : client'[d].shard = client[d].shard
  BY <1>4 DEF View
<1> QED BY <1>1, <1>2, <1>5, <1>6, <1>7 DEF Early, View

\* What a server does keeps its own state sound, and what crosses too: registering.
LEMMA RegistersEarly ==
  ASSUME Early, linked, NEW b, Crossing(outbox, inbox, View, b), NEW c \in Client, NEW s \in Shards,
         seat[c] = "none", c \notin b.members, RegistersAs(c, s)
  PROVE  Early' /\ Crossing(outbox', inbox', View', b)
<1>1. /\ assigned[s] > 0 /\ assigned' = [assigned EXCEPT ![s] = @ - 1]
      /\ Join(c, s, RandomOf[c])
      /\ outbox' = Append(outbox, ClientNote(c, s, RandomOf[c])) /\ inbox' = inbox
  BY DEF RegistersAs, Forwarding, OnlyJoins, ClientNote
<1>2. /\ Early'
      /\ View'.members = View.members \cup {c}
      /\ View'.client[c].shard = s
      /\ \A d \in View.members : View'.client[d].shard = View.client[d].shard
      /\ View'.NodeNum = View.NodeNum
  BY <1>1, JoinsEarly
<1>3. /\ View.assigned[s] > 0 /\ View'.assigned = [View.assigned EXCEPT ![s] = @ - 1]
      /\ c \notin View.members
  BY <1>1 DEF View
<1> DEFINE a == View
           a2 == View'
<1>4. Crossing(outbox, inbox, a, b)
  OBVIOUS
<1>5. /\ a2.members = a.members \cup {c} /\ a2.client[c].shard = s
      /\ \A d \in a.members : a2.client[d].shard = a.client[d].shard
      /\ a2.NodeNum = a.NodeNum /\ a2.assigned = [a.assigned EXCEPT ![s] = @ - 1]
      /\ a.assigned[s] > 0 /\ c \notin a.members \cup b.members
  BY <1>2, <1>3
<1> HIDE DEF a, a2
<1>6. Crossing(Append(outbox, ClientNote(c, s, RandomOf[c])), inbox, a2, b)
  BY <1>4, <1>5, ClientAdded
<1> QED BY <1>1, <1>2, <1>6 DEF a2

\* Giving a slot away.
LEMMA AssignsEarly ==
  ASSUME Early, linked, NEW b, Crossing(outbox, inbox, View, b), Assigns
  PROVE  Early' /\ Crossing(outbox', inbox', View', b)
<1>1. PICK s \in Shards :
        /\ AssignShardNum /\ NodeNum'[s] # NodeNum[s]
        /\ outbox' = Append(outbox, NodeNote(s)) /\ inbox' = inbox
  BY DEF Assigns, Forwarding, OnlyJoins, NodeNote
<1>2. PICK t \in Shards :
        /\ NodeNum' = [NodeNum EXCEPT ![t] = @ + 1]
        /\ assigned' = [assigned EXCEPT ![t] = @ + 1]
        /\ UNCHANGED <<round, client, seat, Consensus_Map, Validation_Map, Winner, lockHeld>>
  BY <1>1 DEF AssignShardNum, groups
<1>3. NodeNum \in [Shards -> Nat] /\ View.NodeNum = NodeNum
  BY DEF Crossing, IsView, View
<1>4. s = t
  BY <1>1, <1>2, <1>3
<1>5. Early' /\ View'.client = View.client /\ View'.members = View.members
  BY <1>2, StaysEarly
<1> DEFINE a == View
           a2 == View'
<1>6. Crossing(outbox, inbox, a, b)
  OBVIOUS
<1>7. /\ a2.client = a.client /\ a2.members = a.members
      /\ a2.NodeNum = [a.NodeNum EXCEPT ![s] = @ + 1]
      /\ a2.assigned = [a.assigned EXCEPT ![s] = @ + 1]
  BY <1>2, <1>4, <1>5 DEF View
<1> HIDE DEF a, a2
<1>8. Crossing(Append(outbox, NodeNote(s)), inbox, a2, b)
  BY <1>6, <1>7, SlotGiven
<1> QED BY <1>1, <1>5, <1>8 DEF a2

\* Reading a message.
LEMMA AppliesEarly ==
  ASSUME Early, NEW b, Crossing(outbox, inbox, View, b), Apply
  PROVE  Early' /\ Crossing(outbox', inbox', View', b)
<1> DEFINE a == View
           a2 == View'
           m == Head(inbox)
<1>1. /\ inbox # <<>> /\ inbox' = Tail(inbox) /\ outbox' = outbox
      /\ Crossing(outbox, inbox, a, b)
  BY DEF Apply
<1>2. inbox \in Seq(Notes) /\ \A i \in 1 .. Len(inbox) : inbox[i].type = "client" =>
        inbox[i].id \in b.members \ a.members
  BY <1>1 DEF Crossing, Carries
<1>3. m \in Notes /\ m = inbox[1] /\ 1 \in 1 .. Len(inbox)
  BY <1>1, <1>2, OneLess
<1>4. CASE \E s \in Shards : m = NodeNote(s)
  <2>1. PICK s \in Shards : m = NodeNote(s)
    BY <1>4
  <2>2. m.type = "NodeNum" /\ m.shard = s
    BY <2>1 DEF NodeNote
  <2>3. CountsNode(m)
    BY <2>2 DEF Apply
  <2>4. /\ NodeNum' = [NodeNum EXCEPT ![s] = @ + 1] /\ assigned' = assigned
        /\ UNCHANGED <<round, client, seat, Consensus_Map, Validation_Map, Winner, lockHeld>>
    BY <2>2, <2>3 DEF CountsNode, groups
  <2>5. Early' /\ a2.client = a.client /\ a2.members = a.members
    BY <2>4, StaysEarly
  <2>6. a2.assigned = a.assigned /\ a2.NodeNum = [a.NodeNum EXCEPT ![s] = @ + 1]
    BY <2>4 DEF View
  <2>7. Head(inbox) = NodeNote(s)
    BY <2>1
  <2> HIDE DEF a, a2, m
  <2>8. Crossing(outbox, Tail(inbox), a2, b)
    BY <1>1, <2>5, <2>6, <2>7, SlotHeard
  <2> QED BY <1>1, <2>5, <2>8 DEF a2
<1>5. CASE \E c \in Client, s \in Shards : m = ClientNote(c, s, RandomOf[c])
  <2>1. PICK c \in Client, s \in Shards : m = ClientNote(c, s, RandomOf[c])
    BY <1>5
  <2>2. m.type = "client" /\ m.id = c /\ m.shard = s /\ m.random = RandomOf[c]
    BY <2>1 DEF ClientNote
  <2>3. seat[c] = "none"
    BY <1>2, <1>3, <2>2 DEF View
  <2>4. AddsClient(m)
    BY <2>2 DEF Apply
  <2>5. ~ElectionPanics(m.shard)
    BY DEF Early, FirstRound, ElectionPanics, Entries, Registered
  <2>6. Join(c, s, RandomOf[c]) /\ assigned' = assigned
    BY <2>2, <2>4, <2>5 DEF AddsClient
  <2>7. /\ Early' /\ a2.members = a.members \cup {c} /\ a2.client[c].shard = s
        /\ \A d \in a.members : a2.client[d].shard = a.client[d].shard
        /\ a2.NodeNum = a.NodeNum
    BY <2>3, <2>6, JoinsEarly
  <2>8. a2.assigned = a.assigned
    BY <2>6 DEF View
  <2>9. Head(inbox).type = "client" /\ Head(inbox).id = c /\ Head(inbox).shard = s
    BY <2>2
  <2> HIDE DEF a, a2, m
  <2>10. Crossing(outbox, Tail(inbox), a2, b)
    BY <1>1, <2>7, <2>8, <2>9, ClientHeard
  <2> QED BY <1>1, <2>7, <2>10 DEF a2
<1> QED BY <1>3, <1>4, <1>5 DEF Notes

\* Nothing happens at this server.
LEMMA IdlesEarly ==
  ASSUME Early, UNCHANGED serverVars
  PROVE  Early' /\ View' = View
<1>1. /\ UNCHANGED <<round, client, seat, Consensus_Map, Validation_Map, Winner, lockHeld>>
      /\ UNCHANGED <<NodeNum, assigned>>
  BY DEF serverVars, vars, groups
<1>2. View' = View
  BY <1>1 DEF View
<1> QED BY <1>1, <1>2, StaysEarly
=============================================================================
