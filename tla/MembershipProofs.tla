-------------------------- MODULE MembershipProofs --------------------------
(***************************************************************************)
(* Theorems about Membership, for any number of shards, clients per shard  *)
(* and random numbers: its types, who is seated in a round, that the       *)
(* leader announced is the one the random numbers call for, and, with      *)
(* rounds in step, that every group is handed over to the validation stage *)
(* and every vote is published.                                            *)
(***************************************************************************)
EXTENDS Membership, SumProofs

-----------------------------------------------------------------------------
\* uuid.NewV4 returns an id no client has, as long as the bound leaves one.
LEMMA FreshIdIsFresh ==
  ASSUME \E d \in Client : seat[d] = "none"
  PROVE  FreshId \in Client /\ seat[FreshId] = "none"
BY DEF FreshId

\* The loop over a map of clients ends on a client of the map that has the
\* smallest random number in it, wherever it started.
LEMMA SmallestRandomIsSmallest ==
  ASSUME NEW C, NEW m, NEW first \in m, NEW w \in SmallestRandom(C, first, m)
  PROVE  w \in m /\ \A d \in m : C[w].random <= C[d].random
BY DEF SmallestRandom

\* Every set of clients is finite and has a cardinality in Nat.
LEMMA ClientSets ==
  ASSUME NEW S \in SUBSET Client
  PROVE  IsFiniteSet(S) /\ Cardinality(S) \in Nat
BY FS_Subset, FS_CardinalityType, MembershipAssumption DEF MembershipAssumption

-----------------------------------------------------------------------------
\* A step of AssignShardNum keeps the types.
LEMMA AssignType == TypeOK /\ AssignShardNum => TypeOK'
<1> SUFFICES ASSUME TypeOK, AssignShardNum PROVE TypeOK'
  OBVIOUS
<1>1. PICK s \in Shards :
        /\ NodeNum[s] # CLIENT_MAX
        /\ NodeNum' = [NodeNum EXCEPT ![s] = @ + 1]
        /\ assigned' = [assigned EXCEPT ![s] = @ + 1]
        /\ UNCHANGED <<round, groups, Validation_Map, Winner, votes, lockHeld>>
  BY DEF AssignShardNum
<1>2. NodeNum[s] + 1 \in 0 .. CLIENT_MAX
  <2>1. NodeNum[s] \in 0 .. CLIENT_MAX
    BY DEF TypeOK
  <2> QED BY <2>1, <1>1, MembershipAssumption DEF MembershipAssumption
<1>3. NodeNum' \in [Shards -> 0 .. CLIENT_MAX] /\ assigned' \in [Shards -> Nat]
  BY <1>1, <1>2 DEF TypeOK
<1> QED BY <1>1, <1>3 DEF TypeOK, groups, votes

\* So does an upload, whoever sent it.
LEMMA AppendType == TypeOK /\ AppendBlock => TypeOK'
<1> SUFFICES ASSUME TypeOK, AppendBlock PROVE TypeOK'
  OBVIOUS
<1>1. NodeNum' \in [Shards -> 0 .. CLIENT_MAX] /\ Consensus_Map' \in [Shards -> Nat]
  BY MembershipAssumption DEF MembershipAssumption, AppendBlock, Nil
<1>2. round' \in Nat \ {0} /\ Winner' \in Client \cup {None}
  BY DEF TypeOK, AppendBlock
<1> QED BY <1>1, <1>2 DEF TypeOK, AppendBlock, votes

\* A registration keeps the types, whether or not it elects somebody.
LEMMA RegisterType ==
  ASSUME TypeOK, NEW s \in Shards, NEW x \in Randoms, RegisterCommunication(s, x)
  PROVE  TypeOK'
<1> DEFINE c == FreshId
           C == [client EXCEPT ![c] = [shard |-> s, round |-> round, random |-> x]]
<1>1. c \in Client
  BY FreshIdIsFresh DEF RegisterCommunication, Join
<1>2. client' = C /\ C \in [Client -> [shard : 0 .. ShardNum, round : Nat, random : Int]]
  BY <1>1, MembershipAssumption
  DEF RegisterCommunication, Join, MembershipAssumption, TypeOK, Shards
<1>3. /\ assigned' \in [Shards -> Nat]
      /\ Consensus_Map' \in [Shards -> Nat]
      /\ UNCHANGED <<round, NodeNum, votes, lockHeld>>
  BY DEF RegisterCommunication, Join, TypeOK
<1>4. /\ seat' \in [Client -> Seats]
      /\ Validation_Map' \in [Shards -> Nat]
      /\ Winner' \in Client \cup {None}
  <2>1. CASE ~ShardFills(s)
    BY <2>1, <1>1 DEF RegisterCommunication, Join, TypeOK, Seats
  <2>2. CASE ShardFills(s)
    <3>1. PICK w \in SmallestRandom(C, c, Entries(s, round) \cup {c}) :
            /\ seat' = [seat EXCEPT ![c] = "exec", ![w] = "committee"]
            /\ Elect(s, w, C)
      BY <2>2 DEF RegisterCommunication, Join
    <3>2. w \in Client
      BY <1>1, SmallestRandomIsSmallest DEF Entries, Registered
    <3>3. Winner' \in Client \cup {None}
      <4> DEFINE members == Committee \cup {w}
      <4>1. members \subseteq Client
        BY <3>2 DEF Committee
      <4>2. Winner' \in SmallestRandom(C, w, members) => Winner' \in members
        <5> HIDE DEF members, C
        <5> QED BY SmallestRandomIsSmallest DEF members
      <4>3. Winner' \in SmallestRandom(C, w, members) \/ Winner' = Winner
        BY <3>1 DEF Elect
      <4> QED BY <4>1, <4>2, <4>3 DEF TypeOK
    <3> QED BY <3>1, <3>2, <3>3, <1>1 DEF Elect, TypeOK, Seats
  <2> QED BY <2>1, <2>2
<1> QED BY <1>2, <1>3, <1>4 DEF TypeOK, votes

\* An executor's upload keeps the types, counted or not.
LEMMA UploadType ==
  ASSUME TypeOK, NEW c \in Client, NEW root \in Root, ExecutorUploads(c, root)
  PROVE  TypeOK'
<1>1. CountedVotes(c, root) \in [Shards -> [Root -> Nat]]
  <2> DEFINE s == client[c].shard
  <2>1. CASE s \notin Shards
    BY <2>1 DEF TypeOK, CountedVotes
  <2>2. CASE s \in Shards
    <3>1. NewRootsVote[s] \in [Root -> Nat] /\ NewRootsVote[s][root] + 1 \in Nat
      BY <2>2 DEF TypeOK
    <3>2. [NewRootsVote[s] EXCEPT ![root] = @ + 1] \in [Root -> Nat]
      BY <3>1
    <3> QED BY <3>2 DEF TypeOK, CountedVotes
  <2> QED BY <2>1, <2>2
<1>2. CASE CollectRoot(c, root)
  <2>1. seat' \in [Client -> Seats]
    BY <1>2 DEF CollectRoot, TypeOK, Seats
  <2>2. Validation_Map' \in [Shards -> Nat]
    BY <1>2 DEF CollectRoot, TypeOK, Nil
  <2>3. NewRootsVote' \in [Shards -> [Root -> Nat]]
    BY <1>1, <1>2 DEF CollectRoot, NoVotes
  <2>4. RootsVote' \in [Shards -> [Root -> Nat]]
    BY <1>1, <1>2 DEF CollectRoot, TypeOK
  <2> QED BY <1>2, <2>1, <2>2, <2>3, <2>4 DEF CollectRoot, TypeOK
<1>3. CASE CollectRootPanics(c, root)
  BY <1>1, <1>3 DEF CollectRootPanics, TypeOK, groups
<1> QED BY <1>2, <1>3 DEF ExecutorUploads

\* Every variable starts in its type.
LEMMA InitType == Init => TypeOK
<1> SUFFICES ASSUME Init PROVE TypeOK
  OBVIOUS
<1>1. NodeNum \in [Shards -> 0 .. CLIENT_MAX]
  BY MembershipAssumption DEF MembershipAssumption, Init
<1>2. client \in [Client -> [shard : 0 .. ShardNum, round : Nat, random : Int]]
  BY MembershipAssumption DEF MembershipAssumption, Init
<1>3. NewRootsVote \in [Shards -> [Root -> Nat]] /\ RootsVote \in [Shards -> [Root -> Nat]]
  BY DEF Init, NoVotes
<1>4. /\ assigned \in [Shards -> Nat]
      /\ Consensus_Map \in [Shards -> Nat]
      /\ Validation_Map \in [Shards -> Nat]
      /\ seat \in [Client -> Seats]
  BY DEF Init, Nil, Seats
<1>5. round \in Nat \ {0} /\ Winner \in Client \cup {None}
  BY DEF Init
<1>6. lockHeld \in BOOLEAN
  BY DEF Init
<1> QED BY <1>1, <1>2, <1>3, <1>4, <1>5, <1>6 DEF TypeOK

\* Every variable of Membership keeps its type: in particular no counter of a
\* shard passes CLIENT_MAX and Winner is a client or nobody.
THEOREM TypeCorrect == Spec => []TypeOK
<1>1. TypeOK /\ [Next]_vars => TypeOK'
  BY AssignType, AppendType, RegisterType, UploadType
  DEF Next, LeaderUploads, vars, groups, votes, TypeOK
<1> QED BY <1>1, InitType, PTL DEF Spec

-----------------------------------------------------------------------------
(***************************************************************************)
(* The inductive invariant.  NoOverfill and OneSeatPerShard do not carry   *)
(* themselves: that a shard elects once only follows from the committee's  *)
(* members coming from full shards, which take nobody in any more.         *)
(***************************************************************************)
\* Nobody belongs to a round that has not begun.
RegisteredPast ==
  \A c \in Client : seat[c] # "none" =>
    client[c].shard \in Shards /\ client[c].round <= round

\* A shard sends its member to the committee when it is full.
SeatedWhenFull ==
  \A c \in Committee :
    Cardinality(Registered(client[c].shard, round)) = CLIENT_MAX

\* The member a shard sends has the smallest random number of the shard.
SeatIsSmallest ==
  \A c \in Committee : \A d \in Registered(client[c].shard, round) :
    client[c].random <= client[d].random

\* The leader has the smallest random number of the committee.
LeaderIsSmallestSeat ==
  Winner # None => \A c \in Committee : client[Winner].random <= client[c].random

Seating ==
  /\ TypeOK
  /\ RegisteredPast
  /\ NoOverfill
  /\ OneSeatPerShard
  /\ SeatedWhenFull
  /\ SeatIsSmallest
  /\ LeaderIsSmallestSeat

-----------------------------------------------------------------------------
\* The clients of a shard and round are finitely many.
LEMMA RegisteredCard ==
  ASSUME NEW s, NEW r
  PROVE  IsFiniteSet(Registered(s, r)) /\ Cardinality(Registered(s, r)) \in Nat
BY ClientSets DEF Registered

\* A shard that still awaits a client is not full, so it has no member in the
\* committee and there is no leader.
LEMMA AwaitedNotSeated ==
  ASSUME Seating, NEW s \in Shards, assigned[s] > 0
  PROVE  /\ Cardinality(Registered(s, round)) < CLIENT_MAX
         /\ \A c \in Committee : client[c].shard # s
         /\ Winner = None
<1>1. Cardinality(Registered(s, round)) < CLIENT_MAX
  <2>1. /\ NodeNum[s] \in 0 .. CLIENT_MAX
        /\ assigned[s] \in Nat
        /\ NodeNum[s] = assigned[s] + Cardinality(Registered(s, round))
        /\ NodeNum[s] <= CLIENT_MAX
    BY DEF Seating, TypeOK, NoOverfill
  <2> QED BY <2>1, RegisteredCard, MembershipAssumption DEF MembershipAssumption
<1>2. \A c \in Committee : client[c].shard # s
  BY <1>1, RegisteredCard, MembershipAssumption
  DEF Seating, SeatedWhenFull, MembershipAssumption
<1>3. Winner = None
  BY <1>2 DEF Seating, OneSeatPerShard
<1> QED BY <1>1, <1>2, <1>3

\* Once there is a leader every shard is full and awaits nobody.
LEMMA LeaderMeansFull ==
  ASSUME Seating, Winner # None, NEW s \in Shards
  PROVE  assigned[s] = 0
BY AwaitedNotSeated DEF Seating, TypeOK

\* A committee of ShardNum clients, no two of one shard, has one of every
\* shard: the registration counts members, it never looks at their shards.
LEMMA FullCommittee ==
  ASSUME NEW M \in SUBSET Client, NEW f \in [M -> Shards],
         \A c, d \in M : f[c] = f[d] => c = d,
         Cardinality(M) = ShardNum
  PROVE  \A s \in Shards : \E c \in M : f[c] = s
<1>1. IsFiniteSet(Shards) /\ Cardinality(Shards) = ShardNum
  BY FS_Interval, MembershipAssumption DEF Shards, MembershipAssumption
<1>2. f \in Injection(M, Shards)
  BY DEF Injection, IsInjective
<1>3. f \in Surjection(M, Shards)
  BY <1>1, <1>2, FS_Injection
<1> QED BY <1>3 DEF Surjection
-----------------------------------------------------------------------------
\* A step that registers nobody, moves nobody to the committee and leaves the
\* leader and the slots alone keeps the seating: reports of roots do.
LEMMA SameSeats ==
  ASSUME Seating, TypeOK',
         UNCHANGED <<round, NodeNum, assigned, client, Winner>>,
         \A c \in Client : (seat'[c] = "none") = (seat[c] = "none"),
         \A c \in Client : (seat'[c] = "committee") = (seat[c] = "committee")
  PROVE  Seating' /\ Committee' = Committee
<1>1. \A s, r : Registered(s, r)' = Registered(s, r)
  BY DEF Registered
<1>2. Committee' = Committee
  BY DEF Committee
<1>3. RegisteredPast'
  BY DEF Seating, RegisteredPast
<1>4. NoOverfill'
  BY <1>1 DEF Seating, NoOverfill
<1>5. OneSeatPerShard'
  BY <1>2 DEF Seating, OneSeatPerShard
<1>6. SeatedWhenFull' /\ SeatIsSmallest' /\ LeaderIsSmallestSeat'
  BY <1>1, <1>2 DEF Seating, SeatedWhenFull, SeatIsSmallest, LeaderIsSmallestSeat
<1> QED BY <1>2, <1>3, <1>4, <1>5, <1>6 DEF Seating

\* An executor's upload keeps the seating.
LEMMA UploadSeating ==
  ASSUME Seating, NEW c \in Client, NEW root \in Root, ExecutorUploads(c, root)
  PROVE  Seating' /\ Committee' = Committee /\ Winner' = Winner
<1>1. TypeOK'
  BY UploadType DEF Seating
<1>2. UNCHANGED <<round, NodeNum, assigned, client, Winner>>
  BY DEF ExecutorUploads, CollectRoot, CollectRootPanics, groups
<1>3. seat[c] = "exec" /\ (seat' = seat \/ seat' = [seat EXCEPT ![c] = "nil"])
  BY DEF ExecutorUploads, CollectRoot, CollectRootPanics, groups
<1>4. \A d \in Client : /\ (seat'[d] = "none") = (seat[d] = "none")
                        /\ (seat'[d] = "committee") = (seat[d] = "committee")
  BY <1>3 DEF Seating, TypeOK
<1> QED BY <1>1, <1>2, <1>4, SameSeats

\* An assignment takes a slot and adds an awaited client, which balance.
LEMMA AssignSeating ==
  ASSUME Seating, AssignShardNum
  PROVE  Seating' /\ Committee' = Committee /\ Winner' = Winner
<1>1. PICK s \in Shards :
        /\ NodeNum[s] # CLIENT_MAX
        /\ NodeNum' = [NodeNum EXCEPT ![s] = @ + 1]
        /\ assigned' = [assigned EXCEPT ![s] = @ + 1]
        /\ UNCHANGED <<round, groups, Validation_Map, Winner, votes, lockHeld>>
  BY DEF AssignShardNum
<1>2. TypeOK'
  BY AssignType DEF Seating
<1>3. \A t, r : Registered(t, r)' = Registered(t, r)
  BY <1>1 DEF Registered, groups
<1>4. Committee' = Committee
  BY <1>1 DEF Committee, groups
<1>5. NoOverfill'
  <2> SUFFICES ASSUME NEW t \in Shards
               PROVE  /\ NodeNum'[t] = assigned'[t] + Cardinality(Registered(t, round)')
                      /\ NodeNum'[t] <= CLIENT_MAX
    BY DEF NoOverfill
  <2>1. /\ NodeNum[t] = assigned[t] + Cardinality(Registered(t, round))
        /\ NodeNum[t] \in 0 .. CLIENT_MAX
        /\ assigned[t] \in Nat
        /\ NodeNum'[t] \in 0 .. CLIENT_MAX
    BY <1>2 DEF Seating, NoOverfill, TypeOK
  <2>2. Registered(t, round)' = Registered(t, round)
    BY <1>1, <1>3 DEF Registered, groups
  <2>3. NodeNum'[t] <= CLIENT_MAX
    BY <2>1, MembershipAssumption DEF MembershipAssumption
  <2>4. CASE t = s
    BY <1>1, <2>1, <2>2, <2>3, <2>4, RegisteredCard DEF Seating, TypeOK
  <2>5. CASE t # s
    BY <1>1, <2>1, <2>2, <2>3, <2>5 DEF Seating, TypeOK
  <2> QED BY <2>4, <2>5
<1>6. /\ RegisteredPast'
      /\ OneSeatPerShard'
      /\ LeaderIsSmallestSeat'
  BY <1>1, <1>4
  DEF Seating, RegisteredPast, OneSeatPerShard, LeaderIsSmallestSeat, groups
<1>7. SeatedWhenFull' /\ SeatIsSmallest'
  BY <1>1, <1>3, <1>4 DEF Seating, SeatedWhenFull, SeatIsSmallest, groups
<1> QED BY <1>1, <1>2, <1>4, <1>5, <1>6, <1>7 DEF Seating

\* An upload by the leader finds every shard full and nobody awaited, so the
\* next round begins with nobody registered and every slot free.
LEMMA LeaderSeating ==
  ASSUME Seating, LeaderUploads
  PROVE  Seating'
<1>1. TypeOK'
  BY AppendType DEF Seating, LeaderUploads
<1>2. \A s \in Shards : assigned'[s] = 0 /\ NodeNum'[s] = 0
  BY LeaderMeansFull DEF LeaderUploads, AppendBlock
<1>3. \A c \in Client : seat'[c] # "none" => client'[c].round < round'
  BY DEF LeaderUploads, AppendBlock, Seating, RegisteredPast, TypeOK
<1>4. /\ \A s : Registered(s, round)' = {}
      /\ Committee' = {}
      /\ Winner' = None
  BY <1>3, <1>1 DEF Registered, Committee, LeaderUploads, AppendBlock, TypeOK
<1>5. NoOverfill'
  BY <1>2, <1>4, FS_EmptySet, MembershipAssumption DEF NoOverfill, MembershipAssumption
<1>6. RegisteredPast'
  BY DEF LeaderUploads, AppendBlock, Seating, RegisteredPast, TypeOK
<1>7. OneSeatPerShard' /\ SeatedWhenFull' /\ SeatIsSmallest' /\ LeaderIsSmallestSeat'
  BY <1>4 DEF OneSeatPerShard, SeatedWhenFull, SeatIsSmallest, LeaderIsSmallestSeat
<1> QED BY <1>1, <1>5, <1>6, <1>7 DEF Seating
-----------------------------------------------------------------------------
\* What every registration of a client c with shard s does, elected or not.
Joins(c, s, x) ==
  /\ seat[c] = "none"
  /\ assigned[s] > 0
  /\ round' = round
  /\ NodeNum' = NodeNum
  /\ assigned' = [assigned EXCEPT ![s] = @ - 1]
  /\ client'[c] = [shard |-> s, round |-> round, random |-> x]
  /\ \A d \in Client : d # c => client'[d] = client[d]
  /\ seat'[c] # "none"
  /\ \A d \in Client : d # c => ((seat'[d] = "none") <=> (seat[d] = "none"))

\* The slot the new client takes is the one it was promised, and nobody else
\* joins a shard.
LEMMA JoinSlots ==
  ASSUME Seating, TypeOK', NEW c \in Client, NEW s \in Shards, NEW x \in Int,
         Joins(c, s, x)
  PROVE  /\ RegisteredPast'
         /\ NoOverfill'
         /\ Registered(s, round)' = Registered(s, round) \cup {c}
         /\ Cardinality(Registered(s, round)') = Cardinality(Registered(s, round)) + 1
         /\ \A t \in Shards : t # s => Registered(t, round)' = Registered(t, round)
<1>1. RegisteredPast'
  <2> SUFFICES ASSUME NEW d \in Client, seat'[d] # "none"
               PROVE  client'[d].shard \in Shards /\ client'[d].round <= round'
    BY DEF RegisteredPast
  <2>1. CASE d = c
    BY <2>1 DEF Seating, TypeOK, Joins
  <2>2. CASE d # c
    BY <2>2 DEF Seating, RegisteredPast, Joins
  <2> QED BY <2>1, <2>2
<1>2. Registered(s, round)' = Registered(s, round) \cup {c}
  BY DEF Registered, Joins
<1>3. \A t \in Shards : t # s => Registered(t, round)' = Registered(t, round)
  BY DEF Registered, Joins
<1>4. Cardinality(Registered(s, round)') = Cardinality(Registered(s, round)) + 1
  <2>1. c \notin Registered(s, round)
    BY DEF Registered, Joins
  <2> QED BY <1>2, <2>1, RegisteredCard, FS_AddElement
<1>5. NoOverfill'
  <2> SUFFICES ASSUME NEW t \in Shards
               PROVE  /\ NodeNum'[t] = assigned'[t] + Cardinality(Registered(t, round)')
                      /\ NodeNum'[t] <= CLIENT_MAX
    BY DEF NoOverfill
  <2>1. /\ NodeNum'[t] = NodeNum[t]
        /\ NodeNum[t] = assigned[t] + Cardinality(Registered(t, round))
        /\ NodeNum[t] <= CLIENT_MAX
        /\ assigned[t] \in Nat
        /\ Cardinality(Registered(t, round)) \in Nat
    BY RegisteredCard DEF Seating, NoOverfill, TypeOK, Joins
  <2>2. assigned'[t] = IF t = s THEN assigned[t] - 1 ELSE assigned[t]
    BY DEF Seating, TypeOK, Joins
  <2>3. Cardinality(Registered(t, round)') = IF t = s THEN Cardinality(Registered(t, round)) + 1
                                             ELSE Cardinality(Registered(t, round))
    BY <1>3, <1>4
  <2> QED BY <2>1, <2>2, <2>3
<1> QED BY <1>1, <1>2, <1>3, <1>4, <1>5

\* Clients seated before keep what they submitted, and their shards are not s.
LEMMA JoinKeepsSeated ==
  ASSUME Seating, NEW c \in Client, NEW s \in Shards, NEW x \in Int, Joins(c, s, x),
         NEW d \in Committee
  PROVE  /\ d # c /\ client'[d] = client[d]
         /\ client[d].shard \in Shards /\ client[d].shard # s
         /\ \A e \in Registered(client[d].shard, round) :
              e \in Client /\ e # c /\ client'[e] = client[e]
<1>1. d \in Client /\ d # c /\ client'[d] = client[d]
  BY DEF Committee, Joins
<1>2. client[d].shard \in Shards
  BY DEF Seating, RegisteredPast, Committee
<1>3. client[d].shard # s
  BY AwaitedNotSeated DEF Joins
<1>4. \A e \in Registered(client[d].shard, round) : e \in Client /\ e # c
  BY DEF Registered, Joins
<1> QED BY <1>1, <1>2, <1>3, <1>4 DEF Joins

\* A registration with s leaves the groups of the shards that elected alone.
LEMMA JoinKeepsRegistered ==
  ASSUME Seating, NEW c \in Client, NEW s \in Shards, NEW x \in Int, Joins(c, s, x),
         NEW d \in Committee
  PROVE  Registered(client[d].shard, round)' = Registered(client[d].shard, round)
<1>1. client'[d].shard = client[d].shard /\ client[d].shard # s
  BY JoinKeepsSeated
<1>2. client'[c].shard = s /\ seat[c] = "none" /\ round' = round
  BY DEF Joins
<1>3. \A e \in Client : e # c =>
        client'[e] = client[e] /\ ((seat'[e] = "none") <=> (seat[e] = "none"))
  BY DEF Joins
<1> QED BY <1>1, <1>2, <1>3 DEF Registered

\* A registration that elects nobody keeps the seating.
LEMMA JoinOnlySeating ==
  ASSUME Seating, TypeOK', NEW c \in Client, NEW s \in Shards, NEW x \in Int,
         Joins(c, s, x), seat' = [seat EXCEPT ![c] = "exec"], Winner' = Winner
  PROVE  Seating'
<1>1. Committee' = Committee
  BY DEF Seating, TypeOK, Committee, Joins
<1>2. Winner = None
  BY AwaitedNotSeated DEF Joins
<1>3. OneSeatPerShard' /\ LeaderIsSmallestSeat'
  BY <1>1, <1>2, JoinKeepsSeated DEF Seating, OneSeatPerShard, LeaderIsSmallestSeat
<1>4. SeatedWhenFull' /\ SeatIsSmallest'
  <2> SUFFICES ASSUME NEW d \in Committee
               PROVE  /\ Cardinality(Registered(client[d].shard, round))' = CLIENT_MAX
                      /\ \A e \in Registered(client[d].shard, round)' :
                           client'[d].random <= client'[e].random
    BY <1>1 DEF SeatedWhenFull, SeatIsSmallest
  <2>1. Registered(client[d].shard, round)' = Registered(client[d].shard, round)
    BY JoinKeepsRegistered
  <2> QED BY <2>1, JoinKeepsSeated DEF Seating, SeatedWhenFull, SeatIsSmallest
<1> QED BY <1>3, <1>4, JoinSlots DEF Seating
\* A registration that fills its shard seats the smallest of the shard, and
\* the last shard to do so makes the smallest of the committee its leader.
LEMMA JoinElectSeating ==
  ASSUME Seating, TypeOK', NEW c \in Client, NEW s \in Shards, NEW x \in Int,
         Joins(c, s, x), ShardFills(s),
         NEW w \in SmallestRandom(client', c, Entries(s, round) \cup {c}),
         seat' = [seat EXCEPT ![c] = "exec", ![w] = "committee"],
         Elect(s, w, client')
  PROVE  Seating'
<1>1. Entries(s, round) = Registered(s, round)
  BY AwaitedNotSeated DEF Entries, Registered, Committee, Joins
<1>2. /\ Registered(s, round)' = Registered(s, round) \cup {c}
      /\ Cardinality(Registered(s, round)') = CLIENT_MAX
  BY <1>1, JoinSlots DEF ShardFills
<1>3. /\ w \in Registered(s, round)'
      /\ \A d \in Registered(s, round)' : client'[w].random <= client'[d].random
  BY <1>1, <1>2, SmallestRandomIsSmallest
<1>4. w \in Client /\ client'[w].shard = s /\ client'[w].round = round
  BY <1>3 DEF Registered, Joins
<1>5. Committee' = Committee \cup {w}
  <2>1. /\ seat'[w] = "committee"
        /\ \A d \in Client : d # w =>
             (seat'[d] = "committee" <=> d # c /\ seat[d] = "committee")
    BY <1>4 DEF Seating, TypeOK
  <2>2. \A d \in Client : d # c => client'[d] = client[d]
    BY DEF Joins
  <2>3. seat[c] = "none" /\ round' = round
    BY DEF Joins
  <2> QED BY <1>4, <2>1, <2>2, <2>3 DEF Committee
<1>6. \A d \in Committee : client'[d] = client[d] /\ client[d].shard \in Shards /\ client[d].shard # s
  BY JoinKeepsSeated
<1>7. SeatedWhenFull' /\ SeatIsSmallest'
  <2> SUFFICES ASSUME NEW d \in Committee \cup {w}
               PROVE  /\ Cardinality(Registered(client[d].shard, round))' = CLIENT_MAX
                      /\ \A e \in Registered(client[d].shard, round)' :
                           client'[d].random <= client'[e].random
    BY <1>5 DEF SeatedWhenFull, SeatIsSmallest
  <2>1. CASE d = w
    <3>1. Registered(client[d].shard, round)' = Registered(s, round)'
      BY <1>4, <2>1 DEF Registered
    <3> QED BY <1>2, <1>3, <2>1, <3>1
  <2>2. CASE d \in Committee
    <3>1. Registered(client[d].shard, round)' = Registered(client[d].shard, round)
      BY <2>2, JoinKeepsRegistered
    <3> QED BY <2>2, <3>1, JoinKeepsSeated DEF Seating, SeatedWhenFull, SeatIsSmallest
  <2> QED BY <2>1, <2>2
<1>8. \A d, e \in Committee' : client'[d].shard = client'[e].shard => d = e
  BY <1>4, <1>5, <1>6 DEF Seating, OneSeatPerShard
<1>9. OneSeatPerShard' /\ LeaderIsSmallestSeat'
  <2>1. Winner = None
    BY AwaitedNotSeated DEF Joins
  <2>2. CASE Winner' = Winner
    BY <1>8, <2>1, <2>2 DEF OneSeatPerShard, LeaderIsSmallestSeat
  <2>3. CASE /\ Cardinality(Committee \cup {w}) = ShardNum
             /\ Winner' \in SmallestRandom(client', w, Committee \cup {w})
    <3>1. /\ Winner' \in Committee'
          /\ \A d \in Committee' : client'[Winner'].random <= client'[d].random
      BY <1>5, <2>3, SmallestRandomIsSmallest
    <3>2. \A t \in Shards : \E d \in Committee' : client'[d].shard = t
      <4> DEFINE f == [d \in Committee' |-> client'[d].shard]
      <4>1. Committee' \in SUBSET Client /\ Cardinality(Committee') = ShardNum
        BY <1>5, <2>3 DEF Committee
      <4>2. f \in [Committee' -> Shards]
        BY <1>4, <1>5, <1>6
      <4>3. \A d, e \in Committee' : f[d] = f[e] => d = e
        BY <1>8
      <4>4. \A t \in Shards : \E d \in Committee' : f[d] = t
        <5> HIDE DEF f
        <5> QED BY <4>1, <4>2, <4>3, FullCommittee
      <4> QED BY <4>4
    <3> QED BY <1>8, <3>1, <3>2 DEF OneSeatPerShard, LeaderIsSmallestSeat
  <2> QED BY <2>2, <2>3 DEF Elect
<1> QED BY <1>7, <1>9, JoinSlots DEF Seating
\* A registration keeps the seating.
LEMMA RegisterSeating ==
  ASSUME Seating, NEW s \in Shards, NEW x \in Randoms, RegisterCommunication(s, x)
  PROVE  Seating' /\ Winner = None
<1> DEFINE c == FreshId
<1>1. TypeOK'
  BY RegisterType DEF Seating
<1>2. /\ c \in Client /\ seat[c] = "none" /\ x \in Int
      /\ client' = [client EXCEPT ![c] = [shard |-> s, round |-> round, random |-> x]]
  BY FreshIdIsFresh, MembershipAssumption
  DEF RegisterCommunication, Join, MembershipAssumption
<1>3. /\ assigned[s] > 0 /\ assigned' = [assigned EXCEPT ![s] = @ - 1]
      /\ round' = round /\ NodeNum' = NodeNum
  BY DEF RegisterCommunication, Join
<1>4. ASSUME NEW w \in Entries(s, round) \cup {c},
             \/ seat' = [seat EXCEPT ![c] = "exec"]
             \/ seat' = [seat EXCEPT ![c] = "exec", ![w] = "committee"]
      PROVE  Joins(c, s, x)
  <2>1. \/ w = c
        \/ w \in Client /\ seat[w] # "none"
    BY <1>4 DEF Entries, Registered
  <2>2. \A d \in Client : seat'[d] # "none" <=> d = c \/ seat[d] # "none"
    BY <1>2, <1>4, <2>1 DEF Seating, TypeOK
  <2>3. /\ client'[c] = [shard |-> s, round |-> round, random |-> x]
        /\ \A d \in Client : d # c => client'[d] = client[d]
    BY <1>2 DEF Seating, TypeOK
  <2> QED BY <1>2, <1>3, <2>2, <2>3 DEF Joins
<1>5. CASE ~ShardFills(s)
  <2>1. seat' = [seat EXCEPT ![c] = "exec"] /\ Winner' = Winner
    BY <1>5 DEF RegisterCommunication, Join
  <2>2. Joins(c, s, x)
    BY <1>4, <2>1
  <2> QED BY <1>1, <1>2, <2>1, <2>2, JoinOnlySeating, AwaitedNotSeated, <1>3
<1>6. CASE ShardFills(s)
  <2>1. PICK w \in SmallestRandom(client', c, Entries(s, round) \cup {c}) :
          /\ seat' = [seat EXCEPT ![c] = "exec", ![w] = "committee"]
          /\ Elect(s, w, client')
    BY <1>6 DEF RegisterCommunication, Join
  <2>2. w \in Entries(s, round) \cup {c}
    BY SmallestRandomIsSmallest
  <2>3. Joins(c, s, x)
    BY <1>4, <2>1, <2>2
  <2> QED BY <1>1, <1>2, <1>6, <2>1, <2>3, JoinElectSeating, AwaitedNotSeated, <1>3
<1> QED BY <1>5, <1>6

-----------------------------------------------------------------------------
\* At the start nobody is seated.
LEMMA InitSeating == Init => Seating
<1> SUFFICES ASSUME Init PROVE Seating
  OBVIOUS
<1>1. TypeOK
  BY InitType
<1>2. Committee = {} /\ Winner = None /\ \A s, r : Registered(s, r) = {}
  BY DEF Init, Committee, Registered
<1>3. NoOverfill
  BY <1>2, FS_EmptySet, MembershipAssumption DEF NoOverfill, Init, MembershipAssumption
<1>4. RegisteredPast
  BY DEF Init, RegisteredPast
<1> QED BY <1>1, <1>2, <1>3, <1>4
  DEF Seating, OneSeatPerShard, SeatedWhenFull, SeatIsSmallest, LeaderIsSmallestSeat

\* The seating is an invariant of the handlers, for any number of shards and of
\* clients per shard.
THEOREM SeatingInvariant == Spec => []Seating
<1>1. Seating /\ [Next]_vars => Seating'
  <2> SUFFICES ASSUME Seating, [Next]_vars PROVE Seating'
    OBVIOUS
  <2>1. CASE AssignShardNum
    BY <2>1, AssignSeating
  <2>2. CASE \E s \in Shards, x \in Randoms : RegisterCommunication(s, x)
    BY <2>2, RegisterSeating
  <2>3. CASE LeaderUploads
    BY <2>3, LeaderSeating
  <2>4. CASE \E c \in Client, root \in Root : ExecutorUploads(c, root)
    BY <2>4, UploadSeating
  <2>5. CASE UNCHANGED vars
    <3>1. TypeOK'
      BY <2>5 DEF vars, groups, votes, Seating, TypeOK
    <3> QED BY <2>5, <3>1, SameSeats DEF vars, groups
  <2> QED BY <2>1, <2>2, <2>3, <2>4, <2>5 DEF Next
<1> QED BY InitSeating, <1>1, PTL DEF Spec

\* A shard never takes more than CLIENT_MAX clients in a round.
THEOREM NeverOverfilled == Spec => []NoOverfill
<1>1. Seating => NoOverfill
  BY DEF Seating
<1> QED BY <1>1, SeatingInvariant, PTL

\* The committee holds one client per shard, all of them once there is a leader.
THEOREM OneMemberPerShard == Spec => []OneSeatPerShard
<1>1. Seating => OneSeatPerShard
  BY DEF Seating
<1> QED BY <1>1, SeatingInvariant, PTL

\* The leader has the smallest random number of all clients of the round.
THEOREM LeaderCorrect == Spec => []LeaderIsSmallest
<1>1. Seating => LeaderIsSmallest
  <2> SUFFICES ASSUME Seating, Winner # None, NEW s \in Shards,
                      NEW d \in Registered(s, round)
               PROVE  client[Winner].random <= client[d].random
    BY DEF LeaderIsSmallest
  <2>1. PICK c \in Committee : client[c].shard = s
    BY DEF Seating, OneSeatPerShard
  <2>2. client[Winner].random <= client[c].random /\ client[c].random <= client[d].random
    BY <2>1 DEF Seating, LeaderIsSmallestSeat, SeatIsSmallest
  <2>3. Winner \in Client /\ c \in Client /\ d \in Client
    BY DEF Seating, OneSeatPerShard, Committee, Registered
  <2> QED BY <2>2, <2>3 DEF Seating, TypeOK
<1> QED BY <1>1, SeatingInvariant, PTL

\* Between the leader's announcement and its block nothing changes who is in
\* the committee or who leads it.
THEOREM CommitteeStaysFrozen == Spec => CommitteeFrozen
<1>1. Seating /\ [Next]_vars =>
        (Winner # None /\ round' = round => Winner' = Winner /\ Committee' = Committee)
  <2> SUFFICES ASSUME Seating, [Next]_vars, Winner # None, round' = round
               PROVE  Winner' = Winner /\ Committee' = Committee
    OBVIOUS
  <2>1. CASE AssignShardNum
    BY <2>1, AssignSeating
  <2>2. CASE \E s \in Shards, x \in Randoms : RegisterCommunication(s, x)
    BY <2>2, RegisterSeating
  <2>3. CASE LeaderUploads
    BY <2>3 DEF LeaderUploads, AppendBlock, Seating, TypeOK
  <2>4. CASE \E c \in Client, root \in Root : ExecutorUploads(c, root)
    BY <2>4, UploadSeating
  <2>5. CASE UNCHANGED vars
    BY <2>5 DEF vars, groups, Committee
  <2> QED BY <2>1, <2>2, <2>3, <2>4, <2>5 DEF Next
<1> QED BY <1>1, SeatingInvariant, PTL DEF Spec, CommitteeFrozen
-----------------------------------------------------------------------------
(***************************************************************************)
(* With rounds in step every group is handed over to the validation stage: *)
(* no executor's root ever meets a stage that does not hold it, and no     *)
(* handler panics with Source.Lock held.                                   *)
(***************************************************************************)
-----------------------------------------------------------------------------
(***************************************************************************)
(* The inductive invariant.  ExecutorsHeld is about executors that owe a   *)
(* root; it says neither what the slots of other shards hold nor how a     *)
(* group gets into its slot before it owes anything.                       *)
(***************************************************************************)
\* Only the executors of this round and of the one before have not reported,
\* and those of this round have all not.
TwoGroups ==
  \A c \in Client :
    /\ seat[c] = "exec" => client[c].round \in {round - 1, round} \ {0}
    /\ seat[c] = "nil" => client[c].round < round

Seated(s) == \E c \in Committee : client[c].shard = s

\* The slots of the consensus map hold groups of this round.
SlotsAreFresh ==
  \A s \in Shards :
    /\ Consensus_Map[s] \in {Nil, round}
    /\ Seated(s) => Consensus_Map[s] = round

Owes(s) == \E c \in OwedRoots : client[c].shard = s

\* While a root is owed, the slots of the validation stage hold the last
\* round's groups that owe one, and nothing else.
StageHoldsOwed ==
  OwedRoots # {} =>
    \A s \in Shards : Validation_Map[s] = IF Owes(s) THEN round - 1 ELSE Nil

\* When none is, a group of this round is in its slot as soon as it elects.
StageHoldsElected ==
  OwedRoots = {} =>
    \A s \in Shards :
      /\ Validation_Map[s] \in {Nil, round}
      /\ Seated(s) => Validation_Map[s] = round

HandOver ==
  /\ Seating
  /\ TwoGroups
  /\ SlotsAreFresh
  /\ StageHoldsOwed
  /\ StageHoldsElected
  /\ ~lockHeld

-----------------------------------------------------------------------------
\* The schedule only leaves steps out.
LEMMA InStepIsNext == InStepNext => Next
BY DEF InStepNext, Next, RegisterInStep, PacedUploads, OwedRoots

\* Who owes a root is a client of the round before, of one of the shards.
LEMMA OwedOfLastRound ==
  ASSUME HandOver, NEW c \in OwedRoots
  PROVE  /\ c \in Client /\ seat[c] = "exec"
         /\ client[c].shard \in Shards
         /\ client[c].round = round - 1
         /\ round - 1 # Nil
         /\ round \in Nat \ {0}
<1>1. c \in Client /\ seat[c] = "exec" /\ client[c].round < round
  BY DEF OwedRoots
<1>2. round \in Nat \ {0} /\ client[c].round \in Nat
  BY <1>1 DEF HandOver, Seating, TypeOK
<1>3. client[c].round \in {round - 1, round} \ {0}
  BY <1>1 DEF HandOver, TwoGroups
<1>4. client[c].shard \in Shards
  BY <1>1 DEF HandOver, Seating, RegisteredPast
<1> QED BY <1>1, <1>2, <1>3, <1>4 DEF Nil

\* The validation stage holds whoever owes a root.
LEMMA OwedIsHeld ==
  ASSUME HandOver, NEW c \in OwedRoots
  PROVE  IsValidator(c)
<1>1. Validation_Map[client[c].shard] = round - 1
  BY OwedOfLastRound DEF HandOver, StageHoldsOwed, Owes
<1> QED BY <1>1, OwedOfLastRound DEF IsValidator

\* An assignment touches nothing of this.
LEMMA AssignHandOver ==
  ASSUME HandOver, AssignShardNum
  PROVE  HandOver'
<1>1. UNCHANGED <<round, client, seat, Consensus_Map, Validation_Map, lockHeld>>
  BY DEF AssignShardNum, groups
<1>2. Seating' /\ Committee' = Committee
  BY AssignSeating DEF HandOver
<1>3. OwedRoots' = OwedRoots
  BY <1>1 DEF OwedRoots
<1>4. \A s \in Shards : (Seated(s)' <=> Seated(s)) /\ (Owes(s)' <=> Owes(s))
  BY <1>1, <1>2, <1>3 DEF Seated, Owes
<1> QED BY <1>1, <1>2, <1>3, <1>4
  DEF HandOver, TwoGroups, SlotsAreFresh, StageHoldsOwed, StageHoldsElected

-----------------------------------------------------------------------------
\* What a registration does to the seats and slots that the invariant is about.
LEMMA JoinSeats ==
  ASSUME HandOver, NEW s \in Shards, RegisterInStep(s)
  PROVE  /\ UNCHANGED <<round, lockHeld>>
         /\ OwedRoots' = OwedRoots
         /\ TwoGroups'
         /\ \A t \in Shards : Owes(t)' <=> Owes(t)
         /\ \A t \in Shards : t # s => (Seated(t)' <=> Seated(t))
         /\ Consensus_Map' = [Consensus_Map EXCEPT ![s] = round]
         /\ \/ Validation_Map' = Validation_Map /\ (Seated(s)' <=> Seated(s))
            \/ Validation_Map' = [Validation_Map EXCEPT ![s] = IF @ = Nil THEN round ELSE @]
<1> DEFINE c == FreshId
<1>1. PICK x \in Randoms : RegisterCommunication(s, x)
  BY DEF RegisterInStep
<1>2. /\ c \in Client /\ seat[c] = "none"
      /\ client' = [client EXCEPT ![c] = [shard |-> s, round |-> round, random |-> x]]
      /\ Consensus_Map' = [Consensus_Map EXCEPT ![s] = round]
      /\ UNCHANGED <<round, lockHeld>>
  BY <1>1, FreshIdIsFresh DEF RegisterCommunication, Join
<1>3. /\ client'[c] = [shard |-> s, round |-> round, random |-> x]
      /\ \A d \in Client : d # c => client'[d] = client[d]
      /\ round \in Nat \ {0}
  BY <1>2 DEF HandOver, Seating, TypeOK
<1>4. PICK w \in Client :
        /\ client'[w].shard = s /\ client'[w].round = round
        /\ w = c \/ seat[w] = "exec" \/ seat[w] = "nil"
        /\ \/ /\ seat' = [seat EXCEPT ![c] = "exec"]
              /\ Validation_Map' = Validation_Map
           \/ /\ seat' = [seat EXCEPT ![c] = "exec", ![w] = "committee"]
              /\ Validation_Map' = [Validation_Map EXCEPT ![s] = IF @ = Nil THEN round ELSE @]
  <2>1. CASE ~ShardFills(s)
    BY <1>1, <1>2, <1>3, <2>1 DEF RegisterCommunication, Join
  <2>2. CASE ShardFills(s)
    <3>1. PICK w \in SmallestRandom(client', c, Entries(s, round) \cup {c}) :
            /\ seat' = [seat EXCEPT ![c] = "exec", ![w] = "committee"]
            /\ Elect(s, w, client')
      BY <1>1, <2>2 DEF RegisterCommunication, Join
    <3>2. w \in Entries(s, round) \cup {c}
      BY SmallestRandomIsSmallest
    <3>3. w \in Client /\ client'[w].shard = s /\ client'[w].round = round
      BY <1>2, <1>3, <3>2 DEF Entries, Registered
    <3>4. w = c \/ seat[w] = "exec" \/ seat[w] = "nil"
      BY <3>2 DEF Entries, Registered, HandOver, Seating, TypeOK, Seats
    <3> QED BY <3>1, <3>3, <3>4 DEF Elect
  <2> QED BY <2>1, <2>2
<1>5. \A d \in Client : /\ d # c /\ d # w => seat'[d] = seat[d]
                        /\ seat'[c] \in {"exec", "committee"}
                        /\ w # c => seat'[w] \in {seat[w], "committee"}
  BY <1>2, <1>4 DEF HandOver, Seating, TypeOK
<1>6. OwedRoots' = OwedRoots
  <2>1. \A d \in Client : d # c /\ client[d].round < round => d # w
    BY <1>3, <1>4
  <2> QED BY <1>2, <1>3, <1>4, <1>5, <2>1 DEF OwedRoots
<1>7. TwoGroups'
  BY <1>2, <1>3, <1>5 DEF HandOver, TwoGroups
<1>8. \A t \in Shards : Owes(t)' <=> Owes(t)
  BY <1>2, <1>3, <1>6 DEF Owes, OwedRoots
<1>9. \A t \in Shards : t # s => (Seated(t)' <=> Seated(t))
  BY <1>2, <1>3, <1>4, <1>5 DEF Seated, Committee
<1>10. seat' = [seat EXCEPT ![c] = "exec"] => (Seated(s)' <=> Seated(s))
  BY <1>2, <1>3 DEF Seated, Committee, HandOver, Seating, TypeOK
<1> QED BY <1>2, <1>4, <1>6, <1>7, <1>8, <1>9, <1>10

\* A registration in step keeps the hand-over: a shard that fills while roots
\* are owed still has its last group in its slot.
LEMMA RegisterHandOver ==
  ASSUME HandOver, NEW s \in Shards, RegisterInStep(s)
  PROVE  HandOver'
<1>1. /\ round' = round /\ lockHeld' = lockHeld
      /\ OwedRoots' = OwedRoots
      /\ TwoGroups'
      /\ \A t \in Shards : Owes(t)' <=> Owes(t)
      /\ \A t \in Shards : t # s => (Seated(t)' <=> Seated(t))
      /\ Consensus_Map' = [Consensus_Map EXCEPT ![s] = round]
      /\ \/ Validation_Map' = Validation_Map /\ (Seated(s)' <=> Seated(s))
         \/ Validation_Map' = [Validation_Map EXCEPT ![s] = IF @ = Nil THEN round ELSE @]
  BY JoinSeats
<1>2. Seating'
  <2>1. PICK x \in Randoms : RegisterCommunication(s, x)
    BY DEF RegisterInStep
  <2> QED BY <2>1, RegisterSeating DEF HandOver
<1>3. DOMAIN Consensus_Map = Shards /\ DOMAIN Validation_Map = Shards
  BY DEF HandOver, Seating, TypeOK
<1>4. SlotsAreFresh'
  BY <1>1, <1>3 DEF HandOver, SlotsAreFresh
<1>5. StageHoldsOwed'
  <2> SUFFICES ASSUME OwedRoots # {} PROVE Validation_Map' = Validation_Map
    BY <1>1 DEF HandOver, StageHoldsOwed
  <2>1. Validation_Map[s] # Nil
    BY DEF RegisterInStep
  <2>2. Validation_Map \in [Shards -> Nat]
    BY DEF HandOver, Seating, TypeOK
  <2>3. [Validation_Map EXCEPT ![s] = IF @ = Nil THEN round ELSE @] = Validation_Map
    BY <2>1, <2>2
  <2> QED BY <1>1, <2>3
<1>6. StageHoldsElected'
  <2> SUFFICES ASSUME OwedRoots = {}, NEW t \in Shards
               PROVE  /\ Validation_Map'[t] \in {Nil, round}
                      /\ Seated(t)' => Validation_Map'[t] = round
    BY <1>1 DEF StageHoldsElected
  <2>1. /\ Validation_Map[t] \in {Nil, round}
        /\ Seated(t) => Validation_Map[t] = round
    BY DEF HandOver, StageHoldsElected
  <2> QED BY <1>1, <1>3, <2>1
<1>7. TwoGroups' /\ ~lockHeld'
  BY <1>1 DEF HandOver
<1> QED BY <1>2, <1>4, <1>5, <1>6, <1>7 DEF HandOver

-----------------------------------------------------------------------------
\* A full group has executors, all of which are still to report.
LEMMA FullGroupOwes ==
  ASSUME HandOver, NEW s \in Shards, NEW c \in Committee, client[c].shard = s
  PROVE  \E d \in Client : /\ seat[d] = "exec"
                           /\ client[d].shard = s
                           /\ client[d].round = round
<1>1. /\ IsFiniteSet(Registered(s, round))
      /\ Cardinality(Registered(s, round)) = CLIENT_MAX
  BY RegisteredCard DEF HandOver, Seating, SeatedWhenFull
<1>2. PICK d \in Registered(s, round) : d # c
  <2> SUFFICES ASSUME Registered(s, round) \subseteq {c} PROVE FALSE
    OBVIOUS
  <2>1. IsFiniteSet({c}) /\ Cardinality({c}) = 1
    BY FS_Singleton
  <2>2. Cardinality(Registered(s, round)) <= 1
    BY <2>1, FS_Subset
  <2> QED BY <1>1, <2>2, MembershipAssumption DEF MembershipAssumption
<1>3. d \in Client /\ seat[d] # "none" /\ client[d].shard = s /\ client[d].round = round
  BY DEF Registered
<1>4. seat[d] # "committee"
  BY <1>2, <1>3 DEF Committee, HandOver, Seating, OneSeatPerShard
<1>5. seat[d] # "nil"
  BY <1>3 DEF HandOver, TwoGroups, Seating, TypeOK
<1>6. seat[d] \in Seats
  BY <1>3 DEF HandOver, Seating, TypeOK
<1> QED BY <1>3, <1>4, <1>5, <1>6 DEF Seats

\* An upload in step finds every group of the round in its slot, and from then
\* on all their executors owe a root.
LEMMA UploadHandOver ==
  ASSUME HandOver, OwedRoots = {}, LeaderUploads
  PROVE  HandOver' /\ OwedRoots' # {}
<1>1. /\ round \in Nat \ {0} /\ round' = round + 1
      /\ Consensus_Map' = [s \in Shards |-> Nil]
      /\ UNCHANGED <<client, seat, Validation_Map, lockHeld>>
  BY DEF LeaderUploads, AppendBlock, HandOver, Seating, TypeOK
<1>2. Seating'
  BY LeaderSeating DEF HandOver
<1>3. \A c \in Client :
        /\ seat[c] = "exec" => client[c].round = round
        /\ seat[c] # "none" => client[c].round \in Nat /\ client[c].round <= round
  <2> SUFFICES ASSUME NEW c \in Client, seat[c] # "none"
               PROVE  /\ seat[c] = "exec" => client[c].round = round
                      /\ client[c].round \in Nat /\ client[c].round <= round
    OBVIOUS
  <2>1. client[c].round \in Nat /\ client[c].round <= round
    BY DEF HandOver, Seating, TypeOK, RegisteredPast
  <2>2. seat[c] = "exec" => ~(client[c].round < round)
    BY DEF OwedRoots
  <2> QED BY <1>1, <2>1, <2>2
<1>4. TwoGroups'
  BY <1>1, <1>3 DEF TwoGroups, HandOver
<1>5. \A s \in Shards : ~Seated(s)'
  <2>1. Committee' = {}
    BY <1>1, <1>3 DEF Committee
  <2> QED BY <2>1 DEF Seated
<1>6. SlotsAreFresh'
  BY <1>1, <1>5 DEF SlotsAreFresh
<1>7. \A s \in Shards : Validation_Map[s] = round /\ Owes(s)'
  <2> SUFFICES ASSUME NEW s \in Shards PROVE Validation_Map[s] = round /\ Owes(s)'
    OBVIOUS
  <2>1. PICK c \in Committee : client[c].shard = s
    BY DEF LeaderUploads, HandOver, Seating, OneSeatPerShard
  <2>2. Validation_Map[s] = round
    BY <2>1 DEF HandOver, StageHoldsElected, Seated
  <2>3. PICK d \in Client : seat[d] = "exec" /\ client[d].shard = s /\ client[d].round = round
    BY <2>1, FullGroupOwes
  <2>4. d \in OwedRoots'
    BY <1>1, <2>3 DEF OwedRoots
  <2>5. client'[d].shard = s
    BY <1>1, <2>3
  <2> QED BY <2>2, <2>4, <2>5 DEF Owes
<1>8. StageHoldsOwed'
  BY <1>1, <1>7 DEF StageHoldsOwed
<1>9. OwedRoots' # {}
  <2>1. 1 \in Shards
    BY MembershipAssumption DEF Shards, MembershipAssumption
  <2> QED BY <1>7, <2>1 DEF Owes
<1>10. StageHoldsElected'
  BY <1>9 DEF StageHoldsElected
<1>11. ~lockHeld'
  BY <1>1 DEF HandOver
<1> QED BY <1>2, <1>4, <1>6, <1>8, <1>9, <1>10, <1>11 DEF HandOver

-----------------------------------------------------------------------------
\* The stage is done exactly when nobody else owes a root.
LEMMA StageDoneIsLast ==
  ASSUME HandOver, NEW c \in OwedRoots
  PROVE  /\ ShardDone(c) <=> \A d \in OwedRoots : d = c \/ client[d].shard # client[c].shard
         /\ StageDone(c) <=> OwedRoots = {c}
<1>1. /\ c \in Client /\ client[c].shard \in Shards /\ client[c].round = round - 1
      /\ round - 1 # Nil /\ round \in Nat \ {0}
  BY OwedOfLastRound
<1>2. \A d \in OwedRoots :
        d \in Client /\ seat[d] = "exec" /\ client[d].shard \in Shards /\ client[d].round = round - 1
  BY OwedOfLastRound
<1>3. ShardDone(c) <=> \A d \in OwedRoots : d = c \/ client[d].shard # client[c].shard
  <2>1. ASSUME NEW d \in Client
        PROVE  (d \in Entries(client[c].shard, client[c].round) /\ seat[d] # "nil")
                 <=> (d \in OwedRoots /\ client[d].shard = client[c].shard)
    <3>1. seat[d] \in Seats
      BY DEF HandOver, Seating, TypeOK
    <3>2. client[d].round = round - 1 => client[d].round < round
      BY <1>1
    <3> QED BY <1>1, <1>2, <3>1, <3>2 DEF Entries, Registered, OwedRoots, Seats
  <2>2. OwedRoots \subseteq Client /\ Entries(client[c].shard, client[c].round) \subseteq Client
    BY DEF OwedRoots, Entries, Registered
  <2> QED BY <2>1, <2>2 DEF ShardDone
<1>4. \A s \in Shards : Validation_Map[s] = Nil <=> ~Owes(s)
  BY <1>1 DEF HandOver, StageHoldsOwed
<1>5. StageDone(c) <=> OwedRoots = {c}
  BY <1>1, <1>2, <1>3, <1>4 DEF StageDone, Owes
<1> QED BY <1>3, <1>5

\* A root in step is counted, and the last one hands over the groups that have
\* elected since.
LEMMA RootHandOver ==
  ASSUME HandOver, NEW c \in OwedRoots, NEW root \in Root, ExecutorUploads(c, root)
  PROVE  HandOver' /\ CollectRoot(c, root)
<1>1. CollectRoot(c, root)
  BY OwedIsHeld DEF ExecutorUploads, CollectRootPanics
<1>2. /\ c \in Client /\ client[c].shard \in Shards /\ client[c].round = round - 1
      /\ round \in Nat \ {0} /\ seat[c] = "exec"
  BY OwedOfLastRound
<1>3. /\ seat' = [seat EXCEPT ![c] = "nil"]
      /\ UNCHANGED <<round, client, Consensus_Map, lockHeld>>
  BY <1>1 DEF CollectRoot
<1>4. Seating' /\ Committee' = Committee
  BY <1>2, UploadSeating DEF HandOver
<1>5. \A s \in Shards : Seated(s)' <=> Seated(s)
  BY <1>3, <1>4 DEF Seated
<1>6. \A d \in Client : seat'[d] = IF d = c THEN "nil" ELSE seat[d]
  BY <1>3 DEF HandOver, Seating, TypeOK
<1>7. OwedRoots' = OwedRoots \ {c}
  BY <1>3, <1>6 DEF OwedRoots
<1>8. TwoGroups'
  BY <1>2, <1>3, <1>6 DEF HandOver, TwoGroups
<1>9. SlotsAreFresh'
  BY <1>3, <1>5 DEF HandOver, SlotsAreFresh
<1>10. StageHoldsOwed' /\ StageHoldsElected'
  <2>1. CASE StageDone(c)
    <3>1. OwedRoots' = {} /\ Validation_Map' = Consensus_Map
      BY <1>1, <1>7, <2>1, StageDoneIsLast DEF CollectRoot
    <3> QED BY <1>3, <1>5, <3>1 DEF HandOver, SlotsAreFresh, StageHoldsOwed, StageHoldsElected
  <2>2. CASE ~StageDone(c)
    <3>1. OwedRoots' # {}
      BY <1>7, <2>2, StageDoneIsLast
    <3>2. Validation_Map' = IF ShardDone(c)
                              THEN [Validation_Map EXCEPT ![client[c].shard] = Nil]
                              ELSE Validation_Map
      BY <1>1, <2>2 DEF CollectRoot
    <3>3. ASSUME NEW s \in Shards
          PROVE  Validation_Map'[s] = IF Owes(s)' THEN round - 1 ELSE Nil
      <4>1. Validation_Map[s] = IF Owes(s) THEN round - 1 ELSE Nil
        BY DEF HandOver, StageHoldsOwed
      <4>2. Owes(s)' <=> \E d \in OwedRoots : d # c /\ client[d].shard = s
        BY <1>3, <1>7 DEF Owes
      <4>3. DOMAIN Validation_Map = Shards
        BY DEF HandOver, Seating, TypeOK
      <4>4. CASE s = client[c].shard
        <5>1. Owes(s)
          BY <4>4 DEF Owes
        <5>2. ShardDone(c) <=> ~Owes(s)'
          BY <4>2, <4>4, StageDoneIsLast
        <5> QED BY <3>2, <4>1, <4>3, <4>4, <5>1, <5>2
      <4>5. CASE s # client[c].shard
        <5>1. Owes(s)' <=> Owes(s)
          BY <4>2, <4>5 DEF Owes
        <5> QED BY <3>2, <4>1, <4>3, <4>5, <5>1
      <4> QED BY <4>4, <4>5
    <3> QED BY <1>3, <3>1, <3>3 DEF StageHoldsOwed, StageHoldsElected
  <2> QED BY <2>1, <2>2
<1>11. ~lockHeld'
  BY <1>3 DEF HandOver
<1> QED BY <1>1, <1>4, <1>8, <1>9, <1>10, <1>11 DEF HandOver

-----------------------------------------------------------------------------
\* It holds at the start: nobody is seated and all slots are empty.
LEMMA InitHandOver == Init => HandOver
<1> SUFFICES ASSUME Init PROVE HandOver
  OBVIOUS
<1>1. Seating
  BY InitSeating
<1>2. Committee = {} /\ OwedRoots = {}
  BY DEF Init, Committee, OwedRoots
<1> QED BY <1>1, <1>2
  DEF Init, HandOver, TwoGroups, SlotsAreFresh, StageHoldsOwed, StageHoldsElected, Seated

\* And every step in step keeps it.
LEMMA StepHandOver == HandOver /\ [InStepNext]_vars => HandOver'
<1> SUFFICES ASSUME HandOver, [InStepNext]_vars PROVE HandOver'
  OBVIOUS
<1>1. CASE AssignShardNum
  BY <1>1, AssignHandOver
<1>2. CASE \E s \in Shards : RegisterInStep(s)
  BY <1>2, RegisterHandOver
<1>3. CASE OwedRoots = {} /\ LeaderUploads
  BY <1>3, UploadHandOver
<1>4. CASE \E c \in OwedRoots, root \in Root : ExecutorUploads(c, root)
  BY <1>4, RootHandOver
<1>5. CASE UNCHANGED vars
  <2>1. /\ UNCHANGED <<round, client, seat, Consensus_Map, Validation_Map, lockHeld>>
        /\ UNCHANGED <<NodeNum, assigned, Winner, votes>>
    BY <1>5 DEF vars, groups
  <2>2. Seating' /\ Committee' = Committee
    <3>1. TypeOK'
      BY <2>1 DEF votes, HandOver, Seating, TypeOK
    <3> QED BY <2>1, <3>1, SameSeats DEF HandOver
  <2>3. OwedRoots' = OwedRoots
    BY <2>1 DEF OwedRoots
  <2>4. \A s \in Shards : (Seated(s)' <=> Seated(s)) /\ (Owes(s)' <=> Owes(s))
    BY <2>1, <2>2, <2>3 DEF Seated, Owes
  <2> QED BY <2>1, <2>2, <2>3, <2>4
    DEF HandOver, TwoGroups, SlotsAreFresh, StageHoldsOwed, StageHoldsElected
<1> QED BY <1>1, <1>2, <1>3, <1>4, <1>5 DEF InStepNext, PacedUploads

\* Where each group is: the invariant of rounds in step.
THEOREM HandOverInvariant == InStepSpec => []HandOver
BY InitHandOver, StepHandOver, PTL DEF InStepSpec

\* With rounds in step every executor that owes a root is held by the validation
\* stage, and no handler ever panics with the lock held.
THEOREM ExecutorsAlwaysHeld == InStepSpec => []ExecutorsHeld
<1>1. HandOver => ExecutorsHeld
  BY OwedIsHeld DEF ExecutorsHeld, HandOver
<1> QED BY <1>1, HandOverInvariant, PTL

-----------------------------------------------------------------------------
(***************************************************************************)
(* The votes that are published.  The invariant adds the other side of the *)
(* account: who has not reported is missing from the votes of its shard.   *)
(***************************************************************************)
OwedOf(s) == {c \in OwedRoots : client[c].shard = s}

\* A shard's votes and the roots it still owes make up one group's executors.
VotesAccounted ==
  \A s \in Shards :
    IF OwedRoots = {}
      THEN NewRootsVote[s] = NoVotes
      ELSE VoteTotal(NewRootsVote[s]) + Cardinality(OwedOf(s)) = CLIENT_MAX - 1

Votes == HandOver /\ VotesAccounted /\ RootsVoteWhole

\* The votes of a shard are a sum: none at the start, one more for every root.
LEMMA VotesAreSum ==
  /\ VoteTotal(NoVotes) = 0
  /\ \A v \in [Root -> Nat] : VoteTotal(v) \in Int
  /\ \A v \in [Root -> Nat], root \in Root :
       VoteTotal([v EXCEPT ![root] = @ + 1]) = VoteTotal(v) + 1
<1>1. \A v : VoteTotal(v) = SumOver(v, Root)
  BY DEF VoteTotal, SumOver
<1>2. IsFiniteSet(Root)
  BY MembershipAssumption DEF MembershipAssumption
<1>3. SumOver(NoVotes, Root) = 0
  <2>1. 0 * Cardinality(Root) = 0
    BY <1>2, FS_CardinalityType
  <2> QED BY <1>2, <2>1, SumConstant DEF NoVotes
<1>4. ASSUME NEW v \in [Root -> Nat], NEW root \in Root
      PROVE  SumOver([v EXCEPT ![root] = @ + 1], Root) = SumOver(v, Root) + 1
  <2> DEFINE h == [v EXCEPT ![root] = @ + 1]
  <2>1. \A r \in Root : v[r] \in Int
    OBVIOUS
  <2>2. h[root] = v[root] + 1 /\ \A r \in Root \ {root} : h[r] = v[r]
    OBVIOUS
  <2> HIDE DEF h
  <2>3. SumOver(h, Root) = SumOver(v, Root) + 1
    BY <1>2, <2>1, <2>2, SumChange
  <2> QED BY <2>3 DEF h
<1>5. \A v \in [Root -> Nat] : SumOver(v, Root) \in Int
  BY <1>2, SumInt
<1> QED BY <1>1, <1>3, <1>4, <1>5

\* Steps that leave the votes and who owes a root alone.
LEMMA SameVotes ==
  ASSUME Votes, HandOver', UNCHANGED votes, OwedRoots' = OwedRoots,
         \A s \in Shards : OwedOf(s)' = OwedOf(s)
  PROVE  Votes'
BY DEF Votes, VotesAccounted, RootsVoteWhole, votes, NoVotes

\* Whoever owes a root is not the client that registers.
LEMMA RegisterVotes ==
  ASSUME Votes, NEW s \in Shards, RegisterInStep(s)
  PROVE  Votes'
<1>1. HandOver' /\ OwedRoots' = OwedRoots
  BY JoinSeats, RegisterHandOver DEF Votes
<1>2. PICK x \in Randoms : RegisterCommunication(s, x)
  BY DEF RegisterInStep
<1>3. UNCHANGED votes
  BY <1>2 DEF RegisterCommunication, Join
<1>4. \A c \in OwedRoots : client'[c] = client[c]
  <2>1. FreshId \in Client /\ seat[FreshId] = "none"
    BY <1>2, FreshIdIsFresh DEF RegisterCommunication
  <2>2. client' = [client EXCEPT ![FreshId] = [shard |-> s, round |-> round, random |-> x]]
    BY <1>2 DEF RegisterCommunication, Join
  <2> QED BY <2>1, <2>2 DEF OwedRoots, Votes, HandOver, Seating, TypeOK
<1>5. \A t \in Shards : OwedOf(t)' = OwedOf(t)
  BY <1>1, <1>4 DEF OwedOf
<1> QED BY <1>1, <1>3, <1>5, SameVotes

\* When a round closes every shard owes as many roots as it has executors.
LEMMA UploadVotes ==
  ASSUME Votes, OwedRoots = {}, LeaderUploads
  PROVE  Votes'
<1>1. HandOver'
  BY UploadHandOver DEF Votes
<1>2. /\ round \in Nat \ {0} /\ round' = round + 1
      /\ UNCHANGED <<client, seat, votes>>
  BY DEF LeaderUploads, AppendBlock, Votes, HandOver, Seating, TypeOK
<1>3. ASSUME NEW s \in Shards PROVE Cardinality(OwedOf(s)') = CLIENT_MAX - 1
  <2>1. PICK c \in Committee : client[c].shard = s
    BY DEF LeaderUploads, Votes, HandOver, Seating, OneSeatPerShard
  <2>2. OwedOf(s)' = Registered(s, round) \ {c}
    <3>1. ASSUME NEW d \in Client
          PROVE  d \in OwedOf(s)' <=> d \in Registered(s, round) \ {c}
      <4>1. seat[d] \in Seats
        BY DEF Votes, HandOver, Seating, TypeOK
      <4>2. d \in OwedOf(s)' <=> /\ seat[d] = "exec"
                                 /\ client[d].round < round + 1
                                 /\ client[d].shard = s
        BY <1>2 DEF OwedOf, OwedRoots
      <4>3. client[d].round \in Nat
        BY DEF Votes, HandOver, Seating, TypeOK
      <4>4. seat[d] = "exec" /\ client[d].round < round + 1 => client[d].round = round
        <5>1. seat[d] = "exec" => ~(client[d].round < round)
          BY DEF OwedRoots
        <5> QED BY <1>2, <4>3, <5>1
      <4>5. seat[d] = "nil" => client[d].round # round
        BY <1>2, <4>3 DEF Votes, HandOver, TwoGroups
      <4>6. d # c /\ seat[d] = "committee" /\ client[d].round = round => client[d].shard # s
        BY <2>1 DEF Committee, Votes, HandOver, Seating, OneSeatPerShard
      <4>7. seat[c] = "committee"
        BY <2>1 DEF Committee
      <4>8. client[d].round = round => client[d].round < round + 1
        BY <1>2
      <4> QED BY <4>1, <4>2, <4>4, <4>5, <4>6, <4>7, <4>8 DEF Registered, Seats
    <3>2. OwedOf(s)' \subseteq Client /\ Registered(s, round) \subseteq Client
      BY DEF OwedOf, OwedRoots, Registered
    <3> QED BY <3>1, <3>2
  <2>3. Cardinality(Registered(s, round)) = CLIENT_MAX /\ IsFiniteSet(Registered(s, round))
    BY <2>1, RegisteredCard DEF Votes, HandOver, Seating, SeatedWhenFull
  <2>4. c \in Registered(s, round)
    BY <2>1 DEF Committee, Registered
  <2> QED BY <2>2, <2>3, <2>4, FS_RemoveElement
<1>4. VotesAccounted'
  <2> SUFFICES ASSUME NEW s \in Shards
               PROVE  /\ OwedRoots' # {}
                      /\ VoteTotal(NewRootsVote'[s]) + Cardinality(OwedOf(s)') = CLIENT_MAX - 1
    BY DEF VotesAccounted
  <2>1. NewRootsVote'[s] = NoVotes
    BY <1>2 DEF votes, Votes, VotesAccounted
  <2>2. Cardinality(OwedOf(s)') = CLIENT_MAX - 1
    BY <1>3
  <2>3. OwedRoots' # {}
    <3> SUFFICES ASSUME OwedRoots' = {} PROVE FALSE
      OBVIOUS
    <3>1. OwedOf(s)' = {}
      BY DEF OwedOf
    <3> QED BY <2>2, <3>1, FS_EmptySet, MembershipAssumption DEF MembershipAssumption
  <2>4. CLIENT_MAX \in Nat
    BY MembershipAssumption DEF MembershipAssumption
  <2> QED BY <2>1, <2>2, <2>3, <2>4, VotesAreSum
<1>5. RootsVoteWhole'
  BY <1>2 DEF votes, Votes, RootsVoteWhole
<1> QED BY <1>1, <1>4, <1>5 DEF Votes

\* A root moves its executor from those who owe one to the votes; the last root
\* of the stage publishes as many votes as a group has executors.
LEMMA RootVotes ==
  ASSUME Votes, NEW c \in OwedRoots, NEW root \in Root, ExecutorUploads(c, root)
  PROVE  /\ Votes'
         /\ OwedRoots' = {} => \A s \in Shards : VoteTotal(RootsVote'[s]) = CLIENT_MAX - 1
<1>1. HandOver' /\ CollectRoot(c, root)
  BY RootHandOver DEF Votes
<1>2. /\ c \in Client /\ client[c].shard \in Shards
      /\ round \in Nat \ {0} /\ seat[c] = "exec"
  BY OwedOfLastRound DEF Votes
<1> DEFINE s == client[c].shard
           counted == CountedVotes(c, root)
<1>3. /\ UNCHANGED <<round, client>>
      /\ OwedRoots' = OwedRoots \ {c}
  <2>1. \A d \in Client : seat'[d] = IF d = c THEN "nil" ELSE seat[d]
    BY <1>1 DEF CollectRoot, Votes, HandOver, Seating, TypeOK
  <2> QED BY <1>1, <2>1 DEF CollectRoot, OwedRoots
<1>4. \A t \in Shards : OwedOf(t)' = IF t = s THEN OwedOf(t) \ {c} ELSE OwedOf(t)
  BY <1>3 DEF OwedOf
<1>5. \A t \in Shards : IsFiniteSet(OwedOf(t)) /\ Cardinality(OwedOf(t)) \in Nat
  BY ClientSets DEF OwedOf, OwedRoots
<1>6. c \in OwedOf(s)
  BY DEF OwedOf
<1>7. \A t \in Shards :
        /\ VoteTotal(NewRootsVote[t]) + Cardinality(OwedOf(t)) = CLIENT_MAX - 1
        /\ NewRootsVote[t] \in [Root -> Nat]
  BY DEF Votes, VotesAccounted, HandOver, Seating, TypeOK
<1>8. \A t \in Shards :
        VoteTotal(counted[t]) = VoteTotal(NewRootsVote[t]) + (IF t = s THEN 1 ELSE 0)
  <2>1. \A t \in Shards : VoteTotal(NewRootsVote[t]) \in Int
    BY <1>7, VotesAreSum
  <2>2. \A t \in Shards : counted[t] = IF t = s THEN [NewRootsVote[t] EXCEPT ![root] = @ + 1]
                                                ELSE NewRootsVote[t]
    BY DEF CountedVotes, Votes, HandOver, Seating, TypeOK
  <2> HIDE DEF counted, s
  <2> SUFFICES ASSUME NEW t \in Shards
               PROVE  VoteTotal(counted[t]) = VoteTotal(NewRootsVote[t]) + (IF t = s THEN 1 ELSE 0)
    OBVIOUS
  <2>3. CASE t = s
    BY <1>7, <2>2, <2>3, VotesAreSum
  <2>4. CASE t # s
    <3>1. counted[t] = NewRootsVote[t]
      BY <2>2, <2>4
    <3>2. VoteTotal(NewRootsVote[t]) = VoteTotal(NewRootsVote[t]) + 0
      BY <2>1
    <3> QED BY <2>4, <3>1, <3>2
  <2> QED BY <2>3, <2>4
<1>9. \A t \in Shards : VoteTotal(counted[t]) + Cardinality(OwedOf(t)') = CLIENT_MAX - 1
  <2> SUFFICES ASSUME NEW t \in Shards
               PROVE  VoteTotal(counted[t]) + Cardinality(OwedOf(t)') = CLIENT_MAX - 1
    OBVIOUS
  <2>1. VoteTotal(NewRootsVote[t]) \in Int
    BY <1>7, VotesAreSum
  <2>2. CASE t = s
    <3>1. Cardinality(OwedOf(t)') = Cardinality(OwedOf(t)) - 1
      BY <1>4, <1>5, <1>6, <2>2, FS_RemoveElement
    <3>2. VoteTotal(counted[t]) = VoteTotal(NewRootsVote[t]) + 1
      BY <1>8, <2>2
    <3> HIDE DEF counted, s
    <3> QED BY <1>5, <1>7, <2>1, <3>1, <3>2
  <2>3. CASE t # s
    <3>1. OwedOf(t)' = OwedOf(t)
      BY <1>4, <2>3
    <3>2. VoteTotal(counted[t]) = VoteTotal(NewRootsVote[t])
      BY <1>8, <2>1, <2>3
    <3> HIDE DEF counted, s
    <3> QED BY <1>7, <3>1, <3>2
  <2> QED BY <2>2, <2>3
<1>10. CASE StageDone(c)
  <2>1. OwedRoots' = {}
    BY <1>3, <1>10, StageDoneIsLast DEF Votes
  <2>2. RootsVote' = counted /\ NewRootsVote' = [t \in Shards |-> NoVotes]
    BY <1>1, <1>10 DEF CollectRoot
  <2>3. \A t \in Shards : VoteTotal(RootsVote'[t]) = CLIENT_MAX - 1
    <3> SUFFICES ASSUME NEW t \in Shards PROVE VoteTotal(counted[t]) = CLIENT_MAX - 1
      BY <2>2
    <3>1. OwedOf(t)' = {}
      BY <2>1 DEF OwedOf
    <3>2. VoteTotal(counted[t]) \in Int
      <4>1. counted[t] \in [Root -> Nat]
        BY <1>2, <1>7 DEF CountedVotes, Votes, HandOver, Seating, TypeOK
      <4> HIDE DEF counted
      <4> QED BY <4>1, VotesAreSum
    <3> HIDE DEF counted
    <3> QED BY <1>9, <3>1, <3>2, FS_EmptySet
  <2>4. RootsVoteWhole'
    BY <2>3 DEF RootsVoteWhole
  <2>5. VotesAccounted'
    BY <2>1, <2>2 DEF VotesAccounted, NoVotes
  <2> QED BY <1>1, <2>3, <2>4, <2>5 DEF Votes
<1>11. CASE ~StageDone(c)
  <2>1. OwedRoots' # {}
    BY <1>3, <1>11, StageDoneIsLast DEF Votes
  <2>2. RootsVote' = RootsVote /\ NewRootsVote' = counted
    BY <1>1, <1>11 DEF CollectRoot
  <2>3. VotesAccounted'
    BY <1>9, <2>1, <2>2 DEF VotesAccounted
  <2>4. RootsVoteWhole'
    BY <2>2 DEF Votes, RootsVoteWhole
  <2> QED BY <1>1, <2>1, <2>3, <2>4 DEF Votes
<1> QED BY <1>10, <1>11

\* The account balances at the start.
LEMMA InitVotes == Init => Votes
<1> SUFFICES ASSUME Init PROVE Votes
  OBVIOUS
<1>1. HandOver
  BY InitHandOver
<1>2. OwedRoots = {} /\ \A s \in Shards : NewRootsVote[s] = NoVotes /\ RootsVote[s] = NoVotes
  BY DEF Init, OwedRoots
<1>3. VotesAccounted
  BY <1>2 DEF VotesAccounted
<1>4. RootsVoteWhole
  BY <1>2, VotesAreSum DEF RootsVoteWhole
<1> QED BY <1>1, <1>3, <1>4 DEF Votes

\* And every step in step keeps it.
LEMMA StepVotes == Votes /\ [InStepNext]_vars => Votes'
<1> SUFFICES ASSUME Votes, [InStepNext]_vars PROVE Votes'
  OBVIOUS
<1>1. CASE \E s \in Shards : RegisterInStep(s)
  BY <1>1, RegisterVotes
<1>2. CASE OwedRoots = {} /\ LeaderUploads
  BY <1>2, UploadVotes
<1>3. CASE \E c \in OwedRoots, root \in Root : ExecutorUploads(c, root)
  BY <1>3, RootVotes
<1>4. CASE AssignShardNum \/ UNCHANGED vars
  <2>1. UNCHANGED <<round, client, seat, votes>>
    BY <1>4 DEF AssignShardNum, vars, groups
  <2>2. OwedRoots' = OwedRoots /\ \A s \in Shards : OwedOf(s)' = OwedOf(s)
    BY <2>1 DEF OwedRoots, OwedOf
  <2>3. HandOver'
    BY <1>4, StepHandOver DEF Votes, InStepNext
  <2> QED BY <2>1, <2>2, <2>3, SameVotes
<1> QED BY <1>1, <1>2, <1>3, <1>4 DEF InStepNext, PacedUploads

\* With rounds in step the votes published are always those of whole groups, of
\* every shard alike: no root is lost or counted twice, however the uploads of
\* two shards interleave with the registration of the next group.
THEOREM VotesAlwaysWhole == InStepSpec => []RootsVoteWhole
<1>1. Votes => RootsVoteWhole
  BY DEF Votes
<1> QED BY <1>1, InitVotes, StepVotes, PTL DEF InStepSpec

-----------------------------------------------------------------------------
(***************************************************************************)
(* RootsVoteWhole also holds of a server that never publishes.  The other  *)
(* half: whoever asks when no root is owed finds the group's votes.        *)
(***************************************************************************)
Published ==
  round > 1 /\ OwedRoots = {} =>
    \A s \in Shards : VoteTotal(RootsVote[s]) = CLIENT_MAX - 1

\* The last root of a group publishes its votes, and nothing but a root takes
\* away from those that are owed.
LEMMA StepPublishes ==
  ASSUME Votes, Published, [InStepNext]_vars
  PROVE  Published'
<1>1. CASE \E s \in Shards : RegisterInStep(s)
  <2>1. PICK s \in Shards : RegisterInStep(s)
    BY <1>1
  <2>2. UNCHANGED <<round, votes>>
    BY <2>1 DEF RegisterInStep, RegisterCommunication, Join
  <2>3. OwedRoots' = OwedRoots
    BY <2>1, JoinSeats DEF Votes
  <2> QED BY <2>2, <2>3 DEF Published, votes
<1>2. CASE OwedRoots = {} /\ LeaderUploads
  BY <1>2, UploadHandOver DEF Votes, Published
<1>3. CASE \E c \in OwedRoots, root \in Root : ExecutorUploads(c, root)
  BY <1>3, RootVotes DEF Published
<1>4. CASE AssignShardNum \/ UNCHANGED vars
  <2>1. UNCHANGED <<round, client, seat, votes>>
    BY <1>4 DEF AssignShardNum, vars, groups
  <2>2. OwedRoots' = OwedRoots
    BY <2>1 DEF OwedRoots
  <2> QED BY <2>1, <2>2 DEF Published, votes
<1> QED BY <1>1, <1>2, <1>3, <1>4 DEF InStepNext, PacedUploads

\* With rounds in step the votes of a whole group, for every shard, are there to
\* be read from the last root of a round until the next one is closed.
THEOREM VotesArePublished == InStepSpec => []Published
<1>1. Init => Published
  BY DEF Init, Published
<1> QED BY <1>1, InitVotes, StepVotes, StepPublishes, PTL DEF InStepSpec
-----------------------------------------------------------------------------
(***************************************************************************)
(* Full groups.  A round is closed when every shard has elected, so the    *)
(* group of every closed round has CLIENT_MAX clients in every shard, one  *)
(* of them in the committee; and the rounds that ever have a leader are    *)
(* those that the clients there are can fill.  This takes no schedule.     *)
(***************************************************************************)
FullGroup(s, r) ==
  /\ Cardinality(Registered(s, r)) = CLIENT_MAX
  /\ Cardinality(Entries(s, r)) = CLIENT_MAX - 1

GroupsFull == \A s \in Shards, r \in 1 .. round - 1 : FullGroup(s, r)

\* A registration concerns the client that registers and those of its round.
LEMMA JoinKeepsOthers ==
  ASSUME TypeOK, NEW s \in Shards, NEW x \in Randoms, RegisterCommunication(s, x)
  PROVE  /\ FreshId \in Client /\ seat[FreshId] = "none"
         /\ round' = round /\ client'[FreshId].round = round
         /\ \A d \in Client : d # FreshId => client'[d] = client[d]
         /\ \A d \in Client : d # FreshId /\ client[d].round # round => seat'[d] = seat[d]
         /\ \A d \in Client : seat'[d] = seat[d] \/ seat'[d] \in {"exec", "committee"}
<1> DEFINE c == FreshId
<1>1. /\ c \in Client /\ seat[c] = "none" /\ round' = round
      /\ client' = [client EXCEPT ![c] = [shard |-> s, round |-> round, random |-> x]]
  BY FreshIdIsFresh DEF RegisterCommunication, Join
<1>2. \A d \in Client : d # c => client'[d] = client[d]
  BY <1>1 DEF TypeOK
<1>3. client'[c].round = round
  BY <1>1 DEF TypeOK
<1>4. ASSUME NEW d \in Client
      PROVE  /\ d # c /\ client[d].round # round => seat'[d] = seat[d]
             /\ seat'[d] = seat[d] \/ seat'[d] \in {"exec", "committee"}
  <2>1. CASE ~ShardFills(s)
    BY <2>1 DEF RegisterCommunication, Join, TypeOK
  <2>2. CASE ShardFills(s)
    <3>1. PICK w \in SmallestRandom(client', c, Entries(s, round) \cup {c}) :
            seat' = [seat EXCEPT ![c] = "exec", ![w] = "committee"]
      BY <2>2 DEF RegisterCommunication, Join
    <3>2. w = c \/ client[w].round = round
      BY <3>1, SmallestRandomIsSmallest DEF Entries, Registered
    <3>3. d # c /\ client[d].round # round => d # w
      BY <3>2
    <3> QED BY <3>1, <3>3 DEF TypeOK
  <2> QED BY <2>1, <2>2
<1> QED BY <1>1, <1>2, <1>3, <1>4

\* With a leader the groups of the round are full.
LEMMA LeaderMeansFullGroup ==
  ASSUME Seating, Winner # None, NEW s \in Shards
  PROVE  FullGroup(s, round)
<1>1. PICK c \in Committee : client[c].shard = s
  BY DEF Seating, OneSeatPerShard
<1>2. IsFiniteSet(Registered(s, round)) /\ Cardinality(Registered(s, round)) = CLIENT_MAX
  BY <1>1, RegisteredCard DEF Seating, SeatedWhenFull
<1>3. c \in Registered(s, round) /\ seat[c] = "committee"
  BY <1>1 DEF Committee, Registered
<1>4. Entries(s, round) = Registered(s, round) \ {c}
  <2>1. \A d \in Registered(s, round) : seat[d] = "committee" => d = c
    BY <1>1 DEF Seating, OneSeatPerShard, Committee, Registered
  <2> QED BY <1>3, <2>1 DEF Entries
<1>5. Cardinality(Registered(s, round) \ {c}) = CLIENT_MAX - 1
  BY <1>2, <1>3, FS_RemoveElement
<1> QED BY <1>2, <1>4, <1>5 DEF FullGroup

\* The clients of a closed round and how they are seated, but for who has
\* reported, never change.
LEMMA GroupsStay ==
  ASSUME Seating, [Next]_vars, NEW s \in Shards, NEW r \in 1 .. round - 1
  PROVE  Registered(s, r)' = Registered(s, r) /\ Entries(s, r)' = Entries(s, r)
<1>1. TypeOK /\ round \in Nat /\ r # round
  BY DEF Seating, TypeOK
<1> SUFFICES
      \A d \in Client :
        /\ d \in Registered(s, r)' <=> d \in Registered(s, r)
        /\ d \in Registered(s, r) => (seat'[d] = "committee" <=> seat[d] = "committee")
  BY DEF Entries, Registered
<1>2. CASE \E t \in Shards, x \in Randoms : RegisterCommunication(t, x)
  <2>1. PICK t \in Shards, x \in Randoms : RegisterCommunication(t, x)
    BY <1>2
  <2>2. /\ FreshId \in Client /\ seat[FreshId] = "none"
        /\ client'[FreshId].round = round
        /\ \A d \in Client : d # FreshId => client'[d] = client[d]
        /\ \A d \in Client : d # FreshId /\ client[d].round # round => seat'[d] = seat[d]
    BY <1>1, <2>1, JoinKeepsOthers
  <2> QED BY <1>1, <2>2 DEF Registered
<1>3. CASE \E c \in Client, root \in Root : ExecutorUploads(c, root)
  <2>1. PICK c \in Client, root \in Root : ExecutorUploads(c, root)
    BY <1>3
  <2>2. seat[c] = "exec" /\ client' = client
        /\ (seat' = seat \/ seat' = [seat EXCEPT ![c] = "nil"])
    BY <2>1 DEF ExecutorUploads, CollectRoot, CollectRootPanics, groups
  <2>3. \A d \in Client : seat'[d] = seat[d] \/ (d = c /\ seat'[d] = "nil")
    BY <2>2 DEF Seating, TypeOK
  <2> QED BY <2>2, <2>3 DEF Registered
<1>4. CASE AssignShardNum \/ LeaderUploads \/ UNCHANGED vars
  <2>1. client' = client /\ seat' = seat
    BY <1>4 DEF AssignShardNum, LeaderUploads, AppendBlock, vars, groups
  <2> QED BY <2>1 DEF Registered
<1> QED BY <1>2, <1>3, <1>4 DEF Next

\* A round that is closed joins those with full groups.
LEMMA StepGroupsFull ==
  ASSUME Seating, GroupsFull, [Next]_vars
  PROVE  GroupsFull'
<1>1. round \in Nat \ {0}
  BY DEF Seating, TypeOK
<1>2. ASSUME NEW s \in Shards, NEW r \in 1 .. round - 1 PROVE FullGroup(s, r)'
  BY <1>2, GroupsStay DEF GroupsFull, FullGroup
<1>3. CASE LeaderUploads
  <2>1. round' = round + 1 /\ client' = client /\ seat' = seat
    BY <1>3 DEF LeaderUploads, AppendBlock
  <2>2. \A s \in Shards : FullGroup(s, round)
    BY <1>3, LeaderMeansFullGroup DEF LeaderUploads
  <2> SUFFICES ASSUME NEW s \in Shards, NEW r \in 1 .. round' - 1 PROVE FullGroup(s, r)'
    BY DEF GroupsFull
  <2>3. CASE r = round
    <3>1. Registered(s, r)' = Registered(s, r) /\ Entries(s, r)' = Entries(s, r)
      BY <2>1 DEF Registered, Entries
    <3> QED BY <2>2, <2>3, <3>1 DEF FullGroup
  <2>4. CASE r # round
    BY <1>1, <1>2, <2>1, <2>4
  <2> QED BY <2>3, <2>4
<1>4. CASE ~LeaderUploads
  <2>1. round' = round
    BY <1>4 DEF Next, AssignShardNum, RegisterCommunication, Join, ExecutorUploads,
                CollectRoot, CollectRootPanics, vars
  <2> QED BY <1>2, <2>1 DEF GroupsFull
<1> QED BY <1>3, <1>4

\* The elements of a set that a function numbers i, and those it numbers up to n.
Part(S, f, i)  == {x \in S : f[x] = i}
Parts(S, f, n) == {x \in S : f[x] \in 1 .. n}

\* As many parts of one size as there are numbers up to n.
LEMMA EqualParts ==
  ASSUME NEW S, IsFiniteSet(S), NEW f, NEW n \in Nat, NEW k \in Nat,
         \A i \in 1 .. n : Cardinality(Part(S, f, i)) = k
  PROVE  Cardinality(Parts(S, f, n)) = n * k
<1> USE DEF Part, Parts
<1> DEFINE Upto(m) == {x \in S : f[x] \in 1 .. m}
           Q == {m \in Nat : m <= n => Cardinality(Upto(m)) = m * k}
<1>1. 0 \in Q
  <2>1. Upto(0) = {}
    OBVIOUS
  <2>2. Cardinality(Upto(0)) = 0 /\ 0 * k = 0
    BY <2>1, FS_EmptySet
  <2> QED BY <2>2
<1>2. ASSUME NEW m \in Q PROVE m + 1 \in Q
  <2> SUFFICES ASSUME m + 1 <= n PROVE Cardinality(Upto(m + 1)) = (m + 1) * k
    OBVIOUS
  <2> DEFINE A == Upto(m)
             B == {x \in S : f[x] = m + 1}
  <2>1. Upto(m + 1) = A \cup B /\ A \cap B = {}
    OBVIOUS
  <2>2. IsFiniteSet(A) /\ IsFiniteSet(B)
    BY FS_Subset
  <2>3. Cardinality(A) = m * k /\ m \in Nat
    OBVIOUS
  <2>4. Cardinality(B) = k
    OBVIOUS
  <2> HIDE DEF A, B
  <2>5. Cardinality(A \cup B) = Cardinality(A) + Cardinality(B) - Cardinality(A \cap B)
    BY <2>2, FS_Union
  <2>6. Cardinality(A \cup B) = m * k + k
    <3>1. m * k \in Int
      BY <2>3
    <3>2. Cardinality(A \cap B) = 0
      BY <2>1, FS_EmptySet
    <3> QED BY <2>3, <2>4, <2>5, <3>1, <3>2
  <2>7. (m + 1) * k = m * k + k
    BY <2>3
  <2> HIDE DEF Upto
  <2> QED BY <2>1, <2>6, <2>7
<1> HIDE DEF Q
<1>3. Q = Nat
  <2>1. Q \subseteq Nat
    BY DEF Q
  <2> QED BY <1>1, <1>2, <2>1, NatInd
<1>4. n \in Q
  BY <1>3
<1> QED BY <1>4 DEF Q

\* There are only so many rounds with full groups.
LEMMA FullRoundsFit ==
  ASSUME Seating, NEW n \in Nat, \A s \in Shards, r \in 1 .. n : FullGroup(s, r)
  PROVE  n <= Cardinality(Client) \div (ShardNum * CLIENT_MAX)
<1> DEFINE K == ShardNum * CLIENT_MAX
           Joined == {c \in Client : seat[c] # "none"}
           shardOf == [c \in Client |-> client[c].shard]
           roundOf == [c \in Client |-> client[c].round]
<1>1. ShardNum \in Nat \ {0} /\ CLIENT_MAX \in Nat \ {0} /\ K \in Nat \ {0}
  BY MembershipAssumption DEF MembershipAssumption
<1>2. IsFiniteSet(Joined) /\ IsFiniteSet(Client) /\ Cardinality(Joined) <= Cardinality(Client)
  BY FS_Subset, MembershipAssumption DEF MembershipAssumption
<1>3. ASSUME NEW r \in 1 .. n PROVE Cardinality(Part(Joined, roundOf, r)) = K
  <2> DEFINE T == Part(Joined, roundOf, r)
  <2>1. IsFiniteSet(T)
    BY <1>2, FS_Subset DEF Part
  <2>2. \A s \in 1 .. ShardNum : Cardinality(Part(T, shardOf, s)) = CLIENT_MAX
    <3> TAKE s \in 1 .. ShardNum
    <3>1. Part(T, shardOf, s) = Registered(s, r)
      BY DEF Registered, Part
    <3> QED BY <3>1 DEF FullGroup, Shards
  <2>3. \A c \in T : shardOf[c] \in 1 .. ShardNum
    BY DEF Seating, RegisteredPast, Shards, Part
  <2> HIDE DEF T, shardOf
  <2>4. Cardinality(Parts(T, shardOf, ShardNum)) = ShardNum * CLIENT_MAX
    BY <1>1, <2>1, <2>2, EqualParts
  <2>5. Parts(T, shardOf, ShardNum) = T
    BY <2>3 DEF Parts
  <2> QED BY <2>4, <2>5 DEF T
<1> HIDE DEF Joined, roundOf, K
<1>4. Cardinality(Parts(Joined, roundOf, n)) = n * K
  BY <1>1, <1>2, <1>3, EqualParts
<1>5. n * K <= Cardinality(Client)
  <2>1. Cardinality(Parts(Joined, roundOf, n)) <= Cardinality(Joined)
    BY <1>2, FS_Subset DEF Parts
  <2>2. Cardinality(Joined) \in Nat /\ Cardinality(Client) \in Nat /\ n * K \in Nat
    BY <1>1, <1>2, FS_CardinalityType
  <2> QED BY <1>2, <1>4, <2>1, <2>2
<1>6. n <= Cardinality(Client) \div K
  <2> DEFINE N == Cardinality(Client)
             q == N \div K
  <2>1. N \in Nat
    BY <1>2, FS_CardinalityType
  <2> HIDE DEF N
  <2>2. q \in Nat /\ N < (q + 1) * K
    BY <1>1, <2>1
  <2> HIDE DEF q
  <2>3. SUFFICES ASSUME q + 1 <= n PROVE FALSE
    BY <1>1, <2>2 DEF q, N
  <2>4. (q + 1) * K <= n * K
    BY <1>1, <2>2, <2>3
  <2>5. (q + 1) * K \in Nat /\ n * K \in Nat /\ n * K <= N
    BY <1>1, <1>5, <2>2 DEF N
  <2> QED BY <2>1, <2>2, <2>4, <2>5
<1> QED BY <1>6 DEF K

\* The groups that have a leader, and with it something to do.
Served(r) == (r < round) \/ (r = round /\ Winner # None)

\* They are full, and the bound Rounds leaves none of them out.
LEMMA ServedIsFull ==
  ASSUME Seating, GroupsFull, NEW r \in Nat \ {0}, Served(r)
  PROVE  r \in Rounds /\ \A s \in Shards : FullGroup(s, r)
<1>1. round \in Nat \ {0}
  BY DEF Seating, TypeOK
<1>2. \A q \in 1 .. r, s \in Shards : FullGroup(s, q)
  <2> TAKE q \in 1 .. r, s \in Shards
  <2>1. CASE q < round
    BY <1>1, <2>1 DEF GroupsFull
  <2>2. CASE ~(q < round)
    BY <1>1, <2>2, LeaderMeansFullGroup DEF Served
  <2> QED BY <2>1, <2>2
<1>3. r <= Cardinality(Client) \div (ShardNum * CLIENT_MAX)
  BY <1>2, FullRoundsFit
<1>4. Cardinality(Client) \div (ShardNum * CLIENT_MAX) \in Int
  BY FS_CardinalityType, MembershipAssumption DEF MembershipAssumption
<1> QED BY <1>2, <1>3, <1>4 DEF Rounds

\* Whatever clients do, every closed round had CLIENT_MAX clients in every shard,
\* all but one of them executors, and no leader is ever elected in a round that
\* there are not enough clients for.
THEOREM ClosedRoundsFull == Spec => [](GroupsFull /\ (Winner # None => round \in Rounds))
<1>1. Init => GroupsFull
  BY DEF Init, GroupsFull
<1>2. Seating /\ GroupsFull => (Winner # None => round \in Rounds)
  BY ServedIsFull DEF Served, Seating, TypeOK
<1> QED BY <1>1, <1>2, StepGroupsFull, SeatingInvariant, PTL DEF Spec
=============================================================================
