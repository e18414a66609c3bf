------------------------ MODULE HorizonServerProofs ------------------------
(***************************************************************************)
(* A whole server, with its pools, accounts and working clients, makes no  *)
(* other membership steps than those of rounds in step: what is proved of  *)
(* them in MembershipProofs holds of it.  And it makes no other steps on   *)
(* pools, chain and accounts than the pipeline and the ledger on their     *)
(* steady schedule: what is proved of those in TxPipelineProofs and        *)
(* LedgerProofs holds of it too.                                           *)
(***************************************************************************)
EXTENDS HorizonServer, MembershipProofs

-----------------------------------------------------------------------------
(***************************************************************************)
(* The invariant: nobody works before it has registered or before its      *)
(* leader is known, and who witnessed or validates is still an executor.   *)
(***************************************************************************)
Step(c)   == work[c].step
Header(c) == work[c].votes

IsWork(w) ==
  w = [step |-> w.step, lists |-> w.lists, height |-> w.height,
       vote |-> w.vote, votes |-> w.votes]

AreWorks(f) == f = [c \in Client |-> f[c]] /\ \A c \in Client : IsWork(f[c])

WorkShape == AreWorks(work)

MayDo(c, step) ==
  /\ seat[c] # "none" /\ Notified(c)
  /\ step \in {"witnessed", "validating"} => seat[c] = "exec"
  /\ step = "validating" => client[c].round < round

WorkingAsSeated == \A c \in Client : Step(c) = "idle" \/ MayDo(c, Step(c))

Working == WorkShape /\ WorkingAsSeated

-----------------------------------------------------------------------------
\* Setting one field of a client's work.
LEMMA FieldSet ==
  ASSUME NEW w, IsWork(w), NEW x
  PROVE  /\ IsWork([w EXCEPT !.step = x])
         /\ [w EXCEPT !.step = x].step = x /\ [w EXCEPT !.step = x].votes = w.votes
         /\ IsWork([w EXCEPT !.lists = x])
         /\ [w EXCEPT !.lists = x].step = w.step /\ [w EXCEPT !.lists = x].votes = w.votes
         /\ IsWork([w EXCEPT !.height = x])
         /\ [w EXCEPT !.height = x].step = w.step /\ [w EXCEPT !.height = x].votes = w.votes
         /\ IsWork([w EXCEPT !.vote = x])
         /\ [w EXCEPT !.vote = x].step = w.step /\ [w EXCEPT !.vote = x].votes = w.votes
         /\ IsWork([w EXCEPT !.votes = x])
         /\ [w EXCEPT !.votes = x].step = w.step /\ [w EXCEPT !.votes = x].votes = x
<1>1. [w EXCEPT !.step = x] =
        [step |-> x, lists |-> w.lists, height |-> w.height,
         vote |-> w.vote, votes |-> w.votes]
  BY DEF IsWork
<1>2. [w EXCEPT !.lists = x] =
        [step |-> w.step, lists |-> x, height |-> w.height,
         vote |-> w.vote, votes |-> w.votes]
  BY DEF IsWork
<1>3. [w EXCEPT !.height = x] =
        [step |-> w.step, lists |-> w.lists, height |-> x,
         vote |-> w.vote, votes |-> w.votes]
  BY DEF IsWork
<1>4. [w EXCEPT !.vote = x] =
        [step |-> w.step, lists |-> w.lists, height |-> w.height,
         vote |-> x, votes |-> w.votes]
  BY DEF IsWork
<1>5. [w EXCEPT !.votes = x] =
        [step |-> w.step, lists |-> w.lists, height |-> w.height,
         vote |-> w.vote, votes |-> x]
  BY DEF IsWork
<1> QED BY <1>1, <1>2, <1>3, <1>4, <1>5 DEF IsWork

\* A request by one client changes what that client does and nobody else.
LEMMA OneChanges ==
  ASSUME NEW f, AreWorks(f), NEW c \in Client, NEW w, IsWork(w)
  PROVE  /\ AreWorks([f EXCEPT ![c] = w])
         /\ \A d \in Client : [f EXCEPT ![c] = w][d] = IF d = c THEN w ELSE f[d]
<1>1. \A d \in Client : [f EXCEPT ![c] = w][d] = IF d = c THEN w ELSE f[d]
  BY DEF AreWorks
<1>2. [f EXCEPT ![c] = w] = [d \in Client |-> [f EXCEPT ![c] = w][d]]
  BY DEF AreWorks
<1> QED BY <1>1, <1>2 DEF AreWorks

\* One client's work changes and the others' stays.
LEMMA OneWorks ==
  ASSUME WorkShape, NEW c \in Client, NEW w, IsWork(w), work' = [work EXCEPT ![c] = w]
  PROVE  /\ WorkShape'
         /\ Step(c)' = w.step /\ \A d \in Client : d # c => Step(d)' = Step(d)
         /\ Header(c)' = w.votes /\ \A d \in Client : d # c => Header(d)' = Header(d)
<1>1. /\ AreWorks(work')
      /\ \A d \in Client : work'[d] = IF d = c THEN w ELSE work[d]
  <2> DEFINE f == work
  <2>1. AreWorks(f)
    BY DEF WorkShape
  <2>2. work' = [f EXCEPT ![c] = w]
    OBVIOUS
  <2> HIDE DEF f
  <2>3. /\ AreWorks([f EXCEPT ![c] = w])
        /\ \A d \in Client : [f EXCEPT ![c] = w][d] = IF d = c THEN w ELSE f[d]
    BY <2>1, OneChanges
  <2>4. /\ AreWorks(work')
        /\ \A d \in Client : work'[d] = IF d = c THEN w ELSE f[d]
    BY <2>2, <2>3
  <2> QED BY <2>4 DEF f
<1>2. WorkShape'
  BY <1>1 DEF WorkShape, AreWorks
<1> QED BY <1>1, <1>2 DEF Step, Header

\* The common form of Goes(c, step).
LEMMA GoesSteps ==
  ASSUME WorkShape, NEW c \in Client, NEW x, Goes(c, x)
  PROVE  /\ WorkShape'
         /\ Step(c)' = x /\ \A d \in Client : d # c => Step(d)' = Step(d)
         /\ \A d \in Client : Header(d)' = Header(d)
<1> DEFINE w == [work[c] EXCEPT !.step = x]
<1>1. IsWork(w) /\ w.step = x /\ w.votes = Header(c)
  BY FieldSet DEF WorkShape, AreWorks, Header
<1>2. work' = [work EXCEPT ![c] = w]
  BY DEF Goes
<1> HIDE DEF w
<1> QED BY <1>1, <1>2, OneWorks

\* And those that set several fields: the header stays as it was,
LEMMA FieldsStep ==
  ASSUME WorkShape, NEW c \in Client, NEW x, NEW y, NEW z,
         \/ work' = [work EXCEPT ![c] = [@ EXCEPT !.step = x, !.lists = y]]
         \/ work' = [work EXCEPT ![c] = [@ EXCEPT !.step = x, !.lists = y, !.height = z]]
         \/ work' = [work EXCEPT ![c] = [@ EXCEPT !.step = x, !.height = y]]
  PROVE  /\ WorkShape'
         /\ Step(c)' = x /\ \A d \in Client : d # c => Step(d)' = Step(d)
         /\ \A d \in Client : Header(d)' = Header(d)
<1> DEFINE w == work[c]
           u == [w EXCEPT !.step = x]
           v == [u EXCEPT !.lists = y]
<1>1. IsWork(w)
  BY DEF WorkShape, AreWorks
<1>2. IsWork(u) /\ u.step = x /\ u.votes = w.votes
  <2> HIDE DEF w
  <2> QED BY <1>1, FieldSet
<1>3. \/ work' = [work EXCEPT ![c] = v]
      \/ work' = [work EXCEPT ![c] = [v EXCEPT !.height = z]]
      \/ work' = [work EXCEPT ![c] = [u EXCEPT !.height = y]]
  <2>1. /\ [w EXCEPT !.step = x, !.lists = y] = v
        /\ [w EXCEPT !.step = x, !.lists = y, !.height = z] = [v EXCEPT !.height = z]
        /\ [w EXCEPT !.step = x, !.height = y] = [u EXCEPT !.height = y]
    OBVIOUS
  <2> QED BY <2>1
<1> HIDE DEF u
<1>4. /\ IsWork(v) /\ v.step = x /\ v.votes = w.votes
      /\ IsWork([u EXCEPT !.height = y])
      /\ [u EXCEPT !.height = y].step = x /\ [u EXCEPT !.height = y].votes = w.votes
  <2> HIDE DEF w
  <2> QED BY <1>2, FieldSet
<1> HIDE DEF v
<1>5. /\ IsWork([v EXCEPT !.height = z])
      /\ [v EXCEPT !.height = z].step = x /\ [v EXCEPT !.height = z].votes = w.votes
  <2> HIDE DEF w
  <2> QED BY <1>4, FieldSet
<1>6. PICK r : /\ IsWork(r) /\ r.step = x /\ r.votes = w.votes
               /\ work' = [work EXCEPT ![c] = r]
  BY <1>3, <1>4, <1>5
<1>7. Header(c) = w.votes
  BY DEF Header
<1> HIDE DEF w
<1> QED BY <1>6, <1>7, OneWorks

\* but for PackAccount, which sets it.
LEMMA AnswerStep ==
  ASSUME WorkShape, NEW c \in Client, NEW x, NEW y,
         work' = [work EXCEPT ![c] = [@ EXCEPT !.step = x, !.votes = y]]
  PROVE  /\ WorkShape'
         /\ Step(c)' = x /\ \A d \in Client : d # c => Step(d)' = Step(d)
         /\ Header(c)' = y /\ \A d \in Client : d # c => Header(d)' = Header(d)
<1> DEFINE w == work[c]
           u == [w EXCEPT !.step = x]
           v == [u EXCEPT !.votes = y]
<1>1. IsWork(w)
  BY DEF WorkShape, AreWorks
<1>2. IsWork(u) /\ u.step = x
  <2> HIDE DEF w
  <2> QED BY <1>1, FieldSet
<1>3. work' = [work EXCEPT ![c] = v]
  <2>1. [w EXCEPT !.step = x, !.votes = y] = v
    OBVIOUS
  <2> QED BY <2>1
<1> HIDE DEF u
<1>4. IsWork(v) /\ v.step = x /\ v.votes = y
  BY <1>2, FieldSet
<1> HIDE DEF v
<1> QED BY <1>3, <1>4, OneWorks

-----------------------------------------------------------------------------
\* A request that leaves Membership alone keeps the invariant when whoever's
\* step it changes may be there.
LEMMA WorksOn ==
  ASSUME Working, UNCHANGED vars, WorkShape',
         \A d \in Client : Step(d)' = Step(d) \/ MayDo(d, Step(d)')
  PROVE  Working'
<1>1. UNCHANGED <<round, client, seat, Winner>>
  BY DEF vars, groups
<1> QED BY <1>1 DEF Working, WorkingAsSeated, MayDo, Notified

\* Requests of executors that leave Membership alone.
LEMMA ExecutorWorks ==
  ASSUME Working, NEW c \in Client, ExecutorPacks(c) \/ WitnessTx(c) \/ PackValidTx(c)
  PROVE  Working' /\ UNCHANGED vars
<1>1. UNCHANGED vars
  BY DEF ExecutorPacks, WitnessTx, PackValidTx
<1>2. PICK x \in {"packed", "witnessed", "validating"} :
        /\ MayDo(c, x)
        /\ WorkShape' /\ Step(c)' = x /\ \A d \in Client : d # c => Step(d)' = Step(d)
  <2>1. CASE ExecutorPacks(c)
    <3>1. PICK y, z : work' = [work EXCEPT ![c] = [@ EXCEPT
                        !.step = "packed", !.lists = y, !.height = z]]
      BY <2>1 DEF ExecutorPacks
    <3>3. WorkShape' /\ Step(c)' = "packed" /\ \A d \in Client : d # c => Step(d)' = Step(d)
      BY <3>1, FieldsStep DEF Working
    <3>4. MayDo(c, "packed")
      BY <2>1 DEF ExecutorPacks, MayDo
    <3> QED BY <3>3, <3>4
  <2>2. CASE WitnessTx(c)
    <3>1. MayDo(c, "witnessed")
      BY <2>2 DEF WitnessTx, At, MayDo, Working, WorkingAsSeated, Step
    <3> QED BY <2>2, <3>1, GoesSteps DEF WitnessTx, Working
  <2>3. CASE PackValidTx(c)
    <3>1. MayDo(c, "validating")
      BY <2>3 DEF PackValidTx, At, MayDo, Working, WorkingAsSeated, Step
    <3> QED BY <2>3, <3>1, GoesSteps DEF PackValidTx, Working
  <2> QED BY <2>1, <2>2, <2>3
<1> QED BY <1>1, <1>2, WorksOn

\* Requests of leaders and of committee members that leave Membership alone.
LEMMA LeaderWorks ==
  ASSUME HandOver, Working, NEW c \in Client,
         LeaderPacks(c) \/ LeaderReadsHeight(c) \/ PackAccount(c)
  PROVE  Working' /\ UNCHANGED vars
<1>1. UNCHANGED vars
  BY DEF LeaderPacks, LeaderReadsHeight, PackAccount
<1>2. PICK x \in {"packing", "packed", "ready"} :
        WorkShape' /\ Step(c)' = x /\ \A d \in Client : d # c => Step(d)' = Step(d)
  <2>1. CASE LeaderPacks(c)
    BY <2>1, FieldsStep DEF LeaderPacks, Working
  <2>2. CASE LeaderReadsHeight(c)
    BY <2>2, FieldsStep DEF LeaderReadsHeight, Working
  <2>3. CASE PackAccount(c)
    BY <2>3, AnswerStep DEF PackAccount, Working
  <2> QED BY <2>1, <2>2, <2>3
<1>3. MayDo(c, x)
  <2>1. CASE Winner = c
    <3>1. Winner # None
      BY <2>1, MembershipAssumption DEF MembershipAssumption
    <3>2. seat[c] = "committee"
      BY <2>1, <3>1 DEF HandOver, Seating, OneSeatPerShard, Committee
    <3> QED BY <3>1, <3>2 DEF MayDo, Notified
  <2>2. CASE LeaderReadsHeight(c)
    BY <2>2 DEF LeaderReadsHeight, Working, WorkingAsSeated, MayDo, Step
  <2> QED BY <2>1, <2>2 DEF LeaderPacks, PackAccount
<1> QED BY <1>1, <1>2, <1>3, WorksOn

\* MultiCastBlock: the leader goes on, and so do those it asked.
LEMMA MultiCastWorks ==
  ASSUME HandOver, Working, NEW c \in Client, MultiCastBlock(c)
  PROVE  /\ Working' /\ UNCHANGED vars
         /\ \A d \in Client : Step(d)' = IF d = c THEN "proposed"
                                         ELSE IF d \in Asked THEN "asked" ELSE Step(d)
         /\ \A d \in Client : Header(d)' = Header(d)
<1>1. UNCHANGED vars /\ Winner = c /\ Winner # None /\ seat[c] = "committee"
  BY MembershipAssumption
  DEF MultiCastBlock, HandOver, Seating, OneSeatPerShard, Committee, MembershipAssumption
<1> DEFINE u == [work[c] EXCEPT !.step = "proposed"]
<1>2. IsWork(u) /\ u.step = "proposed" /\ u.votes = work[c].votes
  <2>1. IsWork(work[c])
    BY DEF Working, WorkShape, AreWorks
  <2> QED BY <2>1, FieldSet
<1>3. [work[c] EXCEPT !.step = "proposed", !.vote = 1] = [u EXCEPT !.vote = 1]
  OBVIOUS
<1>4. \A d \in Client :
        /\ d = c => work'[d] = [u EXCEPT !.vote = 1]
        /\ d # c /\ d \in Asked => work'[d] = [work[d] EXCEPT !.step = "asked"]
        /\ d # c /\ d \notin Asked => work'[d] = work[d]
  <2>1. work' = [d \in Client |->
           IF d = c THEN [work[d] EXCEPT !.step = "proposed", !.vote = 1]
           ELSE IF d \in Asked THEN [work[d] EXCEPT !.step = "asked"]
           ELSE work[d]]
    BY DEF MultiCastBlock
  <2>2. \A d \in Client : work'[d] =
           IF d = c THEN [work[d] EXCEPT !.step = "proposed", !.vote = 1]
           ELSE IF d \in Asked THEN [work[d] EXCEPT !.step = "asked"]
           ELSE work[d]
    BY <2>1
  <2> QED BY <2>2, <1>3
<1> HIDE DEF u
<1>5. /\ IsWork([u EXCEPT !.vote = 1]) /\ [u EXCEPT !.vote = 1].step = "proposed"
      /\ [u EXCEPT !.vote = 1].votes = work[c].votes
  <2>1. IsWork([u EXCEPT !.vote = 1]) /\ [u EXCEPT !.vote = 1].step = "proposed"
    BY <1>2, FieldSet
  <2>2. [u EXCEPT !.vote = 1].votes = u.votes
    BY <1>2, FieldSet
  <2> QED BY <1>2, <2>1, <2>2
<1>6. \A d \in Client : /\ IsWork([work[d] EXCEPT !.step = "asked"])
                        /\ [work[d] EXCEPT !.step = "asked"].step = "asked"
                        /\ [work[d] EXCEPT !.step = "asked"].votes = work[d].votes
  <2>1. \A d \in Client : IsWork(work[d])
    BY DEF Working, WorkShape, AreWorks
  <2> QED BY <2>1, FieldSet
<1>7. \A d \in Client :
        /\ IsWork(work'[d])
        /\ work'[d].step = IF d = c THEN "proposed"
                           ELSE IF d \in Asked THEN "asked" ELSE work[d].step
        /\ work'[d].votes = work[d].votes
  <2>1. \A d \in Client : IsWork(work[d])
    BY DEF Working, WorkShape, AreWorks
  <2> TAKE d \in Client
  <2>2. CASE d = c
    BY <2>2, <1>4, <1>5
  <2>3. CASE d # c /\ d \in Asked
    BY <2>3, <1>4, <1>6
  <2>4. CASE d # c /\ d \notin Asked
    BY <2>4, <1>4, <2>1
  <2> QED BY <2>2, <2>3, <2>4
<1>8. WorkShape'
  <2>1. work' = [d \in Client |-> work'[d]]
    BY DEF MultiCastBlock
  <2> QED BY <2>1, <1>7 DEF WorkShape, AreWorks
<1>9. \A d \in Asked : MayDo(d, "asked")
  BY <1>1 DEF Asked, Committee, MayDo, Notified
<1>10. MayDo(c, "proposed")
  BY <1>1 DEF MayDo, Notified
<1>11. Working'
  <2>1. \A d \in Client : Step(d)' = Step(d) \/ MayDo(d, Step(d)')
    BY <1>7, <1>9, <1>10 DEF Step
  <2> QED BY <1>1, <1>8, <2>1, WorksOn
<1> QED BY <1>1, <1>7, <1>11 DEF Step, Header

\* SendVote: a member goes on, and the leader counts one vote more.
LEMMA VoteWorks ==
  ASSUME HandOver, Working, NEW c \in Client, SendVote(c)
  PROVE  /\ Working' /\ UNCHANGED vars
         /\ \A d \in Client : Step(d)' = IF d = c THEN "voted" ELSE Step(d)
         /\ \A d \in Client : Header(d)' = Header(d)
<1>1. UNCHANGED vars
  BY DEF SendVote
<1>2. MayDo(c, "voted")
  BY DEF SendVote, At, Working, WorkingAsSeated, MayDo, Step
<1> DEFINE f == [work EXCEPT ![c] = [work[c] EXCEPT !.step = "voted"]]
<1>3. /\ AreWorks(f)
      /\ \A d \in Client :
           /\ f[d].step = IF d = c THEN "voted" ELSE work[d].step
           /\ f[d].votes = work[d].votes
  <2> DEFINE u == [work[c] EXCEPT !.step = "voted"]
  <2>1. IsWork(u) /\ u.step = "voted" /\ u.votes = work[c].votes
    <3>1. IsWork(work[c])
      BY DEF Working, WorkShape, AreWorks
    <3> QED BY <3>1, FieldSet
  <2> HIDE DEF u
  <2>2. /\ AreWorks([work EXCEPT ![c] = u])
        /\ \A d \in Client : [work EXCEPT ![c] = u][d] = IF d = c THEN u ELSE work[d]
    BY <2>1, OneChanges DEF Working, WorkShape
  <2>3. /\ AreWorks([work EXCEPT ![c] = u])
        /\ \A d \in Client :
             /\ [work EXCEPT ![c] = u][d].step = IF d = c THEN "voted" ELSE work[d].step
             /\ [work EXCEPT ![c] = u][d].votes = work[d].votes
    BY <2>1, <2>2
  <2> QED BY <2>3 DEF u
<1>4. work' = IF c \in Committee THEN [f EXCEPT ![Winner].vote = @ + 1] ELSE f
  <2>1. [work EXCEPT ![c].step = "voted"] = f
    OBVIOUS
  <2>2. [work EXCEPT ![c].step = "voted", ![Winner].vote = @ + 1] =
          [[work EXCEPT ![c].step = "voted"] EXCEPT ![Winner].vote = @ + 1]
    OBVIOUS
  <2>3. work' = IF c \in Committee
                  THEN [work EXCEPT ![c].step = "voted", ![Winner].vote = @ + 1]
                  ELSE [work EXCEPT ![c].step = "voted"]
    BY DEF SendVote
  <2> HIDE DEF f
  <2> QED BY <2>1, <2>2, <2>3
<1> HIDE DEF f
<1>5. /\ AreWorks(work')
      /\ \A d \in Client : work'[d].step = f[d].step /\ work'[d].votes = f[d].votes
  <2>1. CASE c \in Committee /\ Winner \in Client
    <3> DEFINE n == f[Winner].vote + 1
               v == [f[Winner] EXCEPT !.vote = n]
    <3>1. IsWork(f[Winner])
      BY <1>3, <2>1 DEF AreWorks
    <3>2. IsWork(v) /\ v.step = f[Winner].step /\ v.votes = f[Winner].votes
      <4> HIDE DEF n
      <4> QED BY <3>1, FieldSet
    <3>3. work' = [f EXCEPT ![Winner] = v]
      BY <1>4, <2>1
    <3> HIDE DEF v
    <3>4. /\ AreWorks([f EXCEPT ![Winner] = v])
          /\ \A d \in Client :
               [f EXCEPT ![Winner] = v][d] = IF d = Winner THEN v ELSE f[d]
      BY <1>3, <2>1, <3>2, OneChanges
    <3>5. /\ AreWorks(work')
          /\ \A d \in Client : work'[d] = IF d = Winner THEN v ELSE f[d]
      BY <3>3, <3>4
    <3> QED BY <3>2, <3>5
  <2>2. CASE c \in Committee /\ Winner \notin Client
    <3>1. [f EXCEPT ![Winner].vote = @ + 1] = f
      BY <1>3, <2>2 DEF AreWorks
    <3> QED BY <1>3, <1>4, <2>2, <3>1
  <2>3. CASE c \notin Committee
    BY <1>3, <1>4, <2>3
  <2> QED BY <2>1, <2>2, <2>3
<1>6. WorkShape'
  BY <1>5 DEF WorkShape, AreWorks
<1>7. Working'
  <2>1. \A d \in Client : Step(d)' = Step(d) \/ MayDo(d, Step(d)')
    BY <1>2, <1>3, <1>5 DEF Step
  <2> QED BY <1>1, <1>6, <2>1, WorksOn
<1> QED BY <1>1, <1>3, <1>5, <1>7 DEF Step, Header

-----------------------------------------------------------------------------
\* A client that joins has done nothing yet, and whoever is elected with it
\* belongs to a round without a leader, so it has done nothing either.
LEMMA RegisterWorks ==
  ASSUME HandOver, Working, NEW s \in Shards, RegisterInStep(s), work' = work
  PROVE  Working'
<1> DEFINE c == FreshId
<1>1. PICK x \in Randoms : RegisterCommunication(s, x)
  BY DEF RegisterInStep
<1>2. Winner = None
  BY <1>1, RegisterSeating DEF HandOver
<1>3. /\ c \in Client /\ seat[c] = "none" /\ round' = round
      /\ client' = [client EXCEPT ![c] = [shard |-> s, round |-> round, random |-> x]]
  BY <1>1, FreshIdIsFresh DEF RegisterCommunication, Join
<1>4. \A d \in Client : d # c => client'[d] = client[d]
  BY <1>3 DEF HandOver, Seating, TypeOK
<1>5. round \in Nat
  BY DEF HandOver, Seating, TypeOK
<1>6. ASSUME NEW d \in Client, d # c, client[d].round < round
      PROVE  seat'[d] = seat[d]
  <2>1. CASE ~ShardFills(s)
    BY <1>1, <1>6, <2>1 DEF RegisterCommunication, Join, HandOver, Seating, TypeOK
  <2>2. CASE ShardFills(s)
    <3>1. PICK w \in SmallestRandom(client', c, Entries(s, round) \cup {c}) :
            seat' = [seat EXCEPT ![c] = "exec", ![w] = "committee"]
      BY <1>1, <2>2 DEF RegisterCommunication, Join
    <3>2. w = c \/ client[w].round = round
      BY <3>1, SmallestRandomIsSmallest DEF Entries, Registered
    <3>3. d # w
      BY <1>5, <1>6, <3>2
    <3> QED BY <1>6, <3>1, <3>3 DEF HandOver, Seating, TypeOK
  <2> QED BY <2>1, <2>2
<1>7. ASSUME NEW d \in Client, Step(d) # "idle" PROVE MayDo(d, Step(d))'
  <2>1. MayDo(d, Step(d)) /\ d # c
    BY <1>3, <1>7 DEF Working, WorkingAsSeated, MayDo
  <2>2. client[d].round < round
    BY <1>2, <2>1 DEF MayDo, Notified
  <2>3. seat'[d] = seat[d] /\ client'[d] = client[d]
    BY <1>4, <1>6, <2>1, <2>2
  <2> QED BY <1>3, <2>1, <2>2, <2>3 DEF MayDo, Notified, Step
<1> QED BY <1>7 DEF Working, WorkShape, AreWorks, WorkingAsSeated, Step

\* When the round closes everybody who works belongs to a closed round.
LEMMA BlockWorks ==
  ASSUME HandOver, Working, NEW c \in Client, UploadBlock(c)
  PROVE  Working' /\ LeaderUploads
<1>1. /\ AppendBlock /\ Winner = c /\ Winner # None /\ Goes(c, "uploaded")
      /\ round' = round + 1 /\ UNCHANGED <<client, seat>>
  BY MembershipAssumption DEF UploadBlock, TakesBlock, AppendBlock, MembershipAssumption
<1>2. WorkShape' /\ Step(c)' = "uploaded" /\ \A d \in Client : d # c => Step(d)' = Step(d)
  BY <1>1, GoesSteps DEF Working
<1>3. ASSUME NEW d \in Client, seat[d] # "none"
      PROVE  client'[d].round < round'
  <2>1. client[d].round \in Nat /\ round \in Nat /\ client[d].round <= round
    BY <1>3 DEF HandOver, Seating, TypeOK, RegisteredPast
  <2> QED BY <1>1, <2>1
<1>4. seat[c] = "committee"
  BY <1>1 DEF HandOver, Seating, OneSeatPerShard, Committee
<1>5. \A d \in Client : Step(d) = "idle" \/ MayDo(d, Step(d))
  BY DEF Working, WorkingAsSeated
<1>6. \A d \in Client : Step(d)' = "idle" \/ MayDo(d, Step(d))'
  <2> TAKE d \in Client
  <2>1. CASE d = c
    BY <1>1, <1>2, <1>3, <1>4, <2>1 DEF MayDo, Notified
  <2>2. CASE d # c /\ Step(d) # "idle"
    BY <1>1, <1>2, <1>3, <1>5, <2>2 DEF MayDo, Notified
  <2> QED BY <1>2, <2>1, <2>2
<1> QED BY <1>1, <1>2, <1>6 DEF Working, WorkingAsSeated, LeaderUploads

\* A root comes from an executor that owes one: TakesRoot's request is
\* Membership's ExecutorUploads.
LEMMA RootWorks ==
  ASSUME HandOver, Working, NEW c \in Client, NEW root \in Root, UploadRoot(c, root)
  PROVE  Working' /\ c \in OwedRoots /\ ExecutorUploads(c, root)
<1>1. MayDo(c, "validating") /\ Step(c) = "validating"
  BY DEF UploadRoot, At, Working, WorkingAsSeated, Step
<1>2. c \in OwedRoots
  BY <1>1 DEF MayDo, OwedRoots
<1>3. CollectRoot(c, root)
  BY <1>2, OwedIsHeld DEF UploadRoot, TakesRoot
<1>4. /\ seat' = [seat EXCEPT ![c] = "nil"]
      /\ UNCHANGED <<round, client, Winner>>
  BY <1>3 DEF CollectRoot
<1>5. WorkShape' /\ Step(c)' = "rooted" /\ \A d \in Client : d # c => Step(d)' = Step(d)
  BY GoesSteps DEF UploadRoot, Working
<1>6. \A d \in Client : seat'[d] = IF d = c THEN "nil" ELSE seat[d]
  BY <1>4 DEF HandOver, Seating, TypeOK
<1>7. \A d \in Client : Step(d)' = "idle" \/ MayDo(d, Step(d))'
  <2> TAKE d \in Client
  <2>1. CASE d = c
    BY <1>1, <1>4, <1>5, <1>6, <2>1 DEF MayDo, Notified
  <2>2. CASE d # c
    <3>1. Step(d) = "idle" \/ MayDo(d, Step(d))
      BY DEF Working, WorkingAsSeated
    <3> QED BY <1>4, <1>5, <1>6, <2>2, <3>1 DEF MayDo, Notified
  <2> QED BY <2>1, <2>2
<1>8. ExecutorUploads(c, root)
  BY <1>1, <1>3 DEF MayDo, ExecutorUploads
<1> QED BY <1>2, <1>5, <1>7, <1>8 DEF Working, WorkingAsSeated

-----------------------------------------------------------------------------
\* At the start nobody has done anything.
LEMMA InitWorks == HorizonInit => HandOver /\ Working
<1> SUFFICES ASSUME HorizonInit PROVE HandOver /\ Working
  OBVIOUS
<1>1. work = [c \in Client |-> NoWork]
  BY DEF HorizonInit
<1>2. IsWork(NoWork) /\ NoWork.step = "idle"
  BY DEF IsWork, NoWork
<1>3. \A c \in Client : work[c] = NoWork
  BY <1>1
<1>4. Working
  BY <1>1, <1>2, <1>3 DEF Working, WorkShape, AreWorks, WorkingAsSeated, Step
<1> QED BY <1>4, InitHandOver DEF HorizonInit

\* Every step of the server is one of Membership in step or leaves it alone, and
\* keeps both invariants.
LEMMA ServerSteps ==
  ASSUME HandOver, Working, [HorizonNext]_serverVars
  PROVE  [InStepNext]_vars /\ HandOver' /\ Working'
<1>1. [InStepNext]_vars /\ Working'
  <2>1. CASE OnlyJoins(AssignShardNum)
    <3>1. AssignShardNum /\ UNCHANGED <<round, client, seat, Winner, work>>
      BY <2>1 DEF OnlyJoins, AssignShardNum, groups
    <3> QED BY <3>1 DEF InStepNext, Working, WorkShape, AreWorks, WorkingAsSeated, MayDo,
                        Notified, Step
  <2>2. ASSUME NEW s \in Shards, OnlyJoins(RegisterInStep(s))
        PROVE  [InStepNext]_vars /\ Working'
    BY <2>2, RegisterWorks DEF OnlyJoins, InStepNext
  <2>3. ASSUME NEW c \in Client, ClientSteps(c)
        PROVE  [InStepNext]_vars /\ Working'
    <3>1. CASE LeaderPacks(c) \/ LeaderReadsHeight(c) \/ PackAccount(c)
      BY <3>1, LeaderWorks
    <3>2. CASE MultiCastBlock(c)
      BY <3>2, MultiCastWorks
    <3>3. CASE OwedRoots = {} /\ UploadBlock(c)
      BY <3>3, BlockWorks DEF InStepNext, PacedUploads
    <3>4. CASE SendVote(c)
      BY <3>4, VoteWorks
    <3>5. CASE ExecutorPacks(c) \/ WitnessTx(c) \/ PackValidTx(c)
      BY <3>5, ExecutorWorks
    <3>6. ASSUME NEW root \in Root, UploadRoot(c, root)
          PROVE  [InStepNext]_vars /\ Working'
      BY <3>6, RootWorks DEF InStepNext, PacedUploads
    <3> QED BY <2>3, <3>1, <3>2, <3>3, <3>4, <3>5, <3>6
            DEF ClientSteps, LeaderSteps, ExecutorSteps
  <2>4. CASE UNCHANGED serverVars
    <3>1. UNCHANGED <<vars, work, round, client, seat, Winner>>
      BY <2>4 DEF serverVars, vars, groups
    <3> QED BY <3>1 DEF Working, WorkShape, AreWorks, WorkingAsSeated, MayDo, Notified, Step
  <2> QED BY <2>1, <2>2, <2>3, <2>4 DEF HorizonNext, JoinsInStep
<1> QED BY <1>1, StepHandOver

\* The whole server implements Membership with its rounds in step: pools,
\* chain, accounts and the clients' own work add no membership step of theirs.
THEOREM ServerInStep == HorizonSpec => Init /\ [][InStepNext]_vars
<1>1. HorizonInit => Init
  BY DEF HorizonInit
<1> QED BY <1>1, InitWorks, ServerSteps, PTL DEF HorizonSpec

\* So no request of a whole server ever panics with Source.Lock held, and every
\* executor that owes a root is held by the validation stage.
THEOREM ServerHoldsExecutors == HorizonSpec => []ExecutorsHeld
<1>1. HandOver => ExecutorsHeld
  BY OwedIsHeld DEF ExecutorsHeld, HandOver
<1> QED BY <1>1, InitWorks, ServerSteps, PTL DEF HorizonSpec

\* Nor does it ever overfill a shard, elect two members of one, or announce a
\* leader with a random number that is not the smallest.
THEOREM ServerElects ==
  HorizonSpec => [](NoOverfill /\ OneSeatPerShard /\ LeaderIsSmallest)
<1>1. [InStepNext]_vars => [Next]_vars
  BY InStepIsNext
<1>2. Init /\ [][InStepNext]_vars => Spec
  BY <1>1, PTL DEF Spec
<1> QED BY <1>2, ServerInStep, NeverOverfilled, OneMemberPerShard, LeaderCorrect, PTL
-----------------------------------------------------------------------------
(***************************************************************************)
(* What a header carries.  A leader starts when members of its own group   *)
(* have witnessed; they witness when no root of an earlier round is owed;  *)
(* so from its first request until its block is on the chain the votes of  *)
(* the whole group before are the published ones.                          *)
(***************************************************************************)
Whole(v) == \A s \in Shards : v[s] = CLIENT_MAX - 1

HeightBehind == height \in Nat /\ height < round

WitnessesSettle ==
  \A c \in Client : client[c].round = round /\ Step(c) = "witnessed" => OwedRoots = {}

LeaderSettles ==
  Winner # None /\ Step(Winner) \in {"packing", "packed", "ready", "proposed"}
    => OwedRoots = {}

HeaderIsWhole ==
  Winner # None /\ Step(Winner) \in {"ready", "proposed"} /\ round > 1
    => Whole(Header(Winner))

Settled == WitnessesSettle /\ LeaderSettles /\ HeaderIsWhole

HeaderBooks == HeightBehind /\ HeaderHasVotes

\* With one root to vote for, a shard's votes are the votes of that root, and
\* PackAccount answers them.
LEMMA AnswersAreTotals ==
  ASSUME NEW r, Root = {r}, HandOver
  PROVE  \A s \in Shards : VotesAnswered[s] = VoteTotal(RootsVote[s])
<1> TAKE s \in Shards
<1> DEFINE v == RootsVote[s]
<1>1. v \in [Root -> Nat] /\ v[r] \in Int
  <2>1. v \in [Root -> Nat]
    BY DEF HandOver, Seating, TypeOK
  <2>2. r \in Root
    OBVIOUS
  <2> HIDE DEF v
  <2>3. v[r] \in Nat
    BY <2>1, <2>2
  <2> QED BY <2>1, <2>3
<1>2. VoteTotal(v) = v[r]
  <2>1. VoteTotal(v) = SumOver(v, Root)
    BY DEF VoteTotal, SumOver
  <2>2. IsFiniteSet(Root) /\ Cardinality(Root) = 1
    BY FS_Singleton
  <2>3. \A x \in Root : v[x] = v[r]
    OBVIOUS
  <2> HIDE DEF v
  <2>4. SumOver(v, Root) = v[r] * Cardinality(Root)
    BY <1>1, <2>2, <2>3, SumConstant
  <2> QED BY <1>1, <2>1, <2>2, <2>4
<1>3. VotesAnswered[s] = v[r]
  <2>1. VotesAnswered[s] = Max({v[root] : root \in Root})
    BY DEF VotesAnswered
  <2>2. {v[root] : root \in Root} = {v[r]}
    OBVIOUS
  <2> HIDE DEF v
  <2>3. \A x \in Int : Max({x}) = x
    BY DEF Max
  <2> QED BY <1>1, <2>1, <2>2, <2>3
<1> QED BY <1>2, <1>3

\* Whoever is the leader sits in the committee.
LEMMA LeaderSits ==
  ASSUME HandOver, Winner # None
  PROVE  Winner \in Client /\ seat[Winner] = "committee" /\ client[Winner].round = round
BY DEF HandOver, Seating, OneSeatPerShard, Committee

\* What the leader may do between its requests and its block.
LeaderGoesOn ==
  \A d \in Client : d = Winner =>
    \/ Step(d)' = Step(d) /\ Header(d)' = Header(d)
    \/ Step(d)' \in {"idle", "asked", "voted"}
    \/ /\ OwedRoots = {}
       /\ Step(d)' \in {"ready", "proposed"} /\ round > 1 => Whole(Header(d)')

\* Requests that leave Membership alone.
LEMMA WorksSettled ==
  ASSUME HandOver, Settled, UNCHANGED vars, LeaderGoesOn,
         \A d \in Client : Step(d)' = "witnessed" =>
           Step(d) = "witnessed" \/ (client[d].round = round => OwedRoots = {})
  PROVE  Settled'
<1>1. UNCHANGED <<round, client, seat, Winner>> /\ OwedRoots' = OwedRoots
  BY DEF vars, groups, OwedRoots
<1>2. WitnessesSettle'
  BY <1>1 DEF Settled, WitnessesSettle
<1>3. \A d \in Client :
        d = Winner =>
          /\ Step(d)' \in {"packing", "packed", "ready", "proposed"} => OwedRoots = {}
          /\ Step(d)' \in {"ready", "proposed"} /\ round > 1 => Whole(Header(d)')
  <2> SUFFICES ASSUME NEW d \in Client, d = Winner
               PROVE  /\ Step(d)' \in {"packing", "packed", "ready", "proposed"}
                           => OwedRoots = {}
                      /\ Step(d)' \in {"ready", "proposed"} /\ round > 1
                           => Whole(Header(d)')
    OBVIOUS
  <2>1. Winner # None
    BY MembershipAssumption DEF MembershipAssumption
  <2>2. /\ Step(d) \in {"packing", "packed", "ready", "proposed"} => OwedRoots = {}
        /\ Step(d) \in {"ready", "proposed"} /\ round > 1 => Whole(Header(d))
    BY <2>1 DEF Settled, LeaderSettles, HeaderIsWhole
  <2> QED BY <2>2 DEF LeaderGoesOn
<1>4. Winner # None => Winner \in Client
  BY LeaderSits
<1>5. LeaderSettles'
  BY <1>1, <1>3, <1>4 DEF LeaderSettles, Step
<1>6. HeaderIsWhole'
  BY <1>1, <1>3, <1>4 DEF HeaderIsWhole, Step, Header, Whole
<1> QED BY <1>2, <1>5, <1>6 DEF Settled

\* Executors are no leaders, and witness when the rounds before have reported.
LEMMA ExecutorSettles ==
  ASSUME HandOver, Working, Settled, NEW c \in Client,
         \/ ExecutorPacks(c)
         \/ (\A d \in OwedRoots : client[d].round >= client[c].round) /\ WitnessTx(c)
         \/ PackValidTx(c)
  PROVE  Settled'
<1>1. UNCHANGED vars
  BY ExecutorWorks
<1>2. seat[c] = "exec"
  BY DEF ExecutorPacks, WitnessTx, PackValidTx, At, Working, WorkingAsSeated, MayDo, Step
<1>3. Winner # None => Winner # c
  BY <1>2, LeaderSits
<1>4. /\ \A d \in Client : d # c => Step(d)' = Step(d)
      /\ \A d \in Client : Header(d)' = Header(d)
      /\ Step(c)' = "witnessed" => (client[c].round = round => OwedRoots = {})
  <2>1. CASE ExecutorPacks(c)
    <3>1. PICK y, z : work' = [work EXCEPT ![c] = [@ EXCEPT
                        !.step = "packed", !.lists = y, !.height = z]]
      BY <2>1 DEF ExecutorPacks
    <3>2. /\ Step(c)' = "packed" /\ \A d \in Client : d # c => Step(d)' = Step(d)
          /\ \A d \in Client : Header(d)' = Header(d)
      BY <3>1, FieldsStep DEF Working
    <3> QED BY <3>2
  <2>2. CASE (\A d \in OwedRoots : client[d].round >= client[c].round) /\ WitnessTx(c)
    <3>1. /\ \A d \in Client : d # c => Step(d)' = Step(d)
          /\ \A d \in Client : Header(d)' = Header(d)
      BY <2>2, GoesSteps DEF WitnessTx, Working
    <3>2. client[c].round = round => OwedRoots = {}
      <4>1. \A d \in OwedRoots : client[d].round < round /\ client[d].round \in Nat
        BY DEF OwedRoots, HandOver, Seating, TypeOK
      <4>2. round \in Nat
        BY DEF HandOver, Seating, TypeOK
      <4> QED BY <2>2, <4>1, <4>2
    <3> QED BY <3>1, <3>2
  <2>3. CASE PackValidTx(c)
    <3>1. /\ Step(c)' = "validating" /\ \A d \in Client : d # c => Step(d)' = Step(d)
          /\ \A d \in Client : Header(d)' = Header(d)
      BY <2>3, GoesSteps DEF PackValidTx, Working
    <3> QED BY <3>1
  <2> QED BY <2>1, <2>2, <2>3
<1>5. \A d \in Client : Step(d)' = "witnessed" =>
        Step(d) = "witnessed" \/ (client[d].round = round => OwedRoots = {})
  BY <1>4
<1>6. LeaderGoesOn
  BY <1>3, <1>4, MembershipAssumption DEF LeaderGoesOn, MembershipAssumption
<1> QED BY <1>1, <1>5, <1>6, WorksSettled

\* The leader packs when somebody of its group has witnessed.
LEMMA LeaderPacksSettled ==
  ASSUME HandOver, Working, Settled, NEW c \in Client,
         Cardinality(Witnesses) >= MinVote, LeaderPacks(c)
  PROVE  Settled'
<1>1. UNCHANGED vars /\ Winner = c
  BY LeaderWorks DEF LeaderPacks
<1>2. OwedRoots = {}
  <2>1. MinVote >= 1
    <3> DEFINE n == (2 * CLIENT_MAX) \div 3
    <3>1. n \in Int
      BY MembershipAssumption DEF MembershipAssumption
    <3>2. MinVote = Max({1, n})
      BY DEF MinVote
    <3> HIDE DEF n
    <3>3. \E x \in {1, n} : \A y \in {1, n} : x >= y
      <4>1. CASE n >= 1
        BY <3>1, <4>1
      <4>2. CASE ~(n >= 1)
        BY <3>1, <4>2
      <4> QED BY <4>1, <4>2
    <3>4. Max({1, n}) >= 1
      BY <3>3 DEF Max
    <3> QED BY <3>2, <3>4
  <2>2. PICK d : d \in Witnesses
    <3> SUFFICES ASSUME Witnesses = {} PROVE FALSE
      OBVIOUS
    <3>1. Cardinality(Witnesses) = 0
      BY FS_EmptySet
    <3>2. MinVote \in Int
      <4> DEFINE n == (2 * CLIENT_MAX) \div 3
      <4>1. n \in Int
        BY MembershipAssumption DEF MembershipAssumption
      <4>2. MinVote = Max({1, n})
        BY DEF MinVote
      <4> HIDE DEF n
      <4> QED BY <4>1, <4>2 DEF Max
    <3> QED BY <2>1, <3>1, <3>2
  <2> QED BY <2>2 DEF Witnesses, Settled, WitnessesSettle, Step
<1>3. PICK y : work' = [work EXCEPT ![c] = [@ EXCEPT !.step = "packing", !.lists = y]]
  BY DEF LeaderPacks
<1>4. Step(c)' = "packing" /\ \A d \in Client : d # c => Step(d)' = Step(d)
  BY <1>3, FieldsStep DEF Working
<1>5. \A d \in Client : Step(d)' = "witnessed" => Step(d) = "witnessed"
  BY <1>4
<1>6. LeaderGoesOn
  BY <1>1, <1>2, <1>4 DEF LeaderGoesOn
<1> QED BY <1>1, <1>5, <1>6, WorksSettled

\* It reads the height,
LEMMA LeaderReadsSettled ==
  ASSUME HandOver, Working, Settled, NEW c \in Client, LeaderReadsHeight(c)
  PROVE  Settled'
<1>1. UNCHANGED vars
  BY LeaderWorks
<1>2. PICK y : work' = [work EXCEPT ![c] = [@ EXCEPT !.step = "packed", !.height = y]]
  BY DEF LeaderReadsHeight
<1>3. /\ Step(c)' = "packed" /\ \A d \in Client : d # c => Step(d)' = Step(d)
      /\ \A d \in Client : Header(d)' = Header(d)
  BY <1>2, FieldsStep DEF Working
<1>4. Step(c) = "packing"
  BY DEF LeaderReadsHeight, Step
<1>5. \A d \in Client : Step(d)' = "witnessed" => Step(d) = "witnessed"
  BY <1>3
<1>6. LeaderGoesOn
  <2>1. CASE Winner = c
    <3>1. Winner # None
      BY <2>1, MembershipAssumption DEF MembershipAssumption
    <3>2. OwedRoots = {}
      BY <1>4, <2>1, <3>1 DEF Settled, LeaderSettles
    <3> QED BY <1>3, <2>1, <3>2 DEF LeaderGoesOn
  <2>2. CASE Winner # c
    BY <1>3, <2>2 DEF LeaderGoesOn
  <2> QED BY <2>1, <2>2
<1> QED BY <1>1, <1>5, <1>6, WorksSettled

\* and is told the votes of a whole group.
LEMMA AnswerSettled ==
  ASSUME NEW r, Root = {r}, HandOver, Working, Settled, Published,
         NEW c \in Client, PackAccount(c)
  PROVE  Settled'
<1>1. UNCHANGED vars /\ Winner = c /\ Winner # None /\ Step(c) = "packed"
  BY LeaderWorks, MembershipAssumption DEF PackAccount, At, Step, MembershipAssumption
<1>2. OwedRoots = {}
  BY <1>1 DEF Settled, LeaderSettles
<1>3. work' = [work EXCEPT ![c] = [@ EXCEPT !.step = "ready", !.votes = VotesAnswered]]
  BY DEF PackAccount
<1>4. /\ Step(c)' = "ready" /\ \A d \in Client : d # c => Step(d)' = Step(d)
      /\ Header(c)' = VotesAnswered
  <2> DEFINE y == VotesAnswered
  <2>1. work' = [work EXCEPT ![c] = [@ EXCEPT !.step = "ready", !.votes = y]]
    BY <1>3
  <2> HIDE DEF y
  <2>2. /\ Step(c)' = "ready" /\ \A d \in Client : d # c => Step(d)' = Step(d)
        /\ Header(c)' = y
    BY <2>1, AnswerStep DEF Working
  <2> QED BY <2>2 DEF y
<1>5. round > 1 => Whole(Header(c)')
  BY <1>2, <1>4, AnswersAreTotals DEF Published, Whole
<1>6. \A d \in Client : Step(d)' = "witnessed" => Step(d) = "witnessed"
  BY <1>4
<1>7. LeaderGoesOn
  BY <1>1, <1>2, <1>5 DEF LeaderGoesOn
<1> QED BY <1>1, <1>6, <1>7, WorksSettled

\* The committee's part leaves the header as it is.
LEMMA VotingSettled ==
  ASSUME HandOver, Working, Settled, NEW c \in Client, MultiCastBlock(c) \/ SendVote(c)
  PROVE  Settled'
<1>1. UNCHANGED vars
  BY DEF MultiCastBlock, SendVote
<1>2. CASE MultiCastBlock(c)
  <2>1. /\ \A d \in Client : Step(d)' = IF d = c THEN "proposed"
                                      ELSE IF d \in Asked THEN "asked" ELSE Step(d)
        /\ \A d \in Client : Header(d)' = Header(d)
    BY <1>2, MultiCastWorks
  <2>2. Winner = c /\ Winner # None /\ Step(c) = "ready"
    BY <1>2, MembershipAssumption DEF MultiCastBlock, At, Step, MembershipAssumption
  <2>3. OwedRoots = {} /\ (round > 1 => Whole(Header(c)))
    BY <2>2 DEF Settled, LeaderSettles, HeaderIsWhole
  <2>4. \A d \in Client : Step(d)' = "witnessed" => Step(d) = "witnessed"
    BY <2>1
  <2>5. round > 1 => Whole(Header(c)')
    BY <2>1, <2>3
  <2>6. LeaderGoesOn
    BY <2>2, <2>3, <2>5 DEF LeaderGoesOn
  <2> QED BY <1>1, <2>4, <2>6, WorksSettled
<1>3. CASE SendVote(c)
  <2>1. /\ \A d \in Client : Step(d)' = IF d = c THEN "voted" ELSE Step(d)
        /\ \A d \in Client : Header(d)' = Header(d)
    BY <1>3, VoteWorks
  <2>2. \A d \in Client : Step(d)' = "witnessed" => Step(d) = "witnessed"
    BY <2>1
  <2>3. LeaderGoesOn
    BY <2>1 DEF LeaderGoesOn
  <2> QED BY <1>1, <2>2, <2>3, WorksSettled
<1> QED BY <1>2, <1>3

-----------------------------------------------------------------------------
\* A client that joins, or that is elected with it, has done nothing yet.
LEMMA RegisterSettles ==
  ASSUME HandOver, Working, Settled, NEW s \in Shards, RegisterInStep(s), work' = work
  PROVE  Settled'
<1> DEFINE c == FreshId
<1>1. PICK x \in Randoms : RegisterCommunication(s, x)
  BY DEF RegisterInStep
<1>2. Winner = None
  BY <1>1, RegisterSeating DEF HandOver
<1>3. /\ c \in Client /\ seat[c] = "none" /\ round' = round
      /\ client' = [client EXCEPT ![c] = [shard |-> s, round |-> round, random |-> x]]
  BY <1>1, FreshIdIsFresh DEF RegisterCommunication, Join
<1>4. HandOver'
  BY RegisterHandOver
<1>5. \A d \in Client : Step(d) # "idle" => client'[d].round < round'
  <2> TAKE d \in Client
  <2> HAVE Step(d) # "idle"
  <2>1. seat[d] # "none" /\ client[d].round < round
    BY <1>2 DEF Working, WorkingAsSeated, MayDo, Notified
  <2>2. client'[d] = client[d]
    BY <1>3, <2>1 DEF HandOver, Seating, TypeOK
  <2> QED BY <1>3, <2>1, <2>2
<1>6. round' \in Nat
  BY <1>4 DEF HandOver, Seating, TypeOK
<1>7. WitnessesSettle'
  BY <1>5, <1>6 DEF WitnessesSettle, Step
<1>8. Winner' # None => Step(Winner') = "idle"
  <2> SUFFICES ASSUME Winner' # None PROVE Step(Winner') = "idle"
    OBVIOUS
  <2>1. Winner' \in Client /\ client'[Winner'].round = round'
    BY <1>4 DEF HandOver, Seating, OneSeatPerShard, Committee
  <2> QED BY <1>5, <1>6, <2>1
<1> QED BY <1>7, <1>8 DEF Settled, LeaderSettles, HeaderIsWhole, Step

\* When the round closes there is no leader and no witness of the new one.
LEMMA BlockSettles ==
  ASSUME HandOver, Working, Settled, NEW c \in Client, UploadBlock(c)
  PROVE  Settled'
<1>1. /\ Winner' = None /\ round' = round + 1 /\ UNCHANGED <<client, seat>>
      /\ Goes(c, "uploaded")
  BY DEF UploadBlock, TakesBlock, AppendBlock
<1>2. Step(c)' = "uploaded" /\ \A d \in Client : d # c => Step(d)' = Step(d)
  BY <1>1, GoesSteps DEF Working
<1>3. ASSUME NEW d \in Client, Step(d)' = "witnessed"
      PROVE  client'[d].round # round'
  <2>1. Step(d) = "witnessed"
    BY <1>2, <1>3
  <2>2. seat[d] # "none"
    BY <2>1 DEF Working, WorkingAsSeated, MayDo
  <2>3. client[d].round \in Nat /\ round \in Nat /\ client[d].round <= round
    BY <2>2 DEF HandOver, Seating, TypeOK, RegisteredPast
  <2> QED BY <1>1, <2>3
<1>4. WitnessesSettle'
  BY <1>3 DEF WitnessesSettle
<1> QED BY <1>1, <1>4 DEF Settled, LeaderSettles, HeaderIsWhole

\* A root is none of a leader, and takes away from those owed.
LEMMA RootSettles ==
  ASSUME HandOver, Working, Settled, NEW c \in Client, NEW root \in Root,
         UploadRoot(c, root)
  PROVE  Settled'
<1>1. c \in OwedRoots /\ CollectRoot(c, root)
  BY RootWorks, OwedIsHeld DEF UploadRoot, TakesRoot
<1>2. /\ seat' = [seat EXCEPT ![c] = "nil"]
      /\ UNCHANGED <<round, client, Winner>>
  BY <1>1 DEF CollectRoot
<1>3. /\ Step(c)' = "rooted" /\ \A d \in Client : d # c => Step(d)' = Step(d)
      /\ \A d \in Client : Header(d)' = Header(d)
  BY GoesSteps DEF UploadRoot, Working
<1>4. OwedRoots' \subseteq OwedRoots
  <2>1. \A d \in Client : seat'[d] = IF d = c THEN "nil" ELSE seat[d]
    BY <1>2 DEF HandOver, Seating, TypeOK
  <2> QED BY <1>2, <2>1 DEF OwedRoots
<1>5. Winner # None => Winner # c /\ Winner \in Client
  BY <1>1, LeaderSits DEF OwedRoots
<1>6. WitnessesSettle'
  BY <1>2, <1>3, <1>4 DEF Settled, WitnessesSettle
<1>7. \A d \in Client : d = Winner => Step(d)' = Step(d) /\ Header(d)' = Header(d)
  BY <1>3, <1>5, MembershipAssumption DEF MembershipAssumption
<1>8. LeaderSettles'
  BY <1>2, <1>4, <1>5, <1>7 DEF Settled, LeaderSettles, Step
<1>9. HeaderIsWhole'
  BY <1>2, <1>5, <1>7 DEF Settled, HeaderIsWhole, Step, Header, Whole
<1> QED BY <1>6, <1>8, <1>9 DEF Settled

\* Every step of the server keeps it.
LEMMA StepSettled ==
  ASSUME NEW r, Root = {r}, HandOver, Working, Settled, Published,
         [HorizonNext]_serverVars
  PROVE  Settled'
<1>1. CASE OnlyJoins(AssignShardNum) \/ UNCHANGED serverVars
  <2>1. UNCHANGED <<round, client, seat, Winner, work>>
    BY <1>1 DEF OnlyJoins, AssignShardNum, groups, serverVars, vars
  <2>2. OwedRoots' = OwedRoots
    BY <2>1 DEF OwedRoots
  <2> QED BY <2>1, <2>2
          DEF Settled, WitnessesSettle, LeaderSettles, HeaderIsWhole, Step, Header, Whole
<1>2. ASSUME NEW s \in Shards, OnlyJoins(RegisterInStep(s)) PROVE Settled'
  BY <1>2, RegisterSettles DEF OnlyJoins
<1>3. ASSUME NEW c \in Client, ClientSteps(c) PROVE Settled'
  <2>1. CASE Cardinality(Witnesses) >= MinVote /\ LeaderPacks(c)
    BY <2>1, LeaderPacksSettled
  <2>2. CASE LeaderReadsHeight(c)
    BY <2>2, LeaderReadsSettled
  <2>3. CASE PackAccount(c)
    BY <2>3, AnswerSettled
  <2>4. CASE MultiCastBlock(c) \/ SendVote(c)
    BY <2>4, VotingSettled
  <2>5. CASE UploadBlock(c)
    BY <2>5, BlockSettles
  <2>6. CASE \/ ExecutorPacks(c)
             \/ (\A d \in OwedRoots : client[d].round >= client[c].round) /\ WitnessTx(c)
             \/ PackValidTx(c)
    BY <2>6, ExecutorSettles
  <2>7. ASSUME NEW root \in Root, UploadRoot(c, root) PROVE Settled'
    BY <2>7, RootSettles
  <2> QED BY <1>3, <2>1, <2>2, <2>3, <2>4, <2>5, <2>6, <2>7
          DEF ClientSteps, LeaderSteps, ExecutorSteps
<1> QED BY <1>1, <1>2, <1>3 DEF HorizonNext, JoinsInStep

-----------------------------------------------------------------------------
\* A block on the chain carries its leader's header, and a refused one none.
LEMMA BlockBooked ==
  ASSUME HandOver, Settled, HeaderBooks, NEW c \in Client, UploadBlock(c)
  PROVE  HeaderBooks'
<1> DEFINE w == work[c]
<1>1. /\ round \in Nat /\ round' = round + 1 /\ height \in Nat /\ height < round
      /\ Winner = c /\ Winner # None /\ Step(c) = "proposed"
  BY MembershipAssumption
  DEF UploadBlock, TakesBlock, AppendBlock, At, Step, HeaderBooks, HeightBehind,
      HandOver, Seating, TypeOK, MembershipAssumption
<1>2. round > 1 => Whole(w.votes)
  BY <1>1 DEF Settled, HeaderIsWhole, Header
<1>3. Books!Block(w.height, w.vote, w.lists) /\ Books!Booked(w.votes, w.lists)
  BY DEF UploadBlock, TakesBlock
<1>4. height' = height \/ height' = height + 1
  BY <1>3 DEF Books!Block, Books!Accept, Books!Refuse
<1>5. height' # height => StateRoot' = w.votes
  BY <1>3 DEF Books!Booked, Books!UpdateChainWithBlock
<1>6. height' = height => StateRoot' = StateRoot
  BY <1>3 DEF Books!Booked, Books!ledger
<1> HIDE DEF w
<1>7. HeightBehind'
  BY <1>1, <1>4 DEF HeightBehind
<1>8. HeaderHasVotes'
  <2>1. CASE height' = height
    BY <1>6, <2>1 DEF HeaderBooks, HeaderHasVotes
  <2>2. CASE height' # height /\ height' >= 2
    <3>1. round > 1
      BY <1>1, <1>4, <2>2
    <3> QED BY <1>2, <1>5, <2>2, <3>1 DEF HeaderHasVotes, Whole
  <2>3. CASE height' # height /\ ~(height' >= 2)
    BY <2>3 DEF HeaderHasVotes
  <2> QED BY <2>1, <2>2, <2>3
<1> QED BY <1>7, <1>8 DEF HeaderBooks

\* A leader uploads when its committee has voted,
UploadsVoted(c) == UploadBlock(c) /\ \A d \in Committee : work[d].step # "asked"

\* and nothing else touches rounds, height or accounts.
LEMMA OnlyBlocksBook ==
  ASSUME [HorizonNext]_serverVars
  PROVE  (\E c \in Client : UploadsVoted(c)) \/ UNCHANGED <<round, height, money>>
<1>1. CASE UNCHANGED serverVars
  BY <1>1 DEF serverVars, vars, books
<1>2. CASE OnlyJoins(AssignShardNum)
  BY <1>2 DEF OnlyJoins, AssignShardNum, books
<1>3. ASSUME NEW s \in Shards, OnlyJoins(RegisterInStep(s))
      PROVE  UNCHANGED <<round, height, money>>
  BY <1>3 DEF OnlyJoins, RegisterInStep, RegisterCommunication, Join, books
<1>4. ASSUME NEW c \in Client, ClientSteps(c), ~UploadsVoted(c)
      PROVE  UNCHANGED <<round, height, money>>
  <2>1. CASE LeaderPacks(c)
    BY <2>1 DEF LeaderPacks, vars
  <2>2. CASE LeaderReadsHeight(c) \/ PackAccount(c) \/ MultiCastBlock(c) \/ SendVote(c)
    BY <2>2 DEF LeaderReadsHeight, PackAccount, MultiCastBlock, SendVote, vars, books
  <2>3. CASE ExecutorPacks(c) \/ WitnessTx(c) \/ PackValidTx(c)
    BY <2>3 DEF ExecutorPacks, WitnessTx, PackValidTx, vars
  <2>4. ASSUME NEW root \in Root, UploadRoot(c, root)
        PROVE  UNCHANGED <<round, height, money>>
    BY <2>4 DEF UploadRoot, TakesRoot, CollectRoot, CollectRootPanics
  <2> QED BY <1>4, <2>1, <2>2, <2>3, <2>4
          DEF ClientSteps, LeaderSteps, ExecutorSteps, UploadsVoted
<1> QED BY <1>1, <1>2, <1>3, <1>4 DEF HorizonNext, JoinsInStep

\* So only blocks change what headers on the chain say.
LEMMA StepBooked ==
  ASSUME HandOver, Settled, HeaderBooks, [HorizonNext]_serverVars
  PROVE  HeaderBooks'
<1>1. CASE \E c \in Client : UploadsVoted(c)
  BY <1>1, BlockBooked DEF UploadsVoted
<1>2. CASE UNCHANGED <<round, height, money>>
  BY <1>2 DEF HeaderBooks, HeightBehind, HeaderHasVotes, money
<1> QED BY <1>1, <1>2, OnlyBlocksBook

\* It all holds at the start: nobody has done anything and the chain is empty.
LEMMA InitSettled == HorizonInit => Votes /\ Published /\ Settled /\ HeaderBooks
<1> SUFFICES ASSUME HorizonInit PROVE Votes /\ Published /\ Settled /\ HeaderBooks
  OBVIOUS
<1>1. Init /\ Books!LedgerInit /\ work = [c \in Client |-> NoWork]
  BY DEF HorizonInit
<1>2. Votes
  BY <1>1, InitVotes
<1>3. Published
  BY <1>1 DEF Init, Published
<1>4. \A c \in Client : Step(c) = "idle"
  BY <1>1 DEF Step, NoWork
<1>5. Winner = None /\ round = 1 /\ height = 0
  BY <1>1 DEF Init, Books!LedgerInit, Books!Init
<1>6. Settled
  BY <1>4, <1>5 DEF Settled, WitnessesSettle, LeaderSettles, HeaderIsWhole
<1>7. HeaderBooks
  BY <1>5 DEF HeaderBooks, HeightBehind, HeaderHasVotes
<1> QED BY <1>2, <1>3, <1>6, <1>7

\* Where every executor computes the same root, every header from the second
\* block on carries the votes of a whole group for every shard: the stage that
\* moves on between a leader's requests never takes them from it.
THEOREM HeadersCarryVotes ==
  ASSUME NEW r, Root = {r}
  PROVE  HorizonSpec => []HeaderHasVotes
<1> DEFINE Inv == HandOver /\ Working /\ Votes /\ Published /\ Settled /\ HeaderBooks
<1>1. HorizonInit => Inv
  BY InitWorks, InitSettled
<1>2. Inv /\ [HorizonNext]_serverVars => Inv'
  <2> SUFFICES ASSUME Inv, [HorizonNext]_serverVars PROVE Inv'
    OBVIOUS
  <2>1. [InStepNext]_vars /\ HandOver' /\ Working'
    BY ServerSteps
  <2>2. Votes' /\ Published'
    BY <2>1, StepVotes, StepPublishes
  <2>3. Settled'
    BY StepSettled
  <2>4. HeaderBooks'
    BY StepBooked
  <2> QED BY <2>1, <2>2, <2>3, <2>4
<1>3. Inv => HeaderHasVotes
  BY DEF HeaderBooks
<1> QED BY <1>1, <1>2, <1>3, PTL DEF HorizonSpec

-----------------------------------------------------------------------------
(***************************************************************************)
(* The pipeline under the whole server (ServerIsSteady).  First, what every *)
(* request does to what the pipeline sees of a client, its Task, and to the *)
(* votes that a leader has counted.                                        *)
(***************************************************************************)
Task(c) == Held(work[c])
Vote(c) == work[c].vote
Holds(x, y, z) == [step |-> x, lists |-> y, height |-> z]

\* c goes to step x with lists y and height z, and nobody else does anything.
Moves(c, x, y, z) ==
  /\ Task(c)' = Holds(x, y, z)
  /\ \A d \in Client : d # c => Task(d)' = Task(d)
  /\ \A d \in Client : Vote(d)' = Vote(d)

\* The fields a request sets: the step alone,
LEMMA SetStep ==
  ASSUME NEW w, IsWork(w), NEW x
  PROVE  [w EXCEPT !.step = x] =
           [step |-> x, lists |-> w.lists, height |-> w.height,
            vote |-> w.vote, votes |-> w.votes]
BY DEF IsWork

\* the step and the lists,
LEMMA SetStepLists ==
  ASSUME NEW w, IsWork(w), NEW x, NEW y
  PROVE  [w EXCEPT !.step = x, !.lists = y] =
           [step |-> x, lists |-> y, height |-> w.height,
            vote |-> w.vote, votes |-> w.votes]
<1> DEFINE u == [step |-> x, lists |-> w.lists, height |-> w.height,
               vote |-> w.vote, votes |-> w.votes]
<1>1. [w EXCEPT !.step = x] = u
  BY SetStep
<1>2. [w EXCEPT !.step = x, !.lists = y] =
        [[w EXCEPT !.step = x] EXCEPT !.lists = y]
  OBVIOUS
<1>3. [u EXCEPT !.lists = y] =
        [step |-> x, lists |-> y, height |-> w.height,
         vote |-> w.vote, votes |-> w.votes]
  OBVIOUS
<1> HIDE DEF u
<1> QED BY <1>1, <1>2, <1>3

\* the step and the height,
LEMMA SetStepHeight ==
  ASSUME NEW w, IsWork(w), NEW x, NEW z
  PROVE  [w EXCEPT !.step = x, !.height = z] =
           [step |-> x, lists |-> w.lists, height |-> z,
            vote |-> w.vote, votes |-> w.votes]
<1> DEFINE u == [step |-> x, lists |-> w.lists, height |-> w.height,
               vote |-> w.vote, votes |-> w.votes]
<1>1. [w EXCEPT !.step = x] = u
  BY SetStep
<1>2. [w EXCEPT !.step = x, !.height = z] =
        [[w EXCEPT !.step = x] EXCEPT !.height = z]
  OBVIOUS
<1>3. [u EXCEPT !.height = z] =
        [step |-> x, lists |-> w.lists, height |-> z,
         vote |-> w.vote, votes |-> w.votes]
  OBVIOUS
<1> HIDE DEF u
<1> QED BY <1>1, <1>2, <1>3

\* the step and the header's votes,
LEMMA SetStepVotes ==
  ASSUME NEW w, IsWork(w), NEW x, NEW y
  PROVE  [w EXCEPT !.step = x, !.votes = y] =
           [step |-> x, lists |-> w.lists, height |-> w.height,
            vote |-> w.vote, votes |-> y]
<1> DEFINE u == [step |-> x, lists |-> w.lists, height |-> w.height,
               vote |-> w.vote, votes |-> w.votes]
<1>1. [w EXCEPT !.step = x] = u
  BY SetStep
<1>2. [w EXCEPT !.step = x, !.votes = y] =
        [[w EXCEPT !.step = x] EXCEPT !.votes = y]
  OBVIOUS
<1>3. [u EXCEPT !.votes = y] =
        [step |-> x, lists |-> w.lists, height |-> w.height,
         vote |-> w.vote, votes |-> y]
  OBVIOUS
<1> HIDE DEF u
<1> QED BY <1>1, <1>2, <1>3

\* the step and the votes counted,
LEMMA SetStepVote ==
  ASSUME NEW w, IsWork(w), NEW x, NEW y
  PROVE  [w EXCEPT !.step = x, !.vote = y] =
           [step |-> x, lists |-> w.lists, height |-> w.height,
            vote |-> y, votes |-> w.votes]
<1> DEFINE u == [step |-> x, lists |-> w.lists, height |-> w.height,
               vote |-> w.vote, votes |-> w.votes]
<1>1. [w EXCEPT !.step = x] = u
  BY SetStep
<1>2. [w EXCEPT !.step = x, !.vote = y] =
        [[w EXCEPT !.step = x] EXCEPT !.vote = y]
  OBVIOUS
<1>3. [u EXCEPT !.vote = y] =
        [step |-> x, lists |-> w.lists, height |-> w.height,
         vote |-> y, votes |-> w.votes]
  OBVIOUS
<1> HIDE DEF u
<1> QED BY <1>1, <1>2, <1>3

\* and these alone.
LEMMA SetVote ==
  ASSUME NEW w, IsWork(w), NEW y
  PROVE  [w EXCEPT !.vote = y] =
           [step |-> w.step, lists |-> w.lists, height |-> w.height,
            vote |-> y, votes |-> w.votes]
BY DEF IsWork

\* A request that sets step, lists and height, or some of them.
LEMMA OneMoves ==
  ASSUME WorkShape, NEW c \in Client, NEW x, NEW y, NEW z, NEW v,
         work' = [work EXCEPT ![c] = [step |-> x, lists |-> y, height |-> z,
                                      vote |-> work[c].vote, votes |-> v]]
  PROVE  Moves(c, x, y, z)
<1>1. \A d \in Client : d # c => work'[d] = work[d]
  BY DEF WorkShape, AreWorks
<1>2. work'[c] = [step |-> x, lists |-> y, height |-> z,
                  vote |-> work[c].vote, votes |-> v]
  BY DEF WorkShape, AreWorks
<1>3. Task(c)' = Holds(x, y, z) /\ Vote(c)' = Vote(c)
  BY <1>2 DEF Task, Held, Holds, Vote
<1> QED BY <1>1, <1>3 DEF Moves, Task, Held, Vote

\* Goes(c, x) sets the step.
LEMMA GoesMoves ==
  ASSUME WorkShape, NEW c \in Client, NEW x, Goes(c, x)
  PROVE  Moves(c, x, work[c].lists, work[c].height)
<1> DEFINE w == work[c]
<1>1. work' = [work EXCEPT ![c] = [w EXCEPT !.step = x]] /\ IsWork(w)
  BY DEF Goes, WorkShape, AreWorks
<1> HIDE DEF w
<1>2. [w EXCEPT !.step = x] =
        [step |-> x, lists |-> w.lists, height |-> w.height,
         vote |-> w.vote, votes |-> w.votes]
  BY <1>1, SetStep
<1>3. work' = [work EXCEPT ![c] = [step |-> x, lists |-> w.lists, height |-> w.height,
                                   vote |-> w.vote, votes |-> w.votes]]
  BY <1>1, <1>2
<1> QED BY <1>3, OneMoves DEF w

\* An executor packs, and so does the leader, in two steps and one that only
\* concerns its header.
LEMMA PacksMoves ==
  ASSUME WorkShape, NEW c \in Client
  PROVE  /\ ExecutorPacks(c) =>
              Moves(c, "packed", Books!ListsOf(pool', 0), height + 1)
         /\ LeaderPacks(c) =>
              Moves(c, "packing", Books!ListsOf(pool', 1), work[c].height)
         /\ LeaderReadsHeight(c) =>
              Moves(c, "packed", work[c].lists, height + 1)
         /\ PackAccount(c) =>
              Moves(c, "ready", work[c].lists, work[c].height)
<1> DEFINE w == work[c]
<1>1. IsWork(w)
  BY DEF WorkShape, AreWorks
<1>2. ASSUME ExecutorPacks(c)
      PROVE  Moves(c, "packed", Books!ListsOf(pool', 0), height + 1)
  <2> DEFINE x == "packed"
             y == Books!ListsOf(pool', 0)
             z == height + 1
  <2>1. work' = [work EXCEPT ![c] =
                   [w EXCEPT !.step = x, !.lists = y, !.height = z]]
    BY <1>2 DEF ExecutorPacks
  <2> HIDE DEF w, x, y, z
  <2>2. [w EXCEPT !.step = x, !.lists = y, !.height = z] =
          [step |-> x, lists |-> y, height |-> z,
           vote |-> w.vote, votes |-> w.votes]
    <3> DEFINE u == [step |-> x, lists |-> y, height |-> w.height,
                     vote |-> w.vote, votes |-> w.votes]
    <3>1. [w EXCEPT !.step = x, !.lists = y] = u
      BY <1>1, SetStepLists
    <3>2. [w EXCEPT !.step = x, !.lists = y, !.height = z] =
            [[w EXCEPT !.step = x, !.lists = y] EXCEPT !.height = z]
      OBVIOUS
    <3>3. [u EXCEPT !.height = z] = [step |-> x, lists |-> y, height |-> z,
                                     vote |-> w.vote, votes |-> w.votes]
      OBVIOUS
    <3> HIDE DEF u
    <3> QED BY <3>1, <3>2, <3>3
  <2>3. work' = [work EXCEPT ![c] = [step |-> x, lists |-> y, height |-> z,
                                     vote |-> w.vote, votes |-> w.votes]]
    BY <2>1, <2>2
  <2>4. Moves(c, x, y, z)
    BY <2>3, OneMoves DEF w
  <2> QED BY <2>4 DEF x, y, z
<1>3. ASSUME LeaderPacks(c)
      PROVE  Moves(c, "packing", Books!ListsOf(pool', 1), work[c].height)
  <2> DEFINE y == Books!ListsOf(pool', 1)
  <2>1. work' = [work EXCEPT ![c] = [w EXCEPT !.step = "packing", !.lists = y]]
    BY <1>3 DEF LeaderPacks
  <2> HIDE DEF w, y
  <2>2. [w EXCEPT !.step = "packing", !.lists = y] =
          [step |-> "packing", lists |-> y, height |-> w.height,
           vote |-> w.vote, votes |-> w.votes]
    BY <1>1, SetStepLists
  <2>3. work' = [work EXCEPT ![c] = [step |-> "packing", lists |-> y, height |-> w.height,
                                     vote |-> w.vote, votes |-> w.votes]]
    BY <2>1, <2>2
  <2>4. Moves(c, "packing", y, work[c].height)
    BY <2>3, OneMoves DEF w
  <2> QED BY <2>4 DEF y
<1>4. ASSUME LeaderReadsHeight(c)
      PROVE  Moves(c, "packed", work[c].lists, height + 1)
  <2> DEFINE z == height + 1
  <2>1. work' = [work EXCEPT ![c] = [w EXCEPT !.step = "packed", !.height = z]]
    BY <1>4 DEF LeaderReadsHeight
  <2> HIDE DEF w, z
  <2>2. [w EXCEPT !.step = "packed", !.height = z] =
          [step |-> "packed", lists |-> w.lists, height |-> z,
           vote |-> w.vote, votes |-> w.votes]
    BY <1>1, SetStepHeight
  <2>3. work' = [work EXCEPT ![c] = [step |-> "packed", lists |-> w.lists, height |-> z,
                                     vote |-> w.vote, votes |-> w.votes]]
    BY <2>1, <2>2
  <2>4. Moves(c, "packed", work[c].lists, z)
    BY <2>3, OneMoves DEF w
  <2> QED BY <2>4 DEF z
<1>5. ASSUME PackAccount(c)
      PROVE  Moves(c, "ready", work[c].lists, work[c].height)
  <2> DEFINE y == VotesAnswered
  <2>1. work' = [work EXCEPT ![c] = [w EXCEPT !.step = "ready", !.votes = y]]
    BY <1>5 DEF PackAccount
  <2> HIDE DEF w, y
  <2>2. [w EXCEPT !.step = "ready", !.votes = y] =
          [step |-> "ready", lists |-> w.lists, height |-> w.height,
           vote |-> w.vote, votes |-> y]
    BY <1>1, SetStepVotes
  <2>3. work' = [work EXCEPT ![c] = [step |-> "ready", lists |-> w.lists, height |-> w.height,
                                     vote |-> w.vote, votes |-> y]]
    BY <2>1, <2>2
  <2> QED BY <2>3, OneMoves DEF w
<1> QED BY <1>2, <1>3, <1>4, <1>5

\* The leader multicasts its block with one vote, its own, and the members that
\* are asked have not counted any.
LEMMA MultiCastMoves ==
  ASSUME WorkShape, NEW c \in Client, MultiCastBlock(c)
  PROVE  \A d \in Client :
           /\ d = c =>
                Task(d)' = Holds("proposed", work[d].lists, work[d].height) /\ Vote(d)' = 1
           /\ d # c /\ d \in Asked =>
                Task(d)' = Holds("asked", work[d].lists, work[d].height)
           /\ d # c /\ d \notin Asked => Task(d)' = Task(d)
           /\ d # c => Vote(d)' = Vote(d)
<1> TAKE d \in Client
<1> DEFINE w == work[d]
<1>1. IsWork(w)
  BY DEF WorkShape, AreWorks
<1>2. work'[d] = IF d = c THEN [w EXCEPT !.step = "proposed", !.vote = 1]
                 ELSE IF d \in Asked THEN [w EXCEPT !.step = "asked"] ELSE w
  BY DEF MultiCastBlock
<1>3. CASE d = c
  <2>1. work'[d] = [step |-> "proposed", lists |-> w.lists, height |-> w.height,
                    vote |-> 1, votes |-> w.votes]
    <3> HIDE DEF w
    <3> QED BY <1>1, <1>2, <1>3, SetStepVote
  <2> QED BY <1>3, <2>1 DEF Task, Held, Holds, Vote
<1>4. CASE d # c /\ d \in Asked
  <2>1. work'[d] = [step |-> "asked", lists |-> w.lists, height |-> w.height,
                    vote |-> w.vote, votes |-> w.votes]
    <3> HIDE DEF w
    <3> QED BY <1>1, <1>2, <1>4, SetStep
  <2> QED BY <1>4, <2>1 DEF Task, Held, Holds, Vote
<1>5. CASE d # c /\ d \notin Asked
  BY <1>2, <1>5 DEF Task, Held, Vote
<1> QED BY <1>3, <1>4, <1>5

\* A vote is the member's step and one more for the leader to count.
LEMMA VoteMoves ==
  ASSUME WorkShape, NEW c \in Client, SendVote(c), c # Winner
  PROVE  /\ Task(c)' = Holds("voted", work[c].lists, work[c].height)
         /\ \A d \in Client : d # c => Task(d)' = Task(d)
         /\ \A d \in Client :
              Vote(d)' = IF c \in Committee /\ d = Winner THEN Vote(d) + 1 ELSE Vote(d)
<1> DEFINE w == work[c]
           f == [work EXCEPT ![c] = [w EXCEPT !.step = "voted"]]
<1>1. IsWork(w) /\ \A d \in Client : IsWork(work[d])
  BY DEF WorkShape, AreWorks
<1>2. /\ f[c] = [step |-> "voted", lists |-> w.lists, height |-> w.height,
                 vote |-> w.vote, votes |-> w.votes]
      /\ \A d \in Client : d # c => f[d] = work[d]
  <2>1. f[c] = [w EXCEPT !.step = "voted"] /\ \A d \in Client : d # c => f[d] = work[d]
    BY DEF WorkShape, AreWorks
  <2> HIDE DEF w, f
  <2> QED BY <1>1, <2>1, SetStep
<1>3. work' = IF c \in Committee THEN [f EXCEPT ![Winner].vote = @ + 1] ELSE f
  <2>1. [work EXCEPT ![c].step = "voted"] = f
    OBVIOUS
  <2>2. [work EXCEPT ![c].step = "voted", ![Winner].vote = @ + 1] =
          [[work EXCEPT ![c].step = "voted"] EXCEPT ![Winner].vote = @ + 1]
    OBVIOUS
  <2>3. work' = IF c \in Committee
                  THEN [work EXCEPT ![c].step = "voted", ![Winner].vote = @ + 1]
                  ELSE [work EXCEPT ![c].step = "voted"]
    BY DEF SendVote
  <2> HIDE DEF f, w
  <2> QED BY <2>1, <2>2, <2>3
<1>4. DOMAIN f = Client
  BY DEF WorkShape, AreWorks
<1>5. \A d \in Client : IsWork(f[d])
  BY <1>1, <1>2 DEF IsWork
<1> HIDE DEF f
<1>6. ASSUME NEW d \in Client
      PROVE  /\ work'[d].step = f[d].step /\ work'[d].lists = f[d].lists
             /\ work'[d].height = f[d].height
             /\ c \in Committee /\ d = Winner => work'[d].vote = f[d].vote + 1
             /\ ~(c \in Committee /\ d = Winner) => work'[d].vote = f[d].vote
  <2> DEFINE u == f[d]
             v == f[d].vote + 1
  <2>1. IsWork(u)
    BY <1>5
  <2>2. CASE c \in Committee /\ d = Winner
    <3>1. work'[d] = [u EXCEPT !.vote = v]
      BY <1>3, <1>4, <2>2
    <3> HIDE DEF u, v
    <3>2. work'[d] = [step |-> u.step, lists |-> u.lists, height |-> u.height,
                      vote |-> v, votes |-> u.votes]
      BY <2>1, <3>1, SetVote
    <3>3. /\ work'[d].step = u.step /\ work'[d].lists = u.lists
          /\ work'[d].height = u.height /\ work'[d].vote = v
      BY <3>2
    <3> QED BY <2>2, <3>3 DEF u, v
  <2>3. CASE ~(c \in Committee /\ d = Winner)
    <3>1. work'[d] = u
      BY <1>3, <1>4, <2>3
    <3> QED BY <2>3, <3>1
  <2> QED BY <2>2, <2>3
<1>8. Task(c)' = Holds("voted", work[c].lists, work[c].height)
  BY <1>2, <1>6 DEF Task, Held, Holds
<1>9. \A d \in Client : d # c => Task(d)' = Task(d)
  BY <1>2, <1>6 DEF Task, Held
<1>10. \A d \in Client : f[d].vote = work[d].vote
  BY <1>2
<1>11. \A d \in Client :
         Vote(d)' = IF c \in Committee /\ d = Winner THEN Vote(d) + 1 ELSE Vote(d)
  BY <1>6, <1>10 DEF Vote
<1> QED BY <1>8, <1>9, <1>11

-----------------------------------------------------------------------------
(***************************************************************************)
(* What a client may be doing: by its seat, and in the committee by how    *)
(* far the leader is.  A leader has counted one vote and those of the      *)
(* members that have voted.                                                *)
(***************************************************************************)
Fits(c, step) ==
  /\ seat[c] = "none" => step = "idle"
  /\ seat[c] = "exec" => step \in {"idle", "packed", "witnessed", "validating"}
  /\ seat[c] = "nil" => step = "rooted"
  /\ seat[c] = "committee" /\ c = Winner =>
       step \in {"idle", "packing", "packed", "ready", "proposed"}
  /\ seat[c] = "committee" /\ c # Winner =>
       step \in {"idle", "asked", "voted", "uploaded"}

BySeat == \A c \in Client : Fits(c, Step(c))

Fresh == \A c \in Client : Step(c) = "idle" => Task(c) = Held(NoWork)

Members == Committee \ {Winner}
Voters  == {c \in Members : Step(c) = "voted"}

Ballot ==
  \A c \in Client : c = Winner =>
    /\ Step(c) = "proposed" =>
         /\ \A d \in Members : Step(d) \in {"asked", "voted"}
         /\ Vote(c) = 1 + Cardinality(Voters)
    /\ Step(c) # "proposed" => \A d \in Members : Step(d) = "idle"

Duties == BySeat /\ Fresh /\ Ballot

\* The step is part of the task.
LEMMA MovesSteps ==
  ASSUME NEW c \in Client, NEW x, NEW y, NEW z, Moves(c, x, y, z)
  PROVE  Step(c)' = x /\ \A d \in Client : d # c => Step(d)' = Step(d)
<1>1. \A d \in Client : Task(d).step = Step(d) /\ Task(d)'.step = Step(d)'
  BY DEF Task, Held, Step
<1> QED BY <1>1 DEF Moves, Holds

\* Who is not idle after a request has not become fresh by it.
LEMMA FreshStays ==
  ASSUME Fresh, \A d \in Client : Task(d)' = Task(d) \/ Step(d)' # "idle"
  PROVE  Fresh'
<1>1. \A d \in Client : Task(d).step = Step(d) /\ Task(d)'.step = Step(d)'
  BY DEF Task, Held, Step
<1>2. Held(NoWork)' = Held(NoWork)
  BY DEF Held, NoWork
<1> QED BY <1>1, <1>2 DEF Fresh

\* A committee that does nothing keeps its ballot.
LEMMA BallotStays ==
  ASSUME Ballot, Winner' = Winner, Committee' = Committee,
         \A d \in Client : d \in Committee \/ d = Winner =>
           Step(d)' = Step(d) /\ Vote(d)' = Vote(d)
  PROVE  Ballot'
<1>1. Members' = Members /\ Members \subseteq Client
  BY DEF Members, Committee
<1>2. \A d \in Members : Step(d)' = Step(d)
  BY <1>1 DEF Members
<1>3. Voters' = Voters
  BY <1>1, <1>2 DEF Voters
<1> QED BY <1>1, <1>2, <1>3 DEF Ballot

\* One that starts or goes on before the block goes round has no votes yet.
LEMMA MovesDuties ==
  ASSUME HandOver, Duties, NEW c \in Client, NEW x, NEW y, NEW z, Moves(c, x, y, z),
         UNCHANGED vars, x # "idle", Fits(c, x),
         seat[c] = "committee" => c = Winner /\ x # "proposed" /\ Step(c) # "proposed"
  PROVE  Duties'
<1>1. UNCHANGED <<round, client, seat, Winner>> /\ Committee' = Committee
  BY DEF vars, groups, Committee
<1>2. /\ Step(c)' = x /\ \A d \in Client : d # c => Step(d)' = Step(d)
      /\ \A d \in Client : d # c => Task(d)' = Task(d)
      /\ \A d \in Client : Vote(d)' = Vote(d)
  BY MovesSteps DEF Moves
<1>3. BySeat'
  BY <1>1, <1>2 DEF Duties, BySeat, Fits
<1>4. Fresh'
  BY <1>2, FreshStays DEF Duties
<1>5. Ballot'
  <2>1. CASE c \notin Committee
    <3>1. c # Winner
      <4>1. Winner # None => Winner \in Committee
        BY DEF HandOver, Seating, OneSeatPerShard
      <4> QED BY <2>1, <4>1, MembershipAssumption DEF MembershipAssumption
    <3> QED BY <1>1, <1>2, <2>1, <3>1, BallotStays DEF Duties
  <2>2. CASE c \in Committee
    <3>1. c = Winner /\ x # "proposed" /\ Step(c) # "proposed"
      BY <2>2 DEF Committee
    <3>2. Members' = Members /\ \A d \in Members : d \in Client /\ d # c
      BY <1>1, <3>1 DEF Members, Committee
    <3> QED BY <1>1, <1>2, <3>1, <3>2 DEF Duties, Ballot
  <2> QED BY <2>1, <2>2
<1> QED BY <1>3, <1>4, <1>5 DEF Duties

\* Only the leader reads the height, since only it packs.
LEMMA LeaderReads ==
  ASSUME HandOver, Duties, NEW c \in Client, Step(c) = "packing"
  PROVE  c = Winner
<1>1. seat[c] \in Seats /\ Fits(c, "packing")
  BY DEF HandOver, Seating, TypeOK, Duties, BySeat
<1> QED BY <1>1 DEF Fits, Seats

\* So do all requests that one client makes without Membership's knowledge, but
\* for the committee's votes.
LEMMA RequestDuties ==
  ASSUME HandOver, Working, Duties, NEW c \in Client,
         \/ ExecutorPacks(c) \/ WitnessTx(c) \/ PackValidTx(c)
         \/ LeaderPacks(c) \/ LeaderReadsHeight(c) \/ PackAccount(c)
  PROVE  Duties'
<1>1. UNCHANGED vars
  BY ExecutorWorks, LeaderWorks
<1>2. WorkShape /\ Fits(c, Step(c))
  BY DEF Working, Duties, BySeat
<1>3. Winner = c => seat[c] = "committee"
  BY LeaderSits, MembershipAssumption DEF MembershipAssumption
<1>4. CASE ExecutorPacks(c)
  <2>1. Moves(c, "packed", Books!ListsOf(pool', 0), height + 1) /\ seat[c] = "exec"
    BY <1>2, <1>4, PacksMoves DEF ExecutorPacks
  <2>2. Fits(c, "packed")
    BY <2>1 DEF Fits
  <2> QED BY <1>1, <2>1, <2>2, MovesDuties
<1>5. CASE WitnessTx(c)
  <2>1. Moves(c, "witnessed", work[c].lists, work[c].height) /\ seat[c] = "exec"
    BY <1>2, <1>5, GoesMoves DEF WitnessTx
  <2>2. Fits(c, "witnessed")
    BY <2>1 DEF Fits
  <2> QED BY <1>1, <2>1, <2>2, MovesDuties
<1>6. CASE PackValidTx(c)
  <2>1. Moves(c, "validating", work[c].lists, work[c].height)
    BY <1>2, <1>6, GoesMoves DEF PackValidTx
  <2>2. seat[c] = "exec"
    BY <1>6 DEF PackValidTx, At, Working, WorkingAsSeated, MayDo, Step
  <2>3. Fits(c, "validating")
    BY <2>2 DEF Fits
  <2> QED BY <1>1, <2>1, <2>2, <2>3, MovesDuties
<1>7. CASE LeaderPacks(c)
  <2>1. /\ Moves(c, "packing", Books!ListsOf(pool', 1), work[c].height)
        /\ Winner = c /\ Step(c) = "idle"
    BY <1>2, <1>7, PacksMoves DEF LeaderPacks, At, Step
  <2>2. Fits(c, "packing")
    BY <1>3, <2>1 DEF Fits
  <2> QED BY <1>1, <2>1, <2>2, MovesDuties
<1>8. CASE LeaderReadsHeight(c)
  <2>1. /\ Moves(c, "packed", work[c].lists, height + 1) /\ Step(c) = "packing"
    BY <1>2, <1>8, PacksMoves DEF LeaderReadsHeight, Step
  <2>2. Winner = c
    BY <2>1, LeaderReads
  <2>3. Fits(c, "packed")
    BY <1>3, <2>2 DEF Fits
  <2> QED BY <1>1, <2>1, <2>2, <2>3, MovesDuties
<1>9. CASE PackAccount(c)
  <2>1. /\ Moves(c, "ready", work[c].lists, work[c].height)
        /\ Winner = c /\ Step(c) = "packed"
    BY <1>2, <1>9, PacksMoves DEF PackAccount, At, Step
  <2>2. Fits(c, "ready")
    BY <1>3, <2>1 DEF Fits
  <2> QED BY <1>1, <2>1, <2>2, MovesDuties
<1> QED BY <1>4, <1>5, <1>6, <1>7, <1>8, <1>9

\* The block goes round: every member is asked, and no vote but the leader's is
\* counted.
LEMMA MultiCastDuties ==
  ASSUME HandOver, Working, Duties, NEW c \in Client, MultiCastBlock(c)
  PROVE  Duties'
<1>1. /\ UNCHANGED <<round, client, seat, Winner>> /\ Committee' = Committee
      /\ Winner = c /\ Winner # None /\ Step(c) = "ready"
  BY MembershipAssumption
  DEF MultiCastBlock, vars, groups, Committee, At, Step, MembershipAssumption
<1>2. /\ \A d \in Client : Step(d)' = IF d = c THEN "proposed"
                                      ELSE IF d \in Asked THEN "asked" ELSE Step(d)
      /\ Vote(c)' = 1
      /\ \A d \in Client : d # c /\ d \notin Asked => Task(d)' = Task(d)
  BY MultiCastWorks, MultiCastMoves DEF Working
<1>3. Members' = Members /\ \A d \in Members : d \in Client /\ d # c
  BY <1>1 DEF Members, Committee
<1>4. Asked = Members
  BY <1>1, <1>3 DEF Asked, Members, Duties, Ballot, Step
<1>5. BySeat'
  <2> SUFFICES ASSUME NEW d \in Client PROVE Fits(d, Step(d))'
    BY DEF BySeat
  <2>1. Fits(d, Step(d)) /\ seat[c] = "committee"
    BY <1>1, LeaderSits DEF Duties, BySeat
  <2>2. d \in Asked => seat[d] = "committee" /\ d # Winner
    BY DEF Asked, Committee
  <2>3. CASE d = c
    BY <1>1, <1>2, <2>1, <2>3 DEF Fits
  <2>4. CASE d # c /\ d \in Asked
    BY <1>1, <1>2, <2>2, <2>4 DEF Fits
  <2>5. CASE d # c /\ d \notin Asked
    BY <1>1, <1>2, <2>1, <2>5 DEF Fits
  <2> QED BY <2>3, <2>4, <2>5
<1>6. Fresh'
  <2>1. \A d \in Client : Task(d)' = Task(d) \/ Step(d)' # "idle"
    BY <1>2
  <2> QED BY <2>1, FreshStays DEF Duties
<1>7. Ballot'
  <2>1. \A d \in Members : Step(d)' = "asked"
    BY <1>2, <1>3, <1>4
  <2>2. Voters' = {}
    BY <1>3, <2>1 DEF Voters
  <2>3. Vote(c)' = 1 + Cardinality({})
    BY <1>2, FS_EmptySet
  <2>4. Step(c)' = "proposed"
    BY <1>2
  <2> QED BY <1>1, <1>3, <2>1, <2>2, <2>3, <2>4 DEF Ballot
<1> QED BY <1>5, <1>6, <1>7 DEF Duties

\* A vote is counted if the round is still open, and else changes nothing.
LEMMA VoteDuties ==
  ASSUME HandOver, Working, Duties, NEW c \in Client, SendVote(c)
  PROVE  Duties'
<1>1. /\ UNCHANGED <<round, client, seat, Winner>> /\ Committee' = Committee
      /\ Step(c) = "asked"
  BY DEF SendVote, vars, groups, Committee, At, Step
<1>2. seat[c] = "committee" /\ c # Winner
  <2>1. seat[c] \in Seats /\ Fits(c, "asked")
    BY <1>1 DEF HandOver, Seating, TypeOK, Duties, BySeat
  <2> QED BY <2>1 DEF Fits, Seats
<1>3. /\ \A d \in Client : Step(d)' = IF d = c THEN "voted" ELSE Step(d)
      /\ \A d \in Client : d # c => Task(d)' = Task(d)
      /\ \A d \in Client :
           Vote(d)' = IF c \in Committee /\ d = Winner THEN Vote(d) + 1 ELSE Vote(d)
  BY <1>2, VoteWorks, VoteMoves DEF Working
<1>4. BySeat'
  BY <1>1, <1>2, <1>3 DEF Duties, BySeat, Fits
<1>5. Fresh'
  <2>1. \A d \in Client : Task(d)' = Task(d) \/ Step(d)' # "idle"
    BY <1>3
  <2> QED BY <2>1, FreshStays DEF Duties
<1>6. Members' = Members /\ \A d \in Members : d \in Client
  BY <1>1 DEF Members, Committee
<1>7. Ballot'
  <2>1. CASE c \notin Committee
    <3>1. Winner \in Client => Winner # c
      BY <1>2
    <3> QED BY <1>1, <1>2, <1>3, <2>1, BallotStays DEF Duties
  <2>2. CASE c \in Committee
    <3> SUFFICES ASSUME NEW w \in Client, w = Winner
                 PROVE  /\ Step(w)' = "proposed"
                        /\ \A d \in Members : Step(d)' \in {"asked", "voted"}
                        /\ Vote(w)' = 1 + Cardinality(Voters')
      BY <1>1, <1>6 DEF Ballot
    <3>1. c \in Members /\ w # c
      BY <1>2, <2>2 DEF Members
    <3>2. Step(w) = "proposed"
      BY <1>1, <3>1 DEF Duties, Ballot
    <3>3. /\ \A d \in Members : Step(d) \in {"asked", "voted"}
          /\ Vote(w) = 1 + Cardinality(Voters)
      BY <3>2 DEF Duties, Ballot
    <3>4. Voters' = Voters \cup {c} /\ c \notin Voters
      BY <1>1, <1>3, <1>6, <3>1 DEF Voters
    <3>5. IsFiniteSet(Voters)
      <4>1. Voters \subseteq Client
        BY <1>6 DEF Voters
      <4> QED BY <4>1, FS_Subset, MembershipAssumption DEF MembershipAssumption
    <3>6. Cardinality(Voters') = Cardinality(Voters) + 1
      BY <3>4, <3>5, FS_AddElement
    <3>7. Cardinality(Voters) \in Nat
      BY <3>5, FS_CardinalityType
    <3>8. Vote(w)' = Vote(w) + 1
      BY <1>3, <2>2
    <3> QED BY <1>3, <1>6, <3>1, <3>2, <3>3, <3>6, <3>7, <3>8
  <2> QED BY <2>1, <2>2
<1> QED BY <1>4, <1>5, <1>7 DEF Duties

\* Nobody of the open round has done anything when a client joins, and whoever
\* is elected with it is one of them.
LEMMA RegisterDuties ==
  ASSUME HandOver, Working, Duties, NEW s \in Shards, RegisterInStep(s), work' = work
  PROVE  /\ Duties' /\ Winner = None
         /\ \A d \in Client : Step(d) # "idle" =>
              seat'[d] = seat[d] /\ client'[d].round < round' /\ client'[d] = client[d]
<1>1. PICK x \in Randoms : RegisterCommunication(s, x)
  BY DEF RegisterInStep
<1>2. Winner = None
  BY <1>1, RegisterSeating DEF HandOver
<1>3. /\ FreshId \in Client /\ seat[FreshId] = "none"
      /\ round' = round /\ client'[FreshId].round = round
      /\ \A d \in Client : d # FreshId => client'[d] = client[d]
      /\ \A d \in Client : d # FreshId /\ client[d].round # round => seat'[d] = seat[d]
      /\ \A d \in Client : seat'[d] = seat[d] \/ seat'[d] \in {"exec", "committee"}
  BY <1>1, JoinKeepsOthers DEF HandOver, Seating
<1>4. round \in Nat /\ HandOver'
  BY RegisterHandOver DEF HandOver, Seating, TypeOK
<1>5. ASSUME NEW d \in Client, Step(d) # "idle"
      PROVE  seat'[d] = seat[d] /\ client'[d].round < round' /\ client'[d] = client[d]
  <2>1. seat[d] # "none" /\ client[d].round < round
    BY <1>2, <1>5 DEF Working, WorkingAsSeated, MayDo, Notified
  <2>2. client[d].round \in Nat
    BY DEF HandOver, Seating, TypeOK
  <2> QED BY <1>3, <1>4, <2>1, <2>2
<1>6. \A d \in Client : d = Winner' \/ d \in Committee' => Step(d) = "idle"
  <2>1. \A d \in Client : d = Winner' \/ d \in Committee' => client'[d].round = round'
    <3>1. Winner' # None => Winner' \in Committee'
      BY <1>4 DEF HandOver, Seating, OneSeatPerShard
    <3> QED BY <3>1, MembershipAssumption DEF Committee, MembershipAssumption
  <2> QED BY <1>3, <1>4, <1>5, <2>1
<1>7. BySeat'
  <2> SUFFICES ASSUME NEW d \in Client PROVE Fits(d, Step(d))'
    BY DEF BySeat
  <2>1. Fits(d, Step(d)) /\ Step(d)' = Step(d)
    BY DEF Duties, BySeat, Step
  <2>2. CASE Step(d) # "idle"
    <3>1. d # Winner' /\ d # Winner
      BY <1>2, <1>6, <2>2, MembershipAssumption DEF MembershipAssumption
    <3> QED BY <1>5, <2>1, <2>2, <3>1 DEF Fits
  <2>3. CASE Step(d) = "idle"
    BY <1>3, <2>1, <2>3 DEF Fits
  <2> QED BY <2>2, <2>3
<1>8. Fresh'
  <2>1. \A d \in Client : Task(d)' = Task(d)
    BY DEF Task, Held
  <2> QED BY <2>1, FreshStays DEF Duties
<1>9. Ballot'
  <2>1. \A d \in Members' : d \in Client /\ Step(d)' = "idle"
    BY <1>6 DEF Members, Committee, Step
  <2>2. \A d \in Client : d = Winner' => Step(d)' = "idle"
    BY <1>6 DEF Step
  <2> QED BY <2>1, <2>2 DEF Ballot
<1> QED BY <1>2, <1>5, <1>7, <1>8, <1>9 DEF Duties

\* With its block uploaded the leader is none any more.
LEMMA BlockDuties ==
  ASSUME HandOver, Working, Duties, NEW c \in Client, UploadBlock(c)
  PROVE  Duties'
<1>1. /\ Winner' = None /\ UNCHANGED <<client, seat>> /\ Winner = c /\ Winner # None
      /\ Moves(c, "uploaded", work[c].lists, work[c].height)
  BY GoesMoves, MembershipAssumption
  DEF UploadBlock, TakesBlock, AppendBlock, Working, MembershipAssumption
<1>2. /\ Step(c)' = "uploaded" /\ \A d \in Client : d # c => Step(d)' = Step(d)
      /\ \A d \in Client : d # c => Task(d)' = Task(d)
  BY <1>1, MovesSteps DEF Moves
<1>3. BySeat'
  <2>1. seat[c] = "committee" /\ \A d \in Client : d # Winner'
    BY <1>1, LeaderSits, MembershipAssumption DEF MembershipAssumption
  <2> QED BY <1>1, <1>2, <2>1 DEF Duties, BySeat, Fits
<1>4. Fresh'
  BY <1>2, FreshStays DEF Duties
<1>5. Ballot'
  BY <1>1, MembershipAssumption DEF Ballot, MembershipAssumption
<1> QED BY <1>3, <1>4, <1>5 DEF Duties

\* A root is its executor's last request.
LEMMA RootDuties ==
  ASSUME HandOver, Working, Duties, NEW c \in Client, NEW root \in Root,
         UploadRoot(c, root)
  PROVE  Duties'
<1>1. c \in OwedRoots /\ CollectRoot(c, root) /\ seat[c] = "exec"
  BY RootWorks, OwedIsHeld DEF UploadRoot, TakesRoot, OwedRoots
<1>2. /\ \A d \in Client : seat'[d] = IF d = c THEN "nil" ELSE seat[d]
      /\ UNCHANGED <<round, client, Winner>>
  BY <1>1 DEF CollectRoot, HandOver, Seating, TypeOK
<1>3. Moves(c, "rooted", work[c].lists, work[c].height)
  BY GoesMoves DEF UploadRoot, Working
<1>4. /\ Step(c)' = "rooted" /\ \A d \in Client : d # c => Step(d)' = Step(d)
      /\ \A d \in Client : d # c => Task(d)' = Task(d)
      /\ \A d \in Client : Vote(d)' = Vote(d)
  BY <1>3, MovesSteps DEF Moves
<1>5. c # Winner
  BY <1>1, LeaderSits, MembershipAssumption DEF MembershipAssumption
<1>6. BySeat'
  BY <1>1, <1>2, <1>4, <1>5 DEF Duties, BySeat, Fits
<1>7. Fresh'
  BY <1>4, FreshStays DEF Duties
<1>8. Ballot'
  <2>1. Committee' = Committee /\ c \notin Committee
    BY <1>1, <1>2 DEF Committee
  <2> QED BY <1>2, <1>4, <1>5, <2>1, BallotStays DEF Duties
<1> QED BY <1>6, <1>7, <1>8 DEF Duties

\* Every step keeps the duties.
LEMMA StepDuties ==
  ASSUME HandOver, Working, Duties, [HorizonNext]_serverVars
  PROVE  Duties'
<1>1. CASE OnlyJoins(AssignShardNum) \/ UNCHANGED serverVars
  <2>1. UNCHANGED <<round, client, seat, Winner, work>>
    BY <1>1 DEF OnlyJoins, AssignShardNum, groups, serverVars, vars
  <2>2. Committee' = Committee
    BY <2>1 DEF Committee
  <2>3. \A d \in Client : Step(d)' = Step(d) /\ Task(d)' = Task(d) /\ Vote(d)' = Vote(d)
    BY <2>1 DEF Step, Task, Held, Vote
  <2>4. BySeat'
    BY <2>1, <2>3 DEF Duties, BySeat, Fits
  <2> QED BY <2>1, <2>2, <2>3, <2>4, FreshStays, BallotStays DEF Duties
<1>2. ASSUME NEW s \in Shards, OnlyJoins(RegisterInStep(s)) PROVE Duties'
  BY <1>2, RegisterDuties DEF OnlyJoins
<1>3. ASSUME NEW c \in Client, ClientSteps(c) PROVE Duties'
  <2>1. CASE \/ ExecutorPacks(c) \/ WitnessTx(c) \/ PackValidTx(c)
             \/ LeaderPacks(c) \/ LeaderReadsHeight(c) \/ PackAccount(c)
    BY <2>1, RequestDuties
  <2>2. CASE MultiCastBlock(c)
    BY <2>2, MultiCastDuties
  <2>3. CASE SendVote(c)
    BY <2>3, VoteDuties
  <2>4. CASE UploadBlock(c)
    BY <2>4, BlockDuties
  <2>5. ASSUME NEW root \in Root, UploadRoot(c, root) PROVE Duties'
    BY <2>5, RootDuties
  <2> QED BY <1>3, <2>1, <2>2, <2>3, <2>4, <2>5
          DEF ClientSteps, LeaderSteps, ExecutorSteps
<1> QED BY <1>1, <1>2, <1>3 DEF HorizonNext, JoinsInStep

\* At the start nobody has done anything.
LEMMA InitDuties == HorizonInit => Duties /\ GroupsFull
<1> SUFFICES ASSUME HorizonInit PROVE Duties /\ GroupsFull
  OBVIOUS
<1>1. Init /\ \A c \in Client : work[c] = NoWork
  BY DEF HorizonInit
<1>2. \A c \in Client : Step(c) = "idle" /\ Task(c) = Held(NoWork) /\ seat[c] = "none"
  BY <1>1 DEF Step, Task, NoWork, Init
<1>3. \A c \in Client : c # Winner
  BY <1>1, MembershipAssumption DEF Init, MembershipAssumption
<1>4. GroupsFull
  BY <1>1 DEF Init, GroupsFull
<1> QED BY <1>2, <1>3, <1>4 DEF Duties, BySeat, Fits, Fresh, Ballot

\* The uploader of a block that all its members have voted for has the votes of
\* the whole committee, one of every shard.
LEMMA BlockHasVotes ==
  ASSUME HandOver, Duties, Winner # None, Step(Winner) = "proposed",
         \A d \in Committee : Step(d) # "asked"
  PROVE  Vote(Winner) = ShardNum
<1>1. Winner \in Committee /\ Committee \subseteq Client /\ IsFiniteSet(Committee)
  <2>1. Committee \subseteq Client
    BY DEF Committee
  <2>2. IsFiniteSet(Committee)
    BY <2>1, FS_Subset, MembershipAssumption DEF MembershipAssumption
  <2> QED BY <2>1, <2>2 DEF HandOver, Seating, OneSeatPerShard
<1>2. /\ \A d \in Members : Step(d) \in {"asked", "voted"}
      /\ Vote(Winner) = 1 + Cardinality(Voters)
  BY <1>1 DEF Duties, Ballot
<1>3. Voters = Members
  BY <1>2 DEF Voters, Members
<1>4. Cardinality(Members) = Cardinality(Committee) - 1 /\ Cardinality(Committee) \in Nat
  BY <1>1, FS_RemoveElement, FS_CardinalityType DEF Members
<1>5. Cardinality(Committee) = ShardNum
  <2> DEFINE f == [d \in Committee |-> client[d].shard]
  <2>1. IsFiniteSet(Shards) /\ Cardinality(Shards) = ShardNum
    BY FS_Interval, MembershipAssumption DEF Shards, MembershipAssumption
  <2>2. f \in [Committee -> Shards]
    BY <1>1 DEF Committee, HandOver, Seating, RegisteredPast
  <2>3. \A c, d \in Committee : f[c] = f[d] => c = d
    BY DEF HandOver, Seating, OneSeatPerShard
  <2>4. \A s \in Shards : \E c \in Committee : f[c] = s
    BY DEF HandOver, Seating, OneSeatPerShard
  <2> HIDE DEF f
  <2>5. f \in Injection(Committee, Shards) /\ f \in Surjection(Committee, Shards)
    BY <2>2, <2>3, <2>4 DEF Injection, Surjection, IsInjective
  <2> QED BY <2>1, <2>5, FS_Injection
<1> QED BY <1>2, <1>3, <1>4, <1>5

-----------------------------------------------------------------------------
(***************************************************************************)
(* The seats of the pipeline.  SetToSeq numbers the executors of a full    *)
(* group; before its leader is elected nobody of a group has done anything, *)
(* so that it does not matter who sits where.                              *)
(***************************************************************************)
Group(s, r)    == SetToSeq(Entries(s, r))
Occupant(r, e) == Group(e[1], r)[e[2]]

\* SetToSeq numbers the elements of a finite set.
LEMMA SeqOfSet ==
  ASSUME NEW S, IsFiniteSet(S)
  PROVE  /\ DOMAIN SetToSeq(S) = 1 .. Cardinality(S)
         /\ \A i \in 1 .. Cardinality(S) : SetToSeq(S)[i] \in S
         /\ \A i, j \in 1 .. Cardinality(S) : SetToSeq(S)[i] = SetToSeq(S)[j] => i = j
         /\ \A x \in S : \E i \in 1 .. Cardinality(S) : SetToSeq(S)[i] = x
<1> DEFINE D == 1 .. Cardinality(S)
           f == SetToSeq(S)
<1>1. PICK g : g \in Bijection(D, S)
  BY FS_CardinalityType DEF ExistsBijection
<1>2. g \in [D -> S] /\ IsInjective(g)
  BY <1>1 DEF Bijection, Injection
<1>3. f \in [D -> S] /\ IsInjective(f)
  <2>1. f = CHOOSE h \in [D -> S] : IsInjective(h)
    BY DEF SetToSeq
  <2> HIDE DEF f
  <2> QED BY <1>2, <2>1
<1>4. IsFiniteSet(D) /\ Cardinality(D) = Cardinality(S)
  <2>1. Cardinality(S) \in Nat
    BY FS_CardinalityType
  <2> QED BY <2>1, FS_Interval
<1> HIDE DEF D, f
<1>5. f \in Surjection(D, S)
  BY <1>3, <1>4, FS_Injection DEF Injection
<1>6. DOMAIN f = D /\ \A i \in D : f[i] \in S
  BY <1>3
<1>7. \A i, j \in D : f[i] = f[j] => i = j
  BY <1>3, <1>6 DEF IsInjective
<1>8. \A x \in S : \E i \in D : f[i] = x
  BY <1>5 DEF Surjection
<1> QED BY <1>6, <1>7, <1>8 DEF D, f

\* The executors of a shard and round are clients of theirs, finitely many.
LEMMA EntriesFinite ==
  ASSUME NEW s, NEW r
  PROVE  IsFiniteSet(Entries(s, r)) /\ Entries(s, r) \subseteq Client
BY ClientSets DEF Entries, Registered

\* The bound of the pipeline's rounds.
LEMMA RoundsBound ==
  /\ Rounds = 1 .. Cardinality(Rounds)
  /\ Cardinality(Rounds) \in Nat
  /\ Rounds \subseteq Nat \ {0}
<1> DEFINE n == Cardinality(Client) \div (ShardNum * CLIENT_MAX)
<1>1. n \in Nat
  <2>1. Cardinality(Client) \in Nat
    BY FS_CardinalityType, MembershipAssumption DEF MembershipAssumption
  <2>2. ShardNum * CLIENT_MAX \in Nat \ {0}
    BY MembershipAssumption DEF MembershipAssumption
  <2> QED BY <2>1, <2>2
<1>2. Rounds = 1 .. n
  BY DEF Rounds
<1> HIDE DEF n
<1> QED BY <1>1, <1>2, FS_Interval

\* Every seat of a group that is served has one occupant, an executor of its
\* shard, and every executor has a seat.
LEMMA SeatsOccupied ==
  ASSUME HandOver, GroupsFull, NEW r \in Nat \ {0}, Served(r)
  PROVE  /\ r \in Rounds
         /\ \A e \in Seat : /\ e[2] \in DOMAIN Group(e[1], r)
                            /\ Occupant(r, e) \in Entries(e[1], r)
         /\ \A s \in Shards : \A c \in Entries(s, r) : \E e \in Seat :
              e[1] = s /\ Occupant(r, e) = c
<1>1. r \in Rounds /\ \A s \in Shards : FullGroup(s, r)
  BY ServedIsFull DEF HandOver
<1>2. \A s \in Shards :
        /\ DOMAIN Group(s, r) = 1 .. CLIENT_MAX - 1
        /\ \A i \in 1 .. CLIENT_MAX - 1 : Group(s, r)[i] \in Entries(s, r)
        /\ \A c \in Entries(s, r) : \E i \in 1 .. CLIENT_MAX - 1 : Group(s, r)[i] = c
  BY <1>1, EntriesFinite, SeqOfSet DEF FullGroup, Group
<1>3. \A e \in Seat : e[1] \in Shards /\ e[2] \in 1 .. CLIENT_MAX - 1
  BY DEF Seat
<1>4. \A s \in Shards, i \in 1 .. CLIENT_MAX - 1 :
        <<s, i>> \in Seat /\ <<s, i>>[1] = s /\ <<s, i>>[2] = i
  BY DEF Seat
<1>5. \A e \in Seat : /\ e[2] \in DOMAIN Group(e[1], r)
                      /\ Occupant(r, e) \in Entries(e[1], r)
  BY <1>2, <1>3 DEF Occupant
<1>6. ASSUME NEW s \in Shards, NEW c \in Entries(s, r)
      PROVE  \E e \in Seat : e[1] = s /\ Occupant(r, e) = c
  <2>1. PICK i \in 1 .. CLIENT_MAX - 1 : Group(s, r)[i] = c
    BY <1>2
  <2>2. PICK e : e = <<s, i>>
    OBVIOUS
  <2>3. e \in Seat /\ e[1] = s /\ e[2] = i
    BY <1>4, <2>2
  <2>4. Occupant(r, e) = c
    BY <2>1, <2>3 DEF Occupant
  <2> QED BY <2>3, <2>4
<1> QED BY <1>1, <1>5, <1>6

\* Two seats have two occupants.
LEMMA SeatsDiffer ==
  ASSUME HandOver, GroupsFull,
         NEW q \in Nat \ {0}, NEW r \in Nat \ {0}, Served(q), Served(r),
         NEW d \in Seat, NEW e \in Seat, Occupant(q, d) = Occupant(r, e)
  PROVE  q = r /\ d = e
<1>1. /\ Occupant(q, d) \in Entries(d[1], q) /\ Occupant(r, e) \in Entries(e[1], r)
  BY SeatsOccupied
<1>2. q = r /\ d[1] = e[1]
  BY <1>1 DEF Entries, Registered
<1>3. FullGroup(e[1], r)
  BY ServedIsFull DEF HandOver, Seat
<1>4. d[2] = e[2]
  <2>1. d[2] \in 1 .. CLIENT_MAX - 1 /\ e[2] \in 1 .. CLIENT_MAX - 1
    BY DEF Seat
  <2>2. Group(e[1], r)[d[2]] = Group(e[1], r)[e[2]]
    BY <1>2 DEF Occupant
  <2> QED BY <1>3, <2>1, <2>2, EntriesFinite, SeqOfSet DEF FullGroup, Group
<1>5. d = e
  BY <1>2, <1>4 DEF Seat
<1> QED BY <1>2, <1>5

\* What the pipeline sees of a seat, and of the leader.
Shown(r, e) == IF Served(r) THEN Task(Occupant(r, e)) ELSE Held(NoWork)

LeaderStep(step) == IF step \in {"idle", "packing"} THEN step ELSE "packed"

ShownLeader(w) == Holds(LeaderStep(w.step), w.lists, w.height)

Watched ==
  /\ ExecOf = [r \in Rounds |-> [e \in Seat |-> Shown(r, e)]]
  /\ Winner = None => LeaderOf = Held(NoWork)
  /\ \A c \in Client : c = Winner => LeaderOf = ShownLeader(Task(c))

\* ExecOf and LeaderOf show just that.
LEMMA WhatIsSeen == HandOver /\ Working /\ GroupsFull /\ Duties => Watched
<1> SUFFICES ASSUME HandOver, Working, GroupsFull, Duties PROVE Watched
  OBVIOUS
<1>1. ASSUME NEW r \in Rounds, NEW e \in Seat
      PROVE  Held(ExecutorAt(r, e)) = Shown(r, e)
  <2>1. r \in Nat \ {0} /\ round \in Nat
    BY RoundsBound DEF HandOver, Seating, TypeOK
  <2>2. ExecutorAt(r, e) =
          IF e[2] \in DOMAIN Group(e[1], r) THEN work[Occupant(r, e)] ELSE NoWork
    BY DEF ExecutorAt, Group, Occupant
  <2>3. CASE Served(r)
    BY <2>1, <2>2, <2>3, SeatsOccupied DEF Shown, Task
  <2>4. CASE ~Served(r)
    <3>1. \A c \in Entries(e[1], r) : Task(c) = Held(NoWork)
      <4> TAKE c \in Entries(e[1], r)
      <4>1. c \in Client /\ client[c].round = r /\ r <= round
        BY DEF Entries, Registered, HandOver, Seating, RegisteredPast
      <4>2. ~Notified(c)
        BY <2>1, <2>4, <4>1 DEF Served, Notified
      <4>3. Step(c) = "idle"
        BY <4>1, <4>2 DEF Working, WorkingAsSeated, MayDo
      <4> QED BY <4>1, <4>3 DEF Duties, Fresh
    <3>2. CASE e[2] \in DOMAIN Group(e[1], r)
      <4>1. Occupant(r, e) \in Entries(e[1], r)
        BY <3>2, EntriesFinite, SeqOfSet DEF Group, Occupant
      <4> QED BY <2>2, <2>4, <3>1, <3>2, <4>1 DEF Shown, Task
    <3> QED BY <2>2, <2>4, <3>2 DEF Shown
  <2> QED BY <2>3, <2>4
<1>2. ExecOf = [r \in Rounds |-> [e \in Seat |-> Shown(r, e)]]
  BY <1>1 DEF ExecOf
<1>3. Winner = None => LeaderOf = Held(NoWork)
  BY DEF LeaderOf
<1>4. ASSUME NEW c \in Client, c = Winner PROVE LeaderOf = ShownLeader(Task(c))
  <2> DEFINE w == work[c]
  <2>1. Winner # None
    BY <1>4, MembershipAssumption DEF MembershipAssumption
  <2>2. LeaderOf = [Held(w) EXCEPT !.step =
                      IF @ \in {"idle", "packing"} THEN @ ELSE "packed"]
    BY <1>4, <2>1 DEF LeaderOf
  <2>3. Task(c) = Held(w)
    BY DEF Task
  <2> HIDE DEF w
  <2>4. [Held(w) EXCEPT !.step = IF @ \in {"idle", "packing"} THEN @ ELSE "packed"] =
          Holds(LeaderStep(Held(w).step), Held(w).lists, Held(w).height)
    BY DEF Held, Holds, LeaderStep
  <2> QED BY <2>2, <2>3, <2>4 DEF ShownLeader
<1> QED BY <1>2, <1>3, <1>4 DEF Watched

-----------------------------------------------------------------------------
(***************************************************************************)
(* Every step of the server is one of the pipeline.  Serving is the        *)
(* inductive invariant, under which ExecOf and LeaderOf show the tasks of  *)
(* those who sit in the pipeline's seats.                                  *)
(***************************************************************************)
Serving == HandOver /\ Working /\ GroupsFull /\ Duties

\* So they show in the next state.
LEMMA WhatIsSeenNext == (HandOver /\ Working /\ GroupsFull /\ Duties => Watched)'
BY WhatIsSeen, PTL

\* A step of the server keeps it all.
LEMMA StepServing ==
  ASSUME Serving, [HorizonNext]_serverVars
  PROVE  Serving' /\ [InStepNext]_vars /\ Watched /\ Watched'
<1>1. [InStepNext]_vars /\ HandOver' /\ Working'
  BY ServerSteps DEF Serving
<1>2. GroupsFull'
  <2>1. [Next]_vars
    BY <1>1, InStepIsNext
  <2> QED BY <2>1, StepGroupsFull DEF Serving, HandOver
<1>3. Duties'
  BY StepDuties DEF Serving
<1>4. Watched /\ Watched'
  BY <1>1, <1>2, <1>3, WhatIsSeen, WhatIsSeenNext DEF Serving
<1> QED BY <1>1, <1>2, <1>3, <1>4 DEF Serving

\* Who sits where is settled once the group has its leader.
LEMMA OccupantsStay ==
  ASSUME Serving, [InStepNext]_vars, NEW r \in Nat \ {0}, Served(r), NEW e \in Seat
  PROVE  Served(r)' /\ Occupant(r, e)' = Occupant(r, e)
<1>1. /\ round \in Nat \ {0} /\ Seating /\ [Next]_vars /\ e[1] \in Shards
  BY InStepIsNext DEF Serving, HandOver, Seating, TypeOK, Seat
<1>2. SUFFICES Served(r)' /\ Entries(e[1], r)' = Entries(e[1], r)
  BY DEF Occupant, Group
<1>3. CASE LeaderUploads
  <2>1. round' = round + 1 /\ UNCHANGED <<client, seat>>
    BY <1>3 DEF LeaderUploads, AppendBlock
  <2>2. Served(r)'
    BY <1>1, <2>1 DEF Served
  <2> QED BY <2>1, <2>2 DEF Entries, Registered
<1>4. CASE \E s \in Shards : RegisterInStep(s)
  <2>1. PICK s \in Shards, x \in Randoms : RegisterCommunication(s, x)
    BY <1>4 DEF RegisterInStep
  <2>2. Winner = None /\ round' = round
    BY <1>1, <2>1, RegisterSeating DEF RegisterCommunication, Join
  <2>3. r \in 1 .. round - 1
    BY <1>1, <2>2 DEF Served
  <2>4. Entries(e[1], r)' = Entries(e[1], r)
    BY <1>1, <2>3, GroupsStay
  <2>5. Served(r)'
    BY <1>1, <2>2, <2>3 DEF Served
  <2> QED BY <2>4, <2>5
<1>5. CASE \E c \in OwedRoots, root \in Root : ExecutorUploads(c, root)
  <2>1. PICK c \in OwedRoots, root \in Root : ExecutorUploads(c, root)
    BY <1>5
  <2>2. seat[c] = "exec" /\ UNCHANGED <<round, client, Winner>>
        /\ (seat' = seat \/ seat' = [seat EXCEPT ![c] = "nil"])
    BY <2>1 DEF ExecutorUploads, CollectRoot, CollectRootPanics, groups
  <2>3. \A d \in Client : seat'[d] = seat[d] \/ (d = c /\ seat'[d] = "nil")
    BY <1>1, <2>2 DEF Seating, TypeOK
  <2>4. Entries(e[1], r)' = Entries(e[1], r)
    BY <2>2, <2>3 DEF Entries, Registered
  <2>5. Served(r)'
    BY <2>2 DEF Served
  <2> QED BY <2>4, <2>5
<1>6. CASE AssignShardNum \/ UNCHANGED vars
  <2>1. UNCHANGED <<round, client, seat, Winner>>
    BY <1>6 DEF AssignShardNum, vars, groups
  <2> QED BY <2>1 DEF Served, Entries, Registered
<1> QED BY <1>3, <1>4, <1>5, <1>6 DEF InStepNext, PacedUploads

\* The pipeline's executors after a step that nobody of them takes,
LEMMA SeenSame ==
  ASSUME Watched, Watched',
         \A r \in Rounds, e \in Seat : Shown(r, e)' = Shown(r, e)
  PROVE  ExecOf' = ExecOf
<1> DEFINE f(r, e) == Shown(r, e)
           g(r, e) == Shown(r, e)'
<1>1. /\ ExecOf  = [r \in Rounds |-> [e \in Seat |-> f(r, e)]]
      /\ ExecOf' = [r \in Rounds |-> [e \in Seat |-> g(r, e)]]
  BY DEF Watched, Rounds, Seat, Shards
<1>2. \A r \in Rounds, e \in Seat : g(r, e) = f(r, e)
  OBVIOUS
<1> HIDE DEF f, g
<1> QED BY <1>1, <1>2

\* and after one that one of them takes.
LEMMA SeenOne ==
  ASSUME Watched, Watched', NEW r \in Rounds, NEW e \in Seat, NEW v,
         Shown(r, e)' = v,
         \A q \in Rounds, d \in Seat : q # r \/ d # e => Shown(q, d)' = Shown(q, d)
  PROVE  ExecOf[r][e] = Shown(r, e) /\ ExecOf' = [ExecOf EXCEPT ![r][e] = v]
<1> DEFINE f(q, d) == Shown(q, d)
           g(q, d) == Shown(q, d)'
<1>1. /\ ExecOf  = [q \in Rounds |-> [d \in Seat |-> f(q, d)]]
      /\ ExecOf' = [q \in Rounds |-> [d \in Seat |-> g(q, d)]]
  BY DEF Watched, Rounds, Seat, Shards
<1>2. /\ \A q \in Rounds, d \in Seat : q # r \/ d # e => g(q, d) = f(q, d)
      /\ g(r, e) = v
  OBVIOUS
<1>3. ExecOf[r][e] = f(r, e)
  BY <1>1
<1> HIDE DEF f, g
<1>4. ExecOf' = [ExecOf EXCEPT ![r][e] = v]
  BY <1>1, <1>2
<1> QED BY <1>3, <1>4 DEF f

\* Nobody of the pipeline's executors moves, and a group is not served earlier
\* than it was: all stay as they are.
LEMMA ExecutorsStay ==
  ASSUME Serving, Watched, Watched', [InStepNext]_vars,
         \A r \in Nat \ {0} : Served(r)' => Served(r),
         \A c \in Client : seat[c] \in {"exec", "nil"} => Task(c)' = Task(c)
  PROVE  ExecOf' = ExecOf
<1>1. ASSUME NEW r \in Rounds, NEW e \in Seat PROVE Shown(r, e)' = Shown(r, e)
  <2>1. r \in Nat \ {0} /\ Held(NoWork)' = Held(NoWork)
    BY RoundsBound DEF Held, NoWork
  <2>2. CASE Served(r)
    <3>0. PICK c : c = Occupant(r, e)
      OBVIOUS
    <3>1. Served(r)' /\ Occupant(r, e)' = c
      BY <2>1, <2>2, <3>0, OccupantsStay
    <3>2. c \in Client /\ seat[c] \in {"exec", "nil"}
      <4>1. c \in Entries(e[1], r)
        BY <2>1, <2>2, <3>0, SeatsOccupied DEF Serving
      <4> QED BY <4>1 DEF Entries, Registered, Serving, HandOver, Seating, TypeOK, Seats
    <3>3. Task(Occupant(r, e))' = Task(c)'
      BY <3>1 DEF Task
    <3>4. Task(c)' = Task(c)
      BY <3>2
    <3> QED BY <2>2, <3>0, <3>1, <3>3, <3>4 DEF Shown
  <2>3. CASE ~Served(r)
    BY <2>1, <2>3 DEF Shown
  <2> QED BY <2>2, <2>3
<1> QED BY <1>1, SeenSame

\* In the pipeline c, who sits at e of the group of round r, goes to step x.
SeatMoves(r, e, c, x, y, z) ==
  /\ r = client[c].round /\ r <= round /\ Occupant(r, e) = c
  /\ ExecOf[r][e] = Task(c)
  /\ ExecOf' = [ExecOf EXCEPT ![r][e] = Holds(x, y, z)]

\* One of them moves.
LEMMA ExecutorMoves ==
  ASSUME Serving, Watched, Watched', [InStepNext]_vars, UNCHANGED <<round, Winner>>,
         NEW c \in Client, seat[c] = "exec", Notified(c),
         NEW x, NEW y, NEW z, Moves(c, x, y, z)
  PROVE  \E r \in Rounds, e \in Seat : SeatMoves(r, e, c, x, y, z)
<1>0. PICK r : r = client[c].round
  OBVIOUS
<1>1. /\ r \in Nat \ {0} /\ r <= round /\ client[c].shard \in Shards
      /\ round \in Nat \ {0}
  BY <1>0 DEF Serving, HandOver, Seating, TypeOK, RegisteredPast, TwoGroups
<1>2. Served(r)
  BY <1>0, <1>1 DEF Served, Notified
<1>3. c \in Entries(client[c].shard, r)
  BY <1>0 DEF Entries, Registered
<1>4. r \in Rounds
  BY <1>1, <1>2, SeatsOccupied DEF Serving
<1>5. PICK e \in Seat : Occupant(r, e) = c
  BY <1>1, <1>2, <1>3, SeatsOccupied DEF Serving
<1>6. Shown(r, e) = Task(c)
  BY <1>2, <1>5 DEF Shown
<1>7. Shown(r, e)' = Holds(x, y, z)
  <2>1. Served(r)' /\ Occupant(r, e)' = c
    BY <1>1, <1>2, <1>5, OccupantsStay
  <2>2. Task(Occupant(r, e))' = Task(c)'
    BY <2>1 DEF Task
  <2> QED BY <2>1, <2>2 DEF Shown, Moves
<1>8. ASSUME NEW q \in Rounds, NEW d \in Seat, q # r \/ d # e
      PROVE  Shown(q, d)' = Shown(q, d)
  <2>1. q \in Nat \ {0} /\ Held(NoWork)' = Held(NoWork)
    BY RoundsBound DEF Held, NoWork
  <2>2. CASE Served(q)
    <3>0. PICK b : b = Occupant(q, d)
      OBVIOUS
    <3>1. Served(q)' /\ Occupant(q, d)' = b
      BY <2>1, <2>2, <3>0, OccupantsStay
    <3>2. b \in Client
      <4>1. b \in Entries(d[1], q)
        BY <2>1, <2>2, <3>0, SeatsOccupied DEF Serving
      <4> QED BY <4>1 DEF Entries, Registered
    <3>3. b # c
      BY <1>1, <1>2, <1>5, <1>8, <2>1, <2>2, <3>0, SeatsDiffer DEF Serving
    <3>4. Task(Occupant(q, d))' = Task(b)'
      BY <3>1 DEF Task
    <3>5. Task(b)' = Task(b)
      BY <3>2, <3>3 DEF Moves
    <3> QED BY <2>2, <3>0, <3>1, <3>4, <3>5 DEF Shown
  <2>3. CASE ~Served(q)
    <3>1. ~Served(q)'
      BY <2>3 DEF Served
    <3> QED BY <2>1, <2>3, <3>1 DEF Shown
  <2> QED BY <2>2, <2>3
<1>9. ExecOf[r][e] = Task(c) /\ ExecOf' = [ExecOf EXCEPT ![r][e] = Holds(x, y, z)]
  <2> DEFINE v == Holds(x, y, z)
  <2>1. Shown(r, e)' = v
    BY <1>7
  <2> HIDE DEF v
  <2>2. ExecOf[r][e] = Shown(r, e) /\ ExecOf' = [ExecOf EXCEPT ![r][e] = v]
    BY <1>4, <1>8, <2>1, SeenOne
  <2> QED BY <1>6, <2>2 DEF v
<1> QED BY <1>0, <1>1, <1>4, <1>5, <1>9 DEF SeatMoves

\* The leader, when it moves and when it does not.
LEMMA LeaderMoves ==
  ASSUME Watched, Watched', NEW c \in Client, Winner = c, Winner' = Winner,
         NEW x, NEW y, NEW z, Moves(c, x, y, z)
  PROVE  /\ LeaderOf = Holds(LeaderStep(Step(c)), work[c].lists, work[c].height)
         /\ LeaderOf' = Holds(LeaderStep(x), y, z)
<1>1. LeaderOf = ShownLeader(Task(c)) /\ Task(c) = Held(work[c])
  BY DEF Watched, Task
<1>2. LeaderOf = Holds(LeaderStep(Step(c)), work[c].lists, work[c].height)
  BY <1>1 DEF ShownLeader, Held, Step
<1>3. LeaderOf' = ShownLeader(Task(c))'
  BY DEF Watched
<1>4. Task(c)' = Holds(x, y, z)
  BY DEF Moves
<1>5. ShownLeader(Task(c))' = ShownLeader(Task(c)')
  BY DEF ShownLeader, Holds, LeaderStep
<1>6. ShownLeader(Holds(x, y, z)) = Holds(LeaderStep(x), y, z)
  BY DEF ShownLeader, Holds
<1> QED BY <1>2, <1>3, <1>4, <1>5, <1>6

\* A leader whose step means nothing to the pipeline, or no leader before and
\* after,
LEMMA LeaderLooksSame ==
  ASSUME HandOver, Watched, Watched', Winner' = Winner,
         \A c \in Client : c = Winner => ShownLeader(Task(c)') = ShownLeader(Task(c))
  PROVE  LeaderOf' = LeaderOf
<1>1. CASE Winner = None
  <2>1. Held(NoWork)' = Held(NoWork)
    BY DEF Held, NoWork
  <2> QED BY <1>1, <2>1 DEF Watched
<1>2. CASE Winner # None
  <2>1. PICK c \in Client : c = Winner
    BY <1>2, LeaderSits
  <2>2. LeaderOf = ShownLeader(Task(c)) /\ LeaderOf' = ShownLeader(Task(c))'
    BY <2>1 DEF Watched
  <2>3. ShownLeader(Task(c))' = ShownLeader(Task(c)')
    BY DEF ShownLeader, Holds, LeaderStep
  <2> QED BY <2>1, <2>2, <2>3
<1> QED BY <1>1, <1>2

\* and one that does not move.
LEMMA LeaderStays ==
  ASSUME HandOver, Watched, Watched', Winner' = Winner,
         \A c \in Client : c = Winner => Task(c)' = Task(c)
  PROVE  LeaderOf' = LeaderOf
<1>1. \A c \in Client : c = Winner => ShownLeader(Task(c)') = ShownLeader(Task(c))
  OBVIOUS
<1> QED BY <1>1, LeaderLooksSame

-----------------------------------------------------------------------------
\* The rounds whose groups the pipeline knows.
LEMMA GroupKnown ==
  ASSUME NEW r \in Rounds, r <= round
  PROVE  r \in Books!Groups
BY RoundsBound DEF Books!Groups

\* An executor that only changes its step does what Stepped says.
LEMMA SteppedSeat ==
  ASSUME NEW r, NEW e, NEW c, NEW x,
         SeatMoves(r, e, c, x, work[c].lists, work[c].height)
  PROVE  /\ ExecOf' = Books!Stepped(r, e, x)
         /\ ExecOf[r][e].step = Step(c) /\ ExecOf[r][e].lists = work[c].lists
<1> DEFINE f == ExecOf
           w == work[c]
<1>1. f[r][e] = [step |-> w.step, lists |-> w.lists, height |-> w.height]
  BY DEF SeatMoves, Task, Held
<1>2. ExecOf' = [f EXCEPT ![r][e] = Holds(x, w.lists, w.height)]
  BY DEF SeatMoves
<1> HIDE DEF f, w
<1>3. [f[r][e] EXCEPT !.step = x] = Holds(x, w.lists, w.height)
  BY <1>1 DEF Holds
<1>4. [f EXCEPT ![r][e].step = x] = [f EXCEPT ![r][e] = [f[r][e] EXCEPT !.step = x]]
  OBVIOUS
<1>5. ExecOf' = [f EXCEPT ![r][e].step = x]
  BY <1>2, <1>3, <1>4
<1>6. f[r][e].step = w.step /\ f[r][e].lists = w.lists
  BY <1>1
<1> QED BY <1>5, <1>6 DEF f, w, Books!Stepped, Step

\* An executor packs.
LEMMA ExecutorPacksSteady ==
  ASSUME Serving, Watched, Watched', [InStepNext]_vars, NEW c \in Client, ExecutorPacks(c)
  PROVE  Books!SteadyNext
<1>1. /\ UNCHANGED vars /\ UNCHANGED <<height, chain, WitnessCount>>
      /\ seat[c] = "exec" /\ Notified(c) /\ Step(c) = "idle"
      /\ pool' = Books!Packed(0, Shards, height + 1)
  BY DEF ExecutorPacks, At, Step
<1>2. UNCHANGED <<round, Winner>>
  BY <1>1 DEF vars
<1>3. Moves(c, "packed", Books!ListsOf(pool', 0), height + 1)
  BY PacksMoves DEF Serving, Working
<1>4. PICK r \in Rounds, e \in Seat :
        SeatMoves(r, e, c, "packed", Books!ListsOf(pool', 0), height + 1)
  BY <1>1, <1>2, <1>3, ExecutorMoves
<1>5. LeaderOf' = LeaderOf
  <2>1. Winner # c
    BY <1>1, LeaderSits, MembershipAssumption DEF Serving, MembershipAssumption
  <2> QED BY <1>2, <1>3, <2>1, LeaderStays DEF Moves, Serving
<1>6. ExecOf[r][e].step = "idle"
  BY <1>1, <1>4 DEF SeatMoves, Task, Held, Step
<1>7. Books!Shards = Shards
  BY DEF Books!Shards, Shards
<1>8. Books!ExecutorPacks(r, e)
  BY <1>1, <1>2, <1>4, <1>5, <1>6, <1>7 DEF Books!ExecutorPacks, SeatMoves, Holds
<1>9. r \in Books!Groups
  BY <1>4, GroupKnown DEF SeatMoves
<1> QED BY <1>8, <1>9 DEF Books!SteadyNext

\* When no executor of an earlier round owes a root the groups before are done.
LEMMA GroupsEnded ==
  ASSUME Serving, Watched, NEW r \in Rounds, r <= round,
         \A d \in OwedRoots : client[d].round >= r
  PROVE  Books!Ended(r - 1)
<1>1. /\ r \in Nat \ {0} /\ round \in Nat \ {0}
      /\ Rounds = 1 .. Cardinality(Rounds) /\ Cardinality(Rounds) \in Nat
  BY RoundsBound DEF Serving, HandOver, Seating, TypeOK
<1>2. ASSUME NEW q \in 1 .. r - 1, NEW e \in Seat PROVE ExecOf[q][e].step = "rooted"
  <2>1. q \in Nat \ {0} /\ q < r /\ q < round
    BY <1>1
  <2>2. q \in Rounds
    BY <1>1, <2>1
  <2>3. Served(q)
    BY <2>1 DEF Served
  <2>4. PICK c : c = Occupant(q, e)
    OBVIOUS
  <2>5. c \in Entries(e[1], q)
    BY <2>1, <2>3, <2>4, SeatsOccupied DEF Serving
  <2>6. c \in Client /\ client[c].round = q /\ seat[c] \in {"exec", "nil"}
    BY <2>5 DEF Entries, Registered, Serving, HandOver, Seating, TypeOK, Seats
  <2>7. seat[c] = "nil"
    <3>1. seat[c] = "exec" => c \in OwedRoots
      BY <2>1, <2>6 DEF OwedRoots
    <3> QED BY <1>1, <2>1, <2>6, <3>1
  <2>8. Step(c) = "rooted"
    BY <2>6, <2>7 DEF Serving, Duties, BySeat, Fits
  <2>9. ExecOf[q][e] = Task(c)
    BY <2>2, <2>3, <2>4 DEF Watched, Shown
  <2> QED BY <2>8, <2>9 DEF Task, Held, Step
<1> QED BY <1>2 DEF Books!Ended

\* An executor witnesses.
LEMMA WitnessSteady ==
  ASSUME Serving, Watched, Watched', [InStepNext]_vars, NEW c \in Client, WitnessTx(c),
         \A d \in OwedRoots : client[d].round >= client[c].round
  PROVE  Books!SteadyNext
<1>1. /\ UNCHANGED vars /\ UNCHANGED <<height, chain>>
      /\ seat[c] = "exec" /\ Step(c) = "packed" /\ Notified(c)
      /\ Books!Witnessed(work[c].lists)
  BY DEF WitnessTx, At, Step, Serving, Working, WorkingAsSeated, MayDo
<1>2. UNCHANGED <<round, Winner>>
  BY <1>1 DEF vars
<1>3. Moves(c, "witnessed", work[c].lists, work[c].height)
  BY GoesMoves DEF WitnessTx, Serving, Working
<1>4. PICK r \in Rounds, e \in Seat :
        SeatMoves(r, e, c, "witnessed", work[c].lists, work[c].height)
  BY <1>1, <1>2, <1>3, ExecutorMoves
<1>5. LeaderOf' = LeaderOf
  <2>1. Winner # c
    BY <1>1, LeaderSits, MembershipAssumption DEF Serving, MembershipAssumption
  <2> QED BY <1>2, <1>3, <2>1, LeaderStays DEF Moves, Serving
<1>6. /\ ExecOf' = Books!Stepped(r, e, "witnessed")
      /\ ExecOf[r][e].step = "packed" /\ ExecOf[r][e].lists = work[c].lists
  BY <1>1, <1>4, SteppedSeat
<1>7. Books!WitnessTx(r, e)
  BY <1>1, <1>2, <1>5, <1>6 DEF Books!WitnessTx
<1>8. r \in Books!Groups /\ Books!Ended(r - 1)
  BY <1>4, GroupKnown, GroupsEnded DEF SeatMoves
<1> QED BY <1>7, <1>8 DEF Books!SteadyNext

\* An executor asks for what it has to validate.
LEMMA PackValidSteady ==
  ASSUME Serving, Watched, Watched', [InStepNext]_vars, NEW c \in Client, PackValidTx(c)
  PROVE  Books!SteadyNext
<1>1. /\ UNCHANGED vars /\ UNCHANGED <<height, chain, WitnessCount>>
      /\ seat[c] = "exec" /\ Step(c) = "witnessed" /\ Notified(c)
      /\ client[c].round < round
      /\ pool' = Books!Packed(2, Books!AllButLast, height - 1)
  BY DEF PackValidTx, At, Step, Serving, Working, WorkingAsSeated, MayDo
<1>2. UNCHANGED <<round, Winner>>
  BY <1>1 DEF vars
<1>3. Moves(c, "validating", work[c].lists, work[c].height)
  BY GoesMoves DEF PackValidTx, Serving, Working
<1>4. PICK r \in Rounds, e \in Seat :
        SeatMoves(r, e, c, "validating", work[c].lists, work[c].height)
  BY <1>1, <1>2, <1>3, ExecutorMoves
<1>5. LeaderOf' = LeaderOf
  <2>1. Winner # c
    BY <1>1, LeaderSits, MembershipAssumption DEF Serving, MembershipAssumption
  <2> QED BY <1>2, <1>3, <2>1, LeaderStays DEF Moves, Serving
<1>6. ExecOf' = Books!Stepped(r, e, "validating") /\ ExecOf[r][e].step = "witnessed"
  BY <1>1, <1>4, SteppedSeat
<1>7. Books!PackValidTx(r, e)
  BY <1>1, <1>2, <1>4, <1>5, <1>6 DEF Books!PackValidTx, SeatMoves
<1>8. r \in Books!Groups
  BY <1>4, GroupKnown DEF SeatMoves
<1> QED BY <1>7, <1>8 DEF Books!SteadyNext

\* The pipeline sees the stage done when the server does.
LEMMA StageDoneIsSeen ==
  ASSUME Serving, Watched, NEW c \in OwedRoots, NEW r \in Rounds, NEW e \in Seat,
         NEW y, NEW z, SeatMoves(r, e, c, "rooted", y, z)
  PROVE  StageDone(c) <=> \A d \in Seat : ExecOf'[r][d].step = "rooted"
<1>1. /\ c \in Client /\ client[c].round = r /\ r = round - 1 /\ round \in Nat \ {0}
      /\ Occupant(r, e) = c /\ r \in Nat \ {0}
  BY OwedOfLastRound, RoundsBound DEF Serving, SeatMoves
<1>2. Served(r)
  BY <1>1 DEF Served
<1>3. StageDone(c) <=> OwedRoots = {c}
  BY StageDoneIsLast DEF Serving
<1>4. \A d \in Seat : ExecOf'[r][d] = IF d = e THEN Holds("rooted", y, z)
                                      ELSE Task(Occupant(r, d))
  <2> DEFINE f == ExecOf
  <2>1. ExecOf' = [f EXCEPT ![r][e] = Holds("rooted", y, z)]
    BY DEF SeatMoves
  <2>2. DOMAIN f = Rounds /\ DOMAIN f[r] = Seat
    BY DEF Watched
  <2>3. \A d \in Seat : f[r][d] = Task(Occupant(r, d))
    BY <1>2 DEF Watched, Shown
  <2> HIDE DEF f
  <2> QED BY <2>1, <2>2, <2>3
<1>5. \A d \in Seat : /\ Occupant(r, d) \in Client
                      /\ client[Occupant(r, d)].round = r
                      /\ seat[Occupant(r, d)] \in {"exec", "nil"}
  <2> TAKE d \in Seat
  <2>1. PICK b : b = Occupant(r, d)
    OBVIOUS
  <2>2. b \in Entries(d[1], r)
    BY <1>1, <1>2, <2>1, SeatsOccupied DEF Serving
  <2>3. b \in Client /\ client[b].round = r /\ seat[b] \in {"exec", "nil"}
    BY <2>2 DEF Entries, Registered, Serving, HandOver, Seating, TypeOK, Seats
  <2> QED BY <2>1, <2>3
<1>6. \A b \in Client : /\ seat[b] = "nil" => Step(b) = "rooted"
                        /\ seat[b] = "exec" => Step(b) # "rooted"
  BY DEF Serving, Duties, BySeat, Fits
<1>7. ASSUME OwedRoots = {c}, NEW d \in Seat PROVE ExecOf'[r][d].step = "rooted"
  <2>1. CASE d = e
    BY <1>4, <2>1 DEF Holds
  <2>2. CASE d # e
    <3>1. PICK b : b = Occupant(r, d)
      OBVIOUS
    <3>2. b \in Client /\ client[b].round = r /\ seat[b] \in {"exec", "nil"}
      BY <1>5, <3>1
    <3>3. b # c
      BY <1>1, <1>2, <2>2, <3>1, SeatsDiffer DEF Serving
    <3>4. seat[b] = "nil"
      <4>1. client[b].round < round
        BY <1>1, <3>2
      <4> QED BY <1>7, <3>2, <3>3, <4>1 DEF OwedRoots
    <3>5. ExecOf'[r][d] = Task(b) /\ Step(b) = "rooted"
      BY <1>4, <1>6, <2>2, <3>1, <3>2, <3>4
    <3> QED BY <3>5 DEF Task, Held, Step
  <2> QED BY <2>1, <2>2
<1>8. ASSUME \A d \in Seat : ExecOf'[r][d].step = "rooted" PROVE OwedRoots = {c}
  <2>1. SUFFICES ASSUME NEW b \in OwedRoots, b # c PROVE FALSE
    OBVIOUS
  <2>2. b \in Client /\ client[b].round = r /\ seat[b] = "exec" /\ client[b].shard \in Shards
    BY <1>1, OwedOfLastRound DEF Serving
  <2>3. b \in Entries(client[b].shard, r)
    BY <2>2 DEF Entries, Registered
  <2>4. PICK d \in Seat : Occupant(r, d) = b
    BY <1>1, <1>2, <2>2, <2>3, SeatsOccupied DEF Serving
  <2>5. d # e
    BY <1>1, <2>1, <2>4
  <2>6. ExecOf'[r][d] = Task(b)
    BY <1>4, <2>4, <2>5
  <2>7. Task(b).step = "rooted"
    BY <1>8, <2>6
  <2> QED BY <1>6, <2>2, <2>7 DEF Task, Held, Step
<1> QED BY <1>3, <1>7, <1>8

\* An executor reports its root.
LEMMA RootSteady ==
  ASSUME Serving, Watched, Watched', [InStepNext]_vars, NEW c \in Client,
         NEW root \in Root, UploadRoot(c, root)
  PROVE  Books!SteadyNext
<1>1. c \in OwedRoots /\ IsValidator(c)
  BY RootWorks, OwedIsHeld DEF Serving
<1>2. /\ seat[c] = "exec" /\ Step(c) = "validating" /\ Notified(c)
      /\ UNCHANGED <<pool, height, chain>>
      /\ UNCHANGED <<round, Winner>>
      /\ WitnessCount' = IF StageDone(c) THEN 0 ELSE WitnessCount
  BY <1>1 DEF UploadRoot, TakesRoot, CollectRoot, Restarted, At, Step, OwedRoots, Notified
<1>3. Moves(c, "rooted", work[c].lists, work[c].height)
  BY GoesMoves DEF UploadRoot, Serving, Working
<1>4. PICK r \in Rounds, e \in Seat :
        SeatMoves(r, e, c, "rooted", work[c].lists, work[c].height)
  BY <1>2, <1>3, ExecutorMoves
<1>5. LeaderOf' = LeaderOf
  <2>1. Winner # c
    BY <1>2, LeaderSits, MembershipAssumption DEF Serving, MembershipAssumption
  <2> QED BY <1>2, <1>3, <2>1, LeaderStays DEF Moves, Serving
<1>6. ExecOf' = Books!Stepped(r, e, "rooted") /\ ExecOf[r][e].step = "validating"
  BY <1>2, <1>4, SteppedSeat
<1>7. StageDone(c) <=> \A d \in Seat : ExecOf'[r][d].step = "rooted"
  BY <1>1, <1>4, StageDoneIsSeen
<1>8. Books!CollectRoot(r, e)
  BY <1>2, <1>5, <1>6, <1>7 DEF Books!CollectRoot
<1>9. r \in Books!Groups
  BY <1>4, GroupKnown DEF SeatMoves
<1> QED BY <1>8, <1>9 DEF Books!SteadyNext

\* The votes that suffice are a number.
LEMMA MinVoteIsNumber == MinVote \in Int
<1> DEFINE n == (2 * CLIENT_MAX) \div 3
<1>1. n \in Int
  BY MembershipAssumption DEF MembershipAssumption
<1>2. MinVote = Max({1, n})
  BY DEF MinVote
<1> HIDE DEF n
<1>3. \E x \in {1, n} : \A y \in {1, n} : x >= y
  <2>1. CASE n >= 1
    BY <1>1, <2>1
  <2>2. CASE ~(n >= 1)
    BY <1>1, <2>2
  <2> QED BY <2>1, <2>2
<1> QED BY <1>1, <1>2, <1>3 DEF Max

\* Every witness of the open round has its seat.
LEMMA WitnessesAreSeen ==
  ASSUME Serving, Watched, Winner # None, Cardinality(Witnesses) >= MinVote
  PROVE  Cardinality(Books!Witness(round)) >= MinVote
<1>1. round \in Nat \ {0} /\ Served(round)
  BY DEF Serving, HandOver, Seating, TypeOK, Served
<1>2. PICK r : r = round
  OBVIOUS
<1>3. r \in Rounds /\ \A e \in Seat : ExecOf[r][e] = Task(Occupant(r, e))
  BY <1>1, <1>2, SeatsOccupied DEF Serving, Watched, Shown
<1> DEFINE W == Witnesses
           B == Books!Witness(r)
           f == [c \in W |-> CHOOSE e \in Seat : Occupant(r, e) = c]
<1>4. \A c \in W : f[c] \in Seat /\ Occupant(r, f[c]) = c
  <2> TAKE c \in W
  <2>1. c \in Client /\ client[c].round = r /\ seat[c] = "exec"
    BY <1>2 DEF Witnesses
  <2>2. client[c].shard \in Shards
    BY <2>1 DEF Serving, HandOver, Seating, RegisteredPast
  <2>3. c \in Entries(client[c].shard, r)
    BY <2>1 DEF Entries, Registered
  <2>4. \E e \in Seat : Occupant(r, e) = c
    BY <1>1, <1>2, <2>2, <2>3, SeatsOccupied DEF Serving
  <2> QED BY <2>4
<1>5. \A c \in W : f[c] \in B
  <2> TAKE c \in W
  <2>1. ExecOf[r][f[c]] = Task(c)
    <3> HIDE DEF W, f
    <3> QED BY <1>3, <1>4
  <2>2. Task(c).step = "witnessed"
    BY DEF Witnesses, Task, Held
  <2>3. f[c] \in Seat
    BY <1>4
  <2> HIDE DEF f
  <2> QED BY <2>1, <2>2, <2>3 DEF Books!Witness
<1>6. \A c, d \in W : f[c] = f[d] => c = d
  <2> HIDE DEF W, f
  <2> QED BY <1>4
<1>7. IsFiniteSet(B)
  <2>1. IsFiniteSet(Shards) /\ IsFiniteSet(1 .. CLIENT_MAX - 1)
    BY FS_Interval, MembershipAssumption DEF Shards, MembershipAssumption
  <2>2. IsFiniteSet(Seat)
    BY <2>1, FS_Product DEF Seat
  <2>3. B \subseteq Seat
    BY DEF Books!Witness
  <2> QED BY <2>2, <2>3, FS_Subset
<1>8. DOMAIN f = W
  OBVIOUS
<1>9. f = [c \in W |-> f[c]]
  OBVIOUS
<1>10. Cardinality(W) <= Cardinality(B) /\ Cardinality(W) \in Int /\ Cardinality(B) \in Int
  <2>1. IsFiniteSet(W)
    <3>1. W \subseteq Client
      BY DEF Witnesses
    <3> QED BY <3>1, FS_Subset, MembershipAssumption DEF MembershipAssumption
  <2> HIDE DEF W, B, f
  <2>2. f \in [W -> B]
    BY <1>5, <1>9
  <2>3. IsInjective(f)
    BY <1>6, <1>8 DEF IsInjective
  <2>4. f \in Injection(W, B)
    BY <2>2, <2>3 DEF Injection
  <2>5. Cardinality(W) <= Cardinality(B)
    BY <1>7, <2>4, FS_Injection
  <2> QED BY <1>7, <2>1, <2>5, FS_CardinalityType
<1>11. Cardinality(B) >= MinVote
  BY <1>10, MinVoteIsNumber
<1> QED BY <1>2, <1>11

\* The pipeline counts as the server does.
LEMMA SameCardinality == \A S : Books!Cardinality(S) = Cardinality(S)
BY DEF Books!Cardinality, Cardinality

\* Whoever leads is none of the pipeline's executors.
LEMMA LeaderHasNoSeat ==
  ASSUME HandOver, NEW c \in Client, c = Winner
  PROVE  seat[c] = "committee" /\ Winner # None
BY LeaderSits, MembershipAssumption DEF MembershipAssumption

\* While round and leader stay, so do the groups that are served.
LEMMA ServedStays ==
  ASSUME UNCHANGED <<round, Winner>>
  PROVE  \A r \in Nat \ {0} : Served(r)' => Served(r)
BY DEF Served

\* The leader packs.
LEMMA LeaderPacksSteady ==
  ASSUME Serving, Watched, Watched', [InStepNext]_vars, NEW c \in Client,
         Cardinality(Witnesses) >= MinVote, LeaderPacks(c)
  PROVE  Books!SteadyNext
<1>1. /\ UNCHANGED vars /\ UNCHANGED <<height, chain, WitnessCount>>
      /\ Winner = c /\ Winner # None /\ seat[c] = "committee" /\ Step(c) = "idle"
      /\ pool' = Books!Packed(1, Shards, height + 1)
  BY LeaderHasNoSeat DEF LeaderPacks, At, Step, Serving
<1>2. UNCHANGED <<round, Winner>>
  BY <1>1 DEF vars
<1>3. Moves(c, "packing", Books!ListsOf(pool', 1), work[c].height)
  BY PacksMoves DEF Serving, Working
<1>4. /\ LeaderOf = Holds("idle", work[c].lists, work[c].height)
      /\ LeaderOf' = Holds("packing", Books!ListsOf(pool', 1), work[c].height)
  <2>1. LeaderStep("idle") = "idle" /\ LeaderStep("packing") = "packing"
    BY DEF LeaderStep
  <2>2. /\ LeaderOf = Holds(LeaderStep(Step(c)), work[c].lists, work[c].height)
        /\ LeaderOf' = Holds(LeaderStep("packing"), Books!ListsOf(pool', 1), work[c].height)
    BY <1>1, <1>2, <1>3, LeaderMoves
  <2> QED BY <1>1, <2>1, <2>2
<1>5. LeaderOf' = [LeaderOf EXCEPT !.step = "packing", !.lists = Books!ListsOf(pool', 1)]
  <2> DEFINE y == Books!ListsOf(pool', 1)
             b == work[c].lists
             z == work[c].height
  <2>1. LeaderOf = Holds("idle", b, z) /\ LeaderOf' = Holds("packing", y, z)
    BY <1>4
  <2> HIDE DEF y, b, z
  <2>2. [LeaderOf EXCEPT !.step = "packing", !.lists = y] = Holds("packing", y, z)
    <3>1. LeaderOf = [step |-> "idle", lists |-> b, height |-> z]
      BY <2>1 DEF Holds
    <3>2. [LeaderOf EXCEPT !.step = "packing", !.lists = y] =
            [[LeaderOf EXCEPT !.step = "packing"] EXCEPT !.lists = y]
      OBVIOUS
    <3>3. [LeaderOf EXCEPT !.step = "packing"] =
            [step |-> "packing", lists |-> b, height |-> z]
      BY <3>1
    <3>4. [[step |-> "packing", lists |-> b, height |-> z] EXCEPT !.lists = y] =
            [step |-> "packing", lists |-> y, height |-> z]
      OBVIOUS
    <3> QED BY <3>2, <3>3, <3>4 DEF Holds
  <2>3. LeaderOf' = [LeaderOf EXCEPT !.step = "packing", !.lists = y]
    BY <2>1, <2>2
  <2> QED BY <2>3 DEF y
<1>6. LeaderOf.step = "idle"
  BY <1>4 DEF Holds
<1>7. ExecOf' = ExecOf
  <2>1. \A d \in Client : seat[d] \in {"exec", "nil"} => Task(d)' = Task(d)
    BY <1>1, <1>3 DEF Moves
  <2> QED BY <1>2, <2>1, ServedStays, ExecutorsStay
<1>8. Books!LeaderPacks
  <2>1. Books!Shards = Shards
    BY DEF Books!Shards, Shards
  <2> QED BY <1>1, <1>2, <1>5, <1>6, <1>7, <2>1 DEF Books!LeaderPacks
<1>9. round <= Cardinality(Rounds) /\ Cardinality(Books!Witness(round)) >= MinVote
  <2>1. round \in Nat \ {0} /\ Served(round)
    BY <1>1 DEF Serving, HandOver, Seating, TypeOK, Served
  <2>2. round \in Rounds
    BY <2>1, SeatsOccupied DEF Serving
  <2>3. round \in 1 .. Cardinality(Rounds)
    BY <2>2, RoundsBound
  <2>4. Cardinality(Books!Witness(round)) >= MinVote
    BY <1>1, WitnessesAreSeen
  <2> QED BY <2>3, <2>4, RoundsBound
<1>10. Books!Cardinality(Books!Witness(round)) >= MinVote
  BY <1>9, SameCardinality
<1> QED BY <1>8, <1>9, <1>10 DEF Books!SteadyNext

\* It reads the height.
LEMMA LeaderReadsSteady ==
  ASSUME Serving, Watched, Watched', [InStepNext]_vars, NEW c \in Client,
         LeaderReadsHeight(c)
  PROVE  Books!SteadyNext
<1>1. /\ UNCHANGED vars /\ UNCHANGED <<pool, height, chain, WitnessCount>>
      /\ Step(c) = "packing"
  BY DEF LeaderReadsHeight, Step, books
<1>2. UNCHANGED <<round, Winner>>
  BY <1>1 DEF vars
<1>3. Winner = c /\ seat[c] = "committee"
  BY <1>1, LeaderReads, LeaderHasNoSeat DEF Serving
<1>4. Moves(c, "packed", work[c].lists, height + 1)
  BY PacksMoves DEF Serving, Working
<1>5. /\ LeaderOf = Holds("packing", work[c].lists, work[c].height)
      /\ LeaderOf' = Holds("packed", work[c].lists, height + 1)
  <2>1. LeaderStep("packing") = "packing" /\ LeaderStep("packed") = "packed"
    BY DEF LeaderStep
  <2>2. /\ LeaderOf = Holds(LeaderStep(Step(c)), work[c].lists, work[c].height)
        /\ LeaderOf' = Holds(LeaderStep("packed"), work[c].lists, height + 1)
    BY <1>2, <1>3, <1>4, LeaderMoves
  <2> QED BY <1>1, <2>1, <2>2
<1>6. LeaderOf' = [LeaderOf EXCEPT !.step = "packed", !.height = height + 1]
  <2> DEFINE b == work[c].lists
             y == work[c].height
             z == height + 1
  <2>1. LeaderOf = Holds("packing", b, y) /\ LeaderOf' = Holds("packed", b, z)
    BY <1>5
  <2> HIDE DEF b, y, z
  <2>2. [LeaderOf EXCEPT !.step = "packed", !.height = z] = Holds("packed", b, z)
    <3>1. LeaderOf = [step |-> "packing", lists |-> b, height |-> y]
      BY <2>1 DEF Holds
    <3>2. [LeaderOf EXCEPT !.step = "packed", !.height = z] =
            [[LeaderOf EXCEPT !.step = "packed"] EXCEPT !.height = z]
      OBVIOUS
    <3>3. [LeaderOf EXCEPT !.step = "packed"] =
            [step |-> "packed", lists |-> b, height |-> y]
      BY <3>1
    <3>4. [[step |-> "packed", lists |-> b, height |-> y] EXCEPT !.height = z] =
            [step |-> "packed", lists |-> b, height |-> z]
      OBVIOUS
    <3> QED BY <3>2, <3>3, <3>4 DEF Holds
  <2>3. LeaderOf' = [LeaderOf EXCEPT !.step = "packed", !.height = z]
    BY <2>1, <2>2
  <2> QED BY <2>3 DEF z
<1>7. LeaderOf.step = "packing"
  BY <1>5 DEF Holds
<1>8. ExecOf' = ExecOf
  <2>1. \A d \in Client : seat[d] \in {"exec", "nil"} => Task(d)' = Task(d)
    BY <1>3, <1>4 DEF Moves
  <2> QED BY <1>2, <2>1, ServedStays, ExecutorsStay
<1>9. Books!LeaderReadsHeight
  BY <1>1, <1>2, <1>6, <1>7, <1>8 DEF Books!LeaderReadsHeight
<1> QED BY <1>9 DEF Books!SteadyNext

\* PackAccount, the multicast and the votes are nothing to the pipeline.
LEMMA CommitteeUnseen ==
  ASSUME Serving, Watched, Watched', [InStepNext]_vars, NEW c \in Client,
         PackAccount(c) \/ MultiCastBlock(c) \/ SendVote(c)
  PROVE  UNCHANGED Books!vars
<1>1. /\ UNCHANGED vars /\ UNCHANGED <<pool, height, chain, WitnessCount>>
  BY DEF PackAccount, MultiCastBlock, SendVote, books
<1>2. UNCHANGED <<round, Winner>>
  BY <1>1 DEF vars
<1>3. \A d \in Client :
        /\ seat[d] \in {"exec", "nil"} => Task(d)' = Task(d)
        /\ d = Winner => ShownLeader(Task(d)') = ShownLeader(Task(d))
  <2>1. WorkShape /\ \A d \in Client : d = Winner => seat[d] = "committee"
    BY LeaderHasNoSeat DEF Serving, Working
  <2>2. CASE PackAccount(c)
    <3>1. Winner = c /\ Step(c) = "packed"
      BY <2>2 DEF PackAccount, At, Step
    <3>2. Moves(c, "ready", work[c].lists, work[c].height)
      BY <2>1, <2>2, PacksMoves
    <3>3. ShownLeader(Task(c)') = ShownLeader(Task(c))
      BY <3>1, <3>2 DEF Moves, ShownLeader, Holds, LeaderStep, Task, Held, Step
    <3> QED BY <2>1, <3>1, <3>2, <3>3 DEF Moves
  <2>3. CASE MultiCastBlock(c)
    <3>1. Winner = c /\ Step(c) = "ready"
      BY <2>3 DEF MultiCastBlock, At, Step
    <3>2. /\ Task(c)' = Holds("proposed", work[c].lists, work[c].height)
          /\ \A d \in Client : d # c /\ d \notin Asked => Task(d)' = Task(d)
      BY <2>1, <2>3, MultiCastMoves
    <3>3. ShownLeader(Task(c)') = ShownLeader(Task(c))
      BY <3>1, <3>2 DEF ShownLeader, Holds, LeaderStep, Task, Held, Step
    <3>4. \A d \in Client : d \in Asked => seat[d] = "committee"
      BY DEF Asked, Committee
    <3> QED BY <2>1, <3>1, <3>2, <3>3, <3>4
  <2>4. CASE SendVote(c)
    <3>1. Step(c) = "asked"
      BY <2>4 DEF SendVote, At, Step
    <3>2. seat[c] = "committee" /\ c # Winner
      <4>1. seat[c] \in Seats /\ Fits(c, "asked")
        BY <3>1 DEF Serving, HandOver, Seating, TypeOK, Duties, BySeat
      <4> QED BY <4>1 DEF Fits, Seats
    <3>3. \A d \in Client : d # c => Task(d)' = Task(d)
      BY <2>1, <2>4, <3>2, VoteMoves
    <3> QED BY <3>2, <3>3
  <2> QED BY <2>2, <2>3, <2>4
<1>4. ExecOf' = ExecOf
  BY <1>2, <1>3, ServedStays, ExecutorsStay
<1>5. LeaderOf' = LeaderOf
  BY <1>2, <1>3, LeaderLooksSame DEF Serving
<1> QED BY <1>1, <1>2, <1>4, <1>5 DEF Books!vars, Books!clients

\* The block is uploaded.  It has the votes of the whole committee, one member
\* of every shard: enough if there are as many shards as votes suffice.
LEMMA BlockSteady ==
  ASSUME ShardNum >= MinVote,
         Serving, Watched, Watched', [InStepNext]_vars, NEW c \in Client,
         \A d \in Committee : work[d].step # "asked", UploadBlock(c)
  PROVE  /\ Books!AppendBlock(MinVote) /\ LeaderOf.lists = work[c].lists
         /\ Books!SteadyNext
<1>1. /\ Winner = c /\ Winner # None /\ seat[c] = "committee" /\ Step(c) = "proposed"
      /\ Winner' = None /\ round' = round + 1 /\ UNCHANGED WitnessCount
      /\ Books!Block(work[c].height, work[c].vote, work[c].lists)
  BY LeaderHasNoSeat DEF UploadBlock, TakesBlock, AppendBlock, At, Step, Serving
<1>2. Vote(c) >= MinVote
  <2>1. Vote(c) = ShardNum
    BY <1>1, BlockHasVotes DEF Serving, Step
  <2> QED BY <2>1
<1>3. LeaderOf = Holds("packed", work[c].lists, work[c].height)
  <2>1. LeaderOf = ShownLeader(Task(c)) /\ Task(c) = Held(work[c])
    BY <1>1 DEF Watched, Task
  <2> QED BY <1>1, <2>1 DEF ShownLeader, Held, Step, Holds, LeaderStep
<1>4. Books!Block(LeaderOf.height, MinVote, LeaderOf.lists)
  <2>1. LeaderOf.height = work[c].height /\ LeaderOf.lists = work[c].lists
    BY <1>3 DEF Holds
  <2>2. MinVote >= MinVote /\ work[c].vote >= MinVote
    BY <1>2, MinVoteIsNumber DEF Vote
  <2> QED BY <1>1, <2>1, <2>2 DEF Books!Block
<1>5. LeaderOf' = Books!Nothing
  <2>1. LeaderOf' = Held(NoWork)'
    BY <1>1 DEF Watched
  <2>2. Held(NoWork)' = Held(NoWork)
    BY DEF Held, NoWork
  <2>3. Held(NoWork) = Books!Nothing
    BY DEF Held, NoWork, Books!Nothing, Books!NoLists, Books!Shards, Shards,
           Books!Empty, Empty, Books!Kinds, Kinds
  <2> QED BY <2>1, <2>2, <2>3
<1>6. ExecOf' = ExecOf
  <2>1. Moves(c, "uploaded", work[c].lists, work[c].height)
    BY GoesMoves DEF UploadBlock, Serving, Working
  <2>2. \A d \in Client : seat[d] \in {"exec", "nil"} => Task(d)' = Task(d)
    BY <1>1, <2>1 DEF Moves
  <2>3. round \in Nat
    BY DEF Serving, HandOver, Seating, TypeOK
  <2>4. \A r \in Nat \ {0} : Served(r)' => Served(r)
    BY <1>1, <2>3 DEF Served
  <2> QED BY <2>2, <2>4, ExecutorsStay
<1>7. LeaderOf.step = "packed"
  BY <1>3 DEF Holds
<1>8. Books!AppendBlock(MinVote)
  BY <1>1, <1>4, <1>5, <1>6, <1>7 DEF Books!AppendBlock
<1>9. LeaderOf.lists = work[c].lists
  BY <1>3 DEF Holds
<1> QED BY <1>8, <1>9 DEF Books!SteadyNext

\* In every state, the next one too, seats have occupants.
AllSeated ==
  \A r \in Nat \ {0}, e \in Seat : Served(r) => Occupant(r, e) \in Entries(e[1], r)

\* That is one of the facts on seats,
LEMMA SeatedAll == HandOver /\ GroupsFull => AllSeated
BY SeatsOccupied DEF AllSeated

\* here for the next state.
LEMMA SeatedAllNext == (HandOver /\ GroupsFull => AllSeated)'
BY SeatedAll, PTL

\* A client joins.  If that completes the committee its group is served now, and
\* nobody of it has done anything.
LEMMA RegisterUnseen ==
  ASSUME Serving, Serving', Watched, Watched', [InStepNext]_vars,
         NEW s \in Shards, OnlyJoins(RegisterInStep(s))
  PROVE  UNCHANGED Books!vars
<1>1. /\ RegisterInStep(s) /\ work' = work
      /\ UNCHANGED <<pool, height, chain, WitnessCount>>
  BY DEF OnlyJoins, books
<1>2. /\ Winner = None
      /\ \A d \in Client : Step(d) # "idle" => client'[d].round < round'
  BY <1>1, RegisterDuties DEF Serving
<1>3. round' = round /\ round \in Nat \ {0}
  BY <1>1, JoinSeats DEF Serving, HandOver, Seating, TypeOK
<1>4. \A d \in Client : client'[d].round = round => Task(d) = Held(NoWork)
  <2> TAKE d \in Client
  <2> HAVE client'[d].round = round
  <2>1. Step(d) = "idle"
    BY <1>2, <1>3
  <2> QED BY <2>1 DEF Serving, Duties, Fresh
<1>5. \A d \in Client : Task(d)' = Task(d)
  BY <1>1 DEF Task, Held
<1>6. Held(NoWork)' = Held(NoWork)
  BY DEF Held, NoWork
<1>7. ASSUME NEW r \in Rounds, NEW e \in Seat PROVE Shown(r, e)' = Shown(r, e)
  <2>1. r \in Nat \ {0}
    BY RoundsBound
  <2>2. CASE Served(r)
    <3>1. PICK c : c = Occupant(r, e)
      OBVIOUS
    <3>2. Served(r)' /\ Occupant(r, e)' = c
      BY <2>1, <2>2, <3>1, OccupantsStay
    <3>3. c \in Client
      <4>1. c \in Entries(e[1], r)
        BY <2>1, <2>2, <3>1, SeatsOccupied DEF Serving
      <4> QED BY <4>1 DEF Entries, Registered
    <3>4. Task(Occupant(r, e))' = Task(c)'
      BY <3>2 DEF Task
    <3> QED BY <1>5, <2>2, <3>1, <3>2, <3>3, <3>4 DEF Shown
  <2>3. CASE ~Served(r) /\ Served(r)'
    <3>1. r = round
      BY <1>2, <1>3, <2>1, <2>3 DEF Served
    <3>2. PICK c : c = Occupant(r, e)'
      OBVIOUS
    <3>3. c \in Entries(e[1], r)'
      BY <2>1, <2>3, <3>2, SeatedAllNext DEF Serving, AllSeated
    <3>4. c \in Client /\ client'[c].round = round
      BY <3>1, <3>3 DEF Entries, Registered
    <3>5. Task(Occupant(r, e))' = Task(c)'
      BY <3>2 DEF Task
    <3> QED BY <1>4, <1>5, <1>6, <2>3, <3>4, <3>5 DEF Shown
  <2>4. CASE ~Served(r) /\ ~Served(r)'
    BY <1>6, <2>4 DEF Shown
  <2> QED BY <2>2, <2>3, <2>4
<1>8. ExecOf' = ExecOf
  BY <1>7, SeenSame
<1>9. LeaderOf' = LeaderOf
  <2>1. LeaderOf = Held(NoWork)
    BY <1>2 DEF Watched
  <2>2. CASE Winner' = None
    BY <1>6, <2>1, <2>2 DEF Watched
  <2>3. CASE Winner' # None
    <3>1. PICK c \in Client : c = Winner' /\ client'[c].round = round
      BY <1>3, <2>3 DEF Serving, HandOver, Seating, OneSeatPerShard, Committee
    <3>2. LeaderOf' = ShownLeader(Task(c))'
      BY <3>1 DEF Watched
    <3>3. ShownLeader(Task(c))' = ShownLeader(Task(c)')
      BY DEF ShownLeader, Holds, LeaderStep
    <3>4. Task(c)' = Held(NoWork)
      BY <1>4, <1>5, <3>1
    <3>5. ShownLeader(Held(NoWork)) = Held(NoWork)
      BY DEF ShownLeader, Held, NoWork, Holds, LeaderStep
    <3> QED BY <2>1, <3>2, <3>3, <3>4, <3>5
  <2> QED BY <2>2, <2>3
<1> QED BY <1>1, <1>3, <1>8, <1>9 DEF Books!vars, Books!clients

\* Every step.
LEMMA StepSteady ==
  ASSUME ShardNum >= MinVote, Serving, [HorizonNext]_serverVars
  PROVE  [Books!SteadyNext]_(Books!vars)
<1>1. Serving' /\ [InStepNext]_vars /\ Watched /\ Watched'
  BY StepServing
<1>2. CASE OnlyJoins(AssignShardNum) \/ UNCHANGED serverVars
  <2>1. UNCHANGED <<round, client, seat, Winner, work, pool, height, chain, WitnessCount>>
    BY <1>2 DEF OnlyJoins, AssignShardNum, groups, serverVars, vars, books
  <2>2. \A d \in Client : Task(d)' = Task(d)
    BY <2>1 DEF Task, Held
  <2>3. ExecOf' = ExecOf
    BY <1>1, <2>1, <2>2, ServedStays, ExecutorsStay
  <2>4. LeaderOf' = LeaderOf
    BY <1>1, <2>1, <2>2, LeaderStays DEF Serving
  <2> QED BY <2>1, <2>3, <2>4 DEF Books!vars, Books!clients
<1>3. ASSUME NEW s \in Shards, OnlyJoins(RegisterInStep(s)) PROVE UNCHANGED Books!vars
  BY <1>1, <1>3, RegisterUnseen
<1>4. ASSUME NEW c \in Client, ClientSteps(c)
      PROVE  Books!SteadyNext \/ UNCHANGED Books!vars
  <2>1. CASE Cardinality(Witnesses) >= MinVote /\ LeaderPacks(c)
    BY <1>1, <2>1, LeaderPacksSteady
  <2>2. CASE LeaderReadsHeight(c)
    BY <1>1, <2>2, LeaderReadsSteady
  <2>3. CASE PackAccount(c) \/ MultiCastBlock(c) \/ SendVote(c)
    BY <1>1, <2>3, CommitteeUnseen
  <2>4. CASE (\A d \in Committee : work[d].step # "asked") /\ UploadBlock(c)
    BY <1>1, <2>4, BlockSteady
  <2>5. CASE ExecutorPacks(c)
    BY <1>1, <2>5, ExecutorPacksSteady
  <2>6. CASE (\A d \in OwedRoots : client[d].round >= client[c].round) /\ WitnessTx(c)
    BY <1>1, <2>6, WitnessSteady
  <2>7. CASE PackValidTx(c)
    BY <1>1, <2>7, PackValidSteady
  <2>8. ASSUME NEW root \in Root, UploadRoot(c, root) PROVE Books!SteadyNext
    BY <1>1, <2>8, RootSteady
  <2> QED BY <1>4, <2>1, <2>2, <2>3, <2>4, <2>5, <2>6, <2>7, <2>8
          DEF ClientSteps, LeaderSteps, ExecutorSteps
<1> QED BY <1>2, <1>3, <1>4 DEF HorizonNext, JoinsInStep

\* The whole server implements the pipeline on its steady schedule, although it
\* is Membership that makes its groups and leaders: whenever a committee, one
\* member of every shard, is enough to vote for a block.
THEOREM ServerImplementsPipeline == ShardNum >= MinVote => (HorizonSpec => ServerIsSteady)
<1> SUFFICES ASSUME ShardNum >= MinVote PROVE HorizonSpec => ServerIsSteady
  OBVIOUS
<1>1. HorizonInit => Serving /\ Books!Init
  BY InitWorks, InitDuties DEF Serving, HorizonInit, Books!LedgerInit
<1>2. Serving /\ [HorizonNext]_serverVars => Serving' /\ [Books!SteadyNext]_(Books!vars)
  BY StepServing, StepSteady
<1> QED BY <1>1, <1>2, PTL DEF HorizonSpec, ServerIsSteady, Books!SteadySpec

-----------------------------------------------------------------------------
(***************************************************************************)
(* What is proved of the pipeline and the ledger holds of the whole server. *)
(* Pipeline is Books with any number of votes in a header.                 *)
(***************************************************************************)
Pipeline == INSTANCE LedgerProofs WITH
  Executor <- Seat, Rounds <- Cardinality(Rounds), RootVotes <- Nat,
  exec <- ExecOf, leader <- LeaderOf

\* The seats are finitely many,
LEMMA SeatsCounted ==
  /\ IsFiniteSet(Seat)
  /\ Cardinality(Seat) = ShardNum * (CLIENT_MAX - 1)
<1>1. ShardNum \in Nat /\ CLIENT_MAX - 1 \in Nat
  BY MembershipAssumption DEF MembershipAssumption
<1>2. IsFiniteSet(Shards) /\ Cardinality(Shards) = ShardNum
  <2>1. Shards = 1 .. ShardNum /\ ShardNum - 1 + 1 = ShardNum
    BY <1>1 DEF Shards
  <2> QED BY <1>1, <2>1, FS_Interval
<1>3. IsFiniteSet(1 .. CLIENT_MAX - 1) /\ Cardinality(1 .. CLIENT_MAX - 1) = CLIENT_MAX - 1
  BY <1>1, FS_Interval
<1> QED BY <1>2, <1>3, FS_Product DEF Seat

\* and the votes that suffice are two thirds of a group, or one.
LEMMA MinVoteBounds ==
  /\ MinVote \in Nat \ {0}
  /\ MinVote = 1 \/ MinVote = (2 * CLIENT_MAX) \div 3
<1> DEFINE n == (2 * CLIENT_MAX) \div 3
<1>1. n \in Int
  BY MembershipAssumption DEF MembershipAssumption
<1>2. MinVote = Max({1, n})
  BY DEF MinVote
<1> HIDE DEF n
<1>3. \E x \in {1, n} : \A y \in {1, n} : x >= y
  <2>1. CASE n >= 1
    BY <1>1, <2>1
  <2>2. CASE ~(n >= 1)
    BY <1>1, <2>2
  <2> QED BY <2>1, <2>2
<1>4. MinVote \in {1, n} /\ MinVote >= 1
  BY <1>2, <1>3 DEF Max
<1>5. MinVote = 1 \/ MinVote = n
  BY <1>4
<1>6. MinVote \in Nat \ {0}
  BY <1>1, <1>4
<1> QED BY <1>5, <1>6 DEF n

\* So the constants of the instance are as the pipeline and the ledger assume,
\* once there are clients enough for one round.
LEMMA PipelineAssumptions ==
  ASSUME Rounds # {}
  PROVE  Pipeline!TxPipelineAssumption /\ Pipeline!LedgerAssumption
<1>1. \A S : Pipeline!Cardinality(S) = Cardinality(S)
  BY DEF Pipeline!Cardinality, Cardinality
<1>2. Pipeline!IsFiniteSet(Seat)
  BY SeatsCounted DEF Pipeline!IsFiniteSet, IsFiniteSet
<1>3. ShardNum \in Nat \ {0, 1} /\ CLIENT_MAX \in Nat \ {0, 1}
  BY MembershipAssumption, ServerAssumption DEF MembershipAssumption, ServerAssumption
<1>4. Cardinality(Seat) >= MinVote
  <2> DEFINE n == (2 * CLIENT_MAX) \div 3
  <2>1. n \in Int /\ 3 * n <= 2 * CLIENT_MAX
    BY <1>3
  <2>2. ShardNum * (CLIENT_MAX - 1) >= 2 * (CLIENT_MAX - 1)
    BY <1>3
  <2>3. MinVote = 1 \/ MinVote = n
    BY MinVoteBounds
  <2> HIDE DEF n
  <2>4. n <= 2 * (CLIENT_MAX - 1) /\ 1 <= 2 * (CLIENT_MAX - 1)
    BY <1>3, <2>1
  <2> QED BY <1>3, <2>1, <2>2, <2>3, <2>4, SeatsCounted
<1>5. Cardinality(Rounds) \in Nat \ {0}
  BY RoundsBound
<1>6. Pipeline!TxPipelineAssumption
  BY <1>1, <1>2, <1>3, <1>4, <1>5, MinVoteBounds, ServerAssumption
     DEF Pipeline!TxPipelineAssumption, ServerAssumption
<1>7. Pipeline!LedgerAssumption
  BY ServerAssumption DEF Pipeline!LedgerAssumption, ServerAssumption
<1> QED BY <1>6, <1>7

-----------------------------------------------------------------------------
\* The two instances are about the same pipeline: at the start,
LEMMA SameInit == Books!LedgerInit => Pipeline!LedgerInit
BY DEF Books!LedgerInit, Pipeline!LedgerInit, Books!Init, Pipeline!Init,
       Books!Stages, Pipeline!Stages, Books!Shards, Pipeline!Shards,
       Books!MakePool, Pipeline!MakePool, Books!Empty, Pipeline!Empty,
       Books!Kinds, Pipeline!Kinds, Books!NoLists, Pipeline!NoLists,
       Books!Initially, Pipeline!Initially, Books!Made, Pipeline!Made,
       Books!Nothing, Pipeline!Nothing, Books!Accounts, Pipeline!Accounts,
       Books!Struct, Pipeline!Struct, Books!Address, Pipeline!Address

\* when executors and leaders pack,
LEMMA SamePacked ==
  \A stage, S, h : Books!Packed(stage, S, h) = Pipeline!Packed(stage, S, h)
BY DEF Books!Packed, Pipeline!Packed, Books!Shards, Pipeline!Shards,
       Books!PackTransactionList, Pipeline!PackTransactionList,
       Books!Taken, Pipeline!Taken, Books!Kinds, Pipeline!Kinds

\* when a block is appended,
LEMMA SameAppend == Books!AppendBlock(MinVote) <=> Pipeline!AppendBlock(MinVote)
BY DEF Books!AppendBlock, Pipeline!AppendBlock, Books!Shards, Pipeline!Shards,
       Books!Empty, Pipeline!Empty, Books!Kinds, Pipeline!Kinds,
       Books!NoLists, Pipeline!NoLists, Books!Block, Pipeline!Block,
       Books!Accept, Pipeline!Accept, Books!Refuse, Pipeline!Refuse,
       Books!Sent, Pipeline!Sent, Books!Appended, Pipeline!Appended,
       Books!AllButLast, Pipeline!AllButLast, Books!Origin, Pipeline!Origin,
       Books!RelaysOf, Pipeline!RelaysOf, Books!Nothing, Pipeline!Nothing

\* in every step,
LEMMA SameStep == Books!SteadyNext => Pipeline!SteadyNext
<1>1. \A S : Books!Cardinality(S) = Pipeline!Cardinality(S)
  BY DEF Pipeline!Cardinality, Books!Cardinality
<1>2. Books!Groups = Pipeline!Groups
  BY DEF Books!Groups, Pipeline!Groups
<1>3. \A r : Books!Ended(r) <=> Pipeline!Ended(r)
  BY DEF Books!Ended, Pipeline!Ended
<1>4. Books!Witness(round) = Pipeline!Witness(round)
  BY DEF Books!Witness, Pipeline!Witness
<1>5. ASSUME NEW r, NEW e
      PROVE  /\ Books!ExecutorPacks(r, e) <=> Pipeline!ExecutorPacks(r, e)
             /\ Books!WitnessTx(r, e) <=> Pipeline!WitnessTx(r, e)
             /\ Books!PackValidTx(r, e) <=> Pipeline!PackValidTx(r, e)
             /\ Books!CollectRoot(r, e) <=> Pipeline!CollectRoot(r, e)
  <2>1. Books!ExecutorPacks(r, e) <=> Pipeline!ExecutorPacks(r, e)
    BY SamePacked DEF Books!ExecutorPacks, Pipeline!ExecutorPacks,
       Books!ListsOf, Pipeline!ListsOf, Books!Shards, Pipeline!Shards
  <2>2. Books!WitnessTx(r, e) <=> Pipeline!WitnessTx(r, e)
    BY DEF Books!WitnessTx, Pipeline!WitnessTx, Books!Stepped, Pipeline!Stepped,
       Books!Witnessed, Pipeline!Witnessed, Books!Sent, Pipeline!Sent,
       Books!Appended, Pipeline!Appended, Books!Kinds, Pipeline!Kinds,
       Books!Shards, Pipeline!Shards
  <2>3. Books!PackValidTx(r, e) <=> Pipeline!PackValidTx(r, e)
    BY SamePacked DEF Books!PackValidTx, Pipeline!PackValidTx,
       Books!Stepped, Pipeline!Stepped, Books!AllButLast, Pipeline!AllButLast
  <2>4. Books!CollectRoot(r, e) <=> Pipeline!CollectRoot(r, e)
    BY DEF Books!CollectRoot, Pipeline!CollectRoot, Books!Stepped, Pipeline!Stepped
  <2> QED BY <2>1, <2>2, <2>3, <2>4
<1>6. Books!LeaderPacks <=> Pipeline!LeaderPacks
  BY SamePacked DEF Books!LeaderPacks, Pipeline!LeaderPacks,
     Books!ListsOf, Pipeline!ListsOf, Books!Shards, Pipeline!Shards
<1>7. Books!LeaderReadsHeight <=> Pipeline!LeaderReadsHeight
  BY DEF Books!LeaderReadsHeight, Pipeline!LeaderReadsHeight
<1> QED BY <1>1, <1>2, <1>3, <1>4, <1>5, <1>6, <1>7, SameAppend
        DEF Books!SteadyNext, Pipeline!SteadyNext

\* and when a block is booked.
LEMMA SameSum == \A f : Books!SumOf(f) = Pipeline!SumOf(f)
BY DEF Books!SumOf, Pipeline!SumOf, Books!MapThenSumSet, Pipeline!MapThenSumSet,
       Books!MapThenFoldSet, Pipeline!MapThenFoldSet

\* That sums over the same addresses.
LEMMA SameBooked ==
  \A v, lists : Books!Booked(v, lists) <=> Pipeline!Booked(v, lists)
BY SameSum
   DEF Books!Booked, Pipeline!Booked, Books!ledger, Pipeline!ledger,
       Books!UpdateChainWithBlock, Pipeline!UpdateChainWithBlock,
       Books!Verified, Pipeline!Verified, Books!UpdateChain, Pipeline!UpdateChain,
       Books!Struct, Pipeline!Struct, Books!Address, Pipeline!Address,
       Books!Gain, Pipeline!Gain, Books!Shards, Pipeline!Shards

\* What is left alone in one is left alone in the other.
LEMMA SameVars == Books!vars = Pipeline!vars /\ money = Pipeline!ledger
BY DEF Books!vars, Pipeline!vars, Books!clients, Pipeline!clients, money, Pipeline!ledger
-----------------------------------------------------------------------------
(***************************************************************************)
(* The votes in a header are numbers.                                      *)
(***************************************************************************)
\* A finite set of numbers has a largest one.
LEMMA MaxIsIn ==
  ASSUME NEW S, IsFiniteSet(S), S \subseteq Nat, S # {}
  PROVE  Max(S) \in Nat
<1> DEFINE Q == {T \in SUBSET S : T # {} => \E x \in T : \A y \in T : x >= y}
<1>1. {} \in Q
  OBVIOUS
<1>2. ASSUME NEW T \in Q, NEW x \in S, x \notin T PROVE T \cup {x} \in Q
  <2>1. \E m \in T \cup {x} : \A y \in T \cup {x} : m >= y
    <3>1. CASE T = {}
      BY <3>1
    <3>2. CASE T # {}
      <4>1. PICK m \in T : \A y \in T : m >= y
        BY <3>2
      <4>2. m \in Nat /\ x \in Nat /\ T \subseteq Nat
        OBVIOUS
      <4>3. CASE m >= x
        BY <4>1, <4>3
      <4>4. CASE ~(m >= x)
        <5>1. \A y \in T \cup {x} : x >= y
          BY <4>1, <4>2, <4>4
        <5> QED BY <5>1
      <4> QED BY <4>3, <4>4
    <3> QED BY <3>1, <3>2
  <2> QED BY <2>1
<1> HIDE DEF Q
<1>3. Q = SUBSET S
  <2>1. Q \in SUBSET SUBSET S
    BY DEF Q
  <2> QED BY <1>1, <1>2, <2>1, SetInd
<1>4. \E x \in S : \A y \in S : x >= y
  BY <1>3 DEF Q
<1> QED BY <1>4 DEF Max

\* PackAccount answers numbers.
LEMMA AnswersAreNumbers == HandOver => VotesAnswered \in [Shards -> Nat]
<1> SUFFICES ASSUME HandOver, NEW s \in Shards
             PROVE  Max({RootsVote[s][root] : root \in Root}) \in Nat
  BY DEF VotesAnswered
<1> DEFINE v == RootsVote[s]
           S == {v[root] : root \in Root}
<1>1. v \in [Root -> Nat]
  BY DEF HandOver, Seating, TypeOK
<1>2. IsFiniteSet(Root) /\ Root # {}
  BY MembershipAssumption, ServerAssumption DEF MembershipAssumption, ServerAssumption
<1> HIDE DEF v
<1>3. IsFiniteSet(S)
  <2>1. v \in Surjection(Root, S)
    BY <1>1 DEF Surjection
  <2> HIDE DEF S
  <2> QED BY <1>2, <2>1, FS_Surjection
<1>4. S \subseteq Nat /\ S # {}
  BY <1>1, <1>2
<1> HIDE DEF S
<1>5. Max(S) \in Nat
  BY <1>3, <1>4, MaxIsIn
<1> QED BY <1>5 DEF S, v

\* What any step does to a header: PackAccount's answer, or nothing.
LEMMA StepHeaders ==
  ASSUME HandOver, Working, [HorizonNext]_serverVars
  PROVE  \A d \in Client : Header(d)' = Header(d) \/ Header(d)' = VotesAnswered
<1>1. CASE UNCHANGED work
  BY <1>1 DEF Header
<1>2. ASSUME NEW c \in Client, ClientSteps(c)
      PROVE  \A d \in Client : Header(d)' = Header(d) \/ Header(d)' = VotesAnswered
  <2> USE DEF Working
  <2>1. CASE LeaderPacks(c)
    <3>1. PICK y : work' = [work EXCEPT ![c] = [@ EXCEPT !.step = "packing", !.lists = y]]
      BY <2>1 DEF LeaderPacks
    <3> QED BY <3>1, FieldsStep
  <2>2. CASE LeaderReadsHeight(c)
    <3>1. PICK y : work' = [work EXCEPT ![c] = [@ EXCEPT !.step = "packed", !.height = y]]
      BY <2>2 DEF LeaderReadsHeight
    <3> QED BY <3>1, FieldsStep
  <2>3. CASE PackAccount(c)
    <3>1. PICK y : /\ y = VotesAnswered
                   /\ work' = [work EXCEPT ![c] = [@ EXCEPT !.step = "ready", !.votes = y]]
      BY <2>3 DEF PackAccount
    <3>2. Header(c)' = y /\ \A d \in Client : d # c => Header(d)' = Header(d)
      BY <3>1, AnswerStep
    <3> QED BY <3>1, <3>2
  <2>4. CASE MultiCastBlock(c)
    BY <2>4, MultiCastWorks
  <2>5. CASE SendVote(c)
    BY <2>5, VoteWorks
  <2>6. CASE ExecutorPacks(c)
    <3>1. PICK y, z : work' = [work EXCEPT ![c] = [@ EXCEPT
                        !.step = "packed", !.lists = y, !.height = z]]
      BY <2>6 DEF ExecutorPacks
    <3> QED BY <3>1, FieldsStep
  <2>7. CASE UploadBlock(c) \/ WitnessTx(c) \/ PackValidTx(c)
    <3>1. PICK x : Goes(c, x)
      BY <2>7 DEF UploadBlock, WitnessTx, PackValidTx
    <3> QED BY <3>1, GoesSteps
  <2>8. ASSUME NEW root \in Root, UploadRoot(c, root)
        PROVE  \A d \in Client : Header(d)' = Header(d)
    BY <2>8, GoesSteps DEF UploadRoot
  <2> QED BY <1>2, <2>1, <2>2, <2>3, <2>4, <2>5, <2>6, <2>7, <2>8
          DEF ClientSteps, LeaderSteps, ExecutorSteps
<1> QED BY <1>1, <1>2 DEF HorizonNext, JoinsInStep, OnlyJoins, serverVars

\* Every header carries a number of votes for every shard.
HeadersCount == \A c \in Client : Header(c) \in [Shards -> Nat]

\* It stays so.
LEMMA StepCount ==
  ASSUME HandOver, Working, HeadersCount, [HorizonNext]_serverVars
  PROVE  HeadersCount'
<1>1. \A d \in Client : Header(d)' \in [Shards -> Nat]
  BY StepHeaders, AnswersAreNumbers DEF HeadersCount
<1>2. Shards' = Shards
  BY DEF Shards
<1> QED BY <1>1, <1>2 DEF HeadersCount

-----------------------------------------------------------------------------
\* Every step is one of the ledger: a block is appended and booked with the
\* votes of its leader's header, and no other request touches the accounts.
LEMMA StepLedger ==
  ASSUME ShardNum >= MinVote, Serving, HeadersCount, [HorizonNext]_serverVars
  PROVE  [Pipeline!LedgerNext]_<<Pipeline!vars, Pipeline!ledger>>
<1>1. CASE \E c \in Client : UploadsVoted(c)
  <2>1. PICK c \in Client : UploadBlock(c) /\ \A d \in Committee : work[d].step # "asked"
    BY <1>1 DEF UploadsVoted
  <2> DEFINE v == work[c].votes
  <2>2. Serving' /\ [InStepNext]_vars /\ Watched /\ Watched'
    BY StepServing
  <2>4. Books!AppendBlock(MinVote) /\ LeaderOf.lists = work[c].lists
    BY <2>1, <2>2, BlockSteady
  <2>5. Books!Booked(v, LeaderOf.lists)
    BY <2>1, <2>4 DEF UploadBlock, TakesBlock
  <2>6. v \in [Shards -> Nat]
    BY DEF HeadersCount, Header
  <2>7. v \in [Pipeline!Shards -> Nat]
    BY <2>6 DEF Pipeline!Shards, Shards
  <2> HIDE DEF v
  <2>8. Pipeline!LedgerAppendBlock(MinVote, v)
    BY <2>4, <2>5, SameAppend, SameBooked DEF Pipeline!LedgerAppendBlock
  <2> QED BY <2>7, <2>8 DEF Pipeline!LedgerNext
<1>2. CASE UNCHANGED <<round, height, money>>
  <2>1. UNCHANGED Pipeline!ledger
    BY <1>2, SameVars DEF money, Pipeline!ledger
  <2>2. CASE UNCHANGED Books!vars
    <3>1. UNCHANGED Pipeline!vars
      BY <2>2 DEF Books!vars, Pipeline!vars, Books!clients, Pipeline!clients
    <3> QED BY <2>1, <3>1
  <2>3. CASE Books!SteadyNext
    <3>1. Pipeline!SteadyNext
      BY <2>3, SameStep
    <3>2. ~Pipeline!AppendBlock(MinVote)
      <4>1. round \in Nat
        BY DEF Serving, HandOver, Seating, TypeOK
      <4> QED BY <1>2, <4>1 DEF Pipeline!AppendBlock
    <3>3. Pipeline!Handlers
      BY <3>1, <3>2 DEF Pipeline!SteadyNext, Pipeline!Handlers, Pipeline!ExecutorSteps
    <3> QED BY <2>1, <3>3 DEF Pipeline!LedgerNext, Pipeline!LedgerHandlers
  <2> QED BY <2>2, <2>3, StepSteady
<1> QED BY <1>1, <1>2, OnlyBlocksBook

\* The whole server implements the ledger.
THEOREM ServerImplementsLedger ==
  ASSUME ShardNum >= MinVote
  PROVE  HorizonSpec => Pipeline!LedgerSpec
<1> DEFINE Inv == Serving /\ HeadersCount
<1>1. HorizonInit => Inv /\ Pipeline!LedgerInit
  <2> SUFFICES ASSUME HorizonInit PROVE Inv /\ Pipeline!LedgerInit
    OBVIOUS
  <2>1. Serving
    BY InitWorks, InitDuties DEF Serving
  <2>2. Books!LedgerInit
    BY DEF HorizonInit
  <2>3. HeadersCount
    BY DEF HorizonInit, HeadersCount, Header, NoWork
  <2> QED BY <2>1, <2>2, <2>3, SameInit
<1>2. Inv /\ [HorizonNext]_serverVars =>
        Inv' /\ [Pipeline!LedgerNext]_<<Pipeline!vars, Pipeline!ledger>>
  BY StepServing, StepCount, StepLedger DEF Serving
<1> QED BY <1>1, <1>2, PTL DEF HorizonSpec, Pipeline!LedgerSpec

\* Whatever the clients that register do, in the whole server balances and relay
\* transactions on their way add up to the deposits.
THEOREM ServerConservesValue ==
  ASSUME ShardNum >= MinVote, Rounds # {}
  PROVE  HorizonSpec => []Pipeline!ValueConserved
<1>1. Pipeline!TxPipelineAssumption /\ Pipeline!LedgerAssumption
  BY PipelineAssumptions
<1>2. Pipeline!LedgerSpec => []Pipeline!ValueConserved
  BY <1>1, Pipeline!ValueIsConserved
     DEF Pipeline!TxPipelineAssumption, Pipeline!LedgerAssumption
<1> QED BY <1>2, ServerImplementsLedger, PTL

\* Lists are filed under their shards, executors that packed at one height
\* witness the same, and no payment on the chain is without its relay transaction.
THEOREM ServerLosesNoPayment ==
  ASSUME ShardNum >= MinVote, Rounds # {}
  PROVE  HorizonSpec =>
           [](Pipeline!TypeOK /\ Pipeline!ListsAgree /\ Pipeline!RelaysSurvive)
<1>1. Pipeline!TxPipelineAssumption /\ Pipeline!LedgerAssumption
  BY PipelineAssumptions
<1>2. Pipeline!LedgerSpec =>
        [](Pipeline!TypeOK /\ Pipeline!ListsAgree /\ Pipeline!RelaysSurvive)
  BY <1>1, Pipeline!LedgerLosesNoPayment
     DEF Pipeline!TxPipelineAssumption, Pipeline!LedgerAssumption
<1> QED BY <1>2, ServerImplementsLedger, PTL

\* The whole server is one first-in first-out queue per shard and kind, from the
\* original pools to the chain, for groups of at most the 100000 executors that
\* the counter is lowered by.
THEOREM ServerImplementsQueue ==
  ASSUME ShardNum >= MinVote, Rounds # {}, ShardNum * (CLIENT_MAX - 1) <= 100000
  PROVE  HorizonSpec => Pipeline!PipelineIsQueue
<1>1. Pipeline!TxPipelineAssumption /\ Pipeline!LedgerAssumption
  BY PipelineAssumptions
<1>2. Pipeline!Cardinality(Seat) <= 100000
  <2>1. Pipeline!Cardinality(Seat) = Cardinality(Seat)
    BY DEF Pipeline!Cardinality, Cardinality
  <2> QED BY <2>1, SeatsCounted
<1>3. Pipeline!SteadySpec => Pipeline!PipelineIsQueue
  BY <1>1, <1>2, Pipeline!PipelineImplementsQueue
     DEF Pipeline!TxPipelineAssumption, Pipeline!LedgerAssumption
<1>4. HorizonSpec => Pipeline!SteadySpec
  <2>1. Books!Init => Pipeline!Init
    BY DEF Books!Init, Pipeline!Init,
       Books!Stages, Pipeline!Stages, Books!Shards, Pipeline!Shards,
       Books!MakePool, Pipeline!MakePool, Books!Empty, Pipeline!Empty,
       Books!Kinds, Pipeline!Kinds, Books!NoLists, Pipeline!NoLists,
       Books!Initially, Pipeline!Initially, Books!Made, Pipeline!Made,
       Books!Nothing, Pipeline!Nothing
  <2>2. [Books!SteadyNext]_(Books!vars) => [Pipeline!SteadyNext]_(Pipeline!vars)
    BY SameStep DEF Books!vars, Pipeline!vars, Books!clients, Pipeline!clients
  <2>3. ServerIsSteady => Pipeline!SteadySpec
    BY <2>1, <2>2, PTL DEF ServerIsSteady, Books!SteadySpec, Pipeline!SteadySpec
  <2> QED BY <2>3, ServerImplementsPipeline, PTL
<1> QED BY <1>3, <1>4, PTL
===============================================================================
