------------------------------- MODULE Ledger -------------------------------
(***************************************************************************)
(* The accounts, on top of TxPipeline: what VerifyGSRoot and UpdateChain do *)
(* when a block is appended to the chain, with the votes for the shards'   *)
(* state roots that its header carries.                                    *)
(*                                                                          *)
(* AccountMap[s] and NewAccountMap[s] are Go maps from addresses to pointers*)
(* to Account structs; what matters of a map is which structs it points to. *)
(* Every transaction moves a value of 1.                                    *)
(***************************************************************************)
EXTENDS TxPipeline, FiniteSetsExt

CONSTANTS
  Deposit,    \* what every account starts with (100000)
  RootVotes   \* bound: votes a header may carry for a shard's root

ASSUME LedgerAssumption == Deposit \in Nat /\ RootVotes \subseteq Nat

VARIABLES
  AccountMap,     \* per shard and address, the account in force
  NewAccountMap,  \* the account being computed
  Value,          \* of the Account structs
  StateRoot       \* of the last block's header: votes for each shard's root

ledger == <<AccountMap, NewAccountMap, Value, StateRoot>>

-----------------------------------------------------------------------------
\* GetAddressList's result for a shard: payments leave the first address and
\* relays arrive there, internal transactions pay the second.
Address == {"first", "second"}
Struct  == Shards \X Address

Accounts == [s \in Shards |-> [a \in Address |-> <<s, a>>]]

LedgerTypeOK ==
  /\ AccountMap \in [Shards -> [Address -> Struct]]
  /\ NewAccountMap \in [Shards -> [Address -> Struct]]
  /\ Value \in [Struct -> Int]
  /\ StateRoot \in [Shards -> Nat]

\* AppendAccount puts one pointer into both maps.
LedgerInit ==
  /\ Init
  /\ AccountMap = Accounts
  /\ NewAccountMap = Accounts
  /\ Value = [p \in Struct |-> Deposit]
  /\ StateRoot = [s \in Shards |-> 0]

\* The sum of a function's values.
SumOf(f) == MapThenSumSet(LAMBDA x : f[x], DOMAIN f)

\* What a shard's lists add to an address once they are executed.
Gain(lists, a) ==
  IF a = "first"
    THEN Len(lists["Relay"]) - Len(lists["Internal"]) - Len(lists["CrossShard"])
    ELSE Len(lists["Internal"])

\* VerifyGSRoot: a shard whose root has enough votes takes its new accounts.
Verified(votes) ==
  [s \in Shards |-> IF votes[s] >= MinVote THEN NewAccountMap[s] ELSE AccountMap[s]]

\* Mutant: relay transactions are not executed.
UpdateChainNoRelays(maps, lists) ==
  /\ NewAccountMap' = maps
  /\ Value' = [p \in Struct |->
       LET s == p[1]
       IN  Value[p] + SumOf([a \in Address |->
             IF maps[s][a] = p THEN Gain([lists[s] EXCEPT !["Relay"] = <<>>], a) ELSE 0])]

\* Mutant: the new accounts are only those that some transaction touched.
UpdateChainTouched(maps, lists) ==
  /\ NewAccountMap' = [s \in Shards |->
       Restrict(maps[s], {a \in Address : Gain(lists[s], a) # 0})]
  /\ Value' = [p \in Struct |->
       LET s == p[1]
       IN  Value[p] + SumOf([a \in Address |->
             IF maps[s][a] = p THEN Gain(lists[s], a) ELSE 0])]

\* UpdateChain: NewAccountMap becomes the very map that is in force, so every
\* transaction adds to the value the one before it left.
UpdateChain(maps, lists) ==
  /\ NewAccountMap' = maps
  /\ Value' = [p \in Struct |->
       LET s == p[1]
       IN  Value[p] + SumOf([a \in Address |->
             IF maps[s][a] = p THEN Gain(lists[s], a) ELSE 0])]

UpdateChainWithBlock(votes, lists) ==
  /\ AccountMap' = Verified(votes)
  /\ UpdateChain(AccountMap', lists)
  /\ StateRoot' = votes

\* The ledger's part of a block: one that is refused leaves it alone.
Booked(votes, lists) ==
  IF height' = height THEN UNCHANGED ledger ELSE UpdateChainWithBlock(votes, lists)

\* AppendBlock with the ledger's part.
LedgerAppendBlock(vote, votes) ==
  /\ AppendBlock(vote)
  /\ Booked(votes, leader.lists)

-----------------------------------------------------------------------------
LedgerHandlers == Handlers /\ UNCHANGED ledger

LedgerNext ==
  \/ LedgerHandlers
  \/ \E vote \in {0, MinVote}, votes \in [Shards -> RootVotes] :
       LedgerAppendBlock(vote, votes)

LedgerSpec == LedgerInit /\ [][LedgerNext]_<<vars, ledger>>

-----------------------------------------------------------------------------
(***************************************************************************)
(* Properties                                                              *)
(***************************************************************************)
Balance(s, a) == Value[AccountMap[s][a]]

\* Relay transactions that left the payer and have not reached anybody.
InTransit(s) == Len(InBlock(s, "Relay")) + Len(pool[1][s].Channel["Relay"])

Total ==
  SumOf([s \in Shards |-> InTransit(s) + SumOf([a \in Address |-> Balance(s, a)])])

\* Value is conserved: balances and relay transactions on their way add up to
\* the deposits as long as no block was refused, whatever the order of requests,
\* late witnesses and lists recorded twice; and no refusal ever loses any.  (One
\* can make some: its relays are put back while the next leader still gets the
\* cached lists, so that a beneficiary is paid twice.)
ValueConserved ==
  LET deposits == Deposit * Cardinality(Struct)
  IN  Total >= deposits /\ (height = round - 1 => Total = deposits)

\* "Checks whether the shards' state roots are legal, brings the state up to
\* date, and then executes the transactions": the accounts in force change for
\* a shard only when its root had enough votes.
OnlyVerifiedStates ==
  [][\A s \in Shards :
       (\E a \in Address : Balance(s, a)' # Balance(s, a))
         => StateRoot'[s] >= MinVote]_<<vars, ledger>>
=============================================================================
