------------------------------- MODULE TxQueue -------------------------------
(***************************************************************************)
(* What the three pool stages together promise: per shard and kind one     *)
(* first-in first-out queue of transactions.  A block takes some from the  *)
(* front of every queue, and each cross-shard transaction it takes leaves  *)
(* one relay transaction at the back of the beneficiary's queue.  Nothing  *)
(* is lost, doubled, or overtaken on the way through the pools.            *)
(***************************************************************************)
EXTENDS TxPool

CONSTANTS
  Shard,     \* the execution shards
  Origin,    \* for each shard, the shard whose cross-shard payments it receives
  TX_NUM,    \* most transactions of a kind a block takes from a shard
  Initially  \* the transactions waiting at the start, per shard and kind

VARIABLES
  log,    \* transactions of the blocks so far, per shard and kind
  queue   \* transactions waiting

Init ==
  /\ log = [s \in Shard |-> Empty]
  /\ queue = Initially

First(n) == [s \in Shard |-> [k \in Kinds |-> SubSeq(queue[s][k], 1, n[s][k])]]

Commit ==
  \E n \in [Shard -> [Kinds -> 0 .. TX_NUM]] :
    LET block == First(n)
        rest  == [s \in Shard |-> [k \in Kinds |->
                   SubSeq(queue[s][k], n[s][k] + 1, Len(queue[s][k]))]]
    IN  /\ \A s \in Shard, k \in Kinds : n[s][k] <= Len(queue[s][k])
        /\ log' = [s \in Shard |-> [k \in Kinds |-> log[s][k] \o block[s][k]]]
        /\ queue' = [s \in Shard |->
             [rest[s] EXCEPT !["Relay"] = @ \o block[Origin[s]]["CrossShard"]]]

Spec == Init /\ [][Commit]_<<log, queue>>
=============================================================================
