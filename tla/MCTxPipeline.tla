---------------------------- MODULE MCTxPipeline ----------------------------
(***************************************************************************)
(* Instances of TxPipeline for TLC, and the loop of PackTransactionList    *)
(* against the closed form the model uses.                                 *)
(***************************************************************************)
EXTENDS TxPipeline, TLC

\* Executors differ in nothing but their names.
Interchangeable == Permutations(Executor)

\* `for i := 0; i < len(channel); i++ { <-channel }` from iteration i on, with n
\* transactions left in the channel: how many it receives.
LoopTakes[i \in Nat, n \in Nat] == IF i < n THEN 1 + LoopTakes[i + 1, n - 1] ELSE 0

\* The loop receives half of what was there, rounded up.
ASSUME LoopTakesHalf == \A n \in 0 .. 40 : LoopTakes[0, n] = Taken(n, n)
=============================================================================
