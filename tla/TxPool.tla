------------------------------- MODULE TxPool -------------------------------
(***************************************************************************)
(* One transaction pool: three channels, and the lists packed last with    *)
(* the height they were packed for.  Packing and appending run under       *)
(* structure.Source.Lock, so each is one step of the modules that use it.  *)
(* A channel holds a million transactions; a send that would block is not  *)
(* modelled.                                                               *)
(***************************************************************************)
EXTENDS Integers, Sequences

Kinds == {"Internal", "CrossShard", "Relay"}

Empty == [k \in Kinds |-> <<>>]

MakePool == [Height |-> 0, List |-> Empty, Channel |-> Empty]

\* How many of n waiting transactions one call takes out of a channel: num of
\* them if there are more, and otherwise what a loop takes whose bound
\* len(channel) shrinks with every receive.
Taken(n, num) == IF n > num THEN num ELSE (n + 1) \div 2

\* Mutant: the lists packed for this height are not reused.
PackTransactionListAnew(p, height, num) ==
  LET taken == [k \in Kinds |-> Taken(Len(p.Channel[k]), num)]
  IN  [Height  |-> height,
       List    |-> [k \in Kinds |-> SubSeq(p.Channel[k], 1, taken[k])],
       Channel |-> [k \in Kinds |->
                      SubSeq(p.Channel[k], taken[k] + 1, Len(p.Channel[k]))]]

\* The pool after PackTransactionList(height, num, num, num); its List is what
\* the call returns.  A height asked for again gets the same lists.
PackTransactionList(p, height, num) ==
  IF height = p.Height
    THEN p
    ELSE LET taken == [k \in Kinds |-> Taken(Len(p.Channel[k]), num)]
         IN  [Height  |-> height,
              List    |-> [k \in Kinds |-> SubSeq(p.Channel[k], 1, taken[k])],
              Channel |-> [k \in Kinds |->
                             SubSeq(p.Channel[k], taken[k] + 1, Len(p.Channel[k]))]]

\* The pool with lists sent to its channels.
Appended(p, lists) ==
  [p EXCEPT !.Channel = [k \in Kinds |-> p.Channel[k] \o lists[k]]]
=============================================================================
