---------------------------- MODULE MCServerLocks ----------------------------
(***************************************************************************)
(* Two requests at a time on the first server and one on the second, of    *)
(* every kind the locks tell apart.                                        *)
(***************************************************************************)
EXTENDS ServerLocks, TLC

MCServer   == {1, 2}
MCHandler  == {<<1, 1>>, <<1, 2>>, <<2, 1>>}
MCRequests ==
  (<<1, 1>> :> {"AppendBlock"}) @@
  (<<1, 2>> :> {"CollectRoot", "MultiCastBlock", "PackTransaction"}) @@
  (<<2, 1>> :> {"SendVote"})
=============================================================================
