--------------------------- MODULE MCChannelQueue ---------------------------
(* Calls on one queue.  The sets of calls are named by who shares it.      *)
EXTENDS ChannelQueue, TLC

CONSTANTS p1, p2, p3, h1, n1, g1, g2, g3, m1, b1

MCTasks == {p1, p2, p3, h1, n1, g1, g2, g3, m1, b1}

(* Producers and consumers that block, one of each kind that does not; and *)
(* one consumer of batches beside producers, of which h1 may put an item   *)
(* that is heavier than a batch.                                           *)
ApartWorkloads == {{p1, p2, p3, n1, g1, g2, g3, m1}, {p1, p2, p3, n1, b1}, {p1, p2, h1, n1, b1}}

OpOf(t) ==
  CASE t \in {p1, p2, p3, h1} -> "put"
    [] t = n1 -> "put_nowait"
    [] t \in {g1, g2, g3} -> "get"
    [] t = m1 -> "get_nowait"
    [] OTHER -> "get_batch"

WeightIn(t) ==
  CASE t = h1 -> 5
    [] t \in {p1, n1} -> 2
    [] OTHER -> 1

MCOp == [t \in Tasks |-> OpOf(t)]
MCWeight == [t \in Tasks |-> WeightIn(t)]
MCTarget == [t \in Tasks |-> 4]
=============================================================================
