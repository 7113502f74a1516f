--------------------------- MODULE MCChannelComm ---------------------------
(* A producer, and consumers that make the calls of the chosen set.  A call *)
(* is a record of who makes it, which method it is, its key, and a number  *)
(* that tells calls of one kind apart.                                     *)
EXTENDS ChannelComm, TLC

CONSTANTS prod, cons, cons2, k1, k2

C(w, op, k, n) == [client |-> w, op |-> op, key |-> k, n |-> n]

MCClients == {prod, cons, cons2}
MCKeys == {k1, k2}

MCClient == [c \in Calls |-> c.client]
MCKey == [c \in Calls |-> c.key]
MCOp == [c \in Calls |-> c.op]

(* Async puts on two keys; one worker takes them with async gets, another  *)
(* with gets that block.                                                   *)
RoutedCalls ==
  {C(prod, "put_async", k1, 1), C(prod, "put_async", k1, 2), C(prod, "put_async", k2, 1),
   C(cons, "get_async", k1, 1), C(cons, "get_async", k2, 1), C(cons2, "get", k1, 1)}

(* More async puts on one key than its queue holds. *)
OneKeyCalls ==
  {C(prod, "put_async", k1, n) : n \in 1..4}
    \cup {C(cons, "get_async", k1, 1), C(cons, "get_async", k1, 2)}

(* A get that does not wait, beside async gets of another worker. *)
NowaitCalls ==
  {C(prod, "put_async", k1, 1), C(prod, "put_async", k1, 2),
   C(cons, "get_async", k1, 1), C(cons2, "get_nowait", k1, 1)}

PassWorkloads == {RoutedCalls, OneKeyCalls, NowaitCalls}

(* put_nowait on a bounded queue. *)
NowaitPutWorkloads ==
  {{C(prod, "put", k1, 1), C(prod, "put_nowait", k1, 1), C(cons, "get", k1, 1)}}

MCCalls == UNION (PassWorkloads \cup NowaitPutWorkloads)
=============================================================================
