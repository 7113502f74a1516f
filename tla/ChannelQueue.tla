---------------------------- MODULE ChannelQueue ----------------------------
(***************************************************************************)
(* One queue of a ChannelWorker (scheduler/channel/channel_worker.py): a   *)
(* PeekQueue, which is an asyncio.Queue with peek, and the coroutines that *)
(* Ray runs on it, one per call of put, get, get_batch and their nowait    *)
(* and via_ray forms.                                                      *)
(*                                                                         *)
(* A task is one such call.  It runs without interruption up to an await   *)
(* of a future, so each action is one run of a task: from its start, or    *)
(* from the future that woke it, to its end or its next wait.  put_nowait  *)
(* wakes the first getter and get_nowait the first putter; a task that is  *)
(* woken has left the deque but has not run yet, and others may run first. *)
(***************************************************************************)
EXTENDS Integers, SequencesExt

CONSTANTS
  Tasks,       \* the calls on this queue
  Workloads,   \* the sets of calls that may be made together
  Op,          \* Op[t]: "put", "put_nowait", "get", "get_nowait" or "get_batch"
  Weight,      \* Weight[t]: the weight of the item that task t puts
  Target,      \* Target[t]: the target_weight of a get_batch
  MaxSize      \* maxsize of the queue; 0 is unbounded

Ops == {"put", "put_nowait", "get", "get_nowait", "get_batch"}

ASSUME WorkloadAssumption == Workloads \subseteq SUBSET Tasks
ASSUME OpAssumption == Op \in [Tasks -> Ops]
ASSUME WeightAssumption == Weight \in [Tasks -> Nat] /\ Target \in [Tasks -> Nat]
ASSUME MaxSizeAssumption == MaxSize \in Nat

VARIABLES
  queue,       \* the deque of items; an item is named by the task that puts it
  getters,     \* _getters: the tasks whose getter future is pending
  putters,     \* _putters: the tasks whose putter future is pending
  woken,       \* the tasks whose future is done and that have not run since
  pc,          \* "unused", "called", "waiting", "done", or "raised" (QueueFull, QueueEmpty)
  got          \* the items a task has taken, in order

vars == <<queue, getters, putters, woken, pc, got>>

-----------------------------------------------------------------------------
(* create_queue makes the queue with the maxsize of the channel. *)
DefaultCapacity == 0   \* fault: maxsize is not handed on
Capacity == MaxSize

Full == Capacity > 0 /\ Len(queue) >= Capacity

Of(ops) == {t \in Tasks : Op[t] \in ops}

Getters == Of({"get", "get_batch"})
Putters == Of({"put"})

(* A task runs when it is called and when the future it awaits is done. *)
Runs(t) == pc[t] = "called" \/ t \in woken

(* _wakeup_next, n times: the first n tasks of the deque, and what stays. *)
Wakes(waiters, n) == {waiters[i] : i \in {j \in 1..Len(waiters) : j <= n}}
Stay(waiters, n) == IF n >= Len(waiters) THEN <<>> ELSE SubSeq(waiters, n + 1, Len(waiters))

Init ==
  /\ queue = <<>>
  /\ getters = <<>>
  /\ putters = <<>>
  /\ woken = {}
  /\ \E made \in Workloads :
       pc = [t \in Tasks |-> IF t \in made THEN "called" ELSE "unused"]
  /\ got = [t \in Tasks |-> <<>>]

-----------------------------------------------------------------------------
(* put_nowait of the item of task t. *)
Store(t) ==
  /\ queue' = Append(queue, t)
  /\ getters' = Stay(getters, 1)
  /\ woken' = (woken \ {t}) \cup Wakes(getters, 1)
  /\ pc' = [pc EXCEPT ![t] = "done"]
  /\ UNCHANGED <<putters, got>>

(* The first n items go to task t; each get_nowait wakes one putter. *)
Take(t, n) ==
  /\ queue' = SubSeq(queue, n + 1, Len(queue))
  /\ putters' = Stay(putters, n)
  /\ woken' = (woken \ {t}) \cup Wakes(putters, n)
  /\ got' = [got EXCEPT ![t] = @ \o SubSeq(queue, 1, n)]

Fail(t) ==
  /\ pc' = [pc EXCEPT ![t] = "raised"]
  /\ UNCHANGED <<queue, getters, putters, woken, got>>

Put(t) ==
  /\ Op[t] = "put"
  /\ Runs(t)
  /\ \/ /\ ~Full
        /\ Store(t)
     \/ /\ Full
        /\ putters' = Append(putters, t)
        /\ woken' = woken \ {t}
        /\ pc' = [pc EXCEPT ![t] = "waiting"]
        /\ UNCHANGED <<queue, getters, got>>

\* fault: the item is appended to the deque, and nobody is woken
PutAppending(t) ==
  /\ Op[t] = "put_nowait"
  /\ Runs(t)
  /\ \/ /\ ~Full
        /\ queue' = Append(queue, t)
        /\ pc' = [pc EXCEPT ![t] = "done"]
        /\ UNCHANGED <<getters, putters, woken, got>>
     \/ Full /\ Fail(t)

PutNowait(t) ==
  /\ Op[t] = "put_nowait"
  /\ Runs(t)
  /\ \/ ~Full /\ Store(t)
     \/ Full /\ Fail(t)

(* A getter that finds the queue empty waits at the back of _getters. *)
WaitForItem(t) ==
  /\ getters' = Append(getters, t)
  /\ pc' = [pc EXCEPT ![t] = "waiting"]

\* fault: the item is popped from the deque, and nobody is woken
GetPopping(t) ==
  /\ Op[t] = "get"
  /\ Runs(t)
  /\ woken' = woken \ {t}
  /\ \/ /\ queue # <<>>
        /\ queue' = Tail(queue)
        /\ got' = [got EXCEPT ![t] = <<Head(queue)>>]
        /\ pc' = [pc EXCEPT ![t] = "done"]
        /\ UNCHANGED <<getters, putters>>
     \/ /\ queue = <<>>
        /\ WaitForItem(t)
        /\ UNCHANGED <<queue, putters, got>>

Get(t) ==
  /\ Op[t] = "get"
  /\ Runs(t)
  /\ \/ /\ queue # <<>>
        /\ Take(t, 1)
        /\ pc' = [pc EXCEPT ![t] = "done"]
        /\ UNCHANGED getters
     \/ /\ queue = <<>>
        /\ WaitForItem(t)
        /\ woken' = woken \ {t}
        /\ UNCHANGED <<queue, putters, got>>

GetNowait(t) ==
  /\ Op[t] = "get_nowait"
  /\ Runs(t)
  /\ \/ /\ queue # <<>>
        /\ Take(t, 1)
        /\ pc' = [pc EXCEPT ![t] = "done"]
        /\ UNCHANGED getters
     \/ queue = <<>> /\ Fail(t)

-----------------------------------------------------------------------------
WeightOf(items) == FoldLeft(LAMBDA sum, item : sum + Weight[item], 0, items)

(* The weight of the batch of task t once it has the next n items too. *)
BatchWeight(t, n) == WeightOf(got[t] \o SubSeq(queue, 1, n))

(* The loop of get_batch takes the n-th of the items in the queue: no item *)
(* before it completed the batch, and it and those before it fit.          *)
\* fault: the next item is not counted
FitsWithout(t, n) == BatchWeight(t, n - 1) <= Target[t]
\* fault: a batch never has the whole weight of its target
FitsBelow(t, n) == BatchWeight(t, n) < Target[t]
Fits(t, n) == BatchWeight(t, n) <= Target[t]
\* fault: a batch of the target's weight goes on
CompleteAbove(t, n) == n > 0 /\ BatchWeight(t, n) > Target[t]
Complete(t, n) == n > 0 /\ BatchWeight(t, n) >= Target[t]
Reaches(t, n) == \A m \in 1..n : Fits(t, m) /\ ~Complete(t, m - 1)

(* Each item of the batch is taken with a get that does not wait. *)
\* fault: the items are popped from the deque, and nobody is woken
PopBatch(t, n) ==
  /\ queue' = SubSeq(queue, n + 1, Len(queue))
  /\ woken' = woken \ {t}
  /\ got' = [got EXCEPT ![t] = @ \o SubSeq(queue, 1, n)]
  /\ UNCHANGED putters
TakeBatch(t, n) == Take(t, n)

(* One run of get_batch takes what it may; it ends when the batch is full  *)
(* or the item it peeks at does not fit, and otherwise waits in peek.      *)
GetBatch(t) ==
  /\ Op[t] = "get_batch"
  /\ Runs(t)
  /\ \E n \in 0..Len(queue) :
       /\ Reaches(t, n)
       /\ n < Len(queue) => ~Reaches(t, n + 1)
       /\ TakeBatch(t, n)
       /\ \/ /\ Complete(t, n) \/ n < Len(queue)
             /\ pc' = [pc EXCEPT ![t] = "done"]
             /\ UNCHANGED getters
          \/ /\ ~(Complete(t, n) \/ n < Len(queue))
             /\ WaitForItem(t)

Next ==
  \E t \in Tasks : Put(t) \/ PutNowait(t) \/ Get(t) \/ GetNowait(t) \/ GetBatch(t)

Spec == Init /\ [][Next]_vars

(* A call that was made is delivered, and the event loop runs every task   *)
(* whose future is done.                                                   *)
Fairness ==
  \A t \in Tasks :
    WF_vars(Put(t) \/ PutNowait(t) \/ Get(t) \/ GetNowait(t) \/ GetBatch(t))

FairSpec == Spec /\ Fairness

-----------------------------------------------------------------------------
(* The types of the variables. *)
TypeOK ==
  /\ queue \in Seq(Tasks)
  /\ MaxSize > 0 => Len(queue) <= MaxSize
  /\ getters \in Seq(Getters)
  /\ putters \in Seq(Putters)
  /\ woken \subseteq Getters \cup Putters
  /\ pc \in [Tasks -> {"unused", "called", "waiting", "done", "raised"}]
  /\ got \in [Tasks -> Seq(Tasks)]

WokenOf(S) == woken \cap S

(* No wake-up of a consumer is lost: while consumers are queued, every item *)
(* in the queue has a woken consumer on its way to it.                      *)
NoLostItem ==
  getters # <<>> => Cardinality(WokenOf(Getters)) >= Len(queue)

(* No wake-up of a producer is lost: while producers are queued, every free *)
(* slot has a woken producer on its way to it.                              *)
NoLostSlot ==
  putters # <<>> => Cardinality(WokenOf(Putters)) >= MaxSize - Len(queue)

(* The item was stored, is not in the batch, and would exceed its target. *)
CutBefore(t, item) ==
  /\ pc[item] = "done"
  /\ item \notin ToSet(got[t])
  /\ ~(WeightOf(Append(got[t], item)) <= Target[t])

(* A batch never exceeds its target, and one that is handed over short of  *)
(* it was cut before an item that does not fit: it is empty only when that *)
(* item alone is heavier than the target.                                  *)
BatchWithinTarget ==
  \A t \in Of({"get_batch"}) :
    /\ WeightOf(got[t]) <= Target[t]
    /\ pc[t] = "done" =>
         \/ got[t] # <<>> /\ WeightOf(got[t]) >= Target[t]
         \/ \E item \in Of({"put", "put_nowait"}) : CutBefore(t, item)

(* A consumer of batches that has the queue for itself does not wait while *)
(* what was put is enough for its batch.                                   *)
StoredWeight ==
  FoldFunctionOnSet(+, 0, Weight, {t \in Of({"put", "put_nowait"}) : pc[t] = "done"})

BatchServed ==
  []<>(\A t \in Of({"get_batch"}) : pc[t] = "waiting" => StoredWeight < Target[t])

(* What is stored is eventually taken while somebody waits for it. *)
ItemsReachWaiters ==
  []<>(queue = <<>> \/ \A t \in Getters : pc[t] # "waiting")

(* What is blocked on a full queue is eventually stored while there is room. *)
SlotsReachWaiters ==
  []<>(Full \/ \A t \in Putters : pc[t] # "waiting")

(* Nobody is left waiting for what is there: an item, a slot, or enough    *)
(* for a batch.                                                            *)
EveryoneServed == ItemsReachWaiters /\ SlotsReachWaiters /\ BatchServed
=============================================================================
