-------------------------- MODULE RolloutMigration --------------------------
(***************************************************************************)
(* Migration of rollouts: the RolloutManager of the dynamic scheduler      *)
(* (dynamic_scheduler/manager.py) and the rollout instances.  In an        *)
(* instance two coroutines share a RunningStatusManager (rollout/utils.py):*)
(* rollout(), which generates its groups of sequences and puts them out,   *)
(* and main_loop() of RolloutScalingScheduler, which answers the manager.  *)
(*                                                                         *)
(* Instances are 0..NumInstances-1 and are released from the lowest on.    *)
(* Of the sequences of a group only the numbers completed and aborted are  *)
(* kept.  A coroutine's action is what it does between two awaits.         *)
(* SchedulerResources says how many instances are released; here it is any *)
(* number that leaves room for the running tasks.                          *)
(***************************************************************************)
EXTENDS Integers, Sequences, FiniteSetsExt, SequencesExt

CONSTANTS
  NumInstances,   \* init_instance_num
  Groups,         \* groups of a step
  Requests,       \* the groups of the request that each instance takes
  GroupSize,      \* sequences of a group
  Borrowed,       \* instances on the actor's GPUs, released by pre_process
  MaxRunning,     \* max_running_requests of an instance
  Minibatches,    \* n_minibatches
  PreProcess,     \* use_pre_process_policy
  WaitBeforeLast  \* use_wait_before_last_iter_policy

Instances == 0..(NumInstances - 1)
TotalTasks == Cardinality(Groups) * GroupSize

ASSUME RequestsAssumption ==
  /\ {NumInstances, GroupSize, MaxRunning, Minibatches} \subseteq Nat \ {0}
  /\ IsFiniteSet(Groups)
  /\ Requests \in [Instances -> (SUBSET Groups) \ {{}}]
  /\ UNION {Requests[i] : i \in Instances} = Groups
  /\ \A i, j \in Instances : i = j \/ Requests[i] \cap Requests[j] = {}
  /\ PreProcess => Borrowed \in 1..(NumInstances - 1)

VARIABLES
  completed,   \* num_completed of each group
  aborted,     \* num_aborted of each group
  outputs,     \* how often each group was put into the output channel
  rollout,     \* where rollout() of each instance is
  pending,     \* the groups whose tasks its asyncio.wait waits for
  returned,    \* the groups that it has yet to look at
  putting,     \* the group that it awaits the put of
  running,     \* _running_seq_group
  kept,        \* _aborted_seq_group
  done,        \* _done_seq_group
  exit,        \* exit_rollout_iter
  loop,        \* where main_loop() of each instance is
  requests,    \* the request queue of its channel
  responses,   \* the response queue of its channel
  at,          \* where the manager is
  iter,        \* train_iter
  offset,      \* current_instance_offset
  leaving,     \* the instances that it migrates or finishes
  reports      \* while it migrates: the running tasks that each instance reported

groupVars == <<completed, aborted>>
status == <<running, kept, done, exit>>
coroutine == <<rollout, pending, returned, putting>>
manager == <<at, iter, offset, leaving, reports>>
vars == <<groupVars, outputs, coroutine, status, loop, requests, responses, manager>>

Active(g) == GroupSize - completed[g] - aborted[g]
NoGroups == [i \in Instances |-> {}]
Alive == offset..(NumInstances - 1)

Init ==
  /\ completed = [g \in Groups |-> GroupSize]
  /\ aborted = [g \in Groups |-> 0]
  /\ outputs = [g \in Groups |-> 1]
  /\ rollout = [i \in Instances |-> "ended"]
  /\ pending = NoGroups /\ returned = NoGroups /\ putting = NoGroups
  /\ running = NoGroups /\ done = NoGroups
  /\ kept = [i \in Instances |-> <<>>]
  /\ exit = [i \in Instances |-> FALSE]
  /\ loop = [i \in Instances |-> "get"]
  /\ requests = [i \in Instances |-> <<>>]
  /\ responses = [i \in Instances |-> <<>>]
  /\ at = "idle" /\ iter = 0 /\ offset = 0 /\ leaving = {}
  /\ reports = [i \in Instances |-> 0]

-----------------------------------------------------------------------------
(* The engine.  A sequence completes; or it is aborted, from the time that *)
(* main_loop aborts the generation of its instance.                        *)
SequenceCompletes(i, g) ==
  /\ g \in running[i] /\ Active(g) > 0
  /\ completed' = [completed EXCEPT ![g] = @ + 1]
  /\ UNCHANGED <<aborted, outputs, coroutine, status, loop, requests, responses, manager>>

SequenceAborts(i, g) ==
  /\ g \in running[i] /\ Active(g) > 0
  /\ loop[i] = "migrate_out"
  /\ aborted' = [aborted EXCEPT ![g] = @ + 1]
  /\ UNCHANGED <<completed, outputs, coroutine, status, loop, requests, responses, manager>>

-----------------------------------------------------------------------------
(* rollout().  It takes a request, asserts that nothing is left from       *)
(* before, and makes a task of each group.                                 *)
Residual(i) == running[i] # {} \/ kept[i] # <<>> \/ done[i] # {}

Begin(i) ==
  /\ rollout[i] = "called"
  /\ IF Residual(i)
       THEN /\ rollout' = [rollout EXCEPT ![i] = "failed"]
            /\ UNCHANGED <<pending, running>>
       ELSE /\ rollout' = [rollout EXCEPT ![i] = "wait"]
            /\ pending' = [pending EXCEPT ![i] = Requests[i]]
            /\ running' = [running EXCEPT ![i] = Requests[i]]
  /\ UNCHANGED <<groupVars, outputs, returned, putting, kept, done, exit, loop, requests, responses, manager>>

(* asyncio.wait returns at the first task that is done. *)
Wake(i) ==
  /\ rollout[i] = "wait"
  /\ \E g \in pending[i] : Active(g) = 0
  /\ returned' = [returned EXCEPT ![i] = {g \in pending[i] : Active(g) = 0}]
  /\ rollout' = [rollout EXCEPT ![i] = "handle"]
  /\ UNCHANGED <<groupVars, outputs, pending, putting, status, loop, requests, responses, manager>>

(* rollout() looks at one of the groups after the other.  It awaits the    *)
(* put of a completed one, which is among the running ones until the put   *)
(* has returned; main_loop() can run before that.                          *)
\* fault: the group is marked done before it is put out
PutOutMarked(i, g) ==
  /\ rollout[i] = "handle" /\ putting[i] = {}
  /\ g \in returned[i] /\ completed[g] = GroupSize
  /\ running' = [running EXCEPT ![i] = @ \ {g}]
  /\ outputs' = [outputs EXCEPT ![g] = @ + 1]
  /\ putting' = [putting EXCEPT ![i] = {g}]
  /\ UNCHANGED <<groupVars, rollout, pending, returned, kept, done, exit, loop, requests, responses, manager>>
PutOut(i, g) ==
  /\ rollout[i] = "handle" /\ putting[i] = {}
  /\ g \in returned[i] /\ completed[g] = GroupSize
  /\ outputs' = [outputs EXCEPT ![g] = @ + 1]
  /\ putting' = [putting EXCEPT ![i] = {g}]
  /\ UNCHANGED <<groupVars, rollout, pending, returned, status, loop, requests, responses, manager>>

(* After the last group rollout() waits for tasks or for a notification.   *)
LookedAt(i, g) ==
  /\ returned' = [returned EXCEPT ![i] = @ \ {g}]
  /\ running' = [running EXCEPT ![i] = @ \ {g}]
  /\ rollout' = [rollout EXCEPT ![i] =
       IF returned'[i] # {} THEN "handle" ELSE IF running'[i] # {} THEN "wait" ELSE "notify"]
  /\ pending' = [pending EXCEPT ![i] = IF returned'[i] = {} THEN running'[i] ELSE @]
  /\ UNCHANGED <<groupVars, exit, loop, requests, responses, manager>>

MarkDone(i, g) ==
  /\ g \in putting[i]
  /\ LookedAt(i, g)
  /\ putting' = [putting EXCEPT ![i] = {}]
  /\ done' = [done EXCEPT ![i] = @ \cup {g}]
  /\ UNCHANGED <<outputs, kept>>

MarkAborted(i, g) ==
  /\ rollout[i] = "handle" /\ putting[i] = {}
  /\ g \in returned[i] /\ completed[g] < GroupSize
  /\ LookedAt(i, g)
  /\ kept' = [kept EXCEPT ![i] = Append(@, g)]
  /\ UNCHANGED <<outputs, putting, done>>

\* fault: the aborted groups stay
ClearDone(i) ==
  /\ done' = [done EXCEPT ![i] = {}]
  /\ UNCHANGED kept
Clear(i) ==
  /\ done' = [done EXCEPT ![i] = {}]
  /\ kept' = [kept EXCEPT ![i] = <<>>]

(* wait_notification returns: there are new tasks, or the iteration ends.  *)
Notified(i) ==
  /\ rollout[i] = "notify" /\ exit[i]
  /\ exit' = [exit EXCEPT ![i] = FALSE]
  /\ \/ /\ running[i] # {}
        /\ pending' = [pending EXCEPT ![i] = running[i]]
        /\ rollout' = [rollout EXCEPT ![i] = "wait"]
        /\ UNCHANGED <<done, kept>>
     \/ /\ running[i] = {}
        /\ Clear(i)
        /\ rollout' = [rollout EXCEPT ![i] = "offload"]
        /\ UNCHANGED pending
  /\ UNCHANGED <<groupVars, outputs, returned, putting, running, loop, requests, responses, manager>>

(* offload_engine and report_offloaded. *)
Offload(i) ==
  /\ rollout[i] = "offload"
  /\ rollout' = [rollout EXCEPT ![i] = "ended"]
  /\ responses' = [responses EXCEPT ![i] = Append(@, [action |-> "Offloaded"])]
  /\ UNCHANGED <<groupVars, outputs, pending, returned, putting, status, loop, requests, manager>>

-----------------------------------------------------------------------------
(* main_loop() of an instance. *)
Request(i, action) ==
  /\ loop[i] = "get"
  /\ requests[i] # <<>>
  /\ Head(requests[i]).action = action
  /\ requests' = [requests EXCEPT ![i] = Tail(@)]

Respond(i, response) == responses' = [responses EXCEPT ![i] = Append(@, response)]

RunningTasks(i) == MapThenSumSet(Active, running[i])
AllTasks(i) == GroupSize * (Cardinality(running[i]) + Cardinality(done[i]))

Report(i) ==
  /\ Request(i, "Report")
  /\ Respond(i, [action |-> "Report", total |-> AllTasks(i), running |-> RunningTasks(i)])
  /\ UNCHANGED <<groupVars, outputs, coroutine, status, loop, manager>>

(* The new groups get tasks, which go on with the aborted sequences; those *)
(* of full[g] sequences that have all their tokens complete at once.       *)
\* fault: rollout() is always notified
NotifyAlways(i) == TRUE
\* fault: rollout() is not notified
NotifyNever(i) == exit[i]
NotifyIdle(i) == exit[i] \/ running[i] = {}

\* fault: the aborted sequences stay recorded
AbortedStay(g) == aborted[g]
AbortedCleared(g) == 0

MigrateIn(i) ==
  /\ Request(i, "Migrate_In")
  /\ LET new == ToSet(Head(requests[i]).data) IN
       \E full \in [new -> 0..GroupSize] :
         /\ \A g \in new : full[g] <= aborted[g]
         /\ exit' = [exit EXCEPT ![i] = NotifyIdle(i)]
         /\ running' = [running EXCEPT ![i] = @ \cup new]
         /\ completed' = [g \in Groups |-> completed[g] + IF g \in new THEN full[g] ELSE 0]
         /\ aborted' = [g \in Groups |-> IF g \in new THEN AbortedCleared(g) ELSE aborted[g]]
  /\ UNCHANGED <<outputs, coroutine, kept, done, loop, responses, manager>>

(* Generation is aborted; main_loop() then waits until nothing is running. *)
MigrateOut(i) ==
  /\ Request(i, "Migrate_Out")
  /\ loop' = [loop EXCEPT ![i] = "migrate_out"]
  /\ UNCHANGED <<groupVars, outputs, coroutine, status, responses, manager>>

\* fault: no task, but rollout() has yet to look at some groups
NoneActive(i) == \A g \in running[i] : Active(g) = 0
NoneRunning(i) == running[i] = {}

MigratedOut(i) ==
  /\ loop[i] = "migrate_out"
  /\ NoneRunning(i)
  /\ Respond(i, [action |-> "Migrate_Out", data |-> kept[i]])
  /\ loop' = [loop EXCEPT ![i] = "get"]
  /\ UNCHANGED <<groupVars, outputs, coroutine, status, requests, manager>>

(* Finish and Wait_For_Finish are one to an instance. *)
Finish(i) ==
  /\ Request(i, "Finish")
  /\ loop' = [loop EXCEPT ![i] = "finish"]
  /\ UNCHANGED <<groupVars, outputs, coroutine, status, responses, manager>>

Finished(i) ==
  /\ loop[i] = "finish"
  /\ NoneRunning(i)
  /\ exit' = [exit EXCEPT ![i] = TRUE]
  /\ loop' = [loop EXCEPT ![i] = "get"]
  /\ UNCHANGED <<groupVars, outputs, coroutine, running, kept, done, requests, responses, manager>>

-----------------------------------------------------------------------------
(* The manager.  _scatter_requests and _gather_responses; the answers must *)
(* be of the action that was asked for.                                    *)
Scatter(ids, request) ==
  requests' = [i \in Instances |-> IF i \in ids THEN Append(requests[i], request) ELSE requests[i]]

Answer(i) == Head(responses[i])
Gather(ids) ==
  /\ \A i \in ids : responses[i] # <<>>
  /\ responses' = [i \in Instances |-> IF i \in ids THEN Tail(responses[i]) ELSE responses[i]]

(* A global step: the runner puts the requests in and calls schedule and   *)
(* rollout; pre_process is iteration -1.                                   *)
Schedule ==
  /\ at = "idle"
  /\ \A i \in Instances : rollout[i] = "ended"
  /\ completed' = [g \in Groups |-> 0]
  /\ outputs' = [g \in Groups |-> 0]
  /\ rollout' = [i \in Instances |-> "called"]
  /\ offset' = 0 /\ leaving' = {}
  /\ IF PreProcess
       THEN /\ iter' = -1 /\ at' = "report"
            /\ Scatter(Instances, [action |-> "Report"])
       ELSE /\ iter' = 0 /\ at' = "await_actor"
            /\ UNCHANGED requests
  /\ UNCHANGED <<aborted, pending, returned, putting, status, loop, responses, reports>>

PreProcessing == iter = -1
LastIter == iter = Minibatches - 1
BeforeLastIter == ~PreProcessing /\ iter = Minibatches - 2

FinishAll ==
  /\ Scatter(Alive, [action |-> "Finish"])
  /\ leaving' = Alive
  /\ at' = "finish"
  /\ UNCHANGED iter
ReportAll ==
  /\ Scatter(Alive, [action |-> "Report"])
  /\ at' = "report"
  /\ UNCHANGED <<iter, leaving>>
NextIter ==
  /\ IF LastIter THEN at' = "idle" /\ iter' = 0 ELSE at' = "await_actor" /\ iter' = iter + 1
  /\ leaving' = {}

(* The actor is ready when it has had the groups of another minibatch.     *)
ActorReady ==
  /\ at = "await_actor"
  /\ Cardinality({g \in Groups : outputs[g] > 0}) * Minibatches >= (iter + 1) * Cardinality(Groups)
  /\ \/ Alive = {} /\ NextIter /\ UNCHANGED requests
     \/ Alive # {} /\ LastIter /\ FinishAll
     \/ Alive # {} /\ ~LastIter /\ ReportAll
  /\ UNCHANGED <<groupVars, outputs, coroutine, status, loop, responses, offset, reports>>

Lowest(n) == {i \in Alive : i < offset + n}
Migrate(n) ==
  /\ Scatter(Lowest(n), [action |-> "Migrate_Out"])
  /\ leaving' = Lowest(n)
  /\ at' = "migrate"
  /\ UNCHANGED iter

(* pre_process waits until every instance has its tasks, and half of all   *)
(* tasks are complete.                                                     *)
\* fault: not all instances have begun
HalfDone(total, tasks) == tasks <= TotalTasks \div 2
Borrows(total, tasks) == total = TotalTasks /\ tasks <= TotalTasks \div 2

Decide ==
  LET Sum(f(_)) == MapThenSumSet(f, Alive)
      Total(i) == Answer(i).total
      Tasks(i) == Answer(i).running
      tasks == Sum(Tasks)
  IN
  /\ at = "report"
  /\ Gather(Alive)
  /\ \/ PreProcessing /\ Borrows(Sum(Total), tasks) /\ Migrate(Borrowed)
     \/ PreProcessing /\ ~Borrows(Sum(Total), tasks) /\ ReportAll
     \/ /\ ~PreProcessing
        /\ tasks = 0 \/ (WaitBeforeLast /\ BeforeLastIter)
        /\ FinishAll
     \/ /\ ~PreProcessing /\ tasks > 0 /\ ~(WaitBeforeLast /\ BeforeLastIter)
        /\ \E n \in 0..(Cardinality(Alive) - 1) :
             /\ tasks <= (Cardinality(Alive) - n) * MaxRunning
             /\ IF n = 0 THEN NextIter /\ UNCHANGED requests ELSE Migrate(n)
  /\ reports' = [i \in Instances |-> IF at' = "migrate" /\ i \in Alive THEN Tasks(i) ELSE 0]
  /\ UNCHANGED <<groupVars, outputs, coroutine, status, loop, offset>>

(* assign_sequences.  Each instance but the last takes groups until it has *)
(* its share of the running tasks; the last takes the rest.  First[k] is   *)
(* the position of the first group of the k-th instance.                   *)
Load(groups) == FoldLeft(LAMBDA n, g : n + aborted[g], 0, groups)

\* fault: from the last group of the instance before
ShareAndPrevious(groups, first, next) == SubSeq(groups, IF first = 1 THEN 1 ELSE first - 1, next - 1)
Share(groups, first, next) == SubSeq(groups, first, next - 1)

Taken(groups, from, load, expected) ==
  Min({m \in 0..(Len(groups) + 1 - from) :
         \/ m = Len(groups) + 1 - from
         \/ load + Load(SubSeq(groups, from, from + m - 1)) >= expected})

Assigned(ids, groups) ==
  LET n == Cardinality(ids)
      lowest == Min(ids)
      expected == MapThenSumSet(LAMBDA i : reports[i], Alive) \div n
      First[k \in 1..n] == IF k = 1 THEN 1
        ELSE First[k-1] + Taken(groups, First[k-1], reports[lowest + k - 2], expected)
  IN [i \in ids |->
       LET k == i - lowest + 1
       IN Share(groups, First[k], IF k = n THEN Len(groups) + 1 ELSE First[k+1])]

(* migrate: what migrates out goes into the instances that stay, and then  *)
(* the others finish.                                                      *)
MigrateGroups ==
  LET groups == FlattenSeq([k \in 1..Cardinality(leaving) |-> Answer(offset + k - 1).data])
      share == Assigned(Alive \ leaving, groups)
  IN
  /\ at = "migrate"
  /\ Gather(leaving)
  /\ requests' = [i \in Instances |->
       IF i \in leaving THEN Append(requests[i], [action |-> "Finish"])
       ELSE IF i \in Alive /\ share[i] # <<>>
         THEN Append(requests[i], [action |-> "Migrate_In", data |-> share[i]])
         ELSE requests[i]]
  /\ at' = "finish"
  /\ reports' = [i \in Instances |-> 0]
  /\ UNCHANGED <<groupVars, outputs, coroutine, status, loop, iter, offset, leaving>>

(* finish: the instances that left have all said that they are offloaded.  *)
Released ==
  /\ at = "finish"
  /\ Gather(leaving)
  /\ IF \A i \in leaving : Answer(i).action = "Offloaded"
       THEN /\ offset' = offset + Cardinality(leaving)
            /\ NextIter
       ELSE at' = "failed" /\ UNCHANGED <<offset, iter, leaving>>
  /\ UNCHANGED <<groupVars, outputs, coroutine, status, loop, requests, reports>>

-----------------------------------------------------------------------------
Generation(i) == \E g \in Groups : SequenceCompletes(i, g) \/ SequenceAborts(i, g)
Handle(i, g) == PutOut(i, g) \/ MarkDone(i, g) \/ MarkAborted(i, g)
Rollout(i) == Begin(i) \/ Wake(i) \/ (\E g \in Groups : Handle(i, g)) \/ Notified(i) \/ Offload(i)
MainLoop(i) == Report(i) \/ MigrateIn(i) \/ MigrateOut(i) \/ MigratedOut(i) \/ Finish(i) \/ Finished(i)
Manager == ActorReady \/ Decide \/ MigrateGroups \/ Released

Next ==
  \/ Schedule \/ Manager
  \/ \E i \in Instances : Generation(i) \/ Rollout(i) \/ MainLoop(i)

Spec == Init /\ [][Next]_vars

(* The engines generate, and a coroutine runs when what it awaits is there.*)
Fairness ==
  /\ WF_vars(Manager)
  /\ \A i \in Instances : WF_vars(Generation(i)) /\ WF_vars(Rollout(i)) /\ WF_vars(MainLoop(i))

FairSpec == Spec /\ Fairness

-----------------------------------------------------------------------------
(* The types and ranges of the variables. *)
Message ==
  [action : {"Report", "Migrate_Out", "Finish", "Offloaded"}]
    \cup [action : {"Migrate_In", "Migrate_Out"}, data : Seq(Groups)]
    \cup [action : {"Report"}, total : Nat, running : Nat]

TypeOK ==
  /\ completed \in [Groups -> 0..GroupSize] /\ aborted \in [Groups -> 0..GroupSize]
  /\ \A g \in Groups : Active(g) >= 0
  /\ outputs \in [Groups -> Nat]
  /\ rollout \in [Instances -> {"called", "wait", "handle", "notify", "offload", "ended", "failed"}]
  /\ {pending, returned, putting, running, done} \subseteq [Instances -> SUBSET Groups]
  /\ kept \in [Instances -> Seq(Groups)]
  /\ exit \in [Instances -> BOOLEAN]
  /\ loop \in [Instances -> {"get", "migrate_out", "finish"}]
  /\ requests \in [Instances -> Seq(Message)] /\ responses \in [Instances -> Seq(Message)]
  /\ at \in {"idle", "report", "await_actor", "migrate", "finish", "failed"}
  /\ iter \in -1..(Minibatches - 1)
  /\ offset \in 0..NumInstances /\ leaving \subseteq Instances
  /\ reports \in [Instances -> 0..TotalTasks]

(* The event that ends an iteration is only ever set for a rollout() that  *)
(* waits for it: none is left to end a later wait before its time.         *)
NoStaleEvent == \A i \in Instances : exit[i] => rollout[i] = "notify"

(* No assertion of rollout() or of the manager fails, and no exception     *)
(* ends a coroutine: a migration never comes before an instance has begun, *)
(* nothing of a step is left when the next one begins, no event is left    *)
(* either, and no answer of one request is taken for another's.            *)
NoFailure ==
  /\ TypeOK /\ NoStaleEvent
  /\ at # "failed" /\ \A i \in Instances : rollout[i] # "failed"

Migrating(i, g) ==
  \E k \in DOMAIN requests[i] :
    requests[i][k].action = "Migrate_In" /\ g \in ToSet(requests[i][k].data)
Places(g) ==
  Cardinality({i \in Instances : g \in running[i]}) + Cardinality({i \in Instances : Migrating(i, g)})

(* A group is put out once, and from then on it is nowhere but among the   *)
(* running groups of the instance that awaits its put.                     *)
PutOutOnce(g) ==
  /\ outputs[g] <= 1
  /\ outputs[g] = 1 => \A i \in Instances : ~Migrating(i, g) /\ (g \in running[i] => g \in putting[i])

(* An instance that has given up its GPUs has no tasks, nothing to migrate *)
(* and no request to answer.                                               *)
ReleasedIsIdle ==
  \A i \in Instances : rollout[i] \in {"offload", "ended"} =>
    /\ running[i] = {} /\ kept[i] = <<>> /\ done[i] = {} /\ ~exit[i]
    /\ loop[i] = "get" /\ requests[i] = <<>>

(* A group never is among the running groups of two instances, nor on its  *)
(* way to a second one; put out, it is not on its way at all, and runs only *)
(* until its put has returned; and an instance that has given up its GPUs  *)
(* has none.                                                               *)
OnePlace ==
  /\ ReleasedIsIdle
  /\ \A g \in Groups : Places(g) <= 1 /\ PutOutOnce(g)

(* Every call of schedule returns, with all instances offloaded. *)
StepEnds == at # "idle" ~> at = "idle" /\ \A i \in Instances : rollout[i] = "ended"

(* To the rest of the step, migration does not show. *)
Promise == INSTANCE RolloutPromise WITH
  delivered <- outputs,
  serving <- {i \in Instances : rollout[i] # "ended"}

ImplementsPromise == Promise!Spec
=============================================================================
