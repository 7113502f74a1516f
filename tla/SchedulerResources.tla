------------------------- MODULE SchedulerResources -------------------------
(***************************************************************************)
(* The dynamic scheduler (scheduler/dynamic_scheduler/): in every global   *)
(* step SchedulerWorker.schedule moves GPUs from the rollout and inference *)
(* components to the actor, after each of the actor's train iterations.    *)
(*                                                                         *)
(* The cluster is the GPUs 0..ClusterGpus-1, placed in the order actor,    *)
(* rollout, inference.  An actor of world size n runs on the first n GPUs; *)
(* rollout instances are released from the lowest on.  The scheduler only  *)
(* counts GPUs.                                                            *)
(*                                                                         *)
(* The scheduler is one coroutine: an action is what it does between two   *)
(* awaits that another component answers.  The tasks of the rollouts, the  *)
(* end of inference and the actor's training run beside it.                *)
(***************************************************************************)
EXTENDS Integers, Sequences, FiniteSetsExt

CONSTANTS
  ClusterGpus,      \* total_gpus
  ActorGpus,        \* GPUs of the actor's own placement
  InferenceGpus,    \* GPUs of inference; 0 when there is no such component
  ActorMp,          \* GPUs of one data-parallel rank of the actor
  RolloutMp,        \* GPUs of one rollout instance
  MinibatchGroups,  \* groups of sequences that make a minibatch
  Minibatches,      \* n_minibatches: train iterations of a step
  Tasks,            \* rollout_total_tasks
  MaxRunning,       \* max_running_requests of one rollout instance
  PreProcess,       \* use_pre_process_policy of the placement and the actor
  SchedulerPreProcess,  \* ... of the scheduler
  WaitBeforeLast,   \* use_wait_before_last_iter_policy
  None              \* the message that asks for no resharding

(* Where rollout instance 0 starts, and how many there are: with the       *)
(* pre-process policy rollout is placed on the actor's GPUs too.           *)
RolloutBase == IF PreProcess THEN 0 ELSE ActorGpus
RolloutInit == (ClusterGpus - InferenceGpus - RolloutBase) \div RolloutMp
ActorInit == ActorGpus \div ActorMp
BorrowedInstances == ActorGpus \div RolloutMp

(* get_valid_dp_sizes: the groups of a minibatch are shared out evenly. *)
ValidDpSizes == {dp \in 1..(ClusterGpus \div ActorMp) : MinibatchGroups % dp = 0}

ASSUME GpusAssumption ==
  /\ {ClusterGpus, ActorGpus, ActorMp, RolloutMp, Tasks, MaxRunning, Minibatches}
       \subseteq Nat \ {0}
  /\ InferenceGpus \in Nat
  /\ RolloutBase + RolloutInit * RolloutMp + InferenceGpus = ClusterGpus
  /\ RolloutInit > 0
  /\ ActorInit * ActorMp = ActorGpus
  /\ SchedulerPreProcess =>
       BorrowedInstances * RolloutMp = ActorGpus /\ BorrowedInstances < RolloutInit

(* init_trainer_resharding asserts that the largest valid size fills the   *)
(* cluster, and starts with the actor's own size.                          *)
ASSUME DpAssumption ==
  /\ MinibatchGroups \in Nat \ {0}
  /\ ActorInit \in ValidDpSizes
  /\ \E dp \in ValidDpSizes : dp * ActorMp = ClusterGpus

ASSUME NoneAssumption == None \notin 1..ClusterGpus

VARIABLES
  at,          \* where the scheduler's coroutine is
  iter,        \* train_iter
  rollouts,    \* current_instance_num of the RolloutManager
  inference,   \* current_gpu_num of the InferenceManager
  actor,       \* current_instance_num of the ActorManager
  available,   \* available_gpu_num
  leaving,     \* rollout instances told to finish and not offloaded yet
  unfinished,  \* tasks of the step that rollout has not completed
  inferred,    \* inference has offloaded and said so
  actorAt,     \* "ended", "starting", "training", or "asking" for a size
  actorIter,   \* the actor's own iteration
  world,       \* the actor's world size
  requests,    \* the request queue of the actor's channel
  asked        \* messages in its response queue

managers == <<rollouts, inference, actor, available>>
actorVars == <<actorAt, actorIter, world>>
channel == <<requests, asked>>
vars == <<at, iter, managers, leaving, unfinished, inferred, actorVars, channel>>

Init ==
  /\ at = "idle" /\ iter = 0
  /\ rollouts = RolloutInit /\ inference = InferenceGpus /\ actor = ActorInit
  /\ available = 0 /\ leaving = 0
  /\ unfinished = 0 /\ inferred = TRUE
  /\ actorAt = "ended" /\ actorIter = 0 /\ world = ActorGpus
  /\ requests = <<>> /\ asked = 0

-----------------------------------------------------------------------------
(* The other components.  Each train iteration of the actor needs its      *)
(* share of the tasks; the end of inference follows the last task.         *)
TaskCompletes ==
  /\ unfinished > 0
  /\ unfinished' = unfinished - 1
  /\ UNCHANGED <<at, iter, managers, leaving, inferred, actorVars, channel>>

InferenceEnds ==
  /\ unfinished = 0 /\ ~inferred
  /\ inferred' = TRUE
  /\ UNCHANGED <<at, iter, managers, leaving, unfinished, actorVars, channel>>

(* scheduler_pre_process: with the policy the actor waits for a request    *)
(* before it loads its weights.                                            *)
ActorStarts ==
  /\ actorAt = "starting"
  /\ PreProcess => requests # <<>>
  /\ requests' = IF PreProcess THEN Tail(requests) ELSE requests
  /\ actorAt' = "training"
  /\ UNCHANGED <<at, iter, managers, leaving, unfinished, inferred, actorIter, world, asked>>

ActorTrains ==
  /\ actorAt = "training"
  /\ (Tasks - unfinished) * Minibatches >= (actorIter + 1) * Tasks
  /\ actorAt' = "asking"
  /\ asked' = asked + 1
  /\ UNCHANGED <<at, iter, managers, leaving, unfinished, inferred, actorIter, world, requests>>

(* scheduler_scale_sync: the next request is the answer. *)
ActorReshards ==
  /\ actorAt = "asking"
  /\ requests # <<>>
  /\ world' = IF Head(requests) = None THEN world ELSE Head(requests)
  /\ requests' = Tail(requests)
  /\ actorIter' = (actorIter + 1) % Minibatches
  /\ actorAt' = IF actorIter' = 0 THEN "ended" ELSE "training"
  /\ UNCHANGED <<at, iter, managers, leaving, unfinished, inferred, asked>>

-----------------------------------------------------------------------------
(* ComponentManager.reset. *)
\* fault: the rollouts of the step before are kept
ResetOthers == rollouts' = rollouts /\ inference' = InferenceGpus /\ actor' = ActorInit
Reset == rollouts' = RolloutInit /\ inference' = InferenceGpus /\ actor' = ActorInit

(* The runner starts a global step when the one before has ended: it calls *)
(* schedule, and the other components.  pre_process resets the managers.   *)
Schedule ==
  /\ at = "idle" /\ actorAt = "ended"
  /\ at' = IF SchedulerPreProcess THEN "pre_process" ELSE "await_actor"
  /\ Reset
  /\ iter' = 0 /\ available' = 0
  /\ unfinished' = Tasks
  /\ inferred' = (InferenceGpus = 0)
  /\ actorAt' = "starting"
  /\ UNCHANGED <<leaving, actorIter, world, channel>>

(* The pre-process policy: when at most half of the tasks run, the rollout *)
(* instances on the actor's GPUs migrate and the actor is started.         *)
PreProcessMigrates ==
  /\ at = "pre_process"
  /\ unfinished <= Tasks \div 2
  /\ rollouts' = rollouts - BorrowedInstances
  /\ requests' = Append(requests, None)
  /\ at' = "await_actor"
  /\ UNCHANGED <<iter, inference, actor, available, leaving, unfinished, inferred, actorVars, asked>>

(* wait_for_actor_update *)
AwaitActor ==
  /\ at = "await_actor"
  /\ asked > 0
  /\ asked' = asked - 1
  /\ at' = "rollout"
  /\ UNCHANGED <<iter, managers, leaving, unfinished, inferred, actorVars, requests>>

LastIter == iter = Minibatches - 1
\* fault: off by one
IterBeforeLast == iter = Minibatches - 1
BeforeLastIter == iter = Minibatches - 2

CeilDiv(a, b) == (a + b - 1) \div b

(* The most GPUs, out of gpus, by which the actor can grow to a valid size. *)
\* fault: as many GPUs as there are, valid or not
GrowAny(gpus) == gpus
Grow(gpus) ==
  Max({(dp - actor) * ActorMp : dp \in {v \in ValidDpSizes :
         v >= actor /\ (v - actor) * ActorMp <= gpus}} \cup {0})

(* migrate_policy and find_release_instance_num_needed. *)
\* fault: rounded down
NeededFloor(running) == running \div MaxRunning
Needed(running) == CeilDiv(running, MaxRunning)
MigratePolicy(running) ==
  IF rollouts <= 1 \/ rollouts <= Needed(running) THEN 0
  ELSE CeilDiv(Grow((rollouts - Needed(running)) * RolloutMp), RolloutMp)

(* RolloutManager: all instances are told to finish when nothing runs, in  *)
(* the last iteration and, with the policy, before it; else some migrate.  *)
Released ==
  IF LastIter \/ unfinished = 0 \/ (WaitBeforeLast /\ BeforeLastIter)
    THEN rollouts ELSE MigratePolicy(unfinished)

ReleaseRollout ==
  /\ at = "rollout"
  /\ leaving' = Released
  /\ at' = IF Released = 0 THEN "inference" ELSE "offload"
  /\ UNCHANGED <<iter, managers, unfinished, inferred, actorVars, channel>>

(* Those that leave answer Offloaded.  Those that migrate hand their tasks *)
(* to the others; without others they complete them first.                 *)
\* fault: instances counted for GPUs
Instances(n) == n
Gpus(n) == n * RolloutMp

Offloaded ==
  /\ at = "offload"
  /\ leaving = rollouts => unfinished = 0
  /\ rollouts' = rollouts - leaving
  /\ available' = IF LastIter THEN available ELSE available + Gpus(leaving)
  /\ leaving' = 0
  /\ at' = "inference"
  /\ UNCHANGED <<iter, inference, actor, unfinished, inferred, actorVars, channel>>

(* InferenceManager: whether it waits for the end of inference. *)
WaitsForInference ==
  LastIter \/ (WaitBeforeLast /\ inference > 0 /\ (BeforeLastIter \/ rollouts = 0))

\* fault: the wait policy is not looked at
ReleasesInferred == ~LastIter /\ inferred
ReleasesInference ==
  ~LastIter /\ inferred /\ (WaitsForInference \/ ~WaitBeforeLast)

ReleaseInference ==
  /\ at = "inference"
  /\ WaitsForInference => inferred
  /\ inference' = IF ReleasesInference THEN 0 ELSE inference
  /\ available' = available + inference - inference'
  /\ at' = "actor"
  /\ UNCHANGED <<iter, rollouts, actor, leaving, unfinished, inferred, actorVars, channel>>

(* ActorManager.  try_allocate and scale: the actor is told its new size,  *)
(* or None when it keeps its size.  The last iteration gives back all.     *)
\* fault: what the actor took stays available
LeftAll(taken) == available
Left(taken) == available - taken

Allocated == IF available < ActorMp THEN 0 ELSE Grow(available)

\* fault: the actor is told by how much it grows
ScaleBy(gpus) ==
  /\ requests' = Append(requests, IF gpus = actor * ActorMp THEN None ELSE gpus - actor * ActorMp)
  /\ actor' = gpus \div ActorMp
\* fault: an actor that keeps its size is not answered
ScaleChanged(gpus) ==
  /\ requests' = IF gpus = actor * ActorMp THEN requests ELSE Append(requests, gpus)
  /\ actor' = gpus \div ActorMp
Scale(gpus) ==
  /\ requests' = Append(requests, IF gpus = actor * ActorMp THEN None ELSE gpus)
  /\ actor' = gpus \div ActorMp

AllocateActor ==
  /\ at = "actor"
  /\ \/ /\ ~LastIter
        /\ Scale(actor * ActorMp + Allocated)
        /\ available' = Left(Allocated)
        /\ iter' = iter + 1
        /\ at' = "await_actor"
     \/ /\ LastIter
        /\ Scale(ActorGpus)
        /\ at' = "idle"
        /\ UNCHANGED <<available, iter>>
  /\ UNCHANGED <<rollouts, inference, leaving, unfinished, inferred, actorVars, asked>>

Scheduler ==
  PreProcessMigrates \/ AwaitActor \/ ReleaseRollout \/ Offloaded
    \/ ReleaseInference \/ AllocateActor

Actor == ActorStarts \/ ActorTrains \/ ActorReshards

Next == Schedule \/ Scheduler \/ TaskCompletes \/ InferenceEnds \/ Actor

Spec == Init /\ [][Next]_vars

(* Generation, inference and training make progress, and the scheduler's   *)
(* coroutine runs when what it awaits has come.                            *)
Fairness ==
  WF_vars(Scheduler) /\ WF_vars(TaskCompletes) /\ WF_vars(InferenceEnds) /\ WF_vars(Actor)

FairSpec == Spec /\ Fairness

-----------------------------------------------------------------------------
(* The types and ranges of the variables. *)
TypeOK ==
  /\ at \in {"idle", "pre_process", "await_actor", "rollout", "offload", "inference", "actor"}
  /\ iter \in 0..(Minibatches - 1)
  /\ rollouts \in 0..RolloutInit
  /\ inference \in {0, InferenceGpus}
  /\ actor \in ValidDpSizes
  /\ available \in 0..ClusterGpus
  /\ leaving \in 0..rollouts
  /\ unfinished \in 0..Tasks
  /\ inferred \in BOOLEAN
  /\ actorAt \in {"ended", "starting", "training", "asking"}
  /\ actorIter \in 0..(Minibatches - 1)
  /\ world \in 1..ClusterGpus
  /\ requests \in Seq({None} \cup 1..ClusterGpus)
  /\ asked \in Nat

(* Those that are available and those of the three managers are the        *)
(* cluster, unless they are being handed back at the end of a step.        *)
Balanced ==
  at \notin {"idle", "pre_process"} /\ ~(LastIter /\ at # "await_actor") =>
    available + rollouts * RolloutMp + inference + actor * ActorMp = ClusterGpus

(* The assertion of try_allocate: an actor that has all it can use finds   *)
(* nothing available.                                                      *)
AllocateAssertion ==
  at = "actor" /\ ~LastIter /\ available >= ActorMp =>
    \E dp \in ValidDpSizes : dp > actor

(* No GPU is lost or counted twice while the scheduler moves them: every   *)
(* count stays in its range, they add up, and allocating never fails.      *)
Accounting == TypeOK /\ Balanced /\ AllocateAssertion

(* The instances that stay can run all tasks at once, and there is one to  *)
(* take those of the instances that migrate; only with the policy is       *)
(* everything stopped while tasks run.                                     *)
RoomForMigrants ==
  at = "offload" /\ unfinished > 0 =>
    \/ WaitBeforeLast /\ BeforeLastIter
    \/ unfinished <= (rollouts - leaving) * MaxRunning

(* The actor answers the scheduler's last request before it trains on, so  *)
(* it trains with the size that the ActorManager believes it has.          *)
ActorInStep ==
  actorAt = "training" => requests = <<>> /\ world = actor * ActorMp

(* The actor never trains on a GPU that a rollout instance or inference    *)
(* has not left, although the scheduler only counts GPUs.                  *)
RolloutSpan == (ClusterGpus - InferenceGpus - rollouts * RolloutMp) .. (ClusterGpus - InferenceGpus - 1)
InferenceSpan == IF inferred THEN {} ELSE (ClusterGpus - InferenceGpus) .. (ClusterGpus - 1)

NoOverlap ==
  actorAt \in {"training", "asking"} => 0 .. (world - 1) \cap (RolloutSpan \cup InferenceSpan) = {}

(* With the wait-before-last policy the actor takes the whole cluster for  *)
(* its last iteration.                                                     *)
LastStepTakesAll ==
  actorAt = "training" /\ actorIter = Minibatches - 1 => world = ClusterGpus

(* Every call of schedule returns: the scheduler, the rollouts, inference  *)
(* and the actor never all wait for each other.                            *)
ScheduleReturns == at # "idle" ~> at = "idle" /\ actorAt = "ended"
=============================================================================
