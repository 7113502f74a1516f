----------------------------- MODULE WeightSync -----------------------------
(***************************************************************************)
(* Asynchronous embodied training.  The runner (async_ppo_embodied_runner  *)
(* or async_embodied_runner) trains the actor and has it send its weights  *)
(* to the rollout ranks, in buckets; the rollout ranks go on generating    *)
(* with their environments.  With PPO the trajectories go to the actor     *)
(* over one channel, and staleness_threshold bounds how far ahead a        *)
(* rollout may be; with SAC they go to a replay buffer, and with           *)
(* sync_weight_no_wait the rollout receives weights in a background task.  *)
(*                                                                         *)
(* A rollout rank and its environment rank are one process here.  A unit   *)
(* is what one turn of _generate makes: the rollout_epoch epochs of the    *)
(* rank's trajectory.  Of weights only the number of updates that made     *)
(* them is kept.  The actor has one rank.                                  *)
(***************************************************************************)
EXTENDS Integers, Sequences, FiniteSetsExt, SequencesExt

CONSTANTS
  Ranks,     \* rollout ranks
  Buckets,   \* buckets of the weights
  Configs    \* algorithm, staleness_threshold, sync_weight_no_wait, the first
             \* global step, the number of steps and the predictions of a unit

NoThreshold == -1
NoEpisodes == -1
NoBucket == [index |-> 0]

ASSUME ConfigAssumption ==
  /\ Ranks # {} /\ IsFiniteSet(Ranks)
  /\ Buckets \in Nat \ {0}
  /\ Configs \subseteq [algorithm : {"ppo", "sac"}, threshold : Nat \cup {NoThreshold},
                        no_wait : BOOLEAN, start : Nat, steps : Nat,
                        chunks : Nat \ {0}]
  /\ \A c \in Configs : c.algorithm = "ppo" => ~c.no_wait
  \* generate would otherwise assert that finished_episodes is set
  /\ \A c \in Configs : c.algorithm = "sac" => c.threshold = NoThreshold

VARIABLES
  cfg,        \* the configuration
  at,         \* where the runner is
  step,       \* global_step
  pending,    \* _pending_rollout_weight_sync is set
  calls,      \* the ranks that have yet to begin the runner's call
  version,    \* the actor's version
  trained,    \* updates of the actor's weights
  batch,      \* the versions of the trajectories in rollout_batch
  queue,      \* actor_channel: the version of each trajectory
  buffered,   \* the replay buffer has a trajectory
  sending,    \* the bucket that the actor is at, 0 outside sync_model_to_rollout
  offer,      \* that bucket, once it is materialised
  sent,       \* the ranks it has been sent to
  inbox,      \* the bucket that a rank has received but not loaded
  work,       \* the receiving coroutine or task of a rank: none, recv or done
  got,        \* the buckets it has loaded
  requested,  \* _weight_sync_requested
  weights,    \* the weights that a rank generates with, by bucket
  rversion,   \* the version of a rank
  episodes,   \* finished_episodes, in units
  gen,        \* where _generate of a rank is
  chunk,      \* predictions of the unit that it has made
  stamp,      \* the version of the first of them
  finished    \* the environment has a trajectory to put

runner == <<cfg, at, step, pending>>
actor == <<version, trained, batch, buffered>>
sync == <<sending, offer, sent>>
receiver == <<inbox, work, got, requested, weights, rversion>>
generator == <<episodes, gen, chunk, stamp, finished>>
vars == <<runner, calls, actor, queue, sync, receiver, generator>>

MaxStep == cfg.start + cfg.steps
Ppo == cfg.algorithm = "ppo"

Init ==
  /\ cfg \in Configs
  /\ at = "update" /\ step = cfg.start /\ pending = FALSE /\ calls = {}
  /\ version = IF cfg.algorithm = "ppo" THEN cfg.start ELSE 0
  /\ trained = cfg.start /\ batch = {} /\ queue = <<>> /\ buffered = FALSE
  /\ sending = 0 /\ offer = NoBucket /\ sent = {}
  /\ inbox = [r \in Ranks |-> NoBucket] /\ work = [r \in Ranks |-> "none"]
  /\ got = [r \in Ranks |-> 0] /\ requested = [r \in Ranks |-> FALSE]
  /\ weights = [r \in Ranks |-> [b \in 1..Buckets |-> 0]]
  /\ rversion = [r \in Ranks |-> 0] /\ episodes = [r \in Ranks |-> NoEpisodes]
  /\ gen = [r \in Ranks |-> "idle"] /\ chunk = [r \in Ranks |-> 0]
  /\ stamp = [r \in Ranks |-> 0] /\ finished = [r \in Ranks |-> FALSE]

-----------------------------------------------------------------------------
(* The runner.  After the weights have been updated it goes on with a      *)
(* step; the first time, it calls generate of the rollout before.          *)
Continue ==
  /\ at' = IF step = MaxStep THEN "end" ELSE IF Ppo THEN "recv" ELSE "train"
  /\ gen' = [r \in Ranks |-> IF gen[r] = "idle" THEN "loop" ELSE gen[r]]

CallSync ==
  /\ calls' = Ranks
  /\ sending' = 1

UpdateWeights ==
  /\ at = "update" /\ ~cfg.no_wait
  /\ CallSync
  /\ at' = "sync"
  /\ UNCHANGED <<cfg, step, pending, actor, queue, offer, sent, receiver, generator>>

UpdateWeightsReturns ==
  /\ at = "sync"
  /\ sending = 0
  /\ calls = {} /\ \A r \in Ranks : work[r] = "done"
  /\ work' = [r \in Ranks |-> "none"]
  /\ Continue
  /\ UNCHANGED <<cfg, step, pending, calls, actor, queue, sync, inbox, got, requested, weights,
                 rversion, episodes, chunk, stamp, finished>>

(* Without waiting: a request that finds the handles of the one before not *)
(* done is coalesced, that is, left out.                                   *)
\* fault: only the rollout's handle counts
RolloutHandleDone == calls = {}
HandlesDone == calls = {} /\ sending = 0

RequestWeights ==
  /\ at = "update" /\ cfg.no_wait
  /\ \/ /\ pending /\ ~HandlesDone
        /\ UNCHANGED <<calls, pending, sending>>
     \/ /\ ~pending \/ HandlesDone
        /\ CallSync
        /\ pending' = TRUE
  /\ Continue
  /\ UNCHANGED <<cfg, step, actor, queue, offer, sent, receiver, episodes, chunk, stamp, finished>>

(* PPO: a step takes the trajectories that the channel holds first, one to *)
(* a rank, whatever ranks they are from.                                   *)
RecvTrajectories ==
  /\ at = "recv"
  /\ Len(queue) >= Cardinality(Ranks)
  /\ batch' = ToSet(SubSeq(queue, 1, Cardinality(Ranks)))
  /\ queue' = SubSeq(queue, Cardinality(Ranks) + 1, Len(queue))
  /\ at' = "train"
  /\ UNCHANGED <<cfg, step, pending, calls, version, trained, buffered, sync, receiver, generator>>

(* The PPO runner sets the actor's version to the step; the other does not.*)
RunTraining ==
  /\ at = "train"
  /\ Ppo \/ buffered
  /\ trained' = trained + 1
  /\ step' = step + 1
  /\ version' = IF Ppo THEN step' ELSE version
  /\ batch' = {}
  /\ at' = "update"
  /\ UNCHANGED <<cfg, pending, calls, buffered, queue, sync, receiver, generator>>

-----------------------------------------------------------------------------
(* sync_model_to_rollout.  A bucket is materialised when the one before    *)
(* has been sent to all ranks, while the actor may be training; it can be  *)
(* sent to a rank that receives.                                           *)
SendBucket ==
  /\ sending > 0 /\ offer = NoBucket
  /\ offer' = [index |-> sending, weights |-> trained, version |-> version, total |-> Buckets]
  /\ UNCHANGED <<runner, calls, actor, queue, sending, sent, receiver, generator>>

Transfer(r) ==
  /\ offer # NoBucket /\ r \notin sent
  /\ work[r] = "recv" /\ inbox[r] = NoBucket
  /\ inbox' = [inbox EXCEPT ![r] = offer]
  /\ \/ /\ sent \cup {r} # Ranks
        /\ sent' = sent \cup {r}
        /\ UNCHANGED <<sending, offer>>
     \/ /\ sent \cup {r} = Ranks
        /\ sent' = {} /\ offer' = NoBucket
        /\ sending' = IF sending = Buckets THEN 0 ELSE sending + 1
  /\ UNCHANGED <<runner, calls, actor, queue, work, got, requested, weights, rversion, generator>>

(* apply: each bucket is loaded at once (load_instant), and the version is *)
(* the rank's when the number of buckets that the first one says is there. *)
\* fault: one bucket too few
OneBucketLess(r) == got[r] + 2 = inbox[r].total
\* fault: one bucket too many
OneBucketMore(r) == got[r] = inbox[r].total
AllBuckets(r) == got[r] + 1 = inbox[r].total
\* fault: with the first bucket
VersionAtOnce(r) == inbox[r].version
VersionAfterLast(r) == IF AllBuckets(r) THEN inbox[r].version ELSE rversion[r]

LoadBucket(r) ==
  /\ inbox[r] # NoBucket
  /\ inbox' = [inbox EXCEPT ![r] = NoBucket]
  /\ weights' = [weights EXCEPT ![r][inbox[r].index] = inbox[r].weights]
  /\ rversion' = [rversion EXCEPT ![r] = VersionAfterLast(r)]
  /\ \/ /\ AllBuckets(r)
        /\ got' = [got EXCEPT ![r] = 0]
        /\ work' = [work EXCEPT ![r] = "done"]
        /\ episodes' = [episodes EXCEPT ![r] =
             IF @ = NoEpisodes THEN rversion'[r] ELSE @]
     \/ /\ ~AllBuckets(r)
        /\ got' = [got EXCEPT ![r] = @ + 1]
        /\ UNCHANGED <<work, episodes>>
  /\ UNCHANGED <<runner, calls, actor, queue, sync, requested, gen, chunk, stamp, finished>>

-----------------------------------------------------------------------------
(* A rollout rank begins the runner's call: it receives, or it remembers   *)
(* the request and starts the task that receives if there is none.         *)
SyncModelFromActor(r) ==
  /\ r \in calls /\ ~cfg.no_wait
  /\ calls' = calls \ {r}
  /\ work' = [work EXCEPT ![r] = "recv"]
  /\ UNCHANGED <<runner, actor, queue, sync, inbox, got, requested, weights, rversion, generator>>

\* fault: a request is left out while there is a task
RequestedUnlessBusy(r) == work[r] = "none"
Requested(r) == TRUE

RequestActorSyncModel(r) ==
  /\ r \in calls /\ cfg.no_wait
  /\ calls' = calls \ {r}
  /\ \/ /\ work[r] = "none"
        /\ work' = [work EXCEPT ![r] = "recv"]
        /\ requested' = [requested EXCEPT ![r] = FALSE]
     \/ /\ work[r] # "none"
        /\ requested' = [requested EXCEPT ![r] = Requested(r)]
        /\ UNCHANGED work
  /\ UNCHANGED <<runner, actor, queue, sync, inbox, got, weights, rversion, generator>>

(* The head of the loop of _generate: a task that is done is put away, and *)
(* the next one started if there is a request; then the rank waits while   *)
(* it is too far ahead.                                                    *)
\* fault: the task is only put away
PollAfter(r) == "none"
Polled(r) == IF requested[r] THEN "recv" ELSE "none"

Poll(r) ==
  IF cfg.no_wait /\ work[r] \in {"none", "done"}
    THEN /\ work' = [work EXCEPT ![r] = Polled(r)]
         /\ requested' = [requested EXCEPT ![r] = FALSE]
    ELSE UNCHANGED <<work, requested>>

\* fault: one unit more
CapacityAndOne(r) == cfg.threshold + rversion[r] + 2
\* fault: without the unit of the version itself
CapacityLess(r) == cfg.threshold + rversion[r]
Capacity(r) == cfg.threshold + rversion[r] + 1

BeginUnit(r) ==
  /\ gen[r] = "loop"
  /\ cfg.threshold = NoThreshold \/ episodes[r] + 1 <= Capacity(r)
  /\ Poll(r)
  /\ gen' = [gen EXCEPT ![r] = "epoch"]
  /\ chunk' = [chunk EXCEPT ![r] = 0]
  /\ UNCHANGED <<runner, calls, actor, queue, sync, inbox, got, weights, rversion, episodes,
                 stamp, finished>>

(* A prediction follows an observation, and the first one of a unit comes  *)
(* after the environment has put the trajectory before.                    *)
Predict(r) ==
  /\ gen[r] = "epoch" /\ ~finished[r]
  /\ chunk[r] < cfg.chunks
  /\ chunk' = [chunk EXCEPT ![r] = @ + 1]
  /\ stamp' = [stamp EXCEPT ![r] = IF chunk[r] = 0 THEN rversion[r] ELSE @]
  /\ UNCHANGED <<runner, calls, actor, queue, sync, receiver, episodes, gen, finished>>

(* The count of episodes is not kept where nothing reads it. *)
EndUnit(r) ==
  /\ gen[r] = "epoch" /\ chunk[r] = cfg.chunks
  /\ gen' = [gen EXCEPT ![r] = "loop"]
  /\ finished' = [finished EXCEPT ![r] = TRUE]
  /\ episodes' = [episodes EXCEPT ![r] =
       IF @ = NoEpisodes \/ cfg.threshold = NoThreshold THEN @ ELSE @ + 1]
  /\ UNCHANGED <<runner, calls, actor, queue, sync, receiver, chunk, stamp>>

(* The environment puts its trajectory; with SAC a thread of the actor     *)
(* takes it for the replay buffer.                                         *)
SendTrajectory(r) ==
  /\ finished[r]
  /\ finished' = [finished EXCEPT ![r] = FALSE]
  /\ IF Ppo THEN queue' = Append(queue, stamp[r]) /\ UNCHANGED buffered
            ELSE buffered' = TRUE /\ UNCHANGED queue
  /\ UNCHANGED <<runner, calls, version, trained, batch, sync, receiver, episodes, gen, chunk, stamp>>

(* stop() cancels _generate at an await. *)
Stop(r) ==
  /\ at = "end" /\ gen[r] # "stopped"
  /\ gen' = [gen EXCEPT ![r] = "stopped"]
  /\ UNCHANGED <<runner, calls, actor, queue, sync, receiver, episodes, chunk, stamp, finished>>

-----------------------------------------------------------------------------
Runner ==
  \/ UpdateWeights \/ UpdateWeightsReturns \/ RequestWeights
  \/ RecvTrajectories \/ RunTraining
Receive(r) == LoadBucket(r) \/ SyncModelFromActor(r) \/ RequestActorSyncModel(r)
Generate(r) == BeginUnit(r) \/ Predict(r) \/ EndUnit(r)

Next ==
  \/ Runner \/ SendBucket
  \/ \E r \in Ranks : Transfer(r) \/ Receive(r) \/ Generate(r) \/ SendTrajectory(r) \/ Stop(r)

Spec == Init /\ [][Next]_vars

(* A coroutine runs when what it awaits is there, and the environments go  *)
(* on.  Where the runner does not wait, nothing is assumed of how long the *)
(* training takes.                                                         *)
Fairness ==
  /\ WF_vars(Runner /\ ~(cfg.no_wait /\ at = "train")) /\ WF_vars(SendBucket)
  /\ \A r \in Ranks :
       /\ WF_vars(Transfer(r)) /\ WF_vars(Receive(r))
       /\ WF_vars(Generate(r)) /\ WF_vars(SendTrajectory(r)) /\ WF_vars(Stop(r))

FairSpec == Spec /\ Fairness

-----------------------------------------------------------------------------
(* The types and ranges of the variables. *)
Bucket == [index : 1..Buckets, weights : Nat, version : Nat, total : {Buckets}] \cup {NoBucket}

TypeOK ==
  /\ cfg \in Configs
  /\ at \in {"update", "sync", "recv", "train", "end"}
  /\ step \in cfg.start..MaxStep /\ pending \in BOOLEAN /\ calls \subseteq Ranks
  /\ version \in Nat /\ trained = step /\ batch \subseteq Nat
  /\ queue \in Seq(Nat) /\ buffered \in BOOLEAN
  /\ sending \in 0..Buckets /\ offer \in Bucket /\ sent \subseteq Ranks
  /\ inbox \in [Ranks -> Bucket] /\ work \in [Ranks -> {"none", "recv", "done"}]
  /\ got \in [Ranks -> 0..(Buckets - 1)] /\ requested \in [Ranks -> BOOLEAN]
  /\ weights \in [Ranks -> [1..Buckets -> Nat]] /\ rversion \in [Ranks -> Nat]
  /\ episodes \in [Ranks -> Nat \cup {NoEpisodes}]
  /\ gen \in [Ranks -> {"idle", "loop", "epoch", "stopped"}]
  /\ chunk \in [Ranks -> 0..cfg.chunks] /\ stamp \in [Ranks -> Nat] /\ finished \in [Ranks -> BOOLEAN]

(* What PPO trains with is never older than staleness_threshold steps, if  *)
(* there is one, for each rollout rank: a rank that is slow while the others fill the        *)
(* channel has its trajectory trained with that much later.                *)
StaleWithin ==
  at = "train" /\ cfg.threshold # NoThreshold =>
    \A s \in batch : version - s <= cfg.threshold * Cardinality(Ranks)

(* A rank that has received all buckets has the weights of one version of  *)
(* the actor, the one that it stamps its predictions with (PPO: the actor  *)
(* does not train while it sends).                                         *)
WholeWeights ==
  Ppo => \A r \in Ranks :
    work[r] # "recv" => \A b \in 1..Buckets : weights[r][b] = rversion[r]

(* A prediction is never stamped newer than any of the weights it was made *)
(* with, also between two buckets.                                         *)
StampsNotNewer ==
  \A r \in Ranks : gen[r] = "epoch" => \A b \in 1..Buckets : rversion[r] <= weights[r][b]

(* What a rank predicts with is of the versions it says. *)
WeightsRight == TypeOK /\ WholeWeights /\ StampsNotNewer

(* The bucket that a rank receives is the one that its apply expects: no   *)
(* apply begins in the middle of what the actor sends.                     *)
BucketExpected ==
  \A r \in Ranks : inbox[r] # NoBucket => inbox[r].index = got[r] + 1

(* The actor never sends to a rank that is not going to receive: the rank  *)
(* receives, has a request to look at, or has yet to begin the call.       *)
Heard ==
  sending > 0 => \A r \in Ranks \ sent : work[r] = "recv" \/ requested[r] \/ r \in calls

(* Every send of the actor meets one apply of each rank, from its first    *)
(* bucket on.                                                              *)
Paired == BucketExpected /\ Heard

(* What the actor begins to send, all ranks receive, unless they stop;     *)
(* where the runner does not wait, also if there is never another step.    *)
SyncEnds == sending > 0 ~> sending = 0 \/ at = "end"

(* All steps are done where the runner waits for the weights: rollout,     *)
(* actor and runner never wait for each other.                             *)
Terminates == ~cfg.no_wait => <>(at = "end" /\ \A r \in Ranks : gen[r] = "stopped")

(* Nobody waits for ever for weights, a version or trajectories. *)
NobodyStuck == SyncEnds /\ Terminates
=============================================================================
