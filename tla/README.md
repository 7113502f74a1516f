# TLA+ models of RLinf

RLinf trains models with reinforcement learning on a cluster of accelerators. It is a set of
Python processes, the *workers*, which Ray starts and which work in groups: rollout (generation),
inference (log-probabilities), actor (training), environments, rewards, agents. What keeps the groups
together is `src/rlinf/scheduler`: channels, collective groups, locks, managers and, for
pipelined training on changing numbers of accelerators, a dynamic scheduler. This directory holds
TLA+ models of that layer and of the protocols that the workers run over it, the TLC configurations that check them on small instances, and proofs
that TLAPS checks for every instance.

All paths below are relative to the repository; `S/` stands for `src/rlinf/scheduler/`.

1. [The system](#1-the-system)
2. [Modules and how they follow the code](#2-modules-and-how-they-follow-the-code)
3. [Runs](#3-runs)
4. [Bounds](#4-bounds)
5. [Fairness](#5-fairness)
6. [Proofs](#6-proofs)
7. [Findings](#7-findings)
8. [What is not modelled](#8-what-is-not-modelled)
9. [Plan](#9-plan)

## 1. The system

### Components

| component | state | operations | talks to |
|---|---|---|---|
| Device lock (`S/manager/lock_manager.py`, `S/worker/lock.py`) | one `asyncio.Lock` and owner per accelerator, in one actor | `acquire_devices`, `release_devices`; in a worker `with self.device_lock` | called by every worker that shares accelerators |
| Channel queue (`S/channel/channel_worker.py`) | a `PeekQueue` (an `asyncio.Queue` with `peek`) per key | `put`, `get`, `get_batch`, `*_nowait`, `*_via_ray`, `create_queue` | run by Ray as coroutines of one event loop |
| Channel (`S/channel/channel.py`) | per worker: a chain of puts per key, `channel_data_store` of outstanding gets | `put`, `get`, `get_batch`, sync, async and nowait | a remote method on the channel worker for control, the worker's point-to-point connection for data |
| Works (`S/collective/async_work.py`) | futures and chains of callbacks | `wait`, `async_wait`, `then` | channels, collectives |
| Point-to-point and collectives (`S/collective/collective_group.py`, `multi_channel_pg.py`) | queues of works for sends, recvs and broadcasts, each with its executor thread; process groups | `send`, `recv`, `broadcast`, sync and async | the peer worker; the manager for set-up |
| Group rendezvous (`S/manager/coll_manager.py`) | groups and master ports by name | `register_collective_group`, `set/get/reset_master_port_info` | polled by workers |
| Port lock (`S/manager/lock_manager.py`) | the owner of every port | `acquire`; a daemon that frees the ports of dead workers | workers, Ray's list of actors |
| Workers and groups (`S/worker`, `S/manager/worker_manager.py`) | addresses, ranks | creation, dispatch, `SendRecv` by address | Ray |
| Cluster and placement (`S/cluster`, `S/hardware`, `S/placement`, `S/manager/node_manager.py`) | nodes, accelerators, placements | resolved once at start | Ray |
| Dynamic scheduler (`S/dynamic_scheduler/`) | counts of instances and GPUs of three component managers, available GPUs | `schedule`: pre-process, then per train iteration release from rollout, release from inference, allocate to the actor | channels to and from rollout, inference and actor |
| Rollout migration (`src/rlinf/workers/rollout/utils.py`, `sglang/sglang_worker.py`, `S/dynamic_scheduler/`) | running, aborted and done groups of sequences, in each instance shared by two coroutines | report, migrate out and in, finish | the scheduler, over one channel per instance |
| Embodied interaction (`src/rlinf/workers/env`, `rollout/hf`, `reward`, `src/rlinf/utils/comm_mapping.py`) | per env worker: stage, step, the last results; queues per pair of ranks | `interact`, `generate`, `compute_rewards`, `recv_rollout_trajectories`, `evaluate` | env, rollout, reward and actor workers, in shards over channels |
| Weight synchronization (`src/rlinf/workers/rollout/hf/async_huggingface_worker.py`, `src/rlinf/hybrid_engines/weight_syncer`, the asynchronous runners) | applied version, request flag, background task | request, receive, apply; `wait_if_stale` | the actor, the runner |
| Replay buffer (`src/rlinf/data/replay_buffer.py`) | index, ring cache, files, save pool | add, sample, save and load checkpoints | a pool of threads, the disk |
| Runners, algorithms, environments, models, utilities | configuration, tensors | training loops, losses, adapters | the components above |

### What is hard in it

* *Coroutines on one event loop.* The managers and channel workers are asyncio actors. A task runs
  up to its next await without interruption, and then others run: a future that is set and the
  task that awaits it are two steps, and calls arrive in between. This is where the device lock and
  the queues can go wrong.
* *Two roads for one call.* A call of a channel inside a worker is a remote method, which Ray may run in any
  order, and a message on an ordered connection. Which message a method or a recv takes depends on
  the order in which they are posted, not on the call they belong to.
* *Exceptions in callbacks.* Works are futures chained by callbacks; one that raises leaves the
  next future unset.
* *Counting instead of naming.* The dynamic scheduler moves GPUs by number. Who really is on which
  GPU follows from placement and from the order of releases.
* *Groups of independent loops.* The scheduler, the rollout instances, inference and the actor each
  wait for messages of the others. Each infers from counts and flags when a conversation is over.
* *Frames without names.* An object travels as several broadcasts in a group of two, and which frames there
  are depends on its type and on the devices of both ends. Nothing in a frame says what it is.
* *Groups of different sizes.* Batches are cut for one group and put together by another.
* *Files written by twenty threads*, and a process that may die between any two of them.

Calls are not retried, and an exception in a worker ends the job: `S/worker/worker_group.py:496`
signals the main process, which exits (`S/cluster/cluster.py:370`). So the only recovery
is that from files, which `ReplayBuffer` models, and the daemon of the port lock.

### What makes each component correct

* Device lock: no two workers on one accelerator are inside together; who asks gets in, in the order of
  asking; no deadlock over sets of accelerators; releases succeed.
* Queue: no wake-up is lost, the capacity holds, batches stay within their weight.
* Channel: items go to their key, to one get, in the order of puts; who waits for what is there gets it.
* Dynamic scheduler: no GPU is lost or counted twice, the actor never grows onto a GPU in use, it has the size
  that the scheduler believes, and every step ends.
* Point-to-point: the k-th recv returns what the k-th send was given, sync and async mixed; both ends
  set a group up on one port.
* Port lock: a port has one living owner.
* Migration: every group of sequences is put out once, by one instance, also while a put is awaited, and an instance goes with nothing left.
* Weights: how stale what is trained on can be follows from the threshold; a set of buckets is applied whole;
  nobody waits for ever.
* Replay buffer: a sample is one of the trajectory that was drawn; what can be drawn can be had; the last whole checkpoint loads.
* Embodied interaction: every environment gets the action and the reward of its own observation; nothing is
  left in a channel for the next call.

`PROJECT.json` lists the hazards line by line, with the properties that guard against them.

## 2. Modules and how they follow the code

| module | models |
|---|---|
| `DeviceSections` | what the device lock promises, without locks or queues |
| `DeviceLock`, `DeviceLock_proofs` | the lock manager and its clients; implements `DeviceSections` |
| `ChannelQueue`, `ChannelQueue_proofs` | one queue of a channel worker and the calls on it |
| `ChannelComm`, `ChannelComm_proofs` | channels end to end: the workers, their works, the connections, the queues |
| `SchedulerResources`, `SchedulerResources_proofs` | the counts of the dynamic scheduler with the actor's side of the protocol |
| `RolloutPromise` | what a step of the rollout promises: every group put out once, instances give up their GPUs, the last not before all is out |
| `RolloutMigration`, `RolloutMigration_proofs` | the manager of the rollouts and the two coroutines of each instance; implements `RolloutPromise` |
| `WeightSync`, `WeightSync_proofs` | runner, actor and rollout ranks of asynchronous embodied training |
| `ConnectionPromise` | two FIFO directions: recv k returns object k |
| `PointToPoint`, `PointToPoint_proofs` | the point-to-point connection of two workers, its threads, its set-up and its frames; implements `ConnectionPromise` |
| `ReplayBuffer`, `ReplayBuffer_proofs` | the replay buffer, its cache, its files and pool, checkpoints and crashes |
| `EmbodiedRollout` | one call of every group of embodied training, and the batches between them |
| `MC*` | values of the constants for TLC |

The modules stand on each other by what they promise. `ChannelComm` uses the connection that `PointToPoint` implements
(`ConnectionPromise`: ordered, nothing lost) and the queues of `ChannelQueue`; `EmbodiedRollout` and
`RolloutMigration` use channels with one producer and one consumer to a key, which are first in, first out by
`PutOrder` and `AtMostOnce`. `SchedulerResources` says how many instances are released and
`RolloutMigration` what releasing them does.

Some definitions are marked `\* fault`. No specification uses them: each is a way the code beside it could
plausibly be wrong, and `PROJECT.json` ("mutants") says which property must fail when
the definition that follows it is replaced by it.

Some properties are conjunctions of named parts, each with a comment of its own.

### DeviceLock

The manager runs on one event loop, and an action is what runs between two awaits.

| code | model |
|---|---|
| `asyncio.Lock._locked`, `_waiters`, futures that are done | `locked`, `waiters`, `woken` |
| `WorkerDeviceLock._worker_address` | `owner` (`NoWorker` is `None`) |
| `acquire_devices`: a `gather` of one `acquire` per device | `AcquireDevices`: the first steps of the tasks of one gather follow each other in the loop's queue, so nothing comes between them |
| `acquire` after its await | `Resume`, one per device |
| the reply of `acquire_devices`, `DeviceLock.acquire` in the worker | `Enter`: all acquires have returned |
| `release_devices`, `__exit__` | `ReleaseDevices`; one that raises ends the worker's script (`pc = "failed"`) |

`asyncio.Lock` is external and modelled from its use: `acquire` returns at once when the lock is free
and nobody waits, `release` sets the future of the first waiter, which takes the lock when
it runs. `before` is a history variable, the pairs of workers that wait and who asked first; the
order of entry is a property of it. The mapping to `DeviceSections` is `Phase`: a worker is "in" when
its nesting depth is positive, "waiting" while it acquires.

### ChannelQueue

A task is one call of `put`, `get`, `get_batch` or a nowait form. Each action is one run of a task: from
its call or from the future that woke it to its end or its next wait.

| code | model |
|---|---|
| `asyncio.Queue` with `_queue`, `_getters`, `_putters` | `queue`, `getters`, `putters` |
| a future that is set and whose task has not run | `woken` |
| `put`, `put_via_ray`; `put_nowait` | `Put`; `PutNowait` (raises when full) |
| `get`, `get_via_ray`; `get_nowait` | `Get`; `GetNowait` |
| `PeekQueue.peek`, `get_batch`, `get_batch_via_ray` | `GetBatch`: the loop takes items until the batch is complete, the next item does not fit, or the queue is empty, when it waits in `peek` |

Items are named by the task that puts them; `Weight` and `Target` are their weights and the
target of a batch. `asyncio.Queue` is external.

### ChannelComm

| code | model |
|---|---|
| `Channel.put` in a worker: send of item and key, remote `put` chained by `AsyncChannelWork` | `IssuePut`, `chain`, `items` |
| `Channel.get`: remote `get`, recv of a reply | `IssueGet`, `recvs` |
| `ChannelWorker.put`: receives the *next* item of the connection, then puts it under its key | `PutStarts`, `PutResumes` |
| `ChannelWorker.get`: takes an item, sends it with the query id | `GetRuns`, `Reply` |
| the completion of a recv; `_store_channel_data`, `channel_data_store` | `Recv`, `Receivers` |
| the done callback that starts the next put of the chain | `Successor`; after an exception it is not run (`RaiseFull`) |

Remote methods may start in any order, also those of one worker: the channel's actor is asynchronous, where Ray
does not promise order. Connections are ordered and lose nothing. The queues behave as in `ChannelQueue`.

### SchedulerResources

| code | model |
|---|---|
| `SchedulerWorker.schedule` up to its next await | `at`, `iter`; `Schedule`, `PreProcessMigrates`, `AwaitActor`, `ReleaseRollout`, `Offloaded`, `ReleaseInference`, `AllocateActor` |
| `current_instance_num`, `current_gpu_num`, `available_gpu_num` of the managers | `rollouts`, `inference`, `actor`, `available` |
| `migrate_policy`, `find_release_instance_num_needed` | `MigratePolicy`, `Needed`, `Grow` |
| `try_allocate`, `scale` | `Allocated`, `Scale` |
| `get_valid_dp_sizes` (`S/dynamic_scheduler/utils.py`) | `ValidDpSizes` |
| `scheduler_pre_process`, `scheduler_scale_sync` of the actor (`src/rlinf/workers/megatron_worker.py`) | `ActorStarts`, `ActorReshards` |
| the rollouts' tasks, the end of inference, training | `TaskCompletes`, `InferenceEnds`, `ActorTrains` |

The two channels between scheduler and actor are `requests`, a FIFO of sizes or `None`, and `asked`, which only
counts since its messages are alike. A rollout instance that is told to finish or to migrate is
`leaving` until it has offloaded. Which tasks migrate where is abstracted here: only the number of unfinished
tasks matters to the counts.

### RolloutMigration

An action is what a coroutine does between two awaits. Of the sequences of a group only the numbers completed and
aborted are kept, which is what decides whether it is done, goes on, or can move. The engine is SGLang's,
which returns an output for every sequence that it aborts.

| code | model |
|---|---|
| `rollout()` (`src/rlinf/workers/rollout/sglang/sglang_worker.py`) with its `asyncio.wait` | `rollout`, `pending`, `returned`; `Begin`, `Wake`, `Notified`, `Offload` |
| what `rollout()` does with a group whose sequences have returned: the awaited `put` of a completed one, then `mark_done`; `mark_aborted` (`sglang_worker.py:436-446`) | `PutOut`, `MarkDone`, `MarkAborted`; `putting` is the group whose put is awaited |
| `RunningStatusManager` (`src/rlinf/workers/rollout/utils.py`) | `running`, `kept` (aborted groups), `done`, `exit` (the event) |
| the engine | `SequenceCompletes`, `SequenceAborts` |
| `RolloutScalingScheduler.main_loop` in the instance | `loop`; `Report`, `MigrateIn`, `MigrateOut`, `MigratedOut`, `Finish`, `Finished` |
| `RolloutManager` (`S/dynamic_scheduler/manager.py`) | `at`, `iter`, `offset`, `leaving`; `Schedule`, `ActorReady`, `Decide`, `MigrateGroups`, `Released` |
| `_assign_sequences_sequential` | `Assigned` |

How many instances are released is any number that leaves room for the running tasks: a superset of what the
policies of `SchedulerResources` choose. The mapping to `RolloutPromise` takes `outputs` for what was
delivered and the instances whose `rollout()` has not ended for those that serve.

### WeightSync

Of weights only the number of updates that made them is kept, per bucket. A *unit* is one turn of
`_generate`. A rollout rank and its env rank are one process, and the actor has one rank. What a unit
contains is left out: in this commit `generate_one_epoch`, which it runs, raises at its first chunk (section 7, "Training chunks").

| code | model |
|---|---|
| `AsyncPPOEmbodiedRunner`, `AsyncEmbodiedRunner` | `at`, `step`, `pending`; `UpdateWeights`, `UpdateWeightsReturns`, `RequestWeights`, `RecvTrajectories`, `RunTraining` |
| the actor's `sync_model_to_rollout` with `BucketWeightSyncer.sync` | `sending`, `version`; `SendBucket`, `Transfer` |
| `BucketWeightSyncer.apply` in `_recv_and_apply_actor_sync`, in the call or in a background task | `work`, `got`, `weights`, `rversion`; `LoadBucket` |
| `sync_model_from_actor`, `request_actor_sync_model` with its coalescing flag | `SyncModelFromActor`, `RequestActorSyncModel`, `requested` |
| `_poll_background_weight_sync`, `wait_if_stale`, `_generate` | `Poll`, `Capacity`; `BeginUnit`, `Predict`, `EndUnit` |
| the trajectories up to the actor | `SendTrajectory`, `batch` |
| `stop` | `Stop` |

### PointToPoint

A direction is named by the endpoint that sends in it. Each endpoint has an executor thread for its sends and one
for its receives, and the caller's own thread.

| code | model |
|---|---|
| `CollectiveWorkQueue`: `_work_queue`, `_work_done`, the executor | `queue`, `idle`; `CallAsync`, `PollFull`, `PollEmpty`, `Wake` |
| a synchronous call: waits for `_work_done`, then runs in the caller's thread | `CallSync`, `StartSync` |
| `_init_process_group`: the lock, the master port of the manager, the meeting, the reset | `locked`, `ready`, `port`; `BeginSetup`, `PublishPort`, `ReadPort`, `Connect`, `ResetPort` |
| `_send`, `_recv`, `send_tensor`, `recv_tensor` and what they call, per type of object and kind of peer | `SendFrames`, `RecvFrames`: the frames that the two ends go through |
| one broadcast in a group of two | `Transfer`: a rendezvous of any two threads that are in a broadcast of the same group |
| the end of a work, and what it gives its caller | `Finish`, `finished` |

A peer is one that both ends know to be on another accelerator (`apart`), on the same one (`same`, where tensors go as
handles), or one with several common devices (`uncertain`, where the receiver says which device it wants); tensors in CPU
memory take a road of their own. A mismatch is a frame that pairs with another frame than its counterpart,
and `FramesMatch` says that there is none.

### ReplayBuffer

| code | model |
|---|---|
| `_trajectory_index`, `_trajectory_id_list`, `_trajectory_counter`, `_index_version` | `trajs`, `counter`, `version` |
| `__init__`: whether there is a cache and how large it is | `Slots` (0 for none), `CacheSize` |
| `TrajectoryCache` | `cache`; `CachePut`, `CacheGet`, `Grown` (slots get longer), `NextSlot`; `PutRaises` for a cache of no slots |
| `add_trajectories` and its submissions to the pool | `Add`, `EndAdd` |
| the pool of threads: `_save_trajectory`, `_flush_metadata` with `_save_metadata` and `_save_trajectory_index` | `writing`, `flushes`; `OpenFile`, `CloseFile`, `FlushMeta`, `FlushIndex` |
| `sample_chunks`, the cached window, of all trajectories for a window of 0 | `Window`, `WindowOf`, `Fetch`, `SampleChunk` |
| `save_checkpoint` | `BeginSave`, `CopyFile`, `EndSave` |
| `load_checkpoint`, whole or a rank's part | `Load`, `Part`; `Resume`, `StartFromDemos`, `StartEmpty` |
| the death of the process at any point | `Crash`: memory, pool and unfinished checkpoint are gone, a file being written stays partial |

The content of a trajectory is a number, and a sample is the pair of that number and an index. `main.pc` says how the
owner ended if it did: `failed` while loading, `raised` while sampling, `stopped` by an exception in adding or saving.

### EmbodiedRollout

An observation is its tag, <<stage, environment, number>>; an action or a reward is the tag of the observation it
was computed from, so what comes back to an environment says what it was meant for.

| code | model |
|---|---|
| `CommMapper.get_dst_ranks`, `get_src_ranks` (`src/rlinf/utils/comm_mapping.py`) | `DstRanks`, `SrcRanks` |
| splitting a batch over the next group and sending it; receiving and merging | `Send`; `Items`, `Merged` |
| `EnvWorker.interact`, `evaluate` | `Reset`, `SendRewardInput`, `RecvRewardResults`, `RecvRolloutResults`, `SendTrajectories` |
| `generate`, `evaluate` of the rollout worker | `Answer` |
| the `RolloutResult` of a training chunk, built with keywords that the class lacks | `OfChunk`, `failed`; `layout.fields` |
| `compute_rewards` with its `last_run` flags | `Judge` |
| `recv_rollout_trajectories` of the actor | `TakeTrajectory` |
| bootstrap values in some shards only, `merge_rollout_results` raises | `Mixed`, `pc = "raised"` |

`layout.fields` says whether `RolloutResult` has the nine fields that `generate_one_epoch` gives it. In this commit it has not
(section 7, "Training chunks"), and every training call ends at its first chunk. FALSE is the code as it is, and TRUE is the code with
the fields added and nothing else changed. Evaluations do not build a `RolloutResult`, and are run as the code is. What is said
about training is said of the code with the fields, but for `CallsReturn`, which also says what happens without.

## 3. Runs

`tlc -config X.cfg M` for each, where `X` begins with the name of the module `M`; the numbers are distinct states.

| run | question | result |
|---|---|---|
| `device_lock` (`MCDeviceLock.cfg`, 632) | do sections exclude each other and respect the order of asking, does every worker that asks get in, does no release or assertion fail? Four workers with overlapping sets of three accelerators | all hold, with the refinement of `DeviceSections` |
| `channel_queue` (`MCChannelQueue.cfg`, 12 183) | are wake-ups lost, does the capacity hold, is a batch within its target, complete unless what follows does not fit, and served, does anybody wait for what is there? Three sets of calls: blocking calls with nowait calls between them, producers with one consumer of batches, and the same with an item heavier than a batch | all hold |
| `channel_comm` (`MCChannelComm.cfg`, 24 241) | does every item reach one get on its key, in the order of the puts, does every get that is owed an item return, and every put on the bounded key that has room? Three sets of calls: two keys with an async and a blocking consumer; four puts on a queue of two; a nowait get beside async gets of another worker | all hold |
| `channel_comm_nowait_put` (`MCChannelCommNowaitPut.cfg`) | `put_nowait` on a full queue | `NowaitReturns` fails: finding 1 |
| `scheduler` (`MCSchedulerResources.cfg`, 440) | do the counts add up, do the managers' assertions hold, do scheduler and actor agree, does the actor never overlap the others and have the whole cluster at the end, does a step end? Twelve GPUs, both policies | all hold |
| `rollout_migration` (`MCRolloutMigration.cfg`, 39 180) | is every group put out once, by one instance at a time, whatever completes or is aborted while it moves or while a put is awaited? Does an assertion of `rollout()` or of the manager fail, does an instance go with something left, does a step end? | all hold, with the refinement of `RolloutPromise` |
| `weight_sync` (`MCWeightSync.cfg`, 202 980) | how stale is what the actor trains on, are weights applied whole, does each send meet one apply, does anybody wait for ever? PPO from the start and resumed, and SAC waiting for the weights or not | all hold |
| `point_to_point` (`MCPointToPoint.cfg`, 60 102) | do the frames of a call meet those of its counterpart, does recv k return object k, do the works end, do both ends set up on one port? Six connections, any mix of synchronous and asynchronous calls | all hold, with the refinement of `ConnectionPromise` |
| `replay_buffer` (`MCReplayBuffer.cfg`, 96 817) | is a sample of the trajectory that was drawn, can what may be drawn be had, is a whole checkpoint loadable with its window, are the files of a flushed call there, and does the directory end up as the buffer? In memory with crashes, from demonstrations over several ranks, on disk with a cache that is large enough, too small or absent, and with a window of all, and in memory without a cache and with one of no slots | all hold |
| `embodied_rollout` (`MCEmbodiedRollout.cfg`, 35 976) | does each environment get the action and reward of its own observation, does every call return, is nothing left for the next one? Fifteen layouts of training with the fields added; as the code is, three of evaluation and two of training, which ends by an exception | all hold |
| `embodied_bootstrap` (`MCEmbodiedRolloutBootstrap.cfg`) | three env workers, two rollout workers, final observations, with the fields added | `MergeConsistent` fails: finding 2 |
| `embodied_stages` (`MCEmbodiedRolloutStages.cfg`) | a reward model and two stages, with the fields added | `CallsReturn` fails: finding 3 |

The properties, in short; each has a comment above it in its module.

* `device_lock`: `MutualExclusion`, `ResumeFindsFree` (the assertion of `WorkerDeviceLock.acquire`),
  `NoFailedRelease`, `EveryoneEnters` (no circular wait), `ImplementsSections` (exclusion and order of entry).
* `channel_queue`: `NoLostItem`, `NoLostSlot`: while tasks are queued, every item (every free slot) has a woken
  task on its way to it. They relate the deque, the queue and the tasks that are woken but have not
  run, and are what a lost wake-up breaks first. `EveryoneServed` says what they are for. `BatchWithinTarget`
  is about `get_batch`: a batch does not exceed its target, and one that falls short was cut before an item that was put
  and does not fit, so that it is empty only when that item alone is heavier than the target.
* `channel_comm`: `KeyRouting`, `AtMostOnce`, `PutOrder`, `GetsReturn`, `PutsReturn`, `NowaitReturns`. `PutsReturn` is said of
  puts on one bounded key; with two, a full one can hold up puts on the other (section 7, "Puts on two bounded keys").
* `scheduler`: `Accounting` (the four counts add up to the cluster, and the assertion of `try_allocate` holds),
  `RoomForMigrants` (those that stay can take the tasks), `ActorInStep` (the actor trains with the size that
  the scheduler booked), `NoOverlap` (counts and places agree), `LastStepTakesAll`, `ScheduleReturns`.
* `rollout_migration`: `NoFailure` (no assertion fails, no answer is taken for another's, and no event is left to end a later
  wait), `OnePlace` (a group runs in one instance or is on its way to one; it is put out once, and from then on is on its way nowhere and
  among the running groups only of the instance that awaits its put; an instance that gave up its GPUs has none),
  `StepEnds`, `ImplementsPromise`.
* `weight_sync`: `StaleWithin` (what is trained on is at most threshold × ranks versions old),
  `WeightsRight` (a rank that is not receiving has the weights of one version, and no prediction is stamped newer than its weights),
  `Paired` (an apply begins with the first bucket, and the actor sends to nobody who will not receive), `NobodyStuck`.
* `point_to_point`: `InStep` (a frame pairs with its counterpart, and both ends meet on one port),
  `RecvReturnsSend` (the refinement), `WorksEnd`.
* `replay_buffer`: `SamplesRight`, `NothingLost` (of buffers that have files or a cache), `DiskComplete` (loading a whole checkpoint succeeds, and it has the
  files of the window of its index; the files of a flushed call are complete and listed; when nothing is under way the index
  is that of the buffer and every file is there with its data), `DiskSettles`.
* `embodied_rollout`: `AnswersForObservations` (with the receivers' assertions on sizes), `NothingLeft`, `CallsReturn`
  (no worker waits for what nobody sends, and none raises; training without the fields ends by the exception of a rollout worker);
  `MergeConsistent`.

## 4. Bounds

* Device lock: `MaxDepth`, how deep a worker nests, is 1. The placement has
  a pair that overlaps crosswise ({g1,g2} and {g2,g3}), one worker on all and one on the last, so two
  workers can be inside together, deques grow to three, and grants come out of order. The proofs
  have no bound but the depth.
* Queue: `MaxSize` 2 with three blocking producers and consumers and one nowait call of each kind: full and empty are
  reached with several waiters on both sides, and a nowait call can take what a woken task was woken for. Batches
  have a target of 4 and items of weight 2 and 1, so a batch takes two or three items and may have to wait for
  each; an item may not fit. One producer (`h1`) puts an item of weight 5, which fits into no batch: it may follow others, and then cuts
  their batch, or come first, and then the batch is empty. The proofs have no bound.
* Channel: each set of calls is the smallest in which its case happens, such as four puts on a queue of
  two. Calls are issued in any order, and a worker that blocks issues nothing else.
* Scheduler: twelve GPUs, actor ranks of one and instances of two GPUs, four train iterations (first, middle, before
  last, last), and twenty tasks with four to an instance, so that zero, one and several instances may migrate. Task counts
  fall one by one at any time. Steps repeat for ever, so the reset between steps is part of the run; the number of
  messages stays bounded by the protocol itself, and no cap is put on it.
* Migration: three instances, so that one leaves while another stays and a third has left; three groups of two sequences, so
  that a group can be partly done, partly aborted; three iterations, so that a group can migrate twice. One
  instance is on the actor's GPUs (`Borrowed`) and goes in the pre-process. Steps repeat for ever.
* Weights: two ranks, since staleness depends on one being slower; two buckets, since the interesting
  state is between them. `Ppo0` has threshold 0 and resumes at step 1, `Ppo1` threshold 1 from the start; three
  steps, enough for a rank to be behind by the bound. `Sac` and `SacNoWait` have two.
* Point-to-point: at most two objects to a direction (`MaxObjects`), so that a synchronous call meets a queue that works
  on an earlier one. Six scenes, with every type of object and every kind of peer in some of them.
* Replay buffer: three trajectories (`MaxAdds`) with caches of none, 1 and 2 slots and windows of 2 and of all (0), so that the
  cache wraps around and the window moves; two checkpoints, one crash (`MaxCrashes`), one and two ranks that share what is
  loaded (`Worlds`). Two configurations, in memory without a cache and with one of no slots, keep nothing (section 7, "Caches in
  memory"): there the run shows what the code does then, an exception of the sample, the checkpoint or the put.
* Embodied rollout: groups of one to three workers, which gives every relation of two sizes (equal, multiple, neither);
  up to two stages, chunks and epochs, so that the last of each differs from the others.
  Batches of 6, the least that all sizes divide, or smaller. Fifteen layouts
  of training have the fields; two have not, as the three of evaluation. One call of every group: `NothingLeft` says that the
  next one starts from the same state.

Deadlock is checked for `DeviceLock`, `SchedulerResources`, `RolloutMigration` and `EmbodiedRollout` (where `Ended`
lets the finished system stay as it is, or one whose job an exception has ended). `ChannelQueue`, `ChannelComm`, `PointToPoint` and `ReplayBuffer` make a
bounded number of calls, and `WeightSync` a bounded number of steps, and then really stop; there the liveness
properties say that nobody who could go on is left behind. In `PointToPoint` two workers that both call a synchronous send first
wait for each other, as two such calls do in the code; `WorksEnd` is about the objects for which both ends have
called. In the violations of `EmbodiedRollout` the remaining workers wait for ever.

## 5. Fairness

* `DeviceLock`: weak fairness of `Resume` and `Enter` (the event loop runs every ready task, replies are
  delivered) and of `ReleaseDevices` (a section is a `with` block around computation). None for
  `AcquireDevices`: nothing makes a worker ask.
* `ChannelQueue`: weak fairness of every task, which acts only when it is called or woken: the event loop
  is fair, and Ray delivers calls. A task that waits has no enabled action.
* `ChannelComm`: weak fairness of started methods and of recvs; none for issuing calls.
* `SchedulerResources`: weak fairness of the scheduler's coroutine, of generation, inference and training.
  None for `Schedule`: the runner may stop.
* `RolloutMigration`: weak fairness of the manager and, in every instance, of its engine and of both coroutines, each of which
  the event loop resumes when what it awaits is there. None for `Schedule`.
* `WeightSync`: weak fairness of every coroutine of runner, actor and rollout. Where the runner does not wait
  for the weights (`no_wait`) training may take for ever, and `SyncEnds` holds all the same.
* `PointToPoint`: weak fairness of the steps of all threads together. It is enough because the calls
  are bounded, so that no thread can go on for ever at the cost of another. None for making calls.
* `ReplayBuffer`: weak fairness of the pool and of `EndAdd`, a call that returns. The owner need not add, sample or
  save, and need not crash.
* `EmbodiedRollout`: weak fairness of every worker, whose calls wait only for items.

Strong fairness is nowhere needed.

## 6. Proofs

All are checked by TLAPS for every value of the constants under the named assumptions of the modules.

### DeviceLock

The invariant `IInv` has six parts: `TypeOK`; `Queued`, whoever is in a deque is acquiring, once, and does
not own the lock; `HeadWoken`, only the head is ever woken, and its lock is then free; `Owned`, locks
and owners agree, and owners are acquiring or inside; `Asked`, a worker that asked has or waits for each
device; `Order`, in every deque two workers stand in the order in which they asked. `MutualExclusion`
is not inductive alone: a worker enters because it has left all deques, and only `Asked` turns this into
ownership. `ResumeFindsFree` is `HeadWoken` with `Owned`.

| theorem | says |
|---|---|
| `TypeCorrect` | `Spec => []TypeOK`, for any nesting |
| `InvHolds` | `Spec => []IInv` |
| `MutualExclusionHolds`, `ResumeAssertion`, `ReleaseSucceeds` | the three safety invariants of the run |
| `Implementation` | `Spec => ImplementsSections`: `AcquireDevices` is `Ask`, `Enter` is `GoIn`, `ReleaseDevices` is `Leave`, `Resume` stutters |

All but the first assume `MaxDepth = 1`, no nested section: for 2 exclusion fails (section 7, "Known deviations"), and no
worker of the repository nests its sections.

### ChannelQueue

The invariant is `QueueInv`: `TypeOK`; a deque holds a task once, and only tasks that wait and are not
woken (`Asleep`); woken tasks wait too and are finitely many (`Awake`). So a task that runs is in no deque, and those it
wakes were not awake: the number of woken tasks of a kind changes by exactly what `CountWoken` says. Every call is one of five
kinds of steps (`StepOfTask`), and the two counting invariants follow step by step. Batches need
`StoredInv` besides: what is in the queue was put by calls that are done, once, and is in no batch. So the item before which a batch is
cut (`BatchRun`) was put, and remains the reason for the cut whatever happens to it later (`BatchKept`).

| theorem | says |
|---|---|
| `QueueTypes` | `Spec => []TypeOK`, which includes that a bounded queue stays within its capacity |
| `NoSlotIsLost` | `Spec => []NoLostSlot`, for any mix of calls |
| `NoItemIsLost` | `BatchAlone /\ Spec => []NoLostItem`: for any mix of calls without `get_batch`, and for producers with one consumer, of batches or not |
| `BatchesWithinTarget` | `Spec => []BatchWithinTarget`, for any mix of calls: within the target, and short of it only when cut |

`BatchAlone` is needed: a `get_batch` that is woken may end without taking an item, while a `get` sleeps behind it (section
7). Both workloads of the run satisfy it. The two kinds of workload have different invariants: with one consumer the queue is
empty while it waits (`EmptyWait`); otherwise `NoLostItem` is inductive itself.

### SchedulerResources

`Balanced` and `NoOverlap` depend on who has been told what. The invariant `IInv` therefore has the conversation of
scheduler and actor (`Conversation`: what is in the two queues follows from where the two are, in five cases from
`NotStarted` to `Ended`), the size that the actor has or is about to be told (`SizeTold`), and that it only asks once it has
trained (`Trained`). With the wait-before-last policy inference leaves after the rollouts (`InferenceLast`), and the actor
has everything in the last iteration (`TakesAll`). The lemmas in front of the steps are the arithmetic of `CeilDiv`,
products and the valid sizes.

| theorem | says |
|---|---|
| `InvHolds` | `SamePolicies /\ Spec => []IInv` |
| `AccountingHolds` | each GPU belongs to one component or is available; the assertion of `try_allocate` holds |
| `RoomForMigrantsHolds` | what stays after a migration can run all tasks |
| `ActorInStepHolds` | the actor has the size that its manager believes |
| `NoOverlapHolds` | with `WaitBeforeLast`, nobody is on the actor's GPUs |
| `LastStepTakesAllHolds` | with `WaitBeforeLast` and `Minibatches > 1`, the last iteration runs on the whole cluster |

`SamePolicies` says that scheduler and actor read the same `use_pre_process_policy`; where the option is absent they do not
("Different defaults" in section 7). Without the
wait-before-last policy the last two fail ("Growth onto GPUs in use"). With one minibatch there is no iteration before the last.

### ChannelComm

Three invariants, each on top of the one before. `OnceInv` follows an item from its put to the get that returns it: it is sent once,
held by at most one put that waits for room (`Carried`), stored once (`StoredOnce`), and leaves the queue for one reply
(`Replied`) and one result (`Returned`); `InChain`, `AtHead` and `Asleep` say which calls can act on it. `RouteInv` adds that
what a worker is replied is the answer to its one blocking get (`OneAtATime`), or carries a query id. `OrderInv` adds that what a
worker's connection has delivered is stored, in the order of sending for each key, but for the last item (`AllStored`, `InOrder`).

| theorem | says |
|---|---|
| `OnceHolds`, `AtMostOnceHolds` | an item is returned at most once, and by no get while it is in a queue; no hypothesis |
| `KeyRoutingHolds` | `UnmixedGets /\ Spec => []KeyRouting`: a get returns an item of its key |
| `PutOrderHolds` | `InOrderOfPuts /\ Spec => []PutOrder`: a worker's items enter a queue in the order of its puts |

`UnmixedGets`: no worker has a blocking get on one key and an async get on another ("Replies to another get" in section 7).
`InOrderOfPuts`: in a workload either all queues have room for their puts or each worker puts on one key ("Puts on two bounded
keys"). Each is about the calls alone, and the workloads of the run satisfy both. Any number of workers, keys and calls, and any
`MaxSize`, are covered.

### WeightSync

`SyncInv` relates actor and ranks: what a rank has had (`Had`) is what the actor has given it (`Given`), unless the rank has been
called and has not begun (`Receiving`); versions on their way are the actor's (`Versions`), and buckets that are loaded are new
(`Loaded`). `StaleInv` is a counting argument. Trajectories do not say where they come from, so it states that they can be
attributed to units of ranks (`Attributed`): those that training has taken are as many as make its batches, and the earlier
ones of each rank. A rank makes at most the threshold more units than the version it applied (`Making`), so that when a trajectory
is taken, the units before it bound how many batches have gone by (`UnitsBound`).

| theorem | says |
|---|---|
| `SyncHolds` | `Spec => []SyncInv` |
| `PairedHolds`, `WeightsRightHolds` | buckets and applies stay paired; whole weights of the version that a rank names |
| `StaleWithinHolds` | with PPO and a threshold, what is trained on is at most threshold times ranks versions old |

None has a hypothesis; `StaleWithin` itself is about PPO with a threshold.

### PointToPoint

`IInv` says where threads may be (`Homes`), that a queue that calls itself done has no work and that only then a caller works
(`IdleInv`), that each call is done, at work, waiting or with its caller, in this order (`Count`), that one thread of an endpoint
sets the group up at one port (`SetupInv`), and that both sides of a direction are at the same frame of the same object or one
frame-sequence apart at its end (`Lockstep`, in `StepInv`). `FramesAgree` is about the programs of all objects and peers: the sides
have the same frames, until the receiver raises. A thread takes part in a broadcast of a thread of the other endpoint only in
that direction (`JoinedInStep`).

| theorem | says |
|---|---|
| `InvHolds` | `OneWayIfUncertain /\ Spec => []IInv` |
| `InStepHolds` | `OneWayIfUncertain /\ Spec => []InStep` |
| `RecvReturnsSendSafely` | each step is one of `ConnectionPromise` or none; a `Finish` of a recv is `Deliver` |

`OneWayIfUncertain`: two workers with several common devices have objects in one direction only ("Uncertain peers" in section 7: the
exchange about devices uses the groups of the other direction). Scenes with other peers are not restricted, and those of the run
all satisfy it. Number and contents of the objects are arbitrary.

### RolloutMigration

`IInv` is what the manager and the instances know of each other. `Shape`: the instances that leave are the lowest
that are left, and one stays while groups migrate. `Talk`: for each place of the manager, what is in the two queues of an instance
and where its `main_loop()` is; the cases are `Gone`, `Quiet`, `Reporting`, `MovingOut` and `Finishing`. `Own`: the sets of `rollout()` agree
with where it waits, and an event is only set for an instance with tasks or one that is about to finish. `Aborts`: only groups of
an instance that migrates out have aborted sequences. `Placed`: a group that is not put out has exactly one place: `home` in
a request not yet taken, `here` among the running groups, `kept` for the answer, or `coming` in a request; once put out it has none, except
that it is still among the running groups of the instance that awaits its put (`putting`), which holds one group at most, out of those it looks at.
`OnePlace` alone is not inductive, for it does not follow groups through the answer of an instance that migrates out.

The step that moves groups rests on what two recursive definitions compute: `SharesOut` (`assign_sequences` gives every group to
exactly one of the instances that stay) and `Flattens` (the concatenation of what was kept has each of its groups once). They are proved for
any input by induction over the naturals, and so is `SumBound`, about sums over finite sets: a sum of bounded summands reaches its
bound only if each summand does. That is why pre_process, which compares the tasks reported with all tasks, waits
until every instance has begun.

With pre_process `PreInv` is inductive on top of `IInv`: until all have begun, an instance that has not begun reports no tasks, no
group is on its way, and nobody has more than its own groups (`Begins`, `Reported`).

| theorem | says |
|---|---|
| `GroupsInOnePlace` | `Spec => []OnePlace`; no hypothesis. The put and `mark_done` are two steps, and anything may happen between them |
| `ImplementsPromiseSafely` | each step is one of `RolloutPromise` or none: a group is delivered once, the last instance leaves after all are |
| `NoFailureHolds` | `PreProcess /\ Spec => []NoFailure` |

The hypothesis of the last is needed: without pre_process an instance that has not begun may be told to finish ("Instances that
have not begun" in section 7). The policies of migration, the capacities and the number of instances, groups and
sequences are arbitrary.

### ReplayBuffer

`IInv` says what is in the cache, in the pool and in the files. `CacheOf`: the cache holds exactly the last `Size` trajectories
of the index, in the slots that follow from the last one that was filled, each whole and at the current stride (`Shape`, `Filled`, `At`).
`Windowed`: the cached window is of an index that was, and right if the version has not changed. `FromSource` and `Written`: the file of a
trajectory is in the directory that was loaded, or in `auto_save_path`, whole or with a save under way; `Writes`: a save under
way is of a trajectory in the index and the only one of its id. `Flushed`: a flush that no longer waits has its files,
and one that is done its ids in the index on disk. `Saving`: what a checkpoint still has to copy is in the index, and what the
cache holds is copied or to be copied; `Good`: the last whole checkpoint has the files that a start from it reads.
`SamplesRight` alone is not inductive: it says nothing of the slots while the owner adds or saves, nor in which order they are given up.

Three arguments carry it. Slots of one stride do not overlap, and growing moves each trajectory as a whole (`Strides`, `GrownKeeps`).
A put takes the slot after the last one, which holds the oldest trajectory once the cache is full, and nothing when it is not: so the
cache evicts in the order of the index (`PutKeeps`). Loading fills the cache by a fold over
the trajectories that were listed; its result is followed by induction over the naturals (`FoldHolds`, `LoadKeeps`).

| theorem | says |
|---|---|
| `SamplesAreRight` | `CheckpointsInMemory /\ CachesBuilt /\ Spec => []SamplesRight` |
| `NothingIsLost` | `CheckpointsInMemory /\ CachesBuilt /\ Spec => []NothingLost` |
| `DiskIsComplete` | `CheckpointsInMemory /\ CachesBuilt /\ Spec => []DiskComplete`: checkpoints load and have their window, flushed calls are on disk, and the directory at rest is the buffer |
| `FlushesAreTrue` | `Spec => []FlushedIsSaved`, the part of `DiskComplete` about flushes, without a hypothesis |

`CheckpointsInMemory`: a buffer that starts again from its checkpoints does not have auto_save ("Checkpoints with auto_save" in section 7;
there loading can fail). With both, TLC finds each of the three violated. `CachesBuilt`: a buffer without auto_save has
enable_cache, and a cache that is asked for has at least one slot (`Built`). A buffer with neither option loses what is
added, and to one without slots nothing can be added ("Caches in memory"). All configurations of the run satisfy the first
hypothesis and all but those two the second.

What flushes say holds whatever the configuration, by an invariant of its own: `FlushInv` follows the ids of a call from their
submission to the index. `Settled` stands on it: unless the owner is in a call, either some flush has yet to write the metadata (the
index) or they are those of the buffer; so when all flushes are done they are. Sizes of cache and window, lengths of trajectories,
the number of demonstrations and the ranks that share them are arbitrary.

### Model-checked only

* Liveness: everything under fairness and `ENABLED`, also in the refinements of `ConnectionPromise` and `RolloutPromise`.
* `EmbodiedRollout`. Its properties rest on what cutting and merging shards gives for groups of any sizes
  (`from`, a recursive function, with `FlattenSeq`, `SelectSeq` and folds inside the actions). Each would need an induction
  of its own before the first step can be looked at; TLC checks the layouts of the runs.

## 7. Findings

1. *`put_nowait` hangs.* When the remote put raises `QueueFull`, the done callback raises in turn, and the future that the
   caller waits for is never set (`S/collective/async_work.py:268`); `S/channel/channel.py:424` documents the exception.
2. *Bootstrap values of some shards only.* A rollout worker computes bootstrap values for its whole batch as soon as one of its env
   workers sends final observations. With groups of which neither size is a multiple of the other, an env worker is served by
   several rollout workers, one with such values and one without, and `merge_rollout_results` raises
   (`src/rlinf/data/embodied_io_struct.py:301`). The policy has to have a value or q head. `src/rlinf/workers/env/env_worker.py:269` says that
   "both one-to-many and many-to-one" layouts work; nothing rejects a layout that is both.
   In this commit the exception of "Training chunks" below comes first; the run has the fields added.
3. *The reward worker ends after one stage.* It returns after as many requests with `last_run` as its rank has environments in one
   stage (`src/rlinf/workers/reward/reward_worker.py:277`), but env workers send them for every stage. With
   `pipeline_stage_num` 2, which `src/docs/source-en/rst_source/tutorials/mode/hybrid.rst:40` recommends, the last request of the
   second stage is never answered. Here too "Training chunks" comes first, and the run has the fields added.

### Known deviations

Places where the code does less than one might expect. They are in the hazards of `PROJECT.json` or beside the assumption of a
run that keeps clear of them, and no run of its own is kept for them.

* *Training chunks* cannot be built. `generate_one_epoch` gives the result of every chunk nine keywords, `stepwise_logprobs` to
  `prefix_output` (`src/rlinf/workers/rollout/hf/huggingface_worker.py:450-460`), that the dataclass `RolloutResult`
  (`src/rlinf/data/embodied_io_struct.py:261-271`) does not have. The first chunk raises `TypeError`, no result is sent, and no embodied
  training call returns in this commit; `src/docs/source-en/rst_source/tutorials/rlalg/async_ppo.rst:108` says that the rollout worker
  repeatedly executes it and sends actions back. In `embodied_rollout`, the layouts without the fields end so. Findings 2 and 3 show once
  the fields are there.
* *Caches in memory.* Without `auto_save`, `__init__` of the replay buffer sets `self.enable_cache` and says that it enables
  the cache (`src/rlinf/data/replay_buffer.py:264`), but line 300 tests the argument. With both options off there is no cache and no
  file: what is added is lost, sampling raises, and so does saving a checkpoint. And without `auto_save` the size of the window is
  that of the cache: a window of 0, which means all (`src/docs/source-en/rst_source/tutorials/components/replay_buffer.rst:31`), makes a cache
  of no slots, whose first put takes a number modulo 0 (line 212). For such buffers `NothingLost` is not claimed.
* *An index ahead of its files.* The flush of a call waits for the files of that call and writes the index of the moment, which may list
  trajectories of later calls (`src/rlinf/data/replay_buffer.py:374`), while line 506 says that the index is saved "after all trajectory
  saves finish". A process that dies then leaves an index with files missing or cut off. `DiskComplete` says only what a
  flush has of its own call, and what is there when the last flush has ended.
* *Nested sections.* The device lock lets its owner acquire again at no cost and does not count: the first of two releases
  frees the accelerators (`S/manager/lock_manager.py:80`). With `MaxDepth = 2`, `MutualExclusion` fails.
* *`get_batch` beside `get`.* A put wakes one getter. When that is a `get_batch` in `peek` for which the item is too heavy, its
  call ends, and a `get` behind it sleeps on (`S/channel/channel_worker.py:471`). Two consumers of batches may each
  wait for the weight that the other has taken.
* *Replies to another get.* A blocking `get` returns what its own recv delivers; with an async get on another key outstanding
  that is the other's item (`S/channel/channel.py:513`). The `QueueEmpty` of a `get_nowait` can go astray likewise
  (`S/channel/channel.py:555`).
* *Puts on two bounded keys.* A put method receives the next item whichever key it has, and can carry an item past the chain that
  keeps the order (`S/channel/channel_worker.py:368`). It can also wait with it at a full key, and with it the put on another key
  whose method it was and those chained behind.
* *Growth onto GPUs in use.* Without the wait-before-last policy inference may be released while rollout instances
  stay; the available GPUs are then the last of the cluster, but an actor of that size runs on the first
  (`S/dynamic_scheduler/manager.py:762`).
* *Instances that have not begun.* Without pre_process nothing waits until an instance has taken its request. If the others
  produce the first minibatch before it does, it reports no tasks and may be told to finish, which sets its event before
  `rollout()` has begun (`src/rlinf/workers/rollout/sglang/sglang_worker.py:417`). With `PreProcess = FALSE`, `NoFailure` fails.
* *Different defaults.* The scheduler takes an absent `use_pre_process_policy` as true, placement and actor as false
  (`S/dynamic_scheduler/scheduler_worker.py:56`). The model has a constant for each side.
* *`assign_sequences`* may return a list shorter than its docstring says, when the last instance gets nothing; its
  caller copes.
* *vLLM.* A request aborted before its first token has no output, and recording it raises
  (`src/rlinf/workers/rollout/vllm/vllm_worker.py:189`).
* *Staleness* is bounded for each rollout rank by what that rank has applied, and trajectories of all ranks share a channel. The
  bound for what is trained on is the threshold times the ranks.
* *Weights in use bucket by bucket.* A background apply loads each bucket as it comes, and predictions between two buckets use weights
  of two versions, which `src/docs/source-en/rst_source/tutorials/advance/weight_syncer.rst:387` denies.
* *Uncertain peers.* The exchange about devices uses the groups of the other direction from a thread that does not
  own them (`S/collective/collective_group.py:1418`): two workers with several common devices that send to each
  other can get out of step. `send_tensor` to an uncertain peer on the same device raises (`:1233`).
* *The executor thread of a queue* ends with the first work that raises, and later works are never run.
* *Checkpoints with auto_save* copy the files of the window of the last sample and list every trajectory
  (`src/rlinf/data/replay_buffer.py:971`); loading such a one can fail. A restart on the directory of `auto_save_path` starts
  from nothing and overwrites it.

## 8. What is not modelled

Whole components:

* Numerical work, tensors, models, environments, algorithms: no state shared between processes.
* Ray: modelled by what it promises (calls are delivered, methods of an asynchronous actor start in any
  order). Failures of workers end the job.
* Configuration, hardware discovery, placement, the creation and dispatch of worker groups: done once, before anything runs concurrently,
  or arithmetic.
* Runners: sequential, except for the asynchronous ones, whose weight updates are in `WeightSync`.
* `LocalChannel` (one thread, never waits) and the replicas of keys over channel ranks.
* The port lock and its daemon: planned.

In the modelled components:

* Device lock: the death of a worker inside its section, after which the accelerators stay taken; the job ends with it.
* Channels: the moment between an async get's recv and the entry of its query id (`S/collective/async_work.py:327`); a `get_nowait` beside an
  async get of the same worker (section 7, "Replies to another get"); the read-only calls, the memory cleaner of the channel worker, calls from outside a worker (through Ray
  alone, hence `ChannelQueue`), `get_batch` inside a worker, creation and connection.
* Rollouts: the vLLM engine; sequences are counted and not named.
* Weights: the patch syncer, `load_instant` false, several actor ranks.
* Point-to-point: broadcasts in groups of more than two and their rendezvous, CUDA events and streams, a failure of a frame.
* Replay buffer: negative sizes of window and cache; `clear` and `clear_cache`, which nothing calls while the buffer is in use, and the thread that samples
  ahead of the owner.
* Embodied interaction: the asynchronous variants of env and reward workers, the pass of DAgger flags, offloading, metrics.

Most of the repository's lines are adapters to simulators and models, examples, and preparation of data, which
run in one process and keep no state that another one reads.

## 9. Plan

In the order in which they matter.

1. `PortLock` with the daemon and its stale list (`S/manager/lock_manager.py:182`): a port has one living owner as long as
   names are not reused.
2. Operators for ranks, placement and key replicas, checked against reference definitions.
3. `EmbodiedRollout` with the asynchronous env workers, composed with `WeightSync`.
4. Proofs about `EmbodiedRollout`: first what the cuts of `CommMapper` give for groups of any sizes, then `NothingLeft` from the
   counts of shards sent and expected.
