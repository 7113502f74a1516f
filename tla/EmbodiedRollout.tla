--------------------------- MODULE EmbodiedRollout ---------------------------
(***************************************************************************)
(* One interaction of embodied training: env workers step their            *)
(* environments, rollout workers act, reward workers judge, actor workers  *)
(* take the trajectories (rlinf/workers/env/env_worker.py,                 *)
(* rlinf/workers/rollout/hf/huggingface_worker.py,                         *)
(* rlinf/workers/reward/reward_worker.py and rlinf/utils/comm_mapping.py,  *)
(* called by rlinf/runners/embodied_runner.py).                            *)
(*                                                                         *)
(* The groups have sizes of their own.  Every batch is split over the next *)
(* group by CommMapper and sent in shards, one queue per pair of ranks and *)
(* kind; the receiver merges what its sources send.  A queue is first in,  *)
(* first out (ChannelComm), and has one producer and one consumer, so the  *)
(* puts of a batch are one step here and the gets of a batch another.      *)
(*                                                                         *)
(* An observation is its tag <<stage, environment, number>>; an action or  *)
(* a reward is the tag of the observation it was computed from.            *)
(***************************************************************************)
EXTENDS Integers, Sequences, FiniteSets, SequencesExt, FiniteSetsExt

CONSTANTS
    Layouts     \* records of env, rollout, reward and actor (sizes of the groups),
                \* batch (environments of a stage), stages, chunks, epochs, eval,
                \* autoReset, finals (whether the last step of a chunk may come
                \* with final observations, and may come without), and fields:
                \* whether RolloutResult has the fields stepwise_logprobs to
                \* prefix_output.  It has not: FALSE is the code as it is

ASSUME LayoutsAssumption ==
    \A l \in Layouts :
      /\ {l.env, l.rollout, l.actor, l.batch, l.stages, l.chunks, l.epochs}
           \subseteq Nat \ {0}
      /\ l.reward \in Nat
      /\ \A n \in {l.env, l.rollout, l.reward} \ {0} : l.batch % n = 0
      /\ l.finals \subseteq BOOLEAN /\ l.finals # {}
      /\ {l.eval, l.autoReset, l.fields} \subseteq BOOLEAN

VARIABLES
    layout,     \* the layout
    dst, src,   \* <<kind, rank>> -> the ranks the worker sends items of that kind
                \* to, or receives them from, with the sizes: dst_rank_map and
                \* src_rank_map of the env workers, dst_ranks and src_ranks
    queues,     \* the channels of the runner: key -> items
    trajs,      \* trajectories in the actor channel
    env,        \* env rank -> [pc, epoch, step, stage, seen, acted, upon, scored, on]
    answered,   \* rollout rank -> batches it has answered
    failed,     \* the rollout ranks whose call has raised
    reward,     \* reward rank -> [pc, last]
    taken       \* actor rank -> trajectories it has taken

vars == <<layout, dst, src, queues, trajs, env, answered, failed, reward,
          taken>>

Ranks(n) == 0..n - 1
Envs == Ranks(layout.env)
Rollouts == Ranks(layout.rollout)
Rewards == Ranks(layout.reward)
Actors == Ranks(layout.actor)

-----------------------------------------------------------------------------
(* CommMapper.                                                             *)

\* The ranks that the batch of a source rank goes to, with the sizes of the shards.
DstRanks(n, srcs, dsts, rank) ==
    LET perSrc == n \div srcs
        perDst == n \div dsts
        end == (rank + 1) * perSrc
        from[b \in 0..end] ==
            IF b = end THEN <<>>
            ELSE LET to == b \div perDst
                     size == Min({perDst - (b - to * perDst), end - b})
                 IN  <<<<to, size>>>> \o from[b + size]
    IN  from[rank * perSrc]

\* The ranks whose shards make up the batch of a destination rank.
SrcRanksReversed(n, srcs, dsts, rank) ==        \* fault
    FlattenSeq([i \in 1..srcs |->
        LET to == SelectSeq(DstRanks(n, srcs, dsts, srcs - i), LAMBDA p : p[1] = rank)
        IN  [k \in DOMAIN to |-> <<srcs - i, to[k][2]>>]])
SrcRanksBySize(n, srcs, dsts, rank) ==          \* fault: sizes of the other side
    FlattenSeq([i \in 1..srcs |->
        LET to == SelectSeq(DstRanks(n, srcs, dsts, i - 1), LAMBDA p : p[1] = rank)
        IN  [k \in DOMAIN to |-> <<i - 1, n \div srcs>>]])
SrcRanks(n, srcs, dsts, rank) ==
    FlattenSeq([i \in 1..srcs |->
        LET to == SelectSeq(DstRanks(n, srcs, dsts, i - 1), LAMBDA p : p[1] = rank)
        IN  [k \in DOMAIN to |-> <<i - 1, to[k][2]>>]])

\* compute_split_num: how many of n things each of m parts gives or gets.
SplitNum(n, m) == Min({k \in 1..n * m : k % n = 0 /\ k % m = 0}) \div m

-----------------------------------------------------------------------------
(* The channels.  An item is a shard: [tags, flag]; the flag says that it  *)
(* comes with final observations, bootstrap values or last_run.            *)

Kinds(l) == [obs |-> <<l.env, l.rollout>>, results |-> <<l.rollout, l.env>>,
             reward_input |-> <<l.env, l.reward>>, reward_output |-> <<l.reward, l.env>>]

Keys(l) == UNION {{k} \X Ranks(Kinds(l)[k][1]) \X Ranks(Kinds(l)[k][2]) :
                    k \in DOMAIN Kinds(l)}

\* _setup_dst_rank_map and _setup_src_rank_map, _setup_dst_ranks and _setup_src_ranks.
DstMaps(l) ==
    [x \in {<<k[1], k[2]>> : k \in Keys(l)} |->
       DstRanks(l.batch, Kinds(l)[x[1]][1], Kinds(l)[x[1]][2], x[2])]
SrcMaps(l) ==
    [x \in {<<k[1], k[3]>> : k \in Keys(l)} |->
       SrcRanks(l.batch, Kinds(l)[x[1]][1], Kinds(l)[x[1]][2], x[2])]

\* Cut into consecutive shards, and put each into the queue of its pair of ranks.
Shard(tags, pairs, i) ==
    LET start == FoldLeft(LAMBDA a, p : a + p[2], 0, SubSeq(pairs, 1, i - 1))
    IN  SubSeq(tags, start + 1, start + pairs[i][2])

Item(pairs, tags, i, flag) == [tags |-> Shard(tags, pairs, i), flag |-> flag]

Send(qs, kind, rank, tags, flag) ==
    LET pairs == dst[<<kind, rank>>]
    IN  [k \in DOMAIN qs |->
           qs[k] \o FlattenSeq([i \in DOMAIN pairs |->
             IF k = <<kind, rank, pairs[i][1]>> THEN <<Item(pairs, tags, i, flag)>>
             ELSE <<>>])]

\* The items a receiver waits for, one from each of its sources.
Sources(kind, rank) == [i \in DOMAIN src[<<kind, rank>>] |->
                          <<kind, src[<<kind, rank>>][i][1], rank>>]
Ready(kind, rank) == \A k \in Range(Sources(kind, rank)) : queues[k] # <<>>
Items(kind, rank) == [i \in DOMAIN Sources(kind, rank) |->
                        Head(queues[Sources(kind, rank)[i]])]
Received(kind, rank) == [k \in DOMAIN queues |->
    IF k \in Range(Sources(kind, rank)) THEN Tail(queues[k]) ELSE queues[k]]

Merged(items) == FlattenSeq([i \in DOMAIN items |-> items[i].tags])
AnyFlag(items) == \E i \in DOMAIN items : items[i].flag

-----------------------------------------------------------------------------
(* The programs of the workers.                                            *)

PerEnv == layout.batch \div layout.env
Batch(r, stage, number) ==
    [i \in 1..PerEnv |-> <<stage, r * PerEnv + i - 1, number>>]

\* generate_one_epoch answers once more per stage than there are chunks; evaluate
\* does not.
RolloutBatchesAlike ==                          \* fault: evaluate does as well
    layout.epochs * layout.stages * (layout.chunks + 1)
RolloutBatches ==
    layout.epochs * layout.stages * (layout.chunks + (IF layout.eval THEN 0 ELSE 1))

ActorTakesSwapped ==                            \* fault: the arguments swapped
    SplitNum(layout.actor, layout.env * layout.stages)
ActorTakes == SplitNum(layout.env * layout.stages, layout.actor)
EnvGivesSwapped ==                              \* fault: the arguments swapped
    SplitNum(layout.env * layout.stages, layout.actor)
EnvGives == SplitNum(layout.actor, layout.env * layout.stages)

Init ==
    /\ layout \in Layouts
    /\ dst = DstMaps(layout) /\ src = SrcMaps(layout)
    /\ queues = [k \in Keys(layout) |-> <<>>]
    /\ trajs = 0
    /\ env = [r \in Envs |->
                [pc |-> "reset", epoch |-> 0, step |-> 0, stage |-> 0,
                 seen |-> [s \in Ranks(layout.stages) |-> 0],
                 acted |-> <<>>, upon |-> <<>>, scored |-> <<>>, on |-> <<>>]]
    /\ answered = [w \in Rollouts |-> 0]
    /\ failed = {}
    /\ reward = [w \in Rewards |-> [pc |-> "on", last |-> 0]]
    /\ taken = [a \in Actors |-> 0]

-----------------------------------------------------------------------------
(* Env workers.                                                            *)

LastEpoch(e) == e.epoch = layout.epochs - 1

\* The observations of all the stages, in order.
SendStages(r, seen) ==
    FoldLeft(LAMBDA qs, i : Send(qs, "obs", r, Batch(r, i - 1, seen[i - 1]), FALSE),
             queues, [i \in 1..layout.stages |-> i])

\* bootstrap_step: new observations, or the last ones again with auto_reset; the
\* evaluation with auto_reset goes on from where it is.
Reset(r) ==
    LET e == env[r]
        seen == IF layout.autoReset /\ ~(layout.eval /\ e.epoch = 0)
                THEN e.seen ELSE [s \in DOMAIN e.seen |-> e.seen[s] + 1]
    IN  /\ e.pc = "reset"
        /\ env' = [env EXCEPT ![r] = [e EXCEPT !.pc = "turn", !.seen = seen]]
        /\ queues' = IF layout.eval /\ layout.autoReset /\ e.epoch > 0
                     THEN queues ELSE SendStages(r, seen)
        /\ UNCHANGED <<layout, dst, src, trajs, answered, failed, reward, taken>>

\* get_reward_model_output.  With the reward model every step has a final
\* observation, so that both reward modes ask at every step but the first.
Asks(e) == ~layout.eval /\ layout.reward > 0 /\ e.step > 0

SendRewardInput(r) ==
    LET e == env[r]
    IN  /\ e.pc = "turn"
        /\ Asks(e)
        /\ queues' = Send(queues, "reward_input", r, Batch(r, e.stage, e.seen[e.stage]),
                          e.step = layout.chunks /\ LastEpoch(e))
        /\ env' = [env EXCEPT ![r].pc = "reward"]
        /\ UNCHANGED <<layout, dst, src, trajs, answered, failed, reward, taken>>

RecvRewardResults(r) ==
    LET e == env[r]
    IN  /\ e.pc = "reward"
        /\ Ready("reward_output", r)
        /\ env' = [env EXCEPT ![r] =
                     [e EXCEPT !.pc = "result",
                               !.scored = Merged(Items("reward_output", r)),
                               !.on = Batch(r, e.stage, e.seen[e.stage])]]
        /\ queues' = Received("reward_output", r)
        /\ UNCHANGED <<layout, dst, src, trajs, answered, failed, reward, taken>>

\* After the turn of a stage: the next stage, the next chunk, the next epoch.
StageFollowsLast(e) == e.stage + 1 <= layout.stages         \* fault: one too many
StageFollows(e) == e.stage + 1 < layout.stages

NextTurn(e) ==
    IF StageFollows(e) THEN [e EXCEPT !.pc = "turn", !.stage = @ + 1]
    ELSE IF e.step < (IF layout.eval THEN layout.chunks - 1 ELSE layout.chunks)
    THEN [e EXCEPT !.pc = "turn", !.step = @ + 1, !.stage = 0]
    ELSE IF LastEpoch(e) THEN [e EXCEPT !.pc = IF layout.eval THEN "done" ELSE "send"]
    ELSE [e EXCEPT !.pc = "reset", !.epoch = @ + 1, !.step = 0, !.stage = 0]

\* The next observation goes out, except after the last action of an evaluation.
SendsOnAlways(e) == TRUE                        \* fault
SendsOn(e) ==
    IF layout.eval
    THEN ~(e.step = layout.chunks - 1 /\ (layout.autoReset => LastEpoch(e)))
    ELSE TRUE

\* merge_rollout_results refuses shards of which only some have bootstrap values.
Mixed(items) == AnyFlag(items) /\ \E i \in DOMAIN items : ~items[i].flag

\* recv_rollout_results, env_interact_step and send_env_batch; in an evaluation
\* recv_chunk_actions and env_evaluate_step.  The last results of an epoch carry
\* only values.
RecvRolloutResults(r) ==
    LET e == env[r]
        items == Items("results", r)
        got == [e EXCEPT !.acted = Merged(items),
                         !.upon = Batch(r, e.stage, e.seen[e.stage])]
    IN  /\ e.pc = "result" \/ (e.pc = "turn" /\ ~Asks(e))
        /\ Ready("results", r)
        /\ IF Mixed(items)
           THEN /\ env' = [env EXCEPT ![r].pc = "raised"]
                /\ queues' = Received("results", r)
           ELSE \/ /\ ~layout.eval /\ e.step = layout.chunks
                   /\ env' = [env EXCEPT ![r] = NextTurn(got)]
                   /\ queues' = Received("results", r)
                \/ /\ layout.eval \/ e.step < layout.chunks
                   /\ env' = [env EXCEPT
                                ![r] = NextTurn([got EXCEPT !.seen[e.stage] = @ + 1])]
                   /\ \E final \in layout.finals :
                        queues' = IF SendsOn(e)
                                  THEN Send(Received("results", r), "obs", r,
                                            Batch(r, e.stage, e.seen[e.stage] + 1), final)
                                  ELSE Received("results", r)
        /\ UNCHANGED <<layout, dst, src, trajs, answered, failed, reward, taken>>

\* send_rollout_trajectories, for every stage.
SendTrajectories(r) ==
    /\ env[r].pc = "send"
    /\ trajs' = trajs + layout.stages * EnvGives
    /\ env' = [env EXCEPT ![r].pc = "done"]
    /\ UNCHANGED <<layout, dst, src, queues, answered, failed, reward, taken>>

-----------------------------------------------------------------------------
(* Rollout, reward and actor workers.                                      *)

\* generate_one_epoch gives the result of a chunk fields that RolloutResult may not
\* have; the results after the last chunk carry only values.
OfChunk(w) ==
    /\ ~layout.eval
    /\ answered[w] % (layout.stages * (layout.chunks + 1))
         < layout.stages * layout.chunks

\* recv_env_output, predict and send_rollout_result (in an evaluation
\* send_chunk_actions).  A policy with a value head has bootstrap values for all as
\* soon as one source has final observations.
Answer(w) ==
    LET items == Items("obs", w)
    IN  /\ w \notin failed
        /\ answered[w] < RolloutBatches
        /\ Ready("obs", w)
        /\ IF OfChunk(w) /\ ~layout.fields
           THEN /\ failed' = failed \union {w}
                /\ queues' = Received("obs", w)
                /\ UNCHANGED answered
           ELSE /\ queues' = Send(Received("obs", w), "results", w, Merged(items),
                                  ~layout.eval /\ AnyFlag(items))
                /\ answered' = [answered EXCEPT ![w] = @ + 1]
                /\ UNCHANGED failed
        /\ UNCHANGED <<layout, dst, src, trajs, env, reward, taken>>

\* compute_rewards ends with the last_run of as many environments as the rank has
\* in a stage.
Judge(w) ==
    LET items == Items("reward_input", w)
        last == reward[w].last +
                  FoldLeft(LAMBDA a, x : a + (IF x.flag THEN Len(x.tags) ELSE 0),
                           0, items)
        local == layout.batch \div layout.reward
    IN  /\ reward[w].pc = "on"
        /\ Ready("reward_input", w)
        /\ queues' = Send(Received("reward_input", w), "reward_output", w,
                          Merged(items), FALSE)
        /\ reward' = [reward EXCEPT ![w] =
                        [pc |-> IF last >= local THEN "off" ELSE "on", last |-> last]]
        /\ UNCHANGED <<layout, dst, src, trajs, env, answered, failed, taken>>

\* recv_rollout_trajectories.
TakeTrajectory(a) ==
    /\ ~layout.eval
    /\ taken[a] < ActorTakes
    /\ trajs > 0
    /\ trajs' = trajs - 1
    /\ taken' = [taken EXCEPT ![a] = @ + 1]
    /\ UNCHANGED <<layout, dst, src, queues, env, answered, failed, reward>>

-----------------------------------------------------------------------------
\* All the calls have returned.
AllEnded ==
    /\ \A r \in Envs : env[r].pc = "done"
    /\ \A w \in Rollouts : answered[w] = RolloutBatches
    /\ layout.eval \/ \A w \in Rewards : reward[w].pc = "off"
    /\ layout.eval \/ \A a \in Actors : taken[a] = ActorTakes

\* An exception ends the job (WorkerGroup signals the main process).
Ended == (AllEnded \/ failed # {}) /\ UNCHANGED vars

EnvStep(r) == \/ Reset(r) \/ SendRewardInput(r) \/ RecvRewardResults(r)
              \/ RecvRolloutResults(r) \/ SendTrajectories(r)

Next ==
    \/ \E r \in Envs : EnvStep(r)
    \/ \E w \in Rollouts : Answer(w)
    \/ \E w \in Rewards : Judge(w)
    \/ \E a \in Actors : TakeTrajectory(a)
    \/ Ended

Spec == Init /\ [][Next]_vars

\* Every worker goes on when it can: each is a process of its own.
FairSpec ==
    /\ Spec
    /\ \A r \in 0..9 : WF_vars(r \in Envs /\ EnvStep(r))
    /\ \A w \in 0..9 : WF_vars(w \in Rollouts /\ Answer(w))
    /\ \A w \in 0..9 : WF_vars(w \in Rewards /\ Judge(w))
    /\ \A a \in 0..9 : WF_vars(a \in Actors /\ TakeTrajectory(a))

-----------------------------------------------------------------------------
\* The programs stay in range: no stage, chunk or epoch beyond the last, and no
\* worker takes or answers more than its share.
TypeOK ==
    /\ layout \in Layouts
    /\ DOMAIN queues = Keys(layout)
    /\ trajs \in Nat
    /\ \A r \in Envs :
         /\ env[r].pc \in {"reset", "turn", "reward", "result", "send", "done", "raised"}
         /\ env[r].epoch \in Ranks(layout.epochs)
         /\ env[r].step \in 0..layout.chunks
         /\ env[r].stage \in Ranks(layout.stages)
    /\ \A w \in Rollouts : answered[w] \in 0..RolloutBatches
    /\ failed \subseteq Rollouts
    /\ \A a \in Actors : taken[a] \in 0..ActorTakes

\* The assertions on the size of what is received: each shard in a queue has the
\* size its receiver expects from that source.
ShardsFit ==
    \A k \in DOMAIN queues : \A i \in DOMAIN queues[k] :
      <<k[2], Len(queues[k][i].tags)>> \in Range(src[<<k[1], k[3]>>])

\* The actions an env worker applies, and the rewards of the reward model it takes,
\* are, environment by environment, those that were computed from the observation
\* the environment is at, whatever ranks they and the observation went through and
\* however the stages are interleaved.
AnswersForObservations ==
    /\ TypeOK /\ ShardsFit
    /\ \A r \in Envs : env[r].acted = env[r].upon /\ env[r].scored = env[r].on

\* merge_rollout_results never finds bootstrap values in some shards only.
MergeConsistent == \A r \in Envs : env[r].pc # "raised"

\* When the calls have returned nothing is left in a channel: the next interaction
\* or evaluation, which uses the same channels, starts with its own observations,
\* and the actors have every trajectory.
NothingLeft ==
    AllEnded => /\ \A k \in DOMAIN queues : queues[k] = <<>>
                /\ trajs = 0

\* Every call returns: no worker waits for an item that nobody will send, and none
\* ends by an exception.  Where RolloutResult lacks the fields, as it does, this is
\* so of evaluations; training ends by the exception of a rollout worker.
CallsReturn ==
    <>(IF layout.eval \/ layout.fields THEN AllEnded ELSE failed # {})
=============================================================================
