---------------------- MODULE SchedulerResources_proofs ----------------------
(***************************************************************************)
(* Proofs about the dynamic scheduler.  They are about configurations in   *)
(* which scheduler and actor read the same use_pre_process_policy          *)
(* (SamePolicies); what depends on the wait-before-last policy says so.    *)
(***************************************************************************)
EXTENDS SchedulerResources, FiniteSetTheorems, TLAPS

SamePolicies == SchedulerPreProcess = PreProcess

-----------------------------------------------------------------------------
(* The inductive invariant.                                                *)

\* The scheduler has the actor's message and has not answered it.
Deciding == at \in {"rollout", "offload", "inference", "actor"}

(* The actor has asked for the size of its next iteration, the scheduler   *)
(* has not answered, and both are in the same iteration.                   *)
Asked == actorAt = "asking" /\ requests = <<>> /\ actorIter = iter

(* The conversation: what is in the two queues follows from where the      *)
(* scheduler and the actor are.                                            *)
NotStarted ==
  /\ actorAt = "starting" /\ actorIter = 0 /\ iter = 0 /\ asked = 0
  /\ requests = IF PreProcess /\ at = "await_actor" THEN <<None>> ELSE <<>>

Training ==
  /\ at = "await_actor"
  /\ actorAt = "training" /\ actorIter = iter /\ asked = 0 /\ requests = <<>>

Answered ==
  /\ actorAt = "asking" /\ asked = 0 /\ Len(requests) = 1
  /\ actorIter = IF at = "idle" THEN Minibatches - 1 ELSE iter - 1

Ended == actorAt = "ended" /\ actorIter = 0 /\ asked = 0 /\ requests = <<>>

Conversation ==
  /\ at = "idle" => Ended \/ Answered
  /\ at = "pre_process" => NotStarted /\ PreProcess
  /\ at = "await_actor" => NotStarted \/ Training \/ Answered \/ (Asked /\ asked = 1)
  /\ Deciding => Asked /\ asked = 0

(* The actor has the size its manager believes, or is about to be told.    *)
SizeTold ==
  IF Answered /\ Head(requests) # None
    THEN Head(requests) = actor * ActorMp ELSE world = actor * ActorMp

(* At both ends of a step the actor has its own GPUs. *)
OwnSize == at \in {"idle", "pre_process"} => actor = ActorInit

(* Before instances have migrated off the actor's GPUs all are there.      *)
AllThere ==
  at = "pre_process" => rollouts = RolloutInit /\ inference = InferenceGpus /\ available = 0

(* The actor only asks when it has trained on its share of the tasks. *)
Trained ==
  actorAt = "asking" => (Tasks - unfinished) * Minibatches >= (actorIter + 1) * Tasks

(* With the policy inference gives up its GPUs after the rollouts, and     *)
(* nobody is left before the last iteration.                               *)
InferenceLast ==
  /\ inference = 0 /\ InferenceGpus > 0 => rollouts = 0 /\ inferred
  /\ at = "offload" /\ BeforeLastIter => leaving = rollouts
  /\ at \in {"inference", "actor"} /\ BeforeLastIter => rollouts = 0
  /\ at = "actor" /\ BeforeLastIter => inference = 0

TakesAll == Minibatches > 1 /\ LastIter /\ at = "await_actor" => actor * ActorMp = ClusterGpus

(* Instances only leave while the scheduler waits for them to offload. *)
NoneLeaving == at # "offload" => leaving = 0

IInv ==
  /\ TypeOK /\ Balanced /\ RoomForMigrants /\ NoneLeaving
  /\ Conversation /\ SizeTold /\ OwnSize /\ AllThere /\ Trained
  /\ WaitBeforeLast => InferenceLast /\ NoOverlap /\ TakesAll

-----------------------------------------------------------------------------
(* Arithmetic.                                                             *)

\* Products of sums and of differences: the provers do not find these by themselves.
LEMMA Distribute ==
  ASSUME NEW a \in Int, NEW b \in Int, NEW c \in Int
  PROVE  (a + b) * c = a * c + b * c /\ (a - b) * c = a * c - b * c
  OBVIOUS

\* A product with a positive factor orders as the other factor does.
LEMMA Monotonic ==
  ASSUME NEW a \in Int, NEW b \in Int, NEW c \in Nat \ {0}
  PROVE  /\ a <= b <=> a * c <= b * c
         /\ a < b <=> a * c < b * c
  OBVIOUS

\* Dividing what was multiplied gives it back.
LEMMA Quotient ==
  ASSUME NEW a \in Nat, NEW c \in Nat \ {0}
  PROVE  (a * c) \div c = a
  OBVIOUS

\* CeilDiv(a, b) is the least k with a <= k * b.
LEMMA CeilDivIsLeast ==
  ASSUME NEW a \in Nat, NEW b \in Nat \ {0}
  PROVE  /\ CeilDiv(a, b) \in Nat
         /\ a <= CeilDiv(a, b) * b
         /\ \A k \in Nat : a <= k * b => CeilDiv(a, b) <= k
  <1> DEFINE q == (a + b - 1) \div b
             r == (a + b - 1) % b
  <1>1. q \in Nat /\ r \in 0..(b - 1) /\ a + b - 1 = q * b + r
    OBVIOUS
  <1>2. a <= q * b
    BY <1>1
  <1>3. ASSUME NEW k \in Nat, a <= k * b
        PROVE  q <= k
    <2>1. q * b <= k * b + b - 1
      BY <1>1, <1>3
    <2>2. q * b < (k + 1) * b
      BY <2>1, <1>1, Distribute
    <2>3. q < k + 1
      BY <2>2, <1>1, Monotonic
    <2>4. QED
      BY <2>3, <1>1
  <1>4. QED
    BY <1>1, <1>2, <1>3 DEF CeilDiv

\* A nonempty set of integers that is bounded from above has a maximum.
LEMMA MaxOfBounded ==
  ASSUME NEW S, S \subseteq Int, S # {},
         NEW b \in Int, \A x \in S : x <= b
  PROVE  Max(S) \in S /\ \A x \in S : x <= Max(S)
  <1> DEFINE T == {n \in Nat : b - n \in S}
  <1>1. T # {}
    <2>1. PICK x \in S : TRUE
      OBVIOUS
    <2>2. b - x \in T
      BY <2>1
    <2>3. QED
      BY <2>2
  <1> DEFINE F == {0..(n - 1) : n \in T}
  <1>2. F \subseteq FiniteSubsetsOf(Nat) /\ F # {}
    <2>1. \A n \in Nat : IsFiniteSet(0..(n - 1)) /\ 0..(n - 1) \in SUBSET Nat
      BY FS_Interval
    <2>2. \A n \in Nat : 0..(n - 1) \in FiniteSubsetsOf(Nat)
      BY <2>1, Zenon DEF FiniteSubsetsOf
    <2>3. QED
      BY <1>1, <2>2
  <1>3. PICK U \in F : \A V \in F : ~(<<V, U>> \in StrictSubsetOrdering(Nat))
    <2> HIDE DEF F
    <2>1. QED
      BY <1>2, FS_StrictSubsetOrderingWellFounded, WFMin
  <1>4. PICK m \in T : \A n \in T : m <= n
    <2>1. PICK m \in T : U = 0..(m - 1)
      BY <1>3
    <2>2. ASSUME NEW n \in T, n < m
          PROVE  FALSE
      <3>1. 0..(n - 1) \in F /\ 0..(n - 1) \in SUBSET Nat /\ U \in SUBSET Nat
        BY <2>1
      <3>2. 0..(n - 1) \subseteq U /\ n \in U /\ n \notin 0..(n - 1)
        BY <2>1, <2>2
      <3>3. <<0..(n - 1), U>> \in StrictSubsetOrdering(Nat)
        <4> DEFINE V == 0..(n - 1)
        <4>1. V \in SUBSET Nat /\ V \subseteq U /\ V # U
          BY <3>1, <3>2
        <4> HIDE DEF V
        <4>2. <<V, U>> \in StrictSubsetOrdering(Nat)
          BY <4>1, <3>1 DEF StrictSubsetOrdering
        <4>3. QED
          BY <4>2 DEF V
      <3>4. QED
        BY <1>3, <3>1, <3>3
    <2>3. QED
      BY <2>2
  <1>5. b - m \in S /\ \A x \in S : x <= b - m
    <2>1. ASSUME NEW x \in S
          PROVE  x <= b - m
      <3>1. b - x \in T /\ x \in Int /\ m \in Nat
        OBVIOUS
      <3>2. m <= b - x
        BY <3>1, <1>4
      <3>3. QED
        BY <3>1, <3>2
    <2>2. QED
      BY <2>1
  <1>6. QED
    BY <1>5 DEF Max

-----------------------------------------------------------------------------
(* The constants and the operators of the scheduler.                       *)

\* The sizes of the components, and those the actor can have.
LEMMA Sizes ==
  /\ ClusterGpus \in Nat \ {0} /\ ActorGpus \in Nat \ {0} /\ InferenceGpus \in Nat
  /\ ActorMp \in Nat \ {0} /\ RolloutMp \in Nat \ {0} /\ RolloutInit \in Nat \ {0}
  /\ Tasks \in Nat \ {0} /\ MaxRunning \in Nat \ {0} /\ Minibatches \in Nat \ {0}
  /\ \A dp \in ValidDpSizes : dp \in Nat \ {0} /\ dp * ActorMp \in 1..ClusterGpus
  /\ ActorInit \in ValidDpSizes /\ ActorGpus = ActorInit * ActorMp
  <1>1. /\ ClusterGpus \in Nat \ {0} /\ ActorGpus \in Nat \ {0} /\ InferenceGpus \in Nat
        /\ ActorMp \in Nat \ {0} /\ RolloutMp \in Nat \ {0}
        /\ Tasks \in Nat \ {0} /\ MaxRunning \in Nat \ {0} /\ Minibatches \in Nat \ {0}
    BY GpusAssumption
  <1>2. RolloutInit \in Nat \ {0}
    BY <1>1, GpusAssumption DEF RolloutInit, RolloutBase
  <1>3. ASSUME NEW dp \in ValidDpSizes
        PROVE  dp \in Nat \ {0} /\ dp * ActorMp \in 1..ClusterGpus
    <2> DEFINE q == ClusterGpus \div ActorMp
    <2>1. q \in Nat /\ q * ActorMp <= ClusterGpus
      BY <1>1
    <2>2. dp \in 1..q
      BY DEF ValidDpSizes
    <2>3. dp * ActorMp <= q * ActorMp /\ 1 * ActorMp <= dp * ActorMp
      BY <1>1, <2>1, <2>2, Monotonic
    <2>4. QED
      BY <1>1, <2>1, <2>2, <2>3
  <1>4. QED
    BY <1>1, <1>2, <1>3, GpusAssumption, DpAssumption

\* Grow is reached by a valid size, fits into what there is, and is the most that does.
LEMMA GrowIsMost ==
  ASSUME actor \in ValidDpSizes, NEW gpus \in Nat
  PROVE  /\ \E dp \in ValidDpSizes : dp >= actor /\ Grow(gpus) = (dp - actor) * ActorMp
         /\ Grow(gpus) \in 0..gpus
         /\ \A dp \in ValidDpSizes :
              dp >= actor /\ (dp - actor) * ActorMp <= gpus => (dp - actor) * ActorMp <= Grow(gpus)
  <1> DEFINE V == {v \in ValidDpSizes : v >= actor /\ (v - actor) * ActorMp <= gpus}
             S == {(dp - actor) * ActorMp : dp \in V}
  <1>1. ActorMp \in Nat \ {0} /\ actor \in Nat /\ \A dp \in V : dp \in Nat /\ dp >= actor
    BY Sizes
  <1>2. \A x \in S : x \in Int /\ x <= gpus
    BY <1>1
  <1>3. actor \in V /\ (actor - actor) * ActorMp = 0
    BY <1>1
  <1>4. S \cup {0} = S /\ 0 \in S
    BY <1>3
  <1>5. Grow(gpus) = Max(S)
    BY <1>4 DEF Grow
  <1>6. Max(S) \in S /\ \A x \in S : x <= Max(S)
    <2> HIDE DEF S
    <2>1. QED
      BY <1>2, <1>4, MaxOfBounded
  <1>7. Grow(gpus) \in 0..gpus
    BY <1>2, <1>4, <1>5, <1>6
  <1>8. \E dp \in V : Grow(gpus) = (dp - actor) * ActorMp
    BY <1>5, <1>6
  <1>9. \A dp \in V : (dp - actor) * ActorMp <= Grow(gpus)
    BY <1>5, <1>6
  <1>10. QED
    BY <1>7, <1>8, <1>9

\* The instances that are released by migration are not more than those there are, and leave
\* enough to run all the tasks at once.
LEMMA MigrationLeavesRoom ==
  ASSUME actor \in ValidDpSizes, rollouts \in Nat, NEW running \in Nat
  PROVE  /\ MigratePolicy(running) \in 0..rollouts
         /\ MigratePolicy(running) > 0 => running <= (rollouts - MigratePolicy(running)) * MaxRunning
  <1> DEFINE n == Needed(running)
             g == Grow((rollouts - n) * RolloutMp)
  <1>1. RolloutMp \in Nat \ {0} /\ MaxRunning \in Nat \ {0}
    BY Sizes
  <1>2. n \in Nat /\ running <= n * MaxRunning
    BY <1>1, CeilDivIsLeast DEF Needed
  <1>3. CASE rollouts <= 1 \/ rollouts <= n
    BY <1>3 DEF MigratePolicy
  <1>4. CASE ~(rollouts <= 1 \/ rollouts <= n)
    <2> HIDE DEF n
    <2>1. rollouts - n \in Nat /\ (rollouts - n) * RolloutMp \in Nat
      BY <1>1, <1>2, <1>4
    <2>2. g \in 0..((rollouts - n) * RolloutMp)
      BY <2>1, GrowIsMost
    <2> HIDE DEF g
    <2>3. CeilDiv(g, RolloutMp) \in 0..(rollouts - n)
      BY <1>1, <2>1, <2>2, CeilDivIsLeast
    <2>4. MigratePolicy(running) = CeilDiv(g, RolloutMp)
      BY <1>4 DEF MigratePolicy, g, n
    <2>5. MigratePolicy(running) \in 0..(rollouts - n)
      BY <2>3, <2>4
    <2>6. n * MaxRunning <= (rollouts - MigratePolicy(running)) * MaxRunning
      BY <1>1, <1>2, <2>5, Monotonic
    <2>7. QED
      BY <1>1, <1>2, <2>5, <2>6
  <1>5. QED
    BY <1>3, <1>4

-----------------------------------------------------------------------------
(* The steps.                                                              *)

\* The first state, and a step that changes nothing.
LEMMA InitStep ==
  ASSUME SamePolicies, Init
  PROVE  IInv
  <1> USE Sizes DEF Init
  <1>1. TypeOK
    BY DEF TypeOK
  <1>2. Balanced /\ RoomForMigrants /\ NoneLeaving /\ OwnSize /\ AllThere /\ Trained
    BY DEF Balanced, RoomForMigrants, NoneLeaving, OwnSize, AllThere, Trained
  <1>3. Conversation /\ SizeTold
    BY DEF Conversation, SizeTold, Ended, Answered, Deciding
  <1>4. InferenceLast /\ NoOverlap /\ TakesAll
    BY DEF InferenceLast, NoOverlap, TakesAll, BeforeLastIter, LastIter
  <1>5. QED
    BY <1>1, <1>2, <1>3, <1>4 DEF IInv

LEMMA StutterStep ==
  ASSUME IInv, UNCHANGED vars
  PROVE  IInv'
  BY DEF IInv, TypeOK, Balanced, RoomForMigrants, Conversation, NotStarted, Training, Answered, Asked, Ended,
     Deciding, SizeTold, NoneLeaving, OwnSize, AllThere, Trained, InferenceLast, NoOverlap, TakesAll, LastIter,
     BeforeLastIter, RolloutSpan, InferenceSpan, vars, managers, actorVars, channel

\* The counts of the scheduler do not depend on the tasks; that fewer of them run keeps what the
\* actor asked for and the room for those that migrate.
LEMMA TaskCompletesStep ==
  ASSUME IInv, TaskCompletes
  PROVE  IInv'
  <1> USE Sizes DEF IInv, TaskCompletes, managers, actorVars, channel
  <1>1. TypeOK'
    BY DEF TypeOK
  <1>2. (Balanced /\ NoneLeaving /\ OwnSize /\ AllThere)'
    BY DEF Balanced, NoneLeaving, OwnSize, AllThere, LastIter
  <1>3. RoomForMigrants'
    <2>1. (rollouts - leaving) * MaxRunning \in Int /\ unfinished \in Int
      BY DEF TypeOK
    <2>2. QED
      BY <2>1 DEF RoomForMigrants, BeforeLastIter
  <1>4. (Conversation /\ SizeTold)'
    BY DEF Conversation, NotStarted, Training, Answered, Asked, Ended, Deciding, SizeTold
  <1>5. Trained'
    <2>1. Tasks - unfinished <= Tasks - unfinished'
      BY DEF TypeOK
    <2>2. Tasks - unfinished \in Int /\ Tasks - unfinished' \in Int /\ (actorIter + 1) * Tasks \in Int
      BY DEF TypeOK
    <2>3. (Tasks - unfinished) * Minibatches <= (Tasks - unfinished') * Minibatches
      BY <2>1, <2>2, Monotonic
    <2>4. QED
      BY <2>2, <2>3 DEF Trained
  <1>6. WaitBeforeLast => (InferenceLast /\ NoOverlap /\ TakesAll)'
    BY DEF InferenceLast, BeforeLastIter, LastIter, TakesAll, NoOverlap, RolloutSpan, InferenceSpan
  <1>7. QED
    BY <1>1, <1>2, <1>3, <1>4, <1>5, <1>6

\* Once inference has ended its GPUs are nobody's.
LEMMA InferenceEndsStep ==
  ASSUME IInv, InferenceEnds
  PROVE  IInv'
  <1> USE DEF IInv, InferenceEnds, managers, actorVars, channel
  <1>1. (TypeOK /\ Balanced /\ NoneLeaving /\ OwnSize /\ AllThere /\ RoomForMigrants /\ Trained)'
    BY DEF TypeOK, Balanced, NoneLeaving, OwnSize, AllThere, LastIter, RoomForMigrants, BeforeLastIter, Trained
  <1>2. (Conversation /\ SizeTold)'
    BY DEF Conversation, NotStarted, Training, Answered, Asked, Ended, Deciding, SizeTold
  <1>3. WaitBeforeLast => (InferenceLast /\ NoOverlap /\ TakesAll)'
    BY DEF InferenceLast, BeforeLastIter, LastIter, TakesAll, NoOverlap, RolloutSpan, InferenceSpan
  <1>4. QED
    BY <1>1, <1>2, <1>3

\* What is counted is the whole cluster, so an actor with the size its manager believes fits
\* beside the rollouts and inference.
LEMMA FitsBeside ==
  TypeOK /\ Balanced /\ InferenceLast /\ at = "await_actor" /\ world = actor * ActorMp
    => 0 .. (world - 1) \cap (RolloutSpan \cup InferenceSpan) = {}
  <1> SUFFICES ASSUME TypeOK, Balanced, InferenceLast, at = "await_actor", world = actor * ActorMp
               PROVE  0 .. (world - 1) \cap (RolloutSpan \cup InferenceSpan) = {}
    OBVIOUS
  <1>1. available + rollouts * RolloutMp + inference + world = ClusterGpus
    BY DEF Balanced
  <1>2. rollouts * RolloutMp \in Nat /\ available \in Nat /\ inference \in Nat /\ world \in Nat
    <2>1. rollouts \in Nat /\ actor \in Nat
      BY Sizes DEF TypeOK
    <2>2. QED
      BY <2>1, Sizes DEF TypeOK
  <1>3. CASE inference = InferenceGpus
    BY <1>1, <1>2, <1>3, Sizes DEF RolloutSpan, InferenceSpan
  <1>4. CASE inference = 0 /\ InferenceGpus > 0
    <2>1. rollouts * RolloutMp = 0 /\ inferred
      BY <1>4, Sizes DEF InferenceLast
    <2>2. RolloutSpan = {} /\ InferenceSpan = {}
      BY <2>1, Sizes DEF RolloutSpan, InferenceSpan
    <2>3. QED
      BY <2>2
  <1>5. inference = InferenceGpus \/ (inference = 0 /\ InferenceGpus > 0)
    BY Sizes DEF TypeOK
  <1>6. QED
    BY <1>3, <1>4, <1>5

\* The actor starts on its own GPUs, after the rollouts on them have migrated.
LEMMA ActorStartsStep ==
  ASSUME SamePolicies, IInv, ActorStarts
  PROVE  IInv'
  <1> USE DEF IInv, ActorStarts, managers, actorVars, channel
  <1>1. at = "await_actor" /\ NotStarted
    BY DEF Conversation, NotStarted, Training, Answered, Asked, Ended, Deciding, SamePolicies, TypeOK
  <1>2. world = actor * ActorMp
    BY <1>1 DEF SizeTold, NotStarted, Answered
  <1>3. requests' = <<>>
    BY <1>1 DEF NotStarted
  <1>4. TypeOK'
    BY <1>3 DEF TypeOK
  <1>5. (Balanced /\ NoneLeaving /\ OwnSize /\ AllThere /\ RoomForMigrants /\ Trained)'
    BY DEF Balanced, NoneLeaving, OwnSize, AllThere, LastIter, RoomForMigrants, BeforeLastIter, Trained
  <1>6. (Conversation /\ SizeTold)'
    BY <1>1, <1>2, <1>3 DEF Conversation, NotStarted, Training, Answered, Asked, Deciding, SizeTold
  <1>7. WaitBeforeLast => (InferenceLast /\ NoOverlap /\ TakesAll)'
    BY <1>1, <1>2, FitsBeside DEF InferenceLast, BeforeLastIter, LastIter, TakesAll, NoOverlap, RolloutSpan, InferenceSpan
  <1>8. QED
    BY <1>4, <1>5, <1>6, <1>7

\* The actor asks when it has trained on its share.
LEMMA ActorTrainsStep ==
  ASSUME IInv, ActorTrains
  PROVE  IInv'
  <1> USE DEF IInv, ActorTrains, managers, actorVars, channel
  <1>1. Training
    BY DEF Conversation, NotStarted, Training, Answered, Asked, Ended, Deciding, TypeOK
  <1>2. TypeOK'
    BY DEF TypeOK
  <1>3. (Balanced /\ NoneLeaving /\ OwnSize /\ AllThere /\ RoomForMigrants /\ Trained)'
    BY DEF Balanced, NoneLeaving, OwnSize, AllThere, LastIter, RoomForMigrants, BeforeLastIter, Trained
  <1>4. (Conversation /\ SizeTold)'
    BY <1>1 DEF Conversation, Training, Answered, Asked, Deciding, SizeTold
  <1>5. WaitBeforeLast => (InferenceLast /\ NoOverlap /\ TakesAll)'
    BY DEF InferenceLast, BeforeLastIter, LastIter, TakesAll, NoOverlap, RolloutSpan, InferenceSpan
  <1>6. QED
    BY <1>2, <1>3, <1>4, <1>5

\* The one message in the queue is the scheduler's answer, and the actor then has the size that
\* its manager believes.
LEMMA ActorReshardsStep ==
  ASSUME IInv, ActorReshards
  PROVE  IInv'
  <1> USE DEF IInv, ActorReshards, managers, actorVars, channel
  <1>1. Answered /\ at \in {"idle", "await_actor"}
    BY DEF Conversation, NotStarted, Training, Asked, Ended, Deciding, TypeOK
  <1>2. requests' = <<>> /\ Head(requests) \in {None} \cup 1..ClusterGpus
    BY <1>1 DEF Answered, TypeOK
  <1>3. world' = actor * ActorMp
    BY <1>1 DEF SizeTold
  <1>4. /\ at = "idle" => actorIter' = 0 /\ actorAt' = "ended"
        /\ at = "await_actor" => actorIter' = iter /\ actorAt' = "training"
    <2>1. actorIter \in 0..(Minibatches - 1) /\ iter \in 0..(Minibatches - 1) /\ Minibatches \in Nat \ {0}
      BY Sizes DEF TypeOK
    <2>2. CASE at = "idle"
      <3>1. actorIter + 1 = Minibatches
        BY <1>1, <2>1, <2>2 DEF Answered
      <3>2. (actorIter + 1) % Minibatches = 0
        BY <2>1, <3>1
      <3>3. QED
        BY <2>2, <3>2
    <2>3. CASE at = "await_actor"
      <3>1. actorIter + 1 = iter
        BY <1>1, <2>1, <2>3 DEF Answered
      <3>2. (actorIter + 1) % Minibatches = iter /\ iter # 0
        BY <2>1, <3>1
      <3>3. QED
        BY <2>3, <3>2
    <2>4. QED
      BY <1>1, <2>2, <2>3
  <1>5. TypeOK'
    <2>1. actorIter' \in 0..(Minibatches - 1) /\ world' \in 1..ClusterGpus
      BY <1>1, <1>3, <1>4, Sizes DEF TypeOK
    <2>2. QED
      BY <1>2, <2>1 DEF TypeOK
  <1>6. (Balanced /\ NoneLeaving /\ OwnSize /\ AllThere /\ RoomForMigrants /\ Trained)'
    BY <1>1, <1>4 DEF Balanced, NoneLeaving, OwnSize, AllThere, LastIter, RoomForMigrants, BeforeLastIter, Trained
  <1>7. (Conversation /\ SizeTold)'
    BY <1>1, <1>2, <1>3, <1>4 DEF Conversation, Training, Answered, Ended, Deciding, SizeTold
  <1>8. WaitBeforeLast => (InferenceLast /\ NoOverlap /\ TakesAll)'
    <2> SUFFICES ASSUME WaitBeforeLast
                 PROVE  (InferenceLast /\ NoOverlap /\ TakesAll)'
      OBVIOUS
    <2>1. (InferenceLast /\ TakesAll)'
      BY DEF InferenceLast, BeforeLastIter, LastIter, TakesAll
    <2>2. NoOverlap'
      <3>1. CASE at = "idle"
        BY <1>4, <3>1 DEF NoOverlap
      <3>2. CASE at = "await_actor"
        <4>1. (TypeOK /\ Balanced /\ InferenceLast /\ at = "await_actor" /\ world = actor * ActorMp)'
          BY <1>3, <1>5, <1>6, <2>1, <3>2
        <4>2. (0 .. (world - 1) \cap (RolloutSpan \cup InferenceSpan) = {})'
          BY <4>1, FitsBeside, PTL
        <4>3. QED
          BY <4>2 DEF NoOverlap
      <3>3. QED
        BY <1>1, <3>1, <3>2
    <2>3. QED
      BY <2>1, <2>2
  <1>9. QED
    BY <1>5, <1>6, <1>7, <1>8

\* A step begins with the components as they are placed.
LEMMA ScheduleStep ==
  ASSUME SamePolicies, IInv, Schedule
  PROVE  IInv'
  <1> USE DEF IInv, Schedule, Reset, actorVars, channel
  <1>1. Ended /\ world = actor * ActorMp /\ actor = ActorInit
    BY DEF Conversation, Ended, Answered, SizeTold, OwnSize, TypeOK
  <1>2. TypeOK'
    BY Sizes DEF TypeOK
  <1>3. Balanced'
    <2>1. ~PreProcess => RolloutInit * RolloutMp + InferenceGpus + ActorInit * ActorMp = ClusterGpus
      BY GpusAssumption, Sizes DEF RolloutBase
    <2>2. QED
      BY <2>1, Sizes DEF Balanced, SamePolicies
  <1>4. (NoneLeaving /\ OwnSize /\ AllThere /\ RoomForMigrants /\ Trained)'
    BY DEF NoneLeaving, OwnSize, AllThere, RoomForMigrants, Trained
  <1>5. (Conversation /\ SizeTold)'
    BY <1>1 DEF Conversation, NotStarted, Answered, Ended, Deciding, SizeTold, SamePolicies
  <1>6. (InferenceLast /\ NoOverlap /\ TakesAll)'
    BY Sizes DEF InferenceLast, BeforeLastIter, NoOverlap, LastIter, TakesAll
  <1>7. QED
    BY <1>2, <1>3, <1>4, <1>5, <1>6

\* The instances on the actor's GPUs go, and with them the GPUs are counted once.
LEMMA PreProcessMigratesStep ==
  ASSUME SamePolicies, IInv, PreProcessMigrates
  PROVE  IInv'
  <1> USE DEF IInv, PreProcessMigrates, actorVars
  <1>1. NotStarted /\ PreProcess /\ requests = <<>> /\ requests' = <<None>>
    BY DEF Conversation, NotStarted
  <1>2. rollouts = RolloutInit /\ inference = InferenceGpus /\ available = 0 /\ actor = ActorInit
    BY DEF AllThere, OwnSize
  <1>3. BorrowedInstances \in 1..(RolloutInit - 1) /\ BorrowedInstances * RolloutMp = ActorGpus
    <2>1. BorrowedInstances * RolloutMp = ActorGpus /\ BorrowedInstances < RolloutInit
      BY <1>1, GpusAssumption DEF SamePolicies
    <2>2. BorrowedInstances \in Nat
      <3>1. ActorGpus \in Nat /\ RolloutMp \in Nat \ {0}
        BY Sizes
      <3>2. QED
        BY <3>1 DEF BorrowedInstances
    <2>3. BorrowedInstances # 0
      BY <2>1, <2>2, Sizes
    <2>4. QED
      BY <2>1, <2>2, <2>3, Sizes
  <1>4. TypeOK'
    <2>1. rollouts' \in 0..RolloutInit /\ leaving' \in 0..rollouts'
      BY <1>2, <1>3, Sizes DEF NoneLeaving
    <2>2. requests' \in Seq({None} \cup 1..ClusterGpus)
      BY <1>1
    <2>3. QED
      BY <2>1, <2>2 DEF TypeOK
  <1>5. Balanced'
    <2>1. (RolloutInit - BorrowedInstances) * RolloutMp = RolloutInit * RolloutMp - ActorGpus
      BY <1>3, Sizes, Distribute
    <2>2. RolloutInit * RolloutMp + InferenceGpus = ClusterGpus
      BY <1>1, GpusAssumption, Sizes DEF RolloutBase
    <2>3. RolloutInit * RolloutMp \in Int /\ rollouts' = RolloutInit - BorrowedInstances
      BY <1>2, Sizes
    <2>4. available' = 0 /\ inference' = InferenceGpus /\ actor' * ActorMp = ActorGpus /\ ActorGpus \in Int
      BY <1>2, Sizes
    <2>5. rollouts' * RolloutMp = RolloutInit * RolloutMp - ActorGpus /\ InferenceGpus \in Int
      BY <2>1, <2>3, Sizes
    <2> HIDE DEF PreProcessMigrates
    <2>6. available' + rollouts' * RolloutMp + inference' + actor' * ActorMp = ClusterGpus
      BY <2>2, <2>3, <2>4, <2>5
    <2>7. QED
      BY <2>6 DEF Balanced
  <1>6. (NoneLeaving /\ OwnSize /\ AllThere /\ RoomForMigrants /\ Trained)'
    BY <1>1 DEF NoneLeaving, OwnSize, AllThere, RoomForMigrants, Trained, NotStarted
  <1>7. (Conversation /\ SizeTold)'
    BY <1>1 DEF Conversation, NotStarted, Answered, Deciding, SizeTold
  <1>8. WaitBeforeLast => (InferenceLast /\ NoOverlap /\ TakesAll)'
    <2>1. (NoOverlap /\ InferenceLast)'
      BY <1>1, <1>2, Sizes DEF NotStarted, NoOverlap, InferenceLast
    <2>2. TakesAll'
      BY <1>1, Sizes DEF NotStarted, TakesAll, LastIter
    <2>3. QED
      BY <2>1, <2>2
  <1>9. QED
    BY <1>4, <1>5, <1>6, <1>7, <1>8

\* The scheduler only takes the message of an actor that asks.
LEMMA AwaitActorStep ==
  ASSUME IInv, AwaitActor
  PROVE  IInv'
  <1> USE DEF IInv, AwaitActor, managers, actorVars
  <1>1. Asked /\ asked = 1
    BY DEF Conversation, NotStarted, Training, Answered, Asked
  <1>2. TypeOK'
    BY <1>1 DEF TypeOK
  <1>3. (Balanced /\ NoneLeaving /\ OwnSize /\ AllThere /\ RoomForMigrants /\ Trained)'
    BY DEF Balanced, NoneLeaving, OwnSize, AllThere, LastIter, RoomForMigrants, BeforeLastIter, Trained
  <1>4. (Conversation /\ SizeTold)'
    BY <1>1 DEF Conversation, Asked, Answered, Deciding, SizeTold
  <1>5. WaitBeforeLast => (InferenceLast /\ NoOverlap /\ TakesAll)'
    BY DEF InferenceLast, BeforeLastIter, LastIter, TakesAll, NoOverlap, RolloutSpan, InferenceSpan
  <1>6. QED
    BY <1>2, <1>3, <1>4, <1>5

\* In the last iteration all tasks are complete: the actor has trained on them.
LEMMA NothingRunsAtLast ==
  TypeOK /\ Conversation /\ Trained /\ Deciding /\ LastIter => unfinished = 0
  <1> SUFFICES ASSUME TypeOK, Conversation, Trained, Deciding, LastIter
               PROVE  unfinished = 0
    OBVIOUS
  <1>1. actorAt = "asking" /\ actorIter + 1 = Minibatches
    BY Sizes DEF Conversation, Asked, LastIter, TypeOK
  <1>2. (Tasks - unfinished) * Minibatches >= Tasks * Minibatches
    BY <1>1, Sizes DEF Trained
  <1>3. Tasks <= Tasks - unfinished
    <2>1. Tasks \in Int /\ Tasks - unfinished \in Int /\ Minibatches \in Nat \ {0}
      BY Sizes DEF TypeOK
    <2>2. QED
      BY <1>2, <2>1, Monotonic
  <1>4. QED
    BY <1>3, Sizes DEF TypeOK

\* The instances that are told to finish are among those there are, and leave room for the tasks.
LEMMA ReleaseRolloutStep ==
  ASSUME IInv, ReleaseRollout
  PROVE  IInv'
  <1> USE DEF IInv, ReleaseRollout, managers, actorVars, channel
  <1>1. Asked /\ asked = 0 /\ Deciding
    BY DEF Conversation, Deciding
  <1>2. rollouts \in Nat /\ unfinished \in Nat /\ actor \in ValidDpSizes
    BY Sizes DEF TypeOK
  <1>3. Released \in 0..rollouts
    BY <1>2, MigrationLeavesRoom DEF Released
  <1>4. TypeOK'
    BY <1>3 DEF TypeOK
  <1>5. RoomForMigrants'
    <2> SUFFICES ASSUME at' = "offload", unfinished > 0, ~(WaitBeforeLast /\ BeforeLastIter)
                 PROVE  unfinished <= (rollouts - leaving') * MaxRunning
      BY DEF RoomForMigrants, BeforeLastIter
    <2>1. ~LastIter
      BY <1>1, NothingRunsAtLast
    <2>2. Released = MigratePolicy(unfinished) /\ Released # 0
      BY <2>1 DEF Released
    <2>3. QED
      BY <1>2, <1>3, <2>2, MigrationLeavesRoom
  <1>6. (Balanced /\ NoneLeaving /\ OwnSize /\ AllThere /\ Trained)'
    BY DEF Balanced, NoneLeaving, OwnSize, AllThere, LastIter, Trained
  <1>7. (Conversation /\ SizeTold)'
    BY <1>1 DEF Conversation, Asked, Answered, Deciding, SizeTold
  <1>8. WaitBeforeLast => (InferenceLast /\ NoOverlap /\ TakesAll)'
    <2>1. WaitBeforeLast => InferenceLast'
      BY DEF InferenceLast, BeforeLastIter, Released
    <2>2. WaitBeforeLast => (NoOverlap /\ TakesAll)'
      BY DEF LastIter, TakesAll, NoOverlap, RolloutSpan, InferenceSpan
    <2>3. QED
      BY <2>1, <2>2
  <1>9. QED
    BY <1>4, <1>5, <1>6, <1>7, <1>8

\* The GPUs of the instances that left are available, in the last iteration nobody's.
LEMMA OffloadedStep ==
  ASSUME IInv, Offloaded
  PROVE  IInv'
  <1> USE DEF IInv, Offloaded, actorVars, channel
  <1>1. Asked /\ asked = 0
    BY DEF Conversation, Deciding
  <1>2. /\ rollouts \in Nat /\ leaving \in 0..rollouts /\ available \in Nat /\ inference \in Nat
        /\ RolloutMp \in Nat \ {0} /\ rollouts' = rollouts - leaving
    BY Sizes DEF TypeOK
  <1>3. /\ rollouts * RolloutMp \in Nat /\ leaving * RolloutMp \in Nat /\ rollouts' * RolloutMp \in Nat
        /\ rollouts' * RolloutMp = rollouts * RolloutMp - leaving * RolloutMp
    <2>1. rollouts' \in Nat /\ leaving \in Nat
      BY <1>2
    <2> HIDE DEF Offloaded
    <2>2. rollouts * RolloutMp \in Nat /\ leaving * RolloutMp \in Nat /\ rollouts' * RolloutMp \in Nat
      BY <1>2, <2>1
    <2>3. (rollouts - leaving) * RolloutMp = rollouts * RolloutMp - leaving * RolloutMp
      BY <1>2, <2>1, Distribute
    <2>4. QED
      BY <1>2, <2>2, <2>3
  <1>4. actor * ActorMp \in Nat
    BY Sizes DEF TypeOK
  <1>5. ~LastIter => available' = available + leaving * RolloutMp
    BY DEF Gpus
  <1>6. ~LastIter => available + rollouts * RolloutMp + inference + actor * ActorMp = ClusterGpus
    BY DEF Balanced
  <1>7. ~LastIter => available' + rollouts' * RolloutMp + inference' + actor' * ActorMp = ClusterGpus
    <2>1. inference' = inference /\ actor' * ActorMp = actor * ActorMp
      OBVIOUS
    <2> HIDE DEF Offloaded
    <2>2. QED
      BY <1>2, <1>3, <1>4, <1>5, <1>6, <2>1
  <1>8. TypeOK'
    <2>1. available' \in 0..ClusterGpus
      <3>1. CASE LastIter
        BY <3>1 DEF TypeOK
      <3>2. CASE ~LastIter
        <4>1. inference' \in Nat /\ actor' * ActorMp \in Nat /\ available' \in Nat
          BY <1>2, <1>3, <1>4, <1>5, <3>2
        <4> HIDE DEF Offloaded
        <4>2. QED
          BY <1>3, <1>7, <3>2, <4>1, Sizes
      <3>3. QED
        BY <3>1, <3>2
    <2>2. rollouts' \in 0..RolloutInit /\ leaving' \in 0..rollouts'
      BY <1>2, Sizes DEF TypeOK
    <2>3. QED
      BY <2>1, <2>2 DEF TypeOK
  <1>9. Balanced'
    BY <1>7 DEF Balanced, LastIter
  <1>10. (NoneLeaving /\ OwnSize /\ AllThere /\ RoomForMigrants /\ Trained)'
    BY DEF NoneLeaving, OwnSize, AllThere, RoomForMigrants, Trained
  <1>11. (Conversation /\ SizeTold)'
    BY <1>1 DEF Conversation, Asked, Answered, Deciding, SizeTold
  <1>12. WaitBeforeLast => (InferenceLast /\ NoOverlap /\ TakesAll)'
    <2> SUFFICES ASSUME WaitBeforeLast
                 PROVE  (InferenceLast /\ NoOverlap /\ TakesAll)'
      OBVIOUS
    <2>1. (InferenceLast /\ TakesAll)'
      BY <1>2 DEF InferenceLast, BeforeLastIter, TakesAll
    <2>2. RolloutSpan' \subseteq RolloutSpan /\ InferenceSpan' = InferenceSpan
      <3>1. rollouts' * RolloutMp <= rollouts * RolloutMp
        BY <1>3
      <3>2. UNCHANGED inferred
        OBVIOUS
      <3> HIDE DEF Offloaded
      <3>3. QED
        BY <1>3, <3>1, <3>2, Sizes DEF RolloutSpan, InferenceSpan
    <2>3. NoOverlap'
      BY <2>2 DEF NoOverlap
    <2>4. QED
      BY <2>1, <2>3
  <1>13. QED
    BY <1>8, <1>9, <1>10, <1>11, <1>12

\* Inference gives up its GPUs or keeps them; with the policy it does after the rollouts.
LEMMA ReleaseInferenceStep ==
  ASSUME IInv, ReleaseInference
  PROVE  IInv'
  <1> USE DEF IInv, ReleaseInference, actorVars, channel
  <1>1. Asked /\ asked = 0
    BY DEF Conversation, Deciding
  <1>2. /\ available \in Nat /\ inference \in Nat /\ inference' \in {0, inference}
        /\ available' = available + (inference - inference')
        /\ LastIter => available' = available
    BY Sizes DEF TypeOK, ReleasesInference
  <1>3. rollouts * RolloutMp \in Nat /\ actor * ActorMp \in Nat
    BY Sizes DEF TypeOK
  <1>4. ~LastIter => available' + rollouts' * RolloutMp + inference' + actor' * ActorMp = ClusterGpus
    <2>1. ~LastIter => available + rollouts * RolloutMp + inference + actor * ActorMp = ClusterGpus
      BY DEF Balanced
    <2>2. rollouts' * RolloutMp = rollouts * RolloutMp /\ actor' * ActorMp = actor * ActorMp
      OBVIOUS
    <2>3. available' \in Nat /\ inference' \in Nat
      BY <1>2
    <2> DEFINE r == rollouts * RolloutMp
               a == actor * ActorMp
    <2>4. r \in Nat /\ a \in Nat /\ (~LastIter => available + r + inference + a = ClusterGpus)
      BY <1>3, <2>1
    <2> HIDE DEF r, a, ReleaseInference
    <2>5. ASSUME ~LastIter
          PROVE  available' + r + inference' + a = ClusterGpus
      <3>1. available' = available + (inference - inference') /\ available \in Nat /\ inference \in Nat
        BY <1>2
      <3>2. available + r + inference + a = ClusterGpus
        BY <2>4, <2>5
      <3>3. QED
        BY <2>3, <2>4, <3>1, <3>2
    <2>6. QED
      BY <2>2, <2>5 DEF r, a
  <1>5. TypeOK'
    <2>1. available' \in 0..ClusterGpus
      <3>1. CASE LastIter
        BY <1>2, <3>1 DEF TypeOK
      <3>2. CASE ~LastIter
        <4>1. available' \in Nat /\ inference' \in Nat /\ UNCHANGED <<rollouts, actor>>
          BY <1>2
        <4> HIDE DEF ReleaseInference
        <4>2. QED
          BY <1>3, <1>4, <3>2, <4>1, Sizes
      <3>3. QED
        BY <3>1, <3>2
    <2>2. QED
      BY <1>2, <2>1 DEF TypeOK
  <1>6. Balanced'
    BY <1>4 DEF Balanced, LastIter
  <1>7. (NoneLeaving /\ OwnSize /\ AllThere /\ RoomForMigrants /\ Trained)'
    BY DEF NoneLeaving, OwnSize, AllThere, RoomForMigrants, Trained
  <1>8. (Conversation /\ SizeTold)'
    BY <1>1 DEF Conversation, Asked, Answered, Deciding, SizeTold
  <1>9. WaitBeforeLast => (InferenceLast /\ NoOverlap /\ TakesAll)'
    <2> SUFFICES ASSUME WaitBeforeLast
                 PROVE  (InferenceLast /\ NoOverlap /\ TakesAll)'
      OBVIOUS
    <2>1. BeforeLastIter => ~LastIter
      BY Sizes DEF BeforeLastIter, LastIter
    <2>2. inference' = 0 /\ InferenceGpus > 0 => rollouts' = 0 /\ inferred'
      BY <1>2 DEF InferenceLast, ReleasesInference, WaitsForInference
    <2>3. BeforeLastIter => rollouts' = 0 /\ inference' = 0
      BY <1>2, <2>1 DEF InferenceLast, ReleasesInference, WaitsForInference
    <2>4. InferenceLast'
      BY <2>2, <2>3 DEF InferenceLast, BeforeLastIter
    <2>5. (NoOverlap /\ TakesAll)'
      BY DEF TakesAll, NoOverlap, RolloutSpan, InferenceSpan
    <2>6. QED
      BY <2>4, <2>5
  <1>10. QED
    BY <1>5, <1>6, <1>7, <1>8, <1>9

\* The actor is answered with a size that can be made of what is available; before the last
\* iteration, when all the others have left, that is the whole cluster.
LEMMA AllocateActorStep ==
  ASSUME IInv, AllocateActor
  PROVE  IInv'
  <1> USE DEF IInv, AllocateActor, actorVars
  <1>1. Asked /\ asked = 0 /\ leaving = 0
    BY DEF Conversation, Deciding, NoneLeaving
  <1>2. /\ available \in Nat /\ inference \in Nat /\ actor \in ValidDpSizes /\ actor \in Nat \ {0}
        /\ iter \in 0..(Minibatches - 1) /\ ActorMp \in Nat \ {0} /\ Minibatches \in Nat \ {0}
        /\ rollouts * RolloutMp \in Nat /\ actor * ActorMp \in Nat
    BY Sizes DEF TypeOK
  <1>3. CASE ~LastIter /\ Scale(actor * ActorMp + Allocated) /\ available' = Left(Allocated)
               /\ iter' = iter + 1 /\ at' = "await_actor"
    <2>1. PICK dp \in ValidDpSizes : dp >= actor /\ Allocated = (dp - actor) * ActorMp
      <3>1. (actor - actor) * ActorMp = 0
        BY <1>2
      <3>2. QED
        BY <1>2, <3>1, GrowIsMost DEF Allocated
    <2>2. dp \in Nat \ {0} /\ dp * ActorMp \in 1..ClusterGpus
      BY Sizes
    <2>3. Allocated = dp * ActorMp - actor * ActorMp
      BY <1>2, <2>1, <2>2, Distribute
    <2>4. actor * ActorMp + Allocated = dp * ActorMp
      BY <1>2, <2>2, <2>3
    <2>5. actor' = dp
      BY <1>2, <1>3, <2>2, <2>4, Quotient DEF Scale
    <2>6. requests' = <<IF dp * ActorMp = actor * ActorMp THEN None ELSE dp * ActorMp>>
      BY <1>1, <1>3, <2>4 DEF Scale, Asked
    <2>7. dp * ActorMp # None
      BY <2>2, NoneAssumption
    <2>8. Allocated \in 0..available
      BY <1>2, GrowIsMost DEF Allocated
    <2>9. available' + rollouts' * RolloutMp + inference' + actor' * ActorMp = ClusterGpus
      <3>1. available + rollouts * RolloutMp + inference + actor * ActorMp = ClusterGpus
        BY <1>3 DEF Balanced
      <3>2. rollouts' * RolloutMp = rollouts * RolloutMp /\ inference' = inference
        OBVIOUS
      <3>3. available' = available - (dp * ActorMp - actor * ActorMp)
        BY <1>3, <2>3 DEF Left
      <3> HIDE DEF AllocateActor
      <3>4. QED
        BY <1>2, <2>2, <2>5, <3>1, <3>2, <3>3
    <2>10. TypeOK'
      <3>1. available' \in 0..ClusterGpus
        <4>1. available \in 0..ClusterGpus
          BY DEF TypeOK
        <4>2. QED
          BY <1>3, <2>8, <4>1, Sizes DEF Left
      <3>2. iter' \in 0..(Minibatches - 1)
        BY <1>2, <1>3 DEF LastIter
      <3>3. requests' \in Seq({None} \cup 1..ClusterGpus)
        BY <2>2, <2>6
      <3>4. leaving' \in 0..rollouts' /\ actor' \in ValidDpSizes
        BY <1>1, <2>5 DEF TypeOK
      <3>5. QED
        BY <1>3, <3>1, <3>2, <3>3, <3>4 DEF TypeOK
    <2>11. Balanced'
      BY <2>9 DEF Balanced
    <2>12. (NoneLeaving /\ OwnSize /\ AllThere /\ RoomForMigrants /\ Trained)'
      BY <1>1, <1>3 DEF NoneLeaving, OwnSize, AllThere, RoomForMigrants, Trained
    <2>13. Answered' /\ Head(requests') = IF dp * ActorMp = actor * ActorMp THEN None ELSE dp * ActorMp
      BY <1>1, <1>2, <1>3, <2>6 DEF Asked, Answered
    <2>14. (Conversation /\ SizeTold)'
      <3>1. Conversation'
        BY <1>3, <2>13 DEF Conversation, Deciding
      <3>2. world = actor * ActorMp /\ world' = world
        BY <1>1 DEF SizeTold, Asked, Answered
      <3>3. SizeTold'
        BY <2>5, <2>7, <2>13, <3>2 DEF SizeTold
      <3>4. QED
        BY <3>1, <3>3
    <2>15. WaitBeforeLast => (InferenceLast /\ NoOverlap /\ TakesAll)'
      <3> SUFFICES ASSUME WaitBeforeLast
                   PROVE  (InferenceLast /\ NoOverlap /\ TakesAll)'
        OBVIOUS
      <3>1. (InferenceLast /\ NoOverlap)'
        BY <1>3 DEF InferenceLast, NoOverlap, RolloutSpan, InferenceSpan
      <3>2. TakesAll'
        <4> SUFFICES ASSUME BeforeLastIter
                     PROVE  dp * ActorMp = ClusterGpus
          BY <1>2, <1>3, <2>5 DEF TakesAll, LastIter, BeforeLastIter
        <4>1. available + actor * ActorMp = ClusterGpus
          <5>1. rollouts * RolloutMp = 0 /\ inference = 0
            BY Sizes DEF InferenceLast
          <5>2. QED
            BY <1>2, <1>3, <5>1 DEF Balanced
        <4>2. PICK most \in ValidDpSizes : most * ActorMp = ClusterGpus
          BY DpAssumption
        <4>3. most \in Nat /\ most >= actor
          <5>1. most \in Nat /\ actor * ActorMp <= most * ActorMp
            BY <1>2, <4>2, Sizes
          <5>2. QED
            BY <1>2, <5>1, Monotonic
        <4>4. (most - actor) * ActorMp = available
          <5>1. (most - actor) * ActorMp = most * ActorMp - actor * ActorMp
            BY <1>2, <4>3, Distribute
          <5> HIDE DEF AllocateActor
          <5>2. QED
            BY <1>2, <4>1, <4>2, <5>1, Sizes
        <4>5. Allocated = available
          <5>1. CASE available < ActorMp
            <6>1. (most - actor) * ActorMp < 1 * ActorMp
              BY <1>2, <4>4, <5>1
            <6>2. most - actor < 1
              BY <1>2, <4>3, <6>1, Monotonic
            <6>3. most = actor
              BY <1>2, <4>3, <6>2
            <6>4. (actor - actor) * ActorMp = 0
              BY <1>2
            <6>5. QED
              BY <4>4, <5>1, <6>3, <6>4 DEF Allocated
          <5>2. CASE available >= ActorMp
            <6>1. Allocated = Grow(available)
              BY <1>2, <5>2 DEF Allocated
            <6>2. Grow(available) >= available /\ Grow(available) \in 0..available
              BY <1>2, <4>3, <4>4, GrowIsMost
            <6>3. QED
              BY <1>2, <6>1, <6>2
          <5>3. QED
            BY <1>2, <5>1, <5>2
        <4> HIDE DEF AllocateActor
        <4>6. QED
          BY <1>2, <2>2, <2>4, <4>1, <4>5
      <3>3. QED
        BY <3>1, <3>2
    <2>16. QED
      BY <2>10, <2>11, <2>12, <2>14, <2>15
  <1>4. CASE LastIter /\ Scale(ActorGpus) /\ at' = "idle" /\ UNCHANGED <<available, iter>>
    <2>1. actor' = ActorInit /\ ActorInit * ActorMp = ActorGpus /\ ActorInit \in ValidDpSizes
      BY <1>2, <1>4, Sizes, Quotient DEF Scale
    <2>2. requests' = <<IF ActorGpus = actor * ActorMp THEN None ELSE ActorGpus>>
      BY <1>1, <1>4 DEF Scale, Asked
    <2>3. ActorGpus \in 1..ClusterGpus /\ ActorGpus # None
      BY <2>1, Sizes, NoneAssumption
    <2>4. TypeOK'
      <3>1. requests' \in Seq({None} \cup 1..ClusterGpus)
        BY <2>2, <2>3
      <3>2. QED
        BY <1>4, <2>1, <3>1 DEF TypeOK
    <2>5. (Balanced /\ NoneLeaving /\ OwnSize /\ AllThere /\ RoomForMigrants /\ Trained)'
      BY <1>1, <1>4, <2>1 DEF Balanced, NoneLeaving, OwnSize, AllThere, RoomForMigrants, Trained
    <2>6. Answered' /\ Head(requests') = IF ActorGpus = actor * ActorMp THEN None ELSE ActorGpus
      BY <1>1, <1>2, <1>4, <2>2 DEF Asked, Answered, LastIter
    <2>7. (Conversation /\ SizeTold)'
      <3>1. Conversation'
        BY <1>4, <2>6 DEF Conversation, Deciding
      <3>2. world = actor * ActorMp /\ world' = world
        BY <1>1 DEF SizeTold, Asked, Answered
      <3>3. SizeTold'
        BY <2>1, <2>3, <2>6, <3>2 DEF SizeTold
      <3>4. QED
        BY <3>1, <3>3
    <2>8. WaitBeforeLast => (InferenceLast /\ NoOverlap /\ TakesAll)'
      BY <1>4 DEF InferenceLast, NoOverlap, RolloutSpan, InferenceSpan, TakesAll
    <2>9. QED
      BY <2>4, <2>5, <2>7, <2>8
  <1>5. QED
    BY <1>3, <1>4

-----------------------------------------------------------------------------
(* The theorems.                                                           *)

\* The inductive invariant holds in every reachable state.
THEOREM InvHolds == SamePolicies /\ Spec => []IInv
  <1>1. SamePolicies /\ Init => IInv
    BY InitStep
  <1>2. SamePolicies /\ IInv /\ [Next]_vars => IInv'
    BY TaskCompletesStep, InferenceEndsStep, ActorStartsStep, ActorTrainsStep, ActorReshardsStep,
       ScheduleStep, PreProcessMigratesStep, AwaitActorStep, ReleaseRolloutStep, OffloadedStep,
       ReleaseInferenceStep, AllocateActorStep, StutterStep DEF Next, Scheduler, Actor
  <1>3. SamePolicies => SamePolicies'
    BY DEF SamePolicies
  <1>4. QED
    BY <1>1, <1>2, <1>3, PTL DEF Spec

\* No GPU is lost or counted twice while the scheduler moves them, every count stays in its
\* range, and try_allocate never meets the state in which its assertion fails.
THEOREM AccountingHolds == SamePolicies /\ Spec => []Accounting
  <1>1. IInv => Accounting
    <2> SUFFICES ASSUME IInv
                 PROVE  AllocateAssertion
      BY DEF IInv, Accounting
    <2> SUFFICES ASSUME at = "actor", ~LastIter, available >= ActorMp
                 PROVE  \E dp \in ValidDpSizes : dp > actor
      BY DEF AllocateAssertion
    <2>1. /\ available \in Nat /\ inference \in Nat /\ actor \in Nat /\ ActorMp \in Nat \ {0}
          /\ rollouts * RolloutMp \in Nat /\ actor * ActorMp \in Nat
      BY Sizes DEF IInv, TypeOK
    <2>2. available + rollouts * RolloutMp + inference + actor * ActorMp = ClusterGpus
      BY DEF IInv, Balanced
    <2>3. PICK most \in ValidDpSizes : most * ActorMp = ClusterGpus
      BY DpAssumption
    <2>4. actor * ActorMp < most * ActorMp
      BY <2>1, <2>2, <2>3
    <2>5. most > actor
      BY <2>1, <2>4, Sizes, Monotonic
    <2>6. QED
      BY <2>5
  <1>2. QED
    BY <1>1, InvHolds, PTL

\* While tasks run, the instances that stay can run all of them, also those of the instances
\* that migrate, unless the policy stops everything.
THEOREM RoomForMigrantsHolds == SamePolicies /\ Spec => []RoomForMigrants
  <1>1. IInv => RoomForMigrants
    BY DEF IInv
  <1>2. QED
    BY <1>1, InvHolds, PTL

\* The actor trains with the size that the ActorManager believes it has.
THEOREM ActorInStepHolds == SamePolicies /\ Spec => []ActorInStep
  <1>1. IInv => ActorInStep
    BY DEF IInv, ActorInStep, Conversation, NotStarted, Training, Answered, Asked, Ended, Deciding, SizeTold, TypeOK
  <1>2. QED
    BY <1>1, InvHolds, PTL

\* With the wait-before-last policy the actor never trains on a GPU that a rollout instance or
\* inference has not left.
THEOREM NoOverlapHolds == SamePolicies /\ WaitBeforeLast /\ Spec => []NoOverlap
  <1>1. IInv => (WaitBeforeLast => NoOverlap)
    BY DEF IInv
  <1>2. WaitBeforeLast => WaitBeforeLast'
    OBVIOUS
  <1>3. QED
    BY <1>1, <1>2, InvHolds, PTL

\* With that policy, and an iteration before the last, the actor has the whole cluster in the last.
THEOREM LastStepTakesAllHolds ==
  SamePolicies /\ WaitBeforeLast /\ Minibatches > 1 /\ Spec => []LastStepTakesAll
  <1>1. IInv => (WaitBeforeLast /\ Minibatches > 1 => LastStepTakesAll)
    <2> SUFFICES ASSUME IInv, WaitBeforeLast, Minibatches > 1, actorAt = "training", actorIter = Minibatches - 1
                 PROVE  world = ClusterGpus
      BY DEF LastStepTakesAll
    <2>1. Training
      BY DEF IInv, Conversation, NotStarted, Training, Answered, Asked, Ended, Deciding, TypeOK
    <2>2. world = actor * ActorMp
      BY <2>1 DEF IInv, SizeTold, Training, Answered
    <2>3. QED
      BY <2>1, <2>2 DEF IInv, TakesAll, LastIter, Training
  <1>2. WaitBeforeLast /\ Minibatches > 1 => (WaitBeforeLast /\ Minibatches > 1)'
    OBVIOUS
  <1>3. QED
    BY <1>1, <1>2, InvHolds, PTL
=============================================================================
