-------------------------- MODULE WeightSync_proofs --------------------------
(***************************************************************************)
(* Proofs about the weights that the actor sends to the rollout ranks, for *)
(* any number of ranks and buckets and any configurations: first that      *)
(* sending and receiving fit together and which weights a rank has, then   *)
(* how old a trajectory is when PPO trains with it.                        *)
(***************************************************************************)
EXTENDS WeightSync, FiniteSetTheorems, TLAPS

-----------------------------------------------------------------------------
(* The inductive invariant of sending and receiving.                       *)

Going == at \in {"recv", "train"} => step < MaxStep

(* The actor's side: the bucket on offer is the one it is at, and when all *)
(* ranks have had it the next one is.                                      *)
Sending ==
  /\ sending = 0 => sent = {} /\ offer = NoBucket
  /\ sent # Ranks
  /\ offer # NoBucket => offer.index = sending

(* The rank has been called for what the actor sends, and does not receive *)
(* it yet.                                                                 *)
Waiting(r) == r \in calls \/ requested[r]

(* How many buckets the actor has given to the rank, and how many the rank *)
(* has had in the apply that it is in.                                     *)
Given(r) == IF sending = 0 THEN Buckets ELSE IF r \in sent THEN sending ELSE sending - 1
Had(r) == IF inbox[r] = NoBucket THEN got[r] ELSE got[r] + 1

(* A rank that waits may have the last bucket of the send before to load;  *)
(* else its apply is the one of what the actor sends.                      *)
Receiving ==
  \A r \in Ranks :
    /\ requested[r] => r \notin calls /\ cfg.no_wait
    /\ work[r] # "recv" => inbox[r] = NoBucket /\ got[r] = 0
    /\ IF Waiting(r) THEN Given(r) = 0 /\ (work[r] = "recv" => Had(r) = Buckets)
       ELSE IF work[r] = "recv" THEN Had(r) = Given(r) ELSE Given(r) = Buckets

(* A runner that waits goes on when everybody has everything; one that     *)
(* does not wait has called nobody before it has set the handles.          *)
Called ==
  /\ ~cfg.no_wait =>
       /\ at # "sync" => sending = 0 /\ calls = {} /\ \A r \in Ranks : work[r] = "none"
       /\ \A r \in calls : work[r] = "none"
  /\ cfg.no_wait /\ ~pending => sending = 0 /\ calls = {}

(* What is on its way is of the actor's version, and with PPO its weights  *)
(* are too.                                                                *)
Versions ==
  /\ version = IF Ppo THEN step ELSE 0
  /\ offer # NoBucket => offer.version = version /\ (Ppo => offer.weights = step)
  /\ \A r \in Ranks :
       /\ rversion[r] <= version
       /\ inbox[r] # NoBucket => inbox[r].version = version /\ (Ppo => inbox[r].weights = step)

(* The buckets that a rank has loaded in the apply that it is in are new.  *)
Loaded ==
  Ppo => \A r \in Ranks : work[r] = "recv" => \A b \in 1..got[r] : weights[r][b] = step

NotNewer == \A r \in Ranks : \A b \in 1..Buckets : rversion[r] <= weights[r][b]

SyncInv ==
  /\ TypeOK /\ Going /\ Sending /\ Receiving /\ BucketExpected /\ Called
  /\ Versions /\ WholeWeights /\ Loaded /\ NotNewer

-----------------------------------------------------------------------------
(* The steps.                                                              *)

\* The numbers of a configuration.
LEMMA ConfigFacts ==
  ASSUME NEW c \in Configs
  PROVE  /\ Buckets \in Nat \ {0} /\ IsFiniteSet(Ranks) /\ Ranks # {}
         /\ c.algorithm \in {"ppo", "sac"} /\ c.threshold \in Nat \cup {NoThreshold}
         /\ c.no_wait \in BOOLEAN /\ c.start \in Nat /\ c.steps \in Nat /\ c.chunks \in Nat \ {0}
         /\ c.algorithm = "ppo" => ~c.no_wait
         /\ c.algorithm = "sac" => c.threshold = NoThreshold
  BY ConfigAssumption

\* A bucket knows its place, and how many there are.
LEMMA BucketFacts ==
  ASSUME NEW b \in Bucket, b # NoBucket
  PROVE  b.index \in 1..Buckets /\ b.weights \in Nat /\ b.version \in Nat /\ b.total = Buckets
  BY DEF Bucket

\* The first states: nothing is sent and all ranks have the weights of version 0.
LEMMA SyncInit ==
  ASSUME Init
  PROVE  SyncInv
  <1> USE DEF Init
  <1>1. cfg.start \in Nat /\ cfg.steps \in Nat /\ cfg.no_wait \in BOOLEAN /\ cfg.chunks \in Nat \ {0} /\ Buckets \in Nat \ {0}
        /\ Ranks # {}
    BY ConfigFacts
  <1>2. TypeOK
    <2>1. offer \in Bucket /\ inbox \in [Ranks -> Bucket]
      BY DEF Bucket
    <2>2. step \in cfg.start..MaxStep
      BY <1>1 DEF MaxStep
    <2>3. chunk \in [Ranks -> 0..cfg.chunks] /\ got \in [Ranks -> 0..(Buckets - 1)]
      BY <1>1
    <2>4. version \in Nat /\ trained = step /\ queue \in Seq(Nat) /\ batch \subseteq Nat
      BY <1>1
    <2>5. weights \in [Ranks -> [1..Buckets -> Nat]] /\ episodes \in [Ranks -> Nat \cup {NoEpisodes}]
      OBVIOUS
    <2>6. /\ cfg \in Configs /\ at \in {"update", "sync", "recv", "train", "end"}
          /\ pending \in BOOLEAN /\ calls \subseteq Ranks /\ buffered \in BOOLEAN
          /\ sent \subseteq Ranks
      OBVIOUS
    <2>9. sending \in 0..Buckets
      BY <1>1
    <2>7. /\ work \in [Ranks -> {"none", "recv", "done"}] /\ requested \in [Ranks -> BOOLEAN]
          /\ rversion \in [Ranks -> Nat] /\ gen \in [Ranks -> {"idle", "loop", "epoch", "stopped"}]
          /\ stamp \in [Ranks -> Nat] /\ finished \in [Ranks -> BOOLEAN]
      OBVIOUS
    <2> HIDE DEF Init
    <2>8. QED
      BY <2>1, <2>2, <2>3, <2>4, <2>5, <2>6, <2>7, <2>9 DEF TypeOK
  <1>3. Going /\ Sending /\ BucketExpected /\ Called /\ WholeWeights /\ Loaded /\ NotNewer
    BY <1>1 DEF Going, Sending, BucketExpected, Called, WholeWeights, Loaded, NotNewer
  <1>4. Receiving
    BY DEF Receiving, Waiting, Given
  <1>5. Versions
    BY <1>1 DEF Versions, Ppo
  <1>6. QED
    BY <1>2, <1>3, <1>4, <1>5 DEF SyncInv

\* What a rank does with its units has no part in sending and receiving.
LEMMA SyncFrame ==
  ASSUME SyncInv, TypeOK', UNCHANGED <<runner, calls, version, trained, sync, receiver>>
  PROVE  SyncInv'
  BY DEF SyncInv, Going, Sending, Receiving, Waiting, Given, Had, BucketExpected, Called, Versions, Ppo,
     WholeWeights, Loaded, NotNewer, MaxStep, runner, sync, receiver

LEMMA SyncStutter ==
  ASSUME SyncInv, UNCHANGED vars
  PROVE  SyncInv'
  <1>1. TypeOK'
    BY DEF SyncInv, TypeOK, MaxStep, vars, runner, actor, sync, receiver, generator
  <1>2. QED
    BY <1>1, SyncFrame DEF vars, actor, generator

\* The generating and the putting of trajectories.
LEMMA SyncGenerates ==
  ASSUME SyncInv, NEW r \in Ranks, Predict(r) \/ EndUnit(r) \/ SendTrajectory(r) \/ Stop(r)
  PROVE  SyncInv'
  <1> USE DEF runner, actor, sync, receiver, generator
  <1>1. TypeOK /\ cfg.chunks \in Nat
    BY ConfigFacts DEF SyncInv, TypeOK
  <1>2. CASE Predict(r)
    <2>1. chunk'[r] \in 0..cfg.chunks
      BY <1>1, <1>2 DEF TypeOK, Predict
    <2>2. TypeOK'
      BY <1>1, <1>2, <2>1 DEF TypeOK, Predict, MaxStep
    <2>3. QED
      BY <1>2, <2>2, SyncFrame DEF Predict
  <1>3. CASE EndUnit(r)
    <2>1. episodes' \in [Ranks -> Nat \cup {NoEpisodes}]
      BY <1>1, <1>3 DEF TypeOK, EndUnit
    <2>2. TypeOK'
      BY <1>1, <1>3, <2>1 DEF TypeOK, EndUnit, MaxStep
    <2>3. QED
      BY <1>3, <2>2, SyncFrame DEF EndUnit
  <1>4. CASE SendTrajectory(r)
    <2>1. queue' \in Seq(Nat)
      <3>1. stamp[r] \in Nat /\ queue \in Seq(Nat)
        BY <1>1 DEF TypeOK
      <3>2. Append(queue, stamp[r]) \in Seq(Nat)
        BY <3>1
      <3>3. QED
        BY <1>4, <3>1, <3>2 DEF SendTrajectory
    <2>2. TypeOK'
      BY <1>1, <1>4, <2>1 DEF TypeOK, SendTrajectory, MaxStep
    <2>3. QED
      BY <1>4, <2>2, SyncFrame DEF SendTrajectory
  <1>5. CASE Stop(r)
    <2>1. TypeOK'
      BY <1>1, <1>5 DEF TypeOK, Stop, MaxStep
    <2>2. QED
      BY <1>5, <2>1, SyncFrame DEF Stop
  <1>6. QED
    BY <1>2, <1>3, <1>4, <1>5

\* A rank that polls begins to receive when it has a request.
LEMMA SyncBeginUnit ==
  ASSUME SyncInv, NEW r \in Ranks, BeginUnit(r)
  PROVE  SyncInv'
  <1> USE DEF SyncInv, BeginUnit, runner, actor, sync, generator
  <1>0. chunk' \in [Ranks -> 0..cfg.chunks]
    <2>1. cfg.chunks \in Nat
      BY ConfigFacts DEF TypeOK
    <2>2. QED
      BY <2>1 DEF TypeOK
  <1>1. CASE UNCHANGED <<work, requested>>
    <2>1. TypeOK'
      BY <1>0, <1>1 DEF TypeOK, MaxStep
    <2>2. QED
      BY <1>1, <2>1, SyncFrame DEF receiver
  <1>2. CASE /\ cfg.no_wait /\ work[r] \in {"none", "done"}
             /\ work' = [work EXCEPT ![r] = IF requested[r] THEN "recv" ELSE "none"]
             /\ requested' = [requested EXCEPT ![r] = FALSE]
    <2>1. TypeOK'
      BY <1>0, <1>2 DEF TypeOK, MaxStep
    <2>2. (Going /\ Sending /\ BucketExpected /\ Called /\ Versions)'
      BY <1>2 DEF Going, Sending, BucketExpected, Called, Versions, Ppo, MaxStep
    <2>3. Receiving'
      BY <1>2 DEF Receiving, Waiting, Given, Had, TypeOK
    <2>4. (WholeWeights /\ Loaded /\ NotNewer)'
      BY <1>2, ConfigFacts DEF WholeWeights, Loaded, NotNewer, Ppo, TypeOK
    <2>5. QED
      BY <2>1, <2>2, <2>3, <2>4
  <1>3. QED
    BY <1>1, <1>2 DEF Poll, Polled

\* A call of a runner that waits finds the rank without an apply.
LEMMA SyncModelStep ==
  ASSUME SyncInv, NEW r \in Ranks, SyncModelFromActor(r)
  PROVE  SyncInv'
  <1> USE DEF SyncInv, SyncModelFromActor, runner, actor, sync, generator
  <1>1. work[r] = "none" /\ got[r] = 0 /\ inbox[r] = NoBucket /\ ~requested[r]
    BY DEF Called, Receiving
  <1>2. TypeOK'
    BY DEF TypeOK, MaxStep
  <1>3. (Going /\ Sending /\ BucketExpected /\ Called /\ Versions)'
    BY DEF Going, Sending, BucketExpected, Called, Versions, Ppo, MaxStep
  <1>4. Receiving'
    BY <1>1 DEF Receiving, Waiting, Given, Had, TypeOK
  <1>5. (WholeWeights /\ Loaded /\ NotNewer)'
    BY <1>1 DEF WholeWeights, Loaded, NotNewer, Ppo, TypeOK
  <1>6. QED
    BY <1>2, <1>3, <1>4, <1>5

\* A call of a runner that does not wait starts the task that receives or leaves a request.
LEMMA RequestModelStep ==
  ASSUME SyncInv, NEW r \in Ranks, RequestActorSyncModel(r)
  PROVE  SyncInv'
  <1> USE DEF SyncInv, RequestActorSyncModel, Requested, runner, actor, sync, generator
  <1>1. ~Ppo /\ ~requested[r]
    BY ConfigFacts DEF Ppo, TypeOK, Receiving
  <1>2. TypeOK'
    BY DEF TypeOK, MaxStep
  <1>3. (Going /\ Sending /\ BucketExpected /\ Called /\ Versions)'
    BY DEF Going, Sending, BucketExpected, Called, Versions, Ppo, MaxStep
  <1>4. Receiving'
    BY <1>1 DEF Receiving, Waiting, Given, Had, TypeOK
  <1>5. (WholeWeights /\ Loaded /\ NotNewer)'
    BY <1>1 DEF WholeWeights, Loaded, NotNewer, Ppo, TypeOK
  <1>6. QED
    BY <1>2, <1>3, <1>4, <1>5

\* The runner's steps without a call.
LEMMA SyncRecvTrajectories ==
  ASSUME SyncInv, RecvTrajectories
  PROVE  SyncInv'
  <1> USE DEF SyncInv, RecvTrajectories, sync, receiver, generator
  <1>1. TypeOK'
    <2>1. Cardinality(Ranks) \in Nat
      BY ConfigFacts, FS_CardinalityType DEF TypeOK
    <2>2. queue' \in Seq(Nat) /\ batch' \subseteq Nat
      <3>1. queue \in Seq(Nat) /\ Len(queue) >= Cardinality(Ranks)
        BY DEF TypeOK
      <3> DEFINE front == SubSeq(queue, 1, Cardinality(Ranks))
                 rest == SubSeq(queue, Cardinality(Ranks) + 1, Len(queue))
      <3>2. front \in Seq(Nat) /\ rest \in Seq(Nat)
        BY <2>1, <3>1
      <3>3. ToSet(front) \subseteq Nat
        <4> HIDE DEF front
        <4>1. QED
          BY <3>2 DEF ToSet
      <3>4. QED
        BY <3>2, <3>3
    <2>3. QED
      BY <2>2 DEF TypeOK, MaxStep
  <1>2. (Going /\ Sending /\ BucketExpected /\ Called /\ Versions)'
    BY DEF Going, Sending, BucketExpected, Called, Versions, Ppo, MaxStep
  <1>3. (Receiving /\ WholeWeights /\ Loaded /\ NotNewer)'
    BY DEF Receiving, Waiting, Given, Had, WholeWeights, Loaded, NotNewer, Ppo
  <1>4. QED
    BY <1>1, <1>2, <1>3

\* With PPO nothing is sent while the actor trains.
LEMMA SyncRunTraining ==
  ASSUME SyncInv, RunTraining
  PROVE  SyncInv'
  <1> USE DEF SyncInv, RunTraining, sync, receiver, generator
  <1>1. cfg.start \in Nat /\ cfg.steps \in Nat /\ (Ppo => ~cfg.no_wait) /\ step \in cfg.start..MaxStep /\ step < MaxStep
    BY ConfigFacts DEF TypeOK, Ppo, Going
  <1>2. Ppo => offer = NoBucket /\ \A r \in Ranks : work[r] = "none" /\ inbox[r] = NoBucket
    BY <1>1 DEF Called, Sending, Receiving
  <1>3. TypeOK'
    <2>1. step' \in cfg.start..MaxStep /\ version' \in Nat /\ trained' = step'
      BY <1>1 DEF TypeOK, MaxStep
    <2>2. QED
      BY <2>1 DEF TypeOK, MaxStep
  <1>4. (Going /\ Sending /\ BucketExpected /\ Called)'
    BY DEF Going, Sending, BucketExpected, Called
  <1>5. Versions'
    BY <1>1, <1>2 DEF Versions, Ppo, TypeOK, MaxStep
  <1>6. (Receiving /\ WholeWeights /\ Loaded /\ NotNewer)'
    BY <1>2 DEF Receiving, Waiting, Given, Had, WholeWeights, Loaded, NotNewer, Ppo
  <1>7. QED
    BY <1>3, <1>4, <1>5, <1>6

\* A call finds that nobody waits: all have had the buckets of the send before.
LEMMA SyncCalls ==
  ASSUME SyncInv, calls = {}, sending = 0,
         CallSync, UNCHANGED <<sent, inbox, work, got, requested>>
  PROVE  Receiving'
  <1>1. Buckets \in Nat \ {0}
    BY ConfigFacts DEF SyncInv, TypeOK
  <1>2. \A r \in Ranks : ~Waiting(r) /\ Given(r) = Buckets
    BY <1>1 DEF SyncInv, Receiving, Given
  <1>3. \A r \in Ranks : Waiting(r)' /\ Given(r)' = 0
    BY DEF SyncInv, Sending, CallSync, Waiting, Given
  <1>4. \A r \in Ranks : Had(r)' = Had(r)
    BY DEF Had
  <1>5. QED
    BY <1>2, <1>3, <1>4 DEF SyncInv, Receiving, Waiting

LEMMA SyncUpdateWeights ==
  ASSUME SyncInv, UpdateWeights
  PROVE  SyncInv'
  <1> USE DEF SyncInv, UpdateWeights, actor, receiver, generator
  <1>1. sending = 0 /\ calls = {} /\ Buckets \in Nat \ {0}
    BY ConfigFacts DEF Called, TypeOK
  <1>2. TypeOK'
    BY <1>1 DEF TypeOK, MaxStep, CallSync
  <1>3. (Going /\ Sending /\ BucketExpected /\ Called /\ Versions)'
    BY <1>1 DEF Going, Sending, BucketExpected, Called, Versions, Ppo, CallSync
  <1>4. Receiving'
    BY <1>1, SyncCalls
  <1>5. (WholeWeights /\ Loaded /\ NotNewer)'
    BY DEF WholeWeights, Loaded, NotNewer, Ppo
  <1>6. QED
    BY <1>2, <1>3, <1>4, <1>5

LEMMA SyncRequestWeights ==
  ASSUME SyncInv, RequestWeights
  PROVE  SyncInv'
  <1> USE DEF SyncInv, RequestWeights, Continue, actor, receiver
  <1>1. /\ Buckets \in Nat \ {0} /\ ~Ppo /\ at' \in {"end", "train"} /\ (step = MaxStep => at' = "end")
        /\ step \in cfg.start..MaxStep /\ cfg.start \in Nat /\ MaxStep \in Nat
    <2>1. cfg \in Configs /\ step \in cfg.start..MaxStep
      BY DEF TypeOK
    <2>2. Buckets \in Nat \ {0} /\ cfg.start \in Nat /\ cfg.steps \in Nat /\ (cfg.algorithm = "ppo" => ~cfg.no_wait)
      BY <2>1, ConfigFacts
    <2>3. MaxStep \in Nat
      BY <2>2 DEF MaxStep
    <2>4. QED
      BY <2>1, <2>2, <2>3 DEF Ppo
  <1>2. TypeOK'
    <2>1. gen' \in [Ranks -> {"idle", "loop", "epoch", "stopped"}]
      BY DEF TypeOK
    <2>2. calls' \subseteq Ranks /\ sending' \in 0..Buckets /\ pending' \in BOOLEAN
      <3>1. CASE UNCHANGED <<calls, pending, sending>>
        BY <3>1 DEF TypeOK
      <3>2. CASE CallSync /\ pending' = TRUE
        BY <1>1, <3>2 DEF CallSync
      <3>3. QED
        BY <3>1, <3>2
    <2>3. QED
      BY <1>1, <2>1, <2>2 DEF TypeOK, MaxStep
  <1>3. (Going /\ BucketExpected /\ Versions)'
    <2>1. step < MaxStep \/ at' = "end"
      BY <1>1
    <2>2. QED
      BY <1>1, <2>1 DEF Going, BucketExpected, Versions, Ppo, MaxStep
  <1>4. (WholeWeights /\ Loaded /\ NotNewer)'
    BY DEF WholeWeights, Loaded, NotNewer, Ppo
  <1>5. CASE UNCHANGED <<calls, pending, sending>>
    BY <1>5, <1>2, <1>3, <1>4 DEF Sending, Called, Receiving, Waiting, Given, Had
  <1>6. CASE (~pending \/ HandlesDone) /\ CallSync /\ pending' = TRUE
    <2>1. sending = 0 /\ calls = {}
      BY <1>6 DEF Called, HandlesDone
    <2>2. Receiving'
      BY <1>6, <2>1, SyncCalls
    <2>3. (Sending /\ Called)'
      BY <1>1, <1>6, <2>1 DEF Sending, Called, CallSync
    <2>4. QED
      BY <1>2, <1>3, <1>4, <2>2, <2>3
  <1>7. QED
    BY <1>5, <1>6

LEMMA SyncReturns ==
  ASSUME SyncInv, UpdateWeightsReturns
  PROVE  SyncInv'
  <1> USE DEF SyncInv, UpdateWeightsReturns, Continue, actor, sync
  <1>1. /\ at' \in {"end", "recv", "train"} /\ (step = MaxStep => at' = "end")
        /\ step \in cfg.start..MaxStep /\ cfg.start \in Nat /\ MaxStep \in Nat
    BY ConfigFacts DEF TypeOK, MaxStep
  <1>2. TypeOK'
    BY <1>1 DEF TypeOK, MaxStep
  <1>3. (Going /\ Sending /\ BucketExpected /\ Called /\ Versions)'
    <2>1. step < MaxStep \/ at' = "end"
      BY <1>1
    <2>2. Going' /\ Sending' /\ BucketExpected' /\ Versions'
      BY <1>1, <2>1 DEF Going, Sending, BucketExpected, Versions, Ppo, MaxStep
    <2>3. Called'
      BY <1>1 DEF Called
    <2>4. QED
      BY <2>2, <2>3
  <1>4. (Receiving /\ WholeWeights /\ Loaded /\ NotNewer)'
    BY DEF Receiving, Waiting, Given, Had, WholeWeights, Loaded, NotNewer, Ppo
  <1>5. QED
    BY <1>2, <1>3, <1>4

\* The actor offers the bucket it is at, as its weights are.
LEMMA SyncSendBucket ==
  ASSUME SyncInv, SendBucket
  PROVE  SyncInv'
  <1> USE DEF SyncInv, SendBucket, runner, actor, receiver, generator
  <1>1. sending \in 1..Buckets /\ Buckets \in Nat \ {0} /\ trained = step /\ step \in Nat /\ version \in Nat
    BY ConfigFacts DEF TypeOK
  <1>2. offer' \in Bucket /\ offer' # NoBucket /\ offer'.index = sending
        /\ offer'.weights = step /\ offer'.version = version
    <2>1. offer'.index = sending /\ offer'.weights = step /\ offer'.version = version
      BY <1>1
    <2>2. offer' # NoBucket
      <3>1. NoBucket.index = 0
        BY DEF NoBucket
      <3>2. QED
        BY <1>1, <2>1, <3>1
    <2>3. offer' \in Bucket
      BY <1>1 DEF Bucket
    <2>4. QED
      BY <2>1, <2>2, <2>3
  <1> HIDE DEF SendBucket
  <1>3. sending > 0 /\ UNCHANGED <<runner, calls, actor, queue, sending, sent, receiver, generator>>
    BY DEF SendBucket
  <1>4. TypeOK'
    BY <1>2, <1>3 DEF TypeOK, MaxStep
  <1>5. (Going /\ Sending /\ BucketExpected /\ Called /\ Versions)'
    BY <1>2, <1>3 DEF Going, Sending, BucketExpected, Called, Versions, Ppo, MaxStep
  <1>6. (Receiving /\ WholeWeights /\ Loaded /\ NotNewer)'
    BY <1>3 DEF Receiving, Waiting, Given, Had, WholeWeights, Loaded, NotNewer, Ppo
  <1>7. QED
    BY <1>4, <1>5, <1>6

\* A rank only takes a bucket when it is in the apply of what the actor sends; after the last
\* rank the actor is at the next bucket, or at the end.
LEMMA SyncTransfer ==
  ASSUME SyncInv, NEW r \in Ranks, Transfer(r)
  PROVE  SyncInv'
  <1> USE DEF SyncInv, Transfer, runner, actor, generator
  <1>1. Buckets \in Nat \ {0} /\ sending \in 1..Buckets /\ offer \in Bucket /\ offer # NoBucket
        /\ offer.index = sending
    BY ConfigFacts DEF TypeOK, Sending
  <1>2. ~Waiting(r) /\ got[r] = sending - 1 /\ inbox[r] = NoBucket /\ work[r] = "recv"
    BY <1>1 DEF Receiving, Given, Had, TypeOK
  <1>3. inbox' = [inbox EXCEPT ![r] = offer]
    OBVIOUS
  <1>4. CASE sent \cup {r} # Ranks /\ sent' = sent \cup {r} /\ UNCHANGED <<sending, offer>>
    <2>1. TypeOK'
      BY <1>1, <1>4 DEF TypeOK, MaxStep
    <2>2. (Going /\ Sending /\ BucketExpected /\ Called)'
      <3>1. (Going /\ Called)'
        BY <1>1, <1>4 DEF Going, Called, MaxStep
      <3>2. Sending'
        BY <1>1, <1>4 DEF Sending
      <3>3. got[r] + 1 = sending /\ UNCHANGED got
        BY <1>1, <1>2
      <3>4. \A q \in Ranks : inbox'[q] = IF q = r THEN offer ELSE inbox[q]
        BY <1>3 DEF TypeOK
      <3>5. BucketExpected'
        BY <1>1, <3>3, <3>4 DEF BucketExpected
      <3>6. QED
        BY <3>1, <3>2, <3>5
    <2>3. Receiving'
      <3> SUFFICES ASSUME NEW q \in Ranks
                   PROVE  /\ requested[q]' => q \notin calls' /\ cfg'.no_wait
                          /\ work[q]' # "recv" => inbox[q]' = NoBucket /\ got[q]' = 0
                          /\ IF Waiting(q)' THEN Given(q)' = 0 /\ (work[q]' = "recv" => Had(q)' = Buckets)
                             ELSE IF work[q]' = "recv" THEN Had(q)' = Given(q)' ELSE Given(q)' = Buckets
        BY DEF Receiving
      <3>1. CASE q = r
        BY <1>1, <1>2, <1>4, <3>1 DEF Receiving, Waiting, Given, Had, TypeOK
      <3>2. CASE q # r
        BY <1>4, <3>2 DEF Receiving, Waiting, Given, Had, TypeOK
      <3>3. QED
        BY <3>1, <3>2
    <2>4. (Versions /\ WholeWeights /\ Loaded /\ NotNewer)'
      BY <1>1, <1>2, <1>4 DEF Versions, WholeWeights, Loaded, NotNewer, Ppo, TypeOK
    <2>5. QED
      BY <2>1, <2>2, <2>3, <2>4
  <1>5. CASE /\ sent \cup {r} = Ranks /\ sent' = {} /\ offer' = NoBucket
             /\ sending' = IF sending = Buckets THEN 0 ELSE sending + 1
    <2>1. TypeOK'
      <3>1. sending' \in 0..Buckets /\ offer' \in Bucket
        BY <1>1, <1>5 DEF Bucket
      <3>2. QED
        BY <1>1, <1>5, <3>1 DEF TypeOK, MaxStep
    <2>2. (Going /\ Sending /\ BucketExpected /\ Called)'
      <3>1. (Going /\ Called)'
        BY <1>1, <1>5 DEF Going, Called, MaxStep
      <3>2. Sending'
        BY <1>1, <1>5 DEF Sending
      <3>3. got[r] + 1 = sending /\ UNCHANGED got
        BY <1>1, <1>2
      <3>4. \A q \in Ranks : inbox'[q] = IF q = r THEN offer ELSE inbox[q]
        BY <1>3 DEF TypeOK
      <3>5. BucketExpected'
        BY <1>1, <3>3, <3>4 DEF BucketExpected
      <3>6. QED
        BY <3>1, <3>2, <3>5
    <2>3. Receiving'
      <3> SUFFICES ASSUME NEW q \in Ranks
                   PROVE  /\ requested[q]' => q \notin calls' /\ cfg'.no_wait
                          /\ work[q]' # "recv" => inbox[q]' = NoBucket /\ got[q]' = 0
                          /\ IF Waiting(q)' THEN Given(q)' = 0 /\ (work[q]' = "recv" => Had(q)' = Buckets)
                             ELSE IF work[q]' = "recv" THEN Had(q)' = Given(q)' ELSE Given(q)' = Buckets
        BY DEF Receiving
      <3>1. Given(q)' = sending
        BY <1>1, <1>5 DEF Given
      <3>2. CASE q = r
        BY <1>1, <1>2, <1>5, <3>1, <3>2 DEF Receiving, Waiting, Had, TypeOK
      <3>3. CASE q # r
        <4>1. Given(q) = sending /\ ~Waiting(q)
          BY <1>1, <1>5, <3>3 DEF Receiving, Given
        <4>2. QED
          BY <1>5, <3>1, <3>3, <4>1 DEF Receiving, Waiting, Had, TypeOK
      <3>4. QED
        BY <3>2, <3>3
    <2>4. (Versions /\ WholeWeights /\ Loaded /\ NotNewer)'
      <3>1. \A q \in Ranks : inbox'[q] = IF q = r THEN offer ELSE inbox[q]
        BY <1>3 DEF TypeOK
      <3>2. Versions'
        BY <1>1, <1>5, <3>1 DEF Versions, Ppo
      <3>3. (WholeWeights /\ Loaded /\ NotNewer)'
        BY DEF WholeWeights, Loaded, NotNewer, Ppo, receiver
      <3>4. QED
        BY <3>2, <3>3
    <2>5. QED
      BY <2>1, <2>2, <2>3, <2>4
  <1>6. QED
    BY <1>4, <1>5

\* A bucket is loaded in its place; with the last one the rank has all the weights of the version
\* that it takes.
LEMMA SyncLoadBucket ==
  ASSUME SyncInv, NEW r \in Ranks, LoadBucket(r)
  PROVE  SyncInv'
  <1> USE DEF SyncInv, LoadBucket, runner, actor, sync, VersionAfterLast
  <1> DEFINE i == inbox[r].index
             w == inbox[r].weights
             v == inbox[r].version
  <1>1. Buckets \in Nat \ {0} /\ i \in 1..Buckets /\ i = got[r] + 1 /\ w \in Nat /\ v \in Nat
        /\ inbox[r].total = Buckets /\ got[r] \in 0..(Buckets - 1) /\ version \in Nat
    BY ConfigFacts, BucketFacts DEF TypeOK, BucketExpected
  <1>2. inbox[r] # NoBucket /\ work[r] = "recv" /\ v = version /\ (Ppo => w = step)
    BY DEF Receiving, Versions
  <1>3. AllBuckets(r) <=> i = Buckets
    BY <1>1 DEF AllBuckets
  <1>4. /\ inbox' = [inbox EXCEPT ![r] = NoBucket]
        /\ weights' = [weights EXCEPT ![r] = [weights[r] EXCEPT ![i] = w]]
        /\ rversion' = [rversion EXCEPT ![r] = IF i = Buckets THEN v ELSE rversion[r]]
        /\ UNCHANGED <<runner, calls, actor, queue, sync, requested, gen, chunk, stamp, finished>>
    BY <1>3 DEF TypeOK
  <1>5. IF i = Buckets THEN got' = [got EXCEPT ![r] = 0] /\ work' = [work EXCEPT ![r] = "done"]
        ELSE got' = [got EXCEPT ![r] = i] /\ UNCHANGED work
    BY <1>1, <1>3 DEF TypeOK
  <1>6. episodes' \in [Ranks -> Nat \cup {NoEpisodes}]
    <2>1. rversion'[r] \in Nat
      BY <1>1, <1>4 DEF TypeOK
    <2> HIDE DEF VersionAfterLast
    <2>2. QED
      BY <2>1 DEF TypeOK
  <1> HIDE DEF LoadBucket, i, w, v
  <1>7. TypeOK'
    <2>1. weights' \in [Ranks -> [1..Buckets -> Nat]] /\ rversion' \in [Ranks -> Nat] /\ inbox' \in [Ranks -> Bucket]
      BY <1>1, <1>4 DEF TypeOK, Bucket
    <2>2. got' \in [Ranks -> 0..(Buckets - 1)] /\ work' \in [Ranks -> {"none", "recv", "done"}]
      <3>1. 0 \in 0..(Buckets - 1) /\ (i # Buckets => i \in 0..(Buckets - 1))
        BY <1>1
      <3>2. got \in [Ranks -> 0..(Buckets - 1)] /\ work \in [Ranks -> {"none", "recv", "done"}]
        BY DEF TypeOK
      <3>3. QED
        BY <1>5, <3>1, <3>2
    <2>3. QED
      BY <1>4, <1>6, <2>1, <2>2 DEF TypeOK, MaxStep
  <1>8. (Going /\ Sending /\ BucketExpected /\ Called)'
    BY <1>2, <1>4, <1>5 DEF Going, Sending, BucketExpected, Called, MaxStep, TypeOK
  <1>9. Receiving'
    <2> SUFFICES ASSUME NEW q \in Ranks
                 PROVE  /\ requested[q]' => q \notin calls' /\ cfg'.no_wait
                        /\ work[q]' # "recv" => inbox[q]' = NoBucket /\ got[q]' = 0
                        /\ IF Waiting(q)' THEN Given(q)' = 0 /\ (work[q]' = "recv" => Had(q)' = Buckets)
                           ELSE IF work[q]' = "recv" THEN Had(q)' = Given(q)' ELSE Given(q)' = Buckets
      BY DEF Receiving
    <2>1. Given(q)' = Given(q) /\ (Waiting(q)' <=> Waiting(q))
      BY <1>4 DEF Given, Waiting
    <2>2. CASE q = r
      <3>1. Had(r) = i /\ inbox'[r] = NoBucket
        BY <1>1, <1>2, <1>4 DEF Had, TypeOK
      <3>2. CASE i = Buckets
        <4>1. work'[r] = "done" /\ got'[r] = 0
          BY <1>5, <3>2 DEF TypeOK
        <4>2. QED
          BY <1>2, <1>4, <2>1, <2>2, <3>1, <3>2, <4>1 DEF Receiving
      <3>3. CASE i # Buckets
        <4>1. work'[r] = "recv" /\ got'[r] = i
          BY <1>2, <1>5, <3>3 DEF TypeOK
        <4>2. QED
          BY <1>2, <1>4, <2>1, <2>2, <3>1, <3>3, <4>1 DEF Receiving, Had
      <3>4. QED
        BY <3>2, <3>3
    <2>3. CASE q # r
      <3>1. inbox'[q] = inbox[q] /\ got'[q] = got[q] /\ work'[q] = work[q]
        BY <1>4, <1>5, <2>3 DEF TypeOK
      <3>2. QED
        BY <1>4, <2>1, <3>1 DEF Receiving, Had
    <2>4. QED
      BY <2>2, <2>3
  <1>10. Versions'
    <2>1. \A q \in Ranks : rversion'[q] = IF q = r /\ i = Buckets THEN v ELSE rversion[q]
      BY <1>4 DEF TypeOK
    <2>2. \A q \in Ranks : inbox'[q] = IF q = r THEN NoBucket ELSE inbox[q]
      BY <1>4 DEF TypeOK
    <2>3. QED
      BY <1>1, <1>2, <1>4, <2>1, <2>2 DEF Versions, Ppo
  <1>11. Ppo => \A b \in 1..i : weights'[r][b] = step
    <2> SUFFICES ASSUME Ppo, NEW b \in 1..i
                 PROVE  weights'[r][b] = step
      OBVIOUS
    <2>1. weights \in [Ranks -> [1..Buckets -> Nat]]
      BY DEF TypeOK
    <2>2. CASE b = i
      BY <1>1, <1>2, <1>4, <2>1, <2>2
    <2>3. CASE b # i
      <3>1. b \in 1..got[r] /\ weights'[r][b] = weights[r][b]
        BY <1>1, <1>2, <1>4, <2>1, <2>3
      <3>2. QED
        BY <1>2, <3>1 DEF Loaded
    <2>4. QED
      BY <2>2, <2>3
  <1>12. (WholeWeights /\ Loaded)'
    <2> SUFFICES ASSUME Ppo
                 PROVE  (WholeWeights /\ Loaded)'
      BY <1>4 DEF WholeWeights, Loaded, Ppo
    <2>1. version = step
      BY DEF Versions
    <2>2. WholeWeights'
      BY <1>1, <1>2, <1>4, <1>5, <1>11, <2>1 DEF WholeWeights, Ppo, TypeOK
    <2>3. Loaded'
      BY <1>1, <1>2, <1>4, <1>5, <1>11 DEF Loaded, Ppo, TypeOK
    <2>4. QED
      BY <2>2, <2>3
  <1>13. NotNewer'
    <2>1. \A q \in Ranks : rversion'[q] \in Nat /\ rversion'[q] <= version
      BY <1>4, <1>7, <1>10 DEF Versions, TypeOK, Ppo
    <2>2. \A b \in 1..Buckets : rversion'[r] <= weights'[r][b]
      <3>1. CASE Ppo /\ i = Buckets
        <4>1. version = step
          BY <3>1 DEF Versions
        <4>2. QED
          BY <1>1, <1>11, <2>1, <3>1, <4>1
      <3>2. CASE Ppo /\ i # Buckets
        <4>1. rversion'[r] = rversion[r] /\ version = step /\ rversion[r] <= version
          BY <1>4, <3>2 DEF TypeOK, Versions
        <4>2. \A b \in 1..Buckets : weights'[r][b] = IF b = i THEN w ELSE weights[r][b]
          BY <1>1, <1>4 DEF TypeOK
        <4>3. QED
          BY <1>2, <3>2, <4>1, <4>2 DEF NotNewer
      <3>3. CASE ~Ppo
        <4>1. version = 0
          BY <3>3 DEF Versions
        <4>2. \A b \in 1..Buckets : weights'[r][b] \in Nat
          BY <1>7 DEF TypeOK
        <4>3. QED
          BY <2>1, <4>1, <4>2
      <3>4. QED
        BY <3>1, <3>2, <3>3
    <2>3. QED
      BY <1>4, <2>2 DEF NotNewer, TypeOK
  <1>14. QED
    BY <1>7, <1>8, <1>9, <1>10, <1>12, <1>13

\* The invariant of sending and receiving holds in every reachable state.
THEOREM SyncHolds == Spec => []SyncInv
  <1>1. Init => SyncInv
    BY SyncInit
  <1>2. SyncInv /\ [Next]_vars => SyncInv'
    BY SyncStutter, SyncGenerates, SyncBeginUnit, SyncModelStep, RequestModelStep, SyncRecvTrajectories,
       SyncRunTraining, SyncUpdateWeights, SyncRequestWeights, SyncReturns, SyncSendBucket,
       SyncTransfer, SyncLoadBucket
       DEF Next, Runner, Receive, Generate
  <1>3. QED
    BY <1>1, <1>2, PTL DEF Spec

\* The bucket that a rank receives is always the one that its apply expects, and the actor never
\* sends to a rank that is not going to receive.
THEOREM PairedHolds == Spec => []Paired
  <1>1. SyncInv => Paired
    <2> SUFFICES ASSUME SyncInv
                 PROVE  Heard
      BY DEF SyncInv, Paired
    <2>1. Buckets \in Nat \ {0} /\ sending \in 0..Buckets
      BY ConfigFacts DEF SyncInv, TypeOK
    <2>2. QED
      BY <2>1 DEF SyncInv, Heard, Receiving, Waiting, Given
  <1>2. QED
    BY <1>1, SyncHolds, PTL

\* A rank that has received all buckets has, with PPO, the weights of the version it says, and a
\* prediction is never stamped newer than the weights it was made with.
THEOREM WeightsRightHolds == Spec => []WeightsRight
  <1>1. SyncInv => WeightsRight
    BY DEF SyncInv, WeightsRight, NotNewer, StampsNotNewer
  <1>2. QED
    BY <1>1, SyncHolds, PTL

-----------------------------------------------------------------------------
(* How old a trajectory can be.  The trajectories in the channel do not    *)
(* say of which rank they are; the invariant says that they can be         *)
(* attributed: a unit <<r, k>> is the k-th that rank r makes.              *)

\* staleness_threshold means something, and bounds.
Bounded == Ppo /\ cfg.threshold # NoThreshold

Units == Ranks \X (Nat \ {0})

(* Batches that training has taken, and units of a rank that are put.      *)
Taken == step - cfg.start + IF at = "train" THEN 1 ELSE 0
Put(r) == episodes[r] - cfg.start - IF finished[r] THEN 1 ELSE 0

(* A rank makes the unit after those it has made, and is at most the       *)
(* threshold ahead of the version that it generates with.                  *)
Making(r) ==
  /\ gen[r] = "idle" => step = cfg.start /\ at \in {"update", "sync"} /\ ~finished[r]
  /\ gen[r] # "idle" \/ work[r] = "done" => episodes[r] # NoEpisodes
  /\ episodes[r] # NoEpisodes => episodes[r] >= cfg.start
  /\ gen[r] = "epoch" => episodes[r] <= cfg.threshold + rversion[r]
  /\ gen[r] = "epoch" /\ chunk[r] > 0 => ~finished[r] /\ episodes[r] <= cfg.threshold + stamp[r]
  /\ finished[r] => episodes[r] > cfg.start /\ episodes[r] - 1 <= cfg.threshold + stamp[r]
  /\ stamp[r] <= version

(* The trajectories in the channel are of the units q, those that training *)
(* has taken of the units C: as many as make its batches, none of them     *)
(* begun with a later version than the last batch, and for each rank the   *)
(* earlier ones.                                                           *)
Attribution(q, C) ==
  /\ IsFiniteSet(C) /\ Cardinality(C) = Cardinality(Ranks) * Taken
  /\ \A u \in C : u[2] <= cfg.threshold + Taken /\ u[2] <= Put(u[1])
  /\ \A j \in 1..Len(queue) :
       /\ queue[j] <= version /\ q[j][2] <= cfg.threshold + queue[j] + 1 - cfg.start
       /\ q[j][2] <= Put(q[j][1])
       /\ \A u \in C : u[1] = q[j][1] => u[2] < q[j][2]
       /\ \A i \in 1..(j - 1) : q[i][1] = q[j][1] => q[i][2] < q[j][2]

Attributed == \E q \in [1..Len(queue) -> Units], C \in SUBSET Units : Attribution(q, C)

StaleInv == Bounded => (\A r \in Ranks : Making(r)) /\ Attributed /\ StaleWithin

\* Units of finitely many ranks that are among the first m of each, and for one rank among the
\* first k, are not more than that.
LEMMA UnitsBound ==
  ASSUME NEW C \in SUBSET Units, NEW r \in Ranks, NEW m \in Nat, NEW k \in Nat, IsFiniteSet(Ranks),
         \A u \in C : u[2] <= m /\ (u[1] = r => u[2] <= k)
  PROVE  Cardinality(C) <= (Cardinality(Ranks) - 1) * m + k
  <1> DEFINE Others == (Ranks \ {r}) \X (1..m)
             Own == {r} \X (1..k)
  <1>1. IsFiniteSet(Ranks \ {r}) /\ Cardinality(Ranks \ {r}) = Cardinality(Ranks) - 1
    BY FS_RemoveElement
  <1>2. \A a \in Nat : IsFiniteSet(1..a) /\ Cardinality(1..a) = a
    <2>1. \A a \in Nat : IsFiniteSet(1..a) /\ Cardinality(1..a) = IF 1 > a THEN 0 ELSE a - 1 + 1
      BY FS_Interval
    <2>2. QED
      BY <2>1
  <1>3. IsFiniteSet(Others) /\ Cardinality(Others) = (Cardinality(Ranks) - 1) * m
    <2> DEFINE S == Ranks \ {r}
               T == 1..m
    <2>1. IsFiniteSet(S) /\ Cardinality(S) = Cardinality(Ranks) - 1 /\ IsFiniteSet(T) /\ Cardinality(T) = m
      BY <1>1, <1>2
    <2> HIDE DEF S, T
    <2>2. IsFiniteSet(S \X T) /\ Cardinality(S \X T) = (Cardinality(Ranks) - 1) * m
      BY <2>1, FS_Product
    <2>3. QED
      BY <2>2 DEF S, T
  <1>4. IsFiniteSet(Own) /\ Cardinality(Own) = k
    <2>1. IsFiniteSet({r}) /\ Cardinality({r}) = 1
      BY FS_Singleton
    <2> DEFINE S == {r}
               T == 1..k
    <2>2. IsFiniteSet(S) /\ Cardinality(S) = 1 /\ IsFiniteSet(T) /\ Cardinality(T) = k
      BY <1>2, <2>1
    <2> HIDE DEF S, T
    <2>3. IsFiniteSet(S \X T) /\ Cardinality(S \X T) = 1 * k
      BY <2>2, FS_Product
    <2>4. QED
      BY <2>3 DEF S, T
  <1>5. C \subseteq Others \cup Own
    BY DEF Units
  <1> HIDE DEF Others, Own
  <1>6. /\ IsFiniteSet(Others \cup Own)
        /\ Cardinality(Others \cup Own) = Cardinality(Others) + Cardinality(Own) - Cardinality(Others \cap Own)
    BY <1>3, <1>4, FS_Union
  <1>7. Cardinality(C) <= Cardinality(Others \cup Own) /\ IsFiniteSet(C)
    BY <1>5, <1>6, FS_Subset
  <1>8. Cardinality(Others \cap Own) \in Nat /\ Cardinality(C) \in Nat
        /\ Cardinality(Others) \in Nat /\ Cardinality(Own) \in Nat
    BY <1>3, <1>4, <1>7, FS_Intersection, FS_CardinalityType
  <1>9. Cardinality(C) <= Cardinality(Others) + Cardinality(Own)
    BY <1>6, <1>7, <1>8
  <1>10. QED
    BY <1>3, <1>4, <1>9

\* Taking the first n of a sequence of units, which are different and new, makes n more.
LEMMA UnitsTaken ==
  ASSUME NEW C, IsFiniteSet(C), NEW n \in Nat, NEW q,
         \A j \in 1..n : q[j] \notin C,
         \A i, j \in 1..n : q[i] = q[j] => i = j
  PROVE  /\ IsFiniteSet(C \cup {q[j] : j \in 1..n})
         /\ Cardinality(C \cup {q[j] : j \in 1..n}) = Cardinality(C) + n
  <1> DEFINE D == {q[j] : j \in 1..n}
             f == [j \in 1..n |-> q[j]]
  <1>1. f \in Bijection(1..n, D)
    BY DEF Bijection, Injection, Surjection, IsInjective
  <1>2. ExistsBijection(1..n, D)
    BY <1>1 DEF ExistsBijection
  <1>3. IsFiniteSet(1..n) /\ Cardinality(1..n) = n
    BY FS_Interval
  <1>4. IsFiniteSet(D) /\ Cardinality(D) = n
    <2> HIDE DEF D
    <2>1. QED
      BY <1>2, <1>3, FS_Bijection
  <1>5. C \cap D = {}
    OBVIOUS
  <1> HIDE DEF D
  <1>6. IsFiniteSet(C \cup D) /\ Cardinality(C \cup D) = Cardinality(C) + n - 0
    BY <1>4, <1>5, FS_Union, FS_EmptySet
  <1>7. Cardinality(C) \in Nat
    BY FS_CardinalityType
  <1>8. QED
    BY <1>6, <1>7 DEF D

\* The numbers of a bounded configuration.
LEMMA BoundedFacts ==
  ASSUME SyncInv, Bounded
  PROVE  /\ ~cfg.no_wait /\ cfg.threshold \in Nat /\ cfg.start \in Nat
         /\ Cardinality(Ranks) \in Nat /\ IsFiniteSet(Ranks)
         /\ step \in Nat /\ step >= cfg.start /\ version = step /\ queue \in Seq(Nat)
         /\ \A r \in Ranks : /\ rversion[r] \in Nat /\ rversion[r] <= version /\ stamp[r] \in Nat
                             /\ episodes[r] \in Int /\ finished[r] \in BOOLEAN
                             /\ (episodes[r] = NoEpisodes \/ episodes[r] \in Nat)
  <1>1. cfg \in Configs
    BY DEF SyncInv, TypeOK
  <1>2. ~cfg.no_wait /\ cfg.threshold \in Nat /\ cfg.start \in Nat /\ IsFiniteSet(Ranks) /\ cfg.steps \in Nat
    BY <1>1, ConfigFacts DEF Bounded, Ppo
  <1>3. Cardinality(Ranks) \in Nat
    BY <1>2, FS_CardinalityType
  <1>4. step \in Nat /\ step >= cfg.start /\ version = step
    BY <1>2 DEF SyncInv, TypeOK, MaxStep, Versions, Bounded
  <1>5. QED
    BY <1>2, <1>3, <1>4 DEF SyncInv, TypeOK, Versions, NoEpisodes

\* The first states.
LEMMA StaleInit ==
  ASSUME Init
  PROVE  StaleInv
  <1> SUFFICES ASSUME Bounded
               PROVE  (\A r \in Ranks : Making(r)) /\ Attributed /\ StaleWithin
    BY DEF StaleInv
  <1>1. SyncInv
    BY SyncInit
  <1>2. Cardinality(Ranks) \in Nat /\ Taken = 0
    BY <1>1, BoundedFacts DEF Init, Taken
  <1>3. \A r \in Ranks : Making(r)
    BY <1>1, BoundedFacts DEF Making, Init
  <1>4. Attribution([j \in 1..Len(queue) |-> 0], {})
    BY <1>2, FS_EmptySet DEF Attribution, Init
  <1>5. [j \in 1..Len(queue) |-> 0] \in [1..Len(queue) -> Units]
    BY DEF Init
  <1>6. QED
    BY <1>3, <1>4, <1>5 DEF Attributed, StaleWithin, Init

\* Units stay attributed while nothing is put or taken.
LEMMA AttributedFrame ==
  ASSUME SyncInv, Bounded, Attributed, UNCHANGED <<cfg, step, version, queue>>,
         at = "train" <=> at' = "train", \A r \in Ranks : Put(r)' >= Put(r) /\ Put(r)' \in Int /\ Put(r) \in Int
  PROVE  Attributed'
  <1>1. PICK q \in [1..Len(queue) -> Units], C \in SUBSET Units : Attribution(q, C)
    BY DEF Attributed
  <1>2. Taken' = Taken
    BY DEF Taken
  <1>3. /\ \A u \in C : u[2] \in Int /\ u[1] \in Ranks
        /\ \A j \in 1..Len(queue) : q[j][2] \in Int /\ q[j][1] \in Ranks
    BY DEF Units
  <1>4. /\ \A u \in C : u[2] <= Put(u[1])'
        /\ \A j \in 1..Len(queue) : q[j][2] <= Put(q[j][1])'
    BY <1>1, <1>3 DEF Attribution
  <1>5. Attribution(q, C)'
    BY <1>1, <1>2, <1>4 DEF Attribution
  <1>6. QED
    BY <1>5 DEF Attributed

\* Steps that neither put nor take trajectories, nor change how many units are made.
LEMMA StaleQuiet ==
  ASSUME SyncInv, StaleInv, Bounded, UNCHANGED <<cfg, step, version, queue, batch, episodes, finished>>,
         at' = "train" <=> at = "train", \A r \in Ranks : Making(r)'
  PROVE  StaleInv'
  <1>1. \A r \in Ranks : Put(r)' >= Put(r) /\ Put(r)' \in Int /\ Put(r) \in Int
    BY BoundedFacts DEF Put
  <1>2. Attributed'
    BY <1>1, AttributedFrame DEF StaleInv
  <1>3. StaleWithin'
    BY DEF StaleInv, StaleWithin
  <1>4. QED
    BY <1>2, <1>3 DEF StaleInv

\* Rollout begins with the weights of the first step.
LEMMA StaleRunner ==
  ASSUME SyncInv, StaleInv, Bounded,
         UpdateWeights \/ UpdateWeightsReturns \/ RequestWeights
  PROVE  StaleInv'
  <1> USE DEF sync, receiver, generator, actor
  <1>1. CASE UpdateWeights
    <2>1. \A r \in Ranks : Making(r)'
      BY <1>1 DEF UpdateWeights, StaleInv, Making
    <2>2. QED
      BY <1>1, <2>1, StaleQuiet DEF UpdateWeights
  <1>2. CASE UpdateWeightsReturns
    <2>1. at' # "train" /\ at = "sync"
      BY <1>2 DEF UpdateWeightsReturns, Continue, Bounded
    <2>2. \A r \in Ranks : Making(r)'
      <3> SUFFICES ASSUME NEW r \in Ranks
                   PROVE  Making(r)'
        OBVIOUS
      <3>1. Making(r) /\ work[r] = "done"
        BY <1>2 DEF StaleInv, UpdateWeightsReturns
      <3>2. gen'[r] # "idle" /\ (gen'[r] = "epoch" => gen[r] = "epoch")
        BY <1>2 DEF UpdateWeightsReturns, Continue
      <3>3. UNCHANGED <<cfg, step, rversion, episodes, chunk, stamp, finished, version>>
        BY <1>2 DEF UpdateWeightsReturns
      <3>4. QED
        BY <3>1, <3>2, <3>3 DEF Making
    <2>3. QED
      BY <1>2, <2>1, <2>2, StaleQuiet DEF UpdateWeightsReturns
  <1>3. CASE RequestWeights
    BY <1>3, BoundedFacts DEF RequestWeights
  <1>4. QED
    BY <1>1, <1>2, <1>3

\* What is on its way has no part in the units.
LEMMA StaleReceives ==
  ASSUME SyncInv, StaleInv, Bounded, NEW r \in Ranks,
         SendBucket \/ Transfer(r) \/ SyncModelFromActor(r) \/ RequestActorSyncModel(r)
  PROVE  StaleInv'
  <1> USE DEF sync, receiver, generator, actor, runner
  <1>1. CASE SendBucket \/ Transfer(r) \/ SyncModelFromActor(r)
    <2>1. \A p \in Ranks : work'[p] = "done" => work[p] = "done"
      BY <1>1 DEF SendBucket, Transfer, SyncModelFromActor, SyncInv, TypeOK
    <2>2. UNCHANGED <<cfg, at, step, version, queue, batch, generator, rversion>>
      BY <1>1 DEF SendBucket, Transfer, SyncModelFromActor
    <2>3. \A p \in Ranks : Making(p)'
      BY <2>1, <2>2 DEF StaleInv, Making
    <2>4. QED
      BY <2>2, <2>3, StaleQuiet
  <1>2. CASE RequestActorSyncModel(r)
    BY <1>2, BoundedFacts DEF RequestActorSyncModel
  <1>3. QED
    BY <1>1, <1>2

\* The first weights say where a rank begins to count: at the first step.
LEMMA StaleLoadBucket ==
  ASSUME SyncInv, SyncInv', StaleInv, Bounded, NEW r \in Ranks, LoadBucket(r)
  PROVE  StaleInv'
  <1> USE DEF sync, generator, actor, runner
  <1>1. UNCHANGED <<cfg, at, step, version, queue, batch, gen, chunk, stamp, finished>>
    BY DEF LoadBucket
  <1>2. /\ version = step /\ version \in Nat /\ cfg.start \in Nat /\ step >= cfg.start /\ inbox[r].version = version
        /\ rversion[r] \in Nat /\ rversion[r] <= version /\ episodes[r] \in Int
    BY BoundedFacts DEF SyncInv, Versions, LoadBucket
  <1>3. rversion'[r] \in {rversion[r], version}
    BY <1>2 DEF LoadBucket, VersionAfterLast, SyncInv, TypeOK
  <1>4. AllBuckets(r) => rversion'[r] = version
    BY <1>2 DEF LoadBucket, VersionAfterLast, SyncInv, TypeOK
  <1>5. \/ episodes'[r] = episodes[r] /\ (work'[r] = "done" => episodes[r] # NoEpisodes)
        \/ episodes[r] = NoEpisodes /\ episodes'[r] = version
    <2>1. CASE AllBuckets(r)
      BY <1>4, <2>1 DEF LoadBucket, SyncInv, TypeOK
    <2>2. CASE ~AllBuckets(r)
      BY <2>2 DEF LoadBucket, SyncInv, Receiving
    <2>3. QED
      BY <2>1, <2>2
  <1>6. Making(r)'
    <2>1. Making(r) /\ NoEpisodes = -1
      BY DEF StaleInv, NoEpisodes
    <2>2. CASE episodes'[r] = episodes[r] /\ (work'[r] = "done" => episodes[r] # NoEpisodes)
      BY <1>1, <1>2, <1>3, <2>1, <2>2, BoundedFacts DEF Making
    <2>3. CASE episodes[r] = NoEpisodes /\ episodes'[r] = version
      BY <1>1, <1>2, <2>1, <2>3 DEF Making
    <2>4. QED
      BY <1>5, <2>2, <2>3
  <1>7. \A p \in Ranks : p # r => /\ rversion'[p] = rversion[p] /\ episodes'[p] = episodes[p]
                                  /\ work'[p] = work[p]
    <2>1. CASE AllBuckets(r)
      BY <2>1 DEF LoadBucket, SyncInv, TypeOK
    <2>2. CASE ~AllBuckets(r)
      BY <2>2 DEF LoadBucket, SyncInv, TypeOK
    <2>3. QED
      BY <2>1, <2>2
  <1>8. \A p \in Ranks : Making(p)'
    <2>1. \A p \in Ranks : p # r => Making(p)'
      BY <1>1, <1>7 DEF StaleInv, Making
    <2>2. QED
      BY <1>6, <2>1
  <1>9. \A p \in Ranks : Put(p)' >= Put(p) /\ Put(p)' \in Int /\ Put(p) \in Int
    <2>1. \A p \in Ranks : episodes'[p] >= episodes[p] /\ episodes[p] \in Int /\ episodes'[p] \in Int
      BY <1>2, <1>5, <1>7, BoundedFacts DEF NoEpisodes
    <2>2. QED
      BY <1>1, <1>2, <2>1 DEF Put
  <1>10. Attributed'
    BY <1>1, <1>9, AttributedFrame DEF StaleInv
  <1>11. StaleWithin'
    BY <1>1 DEF StaleInv, StaleWithin
  <1>12. QED
    BY <1>8, <1>10, <1>11 DEF StaleInv

\* A unit is begun when the threshold allows it, and stamped with the first prediction.
LEMMA StaleGenerates ==
  ASSUME SyncInv, StaleInv, Bounded, NEW r \in Ranks,
         BeginUnit(r) \/ Predict(r) \/ Stop(r)
  PROVE  StaleInv'
  <1> USE DEF sync, receiver, actor, runner
  <1>1. UNCHANGED <<cfg, at, step, version, queue, batch, rversion, episodes, finished>>
    BY DEF BeginUnit, Predict, Stop, Poll
  <1>2. /\ cfg.threshold \in Nat /\ rversion[r] \in Nat /\ rversion[r] <= version /\ episodes[r] \in Int
        /\ ~cfg.no_wait
    BY BoundedFacts
  <1>3. \A p \in Ranks : work'[p] = work[p]
    BY <1>2 DEF BeginUnit, Predict, Stop, Poll
  <1>4. \A p \in Ranks : p # r => gen'[p] = gen[p] /\ chunk'[p] = chunk[p] /\ stamp'[p] = stamp[p]
    BY DEF BeginUnit, Predict, Stop, SyncInv, TypeOK
  <1>5. Making(r)'
    <2>1. Making(r)
      BY DEF StaleInv
    <2>2. CASE BeginUnit(r)
      <3>1. gen[r] = "loop" /\ gen'[r] = "epoch" /\ chunk'[r] = 0 /\ stamp'[r] = stamp[r]
        BY <2>2 DEF BeginUnit, SyncInv, TypeOK
      <3>2. episodes[r] <= cfg.threshold + rversion[r]
        BY <1>2, <2>2 DEF BeginUnit, Capacity, Bounded
      <3>3. QED
        BY <1>1, <1>3, <2>1, <3>1, <3>2 DEF Making
    <2>3. CASE Predict(r)
      <3>1. gen[r] = "epoch" /\ gen'[r] = "epoch" /\ ~finished[r]
        BY <2>3 DEF Predict
      <3>2. stamp'[r] = IF chunk[r] = 0 THEN rversion[r] ELSE stamp[r]
        BY <2>3 DEF Predict, SyncInv, TypeOK
      <3>3. chunk[r] = 0 \/ chunk[r] > 0
        <4>1. cfg.chunks \in Nat /\ chunk[r] \in 0..cfg.chunks
          BY ConfigFacts DEF SyncInv, TypeOK
        <4>2. QED
          BY <4>1
      <3>4. QED
        BY <1>1, <1>2, <1>3, <2>1, <3>1, <3>2, <3>3 DEF Making
    <2>4. CASE Stop(r)
      <3>1. gen'[r] = "stopped" /\ chunk'[r] = chunk[r] /\ stamp'[r] = stamp[r] /\ gen[r] # "idle"
        BY <2>1, <2>4 DEF Stop, SyncInv, TypeOK, Making
      <3>2. QED
        BY <1>1, <1>3, <2>1, <3>1 DEF Making
    <2>5. QED
      BY <2>2, <2>3, <2>4
  <1>6. \A p \in Ranks : Making(p)'
    <2>1. \A p \in Ranks : p # r => Making(p)'
      BY <1>1, <1>3, <1>4 DEF StaleInv, Making
    <2>2. QED
      BY <1>5, <2>1
  <1>7. QED
    BY <1>1, <1>6, StaleQuiet

\* A unit that is complete counts, and is about to be put.
LEMMA StaleEndUnit ==
  ASSUME SyncInv, StaleInv, Bounded, NEW r \in Ranks, EndUnit(r)
  PROVE  StaleInv'
  <1> USE DEF sync, receiver, actor, runner
  <1>1. UNCHANGED <<cfg, at, step, version, queue, batch, rversion, work, chunk, stamp>>
    BY DEF EndUnit
  <1>2. \A p \in Ranks : p # r => gen'[p] = gen[p] /\ finished'[p] = finished[p] /\ episodes'[p] = episodes[p]
    BY DEF EndUnit, SyncInv, TypeOK
  <1>3. gen[r] = "epoch" /\ chunk[r] > 0
    <2>1. cfg.chunks \in Nat \ {0}
      BY ConfigFacts DEF SyncInv, TypeOK
    <2>2. QED
      BY <2>1 DEF EndUnit
  <1>4. /\ Making(r) /\ episodes[r] # NoEpisodes /\ episodes[r] >= cfg.start /\ ~finished[r]
        /\ episodes[r] <= cfg.threshold + stamp[r]
    BY <1>3 DEF StaleInv, Making
  <1>5. gen'[r] = "loop" /\ finished'[r] = TRUE /\ episodes'[r] = episodes[r] + 1
    BY <1>4 DEF EndUnit, SyncInv, TypeOK, Bounded
  <1>6. episodes[r] \in Nat /\ cfg.start \in Nat /\ cfg.threshold \in Nat /\ stamp[r] \in Nat /\ NoEpisodes = -1
    BY <1>4, BoundedFacts DEF NoEpisodes
  <1>7. Making(r)'
    BY <1>1, <1>4, <1>5, <1>6 DEF Making
  <1>8. \A p \in Ranks : Making(p)'
    <2>1. \A p \in Ranks : p # r => Making(p)'
      BY <1>1, <1>2 DEF StaleInv, Making
    <2>2. QED
      BY <1>7, <2>1
  <1>9. \A p \in Ranks : Put(p)' >= Put(p) /\ Put(p)' \in Int /\ Put(p) \in Int
    <2>1. \A p \in Ranks : Put(p)' = Put(p)
      BY <1>1, <1>2, <1>4, <1>5, <1>6 DEF Put
    <2>2. \A p \in Ranks : Put(p) \in Int
      BY BoundedFacts DEF Put
    <2>3. QED
      BY <2>1, <2>2
  <1>10. Attributed'
    BY <1>1, <1>9, AttributedFrame DEF StaleInv
  <1>11. StaleWithin'
    BY <1>1 DEF StaleInv, StaleWithin
  <1>12. QED
    BY <1>8, <1>10, <1>11 DEF StaleInv

\* A trajectory that is put is of the unit after those that the rank has put.
LEMMA StaleSendTrajectory ==
  ASSUME SyncInv, StaleInv, Bounded, NEW r \in Ranks, SendTrajectory(r)
  PROVE  StaleInv'
  <1> USE DEF sync, receiver, actor, runner
  <1>1. UNCHANGED <<cfg, at, step, version, batch, rversion, work, gen, chunk, stamp, episodes>>
    BY DEF SendTrajectory
  <1>2. finished[r] /\ finished' = [finished EXCEPT ![r] = FALSE] /\ queue' = Append(queue, stamp[r])
    BY DEF SendTrajectory, Bounded
  <1>3. \A p \in Ranks : finished'[p] = (p # r /\ finished[p])
    BY <1>2 DEF SyncInv, TypeOK
  <1>4. \A p \in Ranks : Making(p)'
    BY <1>1, <1>2, <1>3 DEF StaleInv, Making
  <1>5. /\ Making(r) /\ episodes[r] > cfg.start /\ episodes[r] - 1 <= cfg.threshold + stamp[r]
        /\ stamp[r] <= version
    BY <1>2 DEF StaleInv, Making
  <1> DEFINE k == episodes[r] - cfg.start
  <1>6. /\ k \in Nat \ {0} /\ k <= cfg.threshold + stamp[r] + 1 - cfg.start
        /\ stamp[r] \in Nat /\ version \in Nat /\ queue \in Seq(Nat)
        /\ Put(r) = k - 1 /\ Put(r)' = k
    <2>1. /\ cfg.start \in Nat /\ episodes[r] \in Int /\ stamp[r] \in Nat /\ version \in Nat
          /\ queue \in Seq(Nat) /\ cfg.threshold \in Nat
      BY BoundedFacts
    <2>2. finished[r] /\ ~finished'[r] /\ episodes'[r] = episodes[r] /\ cfg' = cfg
      BY <1>1, <1>2, <1>3
    <2>3. Put(r) = k - 1 /\ Put(r)' = k
      BY <2>1, <2>2 DEF Put
    <2>4. QED
      BY <1>5, <2>1, <2>3
  <1> HIDE DEF k
  <1>7. \A p \in Ranks : Put(p) \in Int /\ Put(p)' \in Int /\ Put(p)' >= Put(p)
    <2>1. \A p \in Ranks : p # r => Put(p)' = Put(p)
      BY <1>1, <1>3 DEF Put
    <2>2. \A p \in Ranks : Put(p) \in Int
      BY BoundedFacts DEF Put
    <2>3. QED
      BY <1>6, <2>1, <2>2
  <1>8. PICK q \in [1..Len(queue) -> Units], C \in SUBSET Units : Attribution(q, C)
    BY DEF StaleInv, Attributed
  <1>9. /\ Len(queue) \in Nat /\ Len(queue') = Len(queue) + 1 /\ queue'[Len(queue) + 1] = stamp[r]
        /\ \A j \in 1..Len(queue) : queue'[j] = queue[j]
    BY <1>2, <1>6
  <1>10. PICK qq \in [1..Len(queue') -> Units] :
           /\ \A j \in 1..Len(queue) : qq[j] = q[j]
           /\ qq[Len(queue) + 1] = <<r, k>>
    <2> DEFINE w == [j \in 1..(Len(queue) + 1) |-> IF j = Len(queue) + 1 THEN <<r, k>> ELSE q[j]]
    <2>1. <<r, k>> \in Units
      BY <1>6 DEF Units
    <2>2. w \in [1..Len(queue') -> Units]
      BY <1>9, <2>1
    <2>3. (\A j \in 1..Len(queue) : w[j] = q[j]) /\ w[Len(queue) + 1] = <<r, k>>
      BY <1>9
    <2>4. QED
      BY <2>2, <2>3
  <1>11. /\ \A u \in C : u[2] \in Nat /\ u[1] \in Ranks
         /\ \A j \in 1..Len(queue) : q[j][2] \in Nat /\ q[j][1] \in Ranks
    BY DEF Units
  <1>12. Taken' = Taken
    BY <1>1 DEF Taken
  <1>13. \A u \in C : u[2] <= cfg.threshold + Taken /\ u[2] <= Put(u[1])'
    BY <1>7, <1>8, <1>11 DEF Attribution
  <1>14. ASSUME NEW j \in 1..Len(queue')
         PROVE  /\ queue'[j] <= version' /\ qq[j][2] <= cfg'.threshold + queue'[j] + 1 - cfg'.start
                /\ qq[j][2] <= Put(qq[j][1])'
                /\ \A u \in C : u[1] = qq[j][1] => u[2] < qq[j][2]
                /\ \A i \in 1..(j - 1) : qq[i][1] = qq[j][1] => qq[i][2] < qq[j][2]
    <2>1. CASE j \in 1..Len(queue)
      <3>1. qq[j] = q[j] /\ queue'[j] = queue[j] /\ \A i \in 1..(j - 1) : qq[i] = q[i]
        BY <1>9, <1>10, <2>1
      <3>2. q[j][2] <= Put(q[j][1])'
        BY <1>7, <1>8, <1>11, <2>1 DEF Attribution
      <3>3. /\ queue[j] <= version /\ q[j][2] <= cfg.threshold + queue[j] + 1 - cfg.start
            /\ \A u \in C : u[1] = q[j][1] => u[2] < q[j][2]
            /\ \A i \in 1..(j - 1) : q[i][1] = q[j][1] => q[i][2] < q[j][2]
        BY <1>8, <2>1 DEF Attribution
      <3>4. QED
        BY <1>1, <3>1, <3>2, <3>3
    <2>2. CASE j = Len(queue) + 1
      <3>1. qq[j] = <<r, k>> /\ queue'[j] = stamp[r] /\ \A i \in 1..(j - 1) : qq[i] = q[i]
        BY <1>9, <1>10, <2>2
      <3>2. \A u \in C : u[1] = r => u[2] < k
        BY <1>6, <1>8, <1>11 DEF Attribution
      <3>3. \A i \in 1..Len(queue) : q[i][1] = r => q[i][2] < k
        BY <1>6, <1>8, <1>11 DEF Attribution
      <3>4. 1..(j - 1) = 1..Len(queue)
        BY <1>9, <2>2
      <3>5. qq[j][1] = r /\ qq[j][2] = k
        BY <3>1
      <3>6. queue'[j] <= version' /\ qq[j][2] <= cfg'.threshold + queue'[j] + 1 - cfg'.start
            /\ qq[j][2] <= Put(qq[j][1])'
        BY <1>1, <1>5, <1>6, <3>1, <3>5
      <3>7. QED
        BY <3>1, <3>2, <3>3, <3>4, <3>5, <3>6
    <2>3. QED
      BY <1>9, <2>1, <2>2
  <1>15. Attribution(qq, C)'
    BY <1>1, <1>8, <1>12, <1>13, <1>14 DEF Attribution
  <1>16. Attributed'
    BY <1>10, <1>15 DEF Attributed
  <1>17. StaleWithin'
    BY <1>1 DEF StaleInv, StaleWithin
  <1>18. QED
    BY <1>4, <1>16, <1>17 DEF StaleInv

\* A training step is of the batch that was taken.
LEMMA StaleRunTraining ==
  ASSUME SyncInv, StaleInv, Bounded, RunTraining
  PROVE  StaleInv'
  <1> USE DEF sync, receiver, generator
  <1>1. /\ at = "train" /\ at' = "update" /\ step' = step + 1 /\ version' = step + 1
        /\ UNCHANGED <<cfg, queue, rversion, work, gen, chunk, stamp, episodes, finished>>
    BY DEF RunTraining, Bounded, Ppo
  <1>2. version = step /\ step \in Nat /\ cfg.start \in Nat /\ cfg.threshold \in Nat /\ queue \in Seq(Nat)
    BY BoundedFacts
  <1>3. Taken' = Taken
    BY <1>1, <1>2 DEF Taken
  <1>4. \A r \in Ranks : Making(r)'
    <2> SUFFICES ASSUME NEW r \in Ranks
                 PROVE  Making(r)'
      OBVIOUS
    <2>1. Making(r) /\ stamp[r] \in Nat
      BY BoundedFacts DEF StaleInv
    <2>2. QED
      BY <1>1, <1>2, <2>1 DEF Making
  <1>5. PICK q \in [1..Len(queue) -> Units], C \in SUBSET Units : Attribution(q, C)
    BY DEF StaleInv, Attributed
  <1>6. \A j \in 1..Len(queue) : queue[j] <= version'
    <2>1. \A j \in 1..Len(queue) : queue[j] <= version /\ queue[j] \in Nat
      BY <1>2, <1>5 DEF Attribution
    <2>2. QED
      BY <1>1, <1>2, <2>1
  <1>7. \A r : Put(r)' = Put(r)
    BY <1>1 DEF Put
  <1>8. Attribution(q, C)'
    BY <1>1, <1>3, <1>5, <1>6, <1>7 DEF Attribution
  <1>9. Attributed'
    BY <1>1, <1>5, <1>8 DEF Attributed
  <1>10. StaleWithin'
    BY <1>1 DEF StaleWithin
  <1>11. QED
    BY <1>4, <1>9, <1>10 DEF StaleInv

\* The arithmetic of the next lemma: n * t units that are bounded so leave at most n * h between.
LEMMA AgeBound ==
  ASSUME NEW n \in Nat, NEW t \in Nat, NEW h \in Nat, NEW k \in Nat, NEW d \in Int,
         n * t <= (n - 1) * (h + t) + k, k <= h + d
  PROVE  t - d <= h * n
  <1>1. (n - 1) * (h + t) = n * (h + t) - (h + t)
    OBVIOUS
  <1>2. n * (h + t) = n * h + n * t /\ n * h = h * n
    OBVIOUS
  <1>3. n * t \in Int /\ h * n \in Int
    OBVIOUS
  <1>4. n * t <= h * n + n * t - (h + t) + k
    BY <1>1, <1>2
  <1>5. QED
    BY <1>3, <1>4

\* The batch: what training had before is of units that were begun with an older version, so
\* that a rank whose unit comes only now would have too many before it, were it older.
LEMMA StaleRecvTrajectories ==
  ASSUME SyncInv, StaleInv, Bounded, RecvTrajectories
  PROVE  StaleInv'
  <1> USE DEF sync, receiver, generator
  <1> DEFINE n == Cardinality(Ranks)
             thr == cfg.threshold
  <1>1. /\ at = "recv" /\ at' = "train"
        /\ UNCHANGED <<cfg, step, version, rversion, work, gen, chunk, stamp, episodes, finished>>
    BY DEF RecvTrajectories
  <1>2. /\ version = step /\ step \in Nat /\ cfg.start \in Nat /\ thr \in Nat /\ queue \in Seq(Nat)
        /\ n \in Nat /\ IsFiniteSet(Ranks) /\ step >= cfg.start
    BY BoundedFacts
  <1>3. Taken \in Nat /\ Taken' = Taken + 1
    BY <1>1, <1>2 DEF Taken
  <1>0. Taken = step - cfg.start
    BY <1>1, <1>2 DEF Taken
  <1> HIDE DEF n, thr
  <1>4. /\ Len(queue) >= n /\ Len(queue) \in Nat
        /\ queue' = SubSeq(queue, n + 1, Len(queue)) /\ batch' = ToSet(SubSeq(queue, 1, n))
    BY <1>2 DEF RecvTrajectories, n
  <1>5. /\ Len(queue') = Len(queue) - n
        /\ \A j \in 1..Len(queue') : queue'[j] = queue[j + n]
    BY <1>2, <1>4
  <1>6. \A s \in batch' : \E j \in 1..n : s = queue[j]
    BY <1>2, <1>4 DEF ToSet
  <1>7. \A r \in Ranks : Making(r)'
    BY <1>1 DEF StaleInv, Making
  <1>8. PICK q \in [1..Len(queue) -> Units], C \in SUBSET Units : Attribution(q, C)
    BY DEF StaleInv, Attributed
  <1>9. /\ \A u \in C : u \in Units /\ u[2] \in Nat /\ u[1] \in Ranks
        /\ \A j \in 1..Len(queue) : q[j] \in Units /\ q[j][2] \in Nat \ {0} /\ q[j][1] \in Ranks
        /\ \A j \in 1..Len(queue) : queue[j] \in Nat
    <2>1. \A u \in Units : u[2] \in Nat \ {0} /\ u[1] \in Ranks
      BY DEF Units
    <2>2. \A j \in 1..Len(queue) : q[j] \in Units
      BY <1>8
    <2>3. \A j \in 1..Len(queue) : queue[j] \in Nat
      BY <1>2
    <2> QED
      BY <2>1, <2>2, <2>3
  <1>10. StaleWithin'
    <2> SUFFICES ASSUME NEW s \in batch'
                 PROVE  version - s <= thr * n
      BY <1>1 DEF StaleWithin, n, thr
    <2>1. PICK j \in 1..n : s = queue[j]
      BY <1>6
    <2>2. j \in 1..Len(queue) /\ s \in Nat
      BY <1>2, <1>4, <1>9, <2>1
    <2> DEFINE r == q[j][1]
               k == q[j][2] - 1
               m == thr + Taken
    <2>3. r \in Ranks /\ k \in Nat /\ m \in Nat
      <3>1. q[j][1] \in Ranks /\ q[j][2] \in Nat \ {0}
        BY <1>9, <2>2
      <3>2. q[j][2] - 1 \in Nat /\ thr + Taken \in Nat
        BY <1>2, <1>3, <3>1
      <3>3. QED
        BY <3>1, <3>2
    <2>4. \A u \in C : u[2] <= m /\ (u[1] = r => u[2] <= k)
      <3>1. \A u \in C : u[2] <= m
        BY <1>8 DEF Attribution, thr
      <3>2. \A u \in C : u[1] = r => u[2] < q[j][2]
        BY <1>8, <2>2 DEF Attribution
      <3>3. QED
        BY <1>9, <2>2, <3>1, <3>2
    <2>5. k <= thr + s - cfg.start
      <3>1. q[j][2] <= thr + s + 1 - cfg.start
        BY <1>8, <2>1, <2>2 DEF Attribution, thr
      <3>2. q[j][2] \in Nat /\ cfg.start \in Nat
        BY <1>2, <1>9, <2>2
      <3>3. PICK x \in Nat, c \in Nat : x = q[j][2] /\ c = cfg.start
        BY <3>2
      <3>4. x - 1 <= thr + s - c
        <4>1. x <= thr + s + 1 - c /\ thr \in Nat /\ s \in Nat
          BY <1>2, <2>2, <3>1, <3>3
        <4>2. QED
          BY <4>1
      <3>5. QED
        BY <3>3, <3>4
    <2>6. Cardinality(C) = n * Taken
      BY <1>8 DEF Attribution, n
    <2> HIDE DEF r, k, m
    <2>7. n * Taken <= (n - 1) * m + k
      BY <1>2, <2>3, <2>4, <2>6, UnitsBound DEF n
    <2>8. n * Taken <= (n - 1) * (thr + Taken) + k /\ k <= thr + (s - cfg.start)
      BY <1>2, <2>2, <2>3, <2>5, <2>7 DEF m
    <2>9. Taken - (s - cfg.start) <= thr * n
      <3>1. s - cfg.start \in Int
        BY <1>2, <2>2
      <3>2. QED
        BY <1>2, <1>3, <2>3, <2>8, <3>1, AgeBound
    <2>10. version - s = Taken - (s - cfg.start)
      BY <1>0, <1>2, <2>2
    <2>11. QED
      BY <2>9, <2>10
  <1> DEFINE D == C \cup {q[j] : j \in 1..n}
  <1>11. PICK qq \in [1..Len(queue') -> Units] : \A j \in 1..Len(queue') : qq[j] = q[j + n]
    <2> DEFINE w == [j \in 1..Len(queue') |-> q[j + n]]
    <2>1. w \in [1..Len(queue') -> Units]
      BY <1>2, <1>4, <1>5, <1>9
    <2>2. \A j \in 1..Len(queue') : w[j] = q[j + n]
      OBVIOUS
    <2>3. QED
      BY <2>1, <2>2
  <1>12. 1..n \subseteq 1..Len(queue)
    BY <1>2, <1>4
  <1>13. IsFiniteSet(D) /\ Cardinality(D) = n * (Taken + 1)
    <2>1. \A j \in 1..n : q[j] \notin C
      BY <1>8, <1>9, <1>12 DEF Attribution
    <2>2. \A i, j \in 1..n : q[i] = q[j] => i = j
      <3>1. \A i, j \in 1..n : i < j => q[i] # q[j]
        <4> SUFFICES ASSUME NEW i \in 1..n, NEW j \in 1..n, i < j, q[i] = q[j]
                     PROVE  FALSE
          OBVIOUS
        <4>1. i \in 1..(j - 1) /\ j \in 1..Len(queue)
          BY <1>2, <1>12
        <4>2. q[i][2] < q[j][2]
          BY <1>8, <4>1 DEF Attribution
        <4>3. QED
          BY <1>9, <4>1, <4>2
      <3>2. \A i, j \in 1..n : i < j \/ j < i \/ i = j
        BY <1>2
      <3>3. QED
        BY <3>1, <3>2
    <2>3. IsFiniteSet(C) /\ Cardinality(C) = n * Taken
      BY <1>8 DEF Attribution, n
    <2>4. IsFiniteSet(D) /\ Cardinality(D) = n * Taken + n
      <3>0. IsFiniteSet(C) /\ n \in Nat
        BY <1>2, <2>3
      <3>1. IsFiniteSet(D) /\ Cardinality(D) = Cardinality(C) + n
        BY <2>1, <2>2, <3>0, UnitsTaken
      <3>2. QED
        BY <2>3, <3>1
    <2>5. n * (Taken + 1) = n * Taken + n
      BY <1>2, <1>3
    <2>6. QED
      BY <2>4, <2>5
  <1>14. PICK E \in SUBSET Units : E = D
    BY <1>9, <1>12
  <1>15. \A u \in E : u \in C \/ \E j \in 1..n : u = q[j]
    BY <1>14
  <1> HIDE DEF D
  <1>16. \A r : Put(r)' = Put(r)
    BY <1>1 DEF Put
  <1>17. \A u \in E : u[2] <= thr + Taken' /\ u[2] <= Put(u[1])
    <2> SUFFICES ASSUME NEW u \in E
                 PROVE  u[2] <= thr + Taken' /\ u[2] <= Put(u[1])
      OBVIOUS
    <2>1. CASE u \in C
      BY <1>2, <1>3, <1>8, <1>9, <2>1 DEF Attribution, thr
    <2>2. ASSUME NEW j \in 1..n, u = q[j]
          PROVE  u[2] <= thr + Taken' /\ u[2] <= Put(u[1])
      <3>1. /\ queue[j] <= version /\ q[j][2] <= thr + queue[j] + 1 - cfg.start /\ q[j][2] <= Put(q[j][1])
            /\ q[j][2] \in Nat /\ queue[j] \in Nat
        BY <1>8, <1>9, <1>12 DEF Attribution, thr
      <3>2. q[j][2] <= thr + (Taken + 1)
        <4> DEFINE x == q[j][2]
                   y == queue[j]
                   c == cfg.start
        <4>1. y <= step /\ x <= thr + y + 1 - c
          BY <1>2, <3>1
        <4>2. x \in Nat /\ y \in Nat /\ c \in Nat /\ thr \in Nat /\ step \in Nat
          BY <1>2, <3>1
        <4> HIDE DEF x, y, c
        <4>3. x <= thr + (step - c) + 1
          BY <4>1, <4>2
        <4>4. x <= thr + Taken + 1
          BY <1>0, <4>3 DEF c
        <4>5. QED
          BY <1>2, <1>3, <4>4 DEF x
      <3>3. QED
        BY <1>3, <2>2, <3>1, <3>2
    <2>3. QED
      BY <1>15, <2>1, <2>2
  <1>18. ASSUME NEW j \in 1..Len(queue')
         PROVE  /\ queue'[j] <= version /\ qq[j][2] <= thr + queue'[j] + 1 - cfg.start
                /\ qq[j][2] <= Put(qq[j][1])
                /\ \A u \in E : u[1] = qq[j][1] => u[2] < qq[j][2]
                /\ \A i \in 1..(j - 1) : qq[i][1] = qq[j][1] => qq[i][2] < qq[j][2]
    <2>0. j \in Nat /\ j >= 1 /\ j <= Len(queue) - n /\ Len(queue) \in Nat /\ n \in Nat
      BY <1>2, <1>4, <1>5
    <2>1. j + n \in 1..Len(queue) /\ queue'[j] = queue[j + n] /\ qq[j] = q[j + n]
      <3>1. j + n \in 1..Len(queue)
        BY <2>0
      <3>2. QED
        BY <3>1, <1>5, <1>11
    <2>2. \A i \in 1..(j - 1) : i + n \in 1..((j + n) - 1) /\ qq[i] = q[i + n]
      <3>1. \A i \in 1..(j - 1) : i + n \in 1..((j + n) - 1) /\ i \in 1..(Len(queue) - n)
        BY <2>0
      <3>2. QED
        BY <3>1, <1>5, <1>11
    <2>3. \A i \in 1..n : i \in 1..((j + n) - 1)
      BY <1>2, <1>4, <1>5
    <2>4. /\ queue[j + n] <= version /\ q[j + n][2] <= thr + queue[j + n] + 1 - cfg.start
          /\ q[j + n][2] <= Put(q[j + n][1])
          /\ \A u \in C : u[1] = q[j + n][1] => u[2] < q[j + n][2]
          /\ \A i \in 1..((j + n) - 1) : q[i][1] = q[j + n][1] => q[i][2] < q[j + n][2]
      BY <1>8, <2>1 DEF Attribution, thr
    <2>5. \A u \in E : u[1] = qq[j][1] => u[2] < qq[j][2]
      BY <1>15, <2>1, <2>3, <2>4
    <2>6. \A i \in 1..(j - 1) : qq[i][1] = qq[j][1] => qq[i][2] < qq[j][2]
      BY <2>1, <2>2, <2>4
    <2>7. QED
      BY <2>1, <2>4, <2>5, <2>6
  <1>19. Attribution(qq, E)'
    BY <1>1, <1>3, <1>13, <1>14, <1>16, <1>17, <1>18 DEF Attribution, n, thr
  <1>20. Attributed'
    BY <1>19 DEF Attributed
  <1>21. QED
    BY <1>7, <1>10, <1>20 DEF StaleInv

\* What PPO trains with is never older than the staleness threshold for each rollout rank.
THEOREM StaleWithinHolds == Spec => []StaleWithin
  <1>1. Init => StaleInv
    BY StaleInit
  <1>2. SyncInv /\ SyncInv' /\ StaleInv /\ [Next]_vars => StaleInv'
    <2> SUFFICES ASSUME SyncInv, SyncInv', StaleInv, [Next]_vars
                 PROVE  StaleInv'
      OBVIOUS
    <2>1. CASE ~Bounded
      <3>1. cfg' = cfg
        BY DEF vars, runner, Next, Runner, UpdateWeights, UpdateWeightsReturns, RequestWeights, RecvTrajectories,
           RunTraining, SendBucket, Transfer, Receive, LoadBucket, SyncModelFromActor, RequestActorSyncModel,
           Generate, BeginUnit, Predict, EndUnit, SendTrajectory, Stop
      <3>2. QED
        BY <2>1, <3>1 DEF StaleInv, Bounded, Ppo
    <2>2. CASE Bounded
      <3>1. CASE UNCHANGED vars
        <4>1. UNCHANGED <<cfg, at, step, version, queue, batch, episodes, finished, gen, work, rversion, chunk, stamp>>
          BY <3>1 DEF vars, runner, actor, receiver, generator
        <4>2. \A r \in Ranks : Making(r)'
          BY <2>2, <4>1 DEF StaleInv, Making
        <4>3. QED
          BY <2>2, <4>1, <4>2, StaleQuiet
      <3>2. CASE Next
        <4>1. CASE Runner
          BY <2>2, <4>1, StaleRunner, StaleRunTraining, StaleRecvTrajectories DEF Runner
        <4>2. CASE SendBucket
          BY <2>2, <4>2, StaleReceives, ConfigFacts DEF SyncInv, TypeOK
        <4>3. ASSUME NEW r \in Ranks, Transfer(r) \/ Receive(r) \/ Generate(r) \/ SendTrajectory(r) \/ Stop(r)
              PROVE  StaleInv'
          BY <2>2, <4>3, StaleReceives, StaleLoadBucket, StaleGenerates, StaleEndUnit, StaleSendTrajectory
             DEF Receive, Generate
        <4>4. QED
          BY <3>2, <4>1, <4>2, <4>3 DEF Next
      <3>3. QED
        BY <3>1, <3>2
    <2>3. QED
      BY <2>1, <2>2
  <1>3. SyncInv /\ StaleInv => StaleWithin
    <2> SUFFICES ASSUME SyncInv, StaleInv, ~Bounded, cfg.threshold # NoThreshold
                 PROVE  FALSE
      BY DEF StaleInv, StaleWithin
    <2>1. cfg.algorithm \in {"ppo", "sac"} /\ (cfg.algorithm = "sac" => cfg.threshold = NoThreshold)
      BY ConfigFacts DEF SyncInv, TypeOK
    <2>2. QED
      BY <2>1 DEF Bounded, Ppo
  <1>4. QED
    BY <1>1, <1>2, <1>3, SyncHolds, PTL DEF Spec
=============================================================================
