------------------------ MODULE ChannelQueue_proofs ------------------------
(***************************************************************************)
(* Proofs about ChannelQueue for any calls, weights and maxsize: the       *)
(* wake-ups of producers are never lost, those of consumers are not lost   *)
(* where a get_batch is the only consumer or there is none, and a batch is *)
(* within its target and short of it only before an item that does not fit.*)
(***************************************************************************)
EXTENDS ChannelQueue, SequenceTheorems, FiniteSetTheorems, TLAPS

(* What _wakeup_next leaves in a deque when it is called n times. *)
LEMMA StayProperties ==
  ASSUME NEW S, NEW s \in Seq(S), NEW n \in Nat
  PROVE  /\ Stay(s, n) \in Seq(S)
         /\ n >= Len(s) => Stay(s, n) = <<>>
         /\ n < Len(s) => /\ Len(Stay(s, n)) = Len(s) - n
                          /\ \A k \in 1..(Len(s) - n) : Stay(s, n)[k] = s[k + n]
<1>1. CASE n >= Len(s)
  BY <1>1 DEF Stay
<1>2. CASE n < Len(s)
  <2>1. n + 1 \in Int /\ Len(s) \in Int /\ \A i \in (n + 1)..Len(s) : s[i] \in S
    BY <1>2
  <2>2. /\ SubSeq(s, n + 1, Len(s)) \in Seq(S)
        /\ Len(SubSeq(s, n + 1, Len(s))) =
             IF n + 1 <= Len(s) THEN Len(s) - (n + 1) + 1 ELSE 0
        /\ \A i \in 1..(Len(s) - (n + 1) + 1) :
             SubSeq(s, n + 1, Len(s))[i] = s[n + 1 + i - 1]
    BY <2>1, SubSeqProperties
  <2>3. Stay(s, n) = SubSeq(s, n + 1, Len(s))
    BY <1>2 DEF Stay
  <2> HIDE DEF Stay
  <2>4. \A k \in 1..(Len(s) - n) : Stay(s, n)[k] = s[k + n]
    <3> TAKE k \in 1..(Len(s) - n)
    <3>1. k \in 1..(Len(s) - (n + 1) + 1) /\ n + 1 + k - 1 = k + n
      OBVIOUS
    <3> QED
      BY <3>1, <2>2, <2>3
  <2> QED
    BY <1>2, <2>2, <2>3, <2>4
<1> QED
  BY <1>1, <1>2

Distinct(s) == \A i, j \in 1..Len(s) : s[i] = s[j] => i = j

(* A deque without duplicates wakes as many tasks as it is asked to wake. *)
LEMMA WakesCount ==
  ASSUME NEW S, NEW s \in Seq(S), NEW n \in Nat, Distinct(s)
  PROVE  /\ Wakes(s, n) \subseteq S
         /\ IsFiniteSet(Wakes(s, n))
         /\ n <= Len(s) => Cardinality(Wakes(s, n)) = n
<1> DEFINE m == IF n <= Len(s) THEN n ELSE Len(s)
<1> DEFINE f == [i \in 1..m |-> s[i]]
<1>1. m \in Nat /\ m <= Len(s) /\ {j \in 1..Len(s) : j <= n} = 1..m
  OBVIOUS
<1>2. Wakes(s, n) = {s[i] : i \in 1..m}
  BY <1>1 DEF Wakes
<1> HIDE DEF m
<1>3. f \in Bijection(1..m, Wakes(s, n))
  <2>1. f \in Surjection(1..m, Wakes(s, n))
    BY <1>2 DEF Surjection
  <2>2. f \in Injection(1..m, Wakes(s, n))
    BY <1>1, <1>2 DEF Injection, Distinct, IsInjective
  <2> QED
    BY <2>1, <2>2 DEF Bijection
<1>4. IsFiniteSet(1..m) /\ Cardinality(1..m) = m
  <2>1. /\ IsFiniteSet(1..m)
        /\ Cardinality(1..m) = IF 1 > m THEN 0 ELSE m - 1 + 1
    BY <1>1, FS_Interval
  <2> QED
    BY <1>1, <2>1
<1>5. ExistsBijection(1..m, Wakes(s, n))
  BY <1>3 DEF ExistsBijection
<1>6. IsFiniteSet(Wakes(s, n)) /\ Cardinality(Wakes(s, n)) = m
  BY <1>4, <1>5, FS_Bijection
<1>7. Wakes(s, n) \subseteq S
  BY <1>1, <1>2
<1> QED
  BY <1>6, <1>7 DEF m

-----------------------------------------------------------------------------
(* The inductive invariant.  A deque holds a task once, and only tasks     *)
(* that wait and have not been woken; a task that is woken waits, too.     *)
Asleep(s) ==
  /\ Distinct(s)
  /\ \A i \in 1..Len(s) : pc[s[i]] = "waiting" /\ s[i] \notin woken

Awake ==
  /\ IsFiniteSet(woken)
  /\ \A t \in woken : pc[t] = "waiting"

QueueInv == TypeOK /\ Asleep(getters) /\ Asleep(putters) /\ Awake

(* A call is a consumer or a blocking producer, not both. *)
LEMMA Apart == Getters \cap Putters = {} /\ Getters \subseteq Tasks /\ Putters \subseteq Tasks
BY DEF Getters, Putters, Of

(* A task that runs is in no deque. *)
LEMMA RunnerIsOut ==
  ASSUME QueueInv, NEW t \in Tasks, Runs(t)
  PROVE  /\ \A i \in 1..Len(getters) : getters[i] # t
         /\ \A i \in 1..Len(putters) : putters[i] # t
BY DEF QueueInv, Asleep, Runs

(* Those that a running task wakes are others, and they wait. *)
LEMMA WokenWait ==
  ASSUME QueueInv, NEW t \in Tasks, Runs(t), NEW n
  PROVE  \A u \in Wakes(putters, n) : u # t /\ pc[u] = "waiting"
<1>1. \A u \in Wakes(putters, n) : \E j \in 1..Len(putters) : u = putters[j]
  BY DEF Wakes
<1> QED
  BY <1>1, RunnerIsOut DEF QueueInv, Asleep

(* A task that goes to sleep joins the back of a deque. *)
LEMMA JoinDeque ==
  ASSUME NEW S, NEW s \in Seq(S), NEW t \in S, Distinct(s),
         \A i \in 1..Len(s) : s[i] # t
  PROVE  /\ Append(s, t) \in Seq(S)
         /\ Append(s, t) # <<>>
         /\ Distinct(Append(s, t))
         /\ \A i \in 1..Len(Append(s, t)) :
              Append(s, t)[i] = t \/ \E j \in 1..Len(s) : Append(s, t)[i] = s[j]
<1>1. /\ Append(s, t) \in Seq(S)
      /\ Len(Append(s, t)) = Len(s) + 1
      /\ \A i \in 1..Len(s) : Append(s, t)[i] = s[i]
      /\ Append(s, t)[Len(s) + 1] = t
  BY AppendProperties
<1>2. Len(s) \in Nat /\ Append(s, t) # <<>>
  BY <1>1
<1>3. \A i \in 1..(Len(s) + 1) : i = Len(s) + 1 \/ i \in 1..Len(s)
  BY <1>2
<1>4. Distinct(Append(s, t))
  <2> SUFFICES ASSUME NEW i \in 1..(Len(s) + 1), NEW j \in 1..(Len(s) + 1),
                      Append(s, t)[i] = Append(s, t)[j]
               PROVE  i = j
    BY <1>1 DEF Distinct
  <2>1. CASE i \in 1..Len(s) /\ j \in 1..Len(s)
    BY <2>1, <1>1 DEF Distinct
  <2>2. CASE i = Len(s) + 1 /\ j \in 1..Len(s)
    BY <2>2, <1>1
  <2>3. CASE i \in 1..Len(s) /\ j = Len(s) + 1
    BY <2>3, <1>1
  <2> QED
    BY <1>3, <2>1, <2>2, <2>3
<1>5. \A i \in 1..(Len(s) + 1) :
        Append(s, t)[i] = t \/ \E j \in 1..Len(s) : Append(s, t)[i] = s[j]
  BY <1>1, <1>3
<1> QED
  BY <1>1, <1>2, <1>4, <1>5

(* What stays in a deque stays asleep: it is not among those woken. *)
LEMMA StayDistinct ==
  ASSUME NEW S, NEW s \in Seq(S), NEW n \in Nat, Distinct(s)
  PROVE  /\ Stay(s, n) \in Seq(S)
         /\ Distinct(Stay(s, n))
         /\ \A i \in 1..Len(Stay(s, n)) :
              /\ Stay(s, n)[i] \notin Wakes(s, n)
              /\ \E j \in 1..Len(s) : Stay(s, n)[i] = s[j]
<1>1. CASE n >= Len(s)
  <2>1. Stay(s, n) \in Seq(S) /\ Stay(s, n) = <<>>
    BY <1>1, StayProperties
  <2>2. 1..Len(Stay(s, n)) = {}
    BY <2>1
  <2> QED
    BY <2>1, <2>2 DEF Distinct
<1>2. CASE n < Len(s)
  <2>1. /\ Stay(s, n) \in Seq(S) /\ Len(Stay(s, n)) = Len(s) - n
        /\ \A k \in 1..(Len(s) - n) : Stay(s, n)[k] = s[k + n]
    BY <1>2, StayProperties
  <2>2. \A k \in 1..(Len(s) - n) : k + n \in 1..Len(s) /\ k + n > n
    OBVIOUS
  <2>3. Distinct(Stay(s, n))
    <3> SUFFICES ASSUME NEW i \in 1..(Len(s) - n), NEW j \in 1..(Len(s) - n),
                        s[i + n] = s[j + n]
                 PROVE  i = j
      BY <2>1 DEF Distinct
    <3>1. i + n = j + n
      BY <2>2 DEF Distinct
    <3> QED
      BY <3>1
  <2>4. ASSUME NEW i \in 1..(Len(s) - n) PROVE s[i + n] \notin Wakes(s, n)
    BY <2>2 DEF Wakes, Distinct
  <2> QED
    BY <2>1, <2>2, <2>3, <2>4
<1> QED
  BY <1>1, <1>2

-----------------------------------------------------------------------------
(* The steps of a consumer: it takes n items and ends, or it takes all     *)
(* there is and waits.                                                     *)
ConsumerRuns(t, n) == t \in Tasks \ Putters /\ Runs(t) /\ n \in 0..Len(queue) /\ Take(t, n)

ConsumerEnds(t, n) ==
  ConsumerRuns(t, n) /\ pc' = [pc EXCEPT ![t] = "done"] /\ getters' = getters

ConsumerWaits(t, n) == t \in Getters /\ ConsumerRuns(t, n) /\ n = Len(queue) /\ WaitForItem(t)

(* The steps of a producer: it stores its item, or it waits. *)
ProducerStores(t) ==
  t \in Of({"put", "put_nowait"}) \ Getters /\ Runs(t) /\ ~Full /\ Store(t)

ProducerWaits(t) ==
  /\ t \in Putters /\ Runs(t) /\ Full
  /\ putters' = Append(putters, t)
  /\ woken' = woken \ {t}
  /\ pc' = [pc EXCEPT ![t] = "waiting"]
  /\ UNCHANGED <<queue, getters, got>>

NobodyRuns(t) == t \in Tasks \ (Getters \cup Putters) /\ Runs(t) /\ Fail(t)

(* A get that finds the queue empty takes all of nothing. *)
LEMMA TakeNothing ==
  ASSUME QueueInv, NEW t \in Tasks, queue = <<>>, woken' = woken \ {t},
         UNCHANGED <<queue, putters, got>>
  PROVE  Take(t, 0)
<1>1. SubSeq(queue, 1, 0) = <<>> /\ SubSeq(queue, 0 + 1, Len(queue)) = <<>>
  BY SubSeqEmpty
<1>2. Stay(putters, 0) = putters
  BY SubSeqFull DEF Stay, QueueInv, TypeOK
<1>3. Wakes(putters, 0) = {}
  BY DEF Wakes
<1>4. [got EXCEPT ![t] = @ \o <<>>] = got
  <2>1. got[t] \in Seq(Tasks) /\ got \in [Tasks -> Seq(Tasks)]
    BY DEF QueueInv, TypeOK
  <2>2. got[t] \o <<>> = got[t]
    BY <2>1, ConcatEmptySeq
  <2> QED
    BY <2>1, <2>2
<1> QED
  BY <1>1, <1>2, <1>3, <1>4 DEF Take

(* Every step of a task is one of these. *)
LEMMA StepOfTask ==
  ASSUME QueueInv, NEW t \in Tasks,
         Put(t) \/ PutNowait(t) \/ Get(t) \/ GetNowait(t) \/ GetBatch(t)
  PROVE  \/ ProducerStores(t) \/ ProducerWaits(t) \/ NobodyRuns(t)
         \/ \E n \in 0..Len(queue) : ConsumerEnds(t, n) /\ (Op[t] # "get_batch" => n = 1)
         \/ \E n \in 0..Len(queue) : ConsumerWaits(t, n)
<1> USE DEF Getters, Putters, Of
<1>1. queue \in Seq(Tasks) /\ Len(queue) \in Nat
  BY DEF QueueInv, TypeOK
<1>2. CASE Put(t)
  BY <1>2 DEF Put, ProducerStores, ProducerWaits
<1>3. CASE PutNowait(t)
  BY <1>3 DEF PutNowait, ProducerStores, NobodyRuns
<1>4. CASE Get(t)
  <2>1. CASE queue = <<>>
    <3>1. /\ Op[t] = "get" /\ Runs(t) /\ WaitForItem(t)
          /\ woken' = woken \ {t} /\ UNCHANGED <<queue, putters, got>>
      BY <1>4, <2>1 DEF Get
    <3>2. Take(t, 0)
      BY <2>1, <3>1, TakeNothing
    <3>3. 0 \in 0..Len(queue) /\ 0 = Len(queue)
      BY <2>1
    <3> QED
      BY <3>1, <3>2, <3>3 DEF ConsumerWaits, ConsumerRuns
  <2>2. CASE queue # <<>>
    <3>1. 1 \in 0..Len(queue)
      BY <1>1, <2>2, EmptySeq
    <3> QED
      BY <1>4, <2>2, <3>1 DEF Get, ConsumerEnds, ConsumerRuns
  <2> QED
    BY <2>1, <2>2
<1>5. CASE GetNowait(t)
  <2>1. CASE queue = <<>>
    BY <1>5, <2>1 DEF GetNowait, NobodyRuns
  <2>2. CASE queue # <<>>
    <3>1. 1 \in 0..Len(queue)
      BY <1>1, <2>2, EmptySeq
    <3> QED
      BY <1>5, <2>2, <3>1 DEF GetNowait, ConsumerEnds, ConsumerRuns
  <2> QED
    BY <2>1, <2>2
<1>6. CASE GetBatch(t)
  <2>1. Op[t] = "get_batch" /\ Runs(t)
    BY <1>6 DEF GetBatch
  <2>2. PICK n \in 0..Len(queue) :
          /\ Take(t, n)
          /\ \/ /\ pc' = [pc EXCEPT ![t] = "done"]
                /\ UNCHANGED getters
             \/ ~(n < Len(queue)) /\ WaitForItem(t)
    BY <1>6 DEF GetBatch, TakeBatch
  <2>3. ~(n < Len(queue)) => n = Len(queue)
    BY <1>1
  <2> QED
    BY <2>1, <2>2, <2>3 DEF ConsumerEnds, ConsumerWaits, ConsumerRuns
<1> QED
  BY <1>2, <1>3, <1>4, <1>5, <1>6

-----------------------------------------------------------------------------
(* The types and the invariant of the deques, step by step. *)
LEMMA StoreStep ==
  ASSUME QueueInv, NEW t, ProducerStores(t)
  PROVE  QueueInv'
<1>1. /\ t \in Tasks /\ t \notin Getters /\ Runs(t) /\ ~Full
      /\ queue' = Append(queue, t) /\ getters' = Stay(getters, 1)
      /\ woken' = (woken \ {t}) \cup Wakes(getters, 1)
      /\ pc' = [pc EXCEPT ![t] = "done"]
      /\ putters' = putters /\ got' = got
  BY DEF ProducerStores, Store, Of
<1>2. /\ queue \in Seq(Tasks) /\ getters \in Seq(Getters) /\ putters \in Seq(Putters)
      /\ woken \subseteq Getters \cup Putters
      /\ pc \in [Tasks -> {"unused", "called", "waiting", "done", "raised"}]
      /\ Distinct(getters) /\ Distinct(putters) /\ IsFiniteSet(woken)
  BY DEF QueueInv, TypeOK, Asleep, Awake
<1>3. /\ getters' \in Seq(Getters) /\ Distinct(getters')
      /\ \A i \in 1..Len(getters') :
           /\ getters'[i] \notin Wakes(getters, 1)
           /\ \E j \in 1..Len(getters) : getters'[i] = getters[j]
  BY <1>1, <1>2, StayDistinct
<1>4. Wakes(getters, 1) \subseteq Getters /\ IsFiniteSet(Wakes(getters, 1))
  BY <1>2, WakesCount
<1>5. \A u \in Wakes(getters, 1) : \E j \in 1..Len(getters) : u = getters[j]
  BY <1>1 DEF Wakes
<1>6. TypeOK'
  <2>1. queue' \in Seq(Tasks) /\ Len(queue') = Len(queue) + 1
    BY <1>1, <1>2, AppendProperties
  <2>2. MaxSize > 0 => Len(queue') <= MaxSize
    BY <1>1, <1>2, <2>1, MaxSizeAssumption DEF Full, Capacity
  <2> QED
    BY <1>1, <1>2, <1>3, <1>4, <2>1, <2>2, Apart DEF QueueInv, TypeOK
<1>7. Asleep(getters)'
  BY <1>1, <1>2, <1>3, RunnerIsOut, Apart DEF QueueInv, Asleep
<1>8. Asleep(putters)'
  BY <1>1, <1>2, <1>4, RunnerIsOut, Apart DEF QueueInv, Asleep
<1>9. Awake'
  <2>1. IsFiniteSet(woken \ {t})
    BY <1>2, FS_RemoveElement
  <2>2. IsFiniteSet(woken')
    BY <1>1, <1>4, <2>1, FS_Union
  <2>3. \A u \in woken' : u # t /\ pc[u] = "waiting"
    BY <1>1, <1>5, RunnerIsOut DEF QueueInv, Asleep, Awake
  <2>4. woken' \subseteq Tasks
    BY <1>1, <1>2, <1>4, Apart
  <2> QED
    BY <1>1, <1>2, <2>2, <2>3, <2>4 DEF Awake
<1> QED
  BY <1>6, <1>7, <1>8, <1>9 DEF QueueInv

(* A producer that finds the queue full leaves woken and joins _putters. *)
LEMMA ProducerWaitsStep ==
  ASSUME QueueInv, NEW t, ProducerWaits(t)
  PROVE  QueueInv'
<1>1. /\ t \in Putters /\ t \in Tasks /\ t \notin Getters /\ Runs(t)
      /\ putters' = Append(putters, t)
      /\ woken' = woken \ {t}
      /\ pc' = [pc EXCEPT ![t] = "waiting"]
      /\ queue' = queue /\ getters' = getters /\ got' = got
  BY Apart DEF ProducerWaits
<1>2. /\ putters \in Seq(Putters) /\ getters \in Seq(Getters)
      /\ woken \subseteq Getters \cup Putters
      /\ pc \in [Tasks -> {"unused", "called", "waiting", "done", "raised"}]
      /\ Distinct(getters) /\ Distinct(putters) /\ IsFiniteSet(woken)
  BY DEF QueueInv, TypeOK, Asleep, Awake
<1>3. /\ putters' \in Seq(Putters) /\ Distinct(putters')
      /\ \A i \in 1..Len(putters') :
           putters'[i] = t \/ \E j \in 1..Len(putters) : putters'[i] = putters[j]
  BY <1>1, <1>2, RunnerIsOut, JoinDeque
<1>4. TypeOK'
  BY <1>1, <1>2, <1>3 DEF QueueInv, TypeOK
<1>5. Asleep(getters)'
  BY <1>1, <1>2, Apart DEF QueueInv, Asleep
<1>6. Asleep(putters)'
  BY <1>1, <1>2, <1>3, Apart DEF QueueInv, Asleep
<1>7. Awake'
  <2>1. IsFiniteSet(woken')
    BY <1>1, <1>2, FS_RemoveElement
  <2> QED
    BY <1>1, <1>2, <2>1, Apart DEF QueueInv, Awake
<1> QED
  BY <1>4, <1>5, <1>6, <1>7 DEF QueueInv

(* A nowait call that raises changes neither queue nor deques. *)
LEMMA NobodyRunsStep ==
  ASSUME QueueInv, NEW t, NobodyRuns(t)
  PROVE  QueueInv'
<1>1. /\ t \in Tasks /\ t \notin Getters /\ t \notin Putters
      /\ pc' = [pc EXCEPT ![t] = "raised"]
      /\ UNCHANGED <<queue, getters, putters, woken, got>>
  BY DEF NobodyRuns, Fail
<1> QED
  BY <1>1, Apart DEF QueueInv, TypeOK, Asleep, Awake

(* What every step of a consumer does to the queue and the putters. *)
LEMMA ConsumerFacts ==
  ASSUME QueueInv, NEW t, NEW n, ConsumerRuns(t, n)
  PROVE  /\ t \in Tasks /\ t \notin Putters /\ Runs(t) /\ n \in Nat
         /\ queue' \in Seq(Tasks) /\ Len(queue') = Len(queue) - n
         /\ got' \in [Tasks -> Seq(Tasks)]
         /\ putters' \in Seq(Putters) /\ Distinct(putters')
         /\ woken' = (woken \ {t}) \cup Wakes(putters, n)
         /\ woken' \subseteq Getters \cup Putters
         /\ IsFiniteSet(woken')
         /\ \A i \in 1..Len(putters') :
              putters'[i] \notin woken' /\ \E j \in 1..Len(putters) : putters'[i] = putters[j]
         /\ \A u \in Wakes(putters, n) : \E j \in 1..Len(putters) : u = putters[j]
<1>1. /\ t \in Tasks /\ t \notin Putters /\ Runs(t) /\ n \in 0..Len(queue)
      /\ queue' = SubSeq(queue, n + 1, Len(queue))
      /\ putters' = Stay(putters, n)
      /\ woken' = (woken \ {t}) \cup Wakes(putters, n)
      /\ got' = [got EXCEPT ![t] = @ \o SubSeq(queue, 1, n)]
  BY DEF ConsumerRuns, Take
<1>2. /\ queue \in Seq(Tasks) /\ putters \in Seq(Putters) /\ Distinct(putters)
      /\ got \in [Tasks -> Seq(Tasks)] /\ woken \subseteq Getters \cup Putters
      /\ IsFiniteSet(woken)
  BY DEF QueueInv, TypeOK, Asleep, Awake
<1>3. n \in Nat /\ n <= Len(queue) /\ Len(queue) \in Nat
  BY <1>1, <1>2
<1>4. queue' \in Seq(Tasks) /\ Len(queue') = Len(queue) - n
  <2>1. \A i \in (n + 1)..Len(queue) : queue[i] \in Tasks
    BY <1>2, <1>3
  <2>2. /\ queue' \in Seq(Tasks)
        /\ Len(queue') = IF n + 1 <= Len(queue) THEN Len(queue) - (n + 1) + 1 ELSE 0
    BY <1>1, <1>3, <2>1, SubSeqProperties
  <2> QED
    BY <1>3, <2>2
<1>5. got' \in [Tasks -> Seq(Tasks)]
  <2>1. \A i \in 1..n : queue[i] \in Tasks
    BY <1>2, <1>3
  <2>2. SubSeq(queue, 1, n) \in Seq(Tasks)
    BY <1>3, <2>1, SubSeqProperties
  <2>3. got[t] \o SubSeq(queue, 1, n) \in Seq(Tasks)
    BY <1>1, <1>2, <2>2, ConcatProperties
  <2> QED
    BY <1>1, <1>2, <2>3
<1>6. /\ putters' \in Seq(Putters) /\ Distinct(putters')
      /\ \A i \in 1..Len(putters') :
           /\ putters'[i] \notin Wakes(putters, n)
           /\ \E j \in 1..Len(putters) : putters'[i] = putters[j]
  BY <1>1, <1>2, <1>3, StayDistinct
<1>7. Wakes(putters, n) \subseteq Putters /\ IsFiniteSet(Wakes(putters, n))
  BY <1>2, <1>3, WakesCount
<1>8. IsFiniteSet(woken')
  <2>1. IsFiniteSet(woken \ {t})
    BY <1>2, FS_RemoveElement
  <2> QED
    BY <1>1, <1>7, <2>1, FS_Union
<1>9. \A i \in 1..Len(putters') : putters'[i] \notin woken'
  BY <1>1, <1>6 DEF QueueInv, Asleep
<1>10. \A u \in Wakes(putters, n) : \E j \in 1..Len(putters) : u = putters[j]
  BY DEF Wakes
<1> QED
  BY <1>1, <1>2, <1>3, <1>4, <1>5, <1>6, <1>7, <1>8, <1>9, <1>10

(* A consumer that ends was in no deque, and stays out of them. *)
LEMMA ConsumerEndsStep ==
  ASSUME QueueInv, NEW t, NEW n, ConsumerEnds(t, n)
  PROVE  QueueInv'
<1>1. /\ ConsumerRuns(t, n) /\ getters' = getters
      /\ pc' = [pc EXCEPT ![t] = "done"]
  BY DEF ConsumerEnds
<1>2. /\ t \in Tasks /\ t \notin Putters /\ Runs(t) /\ n \in Nat
      /\ queue' \in Seq(Tasks) /\ Len(queue') = Len(queue) - n
      /\ got' \in [Tasks -> Seq(Tasks)]
      /\ putters' \in Seq(Putters) /\ Distinct(putters')
      /\ woken' = (woken \ {t}) \cup Wakes(putters, n)
      /\ woken' \subseteq Getters \cup Putters /\ IsFiniteSet(woken')
      /\ \A i \in 1..Len(putters') :
           putters'[i] \notin woken' /\ \E j \in 1..Len(putters) : putters'[i] = putters[j]
      /\ \A u \in Wakes(putters, n) : \E j \in 1..Len(putters) : u = putters[j]
  BY <1>1, ConsumerFacts
<1>3. /\ queue \in Seq(Tasks) /\ getters \in Seq(Getters) /\ putters \in Seq(Putters)
      /\ pc \in [Tasks -> {"unused", "called", "waiting", "done", "raised"}]
      /\ MaxSize > 0 => Len(queue) <= MaxSize
  BY DEF QueueInv, TypeOK
<1>4. TypeOK'
  <2>1. MaxSize > 0 => Len(queue') <= MaxSize
    BY <1>2, <1>3, MaxSizeAssumption
  <2> QED
    BY <1>1, <1>2, <1>3, <2>1 DEF TypeOK
<1>5. /\ \A i \in 1..Len(putters) :
           putters[i] # t /\ putters[i] \in Putters /\ pc[putters[i]] = "waiting"
      /\ \A i \in 1..Len(getters) :
           /\ getters[i] # t /\ getters[i] \in Getters /\ getters[i] \notin woken
           /\ pc[getters[i]] = "waiting"
  <2>1. /\ \A i \in 1..Len(putters) : putters[i] \in Putters
        /\ \A i \in 1..Len(getters) : getters[i] \in Getters
    BY <1>3
  <2> QED
    BY <1>2, <2>1, RunnerIsOut DEF QueueInv, Asleep
<1>9. \A u \in Tasks : u # t => pc'[u] = pc[u]
  BY <1>1, <1>3
<1>10. \A i \in 1..Len(getters) : getters[i] \notin Wakes(putters, n)
  BY <1>2, <1>5, Apart
<1>6. Asleep(getters)'
  BY <1>1, <1>2, <1>5, <1>9, <1>10, Apart DEF QueueInv, Asleep
<1>7. Asleep(putters)'
  <2>1. \A i \in 1..Len(putters') : pc'[putters'[i]] = "waiting"
    <3>1. \A j \in 1..Len(putters) : pc'[putters[j]] = "waiting"
      BY <1>5, <1>9, Apart
    <3> QED
      BY <1>2, <3>1
  <2> QED
    BY <1>2, <2>1 DEF Asleep
<1>8. Awake'
  <2>1. \A u \in woken' : u \in Tasks /\ u # t /\ pc[u] = "waiting"
    <3>1. \A u \in Wakes(putters, n) : u # t /\ pc[u] = "waiting"
      BY <1>2, WokenWait
    <3>2. \A u \in woken : pc[u] = "waiting"
      BY DEF QueueInv, Awake
    <3>3. \A u \in woken' : u \in Tasks
      BY <1>2, Apart
    <3>4. woken' = (woken \ {t}) \cup Wakes(putters, n)
      BY <1>2
    <3> QED
      BY <3>1, <3>2, <3>3, <3>4
  <2> QED
    BY <1>2, <1>9, <2>1 DEF Awake
<1> QED
  BY <1>4, <1>6, <1>7, <1>8 DEF QueueInv

(* A consumer that waits joins _getters, where it was not. *)
LEMMA ConsumerWaitsStep ==
  ASSUME QueueInv, NEW t, NEW n, ConsumerWaits(t, n)
  PROVE  QueueInv'
<1>1. /\ ConsumerRuns(t, n) /\ t \in Getters
      /\ getters' = Append(getters, t)
      /\ pc' = [pc EXCEPT ![t] = "waiting"]
  BY DEF ConsumerWaits, WaitForItem
<1>2. /\ t \in Tasks /\ t \notin Putters /\ Runs(t) /\ n \in Nat
      /\ queue' \in Seq(Tasks) /\ Len(queue') = Len(queue) - n
      /\ got' \in [Tasks -> Seq(Tasks)]
      /\ putters' \in Seq(Putters) /\ Distinct(putters')
      /\ woken' = (woken \ {t}) \cup Wakes(putters, n)
      /\ woken' \subseteq Getters \cup Putters /\ IsFiniteSet(woken')
      /\ \A i \in 1..Len(putters') :
           putters'[i] \notin woken' /\ \E j \in 1..Len(putters) : putters'[i] = putters[j]
      /\ \A u \in Wakes(putters, n) : \E j \in 1..Len(putters) : u = putters[j]
  BY <1>1, ConsumerFacts
<1>3. /\ queue \in Seq(Tasks) /\ getters \in Seq(Getters) /\ putters \in Seq(Putters)
      /\ pc \in [Tasks -> {"unused", "called", "waiting", "done", "raised"}]
      /\ MaxSize > 0 => Len(queue) <= MaxSize
      /\ Distinct(getters)
  BY DEF QueueInv, TypeOK, Asleep
<1>4. /\ getters' \in Seq(Getters) /\ Distinct(getters')
      /\ \A i \in 1..Len(getters') :
           getters'[i] = t \/ \E j \in 1..Len(getters) : getters'[i] = getters[j]
  BY <1>1, <1>2, <1>3, RunnerIsOut, JoinDeque
<1>5. /\ \A i \in 1..Len(putters) :
           putters[i] # t /\ putters[i] \in Putters /\ pc[putters[i]] = "waiting"
      /\ \A i \in 1..Len(getters) :
           /\ getters[i] # t /\ getters[i] \in Getters /\ getters[i] \notin woken
           /\ pc[getters[i]] = "waiting"
  <2>1. /\ \A i \in 1..Len(putters) : putters[i] \in Putters
        /\ \A i \in 1..Len(getters) : getters[i] \in Getters
    BY <1>3
  <2> QED
    BY <1>2, <2>1, RunnerIsOut DEF QueueInv, Asleep
<1>6. t \notin woken'
  <2>1. t \notin Wakes(putters, n)
    <3>1. \A u \in Wakes(putters, n) : u # t
      BY <1>2, WokenWait
    <3> QED
      BY <3>1
  <2>2. woken' = (woken \ {t}) \cup Wakes(putters, n)
    BY <1>2
  <2> QED
    BY <2>1, <2>2
<1>11. \A u \in Tasks : pc'[u] = IF u = t THEN "waiting" ELSE pc[u]
  BY <1>1, <1>3
<1>7. TypeOK'
  <2>1. MaxSize > 0 => Len(queue') <= MaxSize
    BY <1>2, <1>3, MaxSizeAssumption
  <2> QED
    BY <1>1, <1>2, <1>3, <1>4, <2>1 DEF TypeOK
<1>8. Asleep(getters)'
  <2>1. \A i \in 1..Len(getters) : getters[i] \notin woken' /\ pc'[getters[i]] = "waiting"
    <3>1. \A i \in 1..Len(getters) : getters[i] \notin Wakes(putters, n)
      BY <1>2, <1>5, Apart
    <3> QED
      BY <1>2, <1>5, <1>11, <3>1, Apart
  <2>2. pc'[t] = "waiting"
    BY <1>1, <1>2, <1>3
  <2> QED
    BY <1>4, <1>6, <2>1, <2>2 DEF Asleep
<1>9. Asleep(putters)'
  <2>1. \A i \in 1..Len(putters') : pc'[putters'[i]] = "waiting"
    <3>1. \A j \in 1..Len(putters) : pc'[putters[j]] = "waiting"
      BY <1>5, <1>11, Apart
    <3> QED
      BY <1>2, <3>1
  <2> QED
    BY <1>2, <2>1 DEF Asleep
<1>10. Awake'
  <2>1. \A u \in woken' : u \in Tasks /\ pc[u] = "waiting"
    <3>1. \A u \in Wakes(putters, n) : u # t /\ pc[u] = "waiting"
      BY <1>2, WokenWait
    <3>2. \A u \in woken : pc[u] = "waiting"
      BY DEF QueueInv, Awake
    <3>3. \A u \in woken' : u \in Tasks
      BY <1>2, Apart
    <3>4. woken' = (woken \ {t}) \cup Wakes(putters, n)
      BY <1>2
    <3> QED
      BY <3>1, <3>2, <3>3, <3>4
  <2> QED
    BY <1>2, <1>11, <2>1 DEF Awake
<1> QED
  BY <1>7, <1>8, <1>9, <1>10 DEF QueueInv

(* The invariant holds of a new queue. *)
LEMMA QueueInvInit == Init => QueueInv
<1> SUFFICES ASSUME Init PROVE QueueInv
  OBVIOUS
<1>1. TypeOK
  BY MaxSizeAssumption DEF Init, TypeOK
<1>2. 1..Len(<<>>) = {}
  OBVIOUS
<1> QED
  BY <1>1, <1>2, FS_EmptySet DEF Init, QueueInv, Asleep, Awake, Distinct

(* Every step of every call keeps it. *)
LEMMA QueueInvStep == QueueInv /\ [Next]_vars => QueueInv'
<1> SUFFICES ASSUME QueueInv, [Next]_vars PROVE QueueInv'
  OBVIOUS
<1>1. ASSUME NEW t \in Tasks,
             Put(t) \/ PutNowait(t) \/ Get(t) \/ GetNowait(t) \/ GetBatch(t)
      PROVE  QueueInv'
  BY <1>1, StepOfTask, StoreStep, ProducerWaitsStep, NobodyRunsStep,
     ConsumerEndsStep, ConsumerWaitsStep
<1>2. CASE UNCHANGED vars
  BY <1>2 DEF vars, QueueInv, TypeOK, Asleep, Awake
<1> QED
  BY <1>1, <1>2 DEF Next

(* The types are right, a deque holds only tasks that wait and were not    *)
(* woken, each once, and a bounded queue never exceeds its maxsize,        *)
(* whatever calls share it.                                                *)
THEOREM QueueTypes == Spec => []TypeOK
<1>1. Spec => []QueueInv
  BY QueueInvInit, QueueInvStep, PTL DEF Spec
<1>2. QueueInv => TypeOK
  BY DEF QueueInv
<1> QED
  BY <1>1, <1>2, PTL

-----------------------------------------------------------------------------
(* Counting the woken tasks of one kind when task t has run and the tasks  *)
(* of V were woken.                                                        *)
Counts(W, V, S, t) ==
  LET now == Cardinality(((W \ {t}) \cup V) \cap S)
      before == Cardinality(W \cap S)
      new == Cardinality(V \cap S)
  IN  /\ now \in Nat /\ before \in Nat /\ new \in Nat
      /\ now >= before + new - 1
      /\ t \notin S => now = before + new

(* It holds of any sets of tasks. *)
LEMMA CountWoken ==
  ASSUME NEW W, NEW V, NEW S, NEW t,
         IsFiniteSet(W), IsFiniteSet(V), V \cap W = {}, t \notin V
  PROVE  Counts(W, V, S, t)
<1> DEFINE A == W \cap S
           B == V \cap S
           C == A \ {t}
<1>1. IsFiniteSet(A) /\ IsFiniteSet(B)
  <2>1. A \subseteq W /\ B \subseteq V
    OBVIOUS
  <2> QED
    BY <2>1, FS_Subset
<1>2. /\ IsFiniteSet(C)
      /\ Cardinality(C) = IF t \in A THEN Cardinality(A) - 1 ELSE Cardinality(A)
  BY <1>1, FS_RemoveElement
<1>3. C \cap B = {} /\ ((W \ {t}) \cup V) \cap S = C \cup B
  OBVIOUS
<1>4. /\ IsFiniteSet(C \cup B)
      /\ Cardinality(C \cup B) = Cardinality(C) + Cardinality(B) - Cardinality(C \cap B)
  BY <1>1, <1>2, FS_Union
<1>5. Cardinality(C \cap B) = 0
  BY <1>3, FS_EmptySet
<1>6. /\ Cardinality(A) \in Nat /\ Cardinality(B) \in Nat
      /\ Cardinality(C \cup B) \in Nat
  BY <1>1, <1>4, FS_CardinalityType
<1>7. t \notin S => t \notin A
  OBVIOUS
<1> HIDE DEF A, B, C
<1>8. /\ Cardinality(C \cup B) >= Cardinality(A) + Cardinality(B) - 1
      /\ t \notin A => Cardinality(C \cup B) = Cardinality(A) + Cardinality(B)
  BY <1>2, <1>4, <1>5, <1>6
<1>9. Cardinality(((W \ {t}) \cup V) \cap S) = Cardinality(C \cup B)
  BY <1>3
<1> QED
  BY <1>6, <1>7, <1>8, <1>9 DEF A, B, Counts

(* What a producer that stores does to the number of those on their way. *)
LEMMA StoreCounts ==
  ASSUME QueueInv, NEW t, ProducerStores(t)
  PROVE  /\ Len(queue) \in Nat /\ Len(queue') = Len(queue) + 1
         /\ Cardinality(WokenOf(Putters)) \in Nat /\ Cardinality(WokenOf(Getters)) \in Nat
         /\ Cardinality(WokenOf(Putters)') \in Nat
         /\ Cardinality(WokenOf(Putters)') >= Cardinality(WokenOf(Putters)) - 1
         /\ getters' # <<>> =>
              Cardinality(WokenOf(Getters)') = Cardinality(WokenOf(Getters)) + 1
<1> DEFINE V == Wakes(getters, 1)
<1>1. /\ t \in Tasks /\ t \notin Getters /\ Runs(t)
      /\ queue' = Append(queue, t) /\ getters' = Stay(getters, 1)
      /\ woken' = (woken \ {t}) \cup V
  BY DEF ProducerStores, Store, Of
<1>2. /\ queue \in Seq(Tasks) /\ getters \in Seq(Getters) /\ Distinct(getters)
      /\ IsFiniteSet(woken)
  BY DEF QueueInv, TypeOK, Asleep, Awake
<1>3. Len(queue) \in Nat /\ Len(queue') = Len(queue) + 1
  BY <1>1, <1>2, AppendProperties
<1>4. V \subseteq Getters /\ IsFiniteSet(V) /\ (1 <= Len(getters) => Cardinality(V) = 1)
  BY <1>2, WakesCount
<1>5. V \cap woken = {} /\ t \notin V
  <2>1. \A u \in V : \E j \in 1..Len(getters) : u = getters[j]
    BY DEF Wakes
  <2> QED
    BY <1>1, <2>1, RunnerIsOut DEF QueueInv, Asleep
<1>6. getters' # <<>> => 1 <= Len(getters)
  BY <1>1, <1>2, StayProperties
<1> HIDE DEF V
<1>7. V \cap Getters = V /\ V \cap Putters = {}
  BY <1>4, Apart
<1>8. Cardinality(V \cap Putters) = 0
  BY <1>7, FS_EmptySet
<1>9. /\ WokenOf(Putters)' = ((woken \ {t}) \cup V) \cap Putters
      /\ WokenOf(Getters)' = ((woken \ {t}) \cup V) \cap Getters
      /\ WokenOf(Putters) = woken \cap Putters
      /\ WokenOf(Getters) = woken \cap Getters
  BY <1>1 DEF WokenOf, Putters, Getters, Of
<1>10. /\ Cardinality(WokenOf(Putters)) \in Nat
       /\ Cardinality(WokenOf(Putters)') \in Nat
       /\ Cardinality(WokenOf(Putters)') >= Cardinality(WokenOf(Putters)) - 1
  <2>1. IsFiniteSet(woken) /\ IsFiniteSet(V) /\ V \cap woken = {} /\ t \notin V
    BY <1>2, <1>4, <1>5
  <2>2. Counts(woken, V, Putters, t)
    BY <2>1, CountWoken
  <2> QED
    BY <1>8, <1>9, <2>2 DEF Counts
<1>11. /\ Cardinality(WokenOf(Getters)) \in Nat
       /\ Cardinality(WokenOf(Getters)') = Cardinality(WokenOf(Getters)) + Cardinality(V)
  <2>1. IsFiniteSet(woken) /\ IsFiniteSet(V) /\ V \cap woken = {} /\ t \notin V
    BY <1>2, <1>4, <1>5
  <2>2. Counts(woken, V, Getters, t)
    BY <2>1, CountWoken
  <2> QED
    BY <1>1, <1>7, <1>9, <2>2 DEF Counts
<1> QED
  BY <1>3, <1>4, <1>6, <1>10, <1>11

(* What a consumer does to the number of those on their way. *)
LEMMA ConsumerCounts ==
  ASSUME QueueInv, NEW t, NEW n, ConsumerRuns(t, n)
  PROVE  /\ Len(queue) \in Nat /\ n \in Nat /\ Len(queue') = Len(queue) - n
         /\ Cardinality(WokenOf(Putters)) \in Nat /\ Cardinality(WokenOf(Getters)) \in Nat
         /\ Cardinality(WokenOf(Putters)') \in Nat /\ Cardinality(WokenOf(Getters)') \in Nat
         /\ Cardinality(WokenOf(Getters)') >= Cardinality(WokenOf(Getters)) - 1
         /\ putters' # <<>> =>
              Cardinality(WokenOf(Putters)') = Cardinality(WokenOf(Putters)) + n
<1> DEFINE V == Wakes(putters, n)
<1>1. /\ t \in Tasks /\ t \notin Putters /\ Runs(t) /\ n \in Nat
      /\ Len(queue') = Len(queue) - n
      /\ woken' = (woken \ {t}) \cup V
      /\ \A u \in V : \E j \in 1..Len(putters) : u = putters[j]
  BY ConsumerFacts
<1>2. /\ queue \in Seq(Tasks) /\ putters \in Seq(Putters) /\ Distinct(putters)
      /\ IsFiniteSet(woken)
  BY DEF QueueInv, TypeOK, Asleep, Awake
<1>3. V \subseteq Putters /\ IsFiniteSet(V) /\ (n <= Len(putters) => Cardinality(V) = n)
  BY <1>1, <1>2, WakesCount
<1>4. V \cap woken = {} /\ t \notin V
  BY <1>1, RunnerIsOut DEF QueueInv, Asleep
<1>5. putters' # <<>> => n <= Len(putters)
  <2>1. putters' = Stay(putters, n)
    BY DEF ConsumerRuns, Take
  <2> QED
    BY <1>1, <1>2, <2>1, StayProperties
<1> HIDE DEF V
<1>6. V \cap Putters = V /\ V \cap Getters = {}
  BY <1>3, Apart
<1>7. Cardinality(V \cap Getters) = 0
  BY <1>6, FS_EmptySet
<1>8. /\ WokenOf(Putters)' = ((woken \ {t}) \cup V) \cap Putters
      /\ WokenOf(Getters)' = ((woken \ {t}) \cup V) \cap Getters
      /\ WokenOf(Putters) = woken \cap Putters
      /\ WokenOf(Getters) = woken \cap Getters
  BY <1>1 DEF WokenOf, Putters, Getters, Of
<1>9. /\ Cardinality(WokenOf(Getters)) \in Nat
      /\ Cardinality(WokenOf(Getters)') \in Nat
      /\ Cardinality(WokenOf(Getters)') >= Cardinality(WokenOf(Getters)) - 1
  <2>1. IsFiniteSet(woken) /\ IsFiniteSet(V) /\ V \cap woken = {} /\ t \notin V
    BY <1>2, <1>3, <1>4
  <2>2. Counts(woken, V, Getters, t)
    BY <2>1, CountWoken
  <2> QED
    BY <1>7, <1>8, <2>2 DEF Counts
<1>10. /\ Cardinality(WokenOf(Putters)) \in Nat
       /\ Cardinality(WokenOf(Putters)') \in Nat
       /\ Cardinality(WokenOf(Putters)') = Cardinality(WokenOf(Putters)) + Cardinality(V)
  <2>1. IsFiniteSet(woken) /\ IsFiniteSet(V) /\ V \cap woken = {} /\ t \notin V
    BY <1>2, <1>3, <1>4
  <2>2. Counts(woken, V, Putters, t)
    BY <2>1, CountWoken
  <2> QED
    BY <1>1, <1>6, <1>8, <2>2 DEF Counts
<1> QED
  BY <1>1, <1>2, <1>3, <1>5, <1>9, <1>10

-----------------------------------------------------------------------------
(* NoLostSlot is inductive over QueueInv: a step frees as many slots as it *)
(* wakes producers, and a producer that runs fills a slot or finds none.   *)
LEMMA SlotStep ==
  ASSUME QueueInv, NoLostSlot, [Next]_vars
  PROVE  NoLostSlot'
<1>1. ASSUME NEW t, ProducerStores(t) PROVE NoLostSlot'
  <2>1. putters' = putters
    BY <1>1 DEF ProducerStores, Store
  <2> QED
    BY <1>1, <2>1, StoreCounts, MaxSizeAssumption DEF NoLostSlot
<1>2. ASSUME NEW t, ProducerWaits(t) PROVE NoLostSlot'
  <2>1. Full /\ queue' = queue
    BY <1>2 DEF ProducerWaits
  <2>2. MaxSize - Len(queue') <= 0
    BY <2>1, MaxSizeAssumption DEF Full, Capacity, QueueInv, TypeOK
  <2>3. Cardinality(WokenOf(Putters)') \in Nat
    <3>1. QueueInv'
      BY <1>2, ProducerWaitsStep
    <3>2. IsFiniteSet(woken') /\ WokenOf(Putters)' \subseteq woken'
      BY <3>1 DEF QueueInv, Awake, WokenOf
    <3> QED
      BY <3>2, FS_Subset, FS_CardinalityType
  <2>4. Len(queue') \in Nat
    BY <2>1 DEF QueueInv, TypeOK
  <2> QED
    BY <2>2, <2>3, <2>4, MaxSizeAssumption DEF NoLostSlot
<1>3. ASSUME NEW t, NobodyRuns(t) PROVE NoLostSlot'
  BY <1>3 DEF NobodyRuns, Fail, NoLostSlot, WokenOf, Putters, Of
<1>4. ASSUME NEW t, NEW n, ConsumerRuns(t, n) PROVE NoLostSlot'
  <2>1. putters' # <<>> => putters # <<>>
    BY <1>4, StayProperties DEF ConsumerRuns, Take, QueueInv, TypeOK
  <2> QED
    BY <1>4, <2>1, ConsumerCounts, MaxSizeAssumption DEF NoLostSlot
<1>5. CASE UNCHANGED vars
  BY <1>5 DEF vars, NoLostSlot, WokenOf, Putters, Of
<1>6. ASSUME NEW t \in Tasks,
             Put(t) \/ PutNowait(t) \/ Get(t) \/ GetNowait(t) \/ GetBatch(t)
      PROVE  NoLostSlot'
  BY <1>1, <1>2, <1>3, <1>4, <1>6, StepOfTask DEF ConsumerEnds, ConsumerWaits
<1> QED
  BY <1>5, <1>6 DEF Next

(* While producers wait for a slot of a bounded queue, every free slot has *)
(* a woken producer on its way to it, whatever calls share the queue: the  *)
(* get_nowait of every get, and of every item of a get_batch, wakes one.   *)
THEOREM NoSlotIsLost == Spec => []NoLostSlot
<1>1. Init => NoLostSlot
  BY DEF Init, NoLostSlot
<1>2. QueueInv /\ NoLostSlot /\ [Next]_vars => NoLostSlot'
  BY SlotStep
<1> QED
  BY <1>1, <1>2, QueueInvInit, QueueInvStep, PTL DEF Spec

-----------------------------------------------------------------------------
(* A get_batch shares its queue with no other consumer. *)
BatchAlone ==
  \A made \in Workloads :
    \/ \A t \in made : Op[t] # "get_batch"
    \/ \A t, u \in made \cap Getters : t = u

(* So the calls that are made are of one of two kinds, and stay so. *)
NoBatchMade == \A t \in Tasks : Op[t] = "get_batch" => pc[t] = "unused"
OneConsumerMade == \A t, u \in Getters : pc[t] # "unused" /\ pc[u] # "unused" => t = u

(* They are when the queue is new. *)
LEMMA MadeInit ==
  ASSUME BatchAlone, Init
  PROVE  NoBatchMade \/ OneConsumerMade
<1>1. PICK made \in Workloads : pc = [t \in Tasks |-> IF t \in made THEN "called" ELSE "unused"]
  BY DEF Init
<1>2. CASE \A t \in made : Op[t] # "get_batch"
  BY <1>1, <1>2 DEF NoBatchMade
<1>3. CASE \A t, u \in made \cap Getters : t = u
  <2>1. \A t \in Getters : pc[t] # "unused" => t \in made
    BY <1>1, Apart
  <2> QED
    BY <1>3, <2>1 DEF OneConsumerMade
<1> QED
  BY <1>1, <1>2, <1>3 DEF BatchAlone

(* No step makes a call. *)
LEMMA MadeStep ==
  ASSUME QueueInv, [Next]_vars
  PROVE  /\ NoBatchMade => NoBatchMade'
         /\ OneConsumerMade => OneConsumerMade'
<1>1. \A u \in Tasks : pc'[u] = "unused" <=> pc[u] = "unused"
  <2>1. ASSUME NEW t \in Tasks,
               Put(t) \/ PutNowait(t) \/ Get(t) \/ GetNowait(t) \/ GetBatch(t)
        PROVE  \A u \in Tasks : pc'[u] = "unused" <=> pc[u] = "unused"
    <3>1. pc[t] # "unused"
      BY <2>1 DEF QueueInv, Awake, Runs, Put, PutNowait, Get, GetNowait, GetBatch
    <3>2. \E end \in {"done", "waiting", "raised"} : pc' = [pc EXCEPT ![t] = end]
      BY <2>1 DEF Put, PutNowait, Get, GetNowait, GetBatch, Store, Fail, WaitForItem
    <3> QED
      BY <3>1, <3>2 DEF QueueInv, TypeOK
  <2>2. CASE UNCHANGED vars
    BY <2>2 DEF vars
  <2> QED
    BY <2>1, <2>2 DEF Next
<1> QED
  BY <1>1, Apart DEF NoBatchMade, OneConsumerMade, Getters, Of

(* NoLostItem is inductive as well, when every consumer that runs takes    *)
(* the item it was woken for or finds the queue empty.                     *)
LEMMA ItemStep ==
  ASSUME NoBatchMade, QueueInv, NoLostItem, [Next]_vars
  PROVE  NoLostItem'
<1>1. ASSUME NEW t, ProducerStores(t) PROVE NoLostItem'
  <2>1. getters' # <<>> => getters # <<>>
    BY <1>1, StayProperties DEF ProducerStores, Store, QueueInv, TypeOK
  <2> QED
    BY <1>1, <2>1, StoreCounts DEF NoLostItem
<1>2. ASSUME NEW t, ProducerWaits(t) PROVE NoLostItem'
  <2>1. /\ t \notin Getters /\ queue' = queue /\ getters' = getters
        /\ woken' = woken \ {t}
    BY <1>2, Apart DEF ProducerWaits
  <2>2. WokenOf(Getters)' = WokenOf(Getters)
    BY <2>1 DEF WokenOf, Getters, Of
  <2> QED
    BY <2>1, <2>2 DEF NoLostItem
<1>3. ASSUME NEW t, NobodyRuns(t) PROVE NoLostItem'
  BY <1>3 DEF NobodyRuns, Fail, NoLostItem, WokenOf, Getters, Of
<1>4. ASSUME NEW t, ConsumerEnds(t, 1) PROVE NoLostItem'
  <2>1. ConsumerRuns(t, 1) /\ getters' = getters
    BY <1>4 DEF ConsumerEnds
  <2> QED
    BY <2>1, ConsumerCounts DEF NoLostItem
<1>5. ASSUME NEW t, NEW n, ConsumerWaits(t, n) PROVE NoLostItem'
  <2>1. ConsumerRuns(t, n) /\ n = Len(queue)
    BY <1>5 DEF ConsumerWaits
  <2> QED
    BY <2>1, ConsumerCounts DEF NoLostItem
<1>6. CASE UNCHANGED vars
  BY <1>6 DEF vars, NoLostItem, WokenOf, Getters, Of
<1>7. ASSUME NEW t \in Tasks,
             Put(t) \/ PutNowait(t) \/ Get(t) \/ GetNowait(t) \/ GetBatch(t)
      PROVE  NoLostItem'
  <2>1. Op[t] # "get_batch"
    <3>1. Runs(t)
      BY <1>7 DEF Put, PutNowait, Get, GetNowait, GetBatch
    <3> QED
      BY <3>1 DEF NoBatchMade, QueueInv, Awake, Runs
  <2> QED
    BY <1>1, <1>2, <1>3, <1>4, <1>5, <1>7, <2>1, StepOfTask
<1> QED
  BY <1>6, <1>7 DEF Next

(* A consumer that has the queue for itself waits for an empty queue only. *)
EmptyWait == getters # <<>> => queue = <<>>

(* A put wakes it before anything is in the queue. *)
LEMMA EmptyWaitStep ==
  ASSUME OneConsumerMade, QueueInv, EmptyWait, [Next]_vars
  PROVE  EmptyWait'
<1>1. /\ queue \in Seq(Tasks) /\ getters \in Seq(Getters) /\ Distinct(getters)
      /\ \A i \in 1..Len(getters) : getters[i] \in Getters /\ pc[getters[i]] = "waiting"
  BY DEF QueueInv, TypeOK, Asleep
<1>2. ASSUME NEW t, ProducerStores(t) PROVE EmptyWait'
  <2>1. getters' = Stay(getters, 1)
    BY <1>2 DEF ProducerStores, Store
  <2>2. Len(getters) <= 1
    <3> SUFFICES ASSUME Len(getters) > 1 PROVE FALSE
      BY <1>1
    <3>1. 1 \in 1..Len(getters) /\ 2 \in 1..Len(getters)
      BY <1>1
    <3>2. getters[1] = getters[2]
      BY <1>1, <3>1 DEF OneConsumerMade
    <3> QED
      BY <1>1, <3>1, <3>2 DEF Distinct
  <2>3. getters' = <<>>
    BY <1>1, <2>1, <2>2, StayProperties
  <2> QED
    BY <2>3 DEF EmptyWait
<1>3. ASSUME NEW t, ProducerWaits(t) \/ NobodyRuns(t) PROVE EmptyWait'
  BY <1>3 DEF ProducerWaits, NobodyRuns, Fail, EmptyWait
<1>4. ASSUME NEW t, NEW n, ConsumerEnds(t, n) PROVE EmptyWait'
  <2>1. /\ getters' = getters /\ ConsumerRuns(t, n)
        /\ queue' \in Seq(Tasks) /\ Len(queue') = Len(queue) - n /\ n \in Nat
    BY <1>4, ConsumerFacts DEF ConsumerEnds
  <2>2. queue = <<>> => queue' = <<>>
    <3>1. Len(<<>>) = 0
      OBVIOUS
    <3>2. Len(queue') \in Nat
      BY <2>1
    <3> QED
      BY <2>1, <3>1, <3>2, EmptySeq
  <2> QED
    BY <2>1, <2>2 DEF EmptyWait
<1>5. ASSUME NEW t, NEW n, ConsumerWaits(t, n) PROVE EmptyWait'
  <2>1. /\ n = Len(queue) /\ ConsumerRuns(t, n)
        /\ queue' \in Seq(Tasks) /\ Len(queue') = Len(queue) - n
    BY <1>5, ConsumerFacts DEF ConsumerWaits
  <2>2. Len(queue') = 0
    BY <1>1, <2>1
  <2> QED
    BY <2>1, <2>2, EmptySeq DEF EmptyWait
<1>6. CASE UNCHANGED vars
  BY <1>6 DEF vars, EmptyWait
<1>7. ASSUME NEW t \in Tasks,
             Put(t) \/ PutNowait(t) \/ Get(t) \/ GetNowait(t) \/ GetBatch(t)
      PROVE  EmptyWait'
  BY <1>2, <1>3, <1>4, <1>5, <1>7, StepOfTask
<1> QED
  BY <1>6, <1>7 DEF Next

(* What is invariant of either kind of calls. *)
ItemInv == \/ NoBatchMade /\ NoLostItem
           \/ OneConsumerMade /\ EmptyWait

(* Either way no wake-up is lost. *)
LEMMA ItemInvImplies == QueueInv /\ ItemInv => NoLostItem
<1> SUFFICES ASSUME QueueInv, EmptyWait PROVE NoLostItem
  BY DEF ItemInv
<1>1. IsFiniteSet(WokenOf(Getters))
  <2>1. IsFiniteSet(woken) /\ WokenOf(Getters) \subseteq woken
    BY DEF QueueInv, Awake, WokenOf
  <2> QED
    BY <2>1, FS_Subset
<1>2. Cardinality(WokenOf(Getters)) \in Nat
  BY <1>1, FS_CardinalityType
<1> QED
  BY <1>2 DEF EmptyWait, NoLostItem

(* While consumers wait, every item has a woken consumer on its way to it: *)
(* for any mix of put, get and their nowait forms, and for producers with  *)
(* one consumer of batches.  A get_batch may end a wait without taking     *)
(* what woke it, so that it must not share the queue with other consumers. *)
THEOREM NoItemIsLost == BatchAlone /\ Spec => []NoLostItem
<1> SUFFICES ASSUME BatchAlone PROVE Spec => []NoLostItem
  OBVIOUS
<1>1. Init => ItemInv
  BY MadeInit DEF Init, NoLostItem, EmptyWait, ItemInv
<1>2. QueueInv /\ ItemInv /\ [Next]_vars => ItemInv'
  BY ItemStep, EmptyWaitStep, MadeStep DEF ItemInv
<1> QED
  BY <1>1, <1>2, ItemInvImplies, QueueInvInit, QueueInvStep, PTL DEF Spec

-----------------------------------------------------------------------------
(* Batches.  A sum over no items is zero. *)
LEMMA NoWeight == WeightOf(<<>>) = 0
<1> DEFINE add(i, sum) == sum + Weight[<<>>[i]]
           Body(f) == [s \in SUBSET (1..Len(<<>>)) |->
                         IF s = {} THEN 0
                         ELSE add(Max(s), f[s \ {Max(s)}])]
           total == CHOOSE f : f = Body(f)
<1>1. 1..Len(<<>>) = {} /\ SUBSET (1..Len(<<>>)) = {{}}
  OBVIOUS
<1>2. WeightOf(<<>>) = total[{}]
  BY <1>1 DEF WeightOf, FoldLeft, MapThenFoldSet
<1>3. \E f : f = Body(f)
  <2> DEFINE zero == [s \in {{}} |-> 0]
  <2>1. zero = Body(zero)
    BY <1>1
  <2> QED
    BY <2>1
<1>4. total = Body(total)
  BY <1>3
<1>5. Body(total)[{}] = 0
  BY <1>1
<1> QED
  BY <1>2, <1>4, <1>5

(* An item in the queue is there once, was put by a call that is done, and *)
(* is in no batch; so are the items that were taken put by calls that are  *)
(* done.                                                                   *)
StoredInv ==
  /\ Distinct(queue)
  /\ \A i \in 1..Len(queue) : pc[queue[i]] = "done" /\ queue[i] \in Of({"put", "put_nowait"})
  /\ \A i \in 1..Len(queue), u \in Tasks : \A j \in 1..Len(got[u]) : got[u][j] # queue[i]
  /\ \A u \in Tasks : \A j \in 1..Len(got[u]) : pc[got[u][j]] = "done"

(* A task that runs is not done, and nothing but it changes pc. *)
LEMMA RunnerIsNotDone ==
  ASSUME QueueInv, NEW t \in Tasks, Runs(t)
  PROVE  pc[t] # "done"
BY DEF QueueInv, Awake, Runs

(* The first items of a sequence. *)
LEMMA FrontProperties ==
  ASSUME NEW S, NEW s \in Seq(S), NEW n \in Nat, n <= Len(s)
  PROVE  /\ SubSeq(s, 1, n) \in Seq(S)
         /\ Len(SubSeq(s, 1, n)) = n
         /\ \A j \in 1..n : SubSeq(s, 1, n)[j] = s[j]
<1>1. \A i \in 1..n : s[i] \in S
  OBVIOUS
<1>2. /\ SubSeq(s, 1, n) \in Seq(S)
      /\ Len(SubSeq(s, 1, n)) = IF 1 <= n THEN n - 1 + 1 ELSE 0
      /\ \A i \in 1..(n - 1 + 1) : SubSeq(s, 1, n)[i] = s[1 + i - 1]
  BY <1>1, SubSeqProperties
<1>3. \A j \in 1..n : j \in 1..(n - 1 + 1) /\ 1 + j - 1 = j
  OBVIOUS
<1>4. (IF 1 <= n THEN n - 1 + 1 ELSE 0) = n
  OBVIOUS
<1> QED
  BY <1>2, <1>3, <1>4

(* An item appended to the second of two sequences. *)
LEMMA AppendToSecond ==
  ASSUME NEW g \in Seq(Tasks), NEW f \in Seq(Tasks), NEW x \in Tasks
  PROVE  Append(g \o f, x) = g \o Append(f, x)
<1>1. PICK e \in Seq(Tasks) : e = <<x>>
  <2>1. <<x>> \in Seq(Tasks)
    OBVIOUS
  <2> QED
    BY <2>1
<1>2. (g \o f) \o e = g \o (f \o e)
  BY ConcatAssociative
<1>3. Append(f, x) = f \o e
  BY <1>1, AppendIsConcat
<1>4. Append(g \o f, x) = (g \o f) \o e
  <2>1. PICK h \in Seq(Tasks) : h = g \o f
    BY ConcatProperties
  <2>2. Append(h, x) = h \o e
    BY <1>1, AppendIsConcat
  <2> QED
    BY <2>1, <2>2
<1> QED
  BY <1>2, <1>3, <1>4

(* A put appends an item that was nowhere. *)
LEMMA StoredStore ==
  ASSUME QueueInv, StoredInv, NEW t, ProducerStores(t)
  PROVE  StoredInv'
<1>1. /\ t \in Tasks /\ t \in Of({"put", "put_nowait"}) /\ Runs(t)
      /\ queue' = Append(queue, t) /\ got' = got
      /\ pc' = [pc EXCEPT ![t] = "done"]
  BY DEF ProducerStores, Store, Of
<1>2. /\ queue \in Seq(Tasks) /\ got \in [Tasks -> Seq(Tasks)]
      /\ pc \in [Tasks -> {"unused", "called", "waiting", "done", "raised"}]
  BY DEF QueueInv, TypeOK
<1>3. pc[t] # "done"
  BY <1>1, RunnerIsNotDone
<1>4. \A i \in 1..Len(queue) : queue[i] # t
  BY <1>3 DEF StoredInv
<1>5. /\ Len(queue') = Len(queue) + 1 /\ queue'[Len(queue) + 1] = t
      /\ \A i \in 1..Len(queue) : queue'[i] = queue[i]
  BY <1>1, <1>2, AppendProperties
<1>6. \A i \in 1..Len(queue') : i \in 1..Len(queue) \/ i = Len(queue) + 1
  BY <1>2, <1>5
<1>7. Distinct(queue')
  BY <1>1, <1>2, <1>4, JoinDeque DEF StoredInv
<1>8. \A x \in Tasks : pc'[x] = IF x = t THEN "done" ELSE pc[x]
  BY <1>1, <1>2
<1>9. \A i \in 1..Len(queue') :
        pc'[queue'[i]] = "done" /\ queue'[i] \in Of({"put", "put_nowait"})
  <2>1. \A i \in 1..Len(queue) :
          /\ queue[i] \in Tasks /\ pc[queue[i]] = "done"
          /\ queue[i] \in Of({"put", "put_nowait"})
    BY <1>2 DEF StoredInv
  <2> QED
    BY <1>1, <1>5, <1>6, <1>8, <2>1
<1>10. \A u \in Tasks : \A j \in 1..Len(got[u]) : got[u][j] \in Tasks /\ got[u][j] # t
  BY <1>2, <1>3 DEF StoredInv
<1>11. \A i \in 1..Len(queue'), u \in Tasks :
         \A j \in 1..Len(got[u]) : got[u][j] # queue'[i]
  BY <1>5, <1>6, <1>10 DEF StoredInv
<1>12. \A u \in Tasks : \A j \in 1..Len(got[u]) : pc'[got[u][j]] = "done"
  BY <1>8, <1>10 DEF StoredInv
<1> QED
  BY <1>1, <1>7, <1>9, <1>11, <1>12 DEF StoredInv

(* A consumer moves items from the front of the queue to its own. *)
LEMMA StoredTake ==
  ASSUME QueueInv, StoredInv, NEW t, NEW n, ConsumerRuns(t, n),
         NEW p, p # "raised", pc' = [pc EXCEPT ![t] = p]
  PROVE  StoredInv'
<1>1. /\ t \in Tasks /\ Runs(t) /\ n \in 0..Len(queue)
      /\ queue' = SubSeq(queue, n + 1, Len(queue))
      /\ got' = [got EXCEPT ![t] = got[t] \o SubSeq(queue, 1, n)]
  BY DEF ConsumerRuns, Take
<1>2. /\ queue \in Seq(Tasks) /\ got \in [Tasks -> Seq(Tasks)]
      /\ pc \in [Tasks -> {"unused", "called", "waiting", "done", "raised"}]
  BY DEF QueueInv, TypeOK
<1>3. n \in Nat /\ n <= Len(queue) /\ Len(queue) \in Nat
  BY <1>1, <1>2
<1>4. pc[t] # "done"
  BY <1>1, RunnerIsNotDone
<1>5. \A x \in Tasks : pc[x] = "done" => pc'[x] = "done"
  BY <1>2, <1>4
<1>6. /\ Len(queue') = Len(queue) - n
      /\ \A i \in 1..(Len(queue) - n) : queue'[i] = queue[n + i]
  <2>1. \A i \in (n + 1)..Len(queue) : queue[i] \in Tasks
    BY <1>2, <1>3
  <2>2. /\ Len(queue') = IF n + 1 <= Len(queue) THEN Len(queue) - (n + 1) + 1 ELSE 0
        /\ \A i \in 1..(Len(queue) - (n + 1) + 1) : queue'[i] = queue[n + 1 + i - 1]
    BY <1>1, <1>3, <2>1, SubSeqProperties
  <2>3. \A i \in 1..(Len(queue) - n) :
          i \in 1..(Len(queue) - (n + 1) + 1) /\ n + 1 + i - 1 = n + i
    BY <1>3
  <2> QED
    BY <1>3, <2>2, <2>3
<1>7. \A i \in 1..(Len(queue) - n) : n + i \in 1..Len(queue) /\ n + i > n
  BY <1>3
<1>8. PICK front \in Seq(Tasks) :
        /\ front = SubSeq(queue, 1, n) /\ Len(front) = n
        /\ \A j \in 1..n : front[j] = queue[j]
  <2>1. /\ SubSeq(queue, 1, n) \in Seq(Tasks) /\ Len(SubSeq(queue, 1, n)) = n
        /\ \A j \in 1..n : SubSeq(queue, 1, n)[j] = queue[j]
    BY <1>2, <1>3, FrontProperties
  <2> QED
    BY <2>1
<1>9. \A u \in Tasks : \A j \in 1..Len(got'[u]) :
        \/ \E k \in 1..Len(got[u]) : got'[u][j] = got[u][k]
        \/ \E k \in 1..n : got'[u][j] = queue[k]
  <2> SUFFICES ASSUME NEW u \in Tasks, NEW j \in 1..Len(got'[u])
               PROVE  \/ \E k \in 1..Len(got[u]) : got'[u][j] = got[u][k]
                      \/ \E k \in 1..n : got'[u][j] = queue[k]
    OBVIOUS
  <2>1. CASE u # t
    BY <2>1, <1>1, <1>2
  <2>2. CASE u = t
    <3>1. got'[u] = got[u] \o front /\ got[u] \in Seq(Tasks)
      BY <2>2, <1>1, <1>2, <1>8
    <3>2. /\ Len(got'[u]) = Len(got[u]) + n
          /\ \A i \in 1..(Len(got[u]) + n) :
               got'[u][i] = IF i <= Len(got[u]) THEN got[u][i] ELSE front[i - Len(got[u])]
      BY <3>1, <1>8, ConcatProperties
    <3>3. Len(got[u]) \in Nat
      BY <3>1
    <3>4. CASE j <= Len(got[u])
      BY <3>2, <3>3, <3>4
    <3>5. CASE ~(j <= Len(got[u]))
      <4>1. j - Len(got[u]) \in 1..n
        BY <3>2, <3>3, <3>5, <1>3
      <4> QED
        BY <3>2, <3>5, <4>1, <1>8
    <3> QED
      BY <3>4, <3>5
  <2> QED
    BY <2>1, <2>2
<1>10. Distinct(queue')
  <2> SUFFICES ASSUME NEW i \in 1..(Len(queue) - n), NEW j \in 1..(Len(queue) - n),
                      queue[n + i] = queue[n + j]
               PROVE  i = j
    BY <1>6 DEF Distinct
  <2>1. n + i = n + j
    BY <1>7 DEF StoredInv, Distinct
  <2> QED
    BY <2>1, <1>3
<1>11. \A i \in 1..Len(queue') :
         pc'[queue'[i]] = "done" /\ queue'[i] \in Of({"put", "put_nowait"})
  <2>1. \A i \in 1..Len(queue) :
          /\ queue[i] \in Tasks /\ pc[queue[i]] = "done"
          /\ queue[i] \in Of({"put", "put_nowait"})
    BY <1>2 DEF StoredInv
  <2> QED
    BY <1>5, <1>6, <1>7, <2>1
<1>12. \A k \in 1..n, i \in 1..(Len(queue) - n) : queue[k] # queue[n + i]
  <2>1. \A k \in 1..n : k \in 1..Len(queue) /\ k <= n
    BY <1>3
  <2>2. \A k \in 1..n, i \in 1..(Len(queue) - n) : k # n + i
    BY <1>3
  <2> QED
    BY <2>1, <2>2, <1>7 DEF StoredInv, Distinct
<1>13. \A i \in 1..Len(queue'), u \in Tasks :
         \A j \in 1..Len(got'[u]) : got'[u][j] # queue'[i]
  <2> SUFFICES ASSUME NEW i \in 1..(Len(queue) - n), NEW u \in Tasks,
                      NEW j \in 1..Len(got'[u])
               PROVE  got'[u][j] # queue[n + i]
    BY <1>6
  <2>1. \A k \in 1..Len(got[u]) : got[u][k] # queue[n + i]
    BY <1>7 DEF StoredInv
  <2> QED
    BY <2>1, <1>9, <1>12
<1>14. \A u \in Tasks : \A j \in 1..Len(got'[u]) : pc'[got'[u][j]] = "done"
  <2> SUFFICES ASSUME NEW u \in Tasks, NEW j \in 1..Len(got'[u])
               PROVE  pc'[got'[u][j]] = "done"
    OBVIOUS
  <2>1. \A k \in 1..Len(got[u]) : pc'[got[u][k]] = "done"
    BY <1>2, <1>5 DEF StoredInv
  <2>2. \A k \in 1..n : pc'[queue[k]] = "done"
    BY <1>2, <1>3, <1>5 DEF StoredInv
  <2> QED
    BY <2>1, <2>2, <1>9
<1> QED
  BY <1>10, <1>11, <1>13, <1>14 DEF StoredInv

LEMMA StoredInvInit == Init => StoredInv
<1>1. 1..Len(<<>>) = {}
  OBVIOUS
<1> QED
  BY <1>1 DEF Init, StoredInv, Distinct

LEMMA StoredInvStep == QueueInv /\ StoredInv /\ [Next]_vars => StoredInv'
<1> SUFFICES ASSUME QueueInv, StoredInv, [Next]_vars PROVE StoredInv'
  OBVIOUS
<1>1. ASSUME NEW t \in Tasks,
             Put(t) \/ PutNowait(t) \/ Get(t) \/ GetNowait(t) \/ GetBatch(t)
      PROVE  StoredInv'
  <2>1. CASE ProducerStores(t)
    BY <2>1, StoredStore
  <2>2. CASE ProducerWaits(t) \/ NobodyRuns(t)
    <3>1. /\ queue' = queue /\ got' = got
          /\ pc' = [pc EXCEPT ![t] = "waiting"] \/ pc' = [pc EXCEPT ![t] = "raised"]
          /\ Runs(t)
      BY <2>2 DEF ProducerWaits, NobodyRuns, Fail
    <3>2. /\ pc \in [Tasks -> {"unused", "called", "waiting", "done", "raised"}]
          /\ pc[t] # "done"
      BY <3>1, RunnerIsNotDone DEF QueueInv, TypeOK
    <3>3. \A x : pc[x] = "done" /\ x \in Tasks => pc'[x] = "done"
      BY <3>1, <3>2
    <3>4. queue \in Seq(Tasks) /\ got \in [Tasks -> Seq(Tasks)]
      BY DEF QueueInv, TypeOK
    <3>5. \A u \in Tasks : \A j \in 1..Len(got[u]) : got[u][j] \in Tasks
      BY <3>4
    <3>6. \A i \in 1..Len(queue) : queue[i] \in Tasks
      BY <3>4
    <3> QED
      BY <3>1, <3>3, <3>5, <3>6 DEF StoredInv
  <2>3. ASSUME NEW n \in 0..Len(queue), ConsumerEnds(t, n)
        PROVE  StoredInv'
    <3>1. ConsumerRuns(t, n) /\ pc' = [pc EXCEPT ![t] = "done"] /\ "done" # "raised"
      BY <2>3 DEF ConsumerEnds
    <3> QED
      BY <3>1, StoredTake
  <2>4. ASSUME NEW n \in 0..Len(queue), ConsumerWaits(t, n)
        PROVE  StoredInv'
    <3>1. /\ ConsumerRuns(t, n) /\ pc' = [pc EXCEPT ![t] = "waiting"]
          /\ "waiting" # "raised"
      BY <2>4 DEF ConsumerWaits, WaitForItem
    <3> QED
      BY <3>1, StoredTake
  <2> QED
    BY <1>1, <2>1, <2>2, <2>3, <2>4, StepOfTask
<1>2. CASE UNCHANGED vars
  BY <1>2 DEF vars, StoredInv, Distinct
<1> QED
  BY <1>1, <1>2 DEF Next

(* What one get_batch has, and why it was handed over when it was. *)
BatchOf(u) ==
  /\ WeightOf(got[u]) <= Target[u]
  /\ pc[u] = "done" =>
       \/ got[u] # <<>> /\ WeightOf(got[u]) >= Target[u]
       \/ \E item \in Of({"put", "put_nowait"}) : CutBefore(u, item)

(* A run of its get_batch takes items that fit, and ends with the weight   *)
(* of its target or before an item that does not fit.                      *)
LEMMA BatchRun ==
  ASSUME QueueInv, StoredInv, NEW u \in Tasks, BatchOf(u), GetBatch(u)
  PROVE  BatchOf(u)'
<1>1. /\ got \in [Tasks -> Seq(Tasks)] /\ queue \in Seq(Tasks)
      /\ pc \in [Tasks -> {"unused", "called", "waiting", "done", "raised"}]
  BY DEF QueueInv, TypeOK
<1>2. PICK n \in 0..Len(queue) :
        /\ Reaches(u, n)
        /\ n < Len(queue) => ~Reaches(u, n + 1)
        /\ got' = [got EXCEPT ![u] = got[u] \o SubSeq(queue, 1, n)]
        /\ \/ /\ Complete(u, n) \/ n < Len(queue)
              /\ pc' = [pc EXCEPT ![u] = "done"]
           \/ pc' = [pc EXCEPT ![u] = "waiting"]
  BY DEF GetBatch, TakeBatch, Take, WaitForItem
<1>3. n \in Nat /\ n <= Len(queue) /\ Len(queue) \in Nat
  BY <1>1, <1>2
<1>4. /\ got'[u] = got[u] \o SubSeq(queue, 1, n)
      /\ WeightOf(got'[u]) = BatchWeight(u, n)
  BY <1>1, <1>2 DEF BatchWeight
<1>5. WeightOf(got'[u]) <= Target[u]
  <2>1. CASE n = 0
    <3>1. SubSeq(queue, 1, 0) = <<>>
      BY SubSeqEmpty
    <3>2. got[u] \o <<>> = got[u]
      BY <1>1, ConcatEmptySeq
    <3> QED
      BY <1>4, <2>1, <3>1, <3>2 DEF BatchOf
  <2>2. CASE n # 0
    <3>1. n \in 1..n
      BY <1>3, <2>2
    <3> QED
      BY <1>2, <1>4, <3>1 DEF Reaches, Fits
  <2> QED
    BY <2>1, <2>2
<1>6. PICK front \in Seq(Tasks) :
        /\ front = SubSeq(queue, 1, n) /\ Len(front) = n
        /\ \A j \in 1..n : front[j] = queue[j]
  <2>1. /\ SubSeq(queue, 1, n) \in Seq(Tasks) /\ Len(SubSeq(queue, 1, n)) = n
        /\ \A j \in 1..n : SubSeq(queue, 1, n)[j] = queue[j]
    BY <1>1, <1>3, FrontProperties
  <2> QED
    BY <2>1
<1>7. /\ got'[u] \in Seq(Tasks) /\ Len(got'[u]) = Len(got[u]) + n
      /\ Len(got[u]) \in Nat
      /\ \A i \in 1..(Len(got[u]) + n) :
           got'[u][i] = IF i <= Len(got[u]) THEN got[u][i] ELSE front[i - Len(got[u])]
  BY <1>1, <1>4, <1>6, ConcatProperties
<1>8. ASSUME Complete(u, n)
      PROVE  got'[u] # <<>> /\ WeightOf(got'[u]) >= Target[u]
  <2>1. n > 0 /\ BatchWeight(u, n) >= Target[u]
    BY <1>8 DEF Complete
  <2>2. Len(got'[u]) > 0
    BY <1>3, <1>7, <2>1
  <2> QED
    BY <1>4, <2>1, <2>2
<1>9. ASSUME n < Len(queue), ~Complete(u, n), pc' = [pc EXCEPT ![u] = "done"]
      PROVE  \E item \in Of({"put", "put_nowait"}) : CutBefore(u, item)'
  <2> DEFINE item == queue[n + 1]
  <2>1. ~Fits(u, n + 1)
    <3>1. PICK m \in 1..(n + 1) : ~(Fits(u, m) /\ ~Complete(u, m - 1))
      BY <1>2, <1>9 DEF Reaches
    <3>2. CASE m \in 1..n
      BY <1>2, <3>1, <3>2 DEF Reaches
    <3>3. CASE m = n + 1
      <4>1. m - 1 = n
        BY <1>3, <3>3
      <4> QED
        BY <1>9, <3>1, <3>3, <4>1
    <3> QED
      BY <1>3, <3>2, <3>3
  <2>2. n + 1 \in 1..Len(queue) /\ item \in Tasks
    BY <1>1, <1>3, <1>9
  <2>3. item \in Of({"put", "put_nowait"}) /\ pc[item] = "done"
    BY <2>2 DEF StoredInv
  <2>4. pc'[item] = "done"
    BY <1>1, <1>9, <2>2, <2>3
  <2>5. item \notin ToSet(got'[u])
    <3>1. \A j \in 1..Len(got[u]) : got[u][j] # item
      BY <2>2 DEF StoredInv
    <3>2. \A j \in 1..n : queue[j] # item
      <4>1. \A j \in 1..n : j \in 1..Len(queue) /\ j # n + 1
        BY <1>3
      <4> QED
        BY <2>2, <4>1 DEF StoredInv, Distinct
    <3>3. \A i \in 1..(Len(got[u]) + n) : got'[u][i] # item
      <4> SUFFICES ASSUME NEW i \in 1..(Len(got[u]) + n) PROVE got'[u][i] # item
        OBVIOUS
      <4>1. CASE i <= Len(got[u])
        BY <1>7, <3>1, <4>1
      <4>2. CASE ~(i <= Len(got[u]))
        <5>1. i - Len(got[u]) \in 1..n
          BY <1>3, <1>7, <4>2
        <5>2. got'[u][i] = queue[i - Len(got[u])]
          BY <1>6, <1>7, <4>2, <5>1
        <5> QED
          BY <3>2, <5>1, <5>2
      <4> QED
        BY <4>1, <4>2
    <3>4. DOMAIN got'[u] = 1..(Len(got[u]) + n)
      BY <1>7
    <3> QED
      BY <3>3, <3>4 DEF ToSet
  <2>6. Append(got'[u], item) = got[u] \o SubSeq(queue, 1, n + 1)
    <3>1. PICK longer \in Seq(Tasks) :
            /\ longer = SubSeq(queue, 1, n + 1) /\ Len(longer) = n + 1
            /\ \A j \in 1..(n + 1) : longer[j] = queue[j]
      <4>1. PICK m \in Nat : m = n + 1 /\ m <= Len(queue)
        BY <1>3, <1>9
      <4>2. /\ SubSeq(queue, 1, m) \in Seq(Tasks) /\ Len(SubSeq(queue, 1, m)) = m
            /\ \A j \in 1..m : SubSeq(queue, 1, m)[j] = queue[j]
        BY <1>1, <4>1, FrontProperties
      <4> QED
        BY <4>1, <4>2
    <3>2. longer = Append(front, item)
      <4>1. /\ Append(front, item) \in Seq(Tasks) /\ Len(Append(front, item)) = n + 1
            /\ \A i \in 1..n : Append(front, item)[i] = front[i]
            /\ Append(front, item)[n + 1] = item
        BY <1>6, <2>2, AppendProperties
      <4>2. \A i \in 1..(n + 1) : longer[i] = Append(front, item)[i]
        <5>1. \A i \in 1..(n + 1) : i \in 1..n \/ i = n + 1
          BY <1>3
        <5> QED
          BY <3>1, <4>1, <5>1, <1>6
      <4> QED
        BY <3>1, <4>1, <4>2, SeqEqual
    <3>3. PICK g \in Seq(Tasks) : g = got[u]
      BY <1>1
    <3>4. PICK x \in Tasks : x = item
      BY <2>2
    <3>5. Append(g \o front, x) = g \o Append(front, x)
      BY AppendToSecond
    <3> QED
      BY <1>4, <1>6, <3>1, <3>2, <3>3, <3>4, <3>5
  <2>7. ~(WeightOf(Append(got'[u], item)) <= Target[u])
    BY <2>1, <2>6 DEF Fits, BatchWeight
  <2> QED
    BY <2>3, <2>4, <2>5, <2>7 DEF CutBefore
<1>10. \/ pc'[u] # "done"
       \/ /\ pc' = [pc EXCEPT ![u] = "done"]
          /\ Complete(u, n) \/ n < Len(queue)
  BY <1>1, <1>2
<1> QED
  BY <1>5, <1>8, <1>9, <1>10 DEF BatchOf

(* Nobody else touches a batch, and one that was handed over stays as it is. *)
LEMMA BatchKept ==
  ASSUME QueueInv, NEW u \in Tasks, BatchOf(u),
         NEW t \in Tasks, t # u, Runs(t), got'[u] = got[u],
         NEW p, pc' = [pc EXCEPT ![t] = p]
  PROVE  BatchOf(u)'
<1>1. pc \in [Tasks -> {"unused", "called", "waiting", "done", "raised"}] /\ pc[t] # "done"
  BY RunnerIsNotDone DEF QueueInv, TypeOK
<1>2. pc'[u] = pc[u] /\ \A x \in Tasks : pc[x] = "done" => pc'[x] = "done"
  BY <1>1
<1>3. \A item \in Of({"put", "put_nowait"}) : CutBefore(u, item) => CutBefore(u, item)'
  BY <1>2 DEF CutBefore, Of
<1> QED
  BY <1>2, <1>3 DEF BatchOf

LEMMA BatchStep ==
  ASSUME QueueInv, StoredInv, BatchWithinTarget, [Next]_vars
  PROVE  BatchWithinTarget'
<1>1. got \in [Tasks -> Seq(Tasks)]
  BY DEF QueueInv, TypeOK
<1>2. SUFFICES ASSUME NEW u \in Tasks, Op[u] = "get_batch"
               PROVE  BatchOf(u)'
  BY DEF BatchWithinTarget, BatchOf, Of
<1>3. BatchOf(u)
  BY <1>2 DEF BatchWithinTarget, BatchOf, Of
<1>4. ASSUME NEW t \in Tasks,
             Put(t) \/ PutNowait(t) \/ Get(t) \/ GetNowait(t) \/ (GetBatch(t) /\ t # u)
      PROVE  BatchOf(u)'
  <2>1. t # u /\ Runs(t)
    BY <1>2, <1>4 DEF Put, PutNowait, Get, GetNowait, GetBatch
  <2>2. /\ got'[u] = got[u]
        /\ \E p : pc' = [pc EXCEPT ![t] = p]
    BY <1>1, <1>4, <2>1
       DEF Put, PutNowait, Get, GetNowait, GetBatch, TakeBatch, Store, Take, Fail, WaitForItem
  <2> QED
    BY <1>3, <2>1, <2>2, BatchKept
<1>5. ASSUME GetBatch(u)
      PROVE  BatchOf(u)'
  BY <1>3, <1>5, BatchRun
<1>6. CASE UNCHANGED vars
  BY <1>3, <1>6 DEF vars, BatchOf, CutBefore
<1> QED
  BY <1>4, <1>5, <1>6 DEF Next

(* The batch of a get_batch never weighs more than its target, however     *)
(* many times the call waits between two items and whatever other calls    *)
(* take meanwhile, and a call that hands over a batch of less was stopped  *)
(* by an item that was stored and that would exceed the target: the batch  *)
(* is empty only when that item alone does.                                *)
THEOREM BatchesWithinTarget == Spec => []BatchWithinTarget
<1>1. Init => BatchWithinTarget
  <2> SUFFICES ASSUME Init, NEW u \in Tasks PROVE WeightOf(got[u]) <= Target[u] /\ pc[u] # "done"
    BY DEF BatchWithinTarget, Of
  <2> QED
    BY NoWeight, WeightAssumption DEF Init
<1>2. QueueInv /\ StoredInv /\ BatchWithinTarget /\ [Next]_vars => BatchWithinTarget'
  BY BatchStep
<1> QED
  BY <1>1, <1>2, QueueInvInit, QueueInvStep, StoredInvInit, StoredInvStep, PTL DEF Spec
=============================================================================
