------------------------- MODULE DeviceLock_proofs -------------------------
(***************************************************************************)
(* Proofs about DeviceLock for any workers, accelerators and placement,    *)
(* when no worker nests its sections (MaxDepth = 1).                       *)
(***************************************************************************)
EXTENDS DeviceLock, SequenceTheorems, TLAPS

(* What the head of a deque leaves behind when it is removed: the others,  *)
(* each one place further to the front.                                    *)
LEMMA RemoveHead ==
  ASSUME NEW s \in Seq(Workers), Len(s) > 0
  PROVE  /\ RemoveAt(s, 1) \in Seq(Workers)
         /\ Len(RemoveAt(s, 1)) = Len(s) - 1
         /\ \A k \in 1..(Len(s) - 1) : RemoveAt(s, 1)[k] = s[k + 1]
<1> DEFINE t == SubSeq(s, 2, Len(s))
<1>1. Len(s) \in Nat /\ \A i \in 2..Len(s) : s[i] \in Workers
  OBVIOUS
<1>2. /\ t \in Seq(Workers)
      /\ Len(t) = IF 2 <= Len(s) THEN Len(s) - 2 + 1 ELSE 0
      /\ \A i \in 1..(Len(s) - 2 + 1) : t[i] = s[2 + i - 1]
  BY <1>1, SubSeqProperties
<1>3. RemoveAt(s, 1) = t
  <2>1. SubSeq(s, 1, 0) = <<>>
    BY SubSeqEmpty
  <2> QED
    BY <1>2, <2>1 DEF RemoveAt
<1> HIDE DEF t
<1>4. \A k \in 1..(Len(s) - 1) : t[k] = s[k + 1]
  BY <1>1, <1>2
<1> QED
  BY <1>1, <1>2, <1>3, <1>4

-----------------------------------------------------------------------------
(* The inductive invariant.  A worker that asked has every one of its      *)
(* devices or waits for it; a deque holds a worker once, and only its head *)
(* may have been woken, which leaves the lock free for it.                 *)
Queued ==
  \A d \in Devices : \A i \in 1..Len(waiters[d]) :
    /\ pc[waiters[d][i]] = "acquiring"
    /\ d \in Devs[waiters[d][i]]
    /\ owner[d] # waiters[d][i]
    /\ \A j \in 1..Len(waiters[d]) : waiters[d][i] = waiters[d][j] => i = j

HeadWoken ==
  \A d \in Devices : \A w \in woken[d] :
    /\ Len(waiters[d]) > 0
    /\ w = waiters[d][1]
    /\ d \notin locked

Owned ==
  \A d \in Devices :
    /\ d \in locked <=> owner[d] # NoWorker
    /\ \A w \in Workers : owner[d] = w =>
         d \in Devs[w] /\ (pc[w] = "acquiring" \/ InSection(w))

HasOrWaits(w, d) ==
  owner[d] = w \/ \E i \in 1..Len(waiters[d]) : waiters[d][i] = w

Asked ==
  \A w \in Workers :
    /\ pc[w] = "acquiring" => \A d \in Devs[w] : HasOrWaits(w, d)
    /\ InSection(w) => \A d \in Devs[w] : owner[d] = w
    /\ InSection(w) => pc[w] = "running"
    /\ pc[w] # "failed"

(* The order in which workers asked is the order of every deque they share. *)
Order ==
  \A v, w \in Workers : <<v, w>> \in before =>
    /\ v # w /\ pc[v] = "acquiring" /\ pc[w] = "acquiring"
    /\ \A d \in Devs[v] \cap Devs[w] :
         /\ owner[d] # w
         /\ \A i, j \in 1..Len(waiters[d]) :
              waiters[d][i] = v /\ waiters[d][j] = w => i < j

IInv == TypeOK /\ Queued /\ HeadWoken /\ Owned /\ Asked /\ Order

-----------------------------------------------------------------------------
(* At any nesting depth the types are inductive once it is known that a    *)
(* worker asks only while it may nest further.                             *)
Nesting == \A w \in Workers : pc[w] = "acquiring" => depth[w] < MaxDepth

TypeInv == TypeOK /\ Nesting

(* It holds of every step. *)
LEMMA TypeStep == TypeInv /\ [Next]_vars => TypeInv'
<1> SUFFICES ASSUME TypeInv, [Next]_vars PROVE TypeInv'
  OBVIOUS
<1> USE DevsAssumption, NoWorkerAssumption, MaxDepthAssumption
    DEF TypeInv, TypeOK, Nesting
<1>1. ASSUME NEW w \in Workers, AcquireDevices(w) PROVE TypeInv'
  <2>1. waiters' \in [Devices -> Seq(Workers)]
    BY <1>1 DEF AcquireDevices, Enqueue
  <2>2. before' \subseteq Workers \X Workers
    BY <1>1 DEF AcquireDevices, Enqueue
  <2> QED
    BY <1>1, <2>1, <2>2 DEF AcquireDevices, Enqueue
<1>2. ASSUME NEW w \in Workers, NEW d \in Devs[w], Resume(w, d) PROVE TypeInv'
  <2>1. d \in Devices
    OBVIOUS
  <2>2. PICK i \in 1..Len(waiters[d]) :
          waiters' = [waiters EXCEPT ![d] = RemoveAt(@, i)]
    BY <1>2 DEF Resume
  <2>3. RemoveAt(waiters[d], i) \in Seq(Workers)
    <3>1. SubSeq(waiters[d], 1, i - 1) \in Seq(Workers)
      BY <2>1, SubSeqProperties
    <3>2. SubSeq(waiters[d], i + 1, Len(waiters[d])) \in Seq(Workers)
      BY <2>1, SubSeqProperties
    <3> QED
      BY <3>1, <3>2, ConcatProperties DEF RemoveAt
  <2> QED
    BY <1>2, <2>1, <2>2, <2>3 DEF Resume
<1>3. ASSUME NEW w \in Workers, Enter(w) PROVE TypeInv'
  <2>1. depth' \in [Workers -> 0..MaxDepth]
    BY <1>3 DEF Enter
  <2> QED
    BY <1>3, <2>1 DEF Enter, locks
<1>4. ASSUME NEW w \in Workers, ReleaseDevices(w) PROVE TypeInv'
  <2>1. depth' \in [Workers -> 0..MaxDepth]
    BY <1>4 DEF ReleaseDevices
  <2>2. woken' \in [Devices -> SUBSET Workers]
    <3>1. \A d \in Devices : WakeUpFirst(d) \in SUBSET Workers
      BY DEF WakeUpFirst
    <3> QED
      BY <1>4, <3>1 DEF ReleaseDevices
  <2> QED
    BY <1>4, <2>1, <2>2 DEF ReleaseDevices
<1> QED
  BY <1>1, <1>2, <1>3, <1>4 DEF Next, vars, locks

(* Every variable keeps its type: locks are free or owned by workers,      *)
(* deques hold workers, and no section is nested deeper than the bound.    *)
THEOREM TypeCorrect == Spec => []TypeOK
<1>1. Init => TypeInv
  BY NoWorkerAssumption, MaxDepthAssumption DEF Init, TypeInv, TypeOK, Nesting
<1> QED
  BY <1>1, TypeStep, PTL DEF Spec, TypeInv

-----------------------------------------------------------------------------
(* One lemma per action: it preserves the invariant.  MaxDepth = 1 is what *)
(* keeps the reentrant return of acquire out of the way.                   *)
LEMMA AcquireStep ==
  ASSUME MaxDepth = 1, IInv, TypeOK', NEW w \in Workers, AcquireDevices(w)
  PROVE  IInv'
<1> USE DevsAssumption, NoWorkerAssumption DEF IInv, TypeOK, InSection
<1> DEFINE taken == {d \in Devs[w] : ~Reentrant(w, d) /\ FastPath(d)}
           queued == {d \in Devs[w] : ~Reentrant(w, d) /\ ~FastPath(d)}
<1>1. pc[w] = "running" /\ depth[w] = 0
  BY DEF AcquireDevices, Enqueue
<1>2. \A d \in Devices : owner[d] # w
  <2> SUFFICES ASSUME NEW d \in Devices, owner[d] = w PROVE FALSE
    OBVIOUS
  <2>1. pc[w] = "acquiring" \/ depth[w] > 0
    BY DEF Owned
  <2> QED
    BY <1>1, <2>1
<1>3. \A d \in Devices : \A i \in 1..Len(waiters[d]) : waiters[d][i] # w
  BY <1>1 DEF Queued
<1>4. /\ \A d \in taken : waiters[d] = <<>> /\ d \notin locked /\ owner[d] = NoWorker
      /\ taken \cup queued = Devs[w] /\ taken \cap queued = {}
      /\ taken \subseteq Devices /\ queued \subseteq Devices
  BY <1>2 DEF Owned, FastPath, Reentrant
<1>5. /\ \A d \in Devices : owner'[d] = IF d \in taken THEN w ELSE owner[d]
      /\ \A d \in Devices : waiters'[d] = IF d \in queued THEN Append(waiters[d], w)
                                                          ELSE waiters[d]
      /\ pc' = [pc EXCEPT ![w] = "acquiring"]
      /\ before' = before \cup ({v \in Workers : pc[v] = "acquiring"} \X {w})
      /\ woken' = woken /\ depth' = depth
  BY DEF AcquireDevices, Enqueue
<1>6. locked' = locked \cup taken
  BY DEF AcquireDevices, Enqueue
<1> HIDE DEF taken, queued
<1>7. \A d \in Devices :
        /\ Len(waiters[d]) <= Len(waiters'[d])
        /\ \A i \in 1..Len(waiters[d]) : waiters'[d][i] = waiters[d][i]
        /\ \A i \in 1..Len(waiters'[d]) : i \notin 1..Len(waiters[d]) =>
             d \in queued /\ i = Len(waiters[d]) + 1 /\ waiters'[d][i] = w
        /\ d \in queued => Len(waiters'[d]) = Len(waiters[d]) + 1
  <2> TAKE d \in Devices
  <2>1. waiters[d] \in Seq(Workers) /\ Len(waiters[d]) \in Nat
    OBVIOUS
  <2>2. CASE d \in queued
    <3>1. waiters'[d] = Append(waiters[d], w)
      BY <1>5, <2>2
    <3> QED
      BY <2>1, <2>2, <3>1
  <2>3. CASE d \notin queued
    BY <1>5, <2>1, <2>3
  <2> QED
    BY <2>2, <2>3
<1>8. Queued'
  <2> SUFFICES ASSUME NEW d \in Devices, NEW i \in 1..Len(waiters'[d])
               PROVE  /\ pc'[waiters'[d][i]] = "acquiring"
                      /\ d \in Devs[waiters'[d][i]]
                      /\ owner'[d] # waiters'[d][i]
                      /\ \A j \in 1..Len(waiters'[d]) :
                           waiters'[d][i] = waiters'[d][j] => i = j
    BY DEF Queued
  <2>1. CASE i \in 1..Len(waiters[d])
    <3>1. /\ waiters'[d][i] = waiters[d][i] /\ waiters[d][i] \in Workers
          /\ waiters[d][i] # w
      BY <1>3, <1>7, <2>1
    <3>2. /\ pc[waiters[d][i]] = "acquiring" /\ d \in Devs[waiters[d][i]]
          /\ owner[d] # waiters[d][i]
          /\ \A j \in 1..Len(waiters[d]) : waiters[d][i] = waiters[d][j] => i = j
      BY <2>1 DEF Queued
    <3>3. d \notin taken
      BY <1>4, <2>1
    <3> QED
      BY <1>5, <1>7, <3>1, <3>2, <3>3
  <2>2. CASE i \notin 1..Len(waiters[d])
    <3>1. d \in queued /\ i = Len(waiters[d]) + 1 /\ waiters'[d][i] = w
      BY <1>7, <2>2
    <3>2. pc'[w] = "acquiring" /\ d \in Devs[w] /\ owner'[d] # w
      BY <1>2, <1>4, <1>5, <3>1
    <3>3. ASSUME NEW j \in 1..Len(waiters'[d]), waiters'[d][j] = w PROVE j = i
      BY <1>3, <1>7, <3>1, <3>3
    <3> QED
      BY <3>1, <3>2, <3>3
  <2> QED
    BY <2>1, <2>2
<1>9. HeadWoken'
  <2> SUFFICES ASSUME NEW d \in Devices, NEW v \in woken[d]
               PROVE  /\ Len(waiters'[d]) > 0
                      /\ v = waiters'[d][1]
                      /\ d \notin locked'
    BY <1>5 DEF HeadWoken
  <2>1. Len(waiters[d]) > 0 /\ v = waiters[d][1] /\ d \notin locked
    BY DEF HeadWoken
  <2>2. d \notin taken
    BY <1>4, <2>1
  <2> QED
    BY <1>6, <1>7, <2>1, <2>2
<1>10. Owned'
  <2> SUFFICES ASSUME NEW d \in Devices
               PROVE  /\ d \in locked' <=> owner'[d] # NoWorker
                      /\ \A v \in Workers : owner'[d] = v =>
                           d \in Devs[v] /\ (pc'[v] = "acquiring" \/ depth'[v] > 0)
    BY DEF Owned
  <2>1. CASE d \in taken
    BY <1>4, <1>5, <1>6, <2>1
  <2>2. CASE d \notin taken
    <3>1. (d \in locked' <=> d \in locked) /\ owner'[d] = owner[d]
      BY <1>5, <1>6, <2>2
    <3> QED
      BY <1>5, <3>1 DEF Owned
  <2> QED
    BY <2>1, <2>2
<1>11. Asked'
  <2> SUFFICES ASSUME NEW v \in Workers
               PROVE  /\ pc'[v] = "acquiring" => \A d \in Devs[v] : HasOrWaits(v, d)'
                      /\ depth'[v] > 0 => \A d \in Devs[v] : owner'[d] = v
                      /\ depth'[v] > 0 => pc'[v] = "running"
                      /\ pc'[v] # "failed"
    BY DEF Asked
  <2>1. CASE v = w
    BY <1>1, <1>4, <1>5, <1>7, <2>1 DEF HasOrWaits
  <2>2. CASE v # w
    <3>1. pc'[v] = pc[v] /\ depth'[v] = depth[v]
      BY <1>5, <2>2
    <3>2. ASSUME NEW d \in Devs[v], pc[v] = "acquiring" PROVE HasOrWaits(v, d)'
      <4>1. HasOrWaits(v, d)
        BY <3>2 DEF Asked
      <4> QED
        BY <1>4, <1>5, <1>7, <4>1 DEF HasOrWaits
    <3>3. ASSUME NEW d \in Devs[v], depth[v] > 0 PROVE owner'[d] = v
      <4>1. owner[d] = v
        BY <3>3 DEF Asked
      <4> QED
        BY <1>4, <1>5, <4>1
    <3> QED
      BY <3>1, <3>2, <3>3 DEF Asked
  <2> QED
    BY <2>1, <2>2
<1>12. Order'
  <2> SUFFICES ASSUME NEW v \in Workers, NEW u \in Workers, <<v, u>> \in before'
               PROVE  /\ v # u /\ pc'[v] = "acquiring" /\ pc'[u] = "acquiring"
                      /\ \A d \in Devs[v] \cap Devs[u] :
                           /\ owner'[d] # u
                           /\ \A i, j \in 1..Len(waiters'[d]) :
                                waiters'[d][i] = v /\ waiters'[d][j] = u => i < j
    BY DEF Order
  <2>1. CASE <<v, u>> \in before
    <3>1. /\ v # u /\ pc[v] = "acquiring" /\ pc[u] = "acquiring"
          /\ \A d \in Devs[v] \cap Devs[u] :
               /\ owner[d] # u
               /\ \A i, j \in 1..Len(waiters[d]) :
                    waiters[d][i] = v /\ waiters[d][j] = u => i < j
      BY <2>1 DEF Order
    <3>2. v # w /\ u # w
      BY <1>1, <3>1
    <3>3. ASSUME NEW d \in Devs[v] \cap Devs[u]
          PROVE  /\ owner'[d] # u
                 /\ \A i, j \in 1..Len(waiters'[d]) :
                      waiters'[d][i] = v /\ waiters'[d][j] = u => i < j
      <4>1. owner'[d] # u
        BY <1>5, <3>1, <3>2
      <4>2. ASSUME NEW i \in 1..Len(waiters'[d]), NEW j \in 1..Len(waiters'[d]),
                   waiters'[d][i] = v, waiters'[d][j] = u
            PROVE  i < j
        BY <1>7, <3>1, <3>2, <4>2
      <4> QED
        BY <4>1, <4>2
    <3> QED
      BY <1>5, <3>1, <3>2, <3>3
  <2>2. CASE pc[v] = "acquiring" /\ u = w
    <3>1. v # w
      BY <1>1, <2>2
    <3>2. ASSUME NEW d \in Devs[v] \cap Devs[w] PROVE d \notin taken
      <4>1. HasOrWaits(v, d)
        BY <2>2 DEF Asked
      <4> QED
        BY <1>4, <4>1 DEF HasOrWaits
    <3> QED
      BY <1>2, <1>3, <1>5, <1>7, <2>2, <3>1, <3>2
  <2> QED
    BY <1>5, <2>1, <2>2
<1> QED
  BY <1>8, <1>9, <1>10, <1>11, <1>12

(* The waiter that resumes is the head of its deque, and the lock is free. *)
LEMMA ResumeStep ==
  ASSUME IInv, TypeOK', NEW w \in Workers, NEW d \in Devs[w], Resume(w, d)
  PROVE  IInv'
<1> USE DevsAssumption, NoWorkerAssumption DEF IInv, TypeOK, InSection
<1>1. /\ d \in Devices /\ Len(waiters[d]) > 0 /\ waiters[d][1] = w
      /\ d \notin locked /\ owner[d] = NoWorker
  BY DEF Resume, HeadWoken, Owned
<1>2. /\ waiters[d] \in Seq(Workers) /\ Len(waiters[d]) \in Nat
      /\ pc[w] = "acquiring"
      /\ \A i, j \in 1..Len(waiters[d]) : waiters[d][i] = waiters[d][j] => i = j
      /\ 1 \in 1..Len(waiters[d])
      /\ \A i \in 1..Len(waiters[d]) : waiters[d][i] = w => i = 1
  <2>1. waiters[d] \in Seq(Workers) /\ Len(waiters[d]) \in Nat /\ 1 \in 1..Len(waiters[d])
    BY <1>1
  <2>2. pc[waiters[d][1]] = "acquiring"
    BY <1>1, <2>1 DEF Queued
  <2>3. \A i, j \in 1..Len(waiters[d]) : waiters[d][i] = waiters[d][j] => i = j
    BY <1>1 DEF Queued
  <2>4. \A i \in 1..Len(waiters[d]) : waiters[d][i] = w => i = 1
    BY <1>1, <2>1, <2>3
  <2> QED
    BY <1>1, <2>1, <2>2, <2>3, <2>4
<1>3. waiters' = [waiters EXCEPT ![d] = RemoveAt(@, 1)]
  BY <1>2 DEF Resume
<1>4. /\ Len(waiters'[d]) = Len(waiters[d]) - 1
      /\ \A k \in 1..Len(waiters'[d]) :
           waiters'[d][k] = waiters[d][k + 1] /\ k + 1 \in 1..Len(waiters[d])
  <2>1. waiters'[d] = RemoveAt(waiters[d], 1)
    BY <1>1, <1>3
  <2>2. /\ Len(RemoveAt(waiters[d], 1)) = Len(waiters[d]) - 1
        /\ \A k \in 1..(Len(waiters[d]) - 1) :
             RemoveAt(waiters[d], 1)[k] = waiters[d][k + 1]
    BY <1>1, <1>2, RemoveHead
  <2>3. \A k \in 1..(Len(waiters[d]) - 1) : k + 1 \in 1..Len(waiters[d])
    BY <1>2
  <2> QED
    BY <2>1, <2>2, <2>3
<1>5. /\ \A e \in Devices : e # d => waiters'[e] = waiters[e] /\ woken'[e] = woken[e]
      /\ woken'[d] = woken[d] \ {w}
      /\ locked' = locked \cup {d}
      /\ owner' = [owner EXCEPT ![d] = w]
      /\ pc' = pc /\ depth' = depth /\ before' = before
  BY <1>3 DEF Resume
<1>6. woken'[d] = {}
  BY <1>1, <1>5 DEF HeadWoken
<1>7. Queued'
  <2> SUFFICES ASSUME NEW e \in Devices, NEW i \in 1..Len(waiters'[e])
               PROVE  /\ pc'[waiters'[e][i]] = "acquiring"
                      /\ e \in Devs[waiters'[e][i]]
                      /\ owner'[e] # waiters'[e][i]
                      /\ \A j \in 1..Len(waiters'[e]) :
                           waiters'[e][i] = waiters'[e][j] => i = j
    BY DEF Queued
  <2>1. CASE e = d
    <3>1. /\ pc[waiters[d][i + 1]] = "acquiring" /\ d \in Devs[waiters[d][i + 1]]
          /\ \A j \in 1..Len(waiters[d]) : waiters[d][i + 1] = waiters[d][j] => i + 1 = j
      BY <1>1, <1>4, <2>1 DEF Queued
    <3>2. waiters[d][i + 1] # w
      <4>1. i + 1 \in 1..Len(waiters[d]) /\ i + 1 # 1
        BY <1>2, <1>4, <2>1
      <4> QED
        BY <1>2, <4>1
    <3>3. ASSUME NEW j \in 1..Len(waiters'[d]), waiters'[d][i] = waiters'[d][j]
          PROVE  i = j
      <4>1. waiters[d][i + 1] = waiters[d][j + 1] /\ j + 1 \in 1..Len(waiters[d])
        BY <1>4, <2>1, <3>3
      <4>2. i + 1 = j + 1
        BY <3>1, <4>1
      <4> QED
        BY <1>2, <1>4, <2>1, <4>2
    <3> QED
      BY <1>1, <1>4, <1>5, <2>1, <3>1, <3>2, <3>3
  <2>2. CASE e # d
    BY <1>5, <2>2 DEF Queued
  <2> QED
    BY <2>1, <2>2
<1>8. HeadWoken'
  BY <1>5, <1>6 DEF HeadWoken
<1>9. Owned'
  BY <1>1, <1>2, <1>5 DEF Owned
<1>10. Asked'
  <2> SUFFICES ASSUME NEW v \in Workers
               PROVE  /\ pc[v] = "acquiring" => \A e \in Devs[v] : HasOrWaits(v, e)'
                      /\ depth[v] > 0 => \A e \in Devs[v] : owner'[e] = v
                      /\ depth[v] > 0 => pc[v] = "running"
                      /\ pc[v] # "failed"
    BY <1>5 DEF Asked
  <2>1. ASSUME NEW e \in Devs[v], pc[v] = "acquiring" PROVE HasOrWaits(v, e)'
    <3>1. e \in Devices /\ HasOrWaits(v, e)
      BY <2>1 DEF Asked
    <3>2. CASE e # d
      BY <1>5, <3>1, <3>2 DEF HasOrWaits
    <3>3. CASE e = d /\ v = w
      BY <1>1, <1>5, <3>3 DEF HasOrWaits
    <3>4. CASE e = d /\ v # w
      <4>1. PICK i \in 1..Len(waiters[d]) : waiters[d][i] = v
        BY <1>1, <3>1, <3>4 DEF HasOrWaits
      <4>2. i # 1
        BY <1>1, <3>4, <4>1
      <4>3. i - 1 \in 1..(Len(waiters[d]) - 1) /\ (i - 1) + 1 = i
        BY <1>2, <4>1, <4>2
      <4>4. i - 1 \in 1..Len(waiters'[d]) /\ waiters'[d][i - 1] = v
        BY <1>4, <4>1, <4>3
      <4> QED
        BY <3>4, <4>4 DEF HasOrWaits
    <3> QED
      BY <3>2, <3>3, <3>4
  <2>2. ASSUME NEW e \in Devs[v], depth[v] > 0 PROVE owner'[e] = v
    <3>1. e \in Devices /\ owner[e] = v
      BY <2>2 DEF Asked
    <3> QED
      BY <1>1, <1>5, <3>1
  <2> QED
    BY <2>1, <2>2 DEF Asked
<1>11. Order'
  <2> SUFFICES ASSUME NEW v \in Workers, NEW u \in Workers, <<v, u>> \in before,
                      NEW e \in Devs[v] \cap Devs[u]
               PROVE  /\ owner'[e] # u
                      /\ \A i, j \in 1..Len(waiters'[e]) :
                           waiters'[e][i] = v /\ waiters'[e][j] = u => i < j
    BY <1>5 DEF Order
  <2>1. /\ e \in Devices /\ v # u /\ pc[v] = "acquiring" /\ owner[e] # u
        /\ \A i, j \in 1..Len(waiters[e]) :
             waiters[e][i] = v /\ waiters[e][j] = u => i < j
    BY DEF Order
  <2>2. CASE e # d
    BY <1>5, <2>1, <2>2
  <2>3. CASE e = d
    <3>1. u # w
      <4>1. HasOrWaits(v, d)
        BY <2>1, <2>3 DEF Asked
      <4>2. PICK i \in 1..Len(waiters[d]) : waiters[d][i] = v
        BY <1>1, <4>1 DEF HasOrWaits
      <4>3. u = w => i < 1
        BY <1>1, <1>2, <2>1, <2>3, <4>2
      <4> QED
        BY <1>2, <4>2, <4>3
    <3>2. ASSUME NEW i \in 1..Len(waiters'[d]), NEW j \in 1..Len(waiters'[d]),
                 waiters'[d][i] = v, waiters'[d][j] = u
          PROVE  i < j
      <4>1. /\ i + 1 \in 1..Len(waiters[d]) /\ waiters[d][i + 1] = v
            /\ j + 1 \in 1..Len(waiters[d]) /\ waiters[d][j + 1] = u
        BY <1>4, <3>2
      <4>2. i + 1 < j + 1
        BY <2>1, <2>3, <4>1
      <4>3. Len(waiters'[d]) \in Nat
        BY <1>1, <1>2, <1>4
      <4> QED
        BY <4>2, <4>3
    <3> QED
      BY <1>1, <1>5, <2>3, <3>1, <3>2
  <2> QED
    BY <2>2, <2>3
<1> QED
  BY <1>7, <1>8, <1>9, <1>10, <1>11

(* A worker enters with all its devices owned. *)
LEMMA EnterStep ==
  ASSUME IInv, TypeOK', NEW w \in Workers, Enter(w)
  PROVE  IInv'
<1> USE DevsAssumption, NoWorkerAssumption DEF IInv, TypeOK, InSection
<1>1. /\ waiters' = waiters /\ woken' = woken /\ locked' = locked /\ owner' = owner
      /\ pc[w] = "acquiring" /\ pc' = [pc EXCEPT ![w] = "running"]
      /\ depth' = [depth EXCEPT ![w] = @ + 1]
      /\ before' = {p \in before : p[1] # w /\ p[2] # w}
  BY DEF Enter, locks
<1>2. \A d \in Devs[w] : \A i \in 1..Len(waiters[d]) : waiters[d][i] # w
  BY DEF Enter, Waiting
<1>3. \A d \in Devices : \A i \in 1..Len(waiters[d]) : waiters[d][i] # w
  BY <1>2 DEF Queued
<1>4. \A d \in Devs[w] : owner[d] = w
  BY <1>1, <1>2 DEF Asked, HasOrWaits
<1>5. depth'[w] > 0
  BY <1>1
<1>6. Queued'
  BY <1>1, <1>3 DEF Queued
<1>7. HeadWoken'
  BY <1>1 DEF HeadWoken
<1>8. Owned'
  BY <1>1, <1>5 DEF Owned
<1>9. Asked'
  <2> SUFFICES ASSUME NEW v \in Workers
               PROVE  /\ pc'[v] = "acquiring" => \A d \in Devs[v] : HasOrWaits(v, d)
                      /\ depth'[v] > 0 => \A d \in Devs[v] : owner[d] = v
                      /\ depth'[v] > 0 => pc'[v] = "running"
                      /\ pc'[v] # "failed"
    BY <1>1 DEF Asked, HasOrWaits
  <2>1. CASE v = w
    BY <1>1, <1>4, <2>1
  <2>2. CASE v # w
    BY <1>1, <2>2 DEF Asked
  <2> QED
    BY <2>1, <2>2
<1>10. Order'
  BY <1>1 DEF Order
<1> QED
  BY <1>6, <1>7, <1>8, <1>9, <1>10

(* A worker leaves: it owns all its devices, so no release raises, and the *)
(* head of each deque is woken.                                            *)
LEMMA ReleaseStep ==
  ASSUME MaxDepth = 1, IInv, TypeOK', NEW w \in Workers, ReleaseDevices(w)
  PROVE  IInv'
<1> USE DevsAssumption, NoWorkerAssumption DEF IInv, TypeOK, InSection
<1>1. /\ \A d \in Devs[w] : d \in Devices /\ owner[d] = w /\ d \in locked
      /\ pc[w] = "running"
  BY DEF ReleaseDevices, Asked, Owned
<1>2. {d \in Devs[w] : ~ReleaseRaises(w, d)} = Devs[w]
  BY <1>1 DEF ReleaseRaises
<1>3. /\ locked' = locked \ Devs[w]
      /\ \A d \in Devices : owner'[d] = IF d \in Devs[w] THEN NoWorker ELSE owner[d]
      /\ \A d \in Devices : woken'[d] = IF d \in Devs[w] THEN WakeUpFirst(d) ELSE woken[d]
      /\ waiters' = waiters /\ before' = before
      /\ depth[w] > 0 /\ depth' = [depth EXCEPT ![w] = @ - 1]
      /\ pc' = [pc EXCEPT ![w] = "running"]
  BY <1>2 DEF ReleaseDevices
<1>4. pc' = pc
  BY <1>1, <1>3
<1>5. depth'[w] = 0
  BY <1>3
<1>6. Queued'
  <2> SUFFICES ASSUME NEW d \in Devices, NEW i \in 1..Len(waiters[d])
               PROVE  /\ pc[waiters[d][i]] = "acquiring"
                      /\ d \in Devs[waiters[d][i]]
                      /\ owner'[d] # waiters[d][i]
                      /\ \A j \in 1..Len(waiters[d]) : waiters[d][i] = waiters[d][j] => i = j
    BY <1>3, <1>4 DEF Queued
  <2>1. waiters[d][i] \in Workers
    OBVIOUS
  <2> QED
    BY <1>3, <2>1 DEF Queued
<1>7. HeadWoken'
  <2> SUFFICES ASSUME NEW d \in Devices, NEW v \in woken'[d]
               PROVE  Len(waiters[d]) > 0 /\ v = waiters[d][1] /\ d \notin locked'
    BY <1>3 DEF HeadWoken
  <2>1. CASE d \in Devs[w]
    <3>1. woken[d] = {}
      BY <1>1, <2>1 DEF HeadWoken
    <3>2. v \in WakeUpFirst(d)
      BY <1>3, <2>1
    <3>3. waiters[d] \in Seq(Workers) /\ waiters[d] # <<>> /\ v = Head(waiters[d])
      BY <3>1, <3>2 DEF WakeUpFirst
    <3> QED
      BY <1>3, <2>1, <3>3
  <2>2. CASE d \notin Devs[w]
    BY <1>3, <2>2 DEF HeadWoken
  <2> QED
    BY <2>1, <2>2
<1>8. Owned'
  <2> SUFFICES ASSUME NEW d \in Devices
               PROVE  /\ d \in locked' <=> owner'[d] # NoWorker
                      /\ \A v \in Workers : owner'[d] = v =>
                           d \in Devs[v] /\ (pc[v] = "acquiring" \/ depth'[v] > 0)
    BY <1>4 DEF Owned
  <2>1. CASE d \in Devs[w]
    BY <1>3, <2>1
  <2>2. CASE d \notin Devs[w]
    <3>1. owner[d] # w
      BY <2>2 DEF Owned
    <3>2. /\ d \in locked <=> owner[d] # NoWorker
          /\ \A v \in Workers : owner[d] = v =>
               d \in Devs[v] /\ (pc[v] = "acquiring" \/ depth[v] > 0)
      BY DEF Owned
    <3> QED
      BY <1>3, <2>2, <3>1, <3>2
  <2> QED
    BY <2>1, <2>2
<1>9. Asked'
  <2> SUFFICES ASSUME NEW v \in Workers
               PROVE  /\ pc[v] = "acquiring" => \A d \in Devs[v] : HasOrWaits(v, d)'
                      /\ depth'[v] > 0 => \A d \in Devs[v] : owner'[d] = v
                      /\ depth'[v] > 0 => pc[v] = "running"
                      /\ pc[v] # "failed"
    BY <1>4 DEF Asked
  <2>1. CASE v = w
    BY <1>1, <1>5, <2>1
  <2>2. CASE v # w
    <3>1. depth'[v] = depth[v]
      BY <1>3, <2>2
    <3>2. ASSUME NEW d \in Devices, owner[d] = v PROVE owner'[d] = v
      BY <1>1, <1>3, <2>2, <3>2
    <3>3. ASSUME NEW d \in Devs[v], HasOrWaits(v, d) PROVE HasOrWaits(v, d)'
      BY <1>3, <3>2, <3>3 DEF HasOrWaits
    <3> QED
      BY <3>1, <3>2, <3>3 DEF Asked
  <2> QED
    BY <2>1, <2>2
<1>10. Order'
  <2> SUFFICES ASSUME NEW v \in Workers, NEW u \in Workers, <<v, u>> \in before
               PROVE  /\ v # u /\ pc[v] = "acquiring" /\ pc[u] = "acquiring"
                      /\ \A d \in Devs[v] \cap Devs[u] :
                           /\ owner'[d] # u
                           /\ \A i, j \in 1..Len(waiters[d]) :
                                waiters[d][i] = v /\ waiters[d][j] = u => i < j
    BY <1>3, <1>4 DEF Order
  <2>1. /\ v # u /\ pc[v] = "acquiring" /\ pc[u] = "acquiring"
        /\ \A d \in Devs[v] \cap Devs[u] :
             /\ owner[d] # u
             /\ \A i, j \in 1..Len(waiters[d]) :
                  waiters[d][i] = v /\ waiters[d][j] = u => i < j
    BY DEF Order
  <2>2. \A d \in Devs[v] \cap Devs[u] : owner'[d] # u
    BY <1>3, <2>1
  <2> QED
    BY <2>1, <2>2
<1> QED
  BY <1>6, <1>7, <1>8, <1>9, <1>10

-----------------------------------------------------------------------------
(* The invariant holds in every reachable state. *)
THEOREM InvHolds == ASSUME MaxDepth = 1 PROVE Spec => []IInv
<1>1. Init => IInv
  BY DevsAssumption, NoWorkerAssumption, MaxDepthAssumption
     DEF Init, IInv, TypeOK, Queued, HeadWoken, Owned, Asked, Order, InSection
<1>2. IInv /\ TypeOK' /\ [Next]_vars => IInv'
  <2> SUFFICES ASSUME IInv, TypeOK', [Next]_vars PROVE IInv'
    OBVIOUS
  <2>1. CASE UNCHANGED vars
    <3>1. Queued' /\ HeadWoken' /\ Owned'
      BY <2>1 DEF vars, locks, IInv, Queued, HeadWoken, Owned, InSection
    <3>2. Asked'
      BY <2>1 DEF vars, locks, IInv, Asked, InSection, HasOrWaits
    <3>3. Order'
      BY <2>1 DEF vars, locks, IInv, Order
    <3> QED
      BY <3>1, <3>2, <3>3 DEF IInv
  <2>2. CASE Next
    BY <2>2, AcquireStep, ResumeStep, EnterStep, ReleaseStep DEF Next
  <2> QED
    BY <2>1, <2>2
<1> QED
  BY <1>1, <1>2, TypeCorrect, PTL DEF Spec

(* Two workers that share an accelerator are never in their sections       *)
(* together: each owns the lock of the shared accelerator.                 *)
THEOREM MutualExclusionHolds == ASSUME MaxDepth = 1 PROVE Spec => []MutualExclusion
<1>1. IInv => MutualExclusion
  BY DevsAssumption DEF IInv, Asked, MutualExclusion
<1> QED
  BY <1>1, InvHolds, PTL

(* The assertion of WorkerDeviceLock.acquire never fails. *)
THEOREM ResumeAssertion == ASSUME MaxDepth = 1 PROVE Spec => []ResumeFindsFree
<1>1. IInv => ResumeFindsFree
  BY DEF IInv, HeadWoken, Owned, ResumeFindsFree
<1> QED
  BY <1>1, InvHolds, PTL

(* No release of a worker that entered its section raises. *)
THEOREM ReleaseSucceeds == ASSUME MaxDepth = 1 PROVE Spec => []NoFailedRelease
<1>1. IInv => NoFailedRelease
  BY DEF IInv, Asked, NoFailedRelease
<1> QED
  BY <1>1, InvHolds, PTL

-----------------------------------------------------------------------------
(* The refinement, action by action. *)
LEMMA PhaseFacts ==
  ASSUME IInv, NEW w \in Workers
  PROVE  /\ Phase(w) = "waiting" <=> pc[w] = "acquiring"
         /\ Phase(w) = "in" <=> InSection(w)
BY DEF Phase, IInv, Asked, TypeOK

(* acquire_devices is a request of the abstract specification. *)
LEMMA AskStep ==
  ASSUME MaxDepth = 1, IInv, IInv', NEW w \in Workers, AcquireDevices(w)
  PROVE  Sections!Ask(w)
<1> DEFINE phase == [v \in Workers |-> Phase(v)]
<1>1. /\ pc[w] = "running" /\ depth[w] = 0
      /\ pc' = [pc EXCEPT ![w] = "acquiring"] /\ depth' = depth
      /\ before' = before \cup ({v \in Workers : pc[v] = "acquiring"} \X {w})
  BY DEF AcquireDevices, IInv, TypeOK
<1>2. phase[w] = "out"
  BY <1>1 DEF Phase, InSection
<1>3. phase' = [phase EXCEPT ![w] = "waiting"]
  <2>1. depth'[w] = 0 /\ pc'[w] = "acquiring"
    BY <1>1 DEF IInv, TypeOK
  <2>2. \A v \in Workers : v # w => pc'[v] = pc[v] /\ depth'[v] = depth[v]
    BY <1>1 DEF IInv, TypeOK
  <2>3. Phase(w)' = "waiting"
    BY <2>1 DEF Phase, InSection
  <2>4. \A v \in Workers : v # w => Phase(v)' = Phase(v)
    BY <2>2 DEF Phase, InSection
  <2> QED
    BY <2>3, <2>4
<1>4. {v \in Workers : phase[v] = "waiting"} = {v \in Workers : pc[v] = "acquiring"}
  BY PhaseFacts
<1> QED
  BY <1>1, <1>2, <1>3, <1>4 DEF Sections!Ask

(* A worker that enters has every device and is the first to have asked. *)
LEMMA GoInStep ==
  ASSUME IInv, NEW w \in Workers, Enter(w)
  PROVE  Sections!GoIn(w)
<1> DEFINE phase == [v \in Workers |-> Phase(v)]
<1>1. /\ pc[w] = "acquiring" /\ pc' = [pc EXCEPT ![w] = "running"]
      /\ depth' = [depth EXCEPT ![w] = @ + 1]
      /\ before' = {p \in before : p[1] # w /\ p[2] # w}
  BY DEF Enter
<1>2. \A d \in Devs[w] : owner[d] = w
  BY <1>1 DEF Enter, Waiting, IInv, Asked, HasOrWaits
<1>3. ASSUME NEW v \in Workers, Sections!Overlap(v, w)
      PROVE  phase[v] # "in" /\ <<v, w>> \notin before
  <2>1. PICK d \in Devs[v] \cap Devs[w] : v # w
    BY <1>3 DEF Sections!Overlap
  <2>2. ~InSection(v)
    BY <1>2, <2>1 DEF IInv, Asked
  <2>3. <<v, w>> \notin before
    BY <1>2, <2>1 DEF IInv, Order
  <2> QED
    BY <2>2, <2>3, PhaseFacts
<1>4. phase[w] = "waiting"
  BY <1>1, PhaseFacts
<1>5. phase' = [phase EXCEPT ![w] = "in"]
  <2>1. depth'[w] > 0
    BY <1>1 DEF IInv, TypeOK
  <2>2. \A v \in Workers : v # w => pc'[v] = pc[v] /\ depth'[v] = depth[v]
    BY <1>1 DEF IInv, TypeOK
  <2> QED
    BY <2>1, <2>2 DEF Phase, InSection
<1> QED
  BY <1>1, <1>3, <1>4, <1>5 DEF Sections!GoIn

(* release_devices leaves the section. *)
LEMMA LeaveStep ==
  ASSUME MaxDepth = 1, IInv, IInv', NEW w \in Workers, ReleaseDevices(w)
  PROVE  Sections!Leave(w)
<1> DEFINE phase == [v \in Workers |-> Phase(v)]
<1>1. /\ pc[w] = "running" /\ depth[w] > 0 /\ before' = before
      /\ depth' = [depth EXCEPT ![w] = @ - 1]
      /\ \A v \in Workers : v # w => pc'[v] = pc[v]
  BY DEF ReleaseDevices, IInv, TypeOK
<1>2. depth'[w] = 0
  BY <1>1 DEF IInv, TypeOK
<1>3. pc'[w] = "running"
  <2>1. \A d \in Devs[w] : owner[d] = w /\ d \in Devices /\ d \in locked
    BY <1>1, DevsAssumption, NoWorkerAssumption DEF IInv, Asked, Owned, InSection
  <2>2. {d \in Devs[w] : ~ReleaseRaises(w, d)} = Devs[w]
    BY <2>1 DEF ReleaseRaises
  <2> QED
    BY <2>2 DEF ReleaseDevices, IInv, TypeOK
<1>4. phase[w] = "in"
  BY <1>1 DEF Phase, InSection
<1>5. phase' = [phase EXCEPT ![w] = "out"]
  <2>1. \A v \in Workers : v # w => pc'[v] = pc[v] /\ depth'[v] = depth[v]
    BY <1>1 DEF IInv, TypeOK
  <2>2. Phase(w)' = "out"
    BY <1>2, <1>3 DEF Phase, InSection
  <2>3. \A v \in Workers : v # w => Phase(v)' = Phase(v)
    BY <2>1 DEF Phase, InSection
  <2> QED
    BY <2>2, <2>3
<1> QED
  BY <1>1, <1>4, <1>5 DEF Sections!Leave

(* The device lock implements DeviceSections: exclusion of overlapping     *)
(* sections, and no overtaking among overlapping requests.                 *)
THEOREM Implementation == ASSUME MaxDepth = 1 PROVE Spec => ImplementsSections
<1>1. Init => Sections!Init
  BY DEF Init, Sections!Init, Phase, InSection
<1>2. IInv /\ IInv' /\ [Next]_vars => [Sections!Next]_Sections!vars
  <2> SUFFICES ASSUME IInv, IInv', [Next]_vars PROVE [Sections!Next]_Sections!vars
    OBVIOUS
  <2>1. ASSUME NEW w \in Workers, NEW d \in Devs[w], Resume(w, d)
        PROVE  UNCHANGED Sections!vars
    BY <2>1 DEF Resume, Sections!vars, Phase, InSection
  <2>2. CASE UNCHANGED vars
    BY <2>2 DEF vars, Sections!vars, Phase, InSection
  <2> QED
    BY <2>1, <2>2, AskStep, GoInStep, LeaveStep DEF Next, Sections!Next
<1> QED
  BY <1>1, <1>2, InvHolds, PTL DEF Spec, ImplementsSections, Sections!Spec
=============================================================================
