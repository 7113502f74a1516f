----------------------------- MODULE DeviceLock -----------------------------
(***************************************************************************)
(* The cluster-wide device lock of scheduler/manager/lock_manager.py and   *)
(* its client handle in scheduler/worker/lock.py.                          *)
(*                                                                         *)
(* One actor, DeviceLockManager, owns an asyncio lock per accelerator.  A  *)
(* worker enters its `with self.device_lock` section when the manager has  *)
(* granted it the locks of all its accelerators.  The manager runs on one  *)
(* event loop: what runs between two awaits is one step here.  The         *)
(* acquires of one gather are tasks created back to back, so their first   *)
(* steps are contiguous in the loop's ready queue and together are the     *)
(* one step AcquireDevices; so are the releases of ReleaseDevices.  A      *)
(* waiter whose future is done resumes in a step of its own, Resume.       *)
(*                                                                         *)
(* A release that raises answers its caller with an error: the first such  *)
(* answer ends the worker's script (pc = "failed").                        *)
(***************************************************************************)
EXTENDS Naturals, SequencesExt

CONSTANTS
  Workers,     \* worker addresses
  Devices,     \* accelerator ids
  Devs,        \* Devs[w]: the accelerators placed under worker w
  NoWorker,    \* the value None of WorkerDeviceLock._worker_address
  MaxDepth     \* bound: how deep a worker nests its `with` sections

ASSUME DevsAssumption == Devs \in [Workers -> SUBSET Devices]
ASSUME NoWorkerAssumption == NoWorker \notin Workers
ASSUME MaxDepthAssumption == MaxDepth \in Nat \ {0}

VARIABLES
  locked,      \* the devices whose asyncio.Lock._locked is True
  owner,       \* WorkerDeviceLock._worker_address of every device lock
  waiters,     \* asyncio.Lock._waiters: the workers whose futures wait, in order
  woken,       \* those of them whose future is done
  pc,          \* what a worker's thread is doing
  depth,       \* how many `with self.device_lock` blocks it has entered
  before       \* history: <<v, w>> when v and w are acquiring and v asked first

locks == <<locked, owner, waiters, woken>>
vars == <<locks, pc, depth, before>>

-----------------------------------------------------------------------------
(* The workers with a future in the deque of device d. *)
Waiting(d) == {waiters[d][i] : i \in 1..Len(waiters[d])}

Init ==
  /\ locked = {}
  /\ owner = [d \in Devices |-> NoWorker]
  /\ waiters = [d \in Devices |-> <<>>]
  /\ woken = [d \in Devices |-> {}]
  /\ pc = [w \in Workers |-> "running"]
  /\ depth = [w \in Workers |-> 0]
  /\ before = {}

-----------------------------------------------------------------------------
(* Where the acquire of one device returns at once: the caller owns it     *)
(* already, or nobody holds it and nobody is queued for it.                *)
Reentrant(w, d) == owner[d] = w
FastPathFair(d) == waiters[d] = <<>>   \* fault: a held lock is taken
FastPathBarging(d) == d \notin locked   \* fault: a woken waiter is overtaken
FastPath(d) == d \notin locked /\ waiters[d] = <<>>

(* Otherwise the caller goes to the back of the deque. *)
Push(deque, w) == <<w>> \o deque   \* fault: to the front
Enqueue(deque, w) == Append(deque, w)

(* acquire_devices up to its first await. *)
AcquireDevices(w) ==
  LET taken == {d \in Devs[w] : ~Reentrant(w, d) /\ FastPath(d)}
      queued == {d \in Devs[w] : ~Reentrant(w, d) /\ ~FastPath(d)}
  IN
  /\ pc[w] = "running"
  /\ depth[w] < MaxDepth
  /\ locked' = locked \cup taken
  /\ owner' = [d \in Devices |-> IF d \in taken THEN w ELSE owner[d]]
  /\ waiters' = [d \in Devices |-> IF d \in queued THEN Enqueue(waiters[d], w)
                                                   ELSE waiters[d]]
  /\ pc' = [pc EXCEPT ![w] = "acquiring"]
  /\ before' = before \cup ({v \in Workers : pc[v] = "acquiring"} \X {w})
  /\ UNCHANGED <<woken, depth>>

(* A waiter whose future is done runs on: it leaves the deque and takes    *)
(* the lock.  The code asserts that nobody owns it then.                   *)
Resume(w, d) ==
  /\ w \in woken[d]
  /\ \E i \in 1..Len(waiters[d]) :
       /\ waiters[d][i] = w
       /\ waiters' = [waiters EXCEPT ![d] = RemoveAt(@, i)]
  /\ woken' = [woken EXCEPT ![d] = @ \ {w}]
  /\ locked' = locked \cup {d}
  /\ owner' = [owner EXCEPT ![d] = w]
  /\ UNCHANGED <<pc, depth, before>>

(* Every acquire of the gather has returned: the reply reaches the worker  *)
(* and it enters the section.                                              *)
\* fault: the acquire never ends
EnterAgain(w) ==
  /\ pc[w] = "acquiring"
  /\ \A d \in Devs[w] : w \notin Waiting(d)
  /\ depth' = [depth EXCEPT ![w] = @ + 1]
  /\ before' = {p \in before : p[1] # w /\ p[2] # w}
  /\ UNCHANGED <<locks, pc>>

Enter(w) ==
  /\ pc[w] = "acquiring"
  /\ \A d \in Devs[w] : w \notin Waiting(d)
  /\ pc' = [pc EXCEPT ![w] = "running"]
  /\ depth' = [depth EXCEPT ![w] = @ + 1]
  /\ before' = {p \in before : p[1] # w /\ p[2] # w}
  /\ UNCHANGED locks

(* _wake_up_first: the future at the head of the deque is set, once. *)
WakeUpFirst(d) ==
  IF waiters[d] = <<>> THEN woken[d] ELSE woken[d] \cup {Head(waiters[d])}

(* release raises when another worker owns the lock or nobody holds it.    *)
ReleaseRaises(w, d) ==
  \/ owner[d] # NoWorker /\ owner[d] # w
  \/ d \notin locked

(* release_devices: every device of the worker; the ones that raise keep   *)
(* their state, the others are freed, whatever the nesting depth.          *)
ReleaseDevices(w) ==
  LET freed == {d \in Devs[w] : ~ReleaseRaises(w, d)}
  IN
  /\ pc[w] = "running"
  /\ depth[w] > 0
  /\ locked' = locked \ freed
  /\ owner' = [d \in Devices |-> IF d \in freed THEN NoWorker ELSE owner[d]]
  /\ woken' = [d \in Devices |-> IF d \in freed THEN WakeUpFirst(d)
                                                ELSE woken[d]]
  /\ depth' = [depth EXCEPT ![w] = @ - 1]
  /\ pc' = [pc EXCEPT ![w] = IF freed = Devs[w] THEN "running" ELSE "failed"]
  /\ UNCHANGED <<waiters, before>>

Next ==
  \E w \in Workers :
    \/ AcquireDevices(w)
    \/ \E d \in Devs[w] : Resume(w, d)
    \/ Enter(w)
    \/ ReleaseDevices(w)

Spec == Init /\ [][Next]_vars

(* The event loop runs every ready task, a reply is delivered, and a       *)
(* section ends; nothing makes a worker open a section.                    *)
Fairness ==
  \A w \in Workers :
    /\ \A d \in Devices : WF_vars(d \in Devs[w] /\ Resume(w, d))
    /\ WF_vars(Enter(w))
    /\ WF_vars(ReleaseDevices(w))

FairSpec == Spec /\ Fairness

-----------------------------------------------------------------------------
(* Types, and the sets the other properties speak of. *)
TypeOK ==
  /\ locked \subseteq Devices
  /\ owner \in [Devices -> Workers \cup {NoWorker}]
  /\ waiters \in [Devices -> Seq(Workers)]
  /\ woken \in [Devices -> SUBSET Workers]
  /\ pc \in [Workers -> {"running", "acquiring", "failed"}]
  /\ depth \in [Workers -> 0..MaxDepth]
  /\ before \subseteq Workers \X Workers

InSection(w) == depth[w] > 0

(* A device's accelerator memory is used by one worker at a time: no two   *)
(* workers that share a device are inside their sections together.         *)
MutualExclusion ==
  \A v, w \in Workers :
    InSection(v) /\ InSection(w) /\ v # w => Devs[v] \cap Devs[w] = {}

(* The assertion of WorkerDeviceLock.acquire: a waiter that resumes finds  *)
(* the lock without an owner.  Between the wake-up and the resumption the  *)
(* lock is free, and an acquire that arrives then must not take it.        *)
ResumeFindsFree ==
  \A d \in Devices : woken[d] # {} => owner[d] = NoWorker /\ d \notin locked

(* A release never raises for a worker that left its section in order. *)
NoFailedRelease == \A w \in Workers : pc[w] # "failed"

(* Seen from the workers the manager is DeviceSections: sections of        *)
(* overlapping workers exclude each other, and no worker is let in before  *)
(* one that shares a device with it and asked earlier, although the locks  *)
(* of a request are granted one by one and out of order.                   *)
Phase(w) ==
  IF InSection(w) THEN "in" ELSE IF pc[w] = "acquiring" THEN "waiting" ELSE "out"

Sections == INSTANCE DeviceSections
              WITH phase <- [w \in Workers |-> Phase(w)], before <- before

ImplementsSections == Sections!Spec

(* Workers that ask for overlapping sets of devices never wait for each    *)
(* other in a circle: every worker that asks gets in.                      *)
EveryoneEnters ==
  \A w \in Workers : pc[w] = "acquiring" ~> pc[w] = "running"
=============================================================================
