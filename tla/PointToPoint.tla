---------------------------- MODULE PointToPoint ----------------------------
(***************************************************************************)
(* The point-to-point connection of two workers, as CollectiveGroup        *)
(* implements it (rlinf/scheduler/collective/collective_group.py).         *)
(*                                                                         *)
(* A connection joins the endpoints 0 and 1 (the ranks in the group); a    *)
(* direction is named by the endpoint that sends in it.  Each endpoint has *)
(* a work queue with an executor thread for its sends and one for its      *)
(* receives, and the caller's own thread: a synchronous call waits until   *)
(* the queue says it is done and then runs in the caller's thread.  A work *)
(* first sets the process group up, under the lock of its endpoint, and    *)
(* then moves its object in frames.  A frame is a broadcast in a group of  *)
(* two that belongs to one direction and one kind of device; any thread of *)
(* the other endpoint that is in a broadcast of that group takes part in   *)
(* it: nothing in a frame says which call it belongs to.                   *)
(***************************************************************************)
EXTENDS Naturals, Sequences, FiniteSets

CONSTANT
    Scenes      \* the connections looked at: records [rel, here, pay], where
                \* rel is what _check_same_device_with_peer answers, here the
                \* device of a receiver, and pay[d] the objects to be sent

Ends == {0, 1}
Sides == {"send", "recv"}
Queues == Ends \X Sides                 \* <<d, side>>: one end of direction d
Threads == Queues \union (Ends \X {"main"})

(***************************************************************************)
(* An object: its type, how many tensors in the memory of the CPU it has,  *)
(* and the device of each of its other tensors.  "into" is the tensor of   *)
(* send_tensor and recv_tensor, which carry no type and no metadata.       *)
(***************************************************************************)
Objects == [type : {"object", "tensors", "dict", "dataclass", "into"},
            cpu : Nat, accel : Seq(STRING)]

ASSUME ScenesAssumption ==
    \A s \in Scenes : /\ s.rel \in {"apart", "same", "uncertain"}
                      /\ \A d \in Ends : s.pay[d] \in Seq(Objects)

VARIABLES
    scene,      \* the connection, chosen once
    called,     \* called[q]: the comm ids handed out (itertools.count)
    queue,      \* queue[q]: _work_queue, the comm ids of the waiting works
    idle,       \* idle[q]: _work_done
    th,         \* th[t]: what the thread does
    finished,   \* finished[q]: the works done, in order, with what they got
    port,       \* the master port held by the CollectiveManager; 0 for None
    ports,      \* how many ports rank 0 has acquired
    locked,     \* locked[e]: the threads in _init_process_group's lock
    ready       \* ready[e]: MultiChannelProcessGroup._is_initialized

vars == <<scene, called, queue, idle, th, finished,
          port, ports, locked, ready>>
setupVars == <<port, ports, locked, ready>>

-----------------------------------------------------------------------------
(* Frames.                                                                 *)

Frame(way, dev, what) == [way |-> way, dev |-> dev, what |-> what]
To(what) == Frame("to", "cpu", what)            \* from the sender of the object
Back(what) == Frame("back", "cpu", what)        \* from its receiver
OnDevice == Frame("to", "accel", "tensor")      \* through the accelerators' CCL

Sized(what) == <<To("size"), To(what)>>         \* _object_to_tensor, both tensors
Repeat(frame, n) == [i \in 1..n |-> frame]

\* What both sides know of the accelerator tensors of an object.
Here(s, o) == Cardinality({i \in DOMAIN o.accel : o.accel[i] = s.here})
Elsewhere(s, o) == Len(o.accel) - Here(s, o)

\* _send_tensor_list_via_ipc: the handles, and a barrier that keeps the memory
\* alive until the receiver has copied it.
SendHandles == Sized("handles") \o <<To("copied")>>
RecvHandlesNoBarrier == Sized("handles")        \* fault: the last recv is missing
RecvHandles == Sized("handles") \o <<To("copied")>>

\* _send_tensor_list_to_uncertain_peer: tell the devices, ask for the peer's,
\* and choose between the two ways for each tensor.
SendUncertain(s, o) ==
    Sized("devices") \o <<Back("size"), Back("device")>>
      \o (IF Here(s, o) > 0 THEN SendHandles ELSE <<>>)
      \o Repeat(OnDevice, Elsewhere(s, o))
RecvUncertain(s, o) ==
    Sized("devices") \o <<Back("size"), Back("device")>>
      \o (IF Here(s, o) > 0 THEN RecvHandles ELSE <<>>)
      \o Repeat(OnDevice, Elsewhere(s, o))

SendTensors(s, o) ==
    Sized("meta") \o Repeat(To("tensor"), o.cpu)
      \o CASE o.accel = <<>> -> <<>>
           [] o.accel # <<>> /\ s.rel = "apart" -> Repeat(OnDevice, Len(o.accel))
           [] o.accel # <<>> /\ s.rel = "same" -> SendHandles
           [] o.accel # <<>> /\ s.rel = "uncertain" -> SendUncertain(s, o)
RecvTensors(s, o) ==
    Sized("meta") \o Repeat(To("tensor"), o.cpu)
      \o CASE o.accel = <<>> -> <<>>
           [] o.accel # <<>> /\ s.rel = "apart" -> Repeat(OnDevice, Len(o.accel))
           [] o.accel # <<>> /\ s.rel = "same" -> RecvHandles
           [] o.accel # <<>> /\ s.rel = "uncertain" -> RecvUncertain(s, o)

\* send_tensor and recv_tensor: no type and no metadata.  The receiver of an
\* uncertain peer unpacks the pair that _recv_object returns as if it were the
\* handle, and raises: nobody goes on from there.
Raise == Frame("none", "none", "raise")
SendInto(s, o) ==
    CASE o.cpu > 0 -> <<To("tensor")>>
      [] o.cpu = 0 /\ s.rel = "apart" -> <<OnDevice>>
      [] o.cpu = 0 /\ s.rel = "same" -> SendHandles
      [] o.cpu = 0 /\ s.rel = "uncertain" ->
           Sized("devices") \o <<Back("size"), Back("device")>>
             \o (IF Here(s, o) > 0 THEN Sized("object") \o <<To("copied")>>
                                   ELSE <<OnDevice>>)
RecvInto(s, o) ==
    CASE o.cpu > 0 -> <<To("tensor")>>
      [] o.cpu = 0 /\ s.rel = "apart" -> <<OnDevice>>
      [] o.cpu = 0 /\ s.rel = "same" -> RecvHandles
      [] o.cpu = 0 /\ s.rel = "uncertain" ->
           Sized("devices") \o <<Back("size"), Back("device")>>
             \o (IF Here(s, o) > 0 THEN Sized("object") \o <<Raise, To("copied")>>
                                   ELSE <<OnDevice>>)

\* _atomic_send and _atomic_send_tensor.
SendFrames(s, o) ==
    CASE o.type = "object" -> <<To("type")>> \o Sized("object")
      [] o.type = "tensors" -> <<To("type")>> \o SendTensors(s, o)
      [] o.type = "dict" -> <<To("type")>> \o Sized("keys") \o SendTensors(s, o)
      [] o.type = "dataclass" ->
           <<To("type")>> \o SendTensors(s, o) \o Sized("object")
      [] o.type = "into" -> SendInto(s, o)

\* _atomic_recv and _atomic_recv_tensor.  What it expects follows from the
\* frames it has taken; as long as these are the frames of one object, that is
\* the object being sent.
RecvFrames(s, o) ==
    CASE o.type = "object" -> <<To("type")>> \o Sized("object")
      [] o.type = "tensors" -> <<To("type")>> \o RecvTensors(s, o)
      [] o.type = "dict" -> <<To("type")>> \o Sized("keys") \o RecvTensors(s, o)
      [] o.type = "dataclass" ->
           <<To("type")>> \o RecvTensors(s, o) \o Sized("object")
      [] o.type = "into" -> RecvInto(s, o)

Programs ==
    [s \in Scenes |->
      [q \in Queues |->
        [k \in DOMAIN s.pay[q[1]] |->
          IF q[2] = "send" THEN SendFrames(s, s.pay[q[1]][k])
                           ELSE RecvFrames(s, s.pay[q[1]][k])]]]
Program(q, k) == Programs[scene][q][k]

-----------------------------------------------------------------------------
(* Threads.                                                                *)

Owner(t) == IF t[2] = "recv" THEN 1 - t[1] ELSE t[1]

Resting(pc) == [pc |-> pc, q |-> <<0, "send">>, op |-> 0, pos |-> 0,
                port |-> 0, got |-> {}]
Starting(q, k) == [Resting("lock") EXCEPT !.q = q, !.op = k, !.pos = 1]

Home(t) == IF t[2] = "main" THEN Resting("free") ELSE Resting("poll")

Moving(t) == /\ th[t].pc = "frames"
             /\ th[t].pos <= Len(Program(th[t].q, th[t].op))
Current(t) == Program(th[t].q, th[t].op)[th[t].pos]

Transmits(t) == /\ Moving(t)
                /\ \/ Current(t).way = "to" /\ th[t].q[2] = "send"
                   \/ Current(t).way = "back" /\ th[t].q[2] = "recv"
Takes(t) == /\ Moving(t)
            /\ \/ Current(t).way = "to" /\ th[t].q[2] = "recv"
               \/ Current(t).way = "back" /\ th[t].q[2] = "send"

\* s and r are in a broadcast of the same group.
Joined(s, r) == /\ Transmits(s)
                /\ Takes(r)
                /\ Owner(s) # Owner(r)
                /\ Current(s).dev = Current(r).dev

Init ==
    /\ scene \in Scenes
    /\ called = [q \in Queues |-> 0]
    /\ queue = [q \in Queues |-> <<>>]
    /\ idle = [q \in Queues |-> TRUE]
    /\ th = [t \in Threads |-> Home(t)]
    /\ finished = [q \in Queues |-> <<>>]
    /\ port = 0
    /\ ports = 0
    /\ locked = [e \in Ends |-> {}]
    /\ ready = [e \in Ends |-> FALSE]

-----------------------------------------------------------------------------
(* Calls, in the caller's thread.                                          *)

\* CollectiveWorkQueue.enqueue, under the lock of the queue.
EnqueueStillDone(q, k) ==               \* fault: the flag is not cleared
    /\ queue' = [queue EXCEPT ![q] = Append(@, k)]
    /\ UNCHANGED idle
Enqueue(q, k) ==
    /\ idle' = [idle EXCEPT ![q] = FALSE]
    /\ queue' = [queue EXCEPT ![q] = Append(@, k)]

\* send, recv, send_tensor or recv_tensor with async_op.
CallAsync(q) ==
    LET m == <<Owner(q), "main">>
        k == called[q] + 1
    IN  /\ th[m].pc = "free"
        /\ k \in DOMAIN scene.pay[q[1]]
        /\ called' = [called EXCEPT ![q] = k]
        /\ Enqueue(q, k)
        /\ UNCHANGED <<scene, th, finished, setupVars>>

\* The same without async_op: wait for the queue to be done.
CallSync(q) ==
    LET m == <<Owner(q), "main">>
        k == called[q] + 1
    IN  /\ th[m].pc = "free"
        /\ k \in DOMAIN scene.pay[q[1]]
        /\ called' = [called EXCEPT ![q] = k]
        /\ th' = [th EXCEPT ![m] = [Starting(q, k) EXCEPT !.pc = "spin"]]
        /\ UNCHANGED <<scene, queue, idle, finished, setupVars>>

MayRunHere(q) == idle[q]

StartSync(e) ==
    LET m == <<e, "main">>
    IN  /\ th[m].pc = "spin"
        /\ MayRunHere(th[m].q)
        /\ th' = [th EXCEPT ![m].pc = "lock"]
        /\ UNCHANGED <<scene, called, queue, idle, finished, setupVars>>

-----------------------------------------------------------------------------
(* The executor of a queue.                                                *)

\* What a get that found a work does to the flag: nothing.
IdleAfterTakeLast(q) == Len(queue[q]) = 1       \* fault: done with the last taken
IdleAfterTake(q) == idle[q]

Take(q) ==
    /\ th' = [th EXCEPT ![q] = Starting(q, Head(queue[q]))]
    /\ queue' = [queue EXCEPT ![q] = Tail(@)]
    /\ idle' = [idle EXCEPT ![q] = IdleAfterTake(q)]
    /\ UNCHANGED <<scene, called, finished, setupVars>>

\* The get under the lock.
PollFull(q) == th[q].pc = "poll" /\ queue[q] # <<>> /\ Take(q)

PollEmpty(q) ==
    /\ th[q].pc = "poll"
    /\ queue[q] = <<>>
    /\ idle' = [idle EXCEPT ![q] = TRUE]
    /\ th' = [th EXCEPT ![q] = Resting("wait")]
    /\ UNCHANGED <<scene, called, queue, finished, setupVars>>

\* The blocking get, which does not hold the lock.
Wake(q) == th[q].pc = "wait" /\ queue[q] # <<>> /\ Take(q)

-----------------------------------------------------------------------------
(* _init_process_group: every work begins with it.                         *)

Goto(t, pc) == th' = [th EXCEPT ![t].pc = pc]
workVars == <<scene, called, queue, idle, finished>>

LockIgnored(e) == TRUE                          \* fault: without self._lock
LockFree(e) == locked[e] = {}

SkipSetup(t) ==
    /\ th[t].pc = "lock"
    /\ LockFree(Owner(t))
    /\ ready[Owner(t)]
    /\ Goto(t, "frames")
    /\ UNCHANGED <<workVars, setupVars>>

BeginSetup(t) ==
    /\ th[t].pc = "lock"
    /\ LockFree(Owner(t))
    /\ ~ready[Owner(t)]
    /\ locked' = [locked EXCEPT ![Owner(t)] = @ \union {t}]
    /\ Goto(t, IF Owner(t) = 0 THEN "publish" ELSE "poll port")
    /\ UNCHANGED <<workVars, port, ports, ready>>

\* Rank 0 registers the group (_init_group) and publishes a port that
\* acquire_free_port has never given out before.
PublishPort(t) ==
    /\ th[t].pc = "publish"
    /\ ports' = ports + 1
    /\ port' = ports + 1
    /\ th' = [th EXCEPT ![t].pc = "barrier", ![t].port = ports + 1]
    /\ UNCHANGED <<workVars, locked, ready>>

\* The other rank polls for the group, and then for a port that is not None.
ReadPort(t) ==
    /\ th[t].pc = "poll port"
    /\ port # 0
    /\ th' = [th EXCEPT ![t].pc = "barrier", ![t].port = port]
    /\ UNCHANGED <<workVars, setupVars>>

\* MultiChannelProcessGroup.init: both ranks meet at the port.
Connect(s, t) ==
    /\ Owner(s) = 0 /\ Owner(t) = 1
    /\ th[s].pc = "barrier" /\ th[t].pc = "barrier"
    /\ th[s].port = th[t].port
    /\ ready' = [e \in Ends |-> TRUE]
    /\ locked' = [locked EXCEPT ![1] = @ \ {t}]
    /\ th' = [th EXCEPT ![s].pc = "reset", ![t].pc = "frames"]
    /\ UNCHANGED <<workVars, port, ports>>

PortKept == port                \* fault: it stays
PortAfter == 0                  \* reset_master_port_info
ResetPort(t) ==
    /\ th[t].pc = "reset"
    /\ port' = PortAfter
    /\ locked' = [locked EXCEPT ![0] = @ \ {t}]
    /\ Goto(t, "frames")
    /\ UNCHANGED <<workVars, ports, ready>>

-----------------------------------------------------------------------------
(* The frames of a work, and its end.                                      *)

Transfer(s, r) ==
    /\ Joined(s, r)
    /\ th' = [th EXCEPT ![s].pos = @ + 1,
                        ![r].pos = @ + 1,
                        ![r].got = @ \union {<<th[s].q, th[s].op>>}]
    /\ UNCHANGED <<workVars, setupVars>>

Finish(t) ==
    LET q == th[t].q
    IN  /\ th[t].pc = "frames"
        /\ ~Moving(t)
        /\ finished' = [finished EXCEPT ![q] =
                          Append(@, [op |-> th[t].op, got |-> th[t].got])]
        /\ th' = [th EXCEPT ![t] = Home(t)]
        /\ UNCHANGED <<scene, called, queue, idle, setupVars>>

-----------------------------------------------------------------------------
Execute(q) == PollFull(q) \/ PollEmpty(q) \/ Wake(q)

Setup(t) == \/ SkipSetup(t) \/ BeginSetup(t)
            \/ PublishPort(t) \/ ReadPort(t)
            \/ ResetPort(t)
            \/ \E r \in Threads : Connect(t, r)

\* What a thread does by itself, once it has a work or may have one.
Step(t) == \/ t[2] = "main" /\ StartSync(t[1])
           \/ t[2] # "main" /\ Execute(t)
           \/ Setup(t)
           \/ \E r \in Threads : Transfer(t, r)
           \/ Finish(t)

Call(q) == CallAsync(q) \/ CallSync(q)

Next == (\E q \in Queues : Call(q)) \/ (\E t \in Threads : Step(t))

Spec == Init /\ [][Next]_vars

\* The threads go on as long as one of them can, and a broadcast both ends have
\* joined completes; nothing makes a worker call send or recv.  The calls are
\* bounded and every step is one towards their end, so that this is all that
\* fairness to each thread would give.
Progress == WF_vars(\E t \in Threads : Step(t))

FairSpec == Spec /\ Progress

-----------------------------------------------------------------------------
\* The states are well formed; a group acquires one port.
Pcs == {"free", "spin", "poll", "wait", "lock", "publish", "poll port",
        "barrier", "reset", "frames"}
TypeOK ==
    /\ scene \in Scenes
    /\ \A q \in Queues :
         /\ called[q] \in 0..Len(scene.pay[q[1]])
         /\ queue[q] \in Seq(1..called[q])
         /\ Len(finished[q]) <= called[q]
         /\ idle[q] \in BOOLEAN
    /\ \A t \in Threads :
         /\ th[t].pc \in Pcs
         /\ th[t].q \in Queues
         /\ th[t].op \in 0..called[th[t].q]
    /\ port \in 0..ports /\ ports \in 0..1
    /\ locked \in [Ends -> SUBSET Threads]

\* A broadcast joins the same frame of the same object on both sides: a thread
\* never takes a frame of another call, or another frame than the one it waits
\* for (the frames carry no call number; their order is all there is).
FramesMatch ==
    \A s, r \in Threads :
      Joined(s, r) => /\ th[s].op = th[r].op
                      /\ th[s].q[1] = th[r].q[1]
                      /\ Current(s) = Current(r)

\* When both ranks wait to meet, they wait at the same port.
SamePort ==
    \A s, t \in Threads :
      /\ Owner(s) = 0 /\ th[s].pc = "barrier"
      /\ Owner(t) = 1 /\ th[t].pc = "barrier"
      => th[s].port = th[t].port

\* Both ends of a connection are at the same frame, and before that at the same port.
InStep == TypeOK /\ FramesMatch /\ SamePort

\* The k-th recv of a direction returns the k-th object sent, once both calls
\* have been made: the connection implements ConnectionPromise.
Returned(q) == [i \in DOMAIN finished[q] |->
                  IF finished[q][i] = [op |-> i, got |-> {<<<<q[1], "send">>, i>>}]
                  THEN i ELSE 0]
Promise == INSTANCE ConnectionPromise WITH
             Directions <- Ends,
             sends <- [d \in Ends |-> called[<<d, "send">>]],
             recvs <- [d \in Ends |-> called[<<d, "recv">>]],
             results <- [d \in Ends |-> Returned(<<d, "recv">>)]
RecvReturnsSend == Promise!Spec

\* Once the k-th send and the k-th recv of a direction have both been called,
\* both works end: also the sender's, which waits for the receiver's frames.
BothCalled(d, k) == called[<<d, "send">>] >= k /\ called[<<d, "recv">>] >= k
BothEnded(d, k) == /\ Len(finished[<<d, "send">>]) >= k
                   /\ Len(finished[<<d, "recv">>]) >= k
MaxObjects == 2
CallsEnd == \A d \in Ends, k \in 1..MaxObjects : BothCalled(d, k) ~> BothEnded(d, k)

\* Once both workers have called, the group is set up at both, whichever thread
\* comes first, and the port is taken back so that no later group meets there.
Using(e) == \E q \in Queues : Owner(q) = e /\ called[q] > 0
SetUpEnds == (Using(0) /\ Using(1)) ~> []((\A e \in Ends : ready[e]) /\ port = 0)

\* No work waits for ever for its counterpart, from the set-up to its last frame.
WorksEnd == SetUpEnds /\ CallsEnd
=============================================================================
