----------------------------- MODULE ChannelComm -----------------------------
(***************************************************************************)
(* A channel seen end to end: Channel.put and Channel.get in the workers   *)
(* (scheduler/channel/channel.py), the works that track them               *)
(* (scheduler/collective/async_work.py), and the ChannelWorker that serves *)
(* them (scheduler/channel/channel_worker.py).                             *)
(*                                                                         *)
(* A call takes two roads at once.  Its remote method is run by Ray on the *)
(* channel worker, in any order; a put is first chained behind the last    *)
(* put of its worker on its key.  Its data goes over the point-to-point    *)
(* connection of the worker and the channel worker, in order: an item with *)
(* its key, or a reply with its query id.  A put method takes the next     *)
(* item of the connection and a recv of the worker the next reply,         *)
(* whichever call they belong to.                                          *)
(*                                                                         *)
(* The queues behave as in ChannelQueue.  A connection is set up once and  *)
(* neither loses nor reorders; workers do not fail.                        *)
(***************************************************************************)
EXTENDS Integers, SequencesExt

CONSTANTS
  Clients,     \* workers that use the channel
  Keys,        \* keys of the channel's queues
  Calls,       \* the calls of the workers, each made at most once
  Workloads,   \* the sets of calls that may be made together
  Client,      \* Client[c]: who makes call c
  Key,         \* Key[c]: the key it names
  Op,          \* Op[c]: which method, one of PutOps or GetOps
  MaxSize,     \* maxsize of every queue; 0 is unbounded
  NoItem,      \* a get that has no result
  QueueEmpty   \* the exception, also sent in place of a query id

PutOps == {"put", "put_async", "put_nowait"}
GetOps == {"get", "get_async", "get_nowait"}

ASSUME CallsAssumption ==
  /\ Client \in [Calls -> Clients]
  /\ Key \in [Calls -> Keys]
  /\ Op \in [Calls -> PutOps \cup GetOps]
  /\ Workloads \subseteq SUBSET Calls
ASSUME MaxSizeAssumption == MaxSize \in Nat
ASSUME NoItemAssumption ==
  NoItem \notin Calls /\ QueueEmpty \notin Calls /\ NoItem # QueueEmpty

Puts == {c \in Calls : Op[c] \in PutOps}
Gets == {c \in Calls : Op[c] \in GetOps}

VARIABLES
  phase,       \* "unused", "idle", "chained", "remote", "parked", "woken", "ended", "raised"
  chain,       \* chain[w][k]: the puts of w on k whose futures are not set, in order
  items,       \* items[w]: what w has sent to the channel worker, an item named by its put
  taken,       \* taken[w]: how many of them the channel worker has received
  replies,     \* replies[w]: what the channel worker has sent to w
  recvs,       \* recvs[w]: the gets of w whose recv is still outstanding
  carries,     \* carries[c]: the item that the method of put c received
  queue,       \* queue[k], getters[k], putters[k]: the PeekQueue of a key
  getters,
  putters,
  result,      \* result[c]: what get c returns
  stored       \* history: stored[k], all items that entered the queue of k

server == <<carries, queue, getters, putters, stored>>
vars == <<phase, chain, items, taken, replies, recvs, server, result>>

-----------------------------------------------------------------------------
Full(k) == MaxSize > 0 /\ Len(queue[k]) >= MaxSize

Ended(c) == IF c \in Puts THEN phase[c] = "ended" ELSE result[c] # NoItem

Issued(c) == phase[c] \notin {"unused", "idle"}

(* A worker's thread is blocked in a call that is not async. *)
Blocked(w) ==
  \E c \in Calls :
    /\ Client[c] = w
    /\ Op[c] \notin {"put_async", "get_async"}
    /\ Issued(c)
    /\ ~Ended(c)

Init ==
  /\ \E made \in Workloads :
       phase = [c \in Calls |-> IF c \in made THEN "idle" ELSE "unused"]
  /\ chain = [w \in Clients |-> [k \in Keys |-> <<>>]]
  /\ items = [w \in Clients |-> <<>>]
  /\ taken = [w \in Clients |-> 0]
  /\ replies = [w \in Clients |-> <<>>]
  /\ recvs = [w \in Clients |-> <<>>]
  /\ carries = [c \in Puts |-> NoItem]
  /\ queue = [k \in Keys |-> <<>>]
  /\ getters = [k \in Keys |-> <<>>]
  /\ putters = [k \in Keys |-> <<>>]
  /\ result = [c \in Gets |-> NoItem]
  /\ stored = [k \in Keys |-> <<>>]

-----------------------------------------------------------------------------
(* A put runs at once unless an earlier one on its key is outstanding. *)
AtOnce(w, k) == "remote"   \* fault: no chaining
AfterLast(w, k) == IF chain[w][k] = <<>> THEN "remote" ELSE "chained"

(* The workers.  put: the AsyncChannelWork runs the remote method, at once *)
(* or when the future before it on its key is set; the item is sent now.   *)
IssuePut(c) ==
  LET w == Client[c]
      k == Key[c]
  IN
  /\ c \in Puts
  /\ phase[c] = "idle"
  /\ ~Blocked(w)
  /\ phase' = [phase EXCEPT ![c] = AfterLast(w, k)]
  /\ chain' = [chain EXCEPT ![w][k] = Append(@, c)]
  /\ items' = [items EXCEPT ![w] = Append(@, c)]
  /\ UNCHANGED <<taken, replies, recvs, server, result>>

(* get: the remote method is called and a recv is queued. *)
IssueGet(c) ==
  /\ c \in Gets
  /\ phase[c] = "idle"
  /\ ~Blocked(Client[c])
  /\ phase' = [phase EXCEPT ![c] = "remote"]
  /\ recvs' = [recvs EXCEPT ![Client[c]] = Append(@, c)]
  /\ UNCHANGED <<chain, items, taken, replies, server, result>>

(* The oldest recv of a worker completes with the next reply.  An async    *)
(* get files the item under the query id of the reply, where only an async *)
(* get looks for it; get and get_nowait return what their recv delivers.   *)
\* fault: an async get drops the reply of another call
ReceiverOwn(c, reply) ==
  IF Op[c] = "get_async" THEN {g \in {c} : g = reply.query} ELSE {c}

Receivers(c, reply) ==
  IF Op[c] = "get_async"
    THEN {g \in Gets : g = reply.query /\ Op[g] = "get_async"}
    ELSE {c}

Recv(w) ==
  LET c == Head(recvs[w])
      reply == Head(replies[w])
      value == IF Op[c] = "get_nowait" /\ reply.query = QueueEmpty
                 THEN QueueEmpty ELSE reply.item
  IN
  /\ recvs[w] # <<>>
  /\ replies[w] # <<>>
  /\ result' = [g \in Gets |-> IF g \in Receivers(c, reply) THEN value ELSE result[g]]
  /\ recvs' = [recvs EXCEPT ![w] = Tail(@)]
  /\ replies' = [replies EXCEPT ![w] = Tail(@)]
  /\ UNCHANGED <<phase, chain, items, taken, server>>

-----------------------------------------------------------------------------
(* The channel worker's coroutines.  Those a step wakes, and the put that  *)
(* follows in a chain when the future of the one before it is set.         *)
Woken(waiters) == IF waiters = <<>> THEN {} ELSE {Head(waiters)}
Rest(waiters) == IF waiters = <<>> THEN <<>> ELSE Tail(waiters)

NoSuccessor(c) == {}   \* fault: the callback does not run the next put
Successor(c) ==
  LET ch == chain[Client[c]][Key[c]]
  IN IF Len(ch) > 1 THEN {ch[2]} ELSE {}

(* An item goes to the queue of the key it was sent with. *)
QueueOfCall(c, item) == Key[c]   \* fault: the key of the call that received it
QueueOf(c, item) == Key[item]

(* The method of put c stores the item it carries, wakes a getter of the   *)
(* item's queue and returns, which sets the future of c.                   *)
Store(c, item) ==
  LET k == QueueOf(c, item)
      woken == Woken(getters[k])
  IN
  /\ queue' = [queue EXCEPT ![k] = Append(@, item)]
  /\ stored' = [stored EXCEPT ![k] = Append(@, item)]
  /\ getters' = [getters EXCEPT ![k] = Rest(@)]
  /\ phase' = [d \in Calls |->
                 IF d = c THEN "ended"
                 ELSE IF d \in woken THEN "woken"
                 ELSE IF d \in Successor(c) THEN "remote"
                 ELSE phase[d]]
  /\ chain' = [chain EXCEPT ![Client[c]][Key[c]] = Tail(@)]
  /\ UNCHANGED putters

Park(c, item) ==
  /\ putters' = [putters EXCEPT ![QueueOf(c, item)] = Append(@, c)]
  /\ phase' = [phase EXCEPT ![c] = "parked"]
  /\ UNCHANGED <<queue, stored, getters, chain>>

(* put_nowait raises in the remote method; the callback that would set the *)
(* future raises in turn, so the future is never set.                      *)
RaiseFull(c) ==
  /\ phase' = [phase EXCEPT ![c] = "raised"]
  /\ UNCHANGED <<queue, stored, getters, putters, chain>>

StoreOrWait(c, item) ==
  \/ ~Full(QueueOf(c, item)) /\ Store(c, item)
  \/ Full(QueueOf(c, item)) /\ Op[c] # "put_nowait" /\ Park(c, item)
  \/ Full(QueueOf(c, item)) /\ Op[c] = "put_nowait" /\ RaiseFull(c)

(* A put method starts: it receives the next item its worker has sent. *)
PutStarts(c) ==
  LET w == Client[c]
      item == items[w][taken[w] + 1]
  IN
  /\ c \in Puts
  /\ phase[c] = "remote"
  /\ taken[w] < Len(items[w])
  /\ taken' = [taken EXCEPT ![w] = @ + 1]
  /\ carries' = [carries EXCEPT ![c] = item]
  /\ StoreOrWait(c, item)
  /\ UNCHANGED <<items, replies, recvs, result>>

PutResumes(c) ==
  /\ c \in Puts
  /\ phase[c] = "woken"
  /\ StoreOrWait(c, carries[c])
  /\ UNCHANGED <<items, taken, replies, recvs, result, carries>>

(* A get method takes the head of its queue, and replies with the item and *)
(* its query id.                                                           *)
Peek(k) == queue   \* fault: the item stays
Dequeue(k) == [queue EXCEPT ![k] = Tail(@)]

\* fault: payload and piggyback swapped
ReplySwapped(c, item, query) ==
  replies' = [replies EXCEPT ![Client[c]] = Append(@, [item |-> query, query |-> item])]
Reply(c, item, query) ==
  replies' = [replies EXCEPT ![Client[c]] = Append(@, [item |-> item, query |-> query])]

GetRuns(c) ==
  LET k == Key[c]
      woken == Woken(putters[k])
  IN
  /\ c \in Gets
  /\ phase[c] \in {"remote", "woken"}
  /\ \/ /\ queue[k] # <<>>
        /\ queue' = Dequeue(k)
        /\ putters' = [putters EXCEPT ![k] = Rest(@)]
        /\ phase' = [d \in Calls |->
                       IF d = c THEN "ended" ELSE IF d \in woken THEN "woken" ELSE phase[d]]
        /\ Reply(c, Head(queue[k]), c)
        /\ UNCHANGED getters
     \/ /\ queue[k] = <<>>
        /\ Op[c] # "get_nowait"
        /\ getters' = [getters EXCEPT ![k] = Append(@, c)]
        /\ phase' = [phase EXCEPT ![c] = "parked"]
        /\ UNCHANGED <<queue, putters, replies>>
     \/ /\ queue[k] = <<>>
        /\ Op[c] = "get_nowait"
        /\ phase' = [phase EXCEPT ![c] = "ended"]
        /\ Reply(c, NoItem, QueueEmpty)
        /\ UNCHANGED <<queue, getters, putters>>
  /\ UNCHANGED <<chain, items, taken, recvs, carries, result, stored>>

Next ==
  \/ \E c \in Calls :
       \/ IssuePut(c) \/ IssueGet(c)
       \/ PutStarts(c) \/ PutResumes(c) \/ GetRuns(c)
  \/ \E w \in Clients : Recv(w)

Spec == Init /\ [][Next]_vars

(* Ray delivers every call, the event loop runs every ready coroutine and  *)
(* a posted recv completes when its message is there; workers may stop     *)
(* issuing calls.                                                          *)
Fairness ==
  /\ \A c \in Calls : WF_vars(PutStarts(c) \/ PutResumes(c) \/ GetRuns(c))
  /\ \A w \in Clients : WF_vars(Recv(w))

FairSpec == Spec /\ Fairness

-----------------------------------------------------------------------------
(* The types of the variables. *)
TypeOK ==
  /\ phase \in [Calls -> {"unused", "idle", "chained", "remote", "parked", "woken", "ended", "raised"}]
  /\ chain \in [Clients -> [Keys -> Seq(Puts)]]
  /\ items \in [Clients -> Seq(Puts)]
  /\ taken \in [Clients -> Nat] /\ \A w \in Clients : taken[w] <= Len(items[w])
  /\ replies \in [Clients -> Seq([item : Puts \cup {NoItem}, query : Gets \cup {QueueEmpty}])]
  /\ recvs \in [Clients -> Seq(Gets)]
  /\ carries \in [Puts -> Puts \cup {NoItem}]
  /\ queue \in [Keys -> Seq(Puts)] /\ stored \in [Keys -> Seq(Puts)]
  /\ getters \in [Keys -> Seq(Gets)] /\ putters \in [Keys -> Seq(Puts)]
  /\ result \in [Gets -> Puts \cup {NoItem, QueueEmpty}]

(* Key-based routing: a get returns an item that was put with its key. *)
KeyRouting ==
  \A c \in Gets : result[c] \in Puts => Key[result[c]] = Key[c]

(* Every item is returned by at most one get, and by none while it is in a *)
(* queue; and everything is of its type.                                   *)
AtMostOnce ==
  /\ TypeOK
  /\ \A c, d \in Gets : c # d /\ result[c] \in Puts => result[c] # result[d]
  /\ \A c \in Gets : result[c] \notin Range(queue[Key[c]])

(* The items of one worker enter a key's queue in the order in which it    *)
(* put them, each once and none left out, whatever order their remote      *)
(* methods run in.                                                         *)
PutOrder ==
  \A k \in Keys :
    /\ IsInjective(stored[k])
    /\ \A n \in DOMAIN stored[k] :
         LET sent == items[Client[stored[k][n]]]
         IN \E j \in DOMAIN sent :
              /\ sent[j] = stored[k][n] /\ Key[sent[j]] = k
              /\ \A i \in 1..(j - 1) :
                   Key[sent[i]] = k => \E m \in 1..(n - 1) : stored[k][m] = sent[i]

(* A get on a key whose queue has received an item for every get on it     *)
(* returns: no reply is filed under another call, no wake-up is lost.      *)
Owed(c) ==
  /\ Issued(c) /\ result[c] = NoItem
  /\ Len(stored[Key[c]]) >= Cardinality({d \in Gets : Key[d] = Key[c] /\ Issued(d)})

GetsReturn == []<>(\A c \in Gets : ~Owed(c))

(* A put that was called ends, unless its queue is full: no wake-up of a   *)
(* queue is lost, and no work is left behind its predecessor.  It is said  *)
(* of puts on one bounded key; with two, the chain of the works lets a put *)
(* on a full key hold up one on a key that has room.                       *)
PutsReturn == []<>(\A c \in Puts : Issued(c) => Ended(c) \/ Full(Key[c]))

(* The calls that promise not to block return or raise. *)
NowaitReturns ==
  []<>(\A c \in Calls :
         Op[c] \in {"put_nowait", "get_nowait"} /\ Issued(c) => Ended(c))
=============================================================================
