------------------------- MODULE ChannelComm_proofs -------------------------
(***************************************************************************)
(* Proofs about ChannelComm for any workers, keys, calls and maxsize: an   *)
(* item goes to one get at most; gets return items of their key and items  *)
(* enter in the order of the puts, for workloads that keep clear of the    *)
(* mixtures in which the code does not promise it.                         *)
(***************************************************************************)
EXTENDS ChannelComm, SequenceTheorems, FiniteSetTheorems, TLAPS

-----------------------------------------------------------------------------
(* The inductive invariant: where an item is on its way from the worker to *)
(* the get that returns it.                                                *)

(* The channel worker has received the item. *)
Received(p) == \E i \in 1..taken[Client[p]] : items[Client[p]][i] = p

(* How many items have been in the queue of a key and have left it, and    *)
(* whether p is one of them.                                               *)
Gone(k) == Len(stored[k]) - Len(queue[k])
Left(p) == \E i \in 1..Gone(Key[p]) : stored[Key[p]][i] = p

(* A worker has sent each of its items once, when the put was called. *)
SentOnce ==
  \A w \in Clients : \A i \in 1..Len(items[w]) :
    /\ Client[items[w][i]] = w /\ Issued(items[w][i])
    /\ \A j \in 1..Len(items[w]) : items[w][j] = items[w][i] => j = i

(* A chain holds the puts of its worker and key once; all but the first    *)
(* wait for their turn.                                                    *)
InChain ==
  \A w \in Clients, k \in Keys : \A i \in 1..Len(chain[w][k]) :
    LET c == chain[w][k][i] IN
      /\ Client[c] = w /\ Key[c] = k /\ Issued(c)
      /\ i > 1 => phase[c] = "chained"
      /\ \A j \in 1..Len(chain[w][k]) : chain[w][k][j] = c => j = i

(* A put that is at work is the first of its chain. *)
Active(c) == phase[c] \in {"remote", "parked", "woken", "raised"}
AtHead ==
  \A c \in Puts : Active(c) =>
    chain[Client[c]][Key[c]] # <<>> /\ Head(chain[Client[c]][Key[c]]) = c

(* The tasks in the deques of the queues wait, each in one place. *)
Parked == {c \in Calls : phase[c] = "parked"}
Sleep(waiters, tasks) ==
  \A k \in Keys : \A i \in 1..Len(waiters[k]) :
    /\ waiters[k][i] \in tasks
    /\ \A l \in Keys : \A j \in 1..Len(waiters[l]) :
         waiters[l][j] = waiters[k][i] => l = k /\ j = i
Asleep == Sleep(putters, Parked) /\ Sleep(getters, Parked)

(* A put that waits for room has received an item that is not stored, and  *)
(* nobody else has it.                                                     *)
Holds(c) == phase[c] \in {"parked", "woken"}
Carried ==
  \A c \in Puts : Holds(c) =>
    LET p == carries[c] IN
      /\ p \in Puts /\ Client[p] = Client[c] /\ Received(p)
      /\ \A n \in 1..Len(stored[Key[p]]) : stored[Key[p]][n] # p
      /\ \A d \in Puts : Holds(d) /\ carries[d] = p => d = c

(* An item is stored once, in the queue of its key. *)
StoredOnce ==
  \A k \in Keys : \A n \in 1..Len(stored[k]) :
    /\ Key[stored[k][n]] = k /\ Received(stored[k][n])
    /\ \A m \in 1..Len(stored[k]) : stored[k][m] = stored[k][n] => m = n

(* A queue holds what was stored last. *)
Queued ==
  \A k \in Keys :
    /\ Len(queue[k]) <= Len(stored[k])
    /\ \A i \in 1..Len(queue[k]) : queue[k][i] = stored[k][i + Gone(k)]

(* An item in a reply has left its queue, and is in no other reply. *)
Replied ==
  \A w \in Clients : \A i \in 1..Len(replies[w]) :
    LET p == replies[w][i].item IN
      p \in Puts =>
        /\ Left(p)
        /\ \A v \in Clients : \A j \in 1..Len(replies[v]) :
             replies[v][j].item = p => v = w /\ j = i

(* An item that a get has returned has left its queue, and is in no reply  *)
(* and with no other get.                                                  *)
Returned ==
  \A g \in Gets : result[g] \in Puts =>
    /\ Left(result[g])
    /\ \A h \in Gets : result[h] = result[g] => h = g
    /\ \A w \in Clients : \A i \in 1..Len(replies[w]) : replies[w][i].item # result[g]

OnceInv ==
  /\ TypeOK /\ SentOnce /\ InChain /\ AtHead /\ Asleep
  /\ Carried /\ StoredOnce /\ Queued /\ Replied /\ Returned

-----------------------------------------------------------------------------
(* Routing by keys: a worker has blocking gets and async gets on one key   *)
(* only, if it has both in a workload.                                     *)
UnmixedGets ==
  \A made \in Workloads : \A c, d \in made \cap Gets :
    Client[c] = Client[d] /\ Op[c] # "get_async" /\ Op[d] = "get_async" => Key[c] = Key[d]

Used(c) == phase[c] # "unused"

Unmixed ==
  \A c, d \in Gets :
    Used(c) /\ Used(d) /\ Client[c] = Client[d] /\ Op[c] # "get_async" /\ Op[d] = "get_async"
      => Key[c] = Key[d]

(* The recvs of a worker are of its gets, and those that it has not begun  *)
(* have no result.                                                         *)
Posted ==
  /\ \A w \in Clients : \A i \in 1..Len(recvs[w]) : Client[recvs[w][i]] = w /\ Issued(recvs[w][i])
  /\ \A c \in Gets : ~Issued(c) => result[c] = NoItem

(* An item is replied to a get of the worker on the item's key. *)
Routed ==
  \A w \in Clients : \A i \in 1..Len(replies[w]) :
    LET reply == replies[w][i] IN
      reply.item \in Puts =>
        /\ reply.query \in Gets /\ Client[reply.query] = w /\ Issued(reply.query)
        /\ Key[reply.item] = Key[reply.query]

(* A worker without async gets has one get at a time, and what it is       *)
(* replied is the answer to that.                                          *)
OnlyBlocks(w) == \A d \in Gets : Client[d] = w /\ Used(d) => Op[d] # "get_async"
Quiet(c) == phase[c] \in {"unused", "idle", "ended"}
Nothing(w) ==
  recvs[w] = <<>> /\ replies[w] = <<>> /\ \A c \in Gets : Client[c] = w => Quiet(c)
Waits(w, c) ==
  /\ recvs[w] = <<c>> /\ Client[c] = w /\ Issued(c) /\ result[c] = NoItem
  /\ \A d \in Gets \ {c} : Client[d] = w => Quiet(d)
  /\ phase[c] # "ended" => replies[w] = <<>>
  /\ phase[c] = "ended" => Len(replies[w]) = 1 /\ (replies[w][1].item \in Puts => replies[w][1].query = c)
OneAtATime ==
  \A w \in Clients : OnlyBlocks(w) => Nothing(w) \/ \E c \in Gets : Waits(w, c)

RouteInv == Unmixed /\ Posted /\ Routed /\ OneAtATime /\ KeyRouting

-----------------------------------------------------------------------------
(* The order of puts: in a workload no queue gets more than it holds, or   *)
(* every worker puts on one key only.                                      *)
PutsOn(made, k) == {c \in made \cap Puts : Key[c] = k}
Roomy(made) ==
  \/ MaxSize = 0
  \/ \A k \in Keys : IsFiniteSet(PutsOn(made, k)) /\ Cardinality(PutsOn(made, k)) <= MaxSize
OneKey(made) == \A c, d \in made \cap Puts : Client[c] = Client[d] => Key[c] = Key[d]
InOrderOfPuts == \A made \in Workloads : Roomy(made) \/ OneKey(made)

UsedCalls == {c \in Calls : Used(c)}
InHand(c) == phase[c] \in {"parked", "woken", "raised"}

Ordered == (Roomy(UsedCalls) /\ \A c \in Puts : ~InHand(c)) \/ OneKey(UsedCalls)

(* All that has been received is stored, or the last is with a put that    *)
(* waits or has raised.                                                    *)
IsStored(p) == \E n \in 1..Len(stored[Key[p]]) : stored[Key[p]][n] = p
AllStored ==
  \A w \in Clients : \A i \in 1..taken[w] :
    \/ IsStored(items[w][i])
    \/ i = taken[w] /\ \E c \in Puts : Client[c] = w /\ InHand(c)

(* Received before on the same key, stored before. *)
Follows(q, p, k) ==
  \A n \in 1..Len(stored[k]) : stored[k][n] = q => \E m \in 1..(n - 1) : stored[k][m] = p
InOrder ==
  \A w \in Clients : \A j \in 1..taken[w] : \A i \in 1..(j - 1) :
    Key[items[w][i]] = Key[items[w][j]] => Follows(items[w][j], items[w][i], Key[items[w][j]])

OrderInv == Ordered /\ AllStored /\ InOrder

-----------------------------------------------------------------------------
(* Sequences, as the calls use them.                                       *)

\* One more at the end.
LEMMA AddsLast ==
  ASSUME NEW S, NEW s \in Seq(S), NEW x \in S
  PROVE  /\ Append(s, x) \in Seq(S) /\ Len(s) \in Nat /\ Len(Append(s, x)) = Len(s) + 1
         /\ \A i \in 1..Len(s) : Append(s, x)[i] = s[i]
         /\ Append(s, x)[Len(s) + 1] = x
         /\ \A i \in 1..Len(Append(s, x)) : i \in 1..Len(s) \/ i = Len(s) + 1
  OBVIOUS

\* One less at the front.
LEMMA DropsFirst ==
  ASSUME NEW S, NEW s \in Seq(S), s # <<>>
  PROVE  /\ Tail(s) \in Seq(S) /\ Len(s) \in Nat \ {0} /\ Len(Tail(s)) = Len(s) - 1
         /\ \A i \in 1..(Len(s) - 1) : Tail(s)[i] = s[i + 1]
         /\ Head(s) = s[1] /\ Head(s) \in S
  OBVIOUS

\* The head of what is not empty.
LEMMA HeadIsFirst ==
  ASSUME NEW S, NEW s \in Seq(S), Len(s) >= 1
  PROVE  s # <<>> /\ Head(s) = s[1]
  OBVIOUS

\* Who is woken waits at the head, and the rest stay where they are.
LEMMA Wakes ==
  ASSUME NEW S, NEW s \in Seq(S)
  PROVE  /\ Rest(s) \in Seq(S) /\ Woken(s) \subseteq S
         /\ \A d \in Woken(s) : s # <<>> /\ d = s[1] /\ 1 \in 1..Len(s)
         /\ \A i \in 1..Len(Rest(s)) : i + 1 \in 1..Len(s) /\ Rest(s)[i] = s[i + 1]
  BY DropsFirst DEF Rest, Woken

\* One entry of a table of two dimensions changes.
LEMMA UpdatesOneOfOne ==
  ASSUME NEW A, NEW B, NEW S, NEW f \in [A -> [B -> S]], NEW a \in A, NEW b \in B, NEW x \in S
  PROVE  LET g == [f EXCEPT ![a][b] = x]
         IN /\ g \in [A -> [B -> S]] /\ g[a][b] = x
            /\ \A c \in A, d \in B : c # a \/ d # b => g[c][d] = f[c][d]
  OBVIOUS

(* In the deque of k the first is taken out, or c waits too. *)
Shortens(f, g, k) ==
  f[k] \in Seq(Calls) /\ g[k] = Rest(f[k]) /\ \A l \in Keys \ {k} : g[l] = f[l]
Lengthens(f, g, k, c) ==
  f[k] \in Seq(Calls) /\ g[k] = Append(f[k], c) /\ \A l \in Keys \ {k} : g[l] = f[l]

\* Tasks in deques: others wait too, the head of one deque is woken, one more
\* task waits.
LEMMA SleepOn ==
  ASSUME NEW f, NEW T, NEW U, Sleep(f, T), T \subseteq U
  PROVE  Sleep(f, U)
  BY DEF Sleep

LEMMA SleepAfterWake ==
  ASSUME NEW f, NEW g, NEW k \in Keys, NEW T, NEW U,
         Shortens(f, g, k), Sleep(f, T), \A t \in T : t \in Woken(f[k]) \/ t \in U
  PROVE  Sleep(g, U)
  <1>1. f[k] \in Seq(Calls) /\ g[k] = Rest(f[k]) /\ \A l \in Keys \ {k} : g[l] = f[l]
    BY DEF Shortens
  <1>2. \A i \in 1..Len(g[k]) : i \in Nat /\ i + 1 \in 1..Len(f[k]) /\ g[k][i] = f[k][i + 1]
    BY <1>1, Wakes
  <1>3. \A d \in Woken(f[k]) : d = f[k][1] /\ 1 \in 1..Len(f[k])
    BY <1>1, Wakes
  <1>4. \A l \in Keys : \A i \in 1..Len(g[l]) : \E m \in 1..Len(f[l]) :
          g[l][i] = f[l][m] /\ (IF l = k THEN m = i + 1 ELSE m = i)
    BY <1>1, <1>2
  <1>5. SUFFICES ASSUME NEW l \in Keys, NEW i \in 1..Len(g[l])
                 PROVE  /\ g[l][i] \in U
                        /\ \A n \in Keys : \A j \in 1..Len(g[n]) : g[n][j] = g[l][i] => n = l /\ j = i
    BY DEF Sleep
  <1>6. PICK m \in 1..Len(f[l]) : g[l][i] = f[l][m] /\ (IF l = k THEN m = i + 1 ELSE m = i)
    BY <1>4
  <1>7. f[l][m] \in T /\ \A n \in Keys : \A j \in 1..Len(f[n]) : f[n][j] = f[l][m] => n = l /\ j = m
    BY DEF Sleep
  <1>8. g[l][i] \in U
    <2>1. f[l][m] \notin Woken(f[k])
      BY <1>3, <1>6, <1>7
    <2> QED
      BY <2>1, <1>6, <1>7
  <1>9. ASSUME NEW n \in Keys, NEW j \in 1..Len(g[n]), g[n][j] = g[l][i]
        PROVE  n = l /\ j = i
    <2>1. PICK p \in 1..Len(f[n]) : g[n][j] = f[n][p] /\ (IF n = k THEN p = j + 1 ELSE p = j)
      BY <1>4
    <2>2. n = l /\ p = m
      BY <2>1, <1>6, <1>7, <1>9
    <2> QED
      BY <2>1, <2>2, <1>6
  <1> QED
    BY <1>8, <1>9

LEMMA SleepAfterWait ==
  ASSUME NEW f, NEW g, NEW k \in Keys, NEW T, NEW U, NEW c \in Calls,
         Lengthens(f, g, k, c), Sleep(f, T), c \notin T, T \subseteq U, c \in U
  PROVE  Sleep(g, U)
  <1>1. f[k] \in Seq(Calls) /\ g[k] = Append(f[k], c) /\ \A l \in Keys \ {k} : g[l] = f[l]
    BY DEF Lengthens
  <1>2. /\ g[k][Len(f[k]) + 1] = c /\ Len(f[k]) \in Nat
        /\ \A i \in 1..Len(f[k]) : g[k][i] = f[k][i]
        /\ \A i \in 1..Len(g[k]) : i \in 1..Len(f[k]) \/ i = Len(f[k]) + 1
    BY <1>1, AddsLast
  <1>3. \A l \in Keys : \A i \in 1..Len(g[l]) :
          (i \in 1..Len(f[l]) /\ g[l][i] = f[l][i]) \/ (l = k /\ i = Len(f[k]) + 1 /\ g[l][i] = c)
    BY <1>1, <1>2
  <1>4. \A l \in Keys : \A i \in 1..Len(f[l]) :
          /\ f[l][i] \in T /\ f[l][i] # c
          /\ \A n \in Keys : \A j \in 1..Len(f[n]) : f[n][j] = f[l][i] => n = l /\ j = i
    BY DEF Sleep
  <1>5. \A l \in Keys : \A i \in 1..Len(g[l]) :
          /\ g[l][i] \in U
          /\ \A n \in Keys : \A j \in 1..Len(g[n]) : g[n][j] = g[l][i] => n = l /\ j = i
    <2> TAKE l \in Keys
    <2> TAKE i \in 1..Len(g[l])
    <2>1. g[l][i] \in U
      BY <1>3, <1>4
    <2>2. ASSUME NEW n \in Keys, NEW j \in 1..Len(g[n]), g[n][j] = g[l][i]
          PROVE  n = l /\ j = i
      <3>1. (i \in 1..Len(f[l]) /\ g[l][i] = f[l][i]) \/ (l = k /\ i = Len(f[k]) + 1 /\ g[l][i] = c)
        BY <1>3
      <3>2. (j \in 1..Len(f[n]) /\ g[n][j] = f[n][j]) \/ (n = k /\ j = Len(f[k]) + 1 /\ g[n][j] = c)
        BY <1>3
      <3> QED
        BY <3>1, <3>2, <2>2, <1>4
    <2> QED
      BY <2>1, <2>2
  <1> QED
    BY <1>5 DEF Sleep

\* The calls are puts or gets, and no call is the absence of an item.
LEMMA CallFacts ==
  /\ Puts \subseteq Calls /\ Gets \subseteq Calls /\ Puts \cap Gets = {} /\ Calls \subseteq Puts \cup Gets
  /\ NoItem \notin Puts /\ NoItem \notin Gets /\ QueueEmpty \notin Puts /\ QueueEmpty \notin Gets
  /\ NoItem # QueueEmpty
  /\ \A c \in Calls : Client[c] \in Clients /\ Key[c] \in Keys
  /\ MaxSize \in Nat
  BY CallsAssumption, MaxSizeAssumption, NoItemAssumption DEF Puts, Gets, PutOps, GetOps

-----------------------------------------------------------------------------
(* Every item goes to one get at most.                                     *)

LEMMA OnceInit == Init => OnceInv
  <1> SUFFICES ASSUME Init
               PROVE  OnceInv
    OBVIOUS
  <1> USE DEF Init
  <1>1. PICK made \in Workloads : phase = [c \in Calls |-> IF c \in made THEN "idle" ELSE "unused"]
    OBVIOUS
  <1>2. \A c \in Calls : phase[c] \in {"idle", "unused"}
    BY <1>1
  <1>3. TypeOK
    <2>1. phase \in [Calls -> {"unused", "idle", "chained", "remote", "parked", "woken", "ended", "raised"}]
      BY <1>1
    <2>2. /\ chain \in [Clients -> [Keys -> Seq(Puts)]] /\ items \in [Clients -> Seq(Puts)] /\ recvs \in [Clients -> Seq(Gets)]
          /\ queue \in [Keys -> Seq(Puts)] /\ stored \in [Keys -> Seq(Puts)]
          /\ getters \in [Keys -> Seq(Gets)] /\ putters \in [Keys -> Seq(Puts)]
      OBVIOUS
    <2>3. replies \in [Clients -> Seq([item : Puts \cup {NoItem}, query : Gets \cup {QueueEmpty}])]
      OBVIOUS
    <2>4. taken \in [Clients -> Nat] /\ \A w \in Clients : taken[w] <= Len(items[w])
      OBVIOUS
    <2>5. carries \in [Puts -> Puts \cup {NoItem}] /\ result \in [Gets -> Puts \cup {NoItem, QueueEmpty}]
      OBVIOUS
    <2> QED
      BY <2>1, <2>2, <2>3, <2>4, <2>5 DEF TypeOK
  <1>4. SentOnce /\ InChain /\ StoredOnce /\ Queued /\ Replied
    BY DEF SentOnce, InChain, StoredOnce, Queued, Replied
  <1>5. Asleep
    BY DEF Asleep, Sleep
  <1>6. AtHead /\ Carried
    BY <1>2, CallFacts DEF AtHead, Active, Carried, Holds
  <1>7. Returned
    BY CallFacts DEF Returned
  <1> QED
    BY <1>3, <1>4, <1>5, <1>6, <1>7 DEF OnceInv

\* What has left the queues stays where it is.
LEMMA OutStays ==
  ASSUME OnceInv, UNCHANGED <<queue, stored, replies, result>>
  PROVE  Queued' /\ Replied' /\ Returned'
  <1>1. \A p : Left(p)' <=> Left(p)
    BY DEF Left, Gone
  <1>2. Queued'
    BY DEF OnceInv, Queued, Gone
  <1>3. Replied'
    BY <1>1 DEF OnceInv, Replied
  <1>4. Returned'
    BY <1>1 DEF OnceInv, Returned
  <1> QED
    BY <1>2, <1>3, <1>4

LEMMA OnceStutter ==
  ASSUME OnceInv, UNCHANGED vars
  PROVE  OnceInv'
  <1>1. UNCHANGED <<phase, chain, items, taken, replies, recvs, carries, queue, getters, putters, stored, result>>
    BY DEF vars, server
  <1>2. TypeOK'
    BY <1>1 DEF OnceInv, TypeOK
  <1>3. SentOnce' /\ InChain' /\ AtHead' /\ Asleep'
    BY <1>1 DEF OnceInv, SentOnce, InChain, AtHead, Active, Asleep, Sleep, Parked, Issued
  <1>4. Carried' /\ StoredOnce'
    BY <1>1 DEF OnceInv, Carried, Holds, StoredOnce, Received
  <1>5. Queued' /\ Replied' /\ Returned'
    BY <1>1, OutStays
  <1> QED
    BY <1>2, <1>3, <1>4, <1>5 DEF OnceInv

\* A worker makes a put.
LEMMA IssuePutStep ==
  ASSUME OnceInv, NEW c \in Calls, IssuePut(c)
  PROVE  OnceInv'
  <1>1. PICK w \in Clients, k \in Keys : w = Client[c] /\ k = Key[c]
    BY CallFacts
  <1>2. /\ c \in Puts /\ phase[c] = "idle"
        /\ UNCHANGED <<taken, replies, recvs, carries, queue, getters, putters, stored, result>>
        /\ phase' = [phase EXCEPT ![c] = AfterLast(w, k)]
        /\ chain' = [chain EXCEPT ![w][k] = Append(chain[w][k], c)]
        /\ items' = [items EXCEPT ![w] = Append(items[w], c)]
    BY <1>1 DEF IssuePut, server
  <1>3. /\ phase \in [Calls -> {"unused", "idle", "chained", "remote", "parked", "woken", "ended", "raised"}]
        /\ chain \in [Clients -> [Keys -> Seq(Puts)]] /\ items \in [Clients -> Seq(Puts)]
        /\ chain[w][k] \in Seq(Puts) /\ items[w] \in Seq(Puts) /\ taken[w] \in Nat /\ taken[w] <= Len(items[w])
    BY DEF OnceInv, TypeOK
  <1>4. AfterLast(w, k) \in {"remote", "chained"} /\ (chain[w][k] # <<>> => AfterLast(w, k) = "chained")
    BY DEF AfterLast
  <1>5. /\ phase' \in [Calls -> {"unused", "idle", "chained", "remote", "parked", "woken", "ended", "raised"}]
        /\ phase'[c] = AfterLast(w, k)
        /\ \A d \in Calls \ {c} : phase'[d] = phase[d]
    BY <1>2, <1>3, <1>4
  <1>6. Append(chain[w][k], c) \in Seq(Puts) /\ Append(items[w], c) \in Seq(Puts)
    BY <1>2, <1>3, AddsLast
  <1>7. /\ chain' \in [Clients -> [Keys -> Seq(Puts)]]
        /\ chain'[w][k] = Append(chain[w][k], c)
        /\ \A v \in Clients, l \in Keys : v # w \/ l # k => chain'[v][l] = chain[v][l]
    BY <1>2, <1>3, <1>6, UpdatesOneOfOne
  <1>8. /\ items' \in [Clients -> Seq(Puts)]
        /\ items'[w] = Append(items[w], c)
        /\ \A v \in Clients \ {w} : items'[v] = items[v]
    BY <1>2, <1>3, <1>6
  <1>9. \A d \in Calls : Issued(d) => Issued(d)'
    BY <1>2, <1>4, <1>5 DEF Issued
  <1>10. Issued(c)' /\ ~Issued(c)
    BY <1>2, <1>4, <1>5 DEF Issued
  <1>11. \A v \in Clients : items[v] \in Seq(Puts) /\ Len(items[v]) \in Nat /\ Len(items'[v]) \in Nat
           /\ \A i \in 1..Len(items[v]) : i \in 1..Len(items'[v]) /\ items'[v][i] = items[v][i] /\ items[v][i] \in Puts
    BY <1>2, <1>3, <1>8, AddsLast
  <1>12. TypeOK'
    <2>1. \A v \in Clients : taken'[v] <= Len(items'[v])
      <3>1. \A v \in Clients : Len(items'[v]) >= Len(items[v])
        BY <1>2, <1>3, <1>8, <1>11, AddsLast
      <3> QED
        BY <3>1, <1>2, <1>11 DEF OnceInv, TypeOK
    <2> QED
      BY <2>1, <1>2, <1>5, <1>7, <1>8 DEF OnceInv, TypeOK
  <1>13. SentOnce'
    <2> SUFFICES ASSUME NEW v \in Clients, NEW i \in 1..Len(items'[v]), NEW j \in 1..Len(items'[v])
                 PROVE  /\ Client[items'[v][i]] = v /\ phase'[items'[v][i]] \notin {"unused", "idle"}
                        /\ items'[v][j] = items'[v][i] => j = i
      BY DEF SentOnce, Issued
    <2>1. \A n \in 1..Len(items[v]) : items[v][n] \in Puts /\ items[v][n] # c /\ Client[items[v][n]] = v
            /\ phase'[items[v][n]] \notin {"unused", "idle"} /\ \A m \in 1..Len(items[v]) : items[v][m] = items[v][n] => m = n
      BY <1>9, <1>10, <1>11, CallFacts DEF OnceInv, SentOnce, Issued
    <2>2. CASE v # w
      BY <2>1, <2>2, <1>8
    <2>3. CASE v = w
      <3>1. Client[c] = w /\ phase'[c] \notin {"unused", "idle"}
        BY <1>1, <1>10 DEF Issued
      <3>2. /\ items'[w][Len(items[w]) + 1] = c
            /\ \A n \in 1..Len(items[w]) : items'[w][n] = items[w][n]
            /\ \A n \in 1..Len(items'[w]) : n \in 1..Len(items[w]) \/ n = Len(items[w]) + 1
        BY <1>2, <1>3, <1>8, AddsLast
      <3>3. \A n \in 1..Len(items'[w]) : /\ Client[items'[w][n]] = w /\ phase'[items'[w][n]] \notin {"unused", "idle"}
                                         /\ (items'[w][n] = c <=> n = Len(items[w]) + 1)
        BY <2>1, <2>3, <3>1, <3>2
      <3>4. \A n, m \in 1..Len(items[w]) : items'[w][m] = items'[w][n] => m = n
        BY <2>1, <2>3, <3>2
      <3>5. items'[v][j] = items'[v][i] => j = i
        <4>1. CASE i = Len(items[w]) + 1
          BY <2>3, <3>3, <4>1
        <4>2. CASE i # Len(items[w]) + 1 /\ j # Len(items[w]) + 1
          <5>1. i \in 1..Len(items[w]) /\ j \in 1..Len(items[w])
            BY <2>3, <3>2, <4>2
          <5> QED
            BY <2>3, <3>4, <5>1
        <4>3. CASE i # Len(items[w]) + 1 /\ j = Len(items[w]) + 1
          BY <2>3, <3>3, <4>3
        <4> QED
          BY <4>1, <4>2, <4>3
      <3>6. i \in 1..Len(items'[w])
        BY <2>3
      <3>7. Client[items'[w][i]] = w /\ phase'[items'[w][i]] \notin {"unused", "idle"}
        <4>1. \A n \in 1..Len(items'[w]) : Client[items'[w][n]] = w /\ phase'[items'[w][n]] \notin {"unused", "idle"}
          BY <3>3
        <4> QED
          BY <3>6, <4>1
      <3> QED
        BY <2>3, <3>5, <3>7
    <2> QED
      BY <2>2, <2>3
  <1>14. InChain'
    <2> SUFFICES ASSUME NEW v \in Clients, NEW l \in Keys, NEW i \in 1..Len(chain'[v][l]), NEW j \in 1..Len(chain'[v][l])
                 PROVE  /\ Client[chain'[v][l][i]] = v /\ Key[chain'[v][l][i]] = l /\ phase'[chain'[v][l][i]] \notin {"unused", "idle"}
                        /\ i > 1 => phase'[chain'[v][l][i]] = "chained"
                        /\ chain'[v][l][j] = chain'[v][l][i] => j = i
      BY DEF InChain, Issued
    <2>1. \A n \in 1..Len(chain[v][l]) : chain[v][l][n] \in Puts /\ chain[v][l][n] # c
            /\ Client[chain[v][l][n]] = v /\ Key[chain[v][l][n]] = l /\ Issued(chain[v][l][n])
            /\ (n > 1 => phase[chain[v][l][n]] = "chained") /\ \A m \in 1..Len(chain[v][l]) : chain[v][l][m] = chain[v][l][n] => m = n
      BY <1>3, <1>10 DEF OnceInv, InChain
    <2>2. \A n \in 1..Len(chain[v][l]) : phase'[chain[v][l][n]] \notin {"unused", "idle"} /\ (n > 1 => phase'[chain[v][l][n]] = "chained")
      BY <2>1, <1>5, CallFacts DEF Issued
    <2>3. CASE v # w \/ l # k
      BY <2>1, <2>2, <2>3, <1>7
    <2>4. CASE v = w /\ l = k
      <3>1. /\ Client[c] = w /\ Key[c] = k /\ phase'[c] \notin {"unused", "idle"}
            /\ Len(chain[w][k]) > 0 => phase'[c] = "chained"
        BY <1>1, <1>3, <1>4, <1>5, <1>10 DEF Issued
      <3>2. /\ chain'[w][k][Len(chain[w][k]) + 1] = c /\ Len(chain[w][k]) \in Nat
            /\ \A n \in 1..Len(chain[w][k]) : chain'[w][k][n] = chain[w][k][n]
            /\ \A n \in 1..Len(chain'[w][k]) : n \in 1..Len(chain[w][k]) \/ n = Len(chain[w][k]) + 1
        BY <1>2, <1>3, <1>7, AddsLast
      <3>3. ASSUME NEW n \in 1..Len(chain'[w][k])
            PROVE  /\ Client[chain'[w][k][n]] = w /\ Key[chain'[w][k][n]] = k /\ phase'[chain'[w][k][n]] \notin {"unused", "idle"}
                   /\ n > 1 => phase'[chain'[w][k][n]] = "chained"
        <4>1. CASE n \in 1..Len(chain[w][k])
          <5>1. chain'[w][k][n] = chain[w][k][n]
            BY <3>2, <4>1
          <5>2. /\ Client[chain[w][k][n]] = w /\ Key[chain[w][k][n]] = k /\ phase'[chain[w][k][n]] \notin {"unused", "idle"}
                /\ n > 1 => phase'[chain[w][k][n]] = "chained"
            BY <2>1, <2>2, <2>4, <4>1
          <5> QED
            BY <5>1, <5>2
        <4>2. CASE n = Len(chain[w][k]) + 1
          BY <3>1, <3>2, <4>2
        <4> QED
          BY <3>2, <4>1, <4>2
      <3>4. \A n, m \in 1..Len(chain'[w][k]) : chain'[w][k][m] = chain'[w][k][n] => m = n
        <4>1. \A n \in 1..Len(chain[w][k]) : chain[w][k][n] # c /\ \A m \in 1..Len(chain[w][k]) : chain[w][k][m] = chain[w][k][n] => m = n
          BY <2>1, <2>4
        <4> QED
          BY <3>2, <4>1
      <3> QED
        BY <2>4, <3>3, <3>4
    <2> QED
      BY <2>3, <2>4
  <1>15. AtHead'
    <2> SUFFICES ASSUME NEW d \in Puts, Active(d)'
                 PROVE  chain'[Client[d]][Key[d]] # <<>> /\ Head(chain'[Client[d]][Key[d]]) = d
      BY DEF AtHead
    <2>1. CASE d = c
      <3>1. chain[w][k] = <<>>
        BY <2>1, <1>4, <1>5 DEF Active
      <3>2. Append(<<>>, c) # <<>> /\ Head(Append(<<>>, c)) = c
        BY <1>2
      <3> QED
        BY <3>1, <3>2, <2>1, <1>1, <1>7
    <2>2. CASE d # c
      <3>1. Active(d) /\ Client[d] \in Clients /\ Key[d] \in Keys
        BY <2>2, <1>5, CallFacts DEF Active
      <3>2. chain[Client[d]][Key[d]] # <<>> /\ Head(chain[Client[d]][Key[d]]) = d
        BY <3>1 DEF OnceInv, AtHead
      <3>3. CASE Client[d] = w /\ Key[d] = k
        <4>1. Head(Append(chain[w][k], c)) = Head(chain[w][k]) /\ Append(chain[w][k], c) # <<>>
          BY <3>2, <3>3, <1>2, <1>3
        <4> QED
          BY <4>1, <3>2, <3>3, <1>7
      <3> QED
        BY <3>1, <3>2, <3>3, <1>7
    <2> QED
      BY <2>1, <2>2
  <1>16. Asleep'
    <2>1. Parked \subseteq Parked'
      BY <1>2, <1>5 DEF Parked
    <2> QED
      BY <2>1, <1>2, SleepOn DEF OnceInv, Asleep
  <1>17. \A p \in Puts : Received(p) => Received(p)'
    <2> SUFFICES ASSUME NEW p \in Puts, NEW i \in 1..taken[Client[p]], items[Client[p]][i] = p
                 PROVE  i \in 1..taken'[Client[p]] /\ items'[Client[p]][i] = p
      BY DEF Received
    <2>1. i \in 1..Len(items[Client[p]]) /\ Client[p] \in Clients
      <3>1. /\ Client[p] \in Clients /\ taken[Client[p]] \in Nat /\ Len(items[Client[p]]) \in Nat
            /\ taken[Client[p]] <= Len(items[Client[p]])
        BY <1>11, CallFacts DEF OnceInv, TypeOK
      <3> QED
        BY <3>1
    <2> QED
      BY <2>1, <1>2, <1>11
  <1>18. Carried'
    <2>1. \A d \in Puts : Holds(d)' => Holds(d)
      BY <1>2, <1>4, <1>5, CallFacts DEF Holds
    <2> QED
      BY <2>1, <1>2, <1>17 DEF OnceInv, Carried
  <1>19. StoredOnce'
    <2>1. \A l \in Keys : \A n \in 1..Len(stored[l]) : stored[l][n] \in Puts
      BY DEF OnceInv, TypeOK
    <2> QED
      BY <2>1, <1>2, <1>17 DEF OnceInv, StoredOnce
  <1>20. Queued' /\ Replied' /\ Returned'
    BY <1>2, OutStays
  <1> QED
    BY <1>12, <1>13, <1>14, <1>15, <1>16, <1>18, <1>19, <1>20 DEF OnceInv

\* A step that leaves the puts alone, but for those that it wakes.
LEMMA PutsStay ==
  ASSUME OnceInv, UNCHANGED <<chain, items, taken, carries, stored>>,
         \A d \in Puts : phase'[d] = phase[d] \/ (phase[d] = "parked" /\ phase'[d] = "woken")
  PROVE  SentOnce' /\ InChain' /\ AtHead' /\ Carried' /\ StoredOnce'
  <1>1. \A d \in Puts : (Issued(d) => Issued(d)') /\ (Active(d)' <=> Active(d)) /\ (Holds(d)' <=> Holds(d))
          /\ (phase[d] = "chained" => phase'[d] = "chained")
    BY DEF Issued, Active, Holds
  <1>2. SentOnce'
    <2>1. \A w \in Clients : \A i \in 1..Len(items[w]) : items[w][i] \in Puts
      BY DEF OnceInv, TypeOK
    <2> QED
      BY <1>1, <2>1 DEF OnceInv, SentOnce, Issued
  <1>3. InChain'
    <2>1. \A w \in Clients, k \in Keys : \A i \in 1..Len(chain[w][k]) : chain[w][k][i] \in Puts
      BY DEF OnceInv, TypeOK
    <2> QED
      BY <1>1, <2>1 DEF OnceInv, InChain, Issued
  <1>4. AtHead'
    BY <1>1 DEF OnceInv, AtHead
  <1>5. Carried'
    BY <1>1 DEF OnceInv, Carried, Received
  <1>6. StoredOnce'
    BY DEF OnceInv, StoredOnce, Received
  <1> QED
    BY <1>2, <1>3, <1>4, <1>5, <1>6

\* A worker makes a get.
LEMMA IssueGetStep ==
  ASSUME OnceInv, NEW c \in Calls, IssueGet(c)
  PROVE  OnceInv'
  <1>1. /\ c \in Gets /\ phase[c] = "idle" /\ Client[c] \in Clients
        /\ UNCHANGED <<chain, items, taken, replies, carries, queue, getters, putters, stored, result>>
        /\ phase' = [phase EXCEPT ![c] = "remote"]
        /\ recvs' = [recvs EXCEPT ![Client[c]] = Append(recvs[Client[c]], c)]
    BY CallFacts DEF IssueGet, server
  <1>2. \A d \in Calls \ {c} : phase'[d] = phase[d]
    BY <1>1 DEF OnceInv, TypeOK
  <1>3. TypeOK'
    <2>1. recvs' \in [Clients -> Seq(Gets)]
      BY <1>1, AddsLast DEF OnceInv, TypeOK
    <2> QED
      BY <1>1, <2>1 DEF OnceInv, TypeOK
  <1>4. SentOnce' /\ InChain' /\ AtHead' /\ Carried' /\ StoredOnce'
    BY <1>1, <1>2, PutsStay, CallFacts
  <1>5. Asleep'
    <2>1. Parked \subseteq Parked'
      BY <1>1, <1>2 DEF Parked
    <2> QED
      BY <2>1, <1>1, SleepOn DEF OnceInv, Asleep
  <1>6. Queued' /\ Replied' /\ Returned'
    BY <1>1, OutStays
  <1> QED
    BY <1>3, <1>4, <1>5, <1>6 DEF OnceInv

\* A recv completes: a reply becomes a result, or nobody's.
LEMMA RecvStep ==
  ASSUME OnceInv, NEW w \in Clients, Recv(w)
  PROVE  OnceInv'
  <1>1. PICK c, reply : c = Head(recvs[w]) /\ reply = Head(replies[w])
    OBVIOUS
  <1>2. PICK value : value = IF Op[c] = "get_nowait" /\ reply.query = QueueEmpty THEN QueueEmpty ELSE reply.item
    OBVIOUS
  <1>3. /\ recvs[w] # <<>> /\ replies[w] # <<>>
        /\ result' = [g \in Gets |-> IF g \in Receivers(c, reply) THEN value ELSE result[g]]
        /\ recvs' = [recvs EXCEPT ![w] = Tail(recvs[w])]
        /\ replies' = [replies EXCEPT ![w] = Tail(replies[w])]
        /\ UNCHANGED <<phase, chain, items, taken, carries, queue, getters, putters, stored>>
    BY <1>1, <1>2 DEF Recv, server
  <1>4. /\ recvs \in [Clients -> Seq(Gets)]
        /\ replies \in [Clients -> Seq([item : Puts \cup {NoItem}, query : Gets \cup {QueueEmpty}])]
        /\ result \in [Gets -> Puts \cup {NoItem, QueueEmpty}]
    BY DEF OnceInv, TypeOK
  <1>5. /\ Tail(recvs[w]) \in Seq(Gets) /\ c \in Gets
        /\ Tail(replies[w]) \in Seq([item : Puts \cup {NoItem}, query : Gets \cup {QueueEmpty}])
        /\ reply \in [item : Puts \cup {NoItem}, query : Gets \cup {QueueEmpty}]
        /\ reply = replies[w][1] /\ 1 \in 1..Len(replies[w])
        /\ \A i \in 1..Len(Tail(replies[w])) : i \in Nat /\ i + 1 \in 1..Len(replies[w]) /\ Tail(replies[w])[i] = replies[w][i + 1]
    <2>1. Tail(recvs[w]) \in Seq(Gets) /\ c \in Gets
      BY <1>1, <1>3, <1>4, DropsFirst
    <2> DEFINE S == [item : Puts \cup {NoItem}, query : Gets \cup {QueueEmpty}]
    <2>2. replies[w] \in Seq(S)
      BY <1>4
    <2> HIDE DEF S
    <2>3. /\ Tail(replies[w]) \in Seq(S) /\ Len(replies[w]) \in Nat \ {0} /\ Len(Tail(replies[w])) = Len(replies[w]) - 1
          /\ \A i \in 1..(Len(replies[w]) - 1) : Tail(replies[w])[i] = replies[w][i + 1]
          /\ Head(replies[w]) = replies[w][1] /\ Head(replies[w]) \in S
      BY <2>2, <1>3, DropsFirst
    <2> QED
      BY <2>1, <2>3, <1>1 DEF S
  <1>6. value \in Puts \cup {NoItem, QueueEmpty} /\ (value \in Puts => value = reply.item)
    BY <1>2, <1>5, CallFacts
  <1>7. \A g, h \in Receivers(c, reply) : g = h
    BY DEF Receivers
  <1> HIDE DEF Receivers
  <1>8. TypeOK'
    <2>1. result' \in [Gets -> Puts \cup {NoItem, QueueEmpty}]
      BY <1>3, <1>4, <1>6
    <2>2. recvs' \in [Clients -> Seq(Gets)]
      BY <1>3, <1>4, <1>5
    <2>3. replies' \in [Clients -> Seq([item : Puts \cup {NoItem}, query : Gets \cup {QueueEmpty}])]
      BY <1>3, <1>4, <1>5
    <2> QED
      BY <2>1, <2>2, <2>3, <1>3 DEF OnceInv, TypeOK
  <1>9. SentOnce' /\ InChain' /\ AtHead' /\ Carried' /\ StoredOnce'
    BY <1>3, PutsStay
  <1>10. Asleep'
    BY <1>3 DEF OnceInv, Asleep, Sleep, Parked
  <1>11. \A p : Left(p)' <=> Left(p)
    BY <1>3 DEF Left, Gone
  <1>12. Queued'
    BY <1>3 DEF OnceInv, Queued, Gone
  <1>13. \A v \in Clients : \A i \in 1..Len(replies'[v]) : \E j \in 1..Len(replies[v]) :
           replies'[v][i] = replies[v][j] /\ (IF v = w THEN j = i + 1 ELSE j = i)
    BY <1>3, <1>4, <1>5
  <1>14. Replied'
    <2> SUFFICES ASSUME NEW v \in Clients, NEW i \in 1..Len(replies'[v]), replies'[v][i].item \in Puts,
                        NEW u \in Clients, NEW j \in 1..Len(replies'[u])
                 PROVE  Left(replies'[v][i].item) /\ (replies'[u][j].item = replies'[v][i].item => u = v /\ j = i)
      BY <1>11 DEF Replied
    <2>1. PICK m \in 1..Len(replies[v]) : replies'[v][i] = replies[v][m] /\ (IF v = w THEN m = i + 1 ELSE m = i)
      BY <1>13
    <2>2. PICK n \in 1..Len(replies[u]) : replies'[u][j] = replies[u][n] /\ (IF u = w THEN n = j + 1 ELSE n = j)
      BY <1>13
    <2> QED
      BY <2>1, <2>2 DEF OnceInv, Replied
  <1>15. \A v \in Clients : \A i \in 1..Len(replies'[v]) : value \in Puts => replies'[v][i].item # value
    <2> SUFFICES ASSUME NEW v \in Clients, NEW i \in 1..Len(replies'[v]), value \in Puts, replies'[v][i].item = value
                 PROVE  FALSE
      OBVIOUS
    <2>1. PICK m \in 1..Len(replies[v]) : replies'[v][i] = replies[v][m] /\ (IF v = w THEN m = i + 1 ELSE m = i)
      BY <1>13
    <2>2. v = w /\ m = 1
      BY <2>1, <1>5, <1>6 DEF OnceInv, Replied
    <2> QED
      BY <2>1, <2>2
  <1>16. value \in Puts => Left(value) /\ \A g \in Gets : result[g] # value
    BY <1>5, <1>6 DEF OnceInv, Replied, Returned
  <1>17. Returned'
    <2> SUFFICES ASSUME NEW g \in Gets, result'[g] \in Puts
                 PROVE  /\ Left(result'[g])
                        /\ \A h \in Gets : result'[h] = result'[g] => h = g
                        /\ \A v \in Clients : \A i \in 1..Len(replies'[v]) : replies'[v][i].item # result'[g]
      BY <1>11 DEF Returned
    <2>1. CASE g \in Receivers(c, reply)
      BY <2>1, <1>3, <1>7, <1>15, <1>16
    <2>2. CASE g \notin Receivers(c, reply)
      <3>1. result'[g] = result[g]
        BY <2>2, <1>3
      <3>2. /\ Left(result[g]) /\ \A h \in Gets : result[h] = result[g] => h = g
            /\ \A v \in Clients : \A i \in 1..Len(replies[v]) : replies[v][i].item # result[g]
        BY <3>1 DEF OnceInv, Returned
      <3> QED
        BY <3>1, <3>2, <1>3, <1>13, <1>16
    <2> QED
      BY <2>1, <2>2
  <1> QED
    BY <1>8, <1>9, <1>10, <1>12, <1>14, <1>17 DEF OnceInv

\* A put's method has an item of its worker that is new to the queues and to
\* the other puts.
Serves(c, item) ==
  /\ c \in Puts /\ item \in Puts /\ Client[item] = Client[c] /\ phase[c] \in {"remote", "woken"}
  /\ taken' \in [Clients -> Nat]
  /\ \A w \in Clients : taken[w] <= taken'[w] /\ taken'[w] <= Len(items[w])
  /\ \E i \in 1..taken'[Client[c]] : items[Client[c]][i] = item
  /\ \A n \in 1..Len(stored[Key[item]]) : stored[Key[item]][n] # item
  /\ \A d \in Puts \ {c} : Holds(d) => carries[d] # item
  /\ carries' = [carries EXCEPT ![c] = item]
  /\ UNCHANGED <<items, replies, recvs, result>>

LEMMA PutStartsServes ==
  ASSUME OnceInv, NEW c \in Calls, PutStarts(c)
  PROVE  \E item : Serves(c, item) /\ StoreOrWait(c, item) /\ item = items[Client[c]][taken'[Client[c]]]
                     /\ taken' = [taken EXCEPT ![Client[c]] = @ + 1] /\ phase[c] = "remote"
  <1>1. PICK w \in Clients : w = Client[c]
    BY CallFacts
  <1>2. PICK item : item = items[w][taken[w] + 1]
    OBVIOUS
  <1>3. /\ c \in Puts /\ phase[c] = "remote" /\ taken[w] < Len(items[w])
        /\ taken' = [taken EXCEPT ![w] = taken[w] + 1]
        /\ carries' = [carries EXCEPT ![c] = item]
        /\ StoreOrWait(c, item)
        /\ UNCHANGED <<items, replies, recvs, result>>
    BY <1>1, <1>2 DEF PutStarts
  <1> HIDE DEF StoreOrWait
  <1>4. /\ taken \in [Clients -> Nat] /\ \A v \in Clients : taken[v] <= Len(items[v]) /\ items[v] \in Seq(Puts)
    BY DEF OnceInv, TypeOK
  <1>5. taken[w] + 1 \in 1..Len(items[w]) /\ taken'[w] = taken[w] + 1 /\ \A v \in Clients \ {w} : taken'[v] = taken[v]
    BY <1>3, <1>4
  <1>6. item \in Puts /\ Client[item] = w
    BY <1>2, <1>4, <1>5 DEF OnceInv, SentOnce
  <1>7. ~Received(item)
    <2> SUFFICES ASSUME NEW i \in 1..taken[w], items[w][i] = item
                 PROVE  FALSE
      BY <1>6 DEF Received
    <2>1. i \in 1..Len(items[w]) /\ i # taken[w] + 1
      BY <1>4
    <2> QED
      BY <2>1, <1>2, <1>5 DEF OnceInv, SentOnce
  <1>8. \A n \in 1..Len(stored[Key[item]]) : stored[Key[item]][n] # item
    BY <1>6, <1>7, CallFacts DEF OnceInv, StoredOnce
  <1>9. \A d \in Puts \ {c} : Holds(d) => carries[d] # item
    BY <1>7 DEF OnceInv, Carried
  <1>10. \E i \in 1..taken'[w] : items[w][i] = item
    BY <1>2, <1>4, <1>5
  <1>11. taken' \in [Clients -> Nat] /\ \A v \in Clients : taken[v] <= taken'[v] /\ taken'[v] <= Len(items[v])
    BY <1>3, <1>4, <1>5
  <1>12. Serves(c, item)
    BY <1>1, <1>3, <1>6, <1>8, <1>9, <1>10, <1>11 DEF Serves
  <1> QED
    BY <1>1, <1>2, <1>3, <1>5, <1>12

LEMMA PutResumesServes ==
  ASSUME OnceInv, NEW c \in Calls, PutResumes(c)
  PROVE  Serves(c, carries[c]) /\ StoreOrWait(c, carries[c]) /\ taken' = taken /\ phase[c] = "woken"
  <1>1. /\ c \in Puts /\ phase[c] = "woken" /\ StoreOrWait(c, carries[c])
        /\ UNCHANGED <<items, taken, replies, recvs, result, carries>>
    BY DEF PutResumes
  <1> HIDE DEF StoreOrWait
  <1>2. PICK item : item = carries[c]
    OBVIOUS
  <1>3. /\ item \in Puts /\ Client[item] = Client[c] /\ Received(item)
        /\ \A n \in 1..Len(stored[Key[item]]) : stored[Key[item]][n] # item
        /\ \A d \in Puts : Holds(d) /\ carries[d] = item => d = c
    BY <1>1, <1>2 DEF OnceInv, Carried, Holds
  <1>4. carries' = [carries EXCEPT ![c] = item]
    BY <1>1, <1>2 DEF OnceInv, TypeOK
  <1>5. taken' \in [Clients -> Nat] /\ \A v \in Clients : taken[v] <= taken'[v] /\ taken'[v] <= Len(items[v])
    BY <1>1 DEF OnceInv, TypeOK
  <1>6. \E i \in 1..taken'[Client[c]] : items[Client[c]][i] = item
    BY <1>1, <1>3 DEF Received
  <1>7. Serves(c, item)
    BY <1>1, <1>3, <1>4, <1>5, <1>6 DEF Serves
  <1> QED
    BY <1>1, <1>2, <1>7

\* What is received stays so.
LEMMA ReceivedStays ==
  ASSUME OnceInv, NEW c, NEW item, Serves(c, item)
  PROVE  /\ \A p \in Puts : Received(p) => Received(p)'
         /\ Received(item)'
  <1>1. taken \in [Clients -> Nat] /\ taken' \in [Clients -> Nat] /\ items' = items
        /\ \A w \in Clients : taken[w] <= taken'[w]
    BY DEF OnceInv, TypeOK, Serves
  <1>2. \A p \in Puts : Client[p] \in Clients
    BY CallFacts
  <1>3. \E i \in 1..taken'[Client[item]] : items[Client[item]][i] = item
    BY DEF Serves
  <1>4. \A p \in Puts : \A i \in 1..taken[Client[p]] : i \in 1..taken'[Client[p]]
    BY <1>1, <1>2
  <1> QED
    BY <1>1, <1>3, <1>4 DEF Received

\* The method waits for room or raises.
LEMMA PutWaitsStep ==
  ASSUME OnceInv, NEW c \in Calls, NEW item, Serves(c, item), Park(c, item) \/ RaiseFull(c)
  PROVE  OnceInv'
  <1>1. PICK to \in {"parked", "raised"} :
           phase' = [phase EXCEPT ![c] = to] /\ (to = "parked" => Park(c, item)) /\ (to = "raised" => RaiseFull(c))
    BY DEF Park, RaiseFull
  <1>2. PICK k \in Keys : k = Key[item]
    BY CallFacts DEF Serves
  <1>3. /\ UNCHANGED <<queue, stored, getters, chain>>
        /\ putters' = IF to = "parked" THEN [putters EXCEPT ![k] = Append(putters[k], c)] ELSE putters
    BY <1>1, <1>2 DEF Park, RaiseFull, QueueOf
  <1>4. /\ c \in Puts /\ item \in Puts /\ Client[item] = Client[c] /\ phase[c] \in {"remote", "woken"}
        /\ taken' \in [Clients -> Nat]
        /\ \A w \in Clients : taken[w] <= taken'[w] /\ taken'[w] <= Len(items[w])
        /\ \A n \in 1..Len(stored[Key[item]]) : stored[Key[item]][n] # item
        /\ \A d \in Puts \ {c} : Holds(d) => carries[d] # item
        /\ carries' = [carries EXCEPT ![c] = item]
        /\ UNCHANGED <<items, replies, recvs, result>>
    BY DEF Serves
  <1>5. /\ phase' \in [Calls -> {"unused", "idle", "chained", "remote", "parked", "woken", "ended", "raised"}]
        /\ phase'[c] = to /\ \A d \in Calls \ {c} : phase'[d] = phase[d]
    BY <1>1 DEF OnceInv, TypeOK
  <1>6. TypeOK'
    <2>1. putters' \in [Keys -> Seq(Puts)]
      BY <1>2, <1>3, <1>4, AddsLast DEF OnceInv, TypeOK
    <2>2. carries' \in [Puts -> Puts \cup {NoItem}]
      BY <1>4 DEF OnceInv, TypeOK
    <2> QED
      BY <2>1, <2>2, <1>3, <1>4, <1>5 DEF OnceInv, TypeOK
  <1>7. SentOnce'
    <2>1. \A w \in Clients : \A i \in 1..Len(items[w]) : items[w][i] \in Calls
      BY CallFacts DEF OnceInv, TypeOK
    <2>2. \A d \in Calls : Issued(d) => phase'[d] \notin {"unused", "idle"}
      BY <1>5 DEF Issued
    <2> QED
      BY <2>1, <2>2, <1>4 DEF OnceInv, SentOnce, Issued
  <1>8. InChain'
    <2>1. \A w \in Clients, l \in Keys : \A i \in 1..Len(chain[w][l]) : chain[w][l][i] \in Calls
      BY CallFacts DEF OnceInv, TypeOK
    <2>2. \A d \in Calls : (Issued(d) => phase'[d] \notin {"unused", "idle"}) /\ (phase[d] = "chained" => phase'[d] = "chained")
      BY <1>4, <1>5 DEF Issued
    <2> QED
      BY <2>1, <2>2, <1>3 DEF OnceInv, InChain, Issued
  <1>9. AtHead'
    <2>1. \A d \in Puts : Active(d)' => Active(d)
      BY <1>4, <1>5, CallFacts DEF Active
    <2> QED
      BY <2>1, <1>3 DEF OnceInv, AtHead
  <1>10. Asleep'
    <2>1. Parked \subseteq Parked' /\ c \notin Parked
      BY <1>4, <1>5 DEF Parked
    <2>2. Sleep(getters', Parked')
      BY <2>1, <1>3, SleepOn DEF OnceInv, Asleep
    <2>3. CASE to = "parked"
      <3>1. c \in Parked' /\ c \in Calls /\ Lengthens(putters, putters', k, c)
        BY <2>3, <1>2, <1>3, <1>4, <1>5, CallFacts DEF Parked, Lengthens, OnceInv, TypeOK
      <3>2. Sleep(putters', Parked')
        BY <2>1, <3>1, <1>2, SleepAfterWait DEF OnceInv, Asleep
      <3> QED
        BY <2>2, <3>2 DEF Asleep
    <2>4. CASE to # "parked"
      BY <2>1, <2>2, <2>4, <1>3, SleepOn DEF OnceInv, Asleep
    <2> QED
      BY <2>3, <2>4
  <1>11. /\ \A p \in Puts : Received(p) => Received(p)'
         /\ Received(item)'
    BY ReceivedStays
  <1>12. Carried'
    <2> SUFFICES ASSUME NEW d \in Puts, Holds(d)', NEW e \in Puts
                 PROVE  /\ carries'[d] \in Puts /\ Client[carries'[d]] = Client[d] /\ Received(carries[d])'
                        /\ \A n \in 1..Len(stored'[Key[carries'[d]]]) : stored'[Key[carries'[d]]][n] # carries'[d]
                        /\ Holds(e)' /\ carries'[e] = carries'[d] => e = d
      BY DEF Carried
    <2>1. \A f \in Puts \ {c} : (Holds(f)' <=> Holds(f)) /\ carries'[f] = carries[f]
      BY <1>4, <1>5, CallFacts DEF Holds, OnceInv, TypeOK
    <2>2. carries'[c] = item
      BY <1>4 DEF OnceInv, TypeOK
    <2>3. \A f \in Puts : Holds(f) =>
            /\ carries[f] \in Puts /\ Client[carries[f]] = Client[f] /\ Received(carries[f])
            /\ \A n \in 1..Len(stored[Key[carries[f]]]) : stored[Key[carries[f]]][n] # carries[f]
            /\ \A g \in Puts : Holds(g) /\ carries[g] = carries[f] => g = f
      BY DEF OnceInv, Carried
    <2>4. CASE d = c
      <3>1. Received(carries[d])'
        BY <2>2, <2>4, <1>11 DEF Received
      <3> QED
        BY <2>1, <2>2, <2>4, <3>1, <1>3, <1>4
    <2>5. CASE d # c
      <3>1. Received(carries[d])'
        BY <2>1, <2>3, <2>5, <1>11 DEF Received
      <3>2. Holds(d) /\ carries'[d] = carries[d] /\ carries[d] # item
        BY <2>1, <2>5, <1>4
      <3>3. Holds(e)' /\ carries'[e] = carries'[d] => e = d
        BY <2>1, <2>2, <2>3, <3>2
      <3> QED
        BY <2>3, <3>1, <3>2, <3>3, <1>3
    <2> QED
      BY <2>4, <2>5
  <1>13. StoredOnce'
    <2>1. \A l \in Keys : \A n \in 1..Len(stored[l]) : stored[l][n] \in Puts
      BY DEF OnceInv, TypeOK
    <2> QED
      BY <2>1, <1>3, <1>11 DEF OnceInv, StoredOnce
  <1>14. Queued' /\ Replied' /\ Returned'
    BY <1>3, <1>4, OutStays
  <1> QED
    BY <1>6, <1>7, <1>8, <1>9, <1>10, <1>12, <1>13, <1>14 DEF OnceInv

\* Chains are of puts.
LEMMA ChainElements ==
  ASSUME OnceInv
  PROVE  \A v \in Clients, l \in Keys : \A i \in 1..Len(chain[v][l]) : chain[v][l][i] \in Puts
  BY DEF OnceInv, TypeOK

\* The method stores its item.
LEMMA StoreStep ==
  ASSUME OnceInv, NEW c \in Calls, NEW item, Serves(c, item), Store(c, item)
  PROVE  OnceInv'
  <1>1. PICK k \in Keys : k = Key[item]
    BY CallFacts DEF Serves
  <1>2. /\ c \in Puts /\ item \in Puts /\ Client[item] = Client[c] /\ phase[c] \in {"remote", "woken"}
        /\ taken' \in [Clients -> Nat]
        /\ \A v \in Clients : taken[v] <= taken'[v] /\ taken'[v] <= Len(items[v])
        /\ \A n \in 1..Len(stored[k]) : stored[k][n] # item
        /\ \A d \in Puts \ {c} : Holds(d) => carries[d] # item
        /\ carries' = [carries EXCEPT ![c] = item]
        /\ UNCHANGED <<items, replies, recvs, result>>
    BY <1>1 DEF Serves
  <1>0. PICK next, woken : next = Successor(c) /\ woken = Woken(getters[k])
    OBVIOUS
  <1>3. PICK w \in Clients, kc \in Keys :
          w = Client[c] /\ kc = Key[c] /\ next = Successor(c) /\ woken = Woken(getters[k])
    BY <1>0, CallFacts
  <1>4. /\ queue' = [queue EXCEPT ![k] = Append(queue[k], item)]
        /\ stored' = [stored EXCEPT ![k] = Append(stored[k], item)]
        /\ getters' = [getters EXCEPT ![k] = Rest(getters[k])]
        /\ phase' = [d \in Calls |->
                       IF d = c THEN "ended" ELSE IF d \in woken THEN "woken"
                       ELSE IF d \in next THEN "remote" ELSE phase[d]]
        /\ chain' = [chain EXCEPT ![w][kc] = Tail(chain[w][kc])]
        /\ putters' = putters
    BY <1>1, <1>3 DEF Store, QueueOf
  <1>5. /\ phase \in [Calls -> {"unused", "idle", "chained", "remote", "parked", "woken", "ended", "raised"}]
        /\ chain \in [Clients -> [Keys -> Seq(Puts)]] /\ chain[w][kc] \in Seq(Puts)
        /\ queue \in [Keys -> Seq(Puts)] /\ stored \in [Keys -> Seq(Puts)] /\ queue[k] \in Seq(Puts) /\ stored[k] \in Seq(Puts)
        /\ getters \in [Keys -> Seq(Gets)] /\ getters[k] \in Seq(Gets)
        /\ carries \in [Puts -> Puts \cup {NoItem}]
        /\ items \in [Clients -> Seq(Puts)] /\ putters \in [Keys -> Seq(Puts)]
    BY DEF OnceInv, TypeOK
  \* who is woken, and who follows in the chain
  <1>6. woken \subseteq Gets /\ \A d \in woken : phase[d] = "parked"
    <2>1. woken \subseteq Gets /\ \A d \in woken : d = getters[k][1] /\ 1 \in 1..Len(getters[k])
      BY <1>3, <1>5, Wakes
    <2> QED
      BY <2>1 DEF OnceInv, Asleep, Sleep, Parked
  <1>7. chain[w][kc] # <<>> /\ Head(chain[w][kc]) = c
    BY <1>2, <1>3 DEF OnceInv, AtHead, Active
  <1>8. /\ Tail(chain[w][kc]) \in Seq(Puts) /\ Len(chain[w][kc]) \in Nat \ {0}
        /\ Len(Tail(chain[w][kc])) = Len(chain[w][kc]) - 1
        /\ \A i \in 1..(Len(chain[w][kc]) - 1) : Tail(chain[w][kc])[i] = chain[w][kc][i + 1]
        /\ chain[w][kc][1] = c
    BY <1>5, <1>7, DropsFirst
  <1>9. \A d \in next : Len(chain[w][kc]) > 1 /\ d = chain[w][kc][2] /\ d \in Puts /\ d # c /\ phase[d] = "chained"
                        /\ Client[d] = w /\ Key[d] = kc
    <2>1. \A d \in next : Len(chain[w][kc]) > 1 /\ d = chain[w][kc][2]
      BY <1>3 DEF Successor
    <2>2. Len(chain[w][kc]) > 1 => 2 \in 1..Len(chain[w][kc]) /\ 2 > 1 /\ chain[w][kc][2] \in Puts
      BY <1>5, <1>8
    <2>3. c \notin next
      BY <2>1, <2>2, <1>2 DEF OnceInv, InChain
    <2> QED
      BY <2>1, <2>2, <2>3 DEF OnceInv, InChain
  <1> HIDE DEF Successor, Woken, Rest
  <1>10. /\ phase' \in [Calls -> {"unused", "idle", "chained", "remote", "parked", "woken", "ended", "raised"}]
         /\ phase'[c] = "ended"
         /\ \A d \in Calls \ {c} :
              phase'[d] = IF d \in woken THEN "woken" ELSE IF d \in next THEN "remote" ELSE phase[d]
    BY <1>4, <1>5
  <1>11. \A d \in Puts \ {c} : phase'[d] = IF d \in next THEN "remote" ELSE phase[d]
    BY <1>6, <1>10, CallFacts
  <1>12. \A d \in Puts : Issued(d) => phase'[d] \notin {"unused", "idle"}
    BY <1>10, <1>11 DEF Issued
  <1>13. /\ chain' \in [Clients -> [Keys -> Seq(Puts)]] /\ chain'[w][kc] = Tail(chain[w][kc])
         /\ \A v \in Clients, l \in Keys : v # w \/ l # kc => chain'[v][l] = chain[v][l]
    <2>1. PICK rest \in Seq(Puts) : rest = Tail(chain[w][kc])
      BY <1>5, <1>8
    <2>2. chain' = [chain EXCEPT ![w][kc] = rest]
      BY <1>4, <2>1
    <2>3. chain \in [Clients -> [Keys -> Seq(Puts)]] /\ w \in Clients /\ kc \in Keys
      BY <1>5
    <2> QED
      BY <2>1, <2>2, <2>3, UpdatesOneOfOne
  <1>14. /\ queue' \in [Keys -> Seq(Puts)] /\ stored' \in [Keys -> Seq(Puts)]
         /\ queue'[k] = Append(queue[k], item) /\ stored'[k] = Append(stored[k], item)
         /\ \A l \in Keys \ {k} : queue'[l] = queue[l] /\ stored'[l] = stored[l]
    BY <1>2, <1>4, <1>5, AddsLast
  <1>15. getters' \in [Keys -> Seq(Gets)] /\ Shortens(getters, getters', k)
    BY <1>4, <1>5, Wakes, CallFacts DEF Shortens
  <1>16. TypeOK'
    <2>1. carries' \in [Puts -> Puts \cup {NoItem}]
      BY <1>2, <1>5
    <2> QED
      BY <2>1, <1>2, <1>4, <1>10, <1>13, <1>14, <1>15 DEF OnceInv, TypeOK
  <1>17. SentOnce'
    <2>1. \A v \in Clients : \A i \in 1..Len(items[v]) : items[v][i] \in Puts
      BY <1>5
    <2> QED
      BY <2>1, <1>2, <1>12 DEF OnceInv, SentOnce, Issued
  <1>18. InChain'
    <2>1. \A v \in Clients, l \in Keys : \A i \in 1..Len(chain[v][l]) :
            /\ chain[v][l][i] \in Puts /\ Client[chain[v][l][i]] = v /\ Key[chain[v][l][i]] = l
            /\ phase'[chain[v][l][i]] \notin {"unused", "idle"} /\ (i > 1 => phase[chain[v][l][i]] = "chained")
            /\ \A j \in 1..Len(chain[v][l]) : chain[v][l][j] = chain[v][l][i] => j = i
      <3>1. \A v \in Clients, l \in Keys : \A i \in 1..Len(chain[v][l]) : chain[v][l][i] \in Puts
        BY ChainElements
      <3>2. \A v \in Clients, l \in Keys : \A i \in 1..Len(chain[v][l]) :
              /\ Client[chain[v][l][i]] = v /\ Key[chain[v][l][i]] = l
              /\ Issued(chain[v][l][i]) /\ (i > 1 => phase[chain[v][l][i]] = "chained")
              /\ \A j \in 1..Len(chain[v][l]) : chain[v][l][j] = chain[v][l][i] => j = i
        BY DEF OnceInv, InChain
      <3> QED
        BY <3>1, <3>2, <1>12
    <2> SUFFICES ASSUME NEW v \in Clients, NEW l \in Keys, NEW i \in 1..Len(chain'[v][l]), NEW j \in 1..Len(chain'[v][l])
                 PROVE  /\ Client[chain'[v][l][i]] = v /\ Key[chain'[v][l][i]] = l /\ phase'[chain'[v][l][i]] \notin {"unused", "idle"}
                        /\ i > 1 => phase'[chain'[v][l][i]] = "chained"
                        /\ chain'[v][l][j] = chain'[v][l][i] => j = i
      BY DEF InChain, Issued
    <2>2. CASE v # w \/ l # kc
      <3>1. chain'[v][l] = chain[v][l]
        BY <2>2, <1>13
      <3>2. i > 1 => phase'[chain[v][l][i]] = "chained"
        <4> SUFFICES ASSUME i > 1
                     PROVE  phase'[chain[v][l][i]] = "chained"
          OBVIOUS
        <4>1. /\ chain[v][l][i] \in Puts /\ Client[chain[v][l][i]] = v /\ Key[chain[v][l][i]] = l
              /\ phase[chain[v][l][i]] = "chained"
          BY <2>1, <3>1
        <4>2. chain[v][l][i] \notin next /\ chain[v][l][i] # c
          BY <4>1, <2>2, <1>9, <1>2
        <4> QED
          BY <4>1, <4>2, <1>11
      <3> QED
        BY <2>1, <3>1, <3>2
    <2>3. CASE v = w /\ l = kc
      <3>1. /\ i + 1 \in 1..Len(chain[w][kc]) /\ chain'[w][kc][i] = chain[w][kc][i + 1] /\ i \in Nat
            /\ j + 1 \in 1..Len(chain[w][kc]) /\ chain'[w][kc][j] = chain[w][kc][j + 1] /\ j \in Nat
        BY <2>3, <1>8, <1>13
      <3>2. PICK p : p = chain[w][kc][i + 1]
        OBVIOUS
      <3>3. /\ p \in Puts /\ Client[p] = w /\ Key[p] = kc /\ phase'[p] \notin {"unused", "idle"} /\ (i + 1 > 1 => phase[p] = "chained")
            /\ chain[w][kc][j + 1] = p => j + 1 = i + 1
        BY <2>1, <3>1, <3>2
      <3>4. i > 1 => phase'[p] = "chained"
        <4> SUFFICES ASSUME i > 1
                     PROVE  phase'[p] = "chained"
          OBVIOUS
        <4>1. p \notin next
          <5> SUFFICES ASSUME p \in next
                       PROVE  FALSE
            OBVIOUS
          <5>1. p = chain[w][kc][2] /\ 2 \in 1..Len(chain[w][kc])
            BY <1>8, <1>9
          <5>2. 2 = i + 1
            <6>1. \A n, m \in 1..Len(chain[w][kc]) : chain[w][kc][m] = chain[w][kc][n] => m = n
              BY <2>1
            <6> QED
              BY <6>1, <5>1, <3>1, <3>2
          <5> QED
            BY <5>2, <3>1
        <4>2. p # c
          BY <3>1, <3>3, <1>2
        <4> QED
          BY <4>1, <4>2, <3>1, <3>3, <1>11
      <3>5. chain'[w][kc][i] = p /\ (chain'[w][kc][j] = p => j = i)
        BY <3>1, <3>2, <3>3
      <3> QED
        BY <2>3, <3>3, <3>4, <3>5
    <2> QED
      BY <2>2, <2>3
  <1>19. AtHead'
    <2> SUFFICES ASSUME NEW d \in Puts, Active(d)'
                 PROVE  chain'[Client[d]][Key[d]] # <<>> /\ Head(chain'[Client[d]][Key[d]]) = d
      BY DEF AtHead
    <2>1. d # c
      BY <1>10 DEF Active
    <2>2. CASE d \in next
      <3>1. chain'[w][kc] # <<>> /\ Head(chain'[w][kc]) = chain[w][kc][2]
        <4>1. Len(Tail(chain[w][kc])) >= 1 /\ Tail(chain[w][kc])[1] = chain[w][kc][2]
          BY <2>2, <1>8, <1>9
        <4>2. PICK q \in Seq(Puts) : q = Tail(chain[w][kc])
          BY <1>8
        <4>3. q # <<>> /\ Head(q) = q[1]
          BY <4>1, <4>2, HeadIsFirst
        <4> QED
          BY <4>1, <4>2, <4>3, <1>13
      <3> QED
        BY <3>1, <2>2, <1>9
    <2>3. CASE d \notin next
      <3>1. Active(d) /\ Client[d] \in Clients /\ Key[d] \in Keys
        BY <2>1, <2>3, <1>11, CallFacts DEF Active
      <3>2. chain[Client[d]][Key[d]] # <<>> /\ Head(chain[Client[d]][Key[d]]) = d
        BY <3>1 DEF OnceInv, AtHead
      <3> QED
        BY <2>1, <3>1, <3>2, <1>7, <1>13
    <2> QED
      BY <2>2, <2>3
  <1>20. Asleep'
    <2>1. \A t \in Parked : t \in woken \/ t \in Parked'
      BY <1>2, <1>9, <1>10 DEF Parked
    <2>2. Sleep(getters', Parked')
      <3>1. \A t \in Parked : t \in Woken(getters[k]) \/ t \in Parked'
        BY <2>1, <1>3
      <3> QED
        BY <3>1, <1>1, <1>15, SleepAfterWake DEF OnceInv, Asleep
    <2>3. Sleep(putters, Parked \cap Puts)
      <3>1. \A l \in Keys : \A i \in 1..Len(putters[l]) : putters[l][i] \in Puts
        <4> TAKE l \in Keys
        <4>1. putters[l] \in Seq(Puts)
          BY <1>5
        <4> QED
          BY <4>1
      <3> QED
        BY <3>1 DEF OnceInv, Asleep, Sleep
    <2>4. Parked \cap Puts \subseteq Parked'
      BY <2>1, <1>6, CallFacts
    <2>5. Sleep(putters, Parked')
      BY <2>3, <2>4, SleepOn
    <2> QED
      BY <2>2, <2>5, <1>4 DEF Asleep
  <1>21. (\A p \in Puts : Received(p) => Received(p)') /\ Received(item)'
    BY ReceivedStays
  \* what is stored
  <1>22. /\ Len(stored[k]) \in Nat /\ Len(stored'[k]) = Len(stored[k]) + 1 /\ stored'[k][Len(stored[k]) + 1] = item
         /\ Len(queue[k]) \in Nat /\ Len(queue'[k]) = Len(queue[k]) + 1 /\ queue'[k][Len(queue[k]) + 1] = item
         /\ \A i \in 1..Len(stored[k]) : stored'[k][i] = stored[k][i]
         /\ \A i \in 1..Len(queue[k]) : queue'[k][i] = queue[k][i]
         /\ \A i \in 1..Len(stored'[k]) : i \in 1..Len(stored[k]) \/ i = Len(stored[k]) + 1
         /\ \A i \in 1..Len(queue'[k]) : i \in 1..Len(queue[k]) \/ i = Len(queue[k]) + 1
    <2>1. /\ queue[k] \in Seq(Puts) /\ stored[k] \in Seq(Puts) /\ item \in Puts
          /\ queue'[k] = Append(queue[k], item) /\ stored'[k] = Append(stored[k], item)
      BY <1>2, <1>5, <1>14
    <2> QED
      BY <2>1, AddsLast
  <1>23. \A l \in Keys : \A n \in 1..Len(stored'[l]) :
           (n \in 1..Len(stored[l]) /\ stored'[l][n] = stored[l][n]) \/ (l = k /\ n = Len(stored[k]) + 1 /\ stored'[l][n] = item)
    BY <1>14, <1>22
  <1>24. Carried'
    <2> SUFFICES ASSUME NEW d \in Puts, Holds(d)', NEW e \in Puts
                 PROVE  /\ carries'[d] \in Puts /\ Client[carries'[d]] = Client[d] /\ Received(carries[d])'
                        /\ \A n \in 1..Len(stored'[Key[carries'[d]]]) : stored'[Key[carries'[d]]][n] # carries'[d]
                        /\ Holds(e)' /\ carries'[e] = carries'[d] => e = d
      BY DEF Carried
    <2>1. \A f \in Puts : Holds(f)' => Holds(f) /\ f # c /\ carries'[f] = carries[f]
      BY <1>2, <1>5, <1>9, <1>10, <1>11 DEF Holds
    <2>2. \A f \in Puts : Holds(f) =>
            /\ carries[f] \in Puts /\ Client[carries[f]] = Client[f] /\ Received(carries[f])
            /\ \A n \in 1..Len(stored[Key[carries[f]]]) : stored[Key[carries[f]]][n] # carries[f]
            /\ \A g \in Puts : Holds(g) /\ carries[g] = carries[f] => g = f
      BY DEF OnceInv, Carried
    <2>3. Holds(d) /\ d # c /\ carries'[d] = carries[d] /\ carries[d] # item /\ carries[d] \in Puts
      BY <2>1, <2>2, <1>2
    <2>4. Received(carries[d])'
      <3>1. PICK p \in Puts : p = carries[d]
        BY <2>3
      <3>2. Received(p)'
        BY <2>2, <2>3, <3>1, <1>21
      <3> QED
        BY <3>1, <3>2, <2>3 DEF Received
    <2>5. \A n \in 1..Len(stored'[Key[carries[d]]]) : stored'[Key[carries[d]]][n] # carries[d]
      BY <2>2, <2>3, <1>23, CallFacts
    <2> QED
      BY <2>1, <2>2, <2>3, <2>4, <2>5
  <1>25. StoredOnce'
    <2>1. \A l \in Keys : \A n \in 1..Len(stored[l]) :
            /\ stored[l][n] \in Puts /\ Key[stored[l][n]] = l /\ Received(stored[l][n])
            /\ \A m \in 1..Len(stored[l]) : stored[l][m] = stored[l][n] => m = n
      <3>1. \A l \in Keys : \A n \in 1..Len(stored[l]) : stored[l][n] \in Puts
        BY <1>5
      <3> QED
        BY <3>1 DEF OnceInv, StoredOnce
    <2> SUFFICES ASSUME NEW l \in Keys, NEW n \in 1..Len(stored'[l]), NEW m \in 1..Len(stored'[l])
                 PROVE  /\ Key[stored'[l][n]] = l /\ Received(stored[l][n])'
                        /\ stored'[l][m] = stored'[l][n] => m = n
      BY DEF StoredOnce
    <2>2. PICK p \in Puts : p = stored'[l][n] /\ Key[p] = l /\ Received(p)'
      BY <2>1, <1>1, <1>2, <1>21, <1>23
    <2>3. stored'[l][m] = stored'[l][n] => m = n
      <3>1. (n \in 1..Len(stored[l]) /\ stored'[l][n] = stored[l][n]) \/ (l = k /\ n = Len(stored[k]) + 1 /\ stored'[l][n] = item)
        BY <1>23
      <3>2. (m \in 1..Len(stored[l]) /\ stored'[l][m] = stored[l][m]) \/ (l = k /\ m = Len(stored[k]) + 1 /\ stored'[l][m] = item)
        BY <1>23
      <3>3. \A q \in 1..Len(stored[k]) : stored[k][q] # item
        BY <1>2
      <3>4. m \in 1..Len(stored[l]) /\ n \in 1..Len(stored[l]) /\ stored[l][m] = stored[l][n] => m = n
        BY <2>1
      <3> QED
        BY <3>1, <3>2, <3>3, <3>4
    <2>4. Received(stored[l][n])'
      BY <2>2 DEF Received
    <2> QED
      BY <2>2, <2>3, <2>4
  <1>26. \A l \in Keys : Gone(l)' = Gone(l) /\ Gone(l) <= Len(stored[l]) /\ Gone(l) \in Nat
    <2>1. \A l \in Keys : Len(queue[l]) \in Nat /\ Len(stored[l]) \in Nat
      BY <1>5
    <2>2. \A l \in Keys : Len(queue[l]) <= Len(stored[l])
      BY DEF OnceInv, Queued
    <2>3. \A l \in Keys : Len(stored'[l]) - Len(queue'[l]) = Len(stored[l]) - Len(queue[l])
      <3> TAKE l \in Keys
      <3>1. CASE l = k
        BY <3>1, <2>1, <1>22
      <3>2. CASE l # k
        BY <3>2, <1>14
      <3> QED
        BY <3>1, <3>2
    <2>4. \A l \in Keys : Gone(l)' = Gone(l)
      BY <2>3 DEF Gone
    <2>5. \A l \in Keys : Gone(l) <= Len(stored[l]) /\ Gone(l) \in Nat
      <3> TAKE l \in Keys
      <3>1. PICK x \in Nat, y \in Nat : x = Len(stored[l]) /\ y = Len(queue[l])
        BY <2>1
      <3>2. y <= x
        BY <2>2, <3>1
      <3>3. x - y <= x /\ x - y \in Nat
        BY <3>2
      <3> QED
        BY <3>1, <3>3 DEF Gone
    <2> QED
      BY <2>4, <2>5
  <1>27. Queued'
    <2> SUFFICES ASSUME NEW l \in Keys
                 PROVE  /\ Len(queue'[l]) <= Len(stored'[l])
                        /\ \A i \in 1..Len(queue'[l]) : queue'[l][i] = stored'[l][i + Gone(l)]
      BY <1>26 DEF Queued
    <2>1. /\ Len(queue[l]) \in Nat /\ Len(stored[l]) \in Nat /\ Len(queue[l]) <= Len(stored[l]) /\ Gone(l) = Len(stored[l]) - Len(queue[l])
          /\ \A i \in 1..Len(queue[l]) : queue[l][i] = stored[l][i + Gone(l)]
      <3>1. Len(queue[l]) \in Nat /\ Len(stored[l]) \in Nat
        <4>1. queue[l] \in Seq(Puts) /\ stored[l] \in Seq(Puts)
          BY <1>5
        <4> QED
          BY <4>1
      <3>2. Len(queue[l]) <= Len(stored[l]) /\ \A i \in 1..Len(queue[l]) : queue[l][i] = stored[l][i + Gone(l)]
        BY DEF OnceInv, Queued
      <3>3. Gone(l) = Len(stored[l]) - Len(queue[l])
        BY DEF Gone
      <3> QED
        BY <3>1, <3>2, <3>3
    <2>2. CASE l # k
      BY <2>1, <2>2, <1>14
    <2>3. CASE l = k
      <3>1. Len(queue'[k]) <= Len(stored'[k])
        BY <2>1, <2>3, <1>22
      <3>2. ASSUME NEW i \in 1..Len(queue'[k])
            PROVE  queue'[k][i] = stored'[k][i + Gone(k)]
        <4>1. CASE i \in 1..Len(queue[k])
          <5>1. i + Gone(k) \in 1..Len(stored[k])
            BY <2>1, <2>3, <4>1
          <5> QED
            BY <5>1, <4>1, <2>1, <2>3, <1>22
        <4>2. CASE i = Len(queue[k]) + 1
          <5>1. i + Gone(k) = Len(stored[k]) + 1
            <6>1. Gone(k) = Len(stored[k]) - Len(queue[k])
              BY <2>1, <2>3
            <6>2. PICK x \in Nat, y \in Nat : x = Len(stored[k]) /\ y = Len(queue[k])
              BY <1>22
            <6>3. (y + 1) + (x - y) = x + 1
              OBVIOUS
            <6> QED
              BY <6>1, <6>2, <6>3, <4>2
          <5> QED
            BY <5>1, <4>2, <1>22
        <4> QED
          BY <4>1, <4>2, <1>22
      <3> QED
        BY <2>3, <3>1, <3>2
    <2> QED
      BY <2>2, <2>3
  <1>28. \A p \in Puts : Left(p) => Left(p)'
    <2> SUFFICES ASSUME NEW p \in Puts, NEW i \in 1..Gone(Key[p]), stored[Key[p]][i] = p
                 PROVE  Left(p)'
      BY DEF Left
    <2>1. i \in 1..Len(stored[Key[p]]) /\ Key[p] \in Keys
      BY <1>26, CallFacts
    <2>2. stored'[Key[p]][i] = p /\ i \in 1..Gone(Key[p])'
      BY <2>1, <1>14, <1>22, <1>26
    <2> QED
      BY <2>2 DEF Left
  <1>29. Replied'
    <2>1. \A v \in Clients : \A i \in 1..Len(replies[v]) : replies[v][i].item \in Puts =>
            /\ Left(replies[v][i].item)
            /\ \A u \in Clients : \A j \in 1..Len(replies[u]) : replies[u][j].item = replies[v][i].item => u = v /\ j = i
      BY DEF OnceInv, Replied
    <2>2. \A v \in Clients : \A i \in 1..Len(replies[v]) : replies[v][i].item \in Puts => Left(replies[v][i].item)'
      <3> SUFFICES ASSUME NEW v \in Clients, NEW i \in 1..Len(replies[v]), replies[v][i].item \in Puts
                   PROVE  Left(replies[v][i].item)'
        BY <1>2
      <3>1. PICK p \in Puts : p = replies[v][i].item
        OBVIOUS
      <3>2. Left(p)'
        BY <2>1, <3>1, <1>28
      <3> QED
        BY <3>1, <3>2, <1>2 DEF Left
    <2> QED
      BY <2>1, <2>2, <1>2 DEF Replied
  <1>30. Returned'
    BY <1>2, <1>28 DEF OnceInv, Returned
  <1> QED
    BY <1>16, <1>17, <1>18, <1>19, <1>20, <1>24, <1>25, <1>27, <1>29, <1>30 DEF OnceInv

\* A get's method takes the first item of its queue.
LEMMA GetTakesStep ==
  ASSUME OnceInv, NEW c \in Gets, NEW k \in Keys, k = Key[c], phase[c] \in {"remote", "woken"}, queue[k] # <<>>,
         queue' = [queue EXCEPT ![k] = Tail(queue[k])],
         putters' = [putters EXCEPT ![k] = Rest(putters[k])],
         phase' = [d \in Calls |->
                     IF d = c THEN "ended" ELSE IF d \in Woken(putters[k]) THEN "woken" ELSE phase[d]],
         Reply(c, Head(queue[k]), c),
         UNCHANGED <<getters, chain, items, taken, recvs, carries, result, stored>>
  PROVE  OnceInv'
  <1>0. PICK item, woken : item = Head(queue[k]) /\ woken = Woken(putters[k])
    OBVIOUS
  <1>1. PICK w \in Clients, query \in Gets \cup {QueueEmpty} : w = Client[c] /\ query = c
    <2>1. \E query \in Gets \cup {QueueEmpty} : query = c
      OBVIOUS
    <2>2. \E w \in Clients : w = Client[c]
      BY CallFacts
    <2> QED
      BY <2>1, <2>2
  <1> DEFINE S == [item : Puts \cup {NoItem}, query : Gets \cup {QueueEmpty}]
  <1>2. /\ phase \in [Calls -> {"unused", "idle", "chained", "remote", "parked", "woken", "ended", "raised"}]
        /\ queue \in [Keys -> Seq(Puts)] /\ queue[k] \in Seq(Puts) /\ putters \in [Keys -> Seq(Puts)] /\ putters[k] \in Seq(Puts)
        /\ replies \in [Clients -> Seq(S)] /\ replies[w] \in Seq(S)
    BY DEF OnceInv, TypeOK
  <1>3. woken \subseteq Puts /\ \A d \in woken : phase[d] = "parked"
    <2>1. woken \subseteq Puts /\ \A d \in woken : d = putters[k][1] /\ 1 \in 1..Len(putters[k])
      BY <1>0, <1>1, <1>2, Wakes
    <2> QED
      BY <2>1 DEF OnceInv, Asleep, Sleep, Parked
  <1>4. /\ Tail(queue[k]) \in Seq(Puts) /\ Len(queue[k]) \in Nat \ {0} /\ Len(Tail(queue[k])) = Len(queue[k]) - 1
        /\ \A i \in 1..(Len(queue[k]) - 1) : Tail(queue[k])[i] = queue[k][i + 1]
        /\ item = queue[k][1] /\ item \in Puts
    BY <1>0, <1>1, <1>2, DropsFirst
  <1>5. queue' \in [Keys -> Seq(Puts)] /\ queue'[k] = Tail(queue[k]) /\ \A l \in Keys \ {k} : queue'[l] = queue[l]
    BY <1>2, <1>4
  <1>6. PICK reply \in S : reply = [item |-> item, query |-> query]
    BY <1>0, <1>1, <1>4
  <1>7. reply.item = item /\ reply.query = c
    BY <1>0, <1>1, <1>6
  <1>8. replies' = [replies EXCEPT ![w] = Append(replies[w], reply)]
    BY <1>0, <1>1, <1>6 DEF Reply
  <1> HIDE DEF S
  <1>9. /\ replies' \in [Clients -> Seq(S)] /\ replies'[w] = Append(replies[w], reply)
        /\ \A v \in Clients \ {w} : replies'[v] = replies[v]
    BY <1>2, <1>6, <1>8, AddsLast
  <1>10. putters' \in [Keys -> Seq(Puts)] /\ Shortens(putters, putters', k)
    BY <1>2, Wakes, CallFacts DEF Shortens
  <1>11. /\ phase' \in [Calls -> {"unused", "idle", "chained", "remote", "parked", "woken", "ended", "raised"}]
         /\ phase'[c] = "ended" /\ \A d \in Calls \ {c} : phase'[d] = IF d \in woken THEN "woken" ELSE phase[d]
    BY <1>0, <1>1, <1>2, CallFacts
  <1>12. TypeOK'
    BY <1>5, <1>9, <1>10, <1>11 DEF OnceInv, TypeOK, S
  <1>13. SentOnce' /\ InChain' /\ AtHead' /\ Carried' /\ StoredOnce'
    <2>1. \A d \in Puts : phase'[d] = phase[d] \/ (phase[d] = "parked" /\ phase'[d] = "woken")
      BY <1>3, <1>11, CallFacts
    <2> QED
      BY <2>1, PutsStay
  <1>14. Asleep'
    <2>1. \A t \in Parked : t \in woken \/ t \in Parked'
      BY <1>11 DEF Parked
    <2>2. Sleep(putters', Parked')
      <3>1. \A t \in Parked : t \in Woken(putters[k]) \/ t \in Parked'
        BY <2>1, <1>0, <1>1
      <3> QED
        BY <3>1, <1>10, SleepAfterWake DEF OnceInv, Asleep
    <2>3. Sleep(getters, Parked \cap Gets)
      <3>1. \A l \in Keys : \A i \in 1..Len(getters[l]) : getters[l][i] \in Gets
        BY DEF OnceInv, TypeOK
      <3> QED
        BY <3>1 DEF OnceInv, Asleep, Sleep
    <2>4. Parked \cap Gets \subseteq Parked'
      BY <2>1, <1>3, CallFacts
    <2>5. Sleep(getters, Parked')
      BY <2>3, <2>4, SleepOn
    <2> QED
      BY <2>2, <2>5 DEF Asleep
  \* what has left the queue
  <1>15. PICK gone \in [Keys -> Nat] : \A l \in Keys :
           /\ gone[l] = Gone(l) /\ gone[l] <= Len(stored[l]) /\ Len(stored[l]) = gone[l] + Len(queue[l])
    <2>1. \A l \in Keys : Len(queue[l]) \in Nat /\ Len(stored[l]) \in Nat
      BY DEF OnceInv, TypeOK
    <2>2. \A l \in Keys : Len(queue[l]) <= Len(stored[l])
      BY DEF OnceInv, Queued
    <2> DEFINE g == [l \in Keys |-> Gone(l)]
    <2>3. \A l \in Keys : g[l] \in Nat /\ g[l] = Gone(l) /\ g[l] <= Len(stored[l]) /\ Len(stored[l]) = g[l] + Len(queue[l])
      <3> TAKE l \in Keys
      <3>1. PICK x \in Nat, y \in Nat : x = Len(stored[l]) /\ y = Len(queue[l])
        BY <2>1
      <3>2. y <= x
        BY <2>2, <3>1
      <3>3. x - y <= x /\ x - y \in Nat /\ x = (x - y) + y
        BY <3>2
      <3> QED
        BY <3>1, <3>3 DEF Gone
    <2>4. g \in [Keys -> Nat]
      BY <2>3
    <2> QED
      BY <2>3, <2>4
  <1>16. Gone(k)' = gone[k] + 1 /\ \A l \in Keys \ {k} : Gone(l)' = gone[l]
    <2>1. PICK x \in Nat, y \in Nat : x = Len(stored[k]) /\ y = Len(queue[k])
      BY <1>4, <1>15
    <2>2. gone[k] \in Nat /\ x = gone[k] + y
      BY <2>1, <1>15
    <2>3. x - (y - 1) = gone[k] + 1
      BY <2>2
    <2>4. Len(stored'[k]) - Len(queue'[k]) = gone[k] + 1
      BY <2>1, <2>3, <1>4, <1>5
    <2>5. \A l \in Keys \ {k} : Gone(l)' = Gone(l)
      BY <1>5 DEF Gone
    <2> QED
      BY <2>4, <2>5, <1>15 DEF Gone
  <1>17. /\ stored[k][gone[k] + 1] = item /\ gone[k] + 1 \in 1..Len(stored[k]) /\ Key[item] = k
    <2>1. 1 \in 1..Len(queue[k]) /\ gone[k] \in Nat
      BY <1>4, <1>15
    <2>2. queue[k][1] = stored[k][1 + Gone(k)]
      BY <2>1 DEF OnceInv, Queued
    <2>3. 1 + gone[k] = gone[k] + 1 /\ gone[k] + 1 \in 1..Len(stored[k])
      BY <2>1, <1>4, <1>15
    <2>4. stored[k][gone[k] + 1] = item
      BY <2>2, <2>3, <1>4, <1>15
    <2> QED
      BY <2>3, <2>4 DEF OnceInv, StoredOnce
  <1>18. Queued'
    <2> SUFFICES ASSUME NEW l \in Keys
                 PROVE  Len(queue'[l]) <= Len(stored[l]) /\ \A i \in 1..Len(queue'[l]) : queue'[l][i] = stored[l][i + Gone(l)']
      BY DEF Queued
    <2>1. Len(queue[l]) <= Len(stored[l]) /\ \A i \in 1..Len(queue[l]) : queue[l][i] = stored[l][i + Gone(l)]
      BY DEF OnceInv, Queued
    <2>2. CASE l # k
      BY <2>1, <2>2, <1>5, <1>15, <1>16
    <2>3. CASE l = k
      <3>1. Len(queue'[k]) <= Len(stored[k])
        <4>1. Len(queue[k]) \in Nat /\ gone[k] \in Nat /\ Len(stored[k]) = gone[k] + Len(queue[k]) /\ Len(queue'[k]) = Len(queue[k]) - 1
          BY <1>4, <1>5, <1>15
        <4> QED
          BY <4>1
      <3>2. ASSUME NEW i \in 1..Len(queue'[k])
            PROVE  queue'[k][i] = stored[k][i + Gone(k)']
        <4>1. i \in Nat /\ i \in 1..(Len(queue[k]) - 1) /\ i + 1 \in 1..Len(queue[k])
          BY <1>4, <1>5
        <4>2. queue'[k][i] = queue[k][i + 1]
          BY <4>1, <1>4, <1>5
        <4>3. queue[k][i + 1] = stored[k][(i + 1) + gone[k]]
          BY <4>1, <2>1, <2>3, <1>15
        <4>4. (i + 1) + gone[k] = i + (gone[k] + 1)
          BY <4>1, <1>15
        <4> QED
          BY <4>2, <4>3, <4>4, <1>16
      <3> QED
        BY <2>3, <3>1, <3>2
    <2> QED
      BY <2>2, <2>3
  <1>19. ~Left(item) /\ Left(item)'
    <2>1. ~Left(item)
      <3> SUFFICES ASSUME NEW i \in 1..gone[k], stored[k][i] = item
                   PROVE  FALSE
        BY <1>15, <1>17 DEF Left
      <3>1. i \in 1..Len(stored[k]) /\ gone[k] \in Nat /\ i # gone[k] + 1
        BY <1>15, <1>17
      <3> QED
        BY <3>1, <1>17 DEF OnceInv, StoredOnce
    <2>2. gone[k] + 1 \in 1..(gone[k] + 1)
      BY <1>15
    <2> QED
      BY <2>1, <2>2, <1>16, <1>17 DEF Left
  <1>20. \A p \in Puts : Left(p) => Left(p)'
    <2> SUFFICES ASSUME NEW p \in Puts, NEW i \in 1..Gone(Key[p]), stored[Key[p]][i] = p
                 PROVE  Left(p)'
      BY DEF Left
    <2>1. Key[p] \in Keys /\ i \in 1..gone[Key[p]]
      BY <1>15, CallFacts
    <2>2. i \in 1..Gone(Key[p])'
      <3>1. CASE Key[p] = k
        BY <2>1, <3>1, <1>15, <1>16
      <3>2. CASE Key[p] # k
        BY <2>1, <3>2, <1>15, <1>16
      <3> QED
        BY <3>1, <3>2
    <2> QED
      BY <2>2 DEF Left
  <1>21. \A v \in Clients : \A i \in 1..Len(replies'[v]) :
           (i \in 1..Len(replies[v]) /\ replies'[v][i] = replies[v][i]) \/ (v = w /\ i = Len(replies[w]) + 1 /\ replies'[v][i] = reply)
    <2>1. /\ Append(replies[w], reply)[Len(replies[w]) + 1] = reply
          /\ \A i \in 1..Len(replies[w]) : Append(replies[w], reply)[i] = replies[w][i]
          /\ \A i \in 1..Len(Append(replies[w], reply)) : i \in 1..Len(replies[w]) \/ i = Len(replies[w]) + 1
      BY <1>2, <1>6, AddsLast
    <2> TAKE v \in Clients
    <2>2. CASE v = w
      BY <2>1, <2>2, <1>9
    <2>3. CASE v # w
      BY <2>3, <1>9
    <2> QED
      BY <2>2, <2>3
  <1>22. \A v \in Clients : \A i \in 1..Len(replies[v]) : replies[v][i].item \in Puts =>
           /\ replies[v][i].item # item /\ Left(replies[v][i].item)
           /\ \A u \in Clients : \A j \in 1..Len(replies[u]) : replies[u][j].item = replies[v][i].item => u = v /\ j = i
    BY <1>19 DEF OnceInv, Replied
  <1>23. Replied'
    <2> SUFFICES ASSUME NEW v \in Clients, NEW i \in 1..Len(replies'[v]), replies'[v][i].item \in Puts,
                        NEW u \in Clients, NEW j \in 1..Len(replies'[u])
                 PROVE  Left(replies[v][i].item)' /\ (replies'[u][j].item = replies'[v][i].item => u = v /\ j = i)
      BY DEF Replied
    <2>1. PICK p \in Puts : p = replies'[v][i].item
      OBVIOUS
    <2>2. Left(p)'
      BY <2>1, <1>7, <1>19, <1>20, <1>21, <1>22
    <2>3. Left(replies[v][i].item)'
      BY <2>1, <2>2 DEF Left
    <2>4. (i \in 1..Len(replies[v]) /\ replies'[v][i] = replies[v][i]) \/ (v = w /\ i = Len(replies[w]) + 1 /\ replies'[v][i] = reply)
      BY <1>21
    <2>5. (j \in 1..Len(replies[u]) /\ replies'[u][j] = replies[u][j]) \/ (u = w /\ j = Len(replies[w]) + 1 /\ replies'[u][j] = reply)
      BY <1>21
    <2>6. replies'[u][j].item = replies'[v][i].item => u = v /\ j = i
      <3> SUFFICES ASSUME replies'[u][j].item = p
                   PROVE  u = v /\ j = i
        BY <2>1
      <3>1. CASE i \in 1..Len(replies[v]) /\ replies'[v][i] = replies[v][i]
        <4>1. p # item /\ replies[v][i].item = p
          BY <3>1, <2>1, <1>22
        <4>2. j \in 1..Len(replies[u]) /\ replies[u][j].item = p
          BY <4>1, <2>5, <1>7
        <4>3. replies[v][i].item \in Puts /\ replies[u][j].item = replies[v][i].item
          BY <4>1, <4>2
        <4> QED
          BY <4>2, <4>3, <3>1, <1>22
      <3>2. CASE v = w /\ i = Len(replies[w]) + 1 /\ replies'[v][i] = reply
        <4>1. p = item
          BY <3>2, <2>1, <1>7
        <4> QED
          BY <4>1, <3>2, <2>5, <1>7, <1>22
      <3> QED
        BY <3>1, <3>2, <2>4
    <2> QED
      BY <2>3, <2>6
  <1>24. Returned'
    <2>1. \A g \in Gets : result[g] \in Puts =>
            /\ result[g] # item /\ Left(result[g])
            /\ \A h \in Gets : result[h] = result[g] => h = g
            /\ \A v \in Clients : \A i \in 1..Len(replies[v]) : replies[v][i].item # result[g]
      BY <1>19 DEF OnceInv, Returned
    <2> SUFFICES ASSUME NEW g \in Gets, result[g] \in Puts
                 PROVE  /\ Left(result[g])'
                        /\ \A h \in Gets : result[h] = result[g] => h = g
                        /\ \A v \in Clients : \A i \in 1..Len(replies'[v]) : replies'[v][i].item # result[g]
      BY DEF Returned
    <2>2. Left(result[g])'
      <3>1. PICK p \in Puts : p = result[g]
        OBVIOUS
      <3>2. Left(p)'
        BY <3>1, <2>1, <1>20
      <3> QED
        BY <3>1, <3>2 DEF Left
    <2> QED
      BY <2>1, <2>2, <1>7, <1>21
  <1> QED
    BY <1>12, <1>13, <1>14, <1>18, <1>23, <1>24 DEF OnceInv

\* A get's method waits for an item.
LEMMA GetWaitsStep ==
  ASSUME OnceInv, NEW c \in Gets, NEW k \in Keys, phase[c] \in {"remote", "woken"},
         getters' = [getters EXCEPT ![k] = Append(getters[k], c)],
         phase' = [phase EXCEPT ![c] = "parked"],
         UNCHANGED <<queue, putters, replies, chain, items, taken, recvs, carries, result, stored>>
  PROVE  OnceInv'
  <1>1. /\ phase' \in [Calls -> {"unused", "idle", "chained", "remote", "parked", "woken", "ended", "raised"}]
        /\ phase'[c] = "parked" /\ \A d \in Calls \ {c} : phase'[d] = phase[d]
    BY CallFacts DEF OnceInv, TypeOK
  <1>2. getters' \in [Keys -> Seq(Gets)] /\ Lengthens(getters, getters', k, c)
    BY AddsLast, CallFacts DEF OnceInv, TypeOK, Lengthens
  <1>3. TypeOK'
    BY <1>1, <1>2 DEF OnceInv, TypeOK
  <1>4. SentOnce' /\ InChain' /\ AtHead' /\ Carried' /\ StoredOnce'
    BY <1>1, PutsStay, CallFacts
  <1>5. Asleep'
    <2>1. Parked \subseteq Parked' /\ c \notin Parked /\ c \in Parked' /\ c \in Calls
      BY <1>1, CallFacts DEF Parked
    <2>2. Sleep(getters', Parked')
      BY <2>1, <1>2, SleepAfterWait DEF OnceInv, Asleep
    <2>3. Sleep(putters, Parked')
      BY <2>1, SleepOn DEF OnceInv, Asleep
    <2> QED
      BY <2>2, <2>3 DEF Asleep
  <1>6. Queued' /\ Replied' /\ Returned'
    BY OutStays
  <1> QED
    BY <1>3, <1>4, <1>5, <1>6 DEF OnceInv

\* A get that does not wait is replied that the queue is empty.
LEMMA GetFailsStep ==
  ASSUME OnceInv, NEW c \in Gets, phase[c] \in {"remote", "woken"},
         phase' = [phase EXCEPT ![c] = "ended"],
         Reply(c, NoItem, QueueEmpty),
         UNCHANGED <<queue, getters, putters, chain, items, taken, recvs, carries, result, stored>>
  PROVE  OnceInv'
  <1>1. /\ phase' \in [Calls -> {"unused", "idle", "chained", "remote", "parked", "woken", "ended", "raised"}]
        /\ \A d \in Calls \ {c} : phase'[d] = phase[d]
    BY CallFacts DEF OnceInv, TypeOK
  <1> DEFINE S == [item : Puts \cup {NoItem}, query : Gets \cup {QueueEmpty}]
  <1>2. PICK w \in Clients : w = Client[c]
    BY CallFacts
  <1>3. PICK reply \in S : reply = [item |-> NoItem, query |-> QueueEmpty]
    OBVIOUS
  <1>4. replies' = [replies EXCEPT ![w] = Append(replies[w], reply)]
    BY <1>2, <1>3 DEF Reply
  <1>5. replies \in [Clients -> Seq(S)] /\ replies[w] \in Seq(S)
    BY DEF OnceInv, TypeOK
  <1>6. reply.item = NoItem
    BY <1>3
  <1> HIDE DEF S
  <1>7. /\ replies' \in [Clients -> Seq(S)] /\ replies'[w] = Append(replies[w], reply)
        /\ \A v \in Clients \ {w} : replies'[v] = replies[v]
    BY <1>3, <1>4, <1>5, AddsLast
  <1>8. TypeOK'
    BY <1>1, <1>7 DEF OnceInv, TypeOK, S
  <1>9. SentOnce' /\ InChain' /\ AtHead' /\ Carried' /\ StoredOnce'
    BY <1>1, PutsStay, CallFacts
  <1>10. Asleep'
    <2>1. Parked \subseteq Parked'
      BY <1>1 DEF Parked
    <2> QED
      BY <2>1, SleepOn DEF OnceInv, Asleep
  <1>11. \A v \in Clients : \A i \in 1..Len(replies'[v]) : replies'[v][i].item \in Puts =>
           i \in 1..Len(replies[v]) /\ replies'[v][i] = replies[v][i]
    <2>1. /\ Append(replies[w], reply)[Len(replies[w]) + 1] = reply
          /\ \A i \in 1..Len(replies[w]) : Append(replies[w], reply)[i] = replies[w][i]
          /\ \A i \in 1..Len(Append(replies[w], reply)) : i \in 1..Len(replies[w]) \/ i = Len(replies[w]) + 1
      BY <1>3, <1>5, AddsLast
    <2> TAKE v \in Clients
    <2>2. CASE v = w
      BY <2>1, <2>2, <1>6, <1>7, CallFacts
    <2>3. CASE v # w
      BY <2>3, <1>7
    <2> QED
      BY <2>2, <2>3
  <1>12. \A p : Left(p)' <=> Left(p)
    BY DEF Left, Gone
  <1>13. Queued'
    BY DEF OnceInv, Queued, Gone
  <1>14. Replied'
    <2> SUFFICES ASSUME NEW v \in Clients, NEW i \in 1..Len(replies'[v]), replies'[v][i].item \in Puts,
                        NEW u \in Clients, NEW j \in 1..Len(replies'[u])
                 PROVE  Left(replies'[v][i].item) /\ (replies'[u][j].item = replies'[v][i].item => u = v /\ j = i)
      BY <1>12 DEF Replied
    <2>1. i \in 1..Len(replies[v]) /\ replies'[v][i] = replies[v][i]
      BY <1>11
    <2>2. replies'[u][j].item = replies'[v][i].item => j \in 1..Len(replies[u]) /\ replies'[u][j] = replies[u][j]
      BY <1>11
    <2> QED
      BY <2>1, <2>2 DEF OnceInv, Replied
  <1>15. Returned'
    <2> SUFFICES ASSUME NEW g \in Gets, result[g] \in Puts
                 PROVE  /\ Left(result[g])
                        /\ \A h \in Gets : result[h] = result[g] => h = g
                        /\ \A v \in Clients : \A i \in 1..Len(replies'[v]) : replies'[v][i].item # result[g]
      BY <1>12 DEF Returned
    <2> QED
      BY <1>11 DEF OnceInv, Returned
  <1> QED
    BY <1>8, <1>9, <1>10, <1>13, <1>14, <1>15 DEF OnceInv

\* A get's method runs.
LEMMA GetRunsStep ==
  ASSUME OnceInv, NEW c \in Calls, GetRuns(c)
  PROVE  OnceInv'
  <1>1. PICK k \in Keys : k = Key[c]
    BY CallFacts
  <1>2. c \in Gets /\ phase[c] \in {"remote", "woken"} /\ UNCHANGED <<chain, items, taken, recvs, carries, result, stored>>
    BY DEF GetRuns
  <1>3. CASE queue[k] # <<>>
    <2>1. /\ queue' = [queue EXCEPT ![k] = Tail(queue[k])]
          /\ putters' = [putters EXCEPT ![k] = Rest(putters[k])]
          /\ phase' = [d \in Calls |->
                         IF d = c THEN "ended" ELSE IF d \in Woken(putters[k]) THEN "woken" ELSE phase[d]]
          /\ Reply(c, Head(queue[k]), c) /\ getters' = getters
      BY <1>1, <1>3 DEF GetRuns, Dequeue
    <2> QED
      BY <2>1, <1>1, <1>2, <1>3, GetTakesStep
  <1>4. CASE queue[k] = <<>> /\ Op[c] # "get_nowait"
    <2>1. /\ getters' = [getters EXCEPT ![k] = Append(getters[k], c)] /\ phase' = [phase EXCEPT ![c] = "parked"]
          /\ UNCHANGED <<queue, putters, replies>>
      BY <1>1, <1>4 DEF GetRuns
    <2> QED
      BY <2>1, <1>1, <1>2, GetWaitsStep
  <1>5. CASE queue[k] = <<>> /\ Op[c] = "get_nowait"
    <2>1. phase' = [phase EXCEPT ![c] = "ended"] /\ Reply(c, NoItem, QueueEmpty) /\ UNCHANGED <<queue, getters, putters>>
      BY <1>1, <1>5 DEF GetRuns
    <2> QED
      BY <2>1, <1>2, GetFailsStep
  <1> QED
    BY <1>3, <1>4, <1>5

\* A put's method goes on with its item.
LEMMA PutRunsStep ==
  ASSUME OnceInv, NEW c \in Calls, NEW item, Serves(c, item), StoreOrWait(c, item)
  PROVE  OnceInv'
  BY StoreStep, PutWaitsStep DEF StoreOrWait

\* The invariant holds: every item is in one place on its way.
THEOREM OnceHolds == Spec => []OnceInv
  <1>1. OnceInv /\ [Next]_vars => OnceInv'
    <2> SUFFICES ASSUME OnceInv, [Next]_vars
                 PROVE  OnceInv'
      OBVIOUS
    <2>1. ASSUME NEW c \in Calls, IssuePut(c)
          PROVE  OnceInv'
      BY <2>1, IssuePutStep
    <2>2. ASSUME NEW c \in Calls, IssueGet(c)
          PROVE  OnceInv'
      BY <2>2, IssueGetStep
    <2>3. ASSUME NEW c \in Calls, PutStarts(c)
          PROVE  OnceInv'
      BY <2>3, PutStartsServes, PutRunsStep
    <2>4. ASSUME NEW c \in Calls, PutResumes(c)
          PROVE  OnceInv'
      BY <2>4, PutResumesServes, PutRunsStep
    <2>5. ASSUME NEW c \in Calls, GetRuns(c)
          PROVE  OnceInv'
      BY <2>5, GetRunsStep
    <2>6. ASSUME NEW w \in Clients, Recv(w)
          PROVE  OnceInv'
      BY <2>6, RecvStep
    <2>7. CASE UNCHANGED vars
      BY <2>7, OnceStutter
    <2> QED
      BY <2>1, <2>2, <2>3, <2>4, <2>5, <2>6, <2>7 DEF Next
  <1> QED
    BY <1>1, OnceInit, PTL DEF Spec

\* Every item is returned by at most one get, and by none while it is in a
\* queue (Channel.put, Channel.get and the ChannelWorker's methods).
THEOREM AtMostOnceHolds == Spec => []AtMostOnce
  <1>1. OnceInv => AtMostOnce
    <2> SUFFICES ASSUME OnceInv, NEW c \in Gets
                 PROVE  result[c] \notin Range(queue[Key[c]])
      BY DEF OnceInv, Returned, AtMostOnce
    <2>1. PICK k \in Keys : k = Key[c]
      BY CallFacts
    <2>2. queue[k] \in Seq(Puts) /\ stored[k] \in Seq(Puts)
      BY DEF OnceInv, TypeOK
    <2> SUFFICES ASSUME NEW i \in 1..Len(queue[k]), queue[k][i] = result[c]
                 PROVE  FALSE
      BY <2>1, <2>2 DEF Range
    <2>3. result[c] \in Puts /\ Left(result[c])
      BY <2>2 DEF OnceInv, Returned
    <2>4. PICK x \in Nat, y \in Nat : x = Len(stored[k]) /\ y = Len(queue[k])
      BY <2>2
    <2>5. y <= x /\ Gone(k) = x - y /\ result[c] = stored[k][i + (x - y)]
      BY <2>4 DEF OnceInv, Queued, Gone
    <2>6. PICK n \in 1..x : n = i + (x - y)
      <3>1. i \in 1..y
        BY <2>4
      <3>2. y <= x
        BY <2>5
      <3>3. i + (x - y) \in 1..x
        BY <3>1, <3>2
      <3> QED
        BY <3>3
    <2>10. result[c] = stored[k][n] /\ n \in 1..Len(stored[k])
      BY <2>4, <2>5, <2>6
    <2>7. Key[result[c]] = k
      BY <2>10 DEF OnceInv, StoredOnce
    <2>8. PICK j \in 1..(x - y) : stored[k][j] = result[c]
      BY <2>3, <2>5, <2>7 DEF Left
    <2>9. j \in 1..x /\ j # n
      <3>1. i \in 1..y /\ y <= x
        BY <2>4, <2>5
      <3> QED
        BY <3>1, <2>6
    <2>11. j \in 1..Len(stored[k]) /\ stored[k][j] = stored[k][n]
      BY <2>4, <2>8, <2>9, <2>10
    <2> QED
      BY <2>9, <2>10, <2>11 DEF OnceInv, StoredOnce
  <1> QED
    BY <1>1, OnceHolds, PTL

-----------------------------------------------------------------------------
(* Gets return items of their key.                                         *)

LEMMA RouteInit ==
  ASSUME UnmixedGets, Init
  PROVE  RouteInv
  <1>1. PICK made \in Workloads : phase = [c \in Calls |-> IF c \in made THEN "idle" ELSE "unused"]
    BY DEF Init
  <1>2. /\ recvs = [w \in Clients |-> <<>>] /\ replies = [w \in Clients |-> <<>>] /\ result = [c \in Gets |-> NoItem]
    BY DEF Init
  <1>3. \A c \in Gets : phase[c] \in {"unused", "idle"} /\ (Used(c) => c \in made)
    BY <1>1, CallFacts DEF Used
  <1>4. Unmixed
    BY <1>3 DEF UnmixedGets, Unmixed
  <1>5. Posted /\ Routed /\ KeyRouting
    BY <1>2, CallFacts DEF Posted, Routed, KeyRouting
  <1>6. OneAtATime
    BY <1>2, <1>3 DEF OneAtATime, Nothing, Quiet
  <1> QED
    BY <1>4, <1>5, <1>6 DEF RouteInv

\* A step that at most puts gets to sleep or wakes them.
LEMMA RouteStays ==
  ASSUME OnceInv, RouteInv, UNCHANGED <<recvs, replies, result>>,
         \A g \in Gets : phase'[g] = phase[g] \/ {phase[g], phase'[g]} \subseteq {"remote", "parked", "woken"}
  PROVE  RouteInv'
  <1>1. \A g \in Gets : /\ Used(g)' <=> Used(g)
                        /\ Issued(g)' <=> Issued(g)
                        /\ Quiet(g)' <=> Quiet(g)
                        /\ phase'[g] = "ended" <=> phase[g] = "ended"
    BY DEF Used, Issued, Quiet
  <1>2. Unmixed'
    BY <1>1 DEF RouteInv, Unmixed
  <1>3. \A w \in Clients, c \in Gets : Waits(w, c) => Waits(w, c)'
    BY <1>1 DEF Waits
  <1>4. \A w \in Clients : (OnlyBlocks(w)' <=> OnlyBlocks(w)) /\ (Nothing(w) => Nothing(w)')
    BY <1>1 DEF OnlyBlocks, Nothing
  <1>5. OneAtATime'
    BY <1>3, <1>4 DEF RouteInv, OneAtATime
  <1>6. Posted'
    <2>1. \A w \in Clients : \A i \in 1..Len(recvs[w]) : recvs[w][i] \in Gets
      BY DEF OnceInv, TypeOK
    <2>2. \A w \in Clients : \A i \in 1..Len(recvs[w]) : Client[recvs[w][i]] = w /\ phase'[recvs[w][i]] \notin {"unused", "idle"}
      BY <2>1, <1>1 DEF RouteInv, Posted, Issued
    <2> QED
      BY <2>2, <1>1 DEF RouteInv, Posted, Issued
  <1>7. Routed'
    BY <1>1 DEF RouteInv, Routed
  <1>8. KeyRouting'
    BY DEF RouteInv, KeyRouting
  <1> QED
    BY <1>2, <1>5, <1>6, <1>7, <1>8 DEF RouteInv

\* A worker makes a get.
LEMMA IssueGetRoute ==
  ASSUME OnceInv, RouteInv, NEW c \in Calls, IssueGet(c)
  PROVE  RouteInv'
  <1>1. PICK w \in Clients : w = Client[c]
    BY CallFacts
  <1>2. /\ c \in Gets /\ phase[c] = "idle" /\ ~Blocked(w)
        /\ UNCHANGED <<replies, result>>
        /\ phase' = [phase EXCEPT ![c] = "remote"]
        /\ recvs' = [recvs EXCEPT ![w] = Append(recvs[w], c)]
    BY <1>1 DEF IssueGet, server
  <1>3. recvs \in [Clients -> Seq(Gets)] /\ recvs[w] \in Seq(Gets)
    BY DEF OnceInv, TypeOK
  <1>4. phase'[c] = "remote" /\ \A d \in Gets \ {c} : phase'[d] = phase[d]
    BY <1>2, CallFacts DEF OnceInv, TypeOK
  <1>5. \A g \in Gets : (Used(g)' <=> Used(g)) /\ (Issued(g) => Issued(g)')
    BY <1>2, <1>4 DEF Used, Issued
  <1>6. Unmixed' /\ Routed' /\ KeyRouting'
    BY <1>2, <1>5 DEF RouteInv, Unmixed, Routed, KeyRouting
  <1>7. recvs'[w] = Append(recvs[w], c) /\ \A v \in Clients \ {w} : recvs'[v] = recvs[v]
    BY <1>2, <1>3
  <1>8. Posted'
    <2>1. \A v \in Clients : \A i \in 1..Len(recvs[v]) :
            recvs[v][i] \in Gets /\ Client[recvs[v][i]] = v /\ phase'[recvs[v][i]] \notin {"unused", "idle"}
      BY <1>3, <1>5 DEF RouteInv, Posted, Issued
    <2>2. \A v \in Clients : \A i \in 1..Len(recvs'[v]) :
            (i \in 1..Len(recvs[v]) /\ recvs'[v][i] = recvs[v][i]) \/ (v = w /\ recvs'[v][i] = c)
      BY <1>2, <1>3, <1>7, AddsLast
    <2>3. \A v \in Clients : \A i \in 1..Len(recvs'[v]) :
            Client[recvs'[v][i]] = v /\ phase'[recvs'[v][i]] \notin {"unused", "idle"}
      BY <2>1, <2>2, <1>1, <1>4
    <2> QED
      BY <2>3, <1>2, <1>5 DEF RouteInv, Posted, Issued
  <1>9. OneAtATime'
    <2> SUFFICES ASSUME NEW v \in Clients, OnlyBlocks(v)
                 PROVE  Nothing(v)' \/ \E d \in Gets : Waits(v, d)'
      BY <1>5 DEF OneAtATime, OnlyBlocks
    <2>1. Nothing(v) \/ \E d \in Gets : Waits(v, d)
      BY DEF RouteInv, OneAtATime
    <2>2. CASE v # w
      <3>1. \A d \in Gets : Client[d] = v => phase'[d] = phase[d]
        BY <2>2, <1>1, <1>4
      <3>2. recvs'[v] = recvs[v] /\ replies'[v] = replies[v]
        BY <2>2, <1>2, <1>7
      <3>3. Nothing(v) => Nothing(v)'
        BY <3>1, <3>2 DEF Nothing, Quiet
      <3>4. \A d \in Gets : Waits(v, d) => Waits(v, d)'
        BY <3>1, <3>2, <1>2 DEF Waits, Quiet, Issued
      <3> QED
        BY <2>1, <3>3, <3>4
    <2>3. CASE v = w
      <3>1. \A d \in Gets : ~Waits(w, d)
        <4> SUFFICES ASSUME NEW d \in Gets, Waits(w, d)
                     PROVE  FALSE
          OBVIOUS
        <4>1. Client[d] = w /\ Issued(d) /\ ~Ended(d) /\ d \in Calls
          BY CallFacts DEF Waits, Ended
        <4>2. Op[d] \notin {"put_async", "get_async"}
          BY <4>1, <2>3 DEF OnlyBlocks, Used, Issued, Gets, GetOps
        <4> QED
          BY <4>1, <4>2, <1>2 DEF Blocked
      <3>2. Nothing(w)
        BY <2>1, <2>3, <3>1
      <3>3. recvs'[w] = <<c>> /\ replies'[w] = <<>>
        BY <3>2, <1>2, <1>7 DEF Nothing
      <3>4. result'[c] = NoItem
        BY <1>2 DEF RouteInv, Posted, Issued
      <3>5. \A d \in Gets \ {c} : Client[d] = w => Quiet(d)'
        BY <3>2, <1>4 DEF Nothing, Quiet
      <3>6. Waits(w, c)'
        BY <3>3, <3>4, <3>5, <1>1, <1>4 DEF Waits, Issued
      <3> QED
        BY <3>6, <2>3, <1>2
    <2> QED
      BY <2>2, <2>3
  <1> QED
    BY <1>6, <1>8, <1>9 DEF RouteInv

\* A recv completes: what is delivered is of the key of the get it goes to.
LEMMA RecvRoute ==
  ASSUME OnceInv, RouteInv, NEW w \in Clients, Recv(w)
  PROVE  RouteInv'
  <1>1. PICK c, reply : c = Head(recvs[w]) /\ reply = Head(replies[w])
    OBVIOUS
  <1>2. PICK value : value = IF Op[c] = "get_nowait" /\ reply.query = QueueEmpty THEN QueueEmpty ELSE reply.item
    OBVIOUS
  <1>3. /\ recvs[w] # <<>> /\ replies[w] # <<>>
        /\ result' = [g \in Gets |-> IF g \in Receivers(c, reply) THEN value ELSE result[g]]
        /\ recvs' = [recvs EXCEPT ![w] = Tail(recvs[w])]
        /\ replies' = [replies EXCEPT ![w] = Tail(replies[w])]
        /\ UNCHANGED phase
    BY <1>1, <1>2 DEF Recv
  <1>4. recvs \in [Clients -> Seq(Gets)] /\ recvs[w] \in Seq(Gets)
    BY DEF OnceInv, TypeOK
  <1> DEFINE S == [item : Puts \cup {NoItem}, query : Gets \cup {QueueEmpty}]
  <1>5. replies \in [Clients -> Seq(S)] /\ replies[w] \in Seq(S)
    BY DEF OnceInv, TypeOK
  <1> HIDE DEF S
  <1>6. /\ c \in Gets /\ c = recvs[w][1] /\ 1 \in 1..Len(recvs[w])
        /\ \A i \in 1..Len(Tail(recvs[w])) : i + 1 \in 1..Len(recvs[w]) /\ Tail(recvs[w])[i] = recvs[w][i + 1]
    BY <1>1, <1>3, <1>4, DropsFirst
  <1>7. /\ reply \in S /\ reply = replies[w][1] /\ 1 \in 1..Len(replies[w])
        /\ \A i \in 1..Len(Tail(replies[w])) : i + 1 \in 1..Len(replies[w]) /\ Tail(replies[w])[i] = replies[w][i + 1]
    BY <1>1, <1>3, <1>5, DropsFirst
  <1>8. /\ recvs'[w] = Tail(recvs[w]) /\ replies'[w] = Tail(replies[w])
        /\ \A v \in Clients \ {w} : recvs'[v] = recvs[v] /\ replies'[v] = replies[v]
    BY <1>3, <1>4, <1>5
  <1>9. Client[c] = w /\ Issued(c)
    BY <1>6 DEF RouteInv, Posted
  <1>10. reply.item \in Puts => /\ reply.query \in Gets /\ Client[reply.query] = w /\ Issued(reply.query)
                                /\ Key[reply.item] = Key[reply.query]
    BY <1>7 DEF RouteInv, Routed
  <1>11. /\ value \in Puts => value = reply.item
         /\ value \in Puts \cup {NoItem, QueueEmpty}
         /\ Op[c] = "get_async" => value = reply.item
    BY <1>2, <1>7, CallFacts DEF S
  <1>12. \A g \in Gets : g \in Receivers(c, reply) <=>
           (IF Op[c] = "get_async" THEN g = reply.query /\ Op[g] = "get_async" ELSE g = c)
    BY <1>6 DEF Receivers
  <1> HIDE DEF Receivers
  <1>13. \A g \in Gets : result'[g] = IF g \in Receivers(c, reply) THEN value ELSE result[g]
    BY <1>3
  <1>14. \A g \in Gets : result'[g] # NoItem => result[g] # NoItem \/ (Client[g] = w /\ Issued(g))
    <2> SUFFICES ASSUME NEW g \in Gets, g \in Receivers(c, reply), value # NoItem
                 PROVE  Client[g] = w /\ Issued(g)
      BY <1>13
    <2>1. CASE Op[c] = "get_async"
      <3>1. g = reply.query /\ value = reply.item
        BY <2>1, <1>11, <1>12
      <3>2. reply.item \in Puts
        BY <3>1, <1>7 DEF S
      <3> QED
        BY <3>1, <3>2, <1>10
    <2>2. CASE Op[c] # "get_async"
      BY <2>2, <1>9, <1>12
    <2> QED
      BY <2>1, <2>2
  <1>15. Unmixed'
    BY <1>3 DEF RouteInv, Unmixed, Used
  <1>16. Posted'
    <2>1. \A v \in Clients : \A i \in 1..Len(recvs'[v]) : \E j \in 1..Len(recvs[v]) : recvs'[v][i] = recvs[v][j]
      <3> TAKE v \in Clients
      <3>1. CASE v = w
        BY <3>1, <1>6, <1>8
      <3>2. CASE v # w
        BY <3>2, <1>8
      <3> QED
        BY <3>1, <3>2
    <2>2. \A v \in Clients : \A i \in 1..Len(recvs[v]) : Client[recvs[v][i]] = v /\ phase[recvs[v][i]] \notin {"unused", "idle"}
      BY DEF RouteInv, Posted, Issued
    <2>3. \A v \in Clients : \A i \in 1..Len(recvs'[v]) : Client[recvs'[v][i]] = v /\ phase'[recvs'[v][i]] \notin {"unused", "idle"}
      BY <2>1, <2>2, <1>3
    <2>4. \A g \in Gets : ~Issued(g) => result'[g] = NoItem
      BY <1>14 DEF RouteInv, Posted
    <2> QED
      BY <2>3, <2>4, <1>3 DEF Posted, Issued
  <1>17. Routed'
    <2>1. \A v \in Clients : \A i \in 1..Len(replies'[v]) : \E j \in 1..Len(replies[v]) : replies'[v][i] = replies[v][j]
      <3> TAKE v \in Clients
      <3>1. CASE v = w
        BY <3>1, <1>7, <1>8
      <3>2. CASE v # w
        BY <3>2, <1>8
      <3> QED
        BY <3>1, <3>2
    <2> SUFFICES ASSUME NEW v \in Clients, NEW i \in 1..Len(replies'[v]), NEW r, r = replies'[v][i], r.item \in Puts
                 PROVE  r.query \in Gets /\ Client[r.query] = v /\ phase'[r.query] \notin {"unused", "idle"} /\ Key[r.item] = Key[r.query]
      BY DEF Routed, Issued
    <2>2. PICK j \in 1..Len(replies[v]) : r = replies[v][j]
      BY <2>1
    <2> QED
      BY <2>2, <1>3 DEF RouteInv, Routed, Issued
  <1>18. OneAtATime'
    <2> SUFFICES ASSUME NEW v \in Clients, OnlyBlocks(v)
                 PROVE  Nothing(v)' \/ \E d \in Gets : Waits(v, d)'
      BY <1>3 DEF OneAtATime, OnlyBlocks, Used
    <2>1. Nothing(v) \/ \E d \in Gets : Waits(v, d)
      BY DEF RouteInv, OneAtATime
    <2>2. CASE v # w
      <3>1. recvs'[v] = recvs[v] /\ replies'[v] = replies[v]
        BY <2>2, <1>8
      <3>2. Nothing(v) => Nothing(v)'
        BY <3>1, <1>3 DEF Nothing, Quiet
      <3>3. \A d \in Gets : Waits(v, d) => Waits(v, d)'
        BY <3>1, <2>2, <1>3, <1>14 DEF Waits, Quiet, Issued
      <3> QED
        BY <2>1, <3>2, <3>3
    <2>3. CASE v = w
      <3>1. PICK d \in Gets : Waits(w, d)
        BY <2>1, <2>3, <1>3 DEF Nothing
      <3>2. phase[d] = "ended" /\ recvs[w] = <<d>> /\ Len(replies[w]) = 1
        BY <3>1, <1>3 DEF Waits
      <3>3. recvs'[w] = <<>>
        BY <3>2, <1>8
      <3>4. replies'[w] = <<>>
        BY <3>2, <1>3, <1>5, <1>8
      <3>5. \A g \in Gets : Client[g] = w => Quiet(g)'
        BY <3>1, <3>2, <1>3 DEF Waits, Quiet
      <3> QED
        BY <3>3, <3>4, <3>5, <2>3 DEF Nothing
    <2> QED
      BY <2>2, <2>3
  <1>19. KeyRouting'
    <2> SUFFICES ASSUME NEW g \in Gets, result'[g] \in Puts
                 PROVE  Key[result'[g]] = Key[g]
      BY DEF KeyRouting
    <2>1. CASE g \notin Receivers(c, reply)
      BY <2>1, <1>13 DEF RouteInv, KeyRouting
    <2>2. CASE g \in Receivers(c, reply)
      <3>1. result'[g] = reply.item /\ reply.item \in Puts
        BY <2>2, <1>11, <1>13
      <3>2. PICK q \in Gets : q = reply.query /\ Client[q] = w /\ Issued(q) /\ Key[reply.item] = Key[q]
        BY <3>1, <1>10
      <3>3. CASE Op[c] = "get_async"
        BY <2>2, <3>1, <3>2, <3>3, <1>12
      <3>4. CASE Op[c] # "get_async"
        <4>1. g = c
          BY <2>2, <3>4, <1>12
        <4>2. \A d \in Gets : Client[d] = w /\ Used(d) /\ Op[d] = "get_async" => Key[c] = Key[d]
          BY <3>4, <1>6, <1>9 DEF RouteInv, Unmixed, Used, Issued
        <4>3. CASE OnlyBlocks(w)
          <5>1. PICK d \in Gets : Waits(w, d)
            BY <4>3, <1>3 DEF RouteInv, OneAtATime, Nothing
          <5>2. d = c /\ q = d
            BY <5>1, <3>1, <3>2, <1>3, <1>6, <1>7 DEF Waits
          <5> QED
            BY <5>2, <4>1, <3>1, <3>2
        <4>4. CASE ~OnlyBlocks(w)
          <5>1. PICK d \in Gets : Client[d] = w /\ Used(d) /\ Op[d] = "get_async"
            BY <4>4 DEF OnlyBlocks
          <5>2. Key[c] = Key[d]
            BY <4>2, <5>1
          <5>3. Key[q] = Key[d]
            <6>1. CASE Op[q] = "get_async"
              BY <6>1, <4>2, <5>2, <3>2 DEF Used, Issued
            <6>2. CASE Op[q] # "get_async"
              BY <6>2, <5>1, <3>2 DEF RouteInv, Unmixed, Used, Issued
            <6> QED
              BY <6>1, <6>2
          <5> QED
            BY <5>2, <5>3, <4>1, <3>1, <3>2
        <4> QED
          BY <4>3, <4>4
      <3> QED
        BY <3>3, <3>4
    <2> QED
      BY <2>1, <2>2
  <1> QED
    BY <1>15, <1>16, <1>17, <1>18, <1>19 DEF RouteInv

\* A get's method replies to its worker.
LEMMA GetRepliesRoute ==
  ASSUME OnceInv, RouteInv, NEW c \in Gets, phase[c] \in {"remote", "woken"},
         phase'[c] = "ended", \A d \in Gets \ {c} : phase'[d] = phase[d],
         NEW item \in Puts \cup {NoItem}, NEW query \in Gets \cup {QueueEmpty},
         item \in Puts => query = c /\ Key[item] = Key[c],
         Reply(c, item, query), UNCHANGED <<recvs, result>>
  PROVE  RouteInv'
  <1> DEFINE S == [item : Puts \cup {NoItem}, query : Gets \cup {QueueEmpty}]
  <1>1. PICK w \in Clients : w = Client[c]
    BY CallFacts
  <1>2. PICK reply \in S : reply = [item |-> item, query |-> query]
    OBVIOUS
  <1>3. replies' = [replies EXCEPT ![w] = Append(replies[w], reply)]
    BY <1>1, <1>2 DEF Reply
  <1>4. replies \in [Clients -> Seq(S)] /\ replies[w] \in Seq(S)
    BY DEF OnceInv, TypeOK
  <1>5. reply.item = item /\ reply.query = query
    BY <1>2
  <1> HIDE DEF S
  <1>6. replies'[w] = Append(replies[w], reply) /\ \A v \in Clients \ {w} : replies'[v] = replies[v]
    BY <1>3, <1>4
  <1>7. \A v \in Clients : \A i \in 1..Len(replies'[v]) :
          (i \in 1..Len(replies[v]) /\ replies'[v][i] = replies[v][i]) \/ (v = w /\ replies'[v][i] = reply)
    <2>1. /\ Append(replies[w], reply)[Len(replies[w]) + 1] = reply
          /\ \A i \in 1..Len(replies[w]) : Append(replies[w], reply)[i] = replies[w][i]
          /\ \A i \in 1..Len(Append(replies[w], reply)) : i \in 1..Len(replies[w]) \/ i = Len(replies[w]) + 1
      BY <1>2, <1>4, AddsLast
    <2> TAKE v \in Clients
    <2>2. CASE v = w
      BY <2>1, <2>2, <1>6
    <2>3. CASE v # w
      BY <2>3, <1>6
    <2> QED
      BY <2>2, <2>3
  <1>8. \A g \in Gets : (Used(g)' <=> Used(g)) /\ (Issued(g)' <=> Issued(g))
    BY DEF Used, Issued
  <1>9. Unmixed' /\ KeyRouting'
    BY <1>8 DEF RouteInv, Unmixed, KeyRouting
  <1>10. Posted'
    <2>1. \A v \in Clients : \A i \in 1..Len(recvs[v]) : recvs[v][i] \in Gets
      BY DEF OnceInv, TypeOK
    <2>2. \A v \in Clients : \A i \in 1..Len(recvs[v]) : Client[recvs[v][i]] = v /\ phase'[recvs[v][i]] \notin {"unused", "idle"}
      BY <2>1, <1>8 DEF RouteInv, Posted, Issued
    <2> QED
      BY <2>2, <1>8 DEF RouteInv, Posted, Issued
  <1>11. Routed'
    <2> SUFFICES ASSUME NEW v \in Clients, NEW i \in 1..Len(replies'[v]), NEW r, r = replies'[v][i], r.item \in Puts
                 PROVE  r.query \in Gets /\ Client[r.query] = v /\ phase'[r.query] \notin {"unused", "idle"} /\ Key[r.item] = Key[r.query]
      BY DEF Routed, Issued
    <2>1. CASE i \in 1..Len(replies[v]) /\ r = replies[v][i]
      BY <2>1, <1>8 DEF RouteInv, Routed, Issued
    <2>2. CASE v = w /\ r = reply
      BY <2>2, <1>1, <1>5
    <2> QED
      BY <2>1, <2>2, <1>7
  <1>12. OneAtATime'
    <2> SUFFICES ASSUME NEW v \in Clients, OnlyBlocks(v)
                 PROVE  Nothing(v)' \/ \E d \in Gets : Waits(v, d)'
      BY <1>8 DEF OneAtATime, OnlyBlocks
    <2>1. Nothing(v) \/ \E d \in Gets : Waits(v, d)
      BY DEF RouteInv, OneAtATime
    <2>2. CASE v # w
      <3>1. \A d \in Gets : Client[d] = v => phase'[d] = phase[d]
        BY <2>2, <1>1
      <3>2. recvs'[v] = recvs[v] /\ replies'[v] = replies[v]
        BY <2>2, <1>6
      <3>3. Nothing(v) => Nothing(v)'
        BY <3>1, <3>2 DEF Nothing, Quiet
      <3>4. \A d \in Gets : Waits(v, d) => Waits(v, d)'
        BY <3>1, <3>2 DEF Waits, Quiet, Issued
      <3> QED
        BY <2>1, <3>3, <3>4
    <2>3. CASE v = w
      <3>1. Waits(w, c)
        BY <2>1, <2>3, <1>1 DEF Nothing, Waits, Quiet
      <3>2. replies[w] = <<>>
        BY <3>1 DEF Waits
      <3>3. Len(replies'[w]) = 1 /\ replies'[w][1] = reply
        BY <3>2, <1>6
      <3>4. Waits(w, c)'
        BY <3>1, <3>3, <1>5, <1>8 DEF Waits, Quiet
      <3> QED
        BY <3>4, <2>3
    <2> QED
      BY <2>2, <2>3
  <1> QED
    BY <1>9, <1>10, <1>11, <1>12 DEF RouteInv

\* A get's method runs.
LEMMA GetRunsRoute ==
  ASSUME OnceInv, RouteInv, NEW c \in Calls, GetRuns(c)
  PROVE  RouteInv'
  <1>1. PICK k \in Keys : k = Key[c]
    BY CallFacts
  <1>2. c \in Gets /\ phase[c] \in {"remote", "woken"} /\ UNCHANGED <<recvs, result>>
    BY DEF GetRuns
  <1>3. phase \in [Calls -> {"unused", "idle", "chained", "remote", "parked", "woken", "ended", "raised"}]
    BY DEF OnceInv, TypeOK
  <1>4. CASE queue[k] # <<>>
    <2>1. /\ phase' = [d \in Calls |->
                         IF d = c THEN "ended" ELSE IF d \in Woken(putters[k]) THEN "woken" ELSE phase[d]]
          /\ Reply(c, Head(queue[k]), c)
      BY <1>1, <1>4 DEF GetRuns
    <2>2. Woken(putters[k]) \subseteq Puts
      BY Wakes DEF OnceInv, TypeOK
    <2>3. queue[k] \in Seq(Puts) /\ stored[k] \in Seq(Puts)
      BY DEF OnceInv, TypeOK
    <2>4. PICK item \in Puts : item = Head(queue[k]) /\ item = queue[k][1] /\ 1 \in 1..Len(queue[k])
      BY <2>3, <1>4, DropsFirst
    <2>5. Key[item] = k
      <3>1. item = stored[k][1 + Gone(k)]
        BY <2>4 DEF OnceInv, Queued
      <3>2. PICK x \in Nat, y \in Nat : x = Len(stored[k]) /\ y = Len(queue[k])
        BY <2>3
      <3>3. 1 <= y /\ y <= x /\ Gone(k) = x - y
        <4>1. 1 <= y
          BY <3>2, <2>4
        <4>2. y <= x
          BY <3>2 DEF OnceInv, Queued
        <4>3. Gone(k) = x - y
          BY <3>2 DEF Gone
        <4> QED
          BY <4>1, <4>2, <4>3
      <3>4. 1 + (x - y) \in 1..x
        <4>1. 1 <= y /\ y <= x
          BY <3>3
        <4> QED
          BY <4>1
      <3>5. 1 + Gone(k) \in 1..Len(stored[k])
        BY <3>2, <3>3, <3>4
      <3> QED
        BY <3>1, <3>5 DEF OnceInv, StoredOnce
    <2>6. phase'[c] = "ended" /\ \A d \in Gets \ {c} : phase'[d] = phase[d]
      BY <2>1, <2>2, <1>2, CallFacts
    <2> HIDE DEF Reply
    <2>7. Reply(c, item, c)
      BY <2>1, <2>4
    <2> QED
      BY <2>4, <2>5, <2>6, <2>7, <1>1, <1>2, GetRepliesRoute
  <1>5. CASE queue[k] = <<>> /\ Op[c] # "get_nowait"
    <2>1. phase' = [phase EXCEPT ![c] = "parked"] /\ UNCHANGED replies
      BY <1>1, <1>5 DEF GetRuns
    <2>2. \A g \in Gets : phase'[g] = phase[g] \/ {phase[g], phase'[g]} \subseteq {"remote", "parked", "woken"}
      BY <2>1, <1>2, <1>3, CallFacts
    <2> QED
      BY <2>1, <2>2, <1>2, RouteStays
  <1>6. CASE queue[k] = <<>> /\ Op[c] = "get_nowait"
    <2>1. phase' = [phase EXCEPT ![c] = "ended"] /\ Reply(c, NoItem, QueueEmpty)
      BY <1>1, <1>6 DEF GetRuns
    <2>2. phase'[c] = "ended" /\ \A d \in Gets \ {c} : phase'[d] = phase[d]
      BY <2>1, <1>2, <1>3, CallFacts
    <2> HIDE DEF Reply
    <2> QED
      BY <2>1, <2>2, <1>2, CallFacts, GetRepliesRoute
  <1> QED
    BY <1>4, <1>5, <1>6

\* A put's method may wake a get.
LEMMA PutRunsRoute ==
  ASSUME OnceInv, RouteInv, NEW c \in Calls, NEW item, Serves(c, item), StoreOrWait(c, item)
  PROVE  RouteInv'
  <1>1. c \in Puts /\ item \in Puts /\ UNCHANGED <<recvs, replies, result>> /\ phase[c] \in {"remote", "woken"}
    BY DEF Serves
  <1>2. phase \in [Calls -> {"unused", "idle", "chained", "remote", "parked", "woken", "ended", "raised"}]
    BY DEF OnceInv, TypeOK
  <1>3. PICK k \in Keys : k = Key[item]
    BY <1>1, CallFacts
  <1>4. CASE Store(c, item)
    <2>1. phase' = [d \in Calls |-> IF d = c THEN "ended"
                                    ELSE IF d \in Woken(getters[k]) THEN "woken"
                                    ELSE IF d \in Successor(c) THEN "remote" ELSE phase[d]]
      BY <1>3, <1>4 DEF Store, QueueOf
    <2>2. \A d \in Woken(getters[k]) : phase[d] = "parked"
      <3>1. \A d \in Woken(getters[k]) : d = getters[k][1] /\ 1 \in 1..Len(getters[k])
        BY Wakes DEF OnceInv, TypeOK
      <3> QED
        BY <3>1 DEF OnceInv, Asleep, Sleep, Parked
    <2>3. Successor(c) \subseteq Puts
      <3> SUFFICES ASSUME Len(chain[Client[c]][Key[c]]) > 1
                   PROVE  chain[Client[c]][Key[c]][2] \in Puts
        BY DEF Successor
      <3>1. Len(chain[Client[c]][Key[c]]) \in Nat
        <4>1. chain \in [Clients -> [Keys -> Seq(Puts)]] /\ Client[c] \in Clients /\ Key[c] \in Keys
          BY CallFacts DEF OnceInv, TypeOK
        <4>2. chain[Client[c]][Key[c]] \in Seq(Puts)
          BY <4>1
        <4> QED
          BY <4>2
      <3>2. 2 \in 1..Len(chain[Client[c]][Key[c]])
        BY <3>1
      <3> QED
        BY <3>2, ChainElements, CallFacts
    <2> HIDE DEF Woken, Successor
    <2>4. \A g \in Gets : phase'[g] = phase[g] \/ {phase[g], phase'[g]} \subseteq {"remote", "parked", "woken"}
      BY <2>1, <2>2, <2>3, <1>1, CallFacts
    <2> QED
      BY <2>4, <1>1, RouteStays
  <1>5. CASE Park(c, item) \/ RaiseFull(c)
    <2>1. \A g \in Gets : phase'[g] = phase[g]
      BY <1>1, <1>2, <1>5, CallFacts DEF Park, RaiseFull
    <2> QED
      BY <2>1, <1>1, RouteStays
  <1> QED
    BY <1>4, <1>5 DEF StoreOrWait

\* Key-based routing (Channel.get): a get returns an item that was put with
\* its key, unless a worker has blocking gets and async gets on several keys.
THEOREM KeyRoutingHolds == UnmixedGets /\ Spec => []KeyRouting
  <1>1. OnceInv /\ RouteInv /\ [Next]_vars => RouteInv'
    <2> SUFFICES ASSUME OnceInv, RouteInv, [Next]_vars
                 PROVE  RouteInv'
      OBVIOUS
    <2>1. ASSUME NEW c \in Calls, IssuePut(c)
          PROVE  RouteInv'
      <3>1. \A g \in Gets : phase'[g] = phase[g]
        BY <2>1, CallFacts DEF IssuePut, OnceInv, TypeOK
      <3> QED
        BY <2>1, <3>1, RouteStays DEF IssuePut
    <2>2. ASSUME NEW c \in Calls, IssueGet(c)
          PROVE  RouteInv'
      BY <2>2, IssueGetRoute
    <2>3. ASSUME NEW c \in Calls, PutStarts(c)
          PROVE  RouteInv'
      BY <2>3, PutStartsServes, PutRunsRoute
    <2>4. ASSUME NEW c \in Calls, PutResumes(c)
          PROVE  RouteInv'
      BY <2>4, PutResumesServes, PutRunsRoute
    <2>5. ASSUME NEW c \in Calls, GetRuns(c)
          PROVE  RouteInv'
      BY <2>5, GetRunsRoute
    <2>6. ASSUME NEW w \in Clients, Recv(w)
          PROVE  RouteInv'
      BY <2>6, RecvRoute
    <2>7. CASE UNCHANGED vars
      BY <2>7, RouteStays DEF vars
    <2> QED
      BY <2>1, <2>2, <2>3, <2>4, <2>5, <2>6, <2>7 DEF Next
  <1>2. UnmixedGets /\ Init => RouteInv
    BY RouteInit
  <1>3. RouteInv => KeyRouting
    BY DEF RouteInv
  <1> QED
    BY <1>1, <1>2, <1>3, OnceHolds, PTL DEF Spec

-----------------------------------------------------------------------------
(* Items enter a queue in the order of the puts.                           *)

LEMMA OrderInit ==
  ASSUME InOrderOfPuts, Init
  PROVE  OrderInv
  <1>1. PICK made \in Workloads : phase = [c \in Calls |-> IF c \in made THEN "idle" ELSE "unused"]
    BY DEF Init
  <1>2. \A c \in Calls : phase[c] \in {"unused", "idle"} /\ (Used(c) <=> c \in made)
    BY <1>1 DEF Used
  <1>3. UsedCalls = made
    BY <1>2, CallsAssumption DEF UsedCalls
  <1>4. Ordered
    BY <1>2, <1>3, CallFacts DEF Ordered, InOrderOfPuts, InHand
  <1>5. AllStored /\ InOrder
    BY DEF Init, AllStored, InOrder
  <1> QED
    BY <1>4, <1>5 DEF OrderInv

\* A step that neither receives nor stores items, and at most wakes puts.
LEMMA OrderStays ==
  ASSUME OnceInv, OrderInv, UNCHANGED <<taken, stored>>,
         \A w \in Clients : \A i \in 1..Len(items[w]) : items'[w][i] = items[w][i],
         \A c \in Calls : Used(c)' <=> Used(c),
         \A c \in Puts : InHand(c)' <=> InHand(c)
  PROVE  OrderInv'
  <1>1. UsedCalls' = UsedCalls
    BY DEF UsedCalls
  <1>2. Ordered'
    BY <1>1 DEF OrderInv, Ordered
  <1>3. \A w \in Clients : taken[w] \in Nat /\ \A i \in 1..taken[w] : items'[w][i] = items[w][i]
    <2>1. \A w \in Clients : taken[w] \in Nat /\ taken[w] <= Len(items[w]) /\ Len(items[w]) \in Nat
      BY DEF OnceInv, TypeOK
    <2> QED
      BY <2>1
  <1>4. AllStored'
    <2>1. \A p : IsStored(p)' <=> IsStored(p)
      BY DEF IsStored
    <2>2. \A w \in Clients : \A i \in 1..taken[w] :
            IsStored(items[w][i])' \/ (i = taken[w] /\ \E c \in Puts : Client[c] = w /\ InHand(c)')
      <3> TAKE w \in Clients
      <3> TAKE i \in 1..taken[w]
      <3>1. IsStored(items[w][i]) \/ (i = taken[w] /\ \E c \in Puts : Client[c] = w /\ InHand(c)')
        BY DEF OrderInv, AllStored
      <3>2. items'[w][i] = items[w][i]
        BY <1>3
      <3> QED
        BY <3>1, <3>2 DEF IsStored
    <2> QED
      BY <2>2 DEF AllStored
  <1>5. InOrder'
    <2>1. \A w \in Clients : \A j \in 1..taken[w] : \A i \in 1..(j - 1) :
            Key[items[w][i]] = Key[items[w][j]] => Follows(items[w][j], items[w][i], Key[items[w][j]])'
      <3> TAKE w \in Clients
      <3> TAKE j \in 1..taken[w]
      <3> TAKE i \in 1..(j - 1)
      <3>1. i \in 1..taken[w] /\ items'[w][i] = items[w][i] /\ items'[w][j] = items[w][j]
        BY <1>3
      <3> SUFFICES ASSUME Key[items[w][i]] = Key[items[w][j]]
                   PROVE  Follows(items[w][j], items[w][i], Key[items[w][j]])'
        OBVIOUS
      <3>2. Follows(items[w][j], items[w][i], Key[items[w][j]])
        BY DEF OrderInv, InOrder
      <3> QED
        BY <3>1, <3>2 DEF Follows
    <2>2. \A w \in Clients : \A j \in 1..taken[w] : \A i \in 1..(j - 1) : items'[w][i] = items[w][i] /\ items'[w][j] = items[w][j]
      BY <1>3
    <2> QED
      BY <2>1, <2>2 DEF InOrder
  <1> QED
    BY <1>2, <1>4, <1>5 DEF OrderInv

\* A queue has room for the next put of a workload that it has room for.
LEMMA RoomFits ==
  ASSUME OnceInv, Roomy(UsedCalls), NEW c \in Calls, NEW item, Serves(c, item)
  PROVE  ~Full(Key[item])
  <1>1. PICK k \in Keys : k = Key[item]
    BY CallFacts DEF Serves
  <1>2. SUFFICES ASSUME MaxSize > 0
                 PROVE  Len(queue[k]) < MaxSize
    <2>1. queue[k] \in Seq(Puts) /\ MaxSize \in Nat
      BY CallFacts DEF OnceInv, TypeOK
    <2>2. PICK x \in Nat, max \in Nat : x = Len(queue[k]) /\ max = MaxSize
      BY <2>1
    <2> QED
      BY <1>1, <2>2 DEF Full
  <1> DEFINE T == PutsOn(UsedCalls, k)
  <1>3. IsFiniteSet(T) /\ Cardinality(T) <= MaxSize
    BY <1>2, CallFacts DEF Roomy
  <1>4. \A p \in Puts : Received(p) \/ p = item => Used(p)
    <2>1. \A w \in Clients : \A i \in 1..Len(items[w]) : Used(items[w][i])
      BY DEF OnceInv, SentOnce, Issued, Used
    <2>2. \A w \in Clients : taken[w] \in Nat /\ taken[w] <= Len(items[w]) /\ Len(items[w]) \in Nat
      BY DEF OnceInv, TypeOK
    <2>3. \A p \in Puts : Received(p) => Used(p)
      BY <2>1, <2>2, CallFacts DEF Received
    <2>4. Used(item)
      <3>1. PICK w \in Clients : w = Client[c]
        BY CallFacts
      <3>2. PICK i \in 1..taken'[w] : items[w][i] = item
        BY <3>1 DEF Serves
      <3>3. taken'[w] \in Nat /\ taken'[w] <= Len(items[w])
        BY DEF Serves
      <3> QED
        BY <2>1, <2>2, <3>2, <3>3
    <2> QED
      BY <2>3, <2>4
  <1>5. item \in T
    BY <1>1, <1>4, CallFacts DEF Serves, PutsOn, UsedCalls
  <1>6. stored[k] \in [1..Len(stored[k]) -> T \ {item}]
    <2>1. stored[k] \in Seq(Puts)
      BY DEF OnceInv, TypeOK
    <2>2. \A n \in 1..Len(stored[k]) : stored[k][n] \in T \ {item}
      <3> TAKE n \in 1..Len(stored[k])
      <3>1. PICK p \in Puts : p = stored[k][n]
        BY <2>1
      <3>2. Key[p] = k /\ Received(p)
        BY <3>1 DEF OnceInv, StoredOnce
      <3>3. p # item
        BY <3>1, <1>1 DEF Serves
      <3> QED
        BY <3>1, <3>2, <3>3, <1>4, CallFacts DEF PutsOn, UsedCalls
    <2> QED
      BY <2>1, <2>2
  <1> HIDE DEF T
  <1>7. stored[k] \in Injection(1..Len(stored[k]), T \ {item})
    BY <1>6 DEF Injection, IsInjective, OnceInv, StoredOnce
  <1>8. IsFiniteSet(T \ {item}) /\ Cardinality(T \ {item}) = Cardinality(T) - 1
    BY <1>3, <1>5, FS_RemoveElement
  <1>9. Cardinality(1..Len(stored[k])) <= Cardinality(T \ {item})
    BY <1>7, <1>8, FS_Injection
  <1>10. Len(stored[k]) \in Nat /\ Len(queue[k]) \in Nat /\ Len(queue[k]) <= Len(stored[k])
    BY DEF OnceInv, TypeOK, Queued
  <1>11. \A n \in Nat : Cardinality(1..n) = n
    <2> TAKE n \in Nat
    <2>1. Cardinality(1..n) = IF 1 > n THEN 0 ELSE n - 1 + 1
      BY FS_Interval
    <2> QED
      BY <2>1
  <1>12. Len(stored[k]) <= Cardinality(T) - 1
    BY <1>8, <1>9, <1>10, <1>11
  <1>13. Cardinality(T) \in Nat
    BY <1>3, FS_CardinalityType
  <1>14. PICK x \in Nat, y \in Nat, t \in Nat, max \in Nat :
           x = Len(stored[k]) /\ y = Len(queue[k]) /\ t = Cardinality(T) /\ max = MaxSize
    BY <1>10, <1>13, CallFacts
  <1>15. y <= x /\ x <= t - 1 /\ t <= max
    BY <1>3, <1>10, <1>12, <1>14
  <1>16. y < max
    BY <1>15
  <1> QED
    BY <1>14, <1>16

\* The item of a put is the last that was received, and all before are stored.
Turn(c, item) ==
  LET w == Client[c]
  IN /\ taken'[w] \in 1..Len(items[w]) /\ items[w][taken'[w]] = item
     /\ \A i \in 1..(taken'[w] - 1) : i \in 1..taken[w] /\ IsStored(items[w][i])
     /\ \A v \in Clients \ {w} : taken'[v] = taken[v]

LEMMA PutStartsTurn ==
  ASSUME OnceInv, OrderInv, NEW c \in Calls, NEW item, Serves(c, item),
         item = items[Client[c]][taken'[Client[c]]],
         taken' = [taken EXCEPT ![Client[c]] = @ + 1], phase[c] = "remote"
  PROVE  Turn(c, item)
  <1>1. PICK w \in Clients : w = Client[c]
    BY CallFacts
  <1>2. taken \in [Clients -> Nat] /\ taken[w] \in Nat /\ Len(items[w]) \in Nat
    BY DEF OnceInv, TypeOK
  <1>3. taken'[w] = taken[w] + 1 /\ \A v \in Clients \ {w} : taken'[v] = taken[v]
    BY <1>1, <1>2
  <1>4. taken'[w] <= Len(items[w]) /\ c \in Puts
    BY DEF Serves
  <1>5. \A d \in Puts : Client[d] = w => ~InHand(d)
    <2> SUFFICES ASSUME NEW d \in Puts, Client[d] = w, InHand(d)
                 PROVE  FALSE
      OBVIOUS
    <2>1. OneKey(UsedCalls)
      BY DEF OrderInv, Ordered
    <2>2. Key[c] = Key[d]
      BY <2>1, <1>1, <1>4, CallFacts DEF OneKey, UsedCalls, Used, InHand
    <2>3. Head(chain[w][Key[c]]) = c /\ Head(chain[w][Key[c]]) = d
      BY <2>2, <1>1, <1>4 DEF OnceInv, AtHead, Active, InHand
    <2> QED
      BY <2>3 DEF InHand
  <1>6. \A i \in 1..taken[w] : IsStored(items[w][i])
    BY <1>5 DEF OrderInv, AllStored
  <1>7. taken'[w] \in 1..Len(items[w]) /\ \A i \in 1..(taken'[w] - 1) : i \in 1..taken[w]
    BY <1>2, <1>3, <1>4
  <1> QED
    BY <1>1, <1>3, <1>6, <1>7 DEF Turn

LEMMA PutResumesTurn ==
  ASSUME OnceInv, OrderInv, NEW c \in Calls, NEW item, Serves(c, item), taken' = taken
  PROVE  Turn(c, item)
  <1>1. PICK w \in Clients : w = Client[c]
    BY CallFacts
  <1>2. taken[w] \in Nat /\ Len(items[w]) \in Nat /\ taken[w] <= Len(items[w])
    BY DEF OnceInv, TypeOK
  <1>3. PICK j \in 1..taken[w] : items[w][j] = item
    BY <1>1 DEF Serves
  <1>4. ~IsStored(item)
    BY DEF Serves, IsStored
  <1>5. j = taken[w]
    BY <1>3, <1>4 DEF OrderInv, AllStored
  <1>6. \A i \in 1..(taken[w] - 1) : i \in 1..taken[w] /\ IsStored(items[w][i])
    BY <1>2 DEF OrderInv, AllStored
  <1> QED
    BY <1>1, <1>2, <1>3, <1>5, <1>6 DEF Turn

\* A put's method stores the item.
LEMMA StoreOrder ==
  ASSUME OnceInv, OrderInv, NEW c \in Calls, NEW item, Serves(c, item), Turn(c, item), Store(c, item)
  PROVE  OrderInv'
  <1>0. PICK woken, next : woken = Woken(getters[Key[item]]) /\ next = Successor(c)
    OBVIOUS
  <1>1. PICK k \in Keys, w \in Clients :
          k = Key[item] /\ w = Client[c] /\ woken = Woken(getters[k]) /\ next = Successor(c)
    BY <1>0, CallFacts DEF Serves
  <1>2. /\ c \in Puts /\ item \in Puts /\ Client[item] = w /\ phase[c] \in {"remote", "woken"} /\ items' = items
        /\ \A n \in 1..Len(stored[k]) : stored[k][n] # item
    BY <1>1 DEF Serves
  <1>3. /\ taken'[w] \in 1..Len(items[w]) /\ items[w][taken'[w]] = item
        /\ \A i \in 1..(taken'[w] - 1) : i \in 1..taken[w] /\ IsStored(items[w][i])
        /\ \A v \in Clients \ {w} : taken'[v] = taken[v]
    BY <1>1 DEF Turn
  <1>4. /\ stored' = [stored EXCEPT ![k] = Append(stored[k], item)]
        /\ phase' = [d \in Calls |->
                       IF d = c THEN "ended" ELSE IF d \in woken THEN "woken"
                       ELSE IF d \in next THEN "remote" ELSE phase[d]]
    BY <1>1 DEF Store, QueueOf
  <1>5. /\ phase \in [Calls -> {"unused", "idle", "chained", "remote", "parked", "woken", "ended", "raised"}]
        /\ stored \in [Keys -> Seq(Puts)] /\ stored[k] \in Seq(Puts)
        /\ \A v \in Clients : Len(items[v]) \in Nat /\ taken[v] \in Nat /\ taken[v] <= Len(items[v])
    BY DEF OnceInv, TypeOK
  <1>6. woken \subseteq Gets /\ \A d \in woken : phase[d] = "parked"
    <2>1. woken \subseteq Gets /\ \A d \in woken : d = getters[k][1] /\ 1 \in 1..Len(getters[k])
      BY <1>1, Wakes DEF OnceInv, TypeOK
    <2> QED
      BY <2>1 DEF OnceInv, Asleep, Sleep, Parked
  <1>7. \A d \in next : phase[d] = "chained" /\ d \in Puts
    <2>1. chain[w][Key[c]] \in Seq(Puts) /\ Key[c] \in Keys
      BY CallFacts DEF OnceInv, TypeOK
    <2>2. \A d \in next : d = chain[w][Key[c]][2] /\ Len(chain[w][Key[c]]) > 1
      BY <1>1 DEF Successor
    <2>3. Len(chain[w][Key[c]]) > 1 => 2 \in 1..Len(chain[w][Key[c]]) /\ 2 > 1
      BY <2>1
    <2> QED
      BY <2>1, <2>2, <2>3, ChainElements DEF OnceInv, InChain
  <1> HIDE DEF Woken, Successor
  <1>8. /\ \A d \in Calls : Used(d)' <=> Used(d)
        /\ \A d \in Puts : InHand(d)' => InHand(d) /\ d # c
        /\ \A d \in Puts \ {c} : InHand(d) => InHand(d)'
    BY <1>2, <1>4, <1>6, <1>7, CallFacts DEF Used, InHand
  <1>9. Ordered'
    <2>1. UsedCalls' = UsedCalls
      BY <1>8 DEF UsedCalls
    <2> QED
      BY <2>1, <1>8 DEF OrderInv, Ordered
  <1>10. /\ Len(stored[k]) \in Nat /\ stored'[k][Len(stored[k]) + 1] = item /\ Len(stored'[k]) = Len(stored[k]) + 1
         /\ \A n \in 1..Len(stored[k]) : stored'[k][n] = stored[k][n]
         /\ \A n \in 1..Len(stored'[k]) : n \in 1..Len(stored[k]) \/ n = Len(stored[k]) + 1
         /\ \A l \in Keys \ {k} : stored'[l] = stored[l]
    BY <1>2, <1>4, <1>5, AddsLast
  <1>11. \A p \in Puts : IsStored(p) \/ p = item => IsStored(p)'
    <2> SUFFICES ASSUME NEW p \in Puts, IsStored(p) \/ p = item
                 PROVE  \E n \in 1..Len(stored'[Key[p]]) : stored'[Key[p]][n] = p
      BY DEF IsStored
    <2>1. CASE p = item
      <3>1. Len(stored[k]) + 1 \in 1..Len(stored'[k])
        BY <1>10
      <3> QED
        BY <2>1, <3>1, <1>1, <1>10
    <2>2. CASE IsStored(p)
      <3>1. PICK n \in 1..Len(stored[Key[p]]) : stored[Key[p]][n] = p
        BY <2>2 DEF IsStored
      <3>2. CASE Key[p] = k
        <4>1. n \in 1..Len(stored'[k]) /\ stored'[k][n] = p
          BY <3>1, <3>2, <1>10
        <4> QED
          BY <4>1, <3>2
      <3>3. CASE Key[p] # k
        BY <3>1, <3>3, <1>10, CallFacts
      <3> QED
        BY <3>2, <3>3
    <2> QED
      BY <2>1, <2>2
  <1>12. \A v \in Clients : \A i \in 1..taken'[v] : i \in 1..Len(items[v]) /\ items[v][i] \in Puts
    <2>1. \A v \in Clients : \A i \in 1..Len(items[v]) : items[v][i] \in Puts
      BY DEF OnceInv, TypeOK
    <2>2. \A v \in Clients : taken'[v] \in Nat /\ taken'[v] <= Len(items[v])
      BY <1>3, <1>5
    <2> QED
      BY <2>1, <2>2, <1>5
  <1>13. AllStored'
    <2> SUFFICES ASSUME NEW v \in Clients, NEW i \in 1..taken'[v]
                 PROVE  IsStored(items[v][i])' \/ (i = taken'[v] /\ \E d \in Puts : Client[d] = v /\ InHand(d)')
      BY <1>2 DEF AllStored, IsStored
    <2>1. PICK p \in Puts : p = items[v][i]
      BY <1>12
    <2>2. CASE v = w
      <3>1. IsStored(p) \/ p = item
        <4>1. i \in 1..(taken'[w] - 1) \/ i = taken'[w]
          BY <2>2, <1>3
        <4> QED
          BY <4>1, <2>1, <2>2, <1>3
      <3>2. IsStored(p)'
        BY <3>1, <1>11
      <3> QED
        BY <3>2, <2>1, <1>2 DEF IsStored
    <2>3. CASE v # w
      <3>1. taken'[v] = taken[v]
        BY <2>3, <1>3
      <3>2. IsStored(p) \/ (i = taken[v] /\ \E d \in Puts : Client[d] = v /\ InHand(d))
        BY <2>1, <3>1 DEF OrderInv, AllStored
      <3>3. IsStored(p)' \/ (i = taken[v] /\ \E d \in Puts : Client[d] = v /\ InHand(d)')
        BY <2>3, <3>2, <1>1, <1>8, <1>11
      <3> QED
        BY <2>1, <3>1, <3>3, <1>2 DEF IsStored
    <2> QED
      BY <2>2, <2>3
  <1>14. InOrder'
    <2> SUFFICES ASSUME NEW v \in Clients, NEW j \in 1..taken'[v], NEW i \in 1..(j - 1),
                        Key[items[v][i]] = Key[items[v][j]]
                 PROVE  Follows(items[v][j], items[v][i], Key[items[v][j]])'
      BY <1>2 DEF InOrder, Follows
    <2> SUFFICES ASSUME NEW l \in Keys, l = Key[items[v][j]], Key[items[v][i]] = l
                 PROVE  Follows(items[v][j], items[v][i], l)'
      <3>1. items[v][j] \in Puts
        BY <1>12
      <3>2. Key[items[v][j]] \in Keys
        BY <3>1, CallFacts
      <3> QED
        BY <3>2, <1>2 DEF Follows
    <2> SUFFICES ASSUME NEW n \in 1..Len(stored'[l]), stored'[l][n] = items[v][j]
                 PROVE  \E m \in 1..(n - 1) : stored'[l][m] = items[v][i]
      BY <1>2 DEF Follows
    <2>1. taken'[v] \in Nat /\ i \in 1..taken'[v]
      <3>1. taken'[v] \in Nat
        <4>1. CASE v = w
          BY <1>3, <1>5, <4>1
        <4>2. CASE v # w
          BY <1>3, <1>5, <4>2
        <4> QED
          BY <4>1, <4>2
      <3>2. PICK t \in Nat : t = taken'[v]
        BY <3>1
      <3>3. j \in 1..t /\ i \in 1..(j - 1)
        BY <3>2
      <3>4. i \in 1..t
        BY <3>3
      <3> QED
        BY <3>1, <3>2, <3>4
    <2>2. items[v][i] \in Puts /\ items[v][j] \in Puts /\ j \in 1..Len(items[v])
      BY <2>1, <1>12
    <2>3. CASE items[v][j] = item
      <3>1. v = w /\ l = k
        BY <2>2, <2>3, <1>1, <1>2 DEF OnceInv, SentOnce
      <3>2. j = taken'[w]
        BY <2>2, <2>3, <3>1, <1>3 DEF OnceInv, SentOnce
      <3>3. IsStored(items[w][i])
        BY <3>1, <3>2, <1>3
      <3>4. PICK m \in 1..Len(stored[k]) : stored[k][m] = items[w][i]
        BY <3>1, <3>3 DEF IsStored
      <3>5. n = Len(stored[k]) + 1
        BY <2>3, <3>1, <1>2, <1>10
      <3>6. m \in 1..(n - 1) /\ stored'[k][m] = items[w][i]
        BY <3>4, <3>5, <1>10
      <3> QED
        BY <3>1, <3>6
    <2>4. CASE items[v][j] # item
      <3>1. n \in 1..Len(stored[l]) /\ stored[l][n] = items[v][j]
        BY <2>4, <1>10
      <3>2. j \in 1..taken[v]
        <4>1. CASE v = w
          <5>1. j # taken'[w]
            BY <2>4, <4>1, <1>3
          <5>2. j \in 1..(taken'[w] - 1)
            BY <5>1, <4>1, <1>3
          <5> QED
            BY <5>2, <4>1, <1>3
        <4>2. CASE v # w
          BY <4>2, <1>3
        <4> QED
          BY <4>1, <4>2
      <3>6. Follows(items[v][j], items[v][i], l)
        BY <3>2 DEF OrderInv, InOrder
      <3>3. PICK m \in 1..(n - 1) : stored[l][m] = items[v][i]
        BY <3>1, <3>6 DEF Follows
      <3>4. m \in 1..Len(stored[l])
        <4>1. Len(stored[l]) \in Nat
          BY <1>5
        <4> QED
          BY <4>1, <3>1, <3>3
      <3>5. stored'[l][m] = stored[l][m]
        BY <3>4, <1>10
      <3> QED
        BY <3>3, <3>5
    <2> QED
      BY <2>3, <2>4
  <1> QED
    BY <1>9, <1>13, <1>14 DEF OrderInv

\* A put's method waits with the item, or raises.
LEMMA WaitOrder ==
  ASSUME OnceInv, OrderInv, NEW c \in Calls, NEW item, Serves(c, item), Turn(c, item),
         Full(Key[item]), Park(c, item) \/ RaiseFull(c)
  PROVE  OrderInv'
  <1>1. PICK w \in Clients : w = Client[c]
    BY CallFacts
  <1>2. /\ c \in Puts /\ item \in Puts /\ Client[item] = w /\ phase[c] \in {"remote", "woken"} /\ items' = items
        /\ \A n \in 1..Len(stored[Key[item]]) : stored[Key[item]][n] # item
    BY <1>1 DEF Serves
  <1>3. /\ taken'[w] \in 1..Len(items[w]) /\ items[w][taken'[w]] = item
        /\ \A i \in 1..(taken'[w] - 1) : i \in 1..taken[w] /\ IsStored(items[w][i])
        /\ \A v \in Clients \ {w} : taken'[v] = taken[v]
    BY <1>1 DEF Turn
  <1>4. stored' = stored /\ \E to \in {"parked", "raised"} : phase' = [phase EXCEPT ![c] = to]
    BY DEF Park, RaiseFull
  <1>5. /\ \A d \in Calls : Used(d)' <=> Used(d)
        /\ \A d \in Puts : InHand(d) => InHand(d)'
        /\ InHand(c)'
    BY <1>2, <1>4, CallFacts DEF Used, InHand, OnceInv, TypeOK
  <1>6. Ordered'
    <2>1. UsedCalls' = UsedCalls
      BY <1>5 DEF UsedCalls
    <2>2. OneKey(UsedCalls)
      BY RoomFits DEF OrderInv, Ordered
    <2> QED
      BY <2>1, <2>2 DEF Ordered
  <1>7. AllStored'
    <2> SUFFICES ASSUME NEW v \in Clients, NEW i \in 1..taken'[v]
                 PROVE  IsStored(items[v][i]) \/ (i = taken'[v] /\ \E d \in Puts : Client[d] = v /\ InHand(d)')
      BY <1>2, <1>4 DEF AllStored, IsStored
    <2>1. CASE v = w
      <3>1. i \in 1..(taken'[w] - 1) \/ i = taken'[w]
        BY <2>1, <1>3
      <3> QED
        BY <2>1, <3>1, <1>1, <1>2, <1>3, <1>5
    <2>2. CASE v # w
      BY <2>2, <1>3, <1>5 DEF OrderInv, AllStored
    <2> QED
      BY <2>1, <2>2
  <1>8. InOrder'
    <2> SUFFICES ASSUME NEW v \in Clients, NEW j \in 1..taken'[v], NEW i \in 1..(j - 1),
                        Key[items[v][i]] = Key[items[v][j]]
                 PROVE  Follows(items[v][j], items[v][i], Key[items[v][j]])'
      BY <1>2 DEF InOrder, Follows
    <2> SUFFICES Follows(items[v][j], items[v][i], Key[items[v][j]])
      BY <1>2, <1>4 DEF Follows
    <2>1. SUFFICES ASSUME items[v][j] # item
                   PROVE  Follows(items[v][j], items[v][i], Key[items[v][j]])
      BY <1>2 DEF Follows
    <2>2. j \in 1..taken[v]
      <3>1. CASE v = w
        <4>1. j # taken'[w]
          BY <2>1, <3>1, <1>3
        <4>2. j \in 1..(taken'[w] - 1)
          BY <4>1, <3>1, <1>3
        <4> QED
          BY <4>2, <3>1, <1>3
      <3>2. CASE v # w
        BY <3>2, <1>3
      <3> QED
        BY <3>1, <3>2
    <2> QED
      BY <2>2 DEF OrderInv, InOrder
  <1> QED
    BY <1>6, <1>7, <1>8 DEF OrderInv

LEMMA PutRunsOrder ==
  ASSUME OnceInv, OrderInv, NEW c \in Calls, NEW item, Serves(c, item), Turn(c, item), StoreOrWait(c, item)
  PROVE  OrderInv'
  BY StoreOrder, WaitOrder DEF StoreOrWait, QueueOf

\* The items of a worker enter a queue in the order of its puts, each once
\* and none left out (the chains of AsyncChannelWork), for workloads whose
\* queues never fill or whose workers put on one key each.
THEOREM PutOrderHolds == InOrderOfPuts /\ Spec => []PutOrder
  <1>1. OnceInv /\ OrderInv /\ [Next]_vars => OrderInv'
    <2> SUFFICES ASSUME OnceInv, OrderInv, [Next]_vars
                 PROVE  OrderInv'
      OBVIOUS
    <2>1. phase \in [Calls -> {"unused", "idle", "chained", "remote", "parked", "woken", "ended", "raised"}]
      BY DEF OnceInv, TypeOK
    <2>2. ASSUME NEW c \in Calls, IssuePut(c)
          PROVE  OrderInv'
      <3>1. /\ c \in Puts /\ phase[c] = "idle" /\ UNCHANGED <<taken, stored>>
            /\ \E to \in {"remote", "chained"} : phase' = [phase EXCEPT ![c] = to]
            /\ items' = [items EXCEPT ![Client[c]] = Append(items[Client[c]], c)]
        BY <2>2 DEF IssuePut, AfterLast, server
      <3>2. \A w \in Clients : \A i \in 1..Len(items[w]) : items'[w][i] = items[w][i]
        BY <3>1, AddsLast DEF OnceInv, TypeOK
      <3>3. (\A d \in Calls : Used(d)' <=> Used(d)) /\ (\A d \in Puts : InHand(d)' <=> InHand(d))
        BY <2>1, <3>1, CallFacts DEF Used, InHand
      <3> QED
        BY <3>1, <3>2, <3>3, OrderStays
    <2>3. ASSUME NEW c \in Calls, IssueGet(c)
          PROVE  OrderInv'
      <3>1. c \in Gets /\ phase[c] = "idle" /\ UNCHANGED <<taken, stored, items>> /\ phase' = [phase EXCEPT ![c] = "remote"]
        BY <2>3 DEF IssueGet, server
      <3>2. (\A d \in Calls : Used(d)' <=> Used(d)) /\ (\A d \in Puts : InHand(d)' <=> InHand(d))
        BY <2>1, <3>1, CallFacts DEF Used, InHand
      <3> QED
        BY <3>1, <3>2, OrderStays
    <2>4. ASSUME NEW c \in Calls, PutStarts(c)
          PROVE  OrderInv'
      BY <2>4, PutStartsServes, PutStartsTurn, PutRunsOrder
    <2>5. ASSUME NEW c \in Calls, PutResumes(c)
          PROVE  OrderInv'
      BY <2>5, PutResumesServes, PutResumesTurn, PutRunsOrder
    <2>6. ASSUME NEW c \in Calls, GetRuns(c)
          PROVE  OrderInv'
      <3>1. /\ c \in Gets /\ phase[c] \in {"remote", "woken"} /\ UNCHANGED <<taken, stored, items>>
            /\ \/ \E to \in {"parked", "ended"} : phase' = [phase EXCEPT ![c] = to]
               \/ phase' = [d \in Calls |-> IF d = c THEN "ended" ELSE IF d \in Woken(putters[Key[c]]) THEN "woken" ELSE phase[d]]
        BY <2>6 DEF GetRuns
      <3>2. \A d \in Woken(putters[Key[c]]) : phase[d] = "parked"
        <4>1. \A d \in Woken(putters[Key[c]]) : d = putters[Key[c]][1] /\ 1 \in 1..Len(putters[Key[c]])
          BY Wakes, CallFacts DEF OnceInv, TypeOK
        <4> QED
          BY <4>1, CallFacts DEF OnceInv, Asleep, Sleep, Parked
      <3> HIDE DEF Woken
      <3>3. (\A d \in Calls : Used(d)' <=> Used(d)) /\ (\A d \in Puts : InHand(d)' <=> InHand(d))
        BY <2>1, <3>1, <3>2, CallFacts DEF Used, InHand
      <3> QED
        BY <3>1, <3>3, OrderStays
    <2>7. ASSUME NEW w \in Clients, Recv(w)
          PROVE  OrderInv'
      <3>1. UNCHANGED <<taken, stored, items, phase>>
        BY <2>7 DEF Recv, server
      <3> QED
        BY <3>1, OrderStays DEF Used, InHand
    <2>8. CASE UNCHANGED vars
      BY <2>8, OrderStays DEF vars, server, Used, InHand
    <2> QED
      BY <2>2, <2>3, <2>4, <2>5, <2>6, <2>7, <2>8 DEF Next
  <1>2. InOrderOfPuts /\ Init => OrderInv
    BY OrderInit
  <1>3. OnceInv /\ OrderInv => PutOrder
    <2> SUFFICES ASSUME OnceInv, OrderInv, NEW k \in Keys
                 PROVE  /\ IsInjective(stored[k])
                        /\ \A n \in DOMAIN stored[k] :
                             LET sent == items[Client[stored[k][n]]]
                             IN \E j \in DOMAIN sent :
                                  /\ sent[j] = stored[k][n] /\ Key[sent[j]] = k
                                  /\ \A i \in 1..(j - 1) :
                                       Key[sent[i]] = k => \E m \in 1..(n - 1) : stored[k][m] = sent[i]
      BY DEF PutOrder
    <2>1. stored[k] \in Seq(Puts) /\ DOMAIN stored[k] = 1..Len(stored[k])
      BY DEF OnceInv, TypeOK
    <2>2. IsInjective(stored[k])
      BY <2>1 DEF IsInjective, OnceInv, StoredOnce
    <2>3. ASSUME NEW n \in 1..Len(stored[k])
          PROVE  LET sent == items[Client[stored[k][n]]]
                 IN \E j \in DOMAIN sent :
                      /\ sent[j] = stored[k][n] /\ Key[sent[j]] = k
                      /\ \A i \in 1..(j - 1) :
                           Key[sent[i]] = k => \E m \in 1..(n - 1) : stored[k][m] = sent[i]
      <3>1. PICK p \in Puts, w \in Clients : p = stored[k][n] /\ w = Client[p]
        BY <2>1, CallFacts
      <3>2. Key[p] = k /\ Received(p)
        BY <3>1 DEF OnceInv, StoredOnce
      <3>3. PICK j \in 1..taken[w] : items[w][j] = p
        BY <3>1, <3>2 DEF Received
      <3>4. j \in DOMAIN items[w]
        BY <3>3 DEF OnceInv, TypeOK
      <3>5. \A i \in 1..(j - 1) : Key[items[w][i]] = k => \E m \in 1..(n - 1) : stored[k][m] = items[w][i]
        <4>1. \A i \in 1..(j - 1) : Key[items[w][i]] = k => Follows(p, items[w][i], k)
          BY <3>2, <3>3 DEF OrderInv, InOrder
        <4> QED
          BY <4>1, <3>1 DEF Follows
      <3> QED
        BY <3>1, <3>2, <3>3, <3>4, <3>5
    <2> QED
      BY <2>1, <2>2, <2>3
  <1> QED
    BY <1>1, <1>2, <1>3, OnceHolds, PTL DEF Spec
=============================================================================
