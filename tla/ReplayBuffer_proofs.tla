------------------------- MODULE ReplayBuffer_proofs -------------------------
(***************************************************************************)
(* Proofs about the replay buffer, for any configurations and bounds.      *)
(* Most of it is about the cache: what a put and the growth of the slots   *)
(* leave in it, whatever the number and the lengths of the trajectories.   *)
(***************************************************************************)
EXTENDS ReplayBuffer, SequenceTheorems, WellFoundedInduction, TLAPS

-----------------------------------------------------------------------------
(* Numbers.                                                                *)

\* A set of naturals that is not empty has a least member.
LEMMA Least ==
  ASSUME NEW T \in SUBSET Nat, T # {}
  PROVE  \E m \in T : \A k \in T : m <= k
<1> DEFINE R == {ss \in Nat \X Nat : ss[1] < ss[2]}
<1>1. IsWellFoundedOn(R, Nat)
  BY NatLessThanWellFounded DEF OpToRel
<1>2. \A S \in SUBSET Nat : S # {} => \E x \in S : \A y \in S : ~(<<y, x>> \in R)
  <2> HIDE DEF R
  <2> QED
    BY <1>1, WFMin
<1>3. PICK m \in T : \A k \in T : ~(<<k, m>> \in R)
  BY <1>2
<1>4. \A k \in T : m <= k
  <2> TAKE k \in T
  <2>1. k \in Nat /\ m \in Nat
    BY <1>3
  <2>2. ~(k < m)
    BY <1>3, <2>1
  <2> QED
    BY <2>1, <2>2
<1> QED
  BY <1>3, <1>4

\* A set of naturals with 0 and with every successor of a member is all of them.
LEMMA Induct ==
  ASSUME NEW T \in SUBSET Nat, 0 \in T, \A n \in T : n + 1 \in T
  PROVE  T = Nat
<1> SUFFICES ASSUME Nat \ T # {} PROVE FALSE
  OBVIOUS
<1>1. PICK m \in Nat \ T : \A k \in Nat \ T : m <= k
  <2>1. Nat \ T \in SUBSET Nat
    OBVIOUS
  <2> QED
    BY <2>1, Least
<1>2. m # 0 /\ m - 1 \in Nat
  BY <1>1
<1>3. (m - 1) + 1 \in T
  BY <1>1, <1>2
<1> QED
  BY <1>1, <1>3

\* Max of a set is its greatest member, Min its least.
LEMMA MaxIs ==
  ASSUME NEW S \in SUBSET Int, NEW m \in S, \A y \in S : m >= y
  PROVE  Max(S) = m
<1>1. Max(S) \in S /\ \A y \in S : Max(S) >= y
  BY DEF Max
<1>2. Max(S) >= m /\ m >= Max(S) /\ Max(S) \in Int /\ m \in Int
  BY <1>1
<1> QED
  BY <1>2

LEMMA MinIs ==
  ASSUME NEW S \in SUBSET Int, NEW m \in S, \A y \in S : m <= y
  PROVE  Min(S) = m
<1>1. Min(S) \in S /\ \A y \in S : Min(S) <= y
  BY DEF Min
<1>2. Min(S) <= m /\ m <= Min(S) /\ Min(S) \in Int /\ m \in Int
  BY <1>1
<1> QED
  BY <1>2

\* A larger factor gives a product that is larger by the other one.
LEMMA Multiples ==
  ASSUME NEW a \in Nat, NEW b \in Nat, NEW n \in Nat, a < b
  PROVE  a * n + n <= b * n
<1>1. PICK d \in Nat : b = a + 1 + d
  <2> WITNESS b - a - 1 \in Nat
  <2> QED
    OBVIOUS
<1>2. b * n = a * n + n + d * n
  BY <1>1
<1>3. d * n \in Nat /\ a * n \in Nat
  OBVIOUS
<1> QED
  BY <1>2, <1>3

\* Slots of one size do not overlap.
LEMMA Strides ==
  ASSUME NEW a \in Nat, NEW b \in Nat, NEW n \in Nat, NEW i \in Nat, NEW k \in Nat,
         i < n, k < n, a * n + i = b * n + k
  PROVE  a = b /\ i = k
<1>1. a * n \in Nat /\ b * n \in Nat
  OBVIOUS
<1>2. ~(a < b)
  <2> SUFFICES ASSUME a < b PROVE FALSE
    OBVIOUS
  <2>1. a * n + n <= b * n
    BY Multiples
  <2> QED
    BY <1>1, <2>1
<1>3. ~(b < a)
  <2> SUFFICES ASSUME b < a PROVE FALSE
    OBVIOUS
  <2>1. b * n + n <= a * n
    BY Multiples
  <2> QED
    BY <1>1, <2>1
<1> QED
  BY <1>1, <1>2, <1>3

\* The slot of a place and the place in it.
LEMMA DivMod ==
  ASSUME NEW s \in Nat, NEW n \in Nat \ {0}, NEW i \in Nat, i < n
  PROVE  (s * n + i) \div n = s /\ (s * n + i) % n = i
<1>1. PICK p \in Nat : p = s * n + i
  OBVIOUS
<1>2. PICK q \in Nat : q = p \div n
  OBVIOUS
<1>3. PICK r \in Nat : r = p % n /\ r < n
  OBVIOUS
<1>4. p = q * n + r
  <2>1. p = n * (p \div n) + (p % n)
    OBVIOUS
  <2> QED
    BY <2>1, <1>2, <1>3
<1>5. q = s /\ r = i
  BY <1>1, <1>3, <1>4, Strides
<1> QED
  BY <1>1, <1>2, <1>3, <1>5

\* Where a place of a slot is in the buffer.
LEMMA InBuffer ==
  ASSUME NEW C \in Nat, NEW s \in Nat, NEW n \in Nat, NEW i \in Nat, s < C, i < n
  PROVE  s * n + i \in 0..(C * n - 1)
<1>1. s * n + n <= C * n /\ s * n \in Nat /\ C * n \in Nat
  BY Multiples
<1> QED
  BY <1>1

-----------------------------------------------------------------------------
(* The inductive invariant.                                                *)

\* A checkpoint is of a buffer in memory.  With auto_save a checkpoint lists files
\* that it does not have, and a start from it may fail.
CheckpointsInMemory == \A c \in Configs : c.resume => ~c.auto

\* A buffer in memory has a cache, and a cache has room.  Without auto_save and
\* enable_cache trajectories are dropped, and a cache of no slots raises.
Built(c) == (~c.auto => c.enable) /\ (c.enable => CacheSize(c) > 0)
CachesBuilt == \A c \in Configs : Built(c)

Traj == [id : Nat, data : Int \ {Partial}, samples : Nat \ {0}]

\* Trajectories with ids that grow, below the next one.
Run(s, next) ==
  /\ s \in Seq(Traj) /\ next \in Nat
  /\ \A i, j \in 1..Len(s) : i < j => s[i].id < s[j].id
  /\ \A i \in 1..Len(s) : s[i].id < next

Size == Slots

\* The positions of the last n, and the slot of what was put d calls of put ago.
Recent(s, n) == (IF Len(s) > n THEN Len(s) - n + 1 ELSE 1)..Len(s)
Reach(s) == IF cfg.window = 0 THEN 1..Len(s) ELSE Recent(s, cfg.window)
Slot(last, d) == IF d <= last THEN last - d ELSE last - d + Size
SlotIn(c, s, j) == Slot(c.last, Len(s) + 1 - j)

\* A cache that holds the last trajectories of a sequence, and no others.
Cached(s) == {s[j].id : j \in Recent(s, Size)}
Shape(c) ==
  /\ c = [slotOf |-> c.slotOf, idAt |-> c.idAt, last |-> c.last, len |-> c.len,
          buf |-> c.buf, lens |-> c.lens]
  /\ c.len \in Nat /\ DOMAIN c.buf = 0..(Size * c.len - 1)
  /\ c.last \in Nat /\ (c.last < Size \/ c.last = 0)
Filled(c, s) ==
  /\ Len(s) < Size => c.last = Len(s)
  /\ DOMAIN c.slotOf = Cached(s) /\ DOMAIN c.lens = Cached(s)
  /\ DOMAIN c.idAt = 0..((IF Len(s) < Size THEN Len(s) ELSE Size) - 1)
At(c, slot, t) ==
  /\ c.slotOf[t.id] = slot /\ c.idAt[slot] = t.id
  /\ c.lens[t.id] = t.samples /\ t.samples <= c.len
  /\ \A i \in 0..(t.samples - 1) : c.buf[slot * c.len + i] = <<t.data, i>>
CacheOf(c, s) ==
  /\ Shape(c) /\ Filled(c, s)
  /\ \A j \in Recent(s, Size) : At(c, SlotIn(c, s, j), s[j])

\* The file of a trajectory in a directory is complete and its own.
Saved(dir, s, j) == s[j].id \in DOMAIN dir /\ dir[s[j].id] = s[j].data

\* Ids of trajectories are new when they are added, and those that were loaded are
\* below them.  Without auto_save nothing is submitted to the pool.
Types ==
  /\ cfg \in Configs /\ Built(cfg) /\ version \in Nat /\ added \in Nat
  /\ Run(trajs, counter)
  /\ loaded \subseteq 0..(counter - 1)
  /\ ~cfg.auto => writing = {} /\ flushes = <<>>

Main ==
  /\ main = [pc |-> main.pc, batch |-> main.batch]
  /\ main.pc \in {"new", "idle", "adding", "saving", "raised"}
  /\ main.batch \subseteq Ids(trajs) \ loaded
  /\ main.pc = "new" => /\ trajs = <<>> /\ counter = 0 /\ main.batch = {}
                        /\ writing = {} /\ flushes = <<>> /\ win.version = -1

\* The cached window is of an index that was, or is that of the index that is.
Windowed ==
  /\ win = [version |-> win.version, trajs |-> win.trajs]
  /\ win.version \in Int /\ win.version <= version
  /\ WindowRecent

\* With auto_save the file of a trajectory is where _load_trajectory looks for it:
\* in the directory that was loaded,
FromSource ==
  cfg.auto => \A i \in 1..Len(trajs) : trajs[i].id \in loaded => Saved(source, trajs, i)

\* or in auto_save_path, complete or being written.
Pending(t) == \E w \in writing : w.id = t.id /\ w.data = t.data
WrittenAt(i) ==
  trajs[i].id \notin loaded =>
    /\ trajs[i].id \in DOMAIN files => files[trajs[i].id] \in {Partial, trajs[i].data}
    /\ Pending(trajs[i]) \/ Saved(files, trajs, i)
Written ==
  cfg.auto => /\ DOMAIN files \subseteq 0..(counter - 1)
              /\ \A i \in 1..Len(trajs) : WrittenAt(i)

\* A save under way is of a trajectory in the index, and the only one.
Task(w) ==
  /\ w = [id |-> w.id, data |-> w.data, open |-> w.open]
  /\ w.id \notin loaded
  /\ \E i \in 1..Len(trajs) : trajs[i].id = w.id /\ trajs[i].data = w.data
  /\ \A v \in writing : v.id = w.id => v = w
Writes == \A w \in writing : Task(w)

\* A flush is of trajectories in the index.  Once it no longer waits their saves have
\* ended, and once it is done the index in the directory lists them.
FlushCall == [ids : SUBSET Nat, step : {"wait", "index", "done"}, seen : Seq(Traj)]
Flush(f) ==
  /\ f.ids \subseteq Ids(trajs) \ loaded
  /\ f.step # "wait" => SavesDone(f)
  /\ f.step = "done" => f.ids \subseteq Ids(disk.trajs)
Flushed ==
  /\ disk = [meta |-> disk.meta, trajs |-> disk.trajs]
  /\ flushes \in Seq(FlushCall)
  /\ \A k \in 1..Len(flushes) : Flush(flushes[k])

\* The directory of a checkpoint gets every trajectory of the window that the cache
\* of a buffer in memory holds, as it is in the index.
ToCopy(s, j) == \E x \in work.todo : x.id = s[j].id /\ x.data = s[j].data
Saving ==
  /\ work = [todo |-> work.todo, files |-> work.files, step |-> work.step]
  /\ main.pc = "saving" =>
       /\ ~cfg.auto
       /\ \A x \in work.todo : \E j \in 1..Len(trajs) : x.id = trajs[j].id /\ x.data = trajs[j].data
       /\ \A j \in Recent(trajs, Size) : Saved(work.files, trajs, j) \/ ToCopy(trajs, j)

\* The last whole checkpoint can be loaded.
Good ==
  /\ Run(good.trajs, good.counter)
  /\ good.trajs # <<>> => ~cfg.auto
  /\ \A j \in Recent(good.trajs, Size) : Saved(good.files, good.trajs, j)

IInv ==
  /\ Types /\ Main /\ Windowed /\ CacheOf(cache, trajs)
  /\ FromSource /\ Written /\ Writes /\ Flushed /\ Saving /\ Good

-----------------------------------------------------------------------------
(* The cache.                                                              *)

LEMMA ConfigFacts ==
  ASSUME cfg \in Configs
  PROVE  /\ Size \in Nat /\ cfg.window \in Nat /\ cfg.cache \in Nat /\ cfg.demo \in Nat
         /\ cfg.lengths \subseteq Nat \ {0}
         /\ Built(cfg) => /\ ~PutRaises
                          /\ ~cfg.auto => /\ Size = cfg.window /\ cfg.window > 0
                                          /\ cfg.enable
  BY BoundsAssumption DEF Size, Slots, CacheSize, Built, PutRaises

\* The slots of the last trajectories differ, and there are as many as they.
LEMMA SlotFacts ==
  ASSUME NEW last \in Nat, NEW C \in Nat, C = Size, last < C \/ last = 0,
         NEW d \in Nat \ {0}, d <= C
  PROVE  /\ Slot(last, d) \in 0..(C - 1)
         /\ \A e \in 1..C : Slot(last, e) = Slot(last, d) => e = d
  BY DEF Slot

\* Where a recent trajectory is.
LEMMA RecentSlot ==
  ASSUME NEW c, NEW s \in Seq(Traj), NEW C \in Nat, C = Size, Shape(c), NEW j \in Recent(s, Size)
  PROVE  /\ SlotIn(c, s, j) \in 0..(C - 1) /\ j \in 1..Len(s)
         /\ \A k \in Recent(s, Size) : SlotIn(c, s, k) = SlotIn(c, s, j) => k = j
<1>1. PICK n \in Nat : n = Len(s)
  OBVIOUS
<1>2. PICK last \in Nat : last = c.last /\ (last < C \/ last = 0)
  BY DEF Shape
<1>3. \A k \in Recent(s, Size) : k \in 1..n /\ n + 1 - k \in 1..C
  BY <1>1 DEF Recent
<1>4. \A k \in Recent(s, Size) : SlotIn(c, s, k) = Slot(last, n + 1 - k)
  BY <1>1, <1>2 DEF SlotIn
<1>5. \A k \in Recent(s, Size) : /\ Slot(last, n + 1 - k) \in 0..(C - 1)
                                 /\ Slot(last, n + 1 - k) = Slot(last, n + 1 - j) => k = j
  <2> TAKE k \in Recent(s, Size)
  <2>1. PICK d \in Nat \ {0} : d = n + 1 - j /\ d <= C
    BY <1>3
  <2>2. PICK e \in Nat \ {0} : e = n + 1 - k /\ e <= C
    BY <1>3
  <2>3. Slot(last, e) \in 0..(C - 1)
    BY <1>1, <1>2, <2>2, SlotFacts
  <2>4. \A x \in 1..C : Slot(last, x) = Slot(last, d) => x = d
    BY <1>1, <1>2, <2>1, SlotFacts
  <2> QED
    BY <1>3, <2>1, <2>2, <2>3, <2>4
<1> QED
  BY <1>1, <1>3, <1>4, <1>5

\* Growing the slots keeps what is in them.
LEMMA GrownKeeps ==
  ASSUME cfg \in Configs, NEW c, NEW s \in Seq(Traj), CacheOf(c, s), NEW n \in Nat \ {0}
  PROVE  CacheOf(Grown(c, n), s) /\ n <= Grown(c, n).len
<1>1. PICK C \in Nat : C = Size
  BY ConfigFacts
<1>2. PICK l \in Nat : l = c.len
  BY DEF CacheOf, Shape
<1>3. CASE n <= l
  <2>1. Grown(c, n) = c
    BY <1>2, <1>3 DEF Grown
  <2> QED
    BY <1>2, <1>3, <2>1
<1>4. CASE l < n
  <2> DEFINE held(p) == IF (p \div n) \in Range(c.slotOf) /\ (p % n) < l
                        THEN c.buf[(p \div n) * l + (p % n)] ELSE Garbage
             g == [slotOf |-> c.slotOf, idAt |-> c.idAt, last |-> c.last, len |-> n,
                   buf |-> [p \in 0..(C * n - 1) |-> held(p)], lens |-> c.lens]
  <2>1. Grown(c, n) = g
    <3>1. Grown(c, n) = [c EXCEPT !.len = n, !.buf = [p \in 0..(C * n - 1) |-> held(p)]]
      BY <1>1, <1>2, <1>4 DEF Grown, Size
    <3> HIDE DEF held
    <3>2. c = [slotOf |-> c.slotOf, idAt |-> c.idAt, last |-> c.last, len |-> c.len,
               buf |-> c.buf, lens |-> c.lens]
      BY DEF CacheOf, Shape
    <3> QED
      BY <3>1, <3>2
  <2>2. /\ g.slotOf = c.slotOf /\ g.idAt = c.idAt /\ g.last = c.last /\ g.len = n /\ g.lens = c.lens
        /\ DOMAIN g.buf = 0..(C * n - 1)
        /\ \A p \in 0..(C * n - 1) : g.buf[p] = held(p)
        /\ g = [slotOf |-> g.slotOf, idAt |-> g.idAt, last |-> g.last, len |-> g.len,
                buf |-> g.buf, lens |-> g.lens]
    <3> HIDE DEF held
    <3> QED
      OBVIOUS
  <2> HIDE DEF g
  <2>3. Shape(g) /\ Filled(g, s)
    BY <1>1, <2>2 DEF CacheOf, Shape, Filled
  <2>4. ASSUME NEW j \in Recent(s, Size) PROVE At(g, SlotIn(g, s, j), s[j])
    <3>1. SlotIn(g, s, j) = SlotIn(c, s, j)
      BY <2>2 DEF SlotIn
    <3>2. PICK k \in 0..(C - 1) : k = SlotIn(c, s, j)
      BY <1>1, RecentSlot DEF CacheOf
    <3>3. j \in 1..Len(s)
      BY <1>1, RecentSlot DEF CacheOf
    <3>4. PICK m \in Nat \ {0} : m = s[j].samples
      <4>1. s[j] \in Traj
        BY <3>3
      <4> QED
        BY <4>1 DEF Traj
    <3>5. At(c, k, s[j])
      BY <3>2 DEF CacheOf
    <3>6. s[j].id \in DOMAIN c.slotOf
      BY DEF CacheOf, Filled, Cached
    <3>7. m <= l /\ c.slotOf[s[j].id] = k
      BY <1>2, <3>4, <3>5 DEF At
    <3>8. k \in Range(c.slotOf)
      BY <3>6, <3>7 DEF Range
    <3>9. ASSUME NEW i \in 0..(m - 1) PROVE g.buf[k * n + i] = <<s[j].data, i>>
      <4>1. i < n /\ i \in Nat /\ k \in Nat /\ k < C /\ i < l
        BY <1>4, <3>7
      <4>2. k * n + i \in 0..(C * n - 1)
        BY <4>1, InBuffer
      <4>3. (k * n + i) \div n = k /\ (k * n + i) % n = i
        BY <4>1, DivMod
      <4>4. held(k * n + i) = c.buf[k * l + i]
        BY <3>8, <4>1, <4>3
      <4>5. c.buf[k * l + i] = <<s[j].data, i>>
        BY <1>2, <3>4, <3>5 DEF At
      <4> QED
        BY <2>2, <4>2, <4>4, <4>5
    <3>10. \A i \in 0..(m - 1) : g.buf[k * n + i] = <<s[j].data, i>>
      BY <3>9
    <3>11. g.slotOf[s[j].id] = k /\ g.idAt[k] = s[j].id /\ g.lens[s[j].id] = m
      BY <2>2, <3>4, <3>5 DEF At
    <3>12. g.len = n /\ m <= n
      BY <1>4, <2>2, <3>7
    <3>13. At(g, k, s[j])
      BY <3>4, <3>10, <3>11, <3>12 DEF At
    <3> QED
      BY <3>1, <3>2, <3>13
  <2> QED
    BY <1>4, <2>1, <2>2, <2>3, <2>4 DEF CacheOf
<1> QED
  BY <1>2, <1>3, <1>4

\* The slot after the next put, and the slots of what is in the cache seen from there.
LEMMA NextSlotFacts ==
  ASSUME NEW C \in Nat \ {0}, C = Size, NEW last \in 0..(C - 1)
  PROVE  /\ NextSlot(last) = IF last + 1 = C THEN 0 ELSE last + 1
         /\ Slot(NextSlot(last), 1) = last
         /\ \A d \in 1..(C - 1) : Slot(NextSlot(last), d + 1) = Slot(last, d)
<1>1. (last + 1) % C = IF last + 1 = C THEN 0 ELSE last + 1
  OBVIOUS
<1>2. NextSlot(last) = IF last + 1 = C THEN 0 ELSE last + 1
  BY <1>1 DEF NextSlot, Size
<1>3. PICK x \in Nat : x = NextSlot(last)
  BY <1>2
<1> QED
  BY <1>2, <1>3 DEF Slot

\* What a put gives, when the slots are large enough.
Evicted(c) == IF c.last \in DOMAIN c.idAt THEN {c.idAt[c.last]} ELSE {}
Keys(c, t) == (DOMAIN c.slotOf \ Evicted(c)) \cup {t.id}
PutIn(c, t) ==
  [slotOf |-> [i \in Keys(c, t) |-> IF i = t.id THEN c.last ELSE c.slotOf[i]],
   idAt |-> Put(c.idAt, c.last, t.id),
   last |-> NextSlot(c.last), len |-> c.len,
   buf |-> [p \in DOMAIN c.buf |->
              IF p \in (c.last * c.len)..(c.last * c.len + t.samples - 1)
              THEN <<t.data, p - c.last * c.len>> ELSE c.buf[p]],
   lens |-> [i \in Keys(c, t) |-> IF i = t.id THEN t.samples ELSE c.lens[i]]]

LEMMA CachePutIs ==
  ASSUME NEW c, NEW t, NEW g, g = Grown(c, t.samples), Shape(g)
  PROVE  CachePut(c, t) = PutIn(g, t)
<1>1. g = [slotOf |-> g.slotOf, idAt |-> g.idAt, last |-> g.last, len |-> g.len,
           buf |-> g.buf, lens |-> g.lens]
  BY DEF Shape
<1> DEFINE ids == Put(g.idAt, g.last, t.id)
           slots == [i \in Keys(g, t) |-> IF i = t.id THEN g.last ELSE g.slotOf[i]]
           lengths == [i \in Keys(g, t) |-> IF i = t.id THEN t.samples ELSE g.lens[i]]
           samples == [p \in DOMAIN g.buf |->
              IF p \in (g.last * g.len)..(g.last * g.len + t.samples - 1)
              THEN <<t.data, p - g.last * g.len>> ELSE g.buf[p]]
<1>2. CachePut(c, t) = [g EXCEPT !.idAt = ids, !.slotOf = slots, !.lens = lengths,
                                 !.last = NextSlot(g.last), !.buf = samples]
  BY <1>1 DEF CachePut, Keys, Evicted
<1>3. PutIn(g, t) = [slotOf |-> slots, idAt |-> ids, last |-> NextSlot(g.last), len |-> g.len,
                     buf |-> samples, lens |-> lengths]
  BY DEF PutIn
<1> HIDE DEF ids, slots, lengths, samples
<1> QED
  BY <1>1, <1>2, <1>3

\* A put adds its trajectory and takes the oldest one out when the cache is full.
LEMMA KeysIs ==
  ASSUME NEW c, NEW s, NEW t \in Traj, NEW C \in Nat \ {0}, C = Size,
         Run(s, t.id), CacheOf(c, s)
  PROVE  Keys(c, t) = Cached(Append(s, t))
<1>1. PICK n \in Nat : n = Len(s) /\ s \in Seq(Traj)
  BY DEF Run
<1>2. PICK last \in Nat : last = c.last /\ last < C
  BY DEF CacheOf, Shape
<1>3. /\ Len(Append(s, t)) = n + 1 /\ Append(s, t)[n + 1] = t
      /\ \A j \in 1..n : Append(s, t)[j] = s[j]
  BY <1>1
<1> DEFINE r == Append(s, t)
<1> HIDE DEF r
<1>4. /\ Len(r) = n + 1 /\ r[n + 1] = t /\ \A j \in 1..n : r[j] = s[j]
  BY <1>3 DEF r
<1>5. DOMAIN c.slotOf = {s[j].id : j \in Recent(s, C)}
  BY DEF CacheOf, Filled, Cached
<1>6. CASE n < C
  <2>1. c.last \notin DOMAIN c.idAt
    BY <1>1, <1>2, <1>6 DEF CacheOf, Filled
  <2>2. Keys(c, t) = {s[j].id : j \in Recent(s, C)} \cup {t.id}
    BY <1>5, <2>1 DEF Keys, Evicted
  <2>3. Recent(s, C) = 1..n /\ Recent(r, C) = 1..(n + 1)
    BY <1>1, <1>4, <1>6 DEF Recent
  <2>4. {r[j].id : j \in 1..(n + 1)} = {s[j].id : j \in 1..n} \cup {t.id}
    <3>1. \A j \in 1..(n + 1) : j \in 1..n \/ j = n + 1
      OBVIOUS
    <3>2. \A j \in 1..n : j \in 1..(n + 1)
      OBVIOUS
    <3>3. n + 1 \in 1..(n + 1)
      OBVIOUS
    <3> QED
      BY <1>4, <3>1, <3>2, <3>3
  <2> QED
    BY <2>2, <2>3, <2>4 DEF Cached, r
<1>7. CASE C <= n
  <2>1. PICK e \in 1..n : e = n + 1 - C
    BY <1>7
  <2>2. Recent(s, C) = e..n /\ Recent(r, C) = (e + 1)..(n + 1)
    BY <1>1, <1>4, <1>7, <2>1 DEF Recent
  <2>3. SlotIn(c, s, e) = last
    <3>1. Slot(last, C) = last
      BY <1>2 DEF Slot
    <3> QED
      BY <1>1, <1>2, <2>1, <3>1 DEF SlotIn
  <2>4. c.idAt[last] = s[e].id
    <3>1. e \in Recent(s, Size)
      BY <2>1, <2>2
    <3>2. At(c, last, s[e])
      BY <2>3, <3>1 DEF CacheOf
    <3> QED
      BY <3>2 DEF At
  <2>5. Evicted(c) = {s[e].id}
    <3>1. last \in DOMAIN c.idAt
      BY <1>1, <1>2, <1>7 DEF CacheOf, Filled
    <3> QED
      BY <1>2, <2>4, <3>1 DEF Evicted
  <2>6. Keys(c, t) = ({s[j].id : j \in e..n} \ {s[e].id}) \cup {t.id}
    BY <1>5, <2>2, <2>5 DEF Keys
  <2>7. {s[j].id : j \in e..n} \ {s[e].id} = {s[j].id : j \in (e + 1)..n}
    <3>1. \A j \in (e + 1)..n : s[j].id # s[e].id
      <4> TAKE j \in (e + 1)..n
      <4>1. j \in 1..n /\ e < j
        BY <2>1
      <4>2. s[e] \in Traj /\ s[j] \in Traj
        BY <1>1, <4>1
      <4>3. s[e].id < s[j].id
        BY <1>1, <4>1 DEF Run
      <4> QED
        BY <4>2, <4>3 DEF Traj
    <3>2. \A j \in e..n : j = e \/ j \in (e + 1)..n
      OBVIOUS
    <3>3. \A j \in (e + 1)..n : j \in e..n
      OBVIOUS
    <3> QED
      BY <3>1, <3>2, <3>3
  <2>8. {r[j].id : j \in (e + 1)..(n + 1)} = {s[j].id : j \in (e + 1)..n} \cup {t.id}
    <3>1. \A j \in (e + 1)..(n + 1) : j \in (e + 1)..n \/ j = n + 1
      OBVIOUS
    <3>2. \A j \in (e + 1)..n : j \in (e + 1)..(n + 1) /\ j \in 1..n
      OBVIOUS
    <3>3. n + 1 \in (e + 1)..(n + 1)
      OBVIOUS
    <3> QED
      BY <1>4, <3>1, <3>2, <3>3
  <2> QED
    BY <2>2, <2>6, <2>7, <2>8 DEF Cached, r
<1> QED
  BY <1>6, <1>7

\* A put into slots that are large enough.
LEMMA PutInKeeps ==
  ASSUME NEW c, NEW s, NEW t \in Traj, NEW C \in Nat \ {0}, C = Size,
         Run(s, t.id), CacheOf(c, s), t.samples <= c.len
  PROVE  CacheOf(PutIn(c, t), Append(s, t))
<1>1. PICK n \in Nat : n = Len(s) /\ s \in Seq(Traj)
  BY DEF Run
<1>2. PICK last \in 0..(C - 1) : last = c.last
  BY DEF CacheOf, Shape
<1>3. PICK l \in Nat : l = c.len
  BY DEF CacheOf, Shape
<1>4. PICK m \in Nat \ {0} : m = t.samples /\ m <= l
  BY <1>3 DEF Traj
<1> DEFINE r == Append(s, t)
           g == PutIn(c, t)
<1>5. Len(r) = n + 1 /\ r[n + 1] = t /\ \A j \in 1..n : r[j] = s[j]
  BY <1>1
<1>6. /\ g.slotOf = [i \in Keys(c, t) |-> IF i = t.id THEN last ELSE c.slotOf[i]]
      /\ g.idAt = Put(c.idAt, last, t.id)
      /\ g.last = NextSlot(last) /\ g.len = l
      /\ g.buf = [p \in 0..(C * l - 1) |-> IF p \in (last * l)..(last * l + m - 1)
                                          THEN <<t.data, p - last * l>> ELSE c.buf[p]]
      /\ g.lens = [i \in Keys(c, t) |-> IF i = t.id THEN m ELSE c.lens[i]]
      /\ g = [slotOf |-> g.slotOf, idAt |-> g.idAt, last |-> g.last, len |-> g.len,
              buf |-> g.buf, lens |-> g.lens]
  <2>1. DOMAIN c.buf = 0..(C * l - 1)
    BY <1>3 DEF CacheOf, Shape
  <2> QED
    BY <1>2, <1>3, <1>4, <2>1 DEF PutIn
<1> HIDE DEF r, g
<1>7. Keys(c, t) = Cached(r)
  BY KeysIs DEF r
<1>8. PICK next \in Nat : /\ next = NextSlot(last) /\ next < C
                          /\ next = IF last + 1 = C THEN 0 ELSE last + 1
                          /\ Slot(next, 1) = last
                          /\ \A d \in 1..(C - 1) : Slot(next, d + 1) = Slot(last, d)
  <2>1. NextSlot(last) = IF last + 1 = C THEN 0 ELSE last + 1
    BY NextSlotFacts
  <2>2. NextSlot(last) \in Nat /\ NextSlot(last) < C
    BY <2>1
  <2> QED
    BY <2>1, <2>2, NextSlotFacts
<1>9. Shape(g)
  BY <1>6, <1>8 DEF Shape
<1>10. Filled(g, r)
  <2>1. DOMAIN g.slotOf = Cached(r) /\ DOMAIN g.lens = Cached(r)
    BY <1>6, <1>7
  <2>2. n + 1 < C => next = n + 1
    <3>1. n < C => last = n
      BY <1>1, <1>2 DEF CacheOf, Filled
    <3> QED
      BY <1>8, <3>1
  <2>3. DOMAIN g.idAt = 0..((IF n + 1 < C THEN n + 1 ELSE C) - 1)
    <3>1. DOMAIN g.idAt = DOMAIN c.idAt \cup {last}
      BY <1>6 DEF Put
    <3>2. DOMAIN c.idAt = 0..((IF n < C THEN n ELSE C) - 1)
      BY <1>1 DEF CacheOf, Filled
    <3>3. n < C => last = n
      BY <1>1, <1>2 DEF CacheOf, Filled
    <3> QED
      BY <3>1, <3>2, <3>3
  <2> QED
    BY <1>5, <1>6, <1>8, <2>1, <2>2, <2>3 DEF Filled
<1>11. At(g, last, t)
  <2>1. t.id \in Keys(c, t)
    BY DEF Keys
  <2>2. g.slotOf[t.id] = last /\ g.lens[t.id] = m
    BY <1>6, <2>1
  <2>3. g.idAt[last] = t.id
    BY <1>6 DEF Put
  <2>4. ASSUME NEW i \in 0..(m - 1) PROVE g.buf[last * l + i] = <<t.data, i>>
    <3>1. last * l + i \in 0..(C * l - 1)
      BY <1>4, InBuffer
    <3>2. PICK b \in Nat : b = last * l
      OBVIOUS
    <3>3. b + i \in b..(b + m - 1) /\ (b + i) - b = i
      OBVIOUS
    <3> QED
      BY <1>6, <3>1, <3>2, <3>3
  <2>5. \A i \in 0..(m - 1) : g.buf[last * l + i] = <<t.data, i>>
    BY <2>4
  <2> QED
    BY <1>4, <1>6, <2>2, <2>3, <2>5 DEF At
<1>12. ASSUME NEW j \in 1..n, n + 2 - C <= j
       PROVE  At(g, SlotIn(c, s, j), s[j])
  <2>1. j \in Recent(s, Size)
    BY <1>1, <1>12 DEF Recent
  <2>2. PICK k \in 0..(C - 1) : k = SlotIn(c, s, j)
    BY <1>1, <2>1, RecentSlot DEF CacheOf
  <2>3. k # last
    <3>1. PICK d \in Nat \ {0} : d = n + 1 - j /\ d < C
      BY <1>12
    <3>2. k = Slot(last, d)
      BY <1>1, <1>2, <2>2, <3>1 DEF SlotIn
    <3> QED
      BY <3>1, <3>2 DEF Slot
  <2>4. At(c, k, s[j])
    BY <2>1, <2>2 DEF CacheOf
  <2>5. PICK q \in Nat \ {0} : q = s[j].samples /\ q <= l
    <3>1. s[j] \in Traj
      BY <1>1
    <3> QED
      BY <1>3, <2>4, <3>1 DEF At, Traj
  <2>6. s[j].id # t.id
    <3>1. s[j] \in Traj /\ s[j].id < t.id
      BY <1>1 DEF Run
    <3> QED
      BY <3>1 DEF Traj
  <2>7. s[j].id \in Keys(c, t)
    <3>1. j \in Recent(r, Size) /\ r[j] = s[j]
      BY <1>5, <1>12 DEF Recent
    <3> QED
      BY <1>7, <3>1 DEF Cached
  <2>8. g.slotOf[s[j].id] = k /\ g.lens[s[j].id] = q
    BY <1>6, <2>4, <2>5, <2>6, <2>7 DEF At
  <2>9. g.idAt[k] = s[j].id
    <3>1. k \in DOMAIN c.idAt
      <4>1. PICK d \in Nat \ {0} : d = n + 1 - j /\ d < C
        BY <1>12
      <4>2. k = Slot(last, d)
        BY <1>1, <1>2, <2>2, <4>1 DEF SlotIn
      <4>3. n < C => last = n
        BY <1>1, <1>2 DEF CacheOf, Filled
      <4>4. n < C => k < n
        BY <4>1, <4>2, <4>3 DEF Slot
      <4>5. DOMAIN c.idAt = 0..((IF n < C THEN n ELSE C) - 1)
        BY <1>1 DEF CacheOf, Filled
      <4> QED
        BY <4>4, <4>5
    <3> QED
      BY <1>6, <2>3, <2>4, <3>1 DEF Put, At
  <2>10. ASSUME NEW i \in 0..(q - 1) PROVE g.buf[k * l + i] = <<s[j].data, i>>
    <3>1. k * l + i \in 0..(C * l - 1)
      BY <2>5, InBuffer
    <3>2. k * l + i \notin (last * l)..(last * l + m - 1)
      <4> SUFFICES ASSUME k * l + i \in (last * l)..(last * l + m - 1) PROVE FALSE
        OBVIOUS
      <4>1. PICK a \in Nat, b \in Nat : a = k * l /\ b = last * l
        OBVIOUS
      <4>2. PICK h \in Nat : h = a + i - b /\ h < m
        BY <4>1
      <4>3. k * l + i = last * l + h
        BY <4>1, <4>2
      <4>4. h < l /\ i < l
        BY <1>4, <2>5, <4>2
      <4> QED
        BY <2>3, <4>3, <4>4, Strides
    <3>3. c.buf[k * l + i] = <<s[j].data, i>>
      BY <1>3, <2>4, <2>5 DEF At
    <3> QED
      BY <1>6, <3>1, <3>2, <3>3
  <2>11. \A i \in 0..(q - 1) : g.buf[k * l + i] = <<s[j].data, i>>
    BY <2>10
  <2> QED
    BY <1>6, <2>2, <2>5, <2>8, <2>9, <2>11 DEF At
<1>13. ASSUME NEW j \in Recent(r, Size) PROVE At(g, SlotIn(g, r, j), r[j])
  <2>1. CASE j = n + 1
    <3>1. SlotIn(g, r, j) = last
      BY <1>5, <1>6, <1>8, <2>1 DEF SlotIn
    <3> QED
      BY <1>5, <1>11, <2>1, <3>1
  <2>2. CASE j # n + 1
    <3>1. j \in 1..n /\ n + 2 - C <= j
      BY <1>5, <2>2 DEF Recent
    <3>2. PICK d \in 1..(C - 1) : d = n + 1 - j
      BY <3>1
    <3>3. SlotIn(g, r, j) = Slot(next, d + 1)
      BY <1>5, <1>6, <1>8, <3>1, <3>2 DEF SlotIn
    <3>4. SlotIn(c, s, j) = Slot(last, d)
      BY <1>1, <1>2, <3>2 DEF SlotIn
    <3> QED
      BY <1>5, <1>8, <1>12, <3>1, <3>3, <3>4
  <2> QED
    BY <2>1, <2>2
<1> QED
  BY <1>9, <1>10, <1>13 DEF CacheOf, r, g

\* A put keeps the most recent trajectories, whole.
LEMMA PutKeeps ==
  ASSUME cfg \in Configs, NEW c, NEW s, NEW t \in Traj, Size # 0, Run(s, t.id), CacheOf(c, s)
  PROVE  CacheOf(CachePut(c, t), Append(s, t))
<1>1. PICK C \in Nat \ {0} : C = Size
  BY ConfigFacts
<1>2. t.samples \in Nat \ {0}
  BY DEF Traj
<1>3. PICK g : g = Grown(c, t.samples)
  OBVIOUS
<1>4. s \in Seq(Traj)
  BY DEF Run
<1>5. CacheOf(g, s) /\ t.samples <= g.len
  BY <1>2, <1>3, <1>4, GrownKeeps
<1>6. CachePut(c, t) = PutIn(g, t)
  BY <1>3, <1>5, CachePutIs DEF CacheOf
<1> QED
  BY <1>1, <1>5, <1>6, PutInKeeps

\* An empty cache holds no trajectories.
LEMMA EmptyHolds == cfg \in Configs => CacheOf(EmptyCache, <<>>)
<1> SUFFICES ASSUME cfg \in Configs PROVE CacheOf(EmptyCache, <<>>)
  OBVIOUS
<1>1. PICK C \in Nat : C = Size
  BY ConfigFacts
<1>2. Recent(<<>>, Size) = {}
  BY <1>1 DEF Recent
<1>3. Shape(EmptyCache)
  BY <1>1 DEF Shape, EmptyCache, NoFiles
<1>4. Filled(EmptyCache, <<>>)
  BY <1>1, <1>2 DEF Filled, Cached, EmptyCache, NoFiles
<1> QED
  BY <1>2, <1>3, <1>4 DEF CacheOf

\* What FoldLeft is defined by: a function on the sets of positions.
Folded(r, k, f) ==
  [S \in SUBSET (1..k) |->
     IF S = {} THEN EmptyCache ELSE CachePut(f[S \ {Max(S)}], r[Max(S)])]

LEMMA FoldExists ==
  ASSUME NEW r
  PROVE  \A n \in Nat : \E f : f = Folded(r, n, f)
<1> DEFINE T == {n \in Nat : \E f : f = Folded(r, n, f)}
<1>1. 0 \in T
  <2> DEFINE f == [S \in {{}} |-> EmptyCache]
  <2>1. SUBSET (1..0) = {{}}
    OBVIOUS
  <2>2. f = Folded(r, 0, f)
    BY <2>1 DEF Folded
  <2> QED
    BY <2>2
<1>2. ASSUME NEW n \in T PROVE n + 1 \in T
  <2>1. PICK f : f = Folded(r, n, f)
    OBVIOUS
  <2> DEFINE g == [S \in SUBSET (1..(n + 1)) |->
                     IF n + 1 \in S THEN CachePut(f[S \ {n + 1}], r[n + 1]) ELSE f[S]]
             val(S) == IF S = {} THEN EmptyCache ELSE CachePut(g[S \ {Max(S)}], r[Max(S)])
  <2>2. \A S \in SUBSET (1..n) : S \in SUBSET (1..(n + 1)) /\ n + 1 \notin S /\ g[S] = f[S]
    OBVIOUS
  <2>3. \A S \in SUBSET (1..n) :
          f[S] = IF S = {} THEN EmptyCache ELSE CachePut(f[S \ {Max(S)}], r[Max(S)])
    <3> TAKE S \in SUBSET (1..n)
    <3>1. Folded(r, n, f)[S] = IF S = {} THEN EmptyCache ELSE CachePut(f[S \ {Max(S)}], r[Max(S)])
      BY DEF Folded
    <3> QED
      BY <2>1, <3>1
  <2>4. ASSUME NEW S \in SUBSET (1..(n + 1)) PROVE g[S] = val(S)
    <3>1. CASE n + 1 \in S
      <4>1. Max(S) = n + 1
        <5>1. S \in SUBSET Int /\ n + 1 \in S /\ \A y \in S : n + 1 >= y
          BY <3>1
        <5> QED
          BY <5>1, MaxIs
      <4>2. S \ {n + 1} \in SUBSET (1..n)
        OBVIOUS
      <4>3. g[S \ {n + 1}] = f[S \ {n + 1}]
        BY <2>2, <4>2
      <4>4. g[S] = CachePut(f[S \ {n + 1}], r[n + 1])
        BY <3>1
      <4> HIDE DEF g
      <4> QED
        BY <3>1, <4>1, <4>3, <4>4
    <3>2. CASE n + 1 \notin S
      <4>1. S \in SUBSET (1..n)
        BY <3>2
      <4>2. S \ {Max(S)} \in SUBSET (1..n)
        BY <4>1
      <4>3. g[S] = f[S] /\ g[S \ {Max(S)}] = f[S \ {Max(S)}]
        BY <2>2, <4>1, <4>2
      <4> HIDE DEF g
      <4> QED
        BY <2>3, <4>1, <4>3
    <3> QED
      BY <3>1, <3>2
  <2>5. DOMAIN g = SUBSET (1..(n + 1)) /\ g = [S \in SUBSET (1..(n + 1)) |-> g[S]]
    OBVIOUS
  <2>6. g = Folded(r, n + 1, g)
    <3> HIDE DEF g
    <3>1. Folded(r, n + 1, g) = [S \in SUBSET (1..(n + 1)) |-> val(S)]
      BY DEF Folded
    <3> QED
      BY <2>4, <2>5, <3>1
  <2> QED
    BY <2>6
<1>3. T = Nat
  <2> HIDE DEF T
  <2>1. T \in SUBSET Nat
    BY DEF T
  <2> QED
    BY <1>1, <1>2, <2>1, Induct
<1> QED
  BY <1>3

\* The cache that loading fills holds what was read.
LEMMA FoldHolds ==
  ASSUME cfg \in Configs, NEW r, NEW next, Run(r, next), Size # 0 \/ r = <<>>
  PROVE  CacheOf(FoldLeft(CachePut, EmptyCache, r), r)
<1>1. PICK n \in Nat : n = Len(r) /\ r \in Seq(Traj)
  BY DEF Run
<1> DEFINE total == CHOOSE f : f = Folded(r, n, f)
           prefix(k) == SubSeq(r, 1, k)
           T == {k \in Nat : k <= n => CacheOf(total[1..k], prefix(k))}
<1>2. FoldLeft(CachePut, EmptyCache, r) = total[1..n]
  <2>1. DOMAIN r = 1..n
    BY <1>1
  <2> QED
    BY <2>1 DEF FoldLeft, MapThenFoldSet, Folded
<1>3. total = Folded(r, n, total)
  BY FoldExists
<1> HIDE DEF total
<1>4. \A S \in SUBSET (1..n) :
        total[S] = IF S = {} THEN EmptyCache ELSE CachePut(total[S \ {Max(S)}], r[Max(S)])
  <2> TAKE S \in SUBSET (1..n)
  <2>1. Folded(r, n, total)[S]
          = IF S = {} THEN EmptyCache ELSE CachePut(total[S \ {Max(S)}], r[Max(S)])
    BY DEF Folded
  <2> QED
    BY <1>3, <2>1
<1>5. 0 \in T
  <2>1. 1..0 = {} /\ {} \in SUBSET (1..n)
    OBVIOUS
  <2>2. total[1..0] = EmptyCache
    BY <1>4, <2>1
  <2>3. prefix(0) = <<>>
    BY <1>1
  <2> QED
    BY <2>2, <2>3, EmptyHolds
<1>6. ASSUME NEW k \in T PROVE k + 1 \in T
  <2> SUFFICES ASSUME k + 1 <= n PROVE CacheOf(total[1..(k + 1)], prefix(k + 1))
    OBVIOUS
  <2>1. k \in Nat /\ k + 1 \in 1..n
    OBVIOUS
  <2>2. CacheOf(total[1..k], prefix(k))
    BY <2>1
  <2>3. PICK t \in Traj : t = r[k + 1]
    BY <1>1, <2>1
  <2>4. total[1..(k + 1)] = CachePut(total[1..k], t)
    <3>1. 1..(k + 1) \in SUBSET (1..n) /\ 1..(k + 1) # {} /\ (1..(k + 1)) \ {k + 1} = 1..k
      <4>1. \A i \in 1..(k + 1) : i \in 1..n /\ (i = k + 1 \/ i \in 1..k)
        BY <2>1
      <4>2. \A i \in 1..k : i \in 1..(k + 1) /\ i # k + 1
        BY <2>1
      <4>3. k + 1 \in 1..(k + 1)
        BY <2>1
      <4> QED
        BY <4>1, <4>2, <4>3
    <3>2. Max(1..(k + 1)) = k + 1
      <4>1. 1..(k + 1) \in SUBSET Int /\ k + 1 \in 1..(k + 1) /\ \A y \in 1..(k + 1) : k + 1 >= y
        BY <2>1
      <4> QED
        BY <4>1, MaxIs
    <3> QED
      BY <1>4, <2>3, <3>1, <3>2
  <2>5. prefix(k + 1) = Append(prefix(k), t)
    BY <1>1, <2>1, <2>3
  <2>6. Run(prefix(k), t.id)
    <3>1. prefix(k) \in Seq(Traj) /\ Len(prefix(k)) = k /\ \A i \in 1..k : prefix(k)[i] = r[i]
      BY <1>1, <2>1
    <3>2. t.id \in Nat
      BY DEF Traj
    <3>3. \A i \in 1..k : i \in 1..n /\ i < k + 1
      BY <2>1
    <3>4. \A i \in 1..k : r[i].id < t.id
      BY <1>1, <2>1, <2>3, <3>3 DEF Run
    <3>5. \A i, j \in 1..k : i < j => r[i].id < r[j].id
      BY <1>1, <3>3 DEF Run
    <3> HIDE DEF prefix
    <3> QED
      BY <3>1, <3>2, <3>4, <3>5 DEF Run
  <2> HIDE DEF prefix
  <2>7. CacheOf(CachePut(total[1..k], t), Append(prefix(k), t))
    <3>1. PICK c, s : c = total[1..k] /\ s = prefix(k)
      OBVIOUS
    <3> QED
      BY <1>1, <2>1, <2>2, <2>6, <3>1, PutKeeps
  <2> QED
    BY <2>4, <2>5, <2>7
<1>7. T = Nat
  <2> HIDE DEF T
  <2>1. T \in SUBSET Nat
    BY DEF T
  <2> QED
    BY <1>5, <1>6, <2>1, Induct
<1>8. CacheOf(total[1..n], prefix(n))
  BY <1>7
<1>9. prefix(n) = r
  BY <1>1
<1> QED
  BY <1>2, <1>8, <1>9

-----------------------------------------------------------------------------
(* Loading a directory.                                                    *)

\* The last trajectories, as a sequence.
LEMMA LastNFacts ==
  ASSUME NEW s \in Seq(Traj), NEW n \in Nat
  PROVE  /\ LastN(s, n) \in Seq(Traj)
         /\ Len(LastN(s, n)) = IF Len(s) > n THEN n ELSE Len(s)
         /\ \A i \in 1..Len(LastN(s, n)) :
              LastN(s, n)[i] = s[i + (IF Len(s) > n THEN Len(s) - n ELSE 0)]
<1>1. PICK m \in Nat : m = Len(s)
  OBVIOUS
<1>2. PICK a \in Nat \ {0} : a = (IF m > n THEN m - n + 1 ELSE 1) /\ a <= m + 1
  <2>1. (IF m > n THEN m - n + 1 ELSE 1) \in Nat \ {0} /\ (IF m > n THEN m - n + 1 ELSE 1) <= m + 1
    OBVIOUS
  <2> QED
    BY <2>1
<1>3. LastN(s, n) = SubSeq(s, a, m)
  BY <1>1, <1>2 DEF LastN
<1>4. /\ SubSeq(s, a, m) \in Seq(Traj) /\ Len(SubSeq(s, a, m)) = m + 1 - a
      /\ \A i \in 1..(m + 1 - a) : SubSeq(s, a, m)[i] = s[i + a - 1]
  <2>1. \A i \in a..m : s[i] \in Traj
    BY <1>1, <1>2
  <2>2. a \in Int /\ m \in Int
    OBVIOUS
  <2>3. /\ SubSeq(s, a, m) \in Seq(Traj)
        /\ Len(SubSeq(s, a, m)) = IF a <= m THEN m - a + 1 ELSE 0
        /\ \A i \in 1..(m - a + 1) : SubSeq(s, a, m)[i] = s[a + i - 1]
    BY <2>1, <2>2, SubSeqProperties
  <2>4. m - a + 1 = m + 1 - a /\ (IF a <= m THEN m - a + 1 ELSE 0) = m + 1 - a
    BY <1>2
  <2>5. \A i \in 1..(m + 1 - a) : a + i - 1 = i + a - 1
    OBVIOUS
  <2> QED
    BY <2>3, <2>4, <2>5
<1>5. m + 1 - a = IF m > n THEN n ELSE m
  BY <1>2
<1>6. a - 1 = IF m > n THEN m - n ELSE 0
  BY <1>2
<1>7. \A i \in 1..(m + 1 - a) : i + a - 1 = i + (IF m > n THEN m - n ELSE 0)
  BY <1>6
<1> QED
  BY <1>1, <1>3, <1>4, <1>5, <1>7

\* The trajectories of the last ones are the recent ones.
LEMMA LastNRecent ==
  ASSUME NEW s \in Seq(Traj), NEW n \in Nat
  PROVE  /\ \A i \in 1..Len(LastN(s, n)) : \E j \in Recent(s, n) : LastN(s, n)[i] = s[j]
         /\ \A j \in Recent(s, n) : \E i \in 1..Len(LastN(s, n)) : LastN(s, n)[i] = s[j]
<1>1. PICK m \in Nat : m = Len(s)
  OBVIOUS
<1>2. PICK k \in Nat : k = IF m > n THEN m - n ELSE 0
  <2>1. m > n => m - n \in Nat
    OBVIOUS
  <2> QED
    BY <2>1
<1>3. PICK l \in Nat : l = Len(LastN(s, n)) /\ l + k = m
  BY <1>1, <1>2, LastNFacts
<1>4. \A i \in 1..l : LastN(s, n)[i] = s[i + k]
  BY <1>1, <1>2, <1>3, LastNFacts
<1>5. Recent(s, n) = (k + 1)..m
  BY <1>1, <1>2 DEF Recent
<1>6. \A i \in 1..l : i + k \in (k + 1)..m
  BY <1>3
<1>7. \A j \in (k + 1)..m : j - k \in 1..l /\ (j - k) + k = j
  BY <1>3
<1> QED
  BY <1>3, <1>4, <1>5, <1>6, <1>7

\* A cache that holds the last trajectories by themselves holds them at the end of
\* the whole sequence.
LEMMA LastNHolds ==
  ASSUME cfg \in Configs, NEW c, NEW s \in Seq(Traj), CacheOf(c, LastN(s, Size))
  PROVE  CacheOf(c, s)
<1>1. PICK C \in Nat : C = Size
  BY ConfigFacts
<1>2. PICK m \in Nat : m = Len(s)
  OBVIOUS
<1>3. PICK r : r = LastN(s, C)
  OBVIOUS
<1>4. PICK k \in Nat : k = IF m > C THEN m - C ELSE 0
  <2>1. m > C => m - C \in Nat
    OBVIOUS
  <2> QED
    BY <2>1
<1>5. PICK l \in Nat : l = Len(r) /\ l + k = m
  <2>1. Len(r) = IF m > C THEN C ELSE m
    BY <1>2, <1>3, LastNFacts
  <2>2. Len(r) + k = m /\ Len(r) \in Nat
    BY <1>4, <2>1
  <2> QED
    BY <2>2
<1>6. \A i \in 1..l : r[i] = s[i + k]
  BY <1>2, <1>3, <1>4, <1>5, LastNFacts
<1>7. Recent(s, C) = (k + 1)..m /\ Recent(r, C) = 1..l
  BY <1>2, <1>4, <1>5 DEF Recent
<1>8. CacheOf(c, r)
  BY <1>1, <1>3
<1>9. \A j \in (k + 1)..m : j - k \in 1..l /\ r[j - k] = s[j] /\ SlotIn(c, r, j - k) = SlotIn(c, s, j)
  <2> TAKE j \in (k + 1)..m
  <2>1. j - k \in 1..l /\ (j - k) + k = j
    BY <1>5
  <2>2. l + 1 - (j - k) = m + 1 - j
    BY <1>5
  <2> QED
    BY <1>2, <1>5, <1>6, <2>1, <2>2 DEF SlotIn
<1>10. Cached(r) = Cached(s)
  <2>1. \A i \in 1..l : i + k \in (k + 1)..m
    BY <1>5
  <2>2. {r[i].id : i \in 1..l} = {s[j].id : j \in (k + 1)..m}
    <3>1. \A i \in 1..l : r[i].id \in {s[j].id : j \in (k + 1)..m}
      BY <1>6, <2>1
    <3>2. \A j \in (k + 1)..m : s[j].id \in {r[i].id : i \in 1..l}
      BY <1>9
    <3> QED
      BY <3>1, <3>2
  <2> QED
    BY <1>1, <1>7, <2>2 DEF Cached
<1>11. Filled(c, s)
  <2>1. l < C <=> m < C
    BY <1>4, <1>5
  <2>2. (IF l < C THEN l ELSE C) = (IF m < C THEN m ELSE C)
    BY <1>4, <1>5
  <2>3. m < C => l = m
    BY <1>4, <1>5
  <2> QED
    BY <1>1, <1>2, <1>5, <1>8, <1>10, <2>1, <2>2, <2>3 DEF CacheOf, Filled
<1>12. \A j \in Recent(s, Size) : At(c, SlotIn(c, s, j), s[j])
  <2> TAKE j \in Recent(s, Size)
  <2>1. j - k \in Recent(r, Size) /\ r[j - k] = s[j] /\ SlotIn(c, r, j - k) = SlotIn(c, s, j)
    BY <1>1, <1>7, <1>9
  <2>2. PICK i : i = j - k
    OBVIOUS
  <2>3. At(c, SlotIn(c, r, i), r[i])
    BY <1>8, <2>1, <2>2 DEF CacheOf
  <2> QED
    BY <2>1, <2>2, <2>3
<1> QED
  BY <1>8, <1>11, <1>12 DEF CacheOf

\* Nothing in a cache depends on anything but the configuration.
LEMMA CacheOfPrime ==
  ASSUME cfg' = cfg, CacheOf(cache', trajs')
  PROVE  CacheOf(cache, trajs)'
<1>1. Size' = Size
  BY DEF Size, Slots, CacheSize
<1>2. Shape(cache)' <=> Shape(cache')
  BY <1>1 DEF Shape
<1>3. Filled(cache, trajs)' <=> Filled(cache', trajs')
  BY <1>1 DEF Filled, Cached, Recent
<1>4. Recent(trajs, Size)' = Recent(trajs', Size)
  BY <1>1 DEF Recent
<1>5. \A j : SlotIn(cache, trajs, j)' = SlotIn(cache', trajs', j)
  BY <1>1 DEF SlotIn, Slot
<1>6. \A j : At(cache, SlotIn(cache, trajs, j), trajs[j])'
             <=> At(cache', SlotIn(cache', trajs', j), trajs'[j])
  BY <1>5 DEF At
<1> QED
  BY <1>2, <1>3, <1>4, <1>6 DEF CacheOf

LEMMA LoadKeeps ==
  ASSUME cfg \in Configs, Built(cfg), NEW s, NEW next, NEW dir, Run(s, next), Load(s, next, dir),
         \A j \in Recent(s, Size) : Saved(dir, s, j)
  PROVE  CacheOf(cache, trajs)' /\ main' = [main EXCEPT !.pc = "idle"]
<1>1. PICK C \in Nat : C = Size
  BY ConfigFacts
<1>2. PICK r : r = LastN(s, C)
  OBVIOUS
<1>3. s \in Seq(Traj)
  BY DEF Run
<1>4. LastN(s, C) \in Seq(Traj) /\ (C = 0 => LastN(s, C) = <<>>)
  <2>1. LastN(s, C) \in Seq(Traj)
    BY <1>3, LastNFacts
  <2>2. C = 0 => Len(LastN(s, C)) = 0
    BY <1>3, LastNFacts
  <2> QED
    BY <2>1, <2>2
<1>5. r = LastN(s, C) /\ r \in Seq(Traj)
  BY <1>2, <1>4
<1>6. \A i \in DOMAIN r : \E j \in Recent(s, C) : r[i] = s[j]
  <2>1. DOMAIN r = 1..Len(r)
    BY <1>5
  <2> QED
    BY <1>3, <1>5, <2>1, LastNRecent
<1>7. \A i \in DOMAIN r : /\ r[i] \in Traj /\ Complete(dir, r[i].id)
                          /\ dir[r[i].id] = r[i].data
  <2> TAKE i \in DOMAIN r
  <2>1. PICK j \in Recent(s, C) : r[i] = s[j]
    BY <1>6
  <2>2. Saved(dir, s, j)
    BY <1>1, <2>1
  <2>3. r[i] \in Traj
    BY <1>5
  <2> QED
    BY <2>1, <2>2, <2>3 DEF Saved, Complete, Traj
<1>8. [i \in DOMAIN r |-> [r[i] EXCEPT !.data = dir[r[i].id]]] = r
  <2>1. \A i \in DOMAIN r : [r[i] EXCEPT !.data = dir[r[i].id]] = r[i]
    BY <1>7 DEF Traj
  <2>2. r = [i \in DOMAIN r |-> r[i]]
    BY <1>5
  <2> QED
    BY <2>1, <2>2
<1>9. /\ trajs' = s /\ cfg' = cfg /\ main' = [main EXCEPT !.pc = "idle"]
      /\ cache' = FoldLeft(CachePut, EmptyCache, r)
  <2> DEFINE read == [i \in DOMAIN r |-> [r[i] EXCEPT !.data = dir[r[i].id]]]
  <2>1. \A i \in DOMAIN r : Complete(dir, r[i].id)
    BY <1>7
  <2>2. /\ trajs' = s /\ cfg' = cfg /\ main' = [main EXCEPT !.pc = "idle"]
        /\ cache' = FoldLeft(CachePut, EmptyCache, read)
    BY <1>1, <1>2, <2>1, ConfigFacts DEF Load, Size
  <2> QED
    BY <1>8, <2>2
<1>10. Run(r, next)
  <2>1. PICK m \in Nat : m = Len(s)
    BY <1>3
  <2>2. PICK k \in Nat : k = IF m > C THEN m - C ELSE 0
    <3>1. m > C => m - C \in Nat
      OBVIOUS
    <3> QED
      BY <3>1
  <2>3. PICK l \in Nat : l = Len(r) /\ l + k = m
    BY <1>3, <1>5, <2>1, <2>2, LastNFacts
  <2>4. \A i \in 1..l : r[i] = s[i + k] /\ i + k \in 1..m
    BY <1>3, <1>5, <2>1, <2>2, <2>3, LastNFacts
  <2>5. \A i, j \in 1..l : i < j => i + k < j + k
    OBVIOUS
  <2> QED
    BY <1>5, <2>1, <2>3, <2>4, <2>5 DEF Run
<1>11. PICK c : c = FoldLeft(CachePut, EmptyCache, r) /\ CacheOf(c, r)
  <2>1. Size # 0 \/ r = <<>>
    BY <1>1, <1>4, <1>5
  <2>2. CacheOf(FoldLeft(CachePut, EmptyCache, r), r)
    BY <1>10, <2>1, FoldHolds
  <2> QED
    BY <2>2
<1>12. CacheOf(c, s)
  BY <1>1, <1>3, <1>5, <1>11, LastNHolds
<1>13. CacheOf(cache', trajs')
  BY <1>9, <1>11, <1>12
<1> QED
  BY <1>9, <1>13, CacheOfPrime

-----------------------------------------------------------------------------
(* What the parts of the invariant depend on.                              *)

LEMMA TrajFacts ==
  ASSUME NEW s, NEW next, Run(s, next)
  PROVE  /\ s \in Seq(Traj) /\ DOMAIN s = 1..Len(s) /\ Len(s) \in Nat /\ next \in Nat
         /\ \A i \in 1..Len(s) : /\ s[i] \in Traj /\ s[i].id \in 0..(next - 1)
                                 /\ \A j \in 1..Len(s) : s[i].id = s[j].id => i = j
         /\ Ids(s) = {s[i].id : i \in 1..Len(s)} /\ Ids(s) \subseteq 0..(next - 1)
<1>1. s \in Seq(Traj) /\ DOMAIN s = 1..Len(s) /\ Len(s) \in Nat /\ next \in Nat
  BY DEF Run
<1>2. \A i \in 1..Len(s) : s[i] \in Traj /\ s[i].id \in Nat
  <2> TAKE i \in 1..Len(s)
  <2>1. s[i] \in Traj
    BY <1>1
  <2> QED
    BY <2>1 DEF Traj
<1>3. \A i \in 1..Len(s) : s[i].id \in 0..(next - 1)
  BY <1>1, <1>2 DEF Run
<1>4. \A i, j \in 1..Len(s) : s[i].id = s[j].id => i = j
  <2> TAKE i \in 1..Len(s), j \in 1..Len(s)
  <2>1. (i < j => s[i].id < s[j].id) /\ (j < i => s[j].id < s[i].id)
    BY DEF Run
  <2> QED
    BY <1>2, <2>1
<1>5. Ids(s) = {s[i].id : i \in 1..Len(s)}
  BY <1>1 DEF Ids
<1>6. Ids(s) \subseteq 0..(next - 1)
  BY <1>3, <1>5
<1> QED
  BY <1>1, <1>2, <1>3, <1>4, <1>5, <1>6

LEMMA CacheSame ==
  ASSUME CacheOf(cache, trajs), cfg' = cfg, cache' = cache, trajs' = trajs
  PROVE  CacheOf(cache, trajs)'
  BY CacheOfPrime

LEMMA WindowedSame ==
  ASSUME Windowed, cfg' = cfg, win' = win, trajs' = trajs, version' = version
  PROVE  Windowed'
  BY DEF Windowed, WindowRecent, WindowOf, LastN

LEMMA FromSourceSame ==
  ASSUME FromSource, cfg' = cfg, trajs' = trajs, source' = source, loaded' = loaded
  PROVE  FromSource'
  BY DEF FromSource, Saved

LEMMA WrittenSame ==
  ASSUME Written, cfg' = cfg, trajs' = trajs, loaded' = loaded, files' = files,
         counter' = counter, writing' = writing
  PROVE  Written'
  BY DEF Written, WrittenAt, Saved, Pending

LEMMA WritesSame ==
  ASSUME Writes, trajs' = trajs, loaded' = loaded, writing' = writing
  PROVE  Writes'
  BY DEF Writes, Task

LEMMA FlushedSame ==
  ASSUME Flushed, trajs' = trajs, loaded' = loaded, writing' = writing, flushes' = flushes,
         disk' = disk
  PROVE  Flushed'
  BY DEF Flushed, Flush, SavesDone, Ids

LEMMA SavingSame ==
  ASSUME Saving, cfg' = cfg, trajs' = trajs, work' = work,
         main'.pc = "saving" => main.pc = "saving"
  PROVE  Saving'
  BY DEF Saving, Recent, Saved, ToCopy, Size, Slots, CacheSize

LEMMA GoodSame ==
  ASSUME Good, cfg' = cfg, good' = good
  PROVE  Good'
  BY DEF Good, Run, Recent, Saved, Size, Slots, CacheSize

LEMMA TypesSame ==
  ASSUME Types, cfg' = cfg, version' = version, added' = added, trajs' = trajs,
         counter' = counter, loaded' = loaded,
         ~cfg.auto => (writing' = writing /\ flushes' = flushes)
  PROVE  Types'
  BY DEF Types, Run

LEMMA IInvStutter == IInv /\ UNCHANGED vars => IInv'
<1> SUFFICES ASSUME IInv, UNCHANGED vars PROVE IInv'
  OBVIOUS
<1>1. Main'
  BY DEF IInv, Main, Ids, vars, bufferVars, poolVars
<1> QED
  BY <1>1, CacheSame, WindowedSame, FromSourceSame, WrittenSame, WritesSame, FlushedSame, SavingSame,
     GoodSame, TypesSame DEF IInv, vars, bufferVars, poolVars, saveVars, bounds

LEMMA AppendSeq ==
  ASSUME NEW S, NEW s \in Seq(S), NEW t \in S
  PROVE  /\ Append(s, t) \in Seq(S) /\ Len(Append(s, t)) = Len(s) + 1
         /\ Append(s, t)[Len(s) + 1] = t /\ \A i \in 1..Len(s) : Append(s, t)[i] = s[i]
  OBVIOUS

-----------------------------------------------------------------------------
(* The beginning.                                                          *)

LEMMA NoRun == Run(<<>>, 0)
<1>1. <<>> \in Seq(Traj) /\ Len(<<>>) = 0
  OBVIOUS
<1> QED
  BY <1>1 DEF Run

LEMMA IInvInit == CachesBuilt /\ Init => IInv
<1> SUFFICES ASSUME CachesBuilt, Init PROVE IInv
  OBVIOUS
<1> USE DEF Init, Fresh
<1>1. Types
  BY NoRun DEF Types, CachesBuilt
<1>2. Main
  BY DEF Main, Ids
<1>3. Windowed
  BY DEF Windowed, WindowRecent
<1>4. CacheOf(cache, trajs)
  BY EmptyHolds
<1>5. FromSource /\ Written /\ Writes
  BY DEF FromSource, Written, Writes, NoFiles
<1>6. Flushed
  BY DEF Flushed
<1>7. Saving
  BY DEF Saving
<1>8. Good
  <2>1. Recent(<<>>, Size) = {}
    <3>1. Size \in Nat
      BY ConfigFacts
    <3> QED
      BY <3>1 DEF Recent
  <2> QED
    BY <2>1, NoRun DEF Good
<1> QED
  BY <1>1, <1>2, <1>3, <1>4, <1>5, <1>6, <1>7, <1>8 DEF IInv

\* The part of a directory that a rank takes is within it.
LEMMA PartBounds ==
  ASSUME NEW N \in Nat, NEW world \in Nat \ {0}, NEW rank \in 0..(world - 1)
  PROVE  LET per == N \div world
             rest == N % world
             start == rank * per + Min({rank, rest})
         IN  start \in Nat /\ start + per + (IF rank < rest THEN 1 ELSE 0) \in 0..N
<1>1. PICK per \in Nat : per = N \div world
  OBVIOUS
<1>2. PICK rest \in Nat : rest = N % world /\ rest < world
  OBVIOUS
<1>3. N = world * per + rest
  <2>1. N = world * (N \div world) + (N % world)
    OBVIOUS
  <2> QED
    BY <1>1, <1>2, <2>1
<1>4. rank \in Nat /\ rank < world
  OBVIOUS
<1>5. PICK least \in Nat : least = Min({rank, rest}) /\ least = (IF rank < rest THEN rank ELSE rest)
  <2>1. {rank, rest} \in SUBSET Int
    BY <1>2
  <2>2. CASE rank < rest
    <3>1. \A y \in {rank, rest} : rank <= y
      BY <1>2, <2>2
    <3>2. Min({rank, rest}) = rank
      BY <2>1, <3>1, MinIs
    <3> QED
      BY <1>2, <2>2, <3>2
  <2>3. CASE ~(rank < rest)
    <3>1. \A y \in {rank, rest} : rest <= y
      BY <1>2, <2>3
    <3>2. Min({rank, rest}) = rest
      BY <2>1, <3>1, MinIs
    <3> QED
      BY <1>2, <2>3, <3>2
  <2> QED
    BY <2>2, <2>3
<1>6. rank * per + per <= world * per
  BY <1>4, Multiples
<1>7. PICK a \in Nat, b \in Nat : a = rank * per /\ b = world * per
  BY <1>4
<1>8. a + per <= b /\ N = b + rest
  <2>1. world * per = per * world
    OBVIOUS
  <2> QED
    BY <1>3, <1>6, <1>7, <2>1
<1>9. a + least \in Nat /\ a + least + per + (IF rank < rest THEN 1 ELSE 0) \in 0..N
  BY <1>5, <1>8
<1> QED
  BY <1>1, <1>2, <1>5, <1>7, <1>9

\* The next id after those of a directory.
LEMMA CounterAfterFacts ==
  ASSUME NEW s \in Seq(Traj), \A i, j \in 1..Len(s) : i < j => s[i].id < s[j].id
  PROVE  Run(s, CounterAfter(s))
<1>1. PICK n \in Nat : n = Len(s)
  OBVIOUS
<1>2. \A i \in 1..n : s[i].id \in Nat
  <2> TAKE i \in 1..n
  <2>1. s[i] \in Traj
    BY <1>1
  <2> QED
    BY <2>1 DEF Traj
<1>3. CASE s = <<>>
  <2>1. CounterAfter(s) = 0
    BY <1>3 DEF CounterAfter
  <2> QED
    BY <1>3, <2>1, NoRun
<1>4. CASE s # <<>>
  <2>1. n \in 1..n
    BY <1>1, <1>4
  <2>2. PICK m \in Nat : m = s[n].id
    BY <1>2, <2>1
  <2>3. \A i \in 1..n : s[i].id <= m
    <3> TAKE i \in 1..n
    <3>1. i < n => s[i].id < s[n].id
      BY <1>1, <2>1
    <3>2. i < n \/ i = n
      OBVIOUS
    <3> QED
      BY <1>2, <2>2, <3>1, <3>2
  <2>4. Ids(s) = {s[i].id : i \in 1..n}
    BY <1>1 DEF Ids
  <2>5. Ids(s) \in SUBSET Int /\ m \in Ids(s) /\ \A y \in Ids(s) : m >= y
    BY <1>2, <2>1, <2>2, <2>3, <2>4
  <2>6. Max(Ids(s)) = m
    BY <2>5, MaxIs
  <2>7. CounterAfter(s) = m + 1
    BY <1>4, <2>6 DEF CounterAfter
  <2>8. \A i \in 1..n : s[i].id < m + 1
    BY <1>2, <2>3
  <2> QED
    BY <1>1, <2>7, <2>8 DEF Run
<1> QED
  BY <1>3, <1>4

\* The part of the demonstrations that a rank takes, and their files.
LEMMA DemoFacts ==
  ASSUME cfg \in Configs, NEW world \in Worlds, NEW rank \in 0..(world - 1), NEW part,
         part = Part(DemoTrajs, rank, world)
  PROVE  Run(part, CounterAfter(part)) /\ \A j \in 1..Len(part) : Saved(DemoFiles, part, j)
<1>1. PICK N \in Nat : N = cfg.demo
  BY ConfigFacts
<1>2. world \in Nat \ {0}
  BY BoundsAssumption
<1> DEFINE s == DemoTrajs
<1>3. /\ s = [i \in 1..N |-> [id |-> i - 1, data |-> -i, samples |-> 1]]
      /\ s \in Seq(Traj) /\ Len(s) = N
  <2>1. s = [i \in 1..N |-> [id |-> i - 1, data |-> -i, samples |-> 1]]
    BY <1>1 DEF DemoTrajs
  <2>2. \A i \in 1..N : [id |-> i - 1, data |-> -i, samples |-> 1] \in Traj
    BY DEF Traj, Partial
  <2> HIDE DEF s
  <2> QED
    BY <2>1, <2>2
<1> HIDE DEF s
<1>4. PICK start \in Nat, end \in 0..N : part = SubSeq(s, start + 1, end)
  <2>1. PICK per, rest, extra : /\ per = N \div world /\ rest = N % world
                                /\ extra = IF rank < rest THEN 1 ELSE 0
    OBVIOUS
  <2>2. PICK start : start = rank * per + Min({rank, rest})
    OBVIOUS
  <2>3. start \in Nat /\ start + per + extra \in 0..N
    BY <1>2, <2>1, <2>2, PartBounds
  <2>4. part = SubSeq(s, start + 1, start + per + extra)
    BY <1>3, <2>1, <2>2 DEF Part, s
  <2> QED
    BY <2>3, <2>4
<1>5. PICK n \in Nat : n = Len(part) /\ (n # 0 => start + n = end) /\ part \in Seq(Traj)
        /\ \A i \in 1..n : part[i] = s[start + i] /\ start + i \in 1..N
  <2>1. \A i \in (start + 1)..end : s[i] \in Traj
    <3> TAKE i \in (start + 1)..end
    <3>1. i \in 1..Len(s)
      BY <1>3
    <3> QED
      BY <1>3, <3>1
  <2>2. start + 1 \in Int /\ end \in Int
    OBVIOUS
  <2>3. /\ part \in Seq(Traj)
        /\ Len(part) = IF start + 1 <= end THEN end - (start + 1) + 1 ELSE 0
        /\ \A i \in 1..(end - (start + 1) + 1) : part[i] = s[(start + 1) + i - 1]
    BY <1>4, <2>1, <2>2, SubSeqProperties
  <2>4. end - (start + 1) + 1 = end - start /\ \A i \in Int : (start + 1) + i - 1 = start + i
    OBVIOUS
  <2>5. PICK n \in Nat : n = Len(part)
    <3>1. part \in Seq(Traj)
      BY <2>3
    <3> QED
      BY <3>1
  <2>6. n = IF start + 1 <= end THEN end - start ELSE 0
    BY <2>3, <2>4, <2>5
  <2>7. \A i \in 1..n : i \in 1..(end - start) /\ start + i \in 1..N
    BY <2>6
  <2>8. \A i \in 1..n : part[i] = s[start + i]
    BY <2>3, <2>4, <2>7
  <2>9. part \in Seq(Traj) /\ (n # 0 => start + n = end)
    BY <2>3, <2>6
  <2> QED
    BY <2>5, <2>7, <2>8, <2>9
<1>6. \A i \in 1..n : part[i].id = start + i - 1 /\ part[i].data = -(start + i)
  <2> TAKE i \in 1..n
  <2>1. PICK k \in 1..N : k = start + i
    BY <1>5
  <2>2. s[k] = [id |-> k - 1, data |-> -k, samples |-> 1]
    BY <1>3
  <2>3. part[i] = s[k]
    BY <1>5, <2>1
  <2> QED
    BY <2>1, <2>2, <2>3
<1>7. Run(part, CounterAfter(part))
  <2>1. \A i, j \in 1..n : i < j => part[i].id < part[j].id
    BY <1>6
  <2> QED
    BY <1>5, <2>1, CounterAfterFacts
<1>8. \A j \in 1..n : Saved(DemoFiles, part, j)
  <2> TAKE j \in 1..n
  <2>1. part[j].id \in 0..(N - 1) /\ -(part[j].id + 1) = part[j].data
    BY <1>5, <1>6
  <2> QED
    BY <1>1, <2>1 DEF Saved, DemoFiles
<1> QED
  BY <1>5, <1>7, <1>8

LEMMA StartEmptyStep ==
  ASSUME IInv, StartEmpty
  PROVE  IInv'
<1>1. main'.pc = "idle" /\ main' = [pc |-> main'.pc, batch |-> main.batch]
  BY DEF IInv, Main, StartEmpty
<1>2. Main'
  BY <1>1 DEF IInv, Main, Ids, StartEmpty, bufferVars
<1> QED
  BY <1>1, <1>2, CacheSame, WindowedSame, FromSourceSame, WrittenSame, WritesSame, FlushedSame, SavingSame,
     GoodSame, TypesSame DEF IInv, StartEmpty, bufferVars, poolVars, saveVars, bounds

\* Loading a directory that has the files of the trajectories it lists, or at least
\* of those the cache is filled from when nothing is read from it later.
LEMMA LoadStep ==
  ASSUME IInv, main.pc = "new", NEW s, NEW next, NEW dir, Run(s, next), Load(s, next, dir),
         \A j \in Recent(s, Size) : Saved(dir, s, j),
         cfg.auto => \A j \in 1..Len(s) : Saved(dir, s, j)
  PROVE  IInv'
<1>1. CacheOf(cache, trajs)' /\ main' = [main EXCEPT !.pc = "idle"]
  BY LoadKeeps DEF IInv, Types
<1>2. /\ trajs = <<>> /\ writing = {} /\ flushes = <<>> /\ win.version = -1
      /\ main'.pc = "idle" /\ main'.batch = {} /\ main' = [pc |-> main'.pc, batch |-> main'.batch]
  BY <1>1 DEF IInv, Main
<1>3. /\ cfg' = cfg /\ trajs' = s /\ counter' = next /\ loaded' = Ids(s) /\ source' = dir
      /\ version' = version /\ win' = win /\ files' = files /\ writing' = {} /\ flushes' = <<>>
      /\ disk' = disk /\ work' = work /\ good' = good /\ added' = added
  BY <1>2 DEF Load, poolVars, saveVars, bounds
<1>4. /\ s \in Seq(Traj) /\ next \in Nat /\ Ids(s) \subseteq 0..(next - 1)
      /\ Ids(s) = {s[i].id : i \in 1..Len(s)}
  BY TrajFacts
<1>5. Types'
  <2>1. Run(s, next)' <=> Run(s, next)
    OBVIOUS
  <2> QED
    BY <1>3, <1>4 DEF IInv, Types, Run
<1>6. Main'
  BY <1>2 DEF Main
<1>7. Windowed'
  BY <1>2, <1>3 DEF IInv, Types, Windowed, WindowRecent
<1>8. FromSource'
  BY <1>3 DEF FromSource, Saved
<1>9. Written'
  <2>1. \A i \in 1..Len(s) : s[i].id \in Ids(s)
    BY <1>4
  <2>2. cfg.auto => DOMAIN files \subseteq 0..(next - 1)
    <3>1. cfg.auto => DOMAIN files \subseteq 0..(counter - 1)
      BY DEF IInv, Written
    <3>2. counter = 0
      BY DEF IInv, Main
    <3> QED
      BY <3>1, <3>2
  <2> QED
    BY <1>3, <2>1, <2>2 DEF Written, WrittenAt
<1>10. Writes' /\ Flushed'
  BY <1>3 DEF Writes, Flushed, IInv
<1>11. Saving' /\ Good'
  BY <1>2, <1>3, GoodSame DEF IInv, Saving
<1> QED
  BY <1>1, <1>5, <1>6, <1>7, <1>8, <1>9, <1>10, <1>11 DEF IInv

LEMMA StartFromDemosStep ==
  ASSUME IInv, StartFromDemos
  PROVE  IInv'
<1>1. PICK world \in Worlds : \E rank \in 0..(world - 1) :
        LET part == Part(DemoTrajs, rank, world) IN Load(part, CounterAfter(part), DemoFiles)
  BY DEF StartFromDemos
<1>2. PICK rank \in 0..(world - 1) :
        LET part == Part(DemoTrajs, rank, world) IN Load(part, CounterAfter(part), DemoFiles)
  BY <1>1
<1>3. PICK part, next : /\ part = Part(DemoTrajs, rank, world) /\ next = CounterAfter(part)
                        /\ Load(part, next, DemoFiles)
  BY <1>2
<1>4. Run(part, next) /\ \A j \in 1..Len(part) : Saved(DemoFiles, part, j)
  BY <1>3, DemoFacts DEF IInv, Types
<1>5. \A j \in Recent(part, Size) : j \in 1..Len(part)
  <2>1. Len(part) \in Nat /\ Size \in Nat
    BY <1>4, TrajFacts, ConfigFacts DEF IInv, Types
  <2> QED
    BY <2>1 DEF Recent
<1>6. PICK dir : dir = DemoFiles
  OBVIOUS
<1>7. main.pc = "new"
  BY DEF StartFromDemos
<1> QED
  BY <1>3, <1>4, <1>5, <1>6, <1>7, LoadStep

LEMMA ResumeStep ==
  ASSUME IInv, Resume
  PROVE  IInv'
<1>1. PICK s, next, dir : s = good.trajs /\ next = good.counter /\ dir = good.files
  OBVIOUS
<1>2. /\ Run(s, next) /\ ~cfg.auto /\ \A j \in Recent(s, Size) : Saved(dir, s, j)
      /\ Load(s, next, dir) /\ main.pc = "new"
  BY <1>1 DEF IInv, Good, Resume
<1> QED
  BY <1>2, LoadStep

-----------------------------------------------------------------------------
(* Adding.                                                                 *)

\* A trajectory with the next id at the end.
LEMMA AppendFacts ==
  ASSUME NEW s, NEW next, Run(s, next), NEW t \in Traj, t.id = next
  PROVE  /\ Run(Append(s, t), next + 1) /\ Len(Append(s, t)) = Len(s) + 1
         /\ Append(s, t)[Len(s) + 1] = t /\ \A i \in 1..Len(s) : Append(s, t)[i] = s[i]
         /\ Ids(Append(s, t)) = Ids(s) \cup {next} /\ next \notin Ids(s)
<1>1. PICK n \in Nat : n = Len(s) /\ s \in Seq(Traj)
  BY DEF Run
<1>2. PICK r \in Seq(Traj) : r = Append(s, t)
  BY <1>1, AppendSeq
<1>3. Len(r) = n + 1 /\ r[n + 1] = t /\ \A i \in 1..n : r[i] = s[i]
  BY <1>1, <1>2, AppendSeq
<1>4. \A i \in 1..(n + 1) : i \in 1..n \/ i = n + 1
  OBVIOUS
<1>5. next \in Nat /\ \A i \in 1..n : s[i].id \in Nat /\ s[i].id < next
  <2>1. next \in Nat
    BY DEF Run
  <2>2. \A i \in 1..n : s[i].id \in 0..(next - 1)
    BY <1>1, TrajFacts
  <2> QED
    BY <2>1, <2>2
<1>6. Run(r, next + 1)
  <2>1. \A i \in 1..(n + 1) : r[i].id \in Nat /\ r[i].id < next + 1
    BY <1>3, <1>4, <1>5
  <2>2. ASSUME NEW i \in 1..(n + 1), NEW j \in 1..(n + 1), i < j PROVE r[i].id < r[j].id
    <3>1. i \in 1..n
      BY <2>2
    <3>2. CASE j \in 1..n
      <4>1. s[i].id < s[j].id
        BY <1>1, <2>2, <3>1, <3>2 DEF Run
      <4> QED
        BY <1>3, <3>1, <3>2, <4>1
    <3>3. CASE j = n + 1
      BY <1>3, <1>5, <3>1, <3>3
    <3> QED
      BY <3>2, <3>3
  <2>3. \A i, j \in 1..(n + 1) : i < j => r[i].id < r[j].id
    BY <2>2
  <2> QED
    BY <1>3, <1>5, <2>1, <2>3 DEF Run
<1>7. Ids(r) = Ids(s) \cup {next}
  <2>1. Ids(r) = {r[i].id : i \in 1..(n + 1)} /\ Ids(s) = {s[i].id : i \in 1..n}
    BY <1>1, <1>3 DEF Ids
  <2>2. \A i \in 1..n : r[i].id = s[i].id /\ i \in 1..(n + 1)
    BY <1>3
  <2>3. n + 1 \in 1..(n + 1) /\ r[n + 1].id = next
    BY <1>3
  <2> QED
    BY <1>4, <2>1, <2>2, <2>3
<1>8. next \notin Ids(s)
  <2>1. Ids(s) \subseteq 0..(next - 1)
    BY TrajFacts
  <2> QED
    BY <1>5, <2>1
<1> QED
  BY <1>1, <1>2, <1>3, <1>6, <1>7, <1>8

\* Without a cache nothing is put.
LEMMA CacheEnabledKeeps ==
  ASSUME cfg \in Configs, NEW c, NEW s, NEW t \in Traj, Run(s, t.id), CacheOf(c, s)
  PROVE  CacheOf(CacheIfEnabled(c, t), Append(s, t))
<1>1. CASE Size # 0
  BY <1>1, PutKeeps DEF CacheIfEnabled, Size
<1>2. CASE Size = 0
  <2>1. PICK n \in Nat : n = Len(s) /\ s \in Seq(Traj)
    BY DEF Run
  <2>2. Len(Append(s, t)) = n + 1
    BY <2>1
  <2>3. Recent(s, 0) = {} /\ Recent(Append(s, t), 0) = {}
    BY <2>1, <2>2 DEF Recent
  <2>4. CacheIfEnabled(c, t) = c
    BY <1>2 DEF CacheIfEnabled, Size
  <2> QED
    BY <1>2, <2>1, <2>2, <2>3, <2>4 DEF CacheOf, Filled, Cached
<1> QED
  BY <1>1, <1>2

LEMMA AddStep ==
  ASSUME IInv, Add
  PROVE  IInv'
<1>1. PICK n \in cfg.lengths :
        LET t == [id |-> counter, data |-> added + 1, samples |-> n]
        IN  /\ trajs' = Append(trajs, t)
            /\ cache' = CacheIfEnabled(cache, t)
            /\ writing' = IF cfg.auto
                          THEN writing \union {[id |-> t.id, data |-> t.data, open |-> FALSE]}
                          ELSE writing
            /\ main' = [pc |-> "adding", batch |-> main.batch \union {t.id}]
  <2>1. ~PutRaises
    BY ConfigFacts DEF IInv, Types
  <2> QED
    BY <2>1 DEF Add
<1>2. cfg \in Configs /\ counter \in Nat /\ added \in Nat /\ version \in Nat /\ Run(trajs, counter)
  BY DEF IInv, Types, Run
<1>3. PICK t \in Traj : t = [id |-> counter, data |-> added + 1, samples |-> n]
  <2>1. n \in Nat \ {0}
    BY <1>2, ConfigFacts
  <2>2. added + 1 \in Int \ {Partial}
    BY <1>2 DEF Partial
  <2>3. [id |-> counter, data |-> added + 1, samples |-> n] \in Traj
    BY <1>2, <2>1, <2>2 DEF Traj
  <2> QED
    BY <2>3
<1>4. PICK task : task = [id |-> t.id, data |-> t.data, open |-> FALSE]
  OBVIOUS
<1>5. /\ trajs' = Append(trajs, t) /\ cache' = CacheIfEnabled(cache, t)
      /\ writing' = IF cfg.auto THEN writing \cup {task} ELSE writing
      /\ main' = [pc |-> "adding", batch |-> main.batch \cup {counter}]
      /\ t.id = counter
  BY <1>1, <1>3, <1>4
<1>6. /\ cfg' = cfg /\ counter' = counter + 1 /\ version' = version + 1 /\ added' = added + 1
      /\ win' = win /\ loaded' = loaded /\ source' = source /\ files' = files
      /\ flushes' = flushes /\ disk' = disk /\ work' = work /\ good' = good
  BY DEF Add, Bumped, saveVars
<1>7. PICK m \in Nat : m = Len(trajs)
  BY <1>2, TrajFacts
<1>8. /\ Run(trajs', counter + 1) /\ Len(trajs') = m + 1
      /\ trajs'[m + 1] = t /\ \A i \in 1..m : trajs'[i] = trajs[i]
      /\ Ids(trajs') = Ids(trajs) \cup {counter} /\ counter \notin Ids(trajs)
  BY <1>2, <1>5, <1>7, AppendFacts
<1>9. counter \notin loaded /\ loaded \subseteq 0..(counter - 1)
  BY <1>2 DEF IInv, Types
<1>10. \A i \in 1..(m + 1) : i \in 1..m \/ i = m + 1
  OBVIOUS
<1>11. Types'
  <2>1. loaded \subseteq 0..(counter + 1 - 1)
    BY <1>2, <1>9
  <2>2. ~cfg.auto => writing' = {} /\ flushes' = <<>>
    BY <1>5, <1>6 DEF IInv, Types
  <2>3. Run(trajs', counter') 
    BY <1>6, <1>8
  <2> QED
    BY <1>2, <1>6, <2>1, <2>2, <2>3 DEF IInv, Types, Run, Built, CacheSize
<1>12. Main'
  <2>1. main.batch \subseteq Ids(trajs) \ loaded
    BY DEF IInv, Main
  <2>2. Ids(trajs)' = Ids(trajs) \cup {counter}
    BY <1>8 DEF Ids
  <2> QED
    BY <1>5, <1>6, <1>9, <2>1, <2>2 DEF Main
<1>13. Windowed'
  <2>1. /\ win = [version |-> win.version, trajs |-> win.trajs]
        /\ win.version \in Int /\ win.version < version + 1
    BY <1>2 DEF IInv, Windowed
  <2>2. win.version <= version + 1 /\ win.version # version + 1
    BY <1>2, <2>1
  <2> QED
    BY <1>6, <2>1, <2>2 DEF Windowed, WindowRecent
<1>14. CacheOf(cache, trajs)'
  <2>1. CacheOf(cache', trajs')
    BY <1>2, <1>5, CacheEnabledKeeps DEF IInv
  <2> QED
    BY <1>6, <2>1, CacheOfPrime
<1>15. FromSource'
  <2>1. cfg.auto => \A i \in 1..m : trajs[i].id \in loaded => Saved(source, trajs, i)
    BY <1>7 DEF IInv, FromSource
  <2> QED
    BY <1>5, <1>6, <1>8, <1>9, <1>10, <2>1 DEF FromSource, Saved
<1>16. Written'
  <2> SUFFICES ASSUME cfg.auto PROVE Written'
    BY <1>6 DEF Written
  <2>1. DOMAIN files \subseteq 0..(counter - 1)
    BY DEF IInv, Written
  <2>2. DOMAIN files \subseteq 0..(counter + 1 - 1) /\ counter \notin DOMAIN files
    BY <1>2, <2>1
  <2>3. \A i \in 1..m : WrittenAt(i)
    BY <1>7 DEF IInv, Written
  <2>4. writing' = writing \cup {task} /\ task.id = t.id /\ task.data = t.data
    BY <1>4, <1>5
  <2>5. ASSUME NEW i \in 1..(m + 1) PROVE WrittenAt(i)'
    <3>1. CASE i \in 1..m
      <4>1. trajs'[i] = trajs[i] /\ WrittenAt(i)
        BY <1>8, <2>3, <3>1
      <4> QED
        BY <1>6, <2>4, <4>1 DEF WrittenAt, Pending, Saved
    <3>2. CASE i = m + 1
      <4>1. trajs'[i] = t /\ task \in writing'
        BY <1>8, <2>4, <3>2
      <4> QED
        BY <1>5, <1>6, <2>2, <2>4, <4>1 DEF WrittenAt, Pending, Saved
    <3> QED
      BY <1>10, <3>1, <3>2
  <2>6. (DOMAIN files \subseteq 0..(counter - 1))'
    BY <1>2, <1>6, <2>2
  <2>7. (\A i \in 1..Len(trajs) : WrittenAt(i))'
    <3>1. Len(trajs)' = m + 1
      BY <1>8
    <3> QED
      BY <2>5, <3>1
  <2> QED
    BY <2>6, <2>7 DEF Written
<1>17. Writes'
  <2>1. ASSUME NEW w \in writing PROVE Task(w)' /\ w.id # counter
    <3>1. Task(w)
      BY DEF IInv, Writes
    <3>2. PICK i \in 1..m : trajs[i].id = w.id /\ trajs[i].data = w.data
      BY <1>7, <3>1 DEF Task
    <3>3. w.id # counter
      <4>1. trajs[i].id \in Ids(trajs)
        BY <1>2, <1>7, TrajFacts
      <4> QED
        BY <1>8, <3>2, <4>1
    <3>4. i \in 1..(m + 1) /\ trajs'[i] = trajs[i]
      BY <1>8
    <3>5. \A v \in writing' : v.id = w.id => v = w
      <4>1. \A v \in writing : v.id = w.id => v = w
        BY <3>1 DEF Task
      <4>2. task.id = counter
        BY <1>4, <1>5
      <4> QED
        BY <1>5, <3>3, <4>1, <4>2
    <3> QED
      BY <1>6, <1>8, <3>1, <3>2, <3>3, <3>4, <3>5 DEF Task
  <2>2. ASSUME cfg.auto PROVE Task(task)'
    <3>1. task = [id |-> counter, data |-> t.data, open |-> FALSE]
      BY <1>4, <1>5
    <3>2. m + 1 \in 1..(m + 1) /\ trajs'[m + 1].id = task.id /\ trajs'[m + 1].data = task.data
      BY <1>5, <1>8, <3>1
    <3>3. \A v \in writing' : v.id = task.id => v = task
      BY <1>5, <2>1, <3>1
    <3> QED
      BY <1>6, <1>8, <1>9, <3>1, <3>2, <3>3 DEF Task
  <2>3. \A w \in writing' : Task(w)'
    BY <1>5, <2>1, <2>2
  <2> QED
    BY <2>3 DEF Writes
<1>18. Flushed'
  <2>1. ASSUME NEW k \in 1..Len(flushes) PROVE Flush(flushes[k])'
    <3>1. Flush(flushes[k])
      BY DEF IInv, Flushed
    <3>2. task.id = counter
      BY <1>4, <1>5
    <3>3. flushes[k].ids \subseteq Ids(trajs) \ loaded
      BY <3>1 DEF Flush
    <3>4. Ids(trajs)' = Ids(trajs) \cup {counter}
      BY <1>8 DEF Ids
    <3>5. SavesDone(flushes[k]) => SavesDone(flushes[k])'
      BY <1>5, <1>6, <1>8, <3>2, <3>3 DEF SavesDone
    <3> QED
      BY <1>6, <3>1, <3>3, <3>4, <3>5 DEF Flush, Ids
  <2> QED
    BY <1>6, <2>1 DEF IInv, Flushed
<1>19. Saving'
  BY <1>5, <1>6 DEF IInv, Saving
<1>20. Good'
  BY <1>6, GoodSame DEF IInv
<1> QED
  BY <1>11, <1>12, <1>13, <1>14, <1>15, <1>16, <1>17, <1>18, <1>19, <1>20 DEF IInv

LEMMA EndAddStep ==
  ASSUME IInv, EndAdd
  PROVE  IInv'
<1>1. /\ cfg' = cfg /\ trajs' = trajs /\ cache' = cache /\ counter' = counter /\ version' = version
      /\ loaded' = loaded /\ source' = source /\ win' = win /\ files' = files /\ writing' = writing
      /\ disk' = disk /\ work' = work /\ good' = good /\ added' = added
      /\ main' = [pc |-> "idle", batch |-> {}]
  BY DEF EndAdd, bufferVars, saveVars, bounds
<1>2. PICK f : f = [ids |-> main.batch, step |-> "wait", seen |-> trajs]
  OBVIOUS
<1>3. flushes' = IF cfg.auto THEN Append(flushes, f) ELSE flushes
  BY <1>2 DEF EndAdd
<1>4. flushes \in Seq(FlushCall)
  BY DEF IInv, Flushed
<1>5. main.batch \subseteq Ids(trajs) \ loaded
  BY DEF IInv, Main
<1>6. f \in FlushCall
  <2>1. Run(trajs, counter)
    BY DEF IInv, Types
  <2>2. Ids(trajs) \subseteq Nat /\ trajs \in Seq(Traj)
    BY <2>1, TrajFacts
  <2> QED
    BY <1>2, <1>5, <2>2 DEF FlushCall
<1>7. Flushed'
  <2>1. \A g : Flush(g) => Flush(g)'
    BY <1>1 DEF Flush, SavesDone, Ids
  <2>2. Flush(f)'
    BY <1>1, <1>2, <1>5 DEF Flush, Ids
  <2>3. CASE cfg.auto
    <3>1. PICK n \in Nat : n = Len(flushes)
      BY <1>4
    <3>2. /\ flushes' \in Seq(FlushCall) /\ Len(flushes') = n + 1 /\ flushes'[n + 1] = f
          /\ \A k \in 1..n : flushes'[k] = flushes[k]
      BY <1>3, <1>4, <1>6, <2>3, <3>1, AppendSeq
    <3>3. ASSUME NEW k \in 1..(n + 1) PROVE Flush(flushes[k])'
      <4>1. PICK g : g = flushes'[k] /\ Flush(g)'
        <5>1. CASE k \in 1..n
          <6>1. Flush(flushes[k])
            BY <3>1, <5>1 DEF IInv, Flushed
          <6>2. PICK g : g = flushes[k]
            OBVIOUS
          <6> QED
            BY <2>1, <3>2, <5>1, <6>1, <6>2
        <5>2. CASE k = n + 1
          BY <2>2, <3>2, <5>2
        <5> QED
          BY <5>1, <5>2
      <4> QED
        BY <4>1 DEF Flush, SavesDone
    <3> QED
      BY <1>1, <3>2, <3>3 DEF IInv, Flushed
  <2>4. CASE ~cfg.auto
    BY <1>1, <1>3, <2>4, FlushedSame DEF IInv
  <2> QED
    BY <2>3, <2>4
<1>8. Types'
  <2>1. ~cfg.auto => flushes' = flushes
    BY <1>3
  <2> QED
    BY <1>1, <2>1, TypesSame DEF IInv
<1>9. Main'
  BY <1>1 DEF Main
<1> QED
  BY <1>1, <1>7, <1>8, <1>9, CacheSame, WindowedSame, FromSourceSame, WrittenSame, WritesSame,
     SavingSame, GoodSame DEF IInv

-----------------------------------------------------------------------------
(* The pool.                                                               *)

\* What a step of the pool leaves alone.
PoolStep ==
  /\ cfg' = cfg /\ trajs' = trajs /\ cache' = cache /\ counter' = counter /\ version' = version
  /\ loaded' = loaded /\ source' = source /\ win' = win /\ main' = main
  /\ work' = work /\ good' = good /\ added' = added

\* While the pool has something to do the buffer is one with auto_save that has begun.
LEMMA PoolKeeps ==
  ASSUME IInv, PoolStep, Written', Writes', Flushed', writing # {} \/ flushes # <<>>
  PROVE  IInv'
<1>1. cfg.auto /\ main.pc # "new"
  BY DEF IInv, Types, Main
<1>2. Main'
  BY <1>1 DEF IInv, Main, PoolStep, Ids
<1>3. Types'
  BY <1>1, TypesSame DEF IInv, PoolStep
<1> QED
  BY <1>2, <1>3, CacheSame, WindowedSame, FromSourceSame, SavingSame, GoodSame DEF IInv, PoolStep

\* Any trajectory with the id of a save under way has the data that is saved.
LEMMA TaskFacts ==
  ASSUME IInv, NEW w \in writing
  PROVE  /\ Task(w) /\ w.id \in 0..(counter - 1)
         /\ \A i \in 1..Len(trajs) : trajs[i].id = w.id => trajs[i].data = w.data
<1>1. Task(w)
  BY DEF IInv, Writes
<1>2. PICK j \in 1..Len(trajs) : trajs[j].id = w.id /\ trajs[j].data = w.data
  BY <1>1 DEF Task
<1>3. \A i \in 1..Len(trajs) : /\ trajs[i].id \in 0..(counter - 1)
                               /\ trajs[i].id = trajs[j].id => i = j
  BY TrajFacts DEF IInv, Types
<1> QED
  BY <1>1, <1>2, <1>3

LEMMA OpenFileStep ==
  ASSUME IInv, OpenFile
  PROVE  IInv'
<1>1. PICK w \in writing :
        /\ ~w.open
        /\ writing' = (writing \ {w}) \union {[w EXCEPT !.open = TRUE]}
        /\ files' = Put(files, w.id, Partial)
  BY DEF OpenFile
<1>2. PoolStep /\ flushes' = flushes /\ disk' = disk
  BY DEF OpenFile, PoolStep, bufferVars, saveVars, bounds
<1>3. /\ Task(w) /\ w.id \in 0..(counter - 1)
      /\ \A i \in 1..Len(trajs) : trajs[i].id = w.id => trajs[i].data = w.data
  BY TaskFacts
<1>4. PICK x : x = [w EXCEPT !.open = TRUE]
  OBVIOUS
<1>5. x = [id |-> w.id, data |-> w.data, open |-> TRUE]
  BY <1>3, <1>4 DEF Task
<1>6. x.id = w.id /\ x.data = w.data /\ writing' = (writing \ {w}) \cup {x} /\ x \in writing'
  BY <1>1, <1>4, <1>5
<1>7. Writes'
  <2>1. ASSUME NEW v \in writing' PROVE Task(v)'
    <3>1. CASE v = x
      <4>1. \A u \in writing' : u.id = x.id => u = x
        BY <1>3, <1>6 DEF Task
      <4> QED
        BY <1>2, <1>3, <1>5, <3>1, <4>1 DEF Task, PoolStep
    <3>2. CASE v # x
      <4>1. v \in writing /\ v # w /\ Task(v)
        BY <1>6, <3>2 DEF IInv, Writes
      <4>2. v.id # x.id
        BY <1>3, <1>6, <4>1 DEF Task
      <4>3. \A u \in writing' : u.id = v.id => u = v
        BY <1>6, <4>1, <4>2 DEF Task
      <4> QED
        BY <1>2, <4>1, <4>3 DEF Task, PoolStep
    <3> QED
      BY <3>1, <3>2
  <2> QED
    BY <2>1 DEF Writes
<1>8. Written'
  <2> SUFFICES ASSUME cfg.auto PROVE Written'
    BY <1>2 DEF Written, PoolStep
  <2>1. (DOMAIN files \subseteq 0..(counter - 1))'
    <3>1. DOMAIN files' = DOMAIN files \cup {w.id}
      BY <1>1 DEF Put
    <3> QED
      BY <1>2, <1>3, <3>1 DEF IInv, Written, PoolStep
  <2>2. ASSUME NEW i \in 1..Len(trajs) PROVE WrittenAt(i)'
    <3>1. WrittenAt(i)
      BY DEF IInv, Written
    <3>2. CASE trajs[i].id = w.id
      <4>1. trajs[i].data = w.data
        BY <1>3, <3>2
      <4>2. files'[trajs[i].id] = Partial
        BY <1>1, <3>2 DEF Put
      <4> QED
        BY <1>2, <1>6, <3>2, <4>1, <4>2 DEF WrittenAt, Pending, PoolStep
    <3>3. CASE trajs[i].id # w.id
      <4>1. /\ trajs[i].id \in DOMAIN files' <=> trajs[i].id \in DOMAIN files
            /\ trajs[i].id \in DOMAIN files => files'[trajs[i].id] = files[trajs[i].id]
        BY <1>1, <3>3 DEF Put
      <4>2. Pending(trajs[i]) => Pending(trajs[i])'
        BY <1>2, <1>6, <3>3 DEF Pending, PoolStep
      <4> QED
        BY <1>2, <3>1, <4>1, <4>2 DEF WrittenAt, Saved, Pending, PoolStep
    <3> QED
      BY <3>2, <3>3
  <2> QED
    BY <1>2, <2>1, <2>2 DEF Written, PoolStep
<1>9. Flushed'
  <2>1. ASSUME NEW k \in 1..Len(flushes) PROVE Flush(flushes[k])'
    <3>1. Flush(flushes[k])
      BY DEF IInv, Flushed
    <3>2. SavesDone(flushes[k]) => SavesDone(flushes[k])'
      BY <1>2, <1>6 DEF SavesDone
    <3> QED
      BY <1>2, <3>1, <3>2 DEF Flush, Ids, PoolStep
  <2> QED
    BY <1>2, <2>1 DEF IInv, Flushed
<1> QED
  BY <1>2, <1>7, <1>8, <1>9, PoolKeeps

LEMMA CloseFileStep ==
  ASSUME IInv, CloseFile
  PROVE  IInv'
<1>1. PICK w \in writing : w.open /\ writing' = writing \ {w} /\ files' = Put(files, w.id, w.data)
  BY DEF CloseFile
<1>2. PoolStep /\ flushes' = flushes /\ disk' = disk
  BY DEF CloseFile, PoolStep, bufferVars, saveVars, bounds
<1>3. /\ Task(w) /\ w.id \in 0..(counter - 1)
      /\ \A i \in 1..Len(trajs) : trajs[i].id = w.id => trajs[i].data = w.data
  BY TaskFacts
<1>4. Writes'
  <2>1. ASSUME NEW v \in writing' PROVE Task(v)'
    <3>1. Task(v)
      BY <1>1 DEF IInv, Writes
    <3> QED
      BY <1>1, <1>2, <3>1 DEF Task, PoolStep
  <2> QED
    BY <2>1 DEF Writes
<1>5. Written'
  <2> SUFFICES ASSUME cfg.auto PROVE Written'
    BY <1>2 DEF Written, PoolStep
  <2>1. (DOMAIN files \subseteq 0..(counter - 1))'
    <3>1. DOMAIN files' = DOMAIN files \cup {w.id}
      BY <1>1 DEF Put
    <3> QED
      BY <1>2, <1>3, <3>1 DEF IInv, Written, PoolStep
  <2>2. ASSUME NEW i \in 1..Len(trajs) PROVE WrittenAt(i)'
    <3>1. WrittenAt(i)
      BY DEF IInv, Written
    <3>2. CASE trajs[i].id = w.id
      <4>1. trajs[i].data = w.data
        BY <1>3, <3>2
      <4>2. trajs[i].id \in DOMAIN files' /\ files'[trajs[i].id] = trajs[i].data
        BY <1>1, <3>2, <4>1 DEF Put
      <4> QED
        BY <1>2, <4>2 DEF WrittenAt, Saved, PoolStep
    <3>3. CASE trajs[i].id # w.id
      <4>1. /\ trajs[i].id \in DOMAIN files' <=> trajs[i].id \in DOMAIN files
            /\ trajs[i].id \in DOMAIN files => files'[trajs[i].id] = files[trajs[i].id]
        BY <1>1, <3>3 DEF Put
      <4>2. Pending(trajs[i]) => Pending(trajs[i])'
        BY <1>1, <1>2, <3>3 DEF Pending, PoolStep
      <4> QED
        BY <1>2, <3>1, <4>1, <4>2 DEF WrittenAt, Saved, Pending, PoolStep
    <3> QED
      BY <3>2, <3>3
  <2> QED
    BY <1>2, <2>1, <2>2 DEF Written, PoolStep
<1>6. Flushed'
  <2>1. ASSUME NEW k \in 1..Len(flushes) PROVE Flush(flushes[k])'
    <3>1. Flush(flushes[k])
      BY DEF IInv, Flushed
    <3>2. SavesDone(flushes[k]) => SavesDone(flushes[k])'
      BY <1>1, <1>2 DEF SavesDone
    <3> QED
      BY <1>2, <3>1, <3>2 DEF Flush, Ids, PoolStep
  <2> QED
    BY <1>2, <2>1 DEF IInv, Flushed
<1> QED
  BY <1>2, <1>4, <1>5, <1>6, PoolKeeps

\* One call of _flush_metadata goes on.
LEMMA FlushStep ==
  ASSUME IInv, PoolStep, files' = files, writing' = writing,
         NEW k \in DOMAIN flushes, NEW st \in {"wait", "index", "done"},
         flushes' = [flushes EXCEPT ![k].step = st], SavesDone(flushes[k]),
         disk' = [meta |-> disk'.meta, trajs |-> disk'.trajs],
         Ids(disk.trajs) \subseteq Ids(disk'.trajs) \/ Ids(disk'.trajs) = Ids(trajs),
         st = "done" => flushes[k].ids \subseteq Ids(disk'.trajs)
  PROVE  IInv'
<1>1. flushes \in Seq(FlushCall) /\ k \in 1..Len(flushes)
  BY DEF IInv, Flushed
<1>2. flushes[k] \in FlushCall
  BY <1>1
<1>3. PICK f \in FlushCall : f = [ids |-> flushes[k].ids, step |-> st, seen |-> flushes[k].seen]
  BY <1>2 DEF FlushCall
<1>4. /\ flushes' \in Seq(FlushCall) /\ Len(flushes') = Len(flushes) /\ flushes'[k] = f
      /\ \A j \in 1..Len(flushes) : j # k => flushes'[j] = flushes[j]
  <2>1. flushes' = [flushes EXCEPT ![k] = f]
    <3>1. [flushes[k] EXCEPT !.step = st] = f
      BY <1>2, <1>3 DEF FlushCall
    <3> QED
      BY <1>1, <3>1
  <2>2. [flushes EXCEPT ![k] = f] \in Seq(FlushCall)
    BY <1>1
  <2>3. Len([flushes EXCEPT ![k] = f]) = Len(flushes)
    BY <1>1
  <2>4. /\ [flushes EXCEPT ![k] = f][k] = f
        /\ \A j \in 1..Len(flushes) : j # k => [flushes EXCEPT ![k] = f][j] = flushes[j]
    BY <1>1
  <2> QED
    BY <2>1, <2>2, <2>3, <2>4
<1>5. \A j \in 1..Len(flushes) : Flush(flushes[j])
  BY DEF IInv, Flushed
<1>6. ASSUME NEW j \in 1..Len(flushes) PROVE Flush(flushes[j])'
  <2>1. Ids(trajs)' = Ids(trajs) /\ Ids(disk'.trajs) = Ids(disk.trajs)' /\ loaded' = loaded
    BY DEF PoolStep, Ids
  <2>2. \A g : SavesDone(g) => SavesDone(g)'
    BY DEF SavesDone
  <2>3. CASE j = k
    <3>1. flushes'[j].ids = flushes[k].ids /\ flushes'[j].step = st
      BY <1>3, <1>4, <2>3
    <3>2. Flush(flushes[k])
      BY <1>1, <1>5
    <3>3. SavesDone(flushes[j])'
      BY <3>1 DEF SavesDone
    <3> QED
      BY <2>1, <3>1, <3>2, <3>3 DEF Flush
  <2>4. CASE j # k
    <3>1. flushes'[j] = flushes[j] /\ Flush(flushes[j])
      BY <1>4, <1>5, <2>4
    <3>2. SavesDone(flushes[j]) => SavesDone(flushes[j])'
      BY <3>1 DEF SavesDone
    <3>3. Ids(disk.trajs) \subseteq Ids(disk.trajs)' \/ Ids(disk.trajs)' = Ids(trajs)
      BY <2>1
    <3> QED
      BY <2>1, <3>1, <3>2, <3>3 DEF Flush
  <2> QED
    BY <2>3, <2>4
<1>7. Flushed'
  BY <1>4, <1>6 DEF Flushed
<1>8. Written' /\ Writes'
  BY WrittenSame, WritesSame DEF IInv, PoolStep
<1>9. flushes # <<>>
  BY <1>1
<1> QED
  BY <1>7, <1>8, <1>9, PoolKeeps

LEMMA FlushMetaStep ==
  ASSUME IInv, FlushMeta
  PROVE  IInv'
<1>1. PICK k \in DOMAIN flushes :
        /\ SavesDone(flushes[k]) /\ disk' = [disk EXCEPT !.meta = counter]
        /\ flushes' = [flushes EXCEPT ![k].step = "index"]
  BY DEF FlushMeta
<1>2. PoolStep /\ files' = files /\ writing' = writing
  BY DEF FlushMeta, PoolStep, bufferVars, saveVars, bounds
<1>3. disk' = [meta |-> disk'.meta, trajs |-> disk'.trajs] /\ disk'.trajs = disk.trajs
  BY <1>1 DEF IInv, Flushed
<1> QED
  BY <1>1, <1>2, <1>3, FlushStep

LEMMA FlushIndexStep ==
  ASSUME IInv, FlushIndex
  PROVE  IInv'
<1>1. PICK k \in DOMAIN flushes :
        /\ flushes[k].step = "index" /\ disk' = [disk EXCEPT !.trajs = IndexNow(flushes[k])]
        /\ flushes' = [flushes EXCEPT ![k].step = "done"]
  BY DEF FlushIndex
<1>2. PoolStep /\ files' = files /\ writing' = writing
  BY DEF FlushIndex, PoolStep, bufferVars, saveVars, bounds
<1>3. disk' = [meta |-> disk'.meta, trajs |-> disk'.trajs] /\ disk'.trajs = trajs
  BY <1>1 DEF IInv, Flushed, IndexNow
<1>4. k \in 1..Len(flushes)
  BY DEF IInv, Flushed
<1>5. SavesDone(flushes[k]) /\ flushes[k].ids \subseteq Ids(trajs)
  BY <1>1, <1>4 DEF IInv, Flushed, Flush
<1> QED
  BY <1>1, <1>2, <1>3, <1>5, FlushStep

-----------------------------------------------------------------------------
(* Sampling, checkpoints and crashes.                                      *)

LEMMA SampleChunkStep ==
  ASSUME IInv, SampleChunk
  PROVE  IInv'
<1>1. /\ cfg' = cfg /\ trajs' = trajs /\ cache' = cache /\ counter' = counter /\ version' = version
      /\ loaded' = loaded /\ source' = source /\ files' = files /\ writing' = writing
      /\ flushes' = flushes /\ disk' = disk /\ work' = work /\ good' = good /\ added' = added
      /\ main.pc = "idle" /\ win' = [version |-> version, trajs |-> Window]
  BY DEF SampleChunk, bufferVars, poolVars, saveVars, bounds
<1>2. main' = [main EXCEPT !.pc = "raised"] \/ main' = main
  BY DEF SampleChunk
<1>3. main'.pc \in {"idle", "raised"} /\ main' = [pc |-> main'.pc, batch |-> main.batch]
  BY <1>1, <1>2 DEF IInv, Main
<1>4. Main'
  BY <1>1, <1>3 DEF IInv, Main, Ids
<1>5. Windowed'
  <2>1. Window = WindowOf(trajs)
    BY DEF IInv, Windowed, WindowRecent, Window
  <2>2. version \in Nat
    BY DEF IInv, Types
  <2>3. win' = [version |-> win'.version, trajs |-> win'.trajs] /\ win'.version = version /\ win'.trajs = Window
    BY <1>1
  <2>4. WindowOf(trajs)' = WindowOf(trajs)
    BY <1>1 DEF WindowOf, LastN
  <2>5. win'.version \in Int /\ win'.version <= version'
    BY <1>1, <2>2, <2>3
  <2> QED
    BY <2>1, <2>3, <2>4, <2>5 DEF Windowed, WindowRecent
<1> QED
  BY <1>1, <1>3, <1>4, <1>5, CacheSame, FromSourceSame, WrittenSame, WritesSame, FlushedSame,
     SavingSame, GoodSame, TypesSame DEF IInv

\* What is saved of a cached trajectory is what is in the index.
LEMMA ContentIs ==
  ASSUME IInv, NEW j \in Recent(trajs, Size)
  PROVE  Content(trajs[j].id) = trajs[j].data /\ j \in 1..Len(trajs)
<1>1. Run(trajs, counter) /\ cfg \in Configs /\ Shape(cache)
  BY DEF IInv, Types, CacheOf
<1>2. j \in 1..Len(trajs)
  <2>1. PICK C \in Nat : C = Size
    BY <1>1, ConfigFacts
  <2> QED
    BY <1>1, <2>1, RecentSlot, TrajFacts
<1>3. trajs[j] \in Traj
  BY <1>1, <1>2, TrajFacts
<1>4. PICK m \in Nat \ {0} : m = trajs[j].samples
  BY <1>3 DEF Traj
<1>5. At(cache, SlotIn(cache, trajs, j), trajs[j])
  BY DEF IInv, CacheOf
<1> DEFINE d == trajs[j].data
           id == trajs[j].id
<1> DEFINE held == [k \in 0..(m - 1) |-> <<d, k>>]
<1>6. CacheGet(cache, id) = held
  BY <1>4, <1>5 DEF At, CacheGet
<1> DEFINE fits(e) == held = [k \in DOMAIN held |-> <<e, k>>]
           all == {t.data : t \in ToSet(trajs)}
<1>7. Content(id) = IF {e \in all : fits(e)} = {} THEN Partial
                    ELSE CHOOSE e \in {e \in all : fits(e)} : TRUE
  <2>1. PICK h : h = CacheGet(cache, id)
    OBVIOUS
  <2>2. h = held
    BY <1>6, <2>1
  <2> HIDE DEF held
  <2> QED
    BY <2>1, <2>2 DEF Content
<1>8. d \in all
  <2>1. j \in DOMAIN trajs
    BY <1>1, <1>2, TrajFacts
  <2> QED
    BY <1>4, <2>1 DEF ToSet
<1>9. fits(d)
  OBVIOUS
<1>10. \A e : fits(e) => e = d
  <2> SUFFICES ASSUME NEW e, fits(e) PROVE e = d
    OBVIOUS
  <2>1. 0 \in 0..(m - 1) /\ DOMAIN held = 0..(m - 1) /\ held[0] = <<d, 0>>
    OBVIOUS
  <2>2. [k \in DOMAIN held |-> <<e, k>>][0] = <<e, 0>>
    BY <2>1
  <2>3. <<d, 0>> = <<e, 0>>
    BY <2>1, <2>2
  <2> QED
    BY <2>3
<1> HIDE DEF fits, all
<1>11. {e \in all : fits(e)} = {d}
  BY <1>8, <1>9, <1>10
<1> QED
  BY <1>2, <1>4, <1>7, <1>11

LEMMA BeginSaveStep ==
  ASSUME CheckpointsInMemory, IInv, BeginSave
  PROVE  IInv'
<1>0. ~cfg.auto
  BY DEF CheckpointsInMemory, BeginSave, IInv, Types
<1>1. /\ cfg' = cfg /\ trajs' = trajs /\ cache' = cache /\ counter' = counter /\ version' = version
      /\ loaded' = loaded /\ source' = source /\ win' = win /\ files' = files /\ writing' = writing
      /\ flushes' = flushes /\ disk' = disk /\ good' = good /\ added' = added
      /\ main.pc = "idle" /\ main' = [main EXCEPT !.pc = "saving"]
      /\ work' = [todo |-> ToSave, files |-> NoFiles, step |-> "copy"]
  BY <1>0, ConfigFacts DEF BeginSave, bufferVars, poolVars, IInv, Types
<1>2. main' = [pc |-> "saving", batch |-> main.batch]
  BY <1>1 DEF IInv, Main
<1>3. ~cfg.auto
  BY <1>0
<1>4. Main'
  BY <1>1, <1>2 DEF IInv, Main, Ids
<1>5. DOMAIN cache.slotOf = {trajs[j].id : j \in Recent(trajs, Size)}
  BY DEF IInv, CacheOf, Filled, Cached
<1>6. ToSave = {[id |-> i, data |-> Content(i)] : i \in DOMAIN cache.slotOf}
  BY <1>3 DEF ToSave
<1>7. Saving'
  <2>1. ASSUME NEW x \in ToSave
        PROVE  \E j \in 1..Len(trajs) : x.id = trajs[j].id /\ x.data = trajs[j].data
    <3>1. PICK i \in DOMAIN cache.slotOf : x = [id |-> i, data |-> Content(i)]
      BY <1>6
    <3>2. PICK j \in Recent(trajs, Size) : i = trajs[j].id
      BY <1>5
    <3> QED
      BY <3>1, <3>2, ContentIs
  <2>2. ASSUME NEW j \in Recent(trajs, Size)
        PROVE  \E x \in ToSave : x.id = trajs[j].id /\ x.data = trajs[j].data
    <3>1. PICK i \in DOMAIN cache.slotOf : i = trajs[j].id
      BY <1>5
    <3>2. [id |-> i, data |-> Content(i)] \in ToSave
      BY <1>6
    <3> QED
      BY <3>1, <3>2, ContentIs
  <2>3. (\A j \in Recent(trajs, Size) : Saved(work.files, trajs, j) \/ ToCopy(trajs, j))'
    BY <1>1, <2>2 DEF ToCopy, Recent, Size, Slots, CacheSize
  <2> QED
    BY <1>1, <1>3, <2>1, <2>3 DEF Saving
<1> QED
  BY <1>1, <1>4, <1>7, CacheSame, WindowedSame, FromSourceSame, WrittenSame, WritesSame, FlushedSame,
     GoodSame, TypesSame DEF IInv

LEMMA CopyFileStep ==
  ASSUME IInv, CopyFile
  PROVE  IInv'
<1>1. PICK x \in work.todo :
        work' = [work EXCEPT !.todo = @ \ {x},
                             !.files = Put(@, x.id, IF cfg.auto THEN files[x.id] ELSE x.data)]
  BY DEF CopyFile
<1>2. /\ cfg' = cfg /\ trajs' = trajs /\ cache' = cache /\ counter' = counter /\ version' = version
      /\ loaded' = loaded /\ source' = source /\ win' = win /\ files' = files /\ writing' = writing
      /\ flushes' = flushes /\ disk' = disk /\ good' = good /\ added' = added /\ main' = main
  BY DEF CopyFile, bufferVars, poolVars, bounds
<1>3. Main'
  BY <1>2 DEF IInv, Main, Ids
<1>4. PICK v : v = IF cfg.auto THEN files[x.id] ELSE x.data
  OBVIOUS
<1>5. work = [todo |-> work.todo, files |-> work.files, step |-> work.step]
  BY DEF IInv, Saving
<1>6. work' = [todo |-> work.todo \ {x}, files |-> Put(work.files, x.id, v), step |-> work.step]
  BY <1>1, <1>4, <1>5
<1>7. Saving'
  <2>1. work' = [todo |-> work'.todo, files |-> work'.files, step |-> work'.step]
    BY <1>6
  <2> SUFFICES ASSUME main.pc = "saving" PROVE Saving'
    BY <1>2, <2>1 DEF Saving
  <2>2. /\ ~cfg.auto
        /\ \A y \in work.todo : \E j \in 1..Len(trajs) : y.id = trajs[j].id /\ y.data = trajs[j].data
        /\ \A j \in Recent(trajs, Size) : Saved(work.files, trajs, j) \/ ToCopy(trajs, j)
    BY DEF IInv, Saving
  <2>3. PICK i \in 1..Len(trajs) : x.id = trajs[i].id /\ x.data = trajs[i].data
    BY <2>2
  <2>4. v = trajs[i].data
    BY <1>4, <2>2, <2>3
  <2>5. Run(trajs, counter)
    BY DEF IInv, Types
  <2>6. ASSUME NEW j \in Recent(trajs, Size)
        PROVE  Saved(Put(work.files, x.id, v), trajs, j) \/ ToCopy(trajs, j)'
    <3>1. j \in 1..Len(trajs)
      BY ContentIs
    <3>2. CASE trajs[j].id = x.id
      <4>1. trajs[j] = trajs[i]
        BY <2>3, <2>5, <3>1, <3>2, TrajFacts
      <4> QED
        BY <2>4, <3>2, <4>1 DEF Saved, Put
    <3>3. CASE trajs[j].id # x.id
      <4>1. Saved(work.files, trajs, j) => Saved(Put(work.files, x.id, v), trajs, j)
        BY <3>3 DEF Saved, Put
      <4>2. ToCopy(trajs, j) => ToCopy(trajs, j)'
        BY <1>2, <1>6, <3>3 DEF ToCopy
      <4> QED
        BY <2>2, <4>1, <4>2
    <3> QED
      BY <3>2, <3>3
  <2>7. (\A j \in Recent(trajs, Size) : Saved(work.files, trajs, j) \/ ToCopy(trajs, j))'
    BY <1>2, <1>6, <2>6 DEF Saved, Recent, Size, Slots, CacheSize
  <2> QED
    BY <1>2, <1>6, <2>1, <2>2, <2>7 DEF Saving
<1> QED
  BY <1>2, <1>3, <1>7, CacheSame, WindowedSame, FromSourceSame, WrittenSame, WritesSame, FlushedSame,
     GoodSame, TypesSame DEF IInv

LEMMA EndSaveStep ==
  ASSUME IInv, EndSave
  PROVE  IInv'
<1>1. /\ cfg' = cfg /\ trajs' = trajs /\ cache' = cache /\ counter' = counter /\ version' = version
      /\ loaded' = loaded /\ source' = source /\ win' = win /\ files' = files /\ writing' = writing
      /\ flushes' = flushes /\ disk' = disk /\ added' = added
      /\ main.pc = "saving" /\ main' = [main EXCEPT !.pc = "idle"] /\ work.todo = {}
      /\ good' = [files |-> work.files, trajs |-> trajs, counter |-> counter]
      /\ work' = [work EXCEPT !.step = "done"]
  BY DEF EndSave, CopiesDone, bufferVars, poolVars, bounds
<1>2. main' = [pc |-> "idle", batch |-> main.batch]
  BY <1>1 DEF IInv, Main
<1>3. Main'
  BY <1>1, <1>2 DEF IInv, Main, Ids
<1>4. Saving'
  <2>1. work' = [todo |-> work'.todo, files |-> work'.files, step |-> work'.step]
    BY <1>1 DEF IInv, Saving
  <2> QED
    BY <1>2, <2>1 DEF Saving
<1>5. Good'
  <2>1. ~cfg.auto /\ \A j \in Recent(trajs, Size) : Saved(work.files, trajs, j)
    BY <1>1 DEF IInv, Saving, ToCopy
  <2>2. Run(trajs, counter)
    BY DEF IInv, Types
  <2> QED
    BY <1>1, <2>1, <2>2 DEF Good, Run, Saved, Recent, Size, Slots, CacheSize
<1> QED
  BY <1>1, <1>3, <1>4, <1>5, CacheSame, WindowedSame, FromSourceSame, WrittenSame, WritesSame,
     FlushedSame, TypesSame DEF IInv

LEMMA CrashStep ==
  ASSUME CheckpointsInMemory, IInv, Crash
  PROVE  IInv'
<1>1. /\ trajs' = <<>> /\ counter' = 0 /\ version' = 0 /\ win' = [version |-> -1, trajs |-> <<>>]
      /\ cache' = EmptyCache /\ loaded' = {} /\ source' = NoFiles
      /\ main' = [pc |-> "new", batch |-> {}] /\ writing' = {} /\ flushes' = <<>>
      /\ work' = [todo |-> {}, files |-> NoFiles, step |-> "none"]
      /\ cfg' = cfg /\ disk' = disk /\ good' = good /\ added' = added
  BY DEF Crash
<1>2. cfg \in Configs /\ Built(cfg) /\ added \in Nat /\ ~cfg.auto
  BY DEF CheckpointsInMemory, Crash, IInv, Types
<1>3. Types'
  <2>1. Run(trajs, counter)'
    BY <1>1, NoRun DEF Run
  <2> QED
    BY <1>1, <1>2, <2>1 DEF Types
<1>4. Main'
  BY <1>1 DEF Main
<1>5. Windowed'
  BY <1>1 DEF Windowed, WindowRecent
<1>6. CacheOf(cache, trajs)'
  <2>1. CacheOf(cache', trajs')
    BY <1>1, <1>2, EmptyHolds
  <2> QED
    BY <1>1, <2>1, CacheOfPrime
<1>7. FromSource' /\ Written' /\ Writes' /\ Flushed'
  BY <1>1, <1>2 DEF FromSource, Written, Writes, Flushed, IInv
<1>8. Saving' /\ Good'
  BY <1>1, GoodSame DEF Saving, IInv
<1> QED
  BY <1>3, <1>4, <1>5, <1>6, <1>7, <1>8 DEF IInv

LEMMA IInvStep ==
  ASSUME CheckpointsInMemory, IInv, [Next]_vars
  PROVE  IInv'
<1>1. CASE Start
  BY <1>1, StartEmptyStep, StartFromDemosStep, ResumeStep DEF Start
<1>2. CASE Add \/ EndAdd
  BY <1>2, AddStep, EndAddStep
<1>3. CASE Pool
  BY <1>3, OpenFileStep, CloseFileStep, FlushMetaStep, FlushIndexStep DEF Pool
<1>4. CASE SampleChunk
  BY <1>4, SampleChunkStep
<1>5. CASE Save
  BY <1>5, BeginSaveStep, CopyFileStep, EndSaveStep DEF Save
<1>6. CASE Crash
  BY <1>6, CrashStep
<1>7. CASE UNCHANGED vars
  BY <1>7, IInvStutter
<1> QED
  BY <1>1, <1>2, <1>3, <1>4, <1>5, <1>6, <1>7 DEF Next

-----------------------------------------------------------------------------
(* What the invariant says of the three properties.                        *)

\* The members of the window that is drawn from.
LEMMA WindowMembers ==
  ASSUME cfg \in Configs, NEW s \in Seq(Traj), NEW t \in ToSet(WindowOf(s))
  PROVE  \E j \in Reach(s) : j \in 1..Len(s) /\ t = s[j]
<1>1. PICK w \in Nat : w = cfg.window
  BY ConfigFacts
<1>2. CASE w = 0
  BY <1>1, <1>2 DEF WindowOf, ToSet, Reach
<1>3. CASE w # 0
  <2>1. PICK r \in Seq(Traj) : r = LastN(s, w) /\ r = WindowOf(s)
    BY <1>1, <1>3, LastNFacts DEF WindowOf
  <2>2. PICK i \in 1..Len(r) : t = r[i]
    BY <2>1 DEF ToSet
  <2>3. PICK j \in Recent(s, w) : t = s[j]
    <3>1. \A k \in 1..Len(LastN(s, w)) : \E j \in Recent(s, w) : LastN(s, w)[k] = s[j]
      BY LastNRecent
    <3> QED
      BY <2>1, <2>2, <3>1
  <2>4. Len(s) \in Nat
    OBVIOUS
  <2>5. j \in 1..Len(s)
    BY <2>4 DEF Recent
  <2> QED
    BY <1>1, <1>3, <2>3, <2>5 DEF Reach
<1> QED
  BY <1>2, <1>3

\* A trajectory of the window that is not in the cache is of a buffer with auto_save.
LEMMA OutOfCache ==
  ASSUME IInv, NEW j \in Reach(trajs), trajs[j].id \notin DOMAIN cache.slotOf
  PROVE  cfg.auto
<1>1. ~cfg.auto => Reach(trajs) = Recent(trajs, Size)
  BY ConfigFacts DEF IInv, Types, Reach
<1>2. DOMAIN cache.slotOf = {trajs[k].id : k \in Recent(trajs, Size)}
  BY DEF IInv, CacheOf, Filled, Cached
<1> QED
  BY <1>1, <1>2

LEMMA TypeHolds == IInv => TypeOK
<1> SUFFICES ASSUME IInv PROVE TypeOK
  OBVIOUS
<1>1. cfg \in Configs /\ version \in Nat /\ Run(trajs, counter) /\ Shape(cache)
  BY DEF IInv, Types, CacheOf
<1>2. PICK C \in Nat : C = Size
  BY <1>1, ConfigFacts
<1>3. counter \in Nat /\ Ids(trajs) \subseteq 0..(counter - 1)
  BY <1>1, TrajFacts
<1>4. cache.last \in 0..Max({Slots - 1, 0})
  <2>1. cache.last \in Nat /\ (cache.last < C \/ cache.last = 0)
    BY <1>1, <1>2 DEF Shape
  <2>2. Max({C - 1, 0}) = IF C = 0 THEN 0 ELSE C - 1
    <3>1. {C - 1, 0} \in SUBSET Int
      OBVIOUS
    <3>2. CASE C = 0
      <4>1. \A y \in {C - 1, 0} : 0 >= y
        BY <3>2
      <4> QED
        BY <3>1, <3>2, <4>1, MaxIs
    <3>3. CASE C # 0
      <4>1. \A y \in {C - 1, 0} : C - 1 >= y
        BY <3>3
      <4> QED
        BY <3>1, <3>3, <4>1, MaxIs
    <3> QED
      BY <3>2, <3>3
  <2>3. cache.last \in 0..Max({C - 1, 0})
    BY <2>1, <2>2
  <2> QED
    BY <1>2, <2>3 DEF Size
<1>5. Range(cache.slotOf) \subseteq 0..(C - 1)
  <2> SUFFICES ASSUME NEW id \in DOMAIN cache.slotOf PROVE cache.slotOf[id] \in 0..(C - 1)
    BY DEF Range
  <2>1. PICK j \in Recent(trajs, Size) : id = trajs[j].id
    BY DEF IInv, CacheOf, Filled, Cached
  <2>2. cache.slotOf[id] = SlotIn(cache, trajs, j)
    BY <2>1 DEF IInv, CacheOf, At
  <2> QED
    BY <1>1, <1>2, <2>2, RecentSlot, TrajFacts
<1>6. DOMAIN cache.buf = 0..(C * cache.len - 1)
  BY <1>1, <1>2 DEF Shape
<1>7. main.pc \in {"new", "idle", "adding", "saving", "raised"} /\ main.batch \subseteq Ids(trajs)
  BY DEF IInv, Main
<1> QED
  BY <1>1, <1>2, <1>3, <1>4, <1>5, <1>6, <1>7 DEF TypeOK, Size

LEMMA SampleHolds == IInv => SampleRight
<1> SUFFICES ASSUME IInv, NEW t \in ToSet(Window), NEW i \in 0..(t.samples - 1)
             PROVE  Fetch(t, i) \in {Raised, <<t.data, i>>}
  BY DEF SampleRight
<1>1. Window = WindowOf(trajs)
  BY DEF IInv, Windowed, WindowRecent, Window
<1>2. PICK j \in Reach(trajs) : j \in 1..Len(trajs) /\ t = trajs[j]
  BY <1>1, WindowMembers, TrajFacts DEF IInv, Types
<1>3. CASE t.id \in DOMAIN cache.slotOf
  <2>1. PICK k \in Recent(trajs, Size) : t.id = trajs[k].id
    BY <1>3 DEF IInv, CacheOf, Filled, Cached
  <2>2. t = trajs[k]
    BY <1>2, <2>1, ContentIs, TrajFacts DEF IInv, Types
  <2>3. At(cache, SlotIn(cache, trajs, k), t)
    BY <2>2 DEF IInv, CacheOf
  <2>4. cache.buf[cache.slotOf[t.id] * cache.len + i] = <<t.data, i>>
    BY <2>3 DEF At
  <2> QED
    BY <1>3, <2>4 DEF Fetch
<1>4. CASE t.id \notin DOMAIN cache.slotOf
  <2>1. cfg.auto
    BY <1>2, <1>4, OutOfCache
  <2>2. Complete(DirOf(t.id), t.id) => DirOf(t.id)[t.id] = t.data
    <3>1. CASE t.id \in loaded
      BY <1>2, <2>1, <3>1 DEF IInv, FromSource, Saved, DirOf
    <3>2. CASE t.id \notin loaded
      <4>1. WrittenAt(j)
        BY <1>2, <2>1 DEF IInv, Written
      <4> QED
        BY <1>2, <3>2, <4>1 DEF WrittenAt, Complete, DirOf
    <3> QED
      BY <3>1, <3>2
  <2> QED
    BY <1>4, <2>2 DEF Fetch
<1> QED
  BY <1>3, <1>4

LEMMA NothingLostHolds == IInv => NothingLost
<1> SUFFICES ASSUME IInv, NEW t \in ToSet(WindowOf(trajs)), t.id \notin DOMAIN cache.slotOf
             PROVE  \/ Complete(DirOf(t.id), t.id) /\ DirOf(t.id)[t.id] = t.data
                    \/ \E w \in writing : w.id = t.id /\ w.data = t.data
  BY DEF NothingLost
<1>1. PICK j \in Reach(trajs) : j \in 1..Len(trajs) /\ t = trajs[j]
  BY WindowMembers, TrajFacts DEF IInv, Types
<1>2. cfg.auto
  BY <1>1, OutOfCache
<1>3. t.data # Partial
  <2>1. t \in Traj
    BY <1>1, TrajFacts DEF IInv, Types
  <2> QED
    BY <2>1 DEF Traj
<1>4. CASE t.id \in loaded
  BY <1>1, <1>2, <1>3, <1>4 DEF IInv, FromSource, Saved, DirOf, Complete
<1>5. CASE t.id \notin loaded
  <2>1. WrittenAt(j)
    BY <1>1, <1>2 DEF IInv, Written
  <2> QED
    BY <1>1, <1>3, <1>5, <2>1 DEF WrittenAt, Pending, Saved, DirOf, Complete
<1> QED
  BY <1>4, <1>5

LEMMA IInvHolds == CheckpointsInMemory /\ CachesBuilt /\ Spec => []IInv
<1> SUFFICES ASSUME CheckpointsInMemory, CachesBuilt PROVE Spec => []IInv
  OBVIOUS
<1>1. IInv /\ [Next]_vars => IInv'
  BY IInvStep
<1> QED
  BY <1>1, IInvInit, PTL DEF Spec

(* A sample is always of the trajectory and the place that were drawn, and *)
(* the window is that of the most recent trajectories: for any sizes of    *)
(* the cache and the window, whatever the lengths of the trajectories and  *)
(* in which order slots grow, are taken over, saved and loaded.            *)
THEOREM SamplesAreRight == CheckpointsInMemory /\ CachesBuilt /\ Spec => []SamplesRight
<1>1. IInv => SamplesRight
  BY TypeHolds, SampleHolds DEF SamplesRight, IInv, Windowed
<1> QED
  BY <1>1, IInvHolds, PTL

(* Every trajectory that can be drawn can be had: from the cache, from its *)
(* file, or from the file once the save that is under way has ended.  It   *)
(* is about buffers that keep what is added, CachesBuilt: one with neither *)
(* auto_save nor enable_cache keeps nothing.                               *)
THEOREM NothingIsLost == CheckpointsInMemory /\ CachesBuilt /\ Spec => []NothingLost
BY NothingLostHolds, IInvHolds, PTL

-----------------------------------------------------------------------------
(* Flushes, whatever was loaded.  FlushedIsSaved needs no hypothesis: also *)
(* when a start from a checkpoint fails, or finds files of an earlier      *)
(* process under the ids that it gives again, a flush that is done has its *)
(* own files and its own ids in the index.                                 *)

\* The file of a trajectory is complete, or a save of it is under way.
OnItsWay(id) == Complete(files, id) \/ \E w \in writing : w.id = id

Calls == {flushes[k] : k \in 1..Len(flushes)}
Promised(f) ==
  /\ f.ids \subseteq Ids(trajs) /\ \A id \in f.ids : OnItsWay(id)
  /\ f.step # "wait" => SavesDone(f)
  /\ f.step = "done" => f.ids \subseteq Ids(disk.trajs)

OwnerOfFlushes ==
  /\ cfg \in Configs /\ added \in Nat
  /\ Run(trajs, counter) /\ Run(good.trajs, good.counter)
  /\ main = [pc |-> main.pc, batch |-> main.batch]
  /\ main.batch \subseteq Ids(trajs)
  /\ cfg.auto => \A id \in main.batch : OnItsWay(id)
  /\ main.pc = "new" => main.batch = {} /\ flushes = <<>>

FlushInv ==
  /\ OwnerOfFlushes
  /\ \A w \in writing : w = [id |-> w.id, data |-> w.data, open |-> w.open] /\ w.data # Partial
  /\ disk = [meta |-> disk.meta, trajs |-> disk.trajs]
  /\ flushes \in Seq(FlushCall) /\ \A f \in Calls : Promised(f)

\* What is added to the index, and what is closed, takes nothing from a flush.
LEMMA PromisedKept ==
  ASSUME NEW f, Promised(f), Ids(trajs) \subseteq Ids(trajs'), disk' = disk,
         \A id \in f.ids : OnItsWay(id) => OnItsWay(id)', SavesDone(f) => SavesDone(f)'
  PROVE  Promised(f)'
BY DEF Promised, Ids

LEMMA FlushInvInit == Init => FlushInv
<1> SUFFICES ASSUME Init PROVE FlushInv
  OBVIOUS
<1>1. /\ cfg \in Configs /\ added = 0 /\ trajs = <<>> /\ counter = 0 /\ flushes = <<>>
      /\ good = [files |-> NoFiles, trajs |-> <<>>, counter |-> 0]
      /\ main = [pc |-> "new", batch |-> {}] /\ writing = {} /\ disk = [meta |-> 0, trajs |-> <<>>]
  BY DEF Init, Fresh
<1>2. OwnerOfFlushes
  BY <1>1, NoRun DEF OwnerOfFlushes
<1>3. flushes \in Seq(FlushCall) /\ Calls = {}
  BY <1>1 DEF Calls
<1> QED
  BY <1>1, <1>2, <1>3 DEF FlushInv

\* A step that leaves the pool and the index alone.
LEMMA FlushInvSame ==
  ASSUME FlushInv, cfg' = cfg, added' = added, trajs' = trajs, counter' = counter,
         files' = files, writing' = writing, flushes' = flushes, disk' = disk,
         main' = [pc |-> main'.pc, batch |-> main.batch], main'.pc # "new" \/ main'.pc = main.pc,
         Run(good.trajs, good.counter)'
  PROVE  FlushInv'
<1>1. main'.batch = main.batch
  OBVIOUS
<1>2. Ids(trajs)' = Ids(trajs) /\ Calls' = Calls /\ \A id : OnItsWay(id)' <=> OnItsWay(id)
  BY DEF Ids, Calls, OnItsWay, Complete
<1>3. OwnerOfFlushes'
  <2>1. Run(trajs, counter)'
    BY DEF FlushInv, OwnerOfFlushes, Run
  <2> QED
    BY <1>1, <1>2, <2>1 DEF FlushInv, OwnerOfFlushes
<1>4. ASSUME NEW f \in Calls' PROVE Promised(f)'
  <2>1. Promised(f) /\ SavesDone(f)' = SavesDone(f)
    BY <1>2 DEF FlushInv, SavesDone
  <2>2. Ids(trajs) \subseteq Ids(trajs')
    BY <1>2 DEF Ids
  <2> QED
    BY <1>2, <2>1, <2>2, PromisedKept
<1> QED
  BY <1>3, <1>4 DEF FlushInv

\* A start from nothing, from demonstrations or from a checkpoint, failed or not.
LEMMA StartKeepsFlushes ==
  ASSUME FlushInv, Start
  PROVE  FlushInv'
<1>1. main.pc = "new" /\ main.batch = {} /\ flushes = <<>>
  BY DEF Start, StartEmpty, StartFromDemos, Resume, FlushInv, OwnerOfFlushes
<1>2. ASSUME NEW s, NEW next, NEW dir, Run(s, next), Load(s, next, dir)
      PROVE  FlushInv'
  <2>1. /\ cfg' = cfg /\ added' = added /\ trajs' = s /\ counter' = next /\ good' = good
        /\ files' = files /\ writing' = writing /\ flushes' = flushes /\ disk' = disk
        /\ main' = [main EXCEPT !.pc = "idle"] \/ main' = [main EXCEPT !.pc = "failed"]
    BY <1>2 DEF Load, poolVars, saveVars, bounds
  <2>2. main' = [pc |-> main'.pc, batch |-> {}] /\ main'.pc # "new"
    BY <1>1, <2>1 DEF FlushInv, OwnerOfFlushes
  <2>3. main'.batch = {}
    BY <2>2
  <2>4. Run(trajs, counter)' /\ Run(good.trajs, good.counter)'
    BY <1>2, <2>1 DEF FlushInv, OwnerOfFlushes, Run
  <2>5. OwnerOfFlushes'
    BY <2>1, <2>2, <2>3, <2>4 DEF FlushInv, OwnerOfFlushes
  <2>6. Calls' = {}
    BY <1>1, <2>1 DEF Calls
  <2> QED
    BY <2>1, <2>5, <2>6 DEF FlushInv
<1>3. CASE StartEmpty
  <2>1. /\ cfg' = cfg /\ added' = added /\ trajs' = trajs /\ counter' = counter /\ good' = good
        /\ files' = files /\ writing' = writing /\ flushes' = flushes /\ disk' = disk
        /\ main' = [main EXCEPT !.pc = "idle"]
    BY <1>3 DEF StartEmpty, bufferVars, poolVars, saveVars, bounds
  <2>2. main' = [pc |-> "idle", batch |-> main.batch]
    BY <2>1 DEF FlushInv, OwnerOfFlushes
  <2>3. Run(good.trajs, good.counter)'
    BY <2>1 DEF FlushInv, OwnerOfFlushes, Run
  <2> QED
    BY <2>1, <2>2, <2>3, FlushInvSame
<1>4. CASE StartFromDemos
  <2>1. PICK world \in Worlds : \E rank \in 0..(world - 1) :
          LET part == Part(DemoTrajs, rank, world) IN Load(part, CounterAfter(part), DemoFiles)
    BY <1>4 DEF StartFromDemos
  <2>2. PICK rank \in 0..(world - 1) :
          LET part == Part(DemoTrajs, rank, world) IN Load(part, CounterAfter(part), DemoFiles)
    BY <2>1
  <2>3. PICK part, next, dir : /\ part = Part(DemoTrajs, rank, world) /\ next = CounterAfter(part)
                               /\ Load(part, next, dir)
    BY <2>2
  <2>4. Run(part, next)
    BY <2>3, DemoFacts DEF FlushInv, OwnerOfFlushes
  <2> QED
    BY <1>2, <2>3, <2>4
<1>5. CASE Resume
  <2>1. PICK s, next, dir : s = good.trajs /\ next = good.counter /\ dir = good.files
    OBVIOUS
  <2>2. Run(s, next) /\ Load(s, next, dir)
    BY <1>5, <2>1 DEF Resume, FlushInv, OwnerOfFlushes
  <2> QED
    BY <1>2, <2>2
<1> QED
  BY <1>3, <1>4, <1>5 DEF Start

\* A new trajectory has an id that no flush has.
LEMMA AddKeepsFlushes ==
  ASSUME FlushInv, Add
  PROVE  FlushInv'
<1>0. PICK p \in {"adding", "stopped"} : p = IF PutRaises THEN "stopped" ELSE "adding"
  OBVIOUS
<1>1. PICK n \in cfg.lengths :
        LET t == [id |-> counter, data |-> added + 1, samples |-> n]
        IN  /\ trajs' = Append(trajs, t)
            /\ writing' = IF cfg.auto
                          THEN writing \union {[id |-> t.id, data |-> t.data, open |-> FALSE]}
                          ELSE writing
            /\ main' = [pc |-> p, batch |-> main.batch \union {t.id}]
  BY <1>0 DEF Add
<1>2. /\ cfg' = cfg /\ files' = files /\ flushes' = flushes /\ disk' = disk /\ good' = good
      /\ counter' = counter + 1 /\ added' = added + 1
  BY DEF Add, saveVars
<1>3. cfg \in Configs /\ added \in Nat /\ Run(trajs, counter) /\ counter \in Nat
  BY DEF FlushInv, OwnerOfFlushes, Run
<1>4. PICK t : t = [id |-> counter, data |-> added + 1, samples |-> n]
  OBVIOUS
<1>5. t \in Traj /\ t.id = counter /\ t.data # Partial
  <2>1. n \in Nat \ {0}
    BY <1>3, ConfigFacts
  <2> QED
    BY <1>3, <1>4, <2>1 DEF Traj, Partial
<1>6. /\ trajs' = Append(trajs, t) /\ main' = [pc |-> p, batch |-> main.batch \cup {counter}]
      /\ writing' = IF cfg.auto
                    THEN writing \cup {[id |-> counter, data |-> t.data, open |-> FALSE]} ELSE writing
  BY <1>1, <1>4
<1>7. /\ Run(trajs', counter + 1) /\ Ids(trajs') = Ids(trajs) \cup {counter}
      /\ counter \notin Ids(trajs)
  BY <1>3, <1>5, <1>6, AppendFacts
<1>8. \A id : OnItsWay(id) => OnItsWay(id)'
  BY <1>2, <1>6 DEF OnItsWay, Complete
<1>9. OwnerOfFlushes'
  <2>1. Run(trajs, counter)' /\ Run(good.trajs, good.counter)'
    BY <1>2, <1>7 DEF FlushInv, OwnerOfFlushes, Run
  <2>2. Ids(trajs)' = Ids(trajs) \cup {counter}
    BY <1>7 DEF Ids
  <2>3. main'.pc # "new" /\ main'.batch = main.batch \cup {counter}
    BY <1>6
  <2>4. ASSUME cfg.auto, NEW id \in main'.batch PROVE OnItsWay(id)'
    <3>1. CASE id \in main.batch
      BY <1>8, <2>4, <3>1 DEF FlushInv, OwnerOfFlushes
    <3>2. CASE id = counter
      <4>1. PICK x : x = counter /\ OnItsWay(x)'
        <5>1. PICK x : x = [id |-> counter, data |-> t.data, open |-> FALSE]
          OBVIOUS
        <5>2. x.id = counter /\ x \in writing'
          BY <1>6, <2>4, <5>1
        <5>3. PICK y : y = counter
          OBVIOUS
        <5>4. OnItsWay(y)'
          BY <5>2, <5>3 DEF OnItsWay
        <5> QED
          BY <5>3, <5>4
      <4> QED
        BY <3>2, <4>1
    <3> QED
      BY <2>3, <2>4, <3>1, <3>2
  <2>5. main'.batch \subseteq Ids(trajs)'
    BY <2>2, <2>3 DEF FlushInv, OwnerOfFlushes
  <2>6. cfg' \in Configs /\ added' \in Nat /\ main' = [pc |-> main'.pc, batch |-> main'.batch]
    BY <1>2, <1>3, <1>6
  <2> QED
    BY <1>2, <2>1, <2>3, <2>4, <2>5, <2>6 DEF OwnerOfFlushes
<1>10. ASSUME NEW f \in Calls' PROVE Promised(f)'
  <2>1. f \in Calls /\ Promised(f)
    BY <1>2 DEF Calls, FlushInv
  <2>2. counter \notin f.ids
    BY <1>7, <2>1 DEF Promised
  <2>3. SavesDone(f) => SavesDone(f)'
    BY <1>6, <2>2 DEF SavesDone
  <2> QED
    BY <1>2, <1>7, <1>8, <2>1, <2>3, PromisedKept
<1>11. \A w \in writing' : /\ w = [id |-> w.id, data |-> w.data, open |-> w.open]
                           /\ w.data # Partial
  BY <1>5, <1>6 DEF FlushInv
<1> QED
  BY <1>2, <1>9, <1>10, <1>11 DEF FlushInv

\* The flush that a call submits is of what it added.
LEMMA EndAddKeepsFlushes ==
  ASSUME FlushInv, EndAdd
  PROVE  FlushInv'
<1>1. /\ cfg' = cfg /\ trajs' = trajs /\ counter' = counter /\ files' = files /\ writing' = writing
      /\ disk' = disk /\ good' = good /\ added' = added /\ main' = [pc |-> "idle", batch |-> {}]
  BY DEF EndAdd, bufferVars, saveVars, bounds
<1>2. PICK f : f = [ids |-> main.batch, step |-> "wait", seen |-> trajs]
  OBVIOUS
<1>3. flushes' = IF cfg.auto THEN Append(flushes, f) ELSE flushes
  BY <1>2 DEF EndAdd
<1>4. f \in FlushCall
  <2>1. Ids(trajs) \subseteq Nat /\ trajs \in Seq(Traj)
    BY TrajFacts DEF FlushInv, OwnerOfFlushes
  <2> QED
    BY <1>2, <2>1 DEF FlushCall, FlushInv, OwnerOfFlushes
<1>5. OwnerOfFlushes'
  BY <1>1 DEF FlushInv, OwnerOfFlushes, Run
<1>6. /\ flushes' \in Seq(FlushCall)
      /\ \A g \in Calls' : g \in Calls \/ (cfg.auto /\ g = f)
  <2>1. PICK n \in Nat : n = Len(flushes) /\ flushes \in Seq(FlushCall)
    BY DEF FlushInv
  <2>2. CASE cfg.auto
    <3>1. /\ flushes' \in Seq(FlushCall) /\ Len(flushes') = n + 1 /\ flushes'[n + 1] = f
          /\ \A k \in 1..n : flushes'[k] = flushes[k]
      BY <1>3, <1>4, <2>1, <2>2, AppendSeq
    <3>2. \A k \in 1..(n + 1) : k \in 1..n \/ k = n + 1
      OBVIOUS
    <3> QED
      BY <2>1, <2>2, <3>1, <3>2 DEF Calls
  <2>3. CASE ~cfg.auto
    BY <1>3, <2>1, <2>3 DEF Calls
  <2> QED
    BY <2>2, <2>3
<1>7. Ids(trajs)' = Ids(trajs) /\ \A id : OnItsWay(id) => OnItsWay(id)'
  BY <1>1 DEF Ids, OnItsWay, Complete
<1>8. ASSUME NEW g \in Calls' PROVE Promised(g)'
  <2>1. CASE g \in Calls
    <3>1. Promised(g) /\ (SavesDone(g) => SavesDone(g)')
      BY <1>1, <2>1 DEF FlushInv, SavesDone
    <3>2. Ids(trajs) \subseteq Ids(trajs')
      BY <1>7 DEF Ids
    <3> QED
      BY <1>1, <1>7, <3>1, <3>2, PromisedKept
  <2>2. CASE cfg.auto /\ g = f
    <3>1. g.ids = main.batch /\ g.step = "wait"
      BY <1>2, <2>2
    <3> QED
      BY <1>7, <2>2, <3>1 DEF Promised, FlushInv, OwnerOfFlushes
  <2> QED
    BY <1>6, <2>1, <2>2
<1> QED
  BY <1>1, <1>5, <1>6, <1>8 DEF FlushInv

\* A file is opened for a save under way, which no flush that went on waits for.
LEMMA FilesKeepFlushes ==
  ASSUME FlushInv, OpenFile \/ CloseFile
  PROVE  FlushInv'
<1>1. PICK w, v, rest :
        /\ w \in writing
        /\ files' = Put(files, w.id, v) /\ writing' = (writing \ {w}) \cup rest
        /\ \/ v = w.data /\ rest = {}
           \/ rest = {[w EXCEPT !.open = TRUE]}
  <2>1. CASE OpenFile
    BY <2>1 DEF OpenFile
  <2>2. CASE CloseFile
    BY <2>2 DEF CloseFile
  <2> QED
    BY <2>1, <2>2
<1>2. PoolStep /\ flushes' = flushes /\ disk' = disk
  BY DEF OpenFile, CloseFile, PoolStep, bufferVars, saveVars, bounds
<1>3. \A x \in writing : x = [id |-> x.id, data |-> x.data, open |-> x.open] /\ x.data # Partial
  BY DEF FlushInv
<1>4. \A x \in rest : /\ x.id = w.id /\ x.data # Partial
                      /\ x = [id |-> x.id, data |-> x.data, open |-> x.open]
  <2>1. CASE rest = {}
    BY <2>1
  <2>2. CASE rest = {[w EXCEPT !.open = TRUE]}
    <3>1. PICK x : x = [w EXCEPT !.open = TRUE]
      OBVIOUS
    <3>2. w = [id |-> w.id, data |-> w.data, open |-> w.open] /\ w.data # Partial
      BY <1>1, <1>3
    <3>3. x = [id |-> w.id, data |-> w.data, open |-> TRUE]
      BY <3>1, <3>2
    <3>4. /\ x.id = w.id /\ x.data # Partial
          /\ x = [id |-> x.id, data |-> x.data, open |-> x.open]
      BY <3>2, <3>3
    <3> QED
      BY <2>2, <3>1, <3>4
  <2> QED
    BY <1>1, <2>1, <2>2
<1>5. ASSUME NEW id, OnItsWay(id) PROVE OnItsWay(id)'
  <2>1. CASE id = w.id
    <3>1. CASE rest = {}
      <4>1. v # Partial
        BY <1>1, <1>3, <3>1
      <4> QED
        BY <1>1, <2>1, <4>1 DEF OnItsWay, Complete, Put
    <3>2. CASE rest # {}
      BY <1>1, <1>4, <2>1, <3>2 DEF OnItsWay
    <3> QED
      BY <3>1, <3>2
  <2>2. CASE id # w.id
    <3>1. Complete(files, id) => Complete(files, id)'
      BY <1>1, <2>2 DEF Complete, Put
    <3> QED
      BY <1>1, <1>5, <2>2, <3>1 DEF OnItsWay
  <2> QED
    BY <2>1, <2>2
<1>6. OwnerOfFlushes'
  BY <1>2, <1>5 DEF FlushInv, OwnerOfFlushes, PoolStep, Run, Ids
<1>7. ASSUME NEW f \in Calls' PROVE Promised(f)'
  <2>1. f \in Calls /\ Promised(f)
    BY <1>2 DEF Calls, FlushInv
  <2>2. SavesDone(f) => SavesDone(f)'
    BY <1>1, <1>4 DEF SavesDone
  <2>3. Ids(trajs) \subseteq Ids(trajs')
    BY <1>2 DEF PoolStep
  <2> QED
    BY <1>2, <1>5, <2>1, <2>2, <2>3, PromisedKept
<1> QED
  BY <1>1, <1>2, <1>3, <1>4, <1>6, <1>7 DEF FlushInv

\* A flush goes on only without saves of its own, and ends with the whole index.
LEMMA FlushKeepsFlushes ==
  ASSUME FlushInv, FlushMeta \/ FlushIndex
  PROVE  FlushInv'
<1>1. PICK k \in DOMAIN flushes, st \in {"index", "done"} :
        /\ flushes' = [flushes EXCEPT ![k].step = st] /\ SavesDone(flushes[k])
        /\ disk' = [meta |-> disk'.meta, trajs |-> disk'.trajs]
        /\ \/ st = "index" /\ disk'.trajs = disk.trajs
           \/ disk'.trajs = trajs
  <2>1. CASE FlushMeta
    <3>1. PICK k \in DOMAIN flushes :
            /\ SavesDone(flushes[k]) /\ disk' = [disk EXCEPT !.meta = counter]
            /\ flushes' = [flushes EXCEPT ![k].step = "index"]
      BY <2>1 DEF FlushMeta
    <3>2. disk' = [meta |-> disk'.meta, trajs |-> disk'.trajs] /\ disk'.trajs = disk.trajs
      BY <3>1 DEF FlushInv
    <3> QED
      BY <3>1, <3>2
  <2>2. CASE FlushIndex
    <3>1. PICK k \in DOMAIN flushes :
            /\ flushes[k].step = "index" /\ disk' = [disk EXCEPT !.trajs = IndexNow(flushes[k])]
            /\ flushes' = [flushes EXCEPT ![k].step = "done"]
      BY <2>2 DEF FlushIndex
    <3>2. disk' = [meta |-> disk'.meta, trajs |-> disk'.trajs] /\ disk'.trajs = trajs
      BY <3>1 DEF FlushInv, IndexNow
    <3>3. flushes[k] \in Calls
      BY DEF Calls, FlushInv
    <3>4. SavesDone(flushes[k])
      BY <3>1, <3>3 DEF FlushInv, Promised
    <3> QED
      BY <3>1, <3>2, <3>4
  <2> QED
    BY <2>1, <2>2
<1>2. PoolStep /\ files' = files /\ writing' = writing
  BY DEF FlushMeta, FlushIndex, PoolStep, bufferVars, saveVars, bounds
<1>3. flushes \in Seq(FlushCall) /\ k \in 1..Len(flushes)
  BY DEF FlushInv
<1>4. PICK h : h = flushes[k] /\ h \in FlushCall /\ h \in Calls
  BY <1>3 DEF Calls
<1>5. PICK f \in FlushCall : f = [ids |-> h.ids, step |-> st, seen |-> h.seen]
  BY <1>4 DEF FlushCall
<1>6. flushes' \in Seq(FlushCall) /\ \A g \in Calls' : g \in Calls \/ g = f
  <2>1. [flushes[k] EXCEPT !.step = st] = f
    BY <1>4, <1>5 DEF FlushCall
  <2>2. flushes' = [flushes EXCEPT ![k] = f]
    BY <1>1, <1>3, <2>1
  <2>3. /\ flushes' \in Seq(FlushCall) /\ Len(flushes') = Len(flushes)
        /\ \A j \in 1..Len(flushes) : flushes'[j] = IF j = k THEN f ELSE flushes[j]
    BY <1>3, <2>2
  <2> QED
    BY <2>3 DEF Calls
<1>7. OwnerOfFlushes'
  <2>1. main.pc = "new" => FALSE
    BY <1>3 DEF FlushInv, OwnerOfFlushes
  <2>2. \A id : OnItsWay(id) => OnItsWay(id)'
    BY <1>2 DEF OnItsWay
  <2> QED
    BY <1>2, <2>1, <2>2 DEF FlushInv, OwnerOfFlushes, PoolStep, Run, Ids
<1>8. ASSUME NEW g \in Calls' PROVE Promised(g)'
  <2>1. /\ Ids(trajs)' = Ids(trajs) /\ Ids(disk.trajs)' = Ids(disk'.trajs)
        /\ SavesDone(g)' = SavesDone(g) /\ \A id : OnItsWay(id)' = OnItsWay(id)
    BY <1>2 DEF PoolStep, Ids, SavesDone, OnItsWay
  <2>2. ASSUME NEW x \in Calls PROVE Promised(x)
    BY DEF FlushInv
  <2>3. CASE g \in Calls
    <3>1. disk'.trajs = disk.trajs \/ disk'.trajs = trajs
      BY <1>1
    <3> QED
      BY <2>1, <2>2, <2>3, <3>1 DEF Promised
  <2>4. CASE g = f
    <3>1. g.ids = h.ids /\ g.step = st /\ Promised(h) /\ SavesDone(h)
      BY <1>1, <1>4, <1>5, <2>2, <2>4
    <3>2. SavesDone(g)
      BY <3>1 DEF SavesDone
    <3>3. g.step = "done" => disk'.trajs = trajs
      BY <1>1, <3>1
    <3> QED
      BY <2>1, <3>1, <3>2, <3>3 DEF Promised
  <2> QED
    BY <1>6, <2>3, <2>4
<1> QED
  BY <1>1, <1>2, <1>6, <1>7, <1>8 DEF FlushInv

\* Sampling and checkpoints; a checkpoint has the index of the buffer.
LEMMA OthersKeepFlushes ==
  ASSUME FlushInv, SampleChunk \/ Save \/ UNCHANGED vars
  PROVE  FlushInv'
<1> DEFINE others ==
      /\ cfg' = cfg /\ added' = added /\ trajs' = trajs /\ counter' = counter
      /\ files' = files /\ writing' = writing /\ flushes' = flushes /\ disk' = disk
<1>1. ASSUME others, NEW pc \in {"raised", "saving", "idle", "stopped"},
             main' = main \/ main' = [main EXCEPT !.pc = pc],
             good' = good \/ (good'.trajs = trajs /\ good'.counter = counter)
      PROVE  FlushInv'
  <2>1. main' = [pc |-> main'.pc, batch |-> main.batch] /\ (main'.pc # "new" \/ main'.pc = main.pc)
    BY <1>1 DEF FlushInv, OwnerOfFlushes
  <2>2. Run(good'.trajs, good'.counter)
    BY <1>1 DEF FlushInv, OwnerOfFlushes
  <2>3. Run(good.trajs, good.counter)'
    BY <2>2 DEF Run
  <2> QED
    BY <1>1, <2>1, <2>3, FlushInvSame
<1>2. CASE SampleChunk
  <2>1. others /\ good' = good
    BY <1>2 DEF SampleChunk, bufferVars, poolVars, saveVars, bounds
  <2>2. main' = main \/ main' = [main EXCEPT !.pc = "raised"]
    BY <1>2 DEF SampleChunk
  <2> QED
    BY <1>1, <2>1, <2>2
<1>3. CASE BeginSave
  <2>1. others /\ good' = good
    BY <1>3 DEF BeginSave, bufferVars, poolVars
  <2>2. main' = [main EXCEPT !.pc = "saving"] \/ main' = [main EXCEPT !.pc = "stopped"]
    BY <1>3 DEF BeginSave
  <2> QED
    BY <1>1, <2>1, <2>2
<1>4. CASE CopyFile
  <2>1. others /\ good' = good /\ main' = main
    BY <1>4 DEF CopyFile, bufferVars, poolVars, bounds
  <2> QED
    BY <1>1, <2>1
<1>5. CASE EndSave
  <2>1. others /\ main' = [main EXCEPT !.pc = "idle"]
    BY <1>5 DEF EndSave, bufferVars, poolVars, bounds
  <2>2. good' = [files |-> work.files, trajs |-> trajs, counter |-> counter]
    BY <1>5 DEF EndSave
  <2> QED
    BY <1>1, <2>1, <2>2
<1>6. CASE UNCHANGED vars
  <2>1. others /\ good' = good /\ main' = main
    BY <1>6 DEF vars, bufferVars, poolVars, saveVars, bounds
  <2> QED
    BY <1>1, <2>1
<1> QED
  BY <1>2, <1>3, <1>4, <1>5, <1>6 DEF Save

LEMMA CrashKeepsFlushes ==
  ASSUME FlushInv, Crash
  PROVE  FlushInv'
<1>1. /\ trajs' = <<>> /\ counter' = 0 /\ main' = [pc |-> "new", batch |-> {}] /\ writing' = {}
      /\ flushes' = <<>> /\ cfg' = cfg /\ disk' = disk /\ good' = good /\ added' = added
  BY DEF Crash
<1>2. Run(trajs, counter)' /\ Run(good.trajs, good.counter)'
  BY <1>1, NoRun DEF FlushInv, OwnerOfFlushes, Run
<1>3. OwnerOfFlushes'
  BY <1>1, <1>2 DEF FlushInv, OwnerOfFlushes
<1>4. flushes' \in Seq(FlushCall) /\ Calls' = {}
  BY <1>1 DEF Calls
<1> QED
  BY <1>1, <1>3, <1>4 DEF FlushInv

LEMMA FlushInvHolds == Spec => []FlushInv
<1>1. ASSUME FlushInv, [Next]_vars PROVE FlushInv'
  BY <1>1, StartKeepsFlushes, AddKeepsFlushes, EndAddKeepsFlushes, FilesKeepFlushes,
     FlushKeepsFlushes, OthersKeepFlushes, CrashKeepsFlushes DEF Next, Pool
<1> QED
  BY <1>1, FlushInvInit, PTL DEF Spec

LEMMA FlushHolds == FlushInv => FlushedIsSaved
<1> SUFFICES ASSUME FlushInv, NEW k \in DOMAIN flushes, flushes[k].step = "done",
                    NEW id \in flushes[k].ids
             PROVE  Complete(files, id) /\ id \in Ids(disk.trajs)
  BY DEF FlushedIsSaved
<1>1. Promised(flushes[k])
  BY DEF FlushInv, Calls
<1> QED
  BY <1>1 DEF Promised, OnItsWay, SavesDone

(* When the flush of a call has ended, the files of that call are complete *)
(* and the index in auto_save_path lists them: for every configuration,    *)
(* those with auto_save that start again from their checkpoints included.  *)
THEOREM FlushesAreTrue == Spec => []FlushedIsSaved
BY FlushHolds, FlushInvHolds, PTL

-----------------------------------------------------------------------------
(* What is in auto_save_path when nothing is under way.                    *)

\* The metadata are of the buffer unless a flush still waits to write them, and the
\* index unless one still has to write it.  Only in a call is there none to come.
Settled ==
  /\ ~cfg.auto => flushes = <<>>
  /\ \/ flushes = <<>> \/ main.pc \in {"adding", "stopped"}
     \/ /\ (\E f \in Calls : f.step = "wait") \/ disk.meta = counter
        /\ (\E f \in Calls : f.step # "done") \/ disk.trajs = trajs

LEMMA SettledSame ==
  ASSUME Settled, cfg' = cfg, trajs' = trajs, counter' = counter, flushes' = flushes, disk' = disk,
         main'.pc = main.pc \/ main.pc \notin {"adding", "stopped"}
  PROVE  Settled'
BY DEF Settled, Calls

LEMMA EndAddSettles ==
  ASSUME FlushInv, Settled, EndAdd
  PROVE  Settled'
<1>1. cfg' = cfg
  BY DEF EndAdd
<1>2. CASE cfg.auto
  <2>1. PICK f : f = [ids |-> main.batch, step |-> "wait", seen |-> trajs]
    OBVIOUS
  <2>2. flushes' = Append(flushes, f) /\ f.step = "wait"
    BY <1>2, <2>1 DEF EndAdd
  <2>3. PICK n \in Nat : n = Len(flushes) /\ flushes \in Seq(FlushCall)
    BY DEF FlushInv
  <2>4. Len(flushes') = n + 1 /\ flushes'[n + 1] = f
    BY <2>2, <2>3
  <2>5. f \in Calls'
    BY <2>3, <2>4 DEF Calls
  <2> QED
    BY <1>1, <1>2, <2>2, <2>5 DEF Settled
<1>3. CASE ~cfg.auto
  BY <1>1, <1>3 DEF Settled, EndAdd
<1> QED
  BY <1>2, <1>3

LEMMA FlushSettles ==
  ASSUME FlushInv, Settled, FlushMeta \/ FlushIndex
  PROVE  Settled'
<1>1. PICK k \in DOMAIN flushes, st \in {"index", "done"} :
        /\ flushes' = [flushes EXCEPT ![k].step = st]
        /\ \/ st = "index" /\ flushes[k].step = "wait" /\ disk'.meta = counter
           \/ /\ st = "done" /\ flushes[k].step = "index"
              /\ disk'.meta = disk.meta /\ disk'.trajs = trajs
  <2>1. CASE FlushMeta
    <3>1. PICK k \in DOMAIN flushes :
            /\ flushes[k].step = "wait" /\ disk' = [disk EXCEPT !.meta = counter]
            /\ flushes' = [flushes EXCEPT ![k].step = "index"]
      BY <2>1 DEF FlushMeta
    <3>2. disk'.meta = counter
      BY <3>1 DEF FlushInv
    <3> QED
      BY <3>1, <3>2
  <2>2. CASE FlushIndex
    <3>1. PICK k \in DOMAIN flushes :
            /\ flushes[k].step = "index" /\ disk' = [disk EXCEPT !.trajs = IndexNow(flushes[k])]
            /\ flushes' = [flushes EXCEPT ![k].step = "done"]
      BY <2>2 DEF FlushIndex
    <3>2. disk'.meta = disk.meta /\ disk'.trajs = trajs
      BY <3>1 DEF FlushInv, IndexNow
    <3> QED
      BY <3>1, <3>2
  <2> QED
    BY <2>1, <2>2
<1>2. /\ cfg' = cfg /\ trajs' = trajs /\ counter' = counter /\ main' = main
  BY DEF FlushMeta, FlushIndex, bufferVars
<1>3. PICK n \in Nat : /\ n = Len(flushes) /\ flushes \in Seq(FlushCall) /\ k \in 1..n
  BY DEF FlushInv
<1>4. PICK h : h = flushes[k] /\ h \in FlushCall
  BY <1>3
<1>5. PICK g : g = [ids |-> h.ids, step |-> st, seen |-> h.seen]
  OBVIOUS
<1>6. Len(flushes') = n /\ \A j \in 1..n : flushes'[j] = IF j = k THEN g ELSE flushes[j]
  <2>1. [flushes[k] EXCEPT !.step = st] = g
    BY <1>4, <1>5 DEF FlushCall
  <2>2. flushes' = [flushes EXCEPT ![k] = g]
    BY <1>1, <1>3, <2>1
  <2>3. g \in FlushCall
    BY <1>4, <1>5 DEF FlushCall
  <2> QED
    BY <1>3, <2>2, <2>3
<1>7. g.step = st /\ g \in Calls' /\ \A f \in Calls : f = h \/ f \in Calls'
  <2>1. g \in Calls'
    BY <1>3, <1>6 DEF Calls
  <2>2. ASSUME NEW f \in Calls PROVE f = h \/ f \in Calls'
    <3>1. PICK j \in 1..n : f = flushes[j]
      BY <1>3 DEF Calls
    <3> QED
      BY <1>4, <1>6, <3>1 DEF Calls
  <2> QED
    BY <1>5, <2>1, <2>2
<1>8. ~cfg.auto => FALSE
  <2>1. flushes # <<>>
    BY <1>3
  <2> QED
    BY <2>1 DEF Settled
<1>9. SUFFICES ASSUME main.pc \notin {"adding", "stopped"}
      PROVE  /\ (\E f \in Calls' : f.step = "wait") \/ disk'.meta = counter
             /\ (\E f \in Calls' : f.step # "done") \/ disk'.trajs = trajs
  BY <1>2, <1>8 DEF Settled
<1>10. flushes # <<>>
  BY <1>3
<1>11. CASE st = "index" /\ disk'.meta = counter
  BY <1>7, <1>11
<1>12. CASE /\ st = "done" /\ flushes[k].step = "index"
            /\ disk'.meta = disk.meta /\ disk'.trajs = trajs
  <2>1. (\E f \in Calls : f.step = "wait") \/ disk.meta = counter
    BY <1>9, <1>10 DEF Settled
  <2> QED
    BY <1>4, <1>7, <1>12, <2>1
<1> QED
  BY <1>1, <1>11, <1>12

LEMMA SettledStep ==
  ASSUME FlushInv, Settled, [Next]_vars
  PROVE  Settled'
<1>1. CASE Start
  <2>1. flushes = <<>> /\ flushes' = flushes /\ cfg' = cfg
    BY <1>1 DEF Start, StartEmpty, StartFromDemos, Resume, Load, poolVars, FlushInv, OwnerOfFlushes
  <2> QED
    BY <2>1 DEF Settled
<1>2. CASE Add
  <2>1. main'.pc \in {"adding", "stopped"}
    BY <1>2 DEF Add
  <2>2. flushes' = flushes /\ cfg' = cfg
    BY <1>2 DEF Add
  <2> QED
    BY <2>1, <2>2 DEF Settled
<1>3. CASE EndAdd
  BY <1>3, EndAddSettles
<1>4. CASE OpenFile \/ CloseFile
  BY <1>4, SettledSame DEF OpenFile, CloseFile, bufferVars
<1>5. CASE FlushMeta \/ FlushIndex
  BY <1>5, FlushSettles
<1>6. CASE SampleChunk
  <2>1. main.pc = "idle"
    BY <1>6 DEF SampleChunk
  <2> QED
    BY <1>6, <2>1, SettledSame DEF SampleChunk, bufferVars, poolVars
<1>7. CASE Save
  <2>1. main' = main \/ main.pc \in {"idle", "saving"}
    BY <1>7 DEF Save, BeginSave, CopyFile, EndSave
  <2>2. UNCHANGED <<cfg, bufferVars, poolVars>>
    BY <1>7 DEF Save, BeginSave, CopyFile, EndSave
  <2> QED
    BY <2>1, <2>2, SettledSame DEF bufferVars, poolVars
<1>8. CASE Crash
  BY <1>8 DEF Crash, Settled
<1>9. CASE UNCHANGED vars
  BY <1>9, SettledSame DEF vars, bufferVars, poolVars
<1> QED
  BY <1>1, <1>2, <1>3, <1>4, <1>5, <1>6, <1>7, <1>8, <1>9 DEF Next, Pool

LEMMA SettledHolds == Spec => [](FlushInv /\ Settled)
<1>1. Init => Settled
  BY DEF Init, Fresh, Settled
<1>2. ASSUME FlushInv, Settled, [Next]_vars PROVE Settled'
  BY <1>2, SettledStep
<1> QED
  BY <1>1, <1>2, FlushInvHolds, PTL DEF Spec

\* The directory of the last whole checkpoint has its window.
LEMMA CheckpointHolds == IInv => CheckpointWhole
<1> SUFFICES ASSUME IInv, NEW t \in ToSet(WindowOf(good.trajs))
             PROVE  t.id \in DOMAIN good.files /\ good.files[t.id] = t.data
  BY DEF CheckpointWhole
<1>1. PICK s \in Seq(Traj) : s = good.trajs
  BY DEF IInv, Good, Run
<1>2. (s # <<>> => ~cfg.auto) /\ \A j \in Recent(s, Size) : Saved(good.files, s, j)
  BY <1>1 DEF IInv, Good
<1>3. PICK j \in Reach(s) : j \in 1..Len(s) /\ t = s[j]
  <2>1. \E j \in Reach(s) : j \in 1..Len(s) /\ t = s[j]
    BY <1>1, WindowMembers DEF IInv, Types
  <2> QED
    BY <2>1
<1>4. ~cfg.auto
  <2>1. s # <<>>
    BY <1>3
  <2> QED
    BY <1>2, <2>1
<1>5. j \in Recent(s, Size)
  BY <1>3, <1>4, ConfigFacts DEF IInv, Types, Reach
<1> QED
  BY <1>2, <1>3, <1>5 DEF Saved

\* At rest every flush is done and every save has ended.
LEMMA RestHolds == IInv /\ Settled => RestIsSaved
<1> SUFFICES ASSUME IInv, Settled, Resting
             PROVE  /\ disk.trajs = trajs /\ disk.meta = counter
                    /\ \A t \in ToSet(trajs) :
                         t.id \notin loaded => t.id \in DOMAIN files /\ files[t.id] = t.data
  BY DEF RestIsSaved
<1>1. \A f \in Calls : f.step = "done"
  BY DEF Resting, Calls, IInv, Flushed
<1>2. disk.trajs = trajs /\ disk.meta = counter
  BY <1>1 DEF Resting, Settled
<1>3. cfg.auto
  BY DEF Resting, Settled
<1>4. ASSUME NEW t \in ToSet(trajs), t.id \notin loaded
      PROVE  t.id \in DOMAIN files /\ files[t.id] = t.data
  <2>1. PICK i \in 1..Len(trajs) : t = trajs[i]
    BY TrajFacts DEF ToSet, IInv, Types
  <2>2. WrittenAt(i)
    BY <1>3 DEF IInv, Written
  <2>3. ~Pending(trajs[i])
    BY DEF Resting, Pending
  <2> QED
    BY <1>4, <2>1, <2>2, <2>3 DEF WrittenAt, Saved
<1> QED
  BY <1>2, <1>4

(* For a buffer that keeps its checkpoints from memory, and whose cache is *)
(* built: a start from demonstrations or from the last whole checkpoint    *)
(* does not fail; that checkpoint has the files of the window of its       *)
(* index; when the flush of a call has ended the files of that call are    *)
(* complete and listed; and when the owner and the pool have come to rest  *)
(* the index and the metadata are the buffer's, and every trajectory that  *)
(* was added has its file.                                                 *)
THEOREM DiskIsComplete == CheckpointsInMemory /\ CachesBuilt /\ Spec => []DiskComplete
<1>1. IInv /\ FlushInv /\ Settled => DiskComplete
  BY CheckpointHolds, RestHolds, FlushHolds DEF DiskComplete, LoadSucceeds, IInv, Main
<1> QED
  BY <1>1, IInvHolds, SettledHolds, PTL
=============================================================================
