---------------------------- MODULE ReplayBuffer ----------------------------
(***************************************************************************)
(* TrajectoryReplayBuffer of rlinf/data/replay_buffer.py, and the process  *)
(* that owns it.                                                           *)
(*                                                                         *)
(* The owner adds trajectories, samples from the most recent ones, saves   *)
(* checkpoints and, after a crash, loads the last whole one.  With         *)
(* auto_save a pool of threads writes each trajectory to its file and,     *)
(* after those of one call, the index.  The thread that samples ahead of   *)
(* the owner (PreloadReplayBufferDataset) is not modelled.                 *)
(*                                                                         *)
(* The content of a trajectory is a number, and that of its i-th sample    *)
(* the pair of the number and i.                                           *)
(***************************************************************************)
EXTENDS Integers, Sequences, FiniteSets, SequencesExt, FiniteSetsExt

CONSTANTS
    Configs,    \* the buffers looked at: records [auto, enable, cache, window,
                \* resume, demo, lengths]; a window of 0 is all trajectories
    MaxAdds,    \* trajectories added by all processes together
    MaxSaves,   \* checkpoints begun
    MaxCrashes, \* crashes of the owner
    Worlds      \* how many ranks share a directory that is loaded

ASSUME BoundsAssumption ==
    /\ MaxAdds \in Nat /\ MaxSaves \in Nat /\ MaxCrashes \in Nat
    /\ Worlds \subseteq Nat \ {0}
    /\ \A c \in Configs : /\ c.auto \in BOOLEAN /\ c.enable \in BOOLEAN
                          /\ c.cache \in Nat /\ c.window \in Nat
                          /\ c.demo \in Nat /\ c.lengths \subseteq Nat \ {0}

VARIABLES
    cfg,        \* the configuration
    trajs,      \* _trajectory_index and _trajectory_id_list: the trajectories in
                \* order, as records [id, data, samples]
    counter,    \* _trajectory_counter
    version,    \* _index_version
    win,        \* the cached window: [version, trajs]; version -1 for None
    cache,      \* TrajectoryCache: [slotOf, idAt, last, len, buf, lens]
    loaded,     \* the ids whose files are in the directory that was loaded
    source,     \* the files of that directory
    main,       \* what the owner does
    files,      \* the trajectory files in auto_save_path
    writing,    \* the saves submitted to the pool: [id, data, open]
    flushes,    \* the calls of _flush_metadata, in order of their submission
    disk,       \* the index and metadata in auto_save_path: [meta, trajs]
    work,       \* the checkpoint being written: [todo, files, step]
    good,       \* the last checkpoint that is whole: [files, trajs, counter]
    added, saves, crashes       \* bounds

bufferVars == <<trajs, counter, version, cache, loaded, source>>
poolVars == <<files, writing, flushes, disk>>
saveVars == <<work, good>>
bounds == <<added, saves, crashes>>
vars == <<cfg, bufferVars, win, main, poolVars, saveVars, bounds>>

NoFiles == <<>>                         \* a directory maps ids to contents
Partial == 0                            \* a file that is not complete
Put(f, x, v) == [y \in DOMAIN f \union {x} |-> IF y = x THEN v ELSE f[y]]

Ids(s) == {s[i].id : i \in DOMAIN s}
LastN(s, n) == SubSeq(s, IF Len(s) > n THEN Len(s) - n + 1 ELSE 1, Len(s))

\* The most recent trajectories, or all of them.
WindowOf(s) == IF cfg.window = 0 THEN s ELSE LastN(s, cfg.window)

-----------------------------------------------------------------------------
(* TrajectoryCache.                                                        *)

\* Without auto_save the size is that of the window, whatever size is asked for.
CacheAsAsked(c) == c.cache                      \* fault
CacheSize(c) == IF c.auto THEN c.cache ELSE c.window

\* The cache is built when the argument enable_cache says so: that auto_save is off
\* changes self.enable_cache, which is not what __init__ tests.
Slots == IF cfg.enable THEN CacheSize(cfg) ELSE 0

\* put divides by the size of the cache.
PutRaises == cfg.enable /\ Slots = 0

EmptyCache == [slotOf |-> NoFiles, idAt |-> NoFiles, last |-> 0, len |-> 0,
               buf |-> NoFiles, lens |-> NoFiles]
Garbage == <<0, 0>>                             \* torch.empty

\* _ensure_capacity: slots only grow, and what is cached moves to its new place.
GrownInPlace(c, n) ==                           \* fault: at the old stride
    IF n <= c.len THEN c
    ELSE [c EXCEPT !.len = n,
                   !.buf = [p \in 0..(Slots * n - 1) |->
                     IF p \in DOMAIN c.buf THEN c.buf[p] ELSE Garbage]]
Grown(c, n) ==
    IF n <= c.len THEN c
    ELSE [c EXCEPT !.len = n,
                   !.buf = [p \in 0..(Slots * n - 1) |->
                     IF (p \div n) \in Range(c.slotOf) /\ (p % n) < c.len
                     THEN c.buf[(p \div n) * c.len + (p % n)]
                     ELSE Garbage]]

NextSlotUnbounded(s) == s + 1                   \* fault
NextSlot(s) == (s + 1) % Slots

\* put of an id that is not cached: evict what the next slot holds.
CachePut(c0, t) ==
    LET c == Grown(c0, t.samples)
        slot == c.last
        evicted == IF slot \in DOMAIN c.idAt THEN {c.idAt[slot]} ELSE {}
        kept == DOMAIN c.slotOf \ evicted
    IN  [c EXCEPT
          !.idAt = Put(@, slot, t.id),
          !.slotOf = [i \in kept \union {t.id} |->
                        IF i = t.id THEN slot ELSE c.slotOf[i]],
          !.lens = [i \in kept \union {t.id} |->
                      IF i = t.id THEN t.samples ELSE c.lens[i]],
          !.last = NextSlot(@),
          !.buf = [p \in DOMAIN @ |->
                     IF p \in (slot * c.len)..(slot * c.len + t.samples - 1)
                     THEN <<t.data, p - slot * c.len>> ELSE @[p]]]

CacheIfEnabled(c, t) == IF Slots = 0 THEN c ELSE CachePut(c, t)

\* get: the samples of a cached trajectory, by the lengths it was put with.
CacheGet(c, id) ==
    [i \in 0..(c.lens[id] - 1) |-> c.buf[c.slotOf[id] * c.len + i]]

-----------------------------------------------------------------------------
Fresh ==
    /\ trajs = <<>> /\ counter = 0 /\ version = 0
    /\ win = [version |-> -1, trajs |-> <<>>]
    /\ cache = EmptyCache
    /\ loaded = {} /\ source = NoFiles
    /\ main = [pc |-> "new", batch |-> {}]
    /\ writing = {} /\ flushes = <<>>
    /\ work = [todo |-> {}, files |-> NoFiles, step |-> "none"]

Init ==
    /\ cfg \in Configs
    /\ Fresh
    /\ files = NoFiles
    /\ disk = [meta |-> 0, trajs |-> <<>>]
    /\ good = [files |-> NoFiles, trajs |-> <<>>, counter |-> 0]
    /\ added = 0 /\ saves = 0 /\ crashes = 0

-----------------------------------------------------------------------------
(* load_checkpoint.                                                        *)

\* The part of a directory that a rank takes: consecutive trajectories, the first
\* ranks one more when the number does not divide.
Part(s, rank, world) ==
    LET per == Len(s) \div world
        rest == Len(s) % world
        start == rank * per + Min({rank, rest})
    IN  SubSeq(s, start + 1, start + per + (IF rank < rest THEN 1 ELSE 0))

CounterByLength(s) == Len(s)                    \* fault
CounterAfter(s) == IF s = <<>> THEN 0 ELSE Max(Ids(s)) + 1

Complete(dir, id) == id \in DOMAIN dir /\ dir[id] # Partial

\* Loading reads the files of the most recent trajectories into the cache, if any.
Load(s, next, dir) ==
    LET recent == LastN(s, Slots)
    IN  /\ trajs' = s
        /\ counter' = next
        /\ loaded' = Ids(s)
        /\ source' = dir
        /\ IF /\ \A i \in DOMAIN recent : Complete(dir, recent[i].id)
              /\ s # <<>> => ~PutRaises
           THEN /\ cache' = FoldLeft(CachePut, EmptyCache,
                              [i \in DOMAIN recent |->
                                 [recent[i] EXCEPT !.data = dir[recent[i].id]]])
                /\ main' = [main EXCEPT !.pc = "idle"]
           ELSE /\ cache' = EmptyCache
                /\ main' = [main EXCEPT !.pc = "failed"]
        /\ UNCHANGED <<cfg, version, win, poolVars, saveVars, bounds>>

\* Demonstrations collected before: contents -1, -2, ..., one sample each.
DemoTrajs == [i \in 1..cfg.demo |-> [id |-> i - 1, data |-> -i, samples |-> 1]]
DemoFiles == [i \in 0..(cfg.demo - 1) |-> -(i + 1)]

StartEmpty ==
    /\ main.pc = "new"
    /\ cfg.demo = 0
    /\ good.trajs = <<>>
    /\ main' = [main EXCEPT !.pc = "idle"]
    /\ UNCHANGED <<cfg, bufferVars, win, poolVars, saveVars, bounds>>

StartFromDemos ==
    /\ main.pc = "new"
    /\ cfg.demo > 0
    /\ good.trajs = <<>>
    /\ \E world \in Worlds : \E rank \in 0..world - 1 :
         LET part == Part(DemoTrajs, rank, world)
         IN  Load(part, CounterAfter(part), DemoFiles)

Resume ==
    /\ main.pc = "new"
    /\ good.trajs # <<>>
    /\ Load(good.trajs, good.counter, good.files)

-----------------------------------------------------------------------------
(* add_trajectories.                                                       *)

NotBumped(v) == v                               \* fault
Bumped(v) == v + 1

\* One trajectory of the call: submit its save, add it to the index, cache it.  When
\* put raises, the call ends there and with it the owner.
Add ==
    /\ main.pc \in {"idle", "adding"}
    /\ added < MaxAdds
    /\ \E n \in cfg.lengths :
         LET t == [id |-> counter, data |-> added + 1, samples |-> n]
         IN  /\ trajs' = Append(trajs, t)
             /\ cache' = CacheIfEnabled(cache, t)
             /\ writing' = IF cfg.auto
                           THEN writing \union
                                  {[id |-> t.id, data |-> t.data, open |-> FALSE]}
                           ELSE writing
             /\ main' = [pc |-> IF PutRaises THEN "stopped" ELSE "adding",
                         batch |-> main.batch \union {t.id}]
    /\ counter' = counter + 1
    /\ version' = Bumped(version)
    /\ added' = added + 1
    /\ UNCHANGED <<cfg, win, loaded, source, files, flushes, disk,
                   saveVars, saves, crashes>>

\* The end of the call: with auto_save, submit the writing of the index.
EndAdd ==
    /\ main.pc = "adding"
    /\ flushes' = IF cfg.auto
                  THEN Append(flushes, [ids |-> main.batch, step |-> "wait",
                                        seen |-> trajs])
                  ELSE flushes
    /\ main' = [pc |-> "idle", batch |-> {}]
    /\ UNCHANGED <<cfg, bufferVars, win, files, writing, disk, saveVars,
                   bounds>>

-----------------------------------------------------------------------------
(* The threads of _save_executor; there are more of them than tasks here.  *)

OpenFile ==
    \E w \in writing :
      /\ ~w.open
      /\ writing' = (writing \ {w}) \union {[w EXCEPT !.open = TRUE]}
      /\ files' = Put(files, w.id, Partial)
      /\ UNCHANGED <<cfg, bufferVars, win, main, flushes, disk, saveVars,
                     bounds>>

CloseFile ==
    \E w \in writing :
      /\ w.open
      /\ writing' = writing \ {w}
      /\ files' = Put(files, w.id, w.data)
      /\ UNCHANGED <<cfg, bufferVars, win, main, flushes, disk, saveVars,
                     bounds>>

\* _flush_metadata waits for the saves of its own call.
WaitsForNone(f) == TRUE                         \* fault
SavesDone(f) == \A w \in writing : w.id \notin f.ids

FlushMeta ==
    \E k \in DOMAIN flushes :
      /\ flushes[k].step = "wait"
      /\ SavesDone(flushes[k])
      /\ disk' = [disk EXCEPT !.meta = counter]
      /\ flushes' = [flushes EXCEPT ![k].step = "index"]
      /\ UNCHANGED <<cfg, bufferVars, win, main, files, writing, saveVars,
                     bounds>>

\* _save_trajectory_index writes the index of that moment.
IndexWhenSubmitted(f) == f.seen                 \* fault
IndexNow(f) == trajs

FlushIndex ==
    \E k \in DOMAIN flushes :
      /\ flushes[k].step = "index"
      /\ disk' = [disk EXCEPT !.trajs = IndexNow(flushes[k])]
      /\ flushes' = [flushes EXCEPT ![k].step = "done"]
      /\ UNCHANGED <<cfg, bufferVars, win, main, files, writing, saveVars,
                     bounds>>

-----------------------------------------------------------------------------
(* sample_chunks, for one chunk.                                           *)

Ends(s) == [i \in DOMAIN s |-> FoldLeft(LAMBDA a, t : a + t.samples, 0, SubSeq(s, 1, i))]

\* Under the index lock: the cached window when its version is the index's.
Window == IF win.version = version THEN win.trajs ELSE WindowOf(trajs)

\* bucketize with right=True: the first trajectory that ends after the drawn one.
Bucket(s, g) == Min({i \in DOMAIN s : Ends(s)[i] > g})
Local(s, g) == g - (IF Bucket(s, g) = 1 THEN 0 ELSE Ends(s)[Bucket(s, g) - 1])

Raised == <<>>
\* _load_trajectory: from the directory that was loaded or from auto_save_path.
DirOf(id) == IF id \in loaded THEN source ELSE files

\* The sample of the i-th index of trajectory t: gathered from the slot of a cached
\* trajectory, or from the file of one that is not.
Fetch(t, i) ==
    IF t.id \in DOMAIN cache.slotOf
    THEN cache.buf[cache.slotOf[t.id] * cache.len + i]
    ELSE IF Complete(DirOf(t.id), t.id)
         THEN <<DirOf(t.id)[t.id], i>>
         ELSE Raised

SampleChunk ==
    /\ main.pc = "idle"
    /\ trajs # <<>>
    /\ win' = [version |-> version, trajs |-> Window]
    /\ \E g \in 0..(Last(Ends(Window)) - 1) :
         main' = IF Fetch(Window[Bucket(Window, g)], Local(Window, g)) = Raised
                 THEN [main EXCEPT !.pc = "raised"]
                 ELSE main
    /\ UNCHANGED <<cfg, bufferVars, poolVars, saveVars, bounds>>

-----------------------------------------------------------------------------
(* save_checkpoint, by the owner and the threads of _checkpoint_executor.  *)

\* What goes into the directory: the cached trajectories as they are in the cache,
\* or, with auto_save, the files of the window of the last sample.
Content(id) ==
    LET held == CacheGet(cache, id)
        data == {d \in {t.data : t \in ToSet(trajs)} :
                   held = [k \in DOMAIN held |-> <<d, k>>]}
    IN  IF data = {} THEN Partial ELSE CHOOSE d \in data : TRUE

ToSave ==
    IF cfg.auto
    THEN {[id |-> t.id, data |-> Partial] :
            t \in {u \in ToSet(win.trajs) : u.id \in DOMAIN files}}
    ELSE {[id |-> i, data |-> Content(i)] : i \in DOMAIN cache.slotOf}

\* It raises where there are neither files nor a cache.
BeginSave ==
    /\ main.pc = "idle"
    /\ cfg.resume
    /\ trajs # <<>>
    /\ saves < MaxSaves
    /\ saves' = saves + 1
    /\ IF cfg.auto \/ cfg.enable
       THEN /\ work' = [todo |-> ToSave, files |-> NoFiles, step |-> "copy"]
            /\ main' = [main EXCEPT !.pc = "saving"]
       ELSE /\ main' = [main EXCEPT !.pc = "stopped"]
            /\ UNCHANGED work
    /\ UNCHANGED <<cfg, bufferVars, win, poolVars, good, added, crashes>>

CopyFile ==
    \E x \in work.todo :
      /\ work' = [work EXCEPT !.todo = @ \ {x}, 
                              !.files = Put(@, x.id, IF cfg.auto THEN files[x.id]
                                                     ELSE x.data)]
      /\ UNCHANGED <<cfg, bufferVars, win, main, poolVars, good, bounds>>

CopiesIgnored == TRUE                           \* fault: the futures not waited for
CopiesDone == work.todo = {}

\* Metadata and index, after the files.  The directory is whole from then on.
EndSave ==
    /\ main.pc = "saving"
    /\ CopiesDone
    /\ good' = [files |-> work.files, trajs |-> trajs, counter |-> counter]
    /\ work' = [work EXCEPT !.step = "done"]
    /\ main' = [main EXCEPT !.pc = "idle"]
    /\ UNCHANGED <<cfg, bufferVars, win, poolVars, bounds>>

\* The process ends at any time and is started again.
Crash ==
    /\ cfg.resume
    /\ crashes < MaxCrashes
    /\ main.pc # "new"
    /\ crashes' = crashes + 1
    /\ trajs' = <<>> /\ counter' = 0 /\ version' = 0
    /\ win' = [version |-> -1, trajs |-> <<>>]
    /\ cache' = EmptyCache
    /\ loaded' = {} /\ source' = NoFiles
    /\ main' = [pc |-> "new", batch |-> {}]
    /\ writing' = {} /\ flushes' = <<>>
    /\ work' = [todo |-> {}, files |-> NoFiles, step |-> "none"]
    /\ UNCHANGED <<cfg, files, disk, good, added, saves>>

-----------------------------------------------------------------------------
Start == StartEmpty \/ StartFromDemos \/ Resume
Pool == OpenFile \/ CloseFile \/ FlushMeta \/ FlushIndex
Save == BeginSave \/ CopyFile \/ EndSave

Next == Start \/ Add \/ EndAdd \/ Pool \/ SampleChunk \/ Save \/ Crash

Spec == Init /\ [][Next]_vars

\* The threads of the pool run, and a call that has begun goes on.
FairSpec == Spec /\ WF_vars(EndAdd) /\ WF_vars(Pool)

-----------------------------------------------------------------------------
\* The parts of the state are well formed: ids, slots and the buffer's size.
TypeOK ==
    /\ cfg \in Configs
    /\ counter \in Nat /\ version \in Nat
    /\ Ids(trajs) \subseteq 0..counter - 1
    /\ cache.last \in 0..Max({Slots - 1, 0})
    /\ Range(cache.slotOf) \subseteq 0..Slots - 1
    /\ DOMAIN cache.buf = 0..(Slots * cache.len - 1)
    /\ main.pc \in {"new", "idle", "adding", "saving", "failed", "raised", "stopped"}
    /\ main.batch \subseteq Ids(trajs)

\* Every sample that could be drawn now would be the one that was drawn: growing
\* slots, eviction, loading another directory and the saves under way never give
\* the sample of another trajectory.
SampleRight ==
    main.pc = "idle" =>
      \A t \in ToSet(Window) : \A i \in 0..t.samples - 1 :
        Fetch(t, i) \in {Raised, <<t.data, i>>}

\* The window a sample is drawn from is that of the most recent trajectories, also
\* when it comes from the cached one.
WindowRecent ==
    win.version = version => win.trajs = WindowOf(trajs)

\* A sample is of one of the recent trajectories, and the one that was drawn.
SamplesRight == TypeOK /\ SampleRight /\ WindowRecent

\* Every trajectory that can be drawn can be had: it is cached, its file is
\* complete, or (with auto_save) its save is under way.  A buffer with neither
\* auto_save nor enable_cache keeps nothing, and is left out.
NothingLost ==
    (cfg.auto \/ cfg.enable) /\ main.pc \in {"idle", "adding", "saving"} =>
      \A t \in ToSet(WindowOf(trajs)) :
        \/ t.id \in DOMAIN cache.slotOf
        \/ Complete(DirOf(t.id), t.id) /\ DirOf(t.id)[t.id] = t.data
        \/ \E w \in writing : w.id = t.id /\ w.data = t.data

\* A start from a checkpoint, or from demonstrations, does not fail.
LoadSucceeds == main.pc # "failed"

\* The last whole checkpoint has the files of the window of the index it lists.
CheckpointWhole ==
    \A t \in ToSet(WindowOf(good.trajs)) :
      t.id \in DOMAIN good.files /\ good.files[t.id] = t.data

\* When the flush of a call has ended, the files of that call are complete and the
\* index in the directory lists them.
FlushedIsSaved ==
    \A k \in DOMAIN flushes :
      flushes[k].step = "done" =>
        \A id \in flushes[k].ids : /\ Complete(files, id)
                                   /\ id \in Ids(disk.trajs)

\* When the owner and the pool have come to rest the index and the metadata in the
\* directory are those of the buffer, and it has the file of every trajectory that
\* was added, with its data.
Resting ==
    /\ main.pc = "idle" /\ writing = {}
    /\ flushes # <<>> /\ \A k \in DOMAIN flushes : flushes[k].step = "done"

RestIsSaved ==
    Resting =>
      /\ disk.trajs = trajs /\ disk.meta = counter
      /\ \A t \in ToSet(trajs) :
           t.id \notin loaded => t.id \in DOMAIN files /\ files[t.id] = t.data

\* What can be started from is whole: a checkpoint, the files of a call whose flush
\* has ended, and the directory at rest.  Of the files that an index lists before,
\* those of later calls may be missing, and this does not say otherwise.
DiskComplete ==
    LoadSucceeds /\ CheckpointWhole /\ FlushedIsSaved /\ RestIsSaved

\* Whatever the order of the flushes, the directory ends up with the index and the
\* metadata of the buffer.
DiskSettles ==
    cfg.auto ~> (\/ disk.trajs = trajs /\ disk.meta = counter
                 \/ added < MaxAdds \/ cfg.resume)
=============================================================================
