--------------------------- MODULE MCReplayBuffer ---------------------------
(* Buffers whose cache and window hold none, one, two or all trajectories. *)
EXTENDS ReplayBuffer

Buffer(auto, size, window) ==
    [auto |-> auto, enable |-> TRUE, cache |-> size, window |-> window,
     resume |-> FALSE, demo |-> 0, lengths |-> {1, 2}]

MCConfigs == {
    \* in memory, with checkpoints and crashes
    [Buffer(FALSE, 1, 2) EXCEPT !.resume = TRUE],
    \* demonstrations shared by the ranks, then added to
    [Buffer(FALSE, 1, 2) EXCEPT !.demo = 3, !.lengths = {2}],
    \* on disk, with a cache that is large enough, too small, or absent
    Buffer(TRUE, 2, 2), Buffer(TRUE, 1, 2),
    [Buffer(TRUE, 2, 2) EXCEPT !.enable = FALSE],
    \* on disk, with a window of all trajectories
    Buffer(TRUE, 2, 0),
    \* in memory, with no cache, and with a cache of no slots
    [Buffer(FALSE, 2, 2) EXCEPT !.enable = FALSE, !.resume = TRUE],
    Buffer(FALSE, 2, 0)}

MCWorlds == {1, 2}
=============================================================================
