--------------------------- MODULE MCWeightSync ---------------------------
(* Two rollout ranks; PPO from the start and resumed, with and without     *)
(* room for stale trajectories, and SAC with both ways to send weights.    *)
EXTENDS WeightSync

Ppo0 == [algorithm |-> "ppo", threshold |-> 0, no_wait |-> FALSE,
         start |-> 1, steps |-> 3, chunks |-> 2]
Ppo1 == [Ppo0 EXCEPT !.threshold = 1, !.start = 0]
Sac == [algorithm |-> "sac", threshold |-> NoThreshold, no_wait |-> FALSE,
        start |-> 0, steps |-> 2, chunks |-> 1]
SacNoWait == [Sac EXCEPT !.no_wait = TRUE]

AllConfigs == {Ppo0, Ppo1, Sac, SacNoWait}
=============================================================================
