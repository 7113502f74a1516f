------------------------- MODULE MCRolloutMigration -------------------------
(* Three rollout instances, the first of them on the actor's GPUs, with a  *)
(* group of two sequences each: a group can migrate twice, two groups can  *)
(* migrate together, and a group can migrate with one sequence complete.   *)
EXTENDS RolloutMigration

CONSTANTS g1, g2, g3

MCRequests == (0 :> {g1}) @@ (1 :> {g2}) @@ (2 :> {g3})
=============================================================================
