------------------------ MODULE MCSchedulerResources ------------------------
(* Twelve GPUs with the actor on the first two and inference on the last   *)
(* two, and both policies: five rollout instances of two GPUs start, one   *)
(* of them on the actor's, and the actor grows by single GPUs.             *)
EXTENDS SchedulerResources
=============================================================================
