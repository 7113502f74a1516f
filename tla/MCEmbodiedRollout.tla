------------------------- MODULE MCEmbodiedRollout -------------------------
(* Layouts of one to three workers to a group, with and without a reward   *)
(* model, and evaluations.                                                 *)
EXTENDS EmbodiedRollout

Layout(e, w, batch, stages) ==
    [env |-> e, rollout |-> w, reward |-> 0, actor |-> 1, batch |-> batch,
     stages |-> stages, chunks |-> 2, epochs |-> 2, eval |-> FALSE,
     autoReset |-> FALSE, finals |-> {FALSE}, fields |-> TRUE]

TrainingLayouts ==
    \* shards that overlap in every way, over two stages
    {[Layout(e, w, 6, 2) EXCEPT !.actor = 2, !.chunks = 1] :
       e \in 1..3, w \in 1..3} \union
    \* a reward model
    {[Layout(e, w, 6, 1) EXCEPT !.reward = v, !.finals = {TRUE}] :
       e \in {2, 3}, w \in {1}, v \in 2..3} \union
    \* one group a multiple of the other, with and without final observations
    {[Layout(2, 1, 2, 1) EXCEPT !.finals = BOOLEAN, !.autoReset = TRUE],
     [Layout(1, 2, 2, 2) EXCEPT !.finals = BOOLEAN, !.autoReset = TRUE, !.actor = 3]}

EvalLayouts ==
    {[Layout(2, 3, 6, 2) EXCEPT !.eval = TRUE],
     [Layout(3, 2, 6, 1) EXCEPT !.eval = TRUE, !.autoReset = TRUE],
     [Layout(2, 2, 2, 2) EXCEPT !.eval = TRUE, !.autoReset = TRUE]}

\* The code as it is: evaluations, and training, which ends at its first chunk.
AsIsLayouts ==
    {[l EXCEPT !.fields = FALSE] :
       l \in EvalLayouts \union {Layout(1, 1, 1, 1), Layout(2, 3, 6, 2)}}

MCLayouts == TrainingLayouts \union AsIsLayouts

\* Groups of which none is a multiple of the other, with final observations.
BootstrapLayouts == {[Layout(3, 2, 6, 1) EXCEPT !.finals = BOOLEAN, !.autoReset = TRUE]}
\* A reward model and two stages.
StagedRewardLayouts ==
    {[Layout(1, 1, 1, 2) EXCEPT !.reward = 1, !.finals = {TRUE}, !.autoReset = TRUE]}
=============================================================================
