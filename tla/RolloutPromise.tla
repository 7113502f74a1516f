--------------------------- MODULE RolloutPromise ---------------------------
(***************************************************************************)
(* What the rollout component promises to the rest of a global step: every *)
(* group of sequences of the step is delivered to the output channel       *)
(* exactly once, instances give up their GPUs one after the other, and the *)
(* last of them does not before everything is delivered.  How groups move  *)
(* from one instance to another is nobody else's business.                 *)
(***************************************************************************)
EXTENDS Integers

CONSTANTS
  Instances,   \* rollout instances
  Groups       \* groups of sequences of a step

VARIABLES
  delivered,   \* how often each group was put into the output channel
  serving      \* the instances that hold their GPUs

vars == <<delivered, serving>>

Init ==
  /\ delivered = [g \in Groups |-> 1]
  /\ serving = {}

AllDelivered == \A g \in Groups : delivered[g] = 1

StartStep ==
  /\ serving = {} /\ AllDelivered
  /\ delivered' = [g \in Groups |-> 0]
  /\ serving' = Instances

Deliver(g) ==
  /\ serving # {} /\ delivered[g] = 0
  /\ delivered' = [delivered EXCEPT ![g] = 1]
  /\ UNCHANGED serving

GiveUp(i) ==
  /\ i \in serving
  /\ serving = {i} => AllDelivered
  /\ serving' = serving \ {i}
  /\ UNCHANGED delivered

Next == StartStep \/ (\E g \in Groups : Deliver(g)) \/ (\E i \in Instances : GiveUp(i))

Spec ==
  /\ Init /\ [][Next]_vars
  /\ \A g \in Groups : WF_vars(Deliver(g))
  /\ \A i \in Instances : WF_vars(GiveUp(i))
=============================================================================
