--------------------------- MODULE DeviceSections ---------------------------
(***************************************************************************)
(* What the device lock promises its clients, without locks or queues: a   *)
(* worker asks for its section, and is let in when no worker it shares a   *)
(* device with is inside or asked earlier.  DeviceLock implements it.      *)
(***************************************************************************)
CONSTANTS
  Workers,     \* worker addresses
  Devices,     \* accelerator ids
  Devs         \* Devs[w]: the accelerators placed under worker w

VARIABLES
  phase,       \* "out", "waiting" or "in", for every worker
  before       \* <<v, w>>: v and w are waiting and v asked first

vars == <<phase, before>>

Overlap(v, w) == v # w /\ Devs[v] \cap Devs[w] # {}

Init ==
  /\ phase = [w \in Workers |-> "out"]
  /\ before = {}

Ask(w) ==
  /\ phase[w] = "out"
  /\ phase' = [phase EXCEPT ![w] = "waiting"]
  /\ before' = before \cup ({v \in Workers : phase[v] = "waiting"} \X {w})

GoIn(w) ==
  /\ phase[w] = "waiting"
  /\ \A v \in Workers :
       Overlap(v, w) => phase[v] # "in" /\ <<v, w>> \notin before
  /\ phase' = [phase EXCEPT ![w] = "in"]
  /\ before' = {p \in before : p[1] # w /\ p[2] # w}

Leave(w) ==
  /\ phase[w] = "in"
  /\ phase' = [phase EXCEPT ![w] = "out"]
  /\ UNCHANGED before

Next == \E w \in Workers : Ask(w) \/ GoIn(w) \/ Leave(w)

Spec == Init /\ [][Next]_vars
=============================================================================
