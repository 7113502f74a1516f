---------------------------- MODULE MCDeviceLock ----------------------------
(* Four workers on three accelerators: one on all of them, two on pairs    *)
(* that overlap in one accelerator and one beside the first pair, so that  *)
(* requests queue crosswise and some workers may be inside together.       *)
EXTENDS DeviceLock, TLC

CONSTANTS w1, w2, w3, w4, g1, g2, g3

MCWorkers == {w1, w2, w3, w4}
MCDevices == {g1, g2, g3}
MCDevs == w1 :> {g1, g2} @@ w2 :> {g2, g3} @@ w3 :> {g1, g2, g3} @@ w4 :> {g3}
=============================================================================
