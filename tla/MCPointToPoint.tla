--------------------------- MODULE MCPointToPoint ---------------------------
(* Connections with at most two objects in a direction.                    *)
EXTENDS PointToPoint, TLC

Obj(type, cpu, accel) == [type |-> type, cpu |-> cpu, accel |-> accel]
Plain == Obj("object", 0, <<>>)
Tensors == Obj("tensors", 1, <<"g0">>)
Split == Obj("tensors", 1, <<"g0", "g1">>)
Dict == Obj("dict", 0, <<"g0">>)
Dataclass == Obj("dataclass", 1, <<"g1">>)
IntoCpu == Obj("into", 1, <<>>)
IntoHere == Obj("into", 0, <<"g0">>)
IntoThere == Obj("into", 0, <<"g1">>)

Scene(rel, there, back) == [rel |-> rel, here |-> "g0",
                            pay |-> (0 :> there) @@ (1 :> back)]

\* Traffic in both directions between workers that know where they are, and in
\* one direction, either one, between workers with several common devices.
MCScenes == {
    Scene("apart", <<IntoThere>>, <<Plain>>),
    Scene("same", <<IntoHere, IntoCpu>>, <<>>),
    Scene("apart", <<Dataclass, Tensors>>, <<>>),
    Scene("same", <<>>, <<Dict, Dataclass>>),
    Scene("uncertain", <<Split, Dict>>, <<>>),
    Scene("uncertain", <<>>, <<Dataclass, IntoThere>>)}
=============================================================================
