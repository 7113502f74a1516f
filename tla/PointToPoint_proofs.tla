------------------------- MODULE PointToPoint_proofs -------------------------
(***************************************************************************)
(* Proofs about PointToPoint for connections with any objects: the ends    *)
(* are in step, and the k-th recv returns the k-th send.  Where the        *)
(* workers do not know whether they share a device, objects go one way.    *)
(***************************************************************************)
EXTENDS PointToPoint, FiniteSetTheorems, SequenceTheorems, TLAPS

-----------------------------------------------------------------------------
(* The frames of an object on both sides.                                  *)

Contents == {"type", "size", "object", "keys", "meta", "tensor",
             "devices", "device", "handles", "copied"}
Moved == [way : {"to", "back"}, dev : {"cpu", "accel"}, what : Contents]
ToFrames == [way : {"to"}, dev : {"cpu", "accel"}, what : Contents]
Frames == Moved \cup {Raise}

\* What moves between the workers of a scene: without an exchange about devices,
\* only frames from the sender of the object.
Wires(s) == IF s.rel = "uncertain" THEN Moved ELSE ToFrames

\* The sides have the same frames, except that the receiver may raise.
Agree(sent, recvd) ==
    /\ Len(sent) \in Nat \ {0} /\ Len(recvd) \in Nat /\ Len(sent) <= Len(recvd)
    /\ sent[1].way = "to" /\ recvd[1].way = "to"
    /\ \A i \in 1..Len(sent) : sent[i] = recvd[i] \/ recvd[i].way = "none"
    /\ Len(sent) = Len(recvd) \/ recvd[Len(sent)].way = "none"

\* One sequence after another.
LEMMA Joins ==
    ASSUME NEW S, NEW x \in Seq(S), NEW y \in Seq(S)
    PROVE  /\ x \o y \in Seq(S)
           /\ Len(x) \in Nat /\ Len(y) \in Nat /\ Len(x \o y) = Len(x) + Len(y)
           /\ \A i \in 1..Len(x) : (x \o y)[i] = x[i]
    OBVIOUS

LEMMA ToMoves ==
    ASSUME NEW s, NEW what \in Contents
    PROVE  To(what) \in Wires(s) /\ OnDevice \in Wires(s)
    BY DEF To, OnDevice, Frame, Wires, Moved, ToFrames, Contents

LEMMA SizedMoves ==
    ASSUME NEW s, NEW what \in Contents
    PROVE  Sized(what) \in Seq(Wires(s)) /\ Len(Sized(what)) = 2
    <1>1. To("size") \in Wires(s) /\ To(what) \in Wires(s)
        BY ToMoves DEF Contents
    <1> QED
        BY <1>1 DEF Sized

LEMMA RepeatMoves ==
    ASSUME NEW S, NEW f \in S, NEW n \in Nat
    PROVE  Repeat(f, n) \in Seq(S)
    BY DEF Repeat

LEMMA HandlesMove ==
    ASSUME NEW s
    PROVE  SendHandles \in Seq(Wires(s)) /\ RecvHandles = SendHandles
    <1>1. To("copied") \in Wires(s)
        BY ToMoves DEF Contents
    <1>2. <<To("copied")>> \in Seq(Wires(s))
        BY <1>1
    <1>3. Sized("handles") \in Seq(Wires(s))
        BY SizedMoves DEF Contents
    <1> QED
        BY <1>2, <1>3, Joins DEF SendHandles, RecvHandles

\* How many tensors of an object are on the receiver's device.
LEMMA HereAndElsewhere ==
    ASSUME NEW s, NEW o \in Objects
    PROVE  Here(s, o) \in Nat /\ Elsewhere(s, o) \in Nat
    <1>1. o.accel \in Seq(STRING) /\ Len(o.accel) \in Nat
        BY DEF Objects
    <1> DEFINE all == 1..Len(o.accel)
               here == {i \in DOMAIN o.accel : o.accel[i] = s.here}
    <1>2. IsFiniteSet(all) /\ Cardinality(all) = Len(o.accel)
        <2>1. \A n \in Nat : IsFiniteSet(1..n) /\ Cardinality(1..n) = n
            <3> TAKE n \in Nat
            <3>1. IsFiniteSet(1..n) /\ Cardinality(1..n) = IF 1 > n THEN 0 ELSE n - 1 + 1
                BY FS_Interval
            <3> QED
                BY <3>1
        <2> QED
            BY <1>1, <2>1
    <1>3. here \in SUBSET all
        BY <1>1
    <1> HIDE DEF all, here
    <1>4. IsFiniteSet(here) /\ Cardinality(here) <= Len(o.accel)
        BY <1>2, <1>3, FS_Subset
    <1>5. Cardinality(here) \in Nat
        BY <1>4, FS_CardinalityType
    <1>6. Here(s, o) = Cardinality(here)
        BY DEF Here, here
    <1> QED
        BY <1>1, <1>4, <1>5, <1>6 DEF Elsewhere

LEMMA UncertainMoves ==
    ASSUME NEW s, s.rel = "uncertain", NEW o \in Objects
    PROVE  SendUncertain(s, o) \in Seq(Wires(s)) /\ RecvUncertain(s, o) = SendUncertain(s, o)
    <1>0. Back("size") \in Wires(s) /\ Back("device") \in Wires(s)
        BY DEF Back, Frame, Wires, Moved, Contents
    <1>1. <<Back("size"), Back("device")>> \in Seq(Wires(s))
        BY <1>0
    <1>2. Sized("devices") \in Seq(Wires(s))
        BY SizedMoves DEF Contents
    <1>3. (IF Here(s, o) > 0 THEN SendHandles ELSE <<>>) \in Seq(Wires(s)) /\ RecvHandles = SendHandles
        BY HandlesMove
    <1>4. Repeat(OnDevice, Elsewhere(s, o)) \in Seq(Wires(s))
        <2>1. OnDevice \in Wires(s)
            BY ToMoves DEF Contents
        <2> QED
            BY <2>1, HereAndElsewhere, RepeatMoves
    <1> HIDE DEF Back, Sized, SendHandles, RecvHandles, Repeat
    <1>5. Sized("devices") \o <<Back("size"), Back("device")>> \in Seq(Wires(s))
        BY <1>1, <1>2, Joins
    <1>6. Sized("devices") \o <<Back("size"), Back("device")>>
            \o (IF Here(s, o) > 0 THEN SendHandles ELSE <<>>) \in Seq(Wires(s))
        BY <1>3, <1>5, Joins
    <1> QED
        BY <1>3, <1>4, <1>6, Joins DEF SendUncertain, RecvUncertain

LEMMA TensorsMove ==
    ASSUME NEW s, s.rel \in {"apart", "same", "uncertain"}, NEW o \in Objects
    PROVE  SendTensors(s, o) \in Seq(Wires(s)) /\ RecvTensors(s, o) = SendTensors(s, o)
    <1>1. PICK rest \in Seq(Wires(s)) :
             rest = CASE o.accel = <<>> -> <<>>
                      [] o.accel # <<>> /\ s.rel = "apart" -> Repeat(OnDevice, Len(o.accel))
                      [] o.accel # <<>> /\ s.rel = "same" -> SendHandles
                      [] o.accel # <<>> /\ s.rel = "uncertain" -> SendUncertain(s, o)
        <2>1. CASE o.accel = <<>>
            <3>1. <<>> \in Seq(Wires(s))
                OBVIOUS
            <3> QED
                BY <2>1, <3>1
        <2>2. CASE o.accel # <<>> /\ s.rel = "apart"
            <3>1. Repeat(OnDevice, Len(o.accel)) \in Seq(Wires(s))
                <4>1. OnDevice \in Wires(s) /\ Len(o.accel) \in Nat
                    BY ToMoves DEF Contents, Objects
                <4> QED
                    BY <4>1, RepeatMoves
            <3> QED
                BY <2>2, <3>1
        <2>3. CASE o.accel # <<>> /\ s.rel = "same"
            BY <2>3, HandlesMove
        <2>4. CASE o.accel # <<>> /\ s.rel = "uncertain"
            BY <2>4, UncertainMoves
        <2> QED
            BY <2>1, <2>2, <2>3, <2>4
    <1>2. rest = CASE o.accel = <<>> -> <<>>
                   [] o.accel # <<>> /\ s.rel = "apart" -> Repeat(OnDevice, Len(o.accel))
                   [] o.accel # <<>> /\ s.rel = "same" -> RecvHandles
                   [] o.accel # <<>> /\ s.rel = "uncertain" -> RecvUncertain(s, o)
        BY <1>1, HandlesMove, UncertainMoves
    <1>3. Sized("meta") \in Seq(Wires(s)) /\ Repeat(To("tensor"), o.cpu) \in Seq(Wires(s))
        <2>1. To("tensor") \in Wires(s) /\ o.cpu \in Nat
            BY ToMoves DEF Contents, Objects
        <2> QED
            BY <2>1, SizedMoves, RepeatMoves DEF Contents
    <1> HIDE DEF Sized, Repeat
    <1>4. Sized("meta") \o Repeat(To("tensor"), o.cpu) \in Seq(Wires(s))
        BY <1>3, Joins
    <1>5. SendTensors(s, o) = Sized("meta") \o Repeat(To("tensor"), o.cpu) \o rest
        BY <1>1 DEF SendTensors
    <1>6. RecvTensors(s, o) = Sized("meta") \o Repeat(To("tensor"), o.cpu) \o rest
        BY <1>2 DEF RecvTensors
    <1> QED
        BY <1>4, <1>5, <1>6, Joins

\* Two frames before others, and four.
LEMMA JoinsAll ==
    ASSUME NEW S, NEW x \in Seq(S), NEW y \in Seq(S)
    PROVE  /\ \A i \in 1..Len(x) : (x \o y)[i] = x[i]
           /\ \A i \in 1..Len(y) : (x \o y)[Len(x) + i] = y[i]
    OBVIOUS

LEMMA JoinsFirst ==
    ASSUME NEW S, NEW x \in Seq(S), NEW y \in Seq(S), Len(x) >= 4
    PROVE  /\ x \o y \in Seq(S) /\ Len(y) \in Nat /\ Len(x \o y) = Len(x) + Len(y)
           /\ (x \o y)[1] = x[1] /\ (x \o y)[2] = x[2] /\ (x \o y)[3] = x[3] /\ (x \o y)[4] = x[4]
           /\ \A i \in 1..Len(y) : (x \o y)[Len(x) + i] = y[i]
    <1> DEFINE z == x \o y
    <1>1. z \in Seq(S) /\ Len(y) \in Nat /\ Len(z) = Len(x) + Len(y)
        OBVIOUS
    <1>2. (\A i \in 1..Len(x) : z[i] = x[i]) /\ (\A i \in 1..Len(y) : z[Len(x) + i] = y[i])
        BY JoinsAll
    <1> HIDE DEF z
    <1>3. 1 \in 1..Len(x) /\ 2 \in 1..Len(x) /\ 3 \in 1..Len(x) /\ 4 \in 1..Len(x)
        OBVIOUS
    <1>4. z[1] = x[1] /\ z[2] = x[2] /\ z[3] = x[3] /\ z[4] = x[4]
        BY <1>2, <1>3
    <1> QED
        BY <1>1, <1>2, <1>4 DEF z

LEMMA TwoFirst ==
    ASSUME NEW S, NEW a \in S, NEW b \in S, NEW y \in Seq(S)
    PROVE  /\ <<a, b>> \o y \in Seq(S) /\ Len(y) \in Nat /\ Len(<<a, b>> \o y) = 2 + Len(y)
           /\ (<<a, b>> \o y)[1] = a /\ (<<a, b>> \o y)[2] = b
           /\ \A i \in 1..Len(y) : (<<a, b>> \o y)[2 + i] = y[i]
    OBVIOUS

LEMMA FourFirst ==
    ASSUME NEW S, NEW a \in S, NEW b \in S, NEW c \in S, NEW d \in S, NEW y \in Seq(S)
    PROVE  LET x == <<a, b>> \o <<c, d>> \o y
           IN  /\ x \in Seq(S) /\ Len(y) \in Nat /\ Len(x) = 4 + Len(y)
               /\ x[1] = a /\ x[2] = b /\ x[3] = c /\ x[4] = d
               /\ \A i \in 1..Len(y) : x[4 + i] = y[i]
    <1>1. PICK u : u = <<a, b>> \o <<c, d>>
        OBVIOUS
    <1>2. u \in Seq(S) /\ Len(u) = 4 /\ u[1] = a /\ u[2] = b /\ u[3] = c /\ u[4] = d
        <2>1. PICK w : w = <<c, d>>
            OBVIOUS
        <2>3. w \in Seq(S) /\ Len(w) = 2 /\ w[1] = c /\ w[2] = d /\ 1 \in 1..Len(w) /\ 2 \in 1..Len(w)
            BY <2>1
        <2>2. u \in Seq(S) /\ Len(u) = 2 + 2 /\ u[1] = a /\ u[2] = b /\ u[2 + 1] = w[1] /\ u[2 + 2] = w[2]
            BY <1>1, <2>1, <2>3, TwoFirst
        <2> QED
            BY <2>2, <2>3
    <1>3. u \o y \in Seq(S) /\ Len(y) \in Nat /\ Len(u \o y) = 4 + Len(y)
          /\ (u \o y)[1] = u[1] /\ (u \o y)[2] = u[2] /\ (u \o y)[3] = u[3] /\ (u \o y)[4] = u[4]
          /\ (\A i \in 1..Len(y) : (u \o y)[4 + i] = y[i])
        <2>1. u \in Seq(S) /\ Len(u) >= 4
            BY <1>2
        <2>2. u \o y \in Seq(S) /\ Len(y) \in Nat /\ Len(u \o y) = Len(u) + Len(y)
              /\ (u \o y)[1] = u[1] /\ (u \o y)[2] = u[2] /\ (u \o y)[3] = u[3] /\ (u \o y)[4] = u[4]
              /\ (\A i \in 1..Len(y) : (u \o y)[Len(u) + i] = y[i])
            BY <2>1, JoinsFirst
        <2> QED
            BY <1>2, <2>2
    <1> QED
        BY <1>1, <1>2, <1>3

\* The tensor of send_tensor and recv_tensor that a peer shares on an uncertain device.
Shared(s, o) == o.type = "into" /\ o.cpu = 0 /\ s.rel = "uncertain" /\ Here(s, o) > 0

\* The receiver of a shared tensor raises where the sender waits for its copy.
LEMMA SharedAgrees ==
    ASSUME NEW s, NEW o \in Objects, Shared(s, o)
    PROVE  /\ SendFrames(s, o) \in Seq(Moved)
           /\ Agree(SendFrames(s, o), RecvFrames(s, o))
    <1> DEFINE a == To("size") b == To("devices") c == Back("size") d == Back("device") e == To("object") f == To("copied")
    <1>1. SendFrames(s, o) = <<a, b>> \o <<c, d>> \o (<<a, e>> \o <<f>>)
        BY DEF Shared, SendFrames, SendInto, Sized
    <1>2. RecvFrames(s, o) = <<a, b>> \o <<c, d>> \o (<<a, e>> \o <<Raise, f>>)
        BY DEF Shared, RecvFrames, RecvInto, Sized
    <1>3. /\ a \in Moved /\ b \in Moved /\ c \in Moved /\ d \in Moved /\ e \in Moved /\ f \in Moved
          /\ a.way = "to" /\ Raise.way = "none"
        BY DEF To, Back, Raise, Frame, Moved, Contents
    <1> HIDE DEF a, b, c, d, e, f
    <1>4. PICK x : x = SendFrames(s, o)
        OBVIOUS
    <1>5. /\ x \in Seq(Moved) /\ Len(x) = 7
          /\ x[1] = a /\ x[2] = b /\ x[3] = c /\ x[4] = d /\ x[5] = a /\ x[6] = e
        <2>1. PICK u : u = <<a, e>> \o <<f>>
            OBVIOUS
        <2>2. u \in Seq(Moved) /\ Len(u) = 3 /\ u[1] = a /\ u[2] = e
            <3>1. <<f>> \in Seq(Moved) /\ Len(<<f>>) = 1
                BY <1>3
            <3> QED
                BY <1>3, <2>1, <3>1, TwoFirst
        <2>3. x \in Seq(Moved) /\ Len(x) = 4 + 3 /\ x[1] = a /\ x[2] = b /\ x[3] = c /\ x[4] = d
              /\ x[4 + 1] = u[1] /\ x[4 + 2] = u[2]
            BY <1>1, <1>3, <1>4, <2>1, <2>2, FourFirst
        <2> QED
            BY <2>2, <2>3
    <1>6. PICK y : y = RecvFrames(s, o)
        OBVIOUS
    <1>7. /\ Len(y) = 8
          /\ y[1] = a /\ y[2] = b /\ y[3] = c /\ y[4] = d /\ y[5] = a /\ y[6] = e /\ y[7] = Raise
        <2>1. PICK u : u = <<a, e>> \o <<Raise, f>>
            OBVIOUS
        <2>2. u \in Seq(Frames) /\ Len(u) = 4 /\ u[1] = a /\ u[2] = e /\ u[3] = Raise
            <3>0. PICK raise \in Frames : raise = Raise
                BY DEF Frames
            <3>4. PICK v : v = <<raise, f>>
                OBVIOUS
            <3>5. f \in Frames
                BY <1>3 DEF Frames
            <3>6. v \in Seq(Frames) /\ Len(v) = 2 /\ v[1] = raise
                BY <3>4, <3>5
            <3>1. v \in Seq(Frames) /\ v = <<Raise, f>> /\ Len(v) = 2 /\ v[1] = Raise
                BY <3>0, <3>4, <3>6
            <3>2. a \in Frames /\ e \in Frames /\ 1 \in 1..Len(v)
                BY <1>3, <3>1 DEF Frames
            <3>3. Len(u) = 2 + 2 /\ u \in Seq(Frames) /\ u[1] = a /\ u[2] = e /\ u[2 + 1] = v[1]
                BY <2>1, <3>1, <3>2, TwoFirst
            <3> QED
                BY <3>1, <3>3
        <2>3. a \in Frames /\ b \in Frames /\ c \in Frames /\ d \in Frames
            BY <1>3 DEF Frames
        <2>4. Len(y) = 4 + 4 /\ y[1] = a /\ y[2] = b /\ y[3] = c /\ y[4] = d
              /\ y[4 + 1] = u[1] /\ y[4 + 2] = u[2] /\ y[4 + 3] = u[3]
            BY <1>2, <1>6, <2>1, <2>2, <2>3, FourFirst
        <2> QED
            BY <2>2, <2>4
    <1>8. \A i \in 1..7 : i \in {1, 2, 3, 4, 5, 6, 7}
        OBVIOUS
    <1>9. \A i \in 1..7 : x[i] = y[i] \/ y[i].way = "none"
        BY <1>3, <1>5, <1>7, <1>8
    <1>10. y[7].way = "none" /\ x[1].way = "to" /\ y[1].way = "to"
        BY <1>3, <1>5, <1>7
    <1> QED
        BY <1>4, <1>5, <1>6, <1>7, <1>9, <1>10 DEF Agree

\* Something behind a first frame.
Starts(x, S) == x \in Seq(S) /\ Len(x) >= 1 /\ x[1] \in S /\ x[1].way = "to"

LEMMA StartsOn ==
    ASSUME NEW S, NEW x, Starts(x, S), NEW y \in Seq(S)
    PROVE  Starts(x \o y, S)
    <1>1. x \in Seq(S) /\ Len(x) >= 1 /\ x[1] \in S /\ x[1].way = "to"
        BY DEF Starts
    <1>2. x \o y \in Seq(S) /\ Len(x) \in Nat /\ Len(y) \in Nat /\ Len(x \o y) = Len(x) + Len(y) /\ \A i \in 1..Len(x) : (x \o y)[i] = x[i]
        BY <1>1, Joins
    <1>3. 1 \in 1..Len(x) /\ Len(x \o y) >= 1
        BY <1>1, <1>2
    <1> QED
        BY <1>1, <1>2, <1>3 DEF Starts

LEMMA StartsWith ==
    ASSUME NEW s, NEW what \in Contents
    PROVE  Starts(<<To(what)>>, Wires(s)) /\ Starts(Sized(what), Wires(s)) /\ Starts(<<OnDevice>>, Wires(s))
    <1>1. To(what) \in Wires(s) /\ To("size") \in Wires(s) /\ OnDevice \in Wires(s)
        BY ToMoves DEF Contents
    <1>2. To(what).way = "to" /\ To("size").way = "to" /\ OnDevice.way = "to"
        BY DEF To, OnDevice, Frame
    <1> QED
        BY <1>1, <1>2 DEF Starts, Sized

\* Any other object has the same frames on both sides.
LEMMA OthersAgree ==
    ASSUME NEW s, s.rel \in {"apart", "same", "uncertain"}, NEW o \in Objects, ~Shared(s, o)
    PROVE  /\ Starts(SendFrames(s, o), Wires(s))
           /\ RecvFrames(s, o) = SendFrames(s, o)
    <1>1. /\ SendTensors(s, o) \in Seq(Wires(s)) /\ RecvTensors(s, o) = SendTensors(s, o)
          /\ Sized("object") \in Seq(Wires(s)) /\ Sized("keys") \in Seq(Wires(s)) /\ Sized("devices") \in Seq(Wires(s))
          /\ Starts(<<To("type")>>, Wires(s)) /\ Starts(<<To("tensor")>>, Wires(s)) /\ Starts(Sized("devices"), Wires(s))
          /\ Starts(Sized("handles"), Wires(s)) /\ Starts(<<OnDevice>>, Wires(s))
        <2>1. /\ "object" \in Contents /\ "keys" \in Contents /\ "devices" \in Contents /\ "type" \in Contents
              /\ "tensor" \in Contents /\ "handles" \in Contents
            BY DEF Contents
        <2>2. SendTensors(s, o) \in Seq(Wires(s)) /\ RecvTensors(s, o) = SendTensors(s, o)
            BY TensorsMove
        <2> HIDE DEF SendTensors, RecvTensors
        <2>3. Sized("object") \in Seq(Wires(s)) /\ Sized("keys") \in Seq(Wires(s)) /\ Sized("devices") \in Seq(Wires(s))
            BY <2>1, SizedMoves
        <2>4. /\ Starts(<<To("type")>>, Wires(s)) /\ Starts(<<To("tensor")>>, Wires(s)) /\ Starts(Sized("devices"), Wires(s))
              /\ Starts(Sized("handles"), Wires(s)) /\ Starts(<<OnDevice>>, Wires(s))
            BY <2>1, StartsWith
        <2> QED
            BY <2>2, <2>3, <2>4
    <1> HIDE DEF SendTensors, RecvTensors, Sized
    <1>2. CASE o.type = "object"
        BY <1>1, <1>2, StartsOn DEF SendFrames, RecvFrames
    <1>3. CASE o.type = "tensors"
        BY <1>1, <1>3, StartsOn DEF SendFrames, RecvFrames
    <1>4. CASE o.type = "dict"
        <2>1. Starts(<<To("type")>> \o Sized("keys"), Wires(s))
            BY <1>1, StartsOn
        <2> QED
            BY <1>1, <1>4, <2>1, StartsOn DEF SendFrames, RecvFrames
    <1>5. CASE o.type = "dataclass"
        <2>1. Starts(<<To("type")>> \o SendTensors(s, o), Wires(s))
            BY <1>1, StartsOn
        <2> QED
            BY <1>1, <1>5, <2>1, StartsOn DEF SendFrames, RecvFrames
    <1>6. CASE o.type = "into"
        <2>0. SendFrames(s, o) = SendInto(s, o) /\ RecvFrames(s, o) = RecvInto(s, o) /\ o.cpu \in Nat
            BY <1>6 DEF SendFrames, RecvFrames, Objects
        <2>1. CASE o.cpu > 0
            BY <1>1, <2>0, <2>1 DEF SendInto, RecvInto
        <2>2. CASE o.cpu = 0 /\ s.rel = "apart"
            BY <1>1, <2>0, <2>2 DEF SendInto, RecvInto
        <2>3. CASE o.cpu = 0 /\ s.rel = "same"
            <3>1. <<To("copied")>> \in Seq(Wires(s))
                BY StartsWith DEF Contents, Starts
            <3>2. Starts(SendHandles, Wires(s)) /\ RecvHandles = SendHandles
                BY <1>1, <3>1, StartsOn DEF SendHandles, RecvHandles
            <3> HIDE DEF SendHandles, RecvHandles
            <3> QED
                BY <3>2, <2>0, <2>3 DEF SendInto, RecvInto
        <2>4. CASE o.cpu = 0 /\ s.rel = "uncertain"
            <3>1. ~(Here(s, o) > 0)
                BY <1>6, <2>4 DEF Shared
            <3>2. Back("size") \in Wires(s) /\ Back("device") \in Wires(s) /\ OnDevice \in Wires(s)
                BY <2>4, ToMoves DEF Back, Frame, Wires, Moved, Contents
            <3>3. <<Back("size"), Back("device")>> \in Seq(Wires(s)) /\ <<OnDevice>> \in Seq(Wires(s))
                BY <3>2
            <3>4. Starts(Sized("devices") \o <<Back("size"), Back("device")>>, Wires(s))
                BY <1>1, <3>3, StartsOn
            <3>5. Starts(Sized("devices") \o <<Back("size"), Back("device")>> \o <<OnDevice>>, Wires(s))
                BY <3>3, <3>4, StartsOn
            <3>6. /\ SendInto(s, o) = Sized("devices") \o <<Back("size"), Back("device")>> \o <<OnDevice>>
                  /\ RecvInto(s, o) = Sized("devices") \o <<Back("size"), Back("device")>> \o <<OnDevice>>
                BY <2>4, <3>1 DEF SendInto, RecvInto
            <3> QED
                BY <2>0, <3>5, <3>6
        <2> QED
            BY <2>0, <2>1, <2>2, <2>3, <2>4 DEF Wires
    <1> QED
        BY <1>2, <1>3, <1>4, <1>5, <1>6 DEF Objects

\* The frames of an object on both sides, for any connection.
LEMMA FramesAgree ==
    ASSUME NEW s, s.rel \in {"apart", "same", "uncertain"}, NEW o \in Objects
    PROVE  /\ Agree(SendFrames(s, o), RecvFrames(s, o))
           /\ \A i \in 1..Len(SendFrames(s, o)) : SendFrames(s, o)[i].way \in {"to", "back"}
           /\ s.rel # "uncertain" =>
                /\ RecvFrames(s, o) = SendFrames(s, o)
                /\ \A i \in 1..Len(SendFrames(s, o)) : SendFrames(s, o)[i].way = "to"
    <1>1. CASE Shared(s, o)
        <2>1. SendFrames(s, o) \in Seq(Moved) /\ Agree(SendFrames(s, o), RecvFrames(s, o))
            BY <1>1, SharedAgrees
        <2>2. PICK x \in Seq(Moved) : x = SendFrames(s, o)
            BY <2>1
        <2>3. \A i \in 1..Len(x) : x[i].way \in {"to", "back"}
            <3> TAKE i \in 1..Len(x)
            <3>1. x[i] \in Moved
                OBVIOUS
            <3> QED
                BY <3>1 DEF Moved
        <2> QED
            BY <1>1, <2>1, <2>2, <2>3 DEF Shared
    <1>2. CASE ~Shared(s, o)
        <2>1. PICK x : x = SendFrames(s, o)
            OBVIOUS
        <2>2. Starts(x, Wires(s)) /\ RecvFrames(s, o) = x
            BY <1>2, <2>1, OthersAgree
        <2>3. x \in Seq(Wires(s)) /\ Len(x) >= 1 /\ x[1].way = "to"
            BY <2>2 DEF Starts
        <2>4. Agree(x, x)
            BY <2>3 DEF Agree
        <2>5. \A i \in 1..Len(x) : x[i].way \in {"to", "back"} /\ (s.rel # "uncertain" => x[i].way = "to")
            <3> TAKE i \in 1..Len(x)
            <3>1. x[i] \in Wires(s)
                BY <2>3
            <3> QED
                BY <3>1 DEF Wires, Moved, ToFrames
        <2> QED
            BY <2>1, <2>2, <2>4, <2>5
    <1> QED
        BY <1>1, <1>2

-----------------------------------------------------------------------------
(* Threads and queues.                                                     *)

Mains == Ends \X {"main"}
Main(q) == <<Owner(q), "main">>
Sender(q) == <<q[1], "send">>
Receiver(q) == <<q[1], "recv">>

LEMMA QueueIds ==
    \A q \in Queues : /\ q \in Threads /\ Main(q) \in Mains /\ Main(q)[1] = Owner(q) /\ Owner(q) \in Ends
                      /\ q[1] \in Ends /\ q[2] \in {"send", "recv"} /\ q[2] # "main" /\ q \notin Mains
                      /\ Sender(q) \in Queues /\ Receiver(q) \in Queues
                      /\ (q[2] = "send" => q = Sender(q)) /\ (q[2] = "recv" => q = Receiver(q))
    BY DEF Queues, Threads, Ends, Sides, Mains, Main, Owner, Sender, Receiver

LEMMA MainIds ==
    \A m \in Mains : /\ m \in Threads /\ m \notin Queues /\ m[1] \in Ends /\ m[2] = "main" /\ Owner(m) = m[1]
                     /\ \A q \in Queues : Owner(q) = m[1] => Main(q) = m
    BY DEF Queues, Threads, Ends, Sides, Mains, Main, Owner

LEMMA ThreadIds ==
    \A t \in Threads : /\ Owner(t) \in Ends /\ (t \in Queues \/ t \in Mains)
                       /\ (t[2] = "main" <=> t \in Mains)
    BY DEF Queues, Threads, Ends, Sides, Mains, Owner

LEMMA EndIds ==
    \A d \in Ends : /\ <<d, "send">> \in Queues /\ <<d, "recv">> \in Queues /\ <<d, "send">> # <<d, "recv">>
                    /\ <<d, "send">>[1] = d /\ <<d, "send">>[2] = "send"
                    /\ <<d, "recv">>[1] = d /\ <<d, "recv">>[2] = "recv"
                    /\ <<d, "main">> \in Mains
    BY DEF Queues, Ends, Sides, Mains

\* The queues of both sides of a direction.
LEMMA SideIds ==
    \A q \in Queues : \A side \in Sides :
        \E p \in Queues : p[1] = q[1] /\ p[2] = side /\ (p = q <=> q[2] = side)
    <1> TAKE q \in Queues
    <1> TAKE side \in Sides
    <1>1. PICK d \in Ends, u \in Sides : q = <<d, u>>
        BY DEF Queues
    <1>2. <<d, side>> \in Queues /\ <<d, side>>[1] = d /\ <<d, side>>[2] = side
        BY DEF Queues
    <1>3. <<d, side>> = q <=> q[2] = side
        BY <1>1
    <1>4. q[1] = d
        BY <1>1
    <1> QED
        BY <1>2, <1>3, <1>4

\* Each of what makes up the number of calls is at most that number.
LEMMA Summands ==
    ASSUME NEW a \in Nat, NEW b \in {0, 1}, NEW n \in Nat, NEW m \in {0, 1}
    PROVE  /\ a <= a + b + n + m
           /\ \A i \in 1..n : a + b + i \in 1..(a + b + n + m)
    OBVIOUS

\* Two queues of the same direction, and of different owners.
LEMMA Directions ==
    \A p, q \in Queues : /\ p[1] = q[1] /\ p[2] = q[2] => p = q
                         /\ Sender(p) = Sender(q) <=> p[1] = q[1]
                         /\ p[1] = q[1] /\ Owner(p) # Owner(q) => p[2] # q[2]
                         /\ p[2] = "send" /\ q[2] = "recv" /\ Owner(p) # Owner(q) => p[1] = q[1]
    BY DEF Queues, Ends, Sides, Owner, Sender

-----------------------------------------------------------------------------
(* The inductive invariant.                                                *)

Works == {"lock", "publish", "poll port", "barrier", "reset", "frames"}
SectionPcs == {"publish", "poll port", "barrier", "reset"}

ThreadStates == [pc : Pcs, q : Queues, op : Nat, pos : Nat, port : Nat,
                 got : SUBSET (Queues \X Nat)]
Endings == [op : Nat, got : SUBSET (Queues \X Nat)]

Types ==
    /\ scene \in Scenes
    /\ called \in [Queues -> Nat]
    /\ queue \in [Queues -> Seq(Nat)]
    /\ idle \in [Queues -> BOOLEAN]
    /\ th \in [Threads -> ThreadStates]
    /\ finished \in [Queues -> Seq(Endings)]
    /\ port \in Nat /\ ports \in Nat
    /\ locked \in [Ends -> SUBSET Threads]
    /\ ready \in [Ends -> BOOLEAN]

Working(t) == th[t].pc \in Works                \* t has a work
MainOn(q) == th[Main(q)].pc # "free" /\ th[Main(q)].q = q
OnMain(q) == Working(Main(q)) /\ th[Main(q)].q = q

\* Where each thread may be: an executor has works of its queue, a caller's
\* thread works of its endpoint, and what has no group has moved no frame.
Homes ==
    /\ \A q \in Queues : /\ th[q].pc \in Works \cup {"poll", "wait"}
                         /\ Working(q) => th[q].q = q
    /\ \A m \in Mains : /\ th[m].pc \in Works \cup {"free", "spin"}
                        /\ th[m].pc # "free" => Owner(th[m].q) = m[1]
    /\ \A t \in Threads : /\ th[t].pc \in (Works \ {"frames"}) \cup {"spin"}
                               => th[t].pos = 1 /\ th[t].got = {}
                          /\ th[t].pc \in {"free", "poll", "wait"} => th[t].op = 0

\* A queue that says it is done has no work, and a caller works in its own
\* thread only then.
Quiet(q) == /\ idle[q] => queue[q] = <<>> /\ ~Working(q)
            /\ OnMain(q) => idle[q]
IdleInv == \A q \in Queues : Quiet(q)

\* Every call is accounted for: done, being done, waiting, or with the caller,
\* in this order.
Done(q) == Len(finished[q])
Busy(q) == IF Working(q) THEN 1 ELSE 0
Pending(q) == IF MainOn(q) THEN 1 ELSE 0
Counted(q) ==
    /\ called[q] = Done(q) + Busy(q) + Len(queue[q]) + Pending(q)
    /\ called[q] <= Len(scene.pay[q[1]])
    /\ \A i \in 1..Len(queue[q]) : queue[q][i] = Done(q) + Busy(q) + i
    /\ Working(q) => th[q].op = Done(q) + 1
    /\ MainOn(q) => th[Main(q)].op = called[q]
Count == \A q \in Queues : Counted(q)

\* One thread of an endpoint sets the group up, rank 0 publishes one port.
Section(e) == {t \in Threads : Owner(t) = e /\ th[t].pc \in SectionPcs}
SetupInv ==
    /\ \A e \in Ends : locked[e] = Section(e) /\ \A t, u \in Section(e) : t = u
    /\ \A t \in Threads : /\ th[t].pc = "publish" => Owner(t) = 0 /\ ~ready[0]
                          /\ th[t].pc = "reset" => Owner(t) = 0
                          /\ th[t].pc = "barrier" => th[t].port = 1
    /\ ports \in 0..1 /\ port \in 0..ports
    /\ ports = 1 => ready[0] \/ \E t \in Threads : Owner(t) = 0 /\ th[t].pc = "barrier"

\* How far the work in hand of a queue is.
Pos(q) == IF Working(q) THEN th[q].pos
          ELSE IF OnMain(q) THEN th[Main(q)].pos ELSE 1
PLen(q, k) == Len(Program(q, k))

\* The ends of a direction are at the same frame of the same object, but for
\* the one that has ended a work before the other.
Facing(p, q) ==
    \/ Done(p) = Done(q) /\ Pos(p) = Pos(q)
    \/ Done(p) = Done(q) + 1 /\ Pos(p) = 1 /\ Pos(q) = PLen(q, Done(q) + 1) + 1
    \/ Done(q) = Done(p) + 1 /\ Pos(q) = 1 /\ Pos(p) = PLen(p, Done(p) + 1) + 1
Lockstep(d) == Facing(<<d, "send">>, <<d, "recv">>)
Reach(q) ==
    /\ Pos(q) >= 1
    /\ Pos(q) > 1 => /\ Pos(q) <= PLen(q, Done(q) + 1) + 1
                     /\ q[2] = "send" /\ Pos(q) = PLen(q, Done(q) + 1) + 1
                          => PLen(Receiver(q), Done(q) + 1) = PLen(q, Done(q) + 1)

\* What a recv has got, so far and in the end.
Gets(t) ==
    Working(t) /\ th[t].q[2] = "recv" =>
      th[t].got = IF th[t].pos = 1 THEN {} ELSE {<<Sender(th[t].q), th[t].op>>}
Right(q) ==
    q[2] = "recv" =>
      \A i \in 1..Done(q) : finished[q][i] = [op |-> i, got |-> {<<Sender(q), i>>}]

StepInv == /\ \A d \in Ends : Lockstep(d)
           /\ \A q \in Queues : Reach(q) /\ Right(q)
           /\ \A t \in Threads : Gets(t)

IInv == Types /\ Homes /\ IdleInv /\ Count /\ SetupInv /\ StepInv

-----------------------------------------------------------------------------
(* Setting the group up does not touch the works.                          *)

SetupStep ==
    /\ th' \in [Threads -> ThreadStates]
    /\ \A t \in Threads :
         \/ th'[t] = th[t]
         \/ /\ th[t].pc \in Works \ {"frames"} /\ th'[t].pc \in Works
            /\ th'[t].q = th[t].q /\ th'[t].op = th[t].op
            /\ th'[t].pos = th[t].pos /\ th'[t].got = th[t].got
    /\ UNCHANGED workVars

\* A thread's record with one of its fields changed, or two.
LEMMA ThreadFields ==
    ASSUME Types, NEW t \in Threads
    PROVE  /\ th[t] \in ThreadStates /\ th[t].pc \in Pcs /\ th[t].q \in Queues /\ th[t].op \in Nat
           /\ th[t].pos \in Nat /\ th[t].port \in Nat /\ th[t].got \in SUBSET (Queues \X Nat)
    <1>1. th[t] \in ThreadStates
        BY DEF Types
    <1> QED
        BY <1>1 DEF ThreadStates

LEMMA GotoStep ==
    ASSUME Types, NEW t \in Threads, NEW pc \in Works, Goto(t, pc)
    PROVE  /\ th' \in [Threads -> ThreadStates]
           /\ \A u \in Threads \ {t} : th'[u] = th[u]
           /\ th'[t].pc = pc /\ th'[t].q = th[t].q /\ th'[t].op = th[t].op
           /\ th'[t].pos = th[t].pos /\ th'[t].got = th[t].got /\ th'[t].port = th[t].port
    <1>1. th' = [th EXCEPT ![t] = [th[t] EXCEPT !.pc = pc]]
        BY DEF Goto
    <1>2. th[t] \in ThreadStates /\ pc \in Pcs
        BY ThreadFields DEF Works, Pcs
    <1>3. [th[t] EXCEPT !.pc = pc] \in ThreadStates
        BY <1>2 DEF ThreadStates
    <1>4. th \in [Threads -> ThreadStates]
        BY DEF Types
    <1>5. th'[t] = [th[t] EXCEPT !.pc = pc] /\ (\A u \in Threads \ {t} : th'[u] = th[u]) /\ th' \in [Threads -> ThreadStates]
        BY <1>1, <1>3, <1>4
    <1> QED
        BY <1>2, <1>5 DEF ThreadStates

LEMMA PortStep ==
    ASSUME Types, NEW t \in Threads, NEW n \in Nat,
           th' = [th EXCEPT ![t].pc = "barrier", ![t].port = n]
    PROVE  /\ th' \in [Threads -> ThreadStates]
           /\ \A u \in Threads \ {t} : th'[u] = th[u]
           /\ th'[t].pc = "barrier" /\ th'[t].q = th[t].q /\ th'[t].op = th[t].op
           /\ th'[t].pos = th[t].pos /\ th'[t].got = th[t].got /\ th'[t].port = n
    <1> DEFINE new == [[th[t] EXCEPT !.pc = "barrier"] EXCEPT !.port = n]
    <1>1. th' = [th EXCEPT ![t] = new]
        BY DEF Types
    <1>2. th[t] \in ThreadStates
        BY ThreadFields
    <1>3. /\ new \in ThreadStates /\ new.pc = "barrier" /\ new.q = th[t].q /\ new.op = th[t].op
          /\ new.pos = th[t].pos /\ new.got = th[t].got /\ new.port = n
        BY <1>2 DEF ThreadStates, Pcs
    <1>4. th \in [Threads -> ThreadStates]
        BY DEF Types
    <1> HIDE DEF new
    <1> QED
        BY <1>1, <1>3, <1>4

LEMMA ConnectStep ==
    ASSUME Types, NEW s \in Threads, NEW t \in Threads, Connect(s, t)
    PROVE  /\ th' \in [Threads -> ThreadStates]
           /\ \A u \in Threads \ {s, t} : th'[u] = th[u]
           /\ th'[s].pc = "reset" /\ th'[s].q = th[s].q /\ th'[s].op = th[s].op
           /\ th'[s].pos = th[s].pos /\ th'[s].got = th[s].got /\ th'[s].port = th[s].port
           /\ th'[t].pc = "frames" /\ th'[t].q = th[t].q /\ th'[t].op = th[t].op
           /\ th'[t].pos = th[t].pos /\ th'[t].got = th[t].got /\ th'[t].port = th[t].port
    <1>0. s # t
        BY DEF Connect
    <1> DEFINE new == [th[s] EXCEPT !.pc = "reset"]
               other == [th[t] EXCEPT !.pc = "frames"]
    <1>1. th' = [[th EXCEPT ![s] = new] EXCEPT ![t] = other]
        BY <1>0 DEF Connect, Types
    <1>2. th[s] \in ThreadStates /\ th[t] \in ThreadStates
        BY ThreadFields
    <1>3. /\ new \in ThreadStates /\ new.pc = "reset" /\ new.q = th[s].q /\ new.op = th[s].op
          /\ new.pos = th[s].pos /\ new.got = th[s].got /\ new.port = th[s].port
        BY <1>2 DEF ThreadStates, Pcs
    <1>4. /\ other \in ThreadStates /\ other.pc = "frames" /\ other.q = th[t].q /\ other.op = th[t].op
          /\ other.pos = th[t].pos /\ other.got = th[t].got /\ other.port = th[t].port
        BY <1>2 DEF ThreadStates, Pcs
    <1>5. th \in [Threads -> ThreadStates]
        BY DEF Types
    <1> HIDE DEF new, other
    <1> QED
        BY <1>0, <1>1, <1>3, <1>4, <1>5

LEMMA SetupSteps ==
    ASSUME Types, NEW t \in Threads, Setup(t)
    PROVE  Types' /\ SetupStep
    <1>0. \A u \in Threads : Owner(u) \in Ends
        BY ThreadIds
    <1>1. ASSUME SkipSetup(t) PROVE Types' /\ SetupStep
        <2>1. Goto(t, "frames") /\ "frames" \in Works /\ th[t].pc \in Works \ {"frames"}
            BY <1>1 DEF SkipSetup, Works
        <2>2. UNCHANGED workVars /\ UNCHANGED setupVars
            BY <1>1 DEF SkipSetup
        <2>3. SetupStep
            BY <2>1, <2>2, GotoStep DEF SetupStep
        <2> QED
            BY <2>2, <2>3 DEF Types, SetupStep, workVars, setupVars
    <1>2. ASSUME BeginSetup(t) PROVE Types' /\ SetupStep
        <2>1. PICK pc \in Works : pc = (IF Owner(t) = 0 THEN "publish" ELSE "poll port")
            BY DEF Works
        <2>2. Goto(t, pc) /\ th[t].pc \in Works \ {"frames"} /\ UNCHANGED workVars
            BY <1>2, <2>1 DEF BeginSetup, Works
        <2>3. SetupStep
            BY <2>1, <2>2, GotoStep DEF SetupStep
        <2>4. locked' \in [Ends -> SUBSET Threads]
            BY <1>0, <1>2 DEF BeginSetup, Types
        <2> QED
            BY <1>2, <2>3, <2>4 DEF Types, SetupStep, workVars, BeginSetup
    <1>3. ASSUME PublishPort(t) PROVE Types' /\ SetupStep
        <2>1. PICK n \in Nat : n = ports + 1
            BY DEF Types
        <2>2. th' = [th EXCEPT ![t].pc = "barrier", ![t].port = n] /\ UNCHANGED workVars /\ th[t].pc \in Works \ {"frames"}
            BY <1>3, <2>1 DEF PublishPort, Works
        <2>3. SetupStep
            BY <2>2, PortStep DEF SetupStep, Works
        <2> QED
            BY <1>3, <2>1, <2>3 DEF Types, SetupStep, workVars, PublishPort
    <1>4. ASSUME ReadPort(t) PROVE Types' /\ SetupStep
        <2>1. PICK n \in Nat : n = port
            BY DEF Types
        <2>2. th' = [th EXCEPT ![t].pc = "barrier", ![t].port = n] /\ UNCHANGED workVars /\ th[t].pc \in Works \ {"frames"}
            BY <1>4, <2>1 DEF ReadPort, Works
        <2>3. SetupStep
            BY <2>2, PortStep DEF SetupStep, Works
        <2> QED
            BY <1>4, <2>3 DEF Types, SetupStep, workVars, setupVars, ReadPort
    <1>5. ASSUME ResetPort(t) PROVE Types' /\ SetupStep
        <2>1. Goto(t, "frames") /\ "frames" \in Works /\ th[t].pc \in Works \ {"frames"} /\ UNCHANGED workVars
            BY <1>5 DEF ResetPort, Works
        <2>2. SetupStep
            BY <2>1, GotoStep DEF SetupStep
        <2>3. locked' \in [Ends -> SUBSET Threads]
            BY <1>5 DEF ResetPort, Types, Ends
        <2> QED
            BY <1>5, <2>2, <2>3 DEF Types, SetupStep, workVars, ResetPort, PortAfter
    <1>6. ASSUME NEW r \in Threads, Connect(t, r) PROVE Types' /\ SetupStep
        <2>1. th[t].pc \in Works \ {"frames"} /\ th[r].pc \in Works \ {"frames"} /\ UNCHANGED workVars
            BY <1>6 DEF Connect, Works
        <2>2. SetupStep
            BY <1>6, <2>1, ConnectStep DEF SetupStep, Works
        <2>3. locked' \in [Ends -> SUBSET Threads] /\ ready' \in [Ends -> BOOLEAN]
            BY <1>6 DEF Connect, Types, Ends
        <2> QED
            BY <1>6, <2>2, <2>3 DEF Types, SetupStep, workVars, Connect
    <1> QED
        BY <1>1, <1>2, <1>3, <1>4, <1>5, <1>6 DEF Setup

\* The programs are those of the scene.
LEMMA SameProgram ==
    ASSUME scene' = scene
    PROVE  \A q \in Queues, k \in Nat : PLen(q, k)' = PLen(q, k)
    BY DEF PLen, Program

\* What happens to no position and no result leaves the ends in step.
LEMMA PosKept ==
    ASSUME scene' = scene, StepInv,
           \A q \in Queues : Done(q)' = Done(q) /\ Pos(q)' = Pos(q) /\ Done(q) \in Nat
    PROVE  (\A d \in Ends : Lockstep(d)') /\ (\A q \in Queues : Reach(q)')
    <1>1. \A q \in Queues : PLen(q, Done(q) + 1)' = PLen(q, Done(q) + 1)
        BY DEF PLen, Program
    <1>2. \A q \in Queues : PLen(Receiver(q), Done(q) + 1)' = PLen(Receiver(q), Done(q) + 1)
        BY QueueIds DEF PLen, Program
    <1>3. ASSUME NEW d \in Ends PROVE Lockstep(d)'
        <2>1. Lockstep(d) /\ <<d, "send">> \in Queues /\ <<d, "recv">> \in Queues
            BY EndIds DEF StepInv
        <2> QED
            BY <1>1, <2>1 DEF Lockstep, Facing
    <1>4. ASSUME NEW q \in Queues PROVE Reach(q)'
        <2>1. Reach(q)
            BY DEF StepInv
        <2> QED
            BY <1>1, <1>2, <2>1 DEF Reach
    <1> QED
        BY <1>3, <1>4

LEMMA WorkCounts ==
    ASSUME Types
    PROVE  \A q \in Queues : /\ Done(q) \in Nat /\ called[q] \in Nat /\ Len(queue[q]) \in Nat
                             /\ Busy(q) \in {0, 1} /\ Pending(q) \in {0, 1}
    BY DEF Types, Done, Busy, Pending

LEMMA SetupKeepsWork ==
    ASSUME Types, Homes, IdleInv, Count, StepInv, SetupStep
    PROVE  Homes' /\ IdleInv' /\ Count' /\ StepInv'
    <1>1. /\ scene' = scene /\ called' = called /\ queue' = queue /\ idle' = idle /\ finished' = finished
        BY DEF SetupStep, workVars
    <1>2. \A t \in Threads : /\ Working(t)' = Working(t) /\ th'[t].q = th[t].q /\ th'[t].op = th[t].op
                             /\ th'[t].pos = th[t].pos /\ th'[t].got = th[t].got
                             /\ (th'[t].pc = th[t].pc \/ (th[t].pc \in Works \ {"frames"} /\ th'[t].pc \in Works))
        <2> TAKE t \in Threads
        <2>1. CASE th'[t] = th[t]
            <3>1. /\ th'[t].pc = th[t].pc /\ th'[t].q = th[t].q /\ th'[t].op = th[t].op
                  /\ th'[t].pos = th[t].pos /\ th'[t].got = th[t].got
                BY <2>1
            <3>2. Working(t)' = Working(t)
                BY <3>1, Zenon DEF Working
            <3> QED
                BY <3>1, <3>2
        <2>2. CASE th'[t] # th[t]
            <3>1. /\ th[t].pc \in Works \ {"frames"} /\ th'[t].pc \in Works
                  /\ th'[t].q = th[t].q /\ th'[t].op = th[t].op
                  /\ th'[t].pos = th[t].pos /\ th'[t].got = th[t].got
                BY <2>2 DEF SetupStep
            <3> QED
                BY <3>1 DEF Working
        <2> QED
            BY <2>1, <2>2
    <1>3. \A t \in Threads : th'[t].pc \in {"free", "spin", "poll", "wait"} \/ th[t].pc \in {"free", "spin", "poll", "wait"}
                               => th'[t].pc = th[t].pc
        BY <1>2 DEF Works
    <1>4. \A q \in Queues : /\ Working(q)' = Working(q) /\ OnMain(q)' = OnMain(q) /\ MainOn(q)' = MainOn(q)
                            /\ Pos(q)' = Pos(q) /\ Done(q)' = Done(q) /\ Busy(q)' = Busy(q) /\ Pending(q)' = Pending(q)
        <2> TAKE q \in Queues
        <2>1. q \in Threads /\ Main(q) \in Threads
            BY QueueIds, MainIds
        <2>2. Working(q)' = Working(q) /\ OnMain(q)' = OnMain(q)
            BY <1>2, <2>1 DEF OnMain
        <2>3. MainOn(q)' = MainOn(q)
            BY <1>2, <1>3, <2>1 DEF MainOn
        <2> QED
            BY <1>1, <1>2, <2>1, <2>2, <2>3 DEF Pos, Done, Busy, Pending
    <1>5. Homes'
        <2>1. ASSUME NEW q \in Queues
              PROVE  th'[q].pc \in Works \cup {"poll", "wait"} /\ (Working(q)' => th'[q].q = q)
            BY <1>2, <2>1, QueueIds DEF Homes
        <2>2. ASSUME NEW m \in Mains
              PROVE  th'[m].pc \in Works \cup {"free", "spin"} /\ (th'[m].pc # "free" => Owner(th'[m].q) = m[1])
            BY <1>2, <1>3, <2>2, MainIds DEF Homes
        <2>3. ASSUME NEW t \in Threads, th'[t].pc \in (Works \ {"frames"}) \cup {"spin"}
              PROVE  th'[t].pos = 1 /\ th'[t].got = {}
            BY <1>2, <1>3, <2>3 DEF Homes
        <2>4. ASSUME NEW t \in Threads, th'[t].pc \in {"free", "poll", "wait"}
              PROVE  th'[t].op = 0
            BY <1>2, <1>3, <2>4 DEF Homes
        <2> QED
            BY <2>1, <2>2, <2>3, <2>4 DEF Homes
    <1>6. IdleInv'
        BY <1>1, <1>4 DEF IdleInv, Quiet
    <1>7. Count'
        <2> SUFFICES ASSUME NEW q \in Queues PROVE Counted(q)'
            BY DEF Count
        <2>1. Counted(q) /\ q \in Threads /\ Main(q) \in Threads
            BY QueueIds, MainIds DEF Count
        <2> QED
            BY <1>1, <1>2, <1>4, <2>1 DEF Counted
    <1>8. StepInv'
        <2>1. (\A d \in Ends : Lockstep(d)') /\ (\A q \in Queues : Reach(q)')
            BY <1>1, <1>4, WorkCounts, PosKept
        <2>2. \A q \in Queues : Right(q)'
            BY <1>1, <1>4 DEF StepInv, Right
        <2>3. \A t \in Threads : Gets(t)'
            BY <1>2 DEF StepInv, Gets
        <2> QED
            BY <2>1, <2>2, <2>3 DEF StepInv
    <1> QED
        BY <1>5, <1>6, <1>7, <1>8

-----------------------------------------------------------------------------
(* One thread of an endpoint at a time sets the group up.                  *)

\* The other actions do not touch the set-up.
OutsideSetup ==
    /\ UNCHANGED setupVars
    /\ \A t \in Threads : \/ th'[t].pc = th[t].pc /\ th'[t].port = th[t].port
                          \/ th[t].pc \notin SectionPcs /\ th'[t].pc \notin SectionPcs

LEMMA WorkKeepsSetup ==
    ASSUME SetupInv, OutsideSetup
    PROVE  SetupInv'
    <1>1. UNCHANGED <<port, ports, locked, ready>>
        BY DEF OutsideSetup, setupVars
    <1>2. \A e \in Ends : Section(e)' = Section(e)
        BY DEF OutsideSetup, Section
    <1>3. \A t \in Threads : /\ (th'[t].pc = "publish" => th[t].pc = "publish")
                             /\ (th'[t].pc = "reset" => th[t].pc = "reset")
                             /\ (th'[t].pc = "barrier" <=> th[t].pc = "barrier")
                             /\ (th'[t].pc = "barrier" => th'[t].port = th[t].port)
        BY DEF OutsideSetup, SectionPcs
    <1> QED
        BY <1>1, <1>2, <1>3 DEF SetupInv

LEMMA SectionAlone ==
    ASSUME SetupInv, NEW t \in Threads, NEW u \in Threads, Owner(t) = Owner(u),
           th[t].pc \in SectionPcs, th[u].pc \in SectionPcs
    PROVE  t = u
    <1>1. Owner(t) \in Ends /\ t \in Section(Owner(t)) /\ u \in Section(Owner(t))
        BY ThreadIds DEF Section
    <1> QED
        BY <1>1 DEF SetupInv

LEMMA SkipKeepsSetup ==
    ASSUME Types, SetupInv, NEW t \in Threads, SkipSetup(t)
    PROVE  SetupInv'
    <1>1. Goto(t, "frames") /\ "frames" \in Works /\ th[t].pc = "lock" /\ UNCHANGED setupVars
        BY DEF SkipSetup, Works
    <1>2. OutsideSetup
        BY <1>1, GotoStep DEF OutsideSetup, SectionPcs
    <1> QED
        BY <1>2, WorkKeepsSetup

LEMMA BeginKeepsSetup ==
    ASSUME Types, SetupInv, NEW t \in Threads, BeginSetup(t)
    PROVE  SetupInv'
    <1>1. PICK pc \in Works : pc = (IF Owner(t) = 0 THEN "publish" ELSE "poll port")
        BY DEF Works
    <1>2. /\ th[t].pc = "lock" /\ locked[Owner(t)] = {} /\ ~ready[Owner(t)] /\ Goto(t, pc)
          /\ locked' = [locked EXCEPT ![Owner(t)] = @ \union {t}]
          /\ port' = port /\ ports' = ports /\ ready' = ready
        BY <1>1 DEF BeginSetup, LockFree
    <1>3. /\ \A u \in Threads \ {t} : th'[u] = th[u]
          /\ th'[t].pc = pc
        BY <1>2, GotoStep
    <1>4. Owner(t) \in Ends
        BY ThreadIds
    <1>5. \A e \in Ends : Section(e)' = IF e = Owner(t) THEN {t} ELSE Section(e)
        <2> TAKE e \in Ends
        <2>1. CASE e = Owner(t)
            <3>1. Section(e) = {}
                BY <1>2, <1>4, <2>1 DEF SetupInv
            <3>2. \A u \in Threads \ {t} : ~(Owner(u) = e /\ th[u].pc \in SectionPcs)
                BY <3>1 DEF Section
            <3>3. pc \in SectionPcs
                BY <1>1 DEF SectionPcs
            <3> QED
                BY <1>3, <2>1, <3>2, <3>3 DEF Section
        <2>2. CASE e # Owner(t)
            BY <1>3, <2>2 DEF Section
        <2> QED
            BY <2>1, <2>2
    <1>6. \A e \in Ends : locked'[e] = Section(e)' /\ \A u, v \in Section(e)' : u = v
        <2> TAKE e \in Ends
        <2>1. CASE e = Owner(t)
            BY <1>2, <1>4, <1>5, <2>1 DEF Types
        <2>2. CASE e # Owner(t)
            <3>1. locked'[e] = locked[e]
                BY <1>2, <1>4, <2>2 DEF Types
            <3> QED
                BY <1>5, <2>2, <3>1 DEF SetupInv
        <2> QED
            BY <2>1, <2>2
    <1>7. \A u \in Threads : /\ (th'[u].pc = "publish" => Owner(u) = 0 /\ ~ready'[0])
                             /\ (th'[u].pc = "reset" => Owner(u) = 0)
                             /\ (th'[u].pc = "barrier" => th'[u].port = 1)
        <2> TAKE u \in Threads
        <2>1. CASE u = t
            BY <1>1, <1>2, <1>3, <2>1
        <2>2. CASE u # t
            BY <1>2, <1>3, <2>2 DEF SetupInv
        <2> QED
            BY <2>1, <2>2
    <1>8. (\E u \in Threads : Owner(u) = 0 /\ th[u].pc = "barrier")
            => (\E u \in Threads : Owner(u) = 0 /\ th'[u].pc = "barrier")
        BY <1>2, <1>3
    <1> QED
        BY <1>2, <1>6, <1>7, <1>8 DEF SetupInv

LEMMA PublishKeepsSetup ==
    ASSUME Types, SetupInv, NEW t \in Threads, PublishPort(t)
    PROVE  SetupInv'
    <1>1. /\ th[t].pc = "publish" /\ Owner(t) = 0 /\ ~ready[0]
          /\ port' = ports + 1 /\ ports' = ports + 1
          /\ locked' = locked /\ ready' = ready
        BY DEF PublishPort, SetupInv
    <1>2. ports = 0
        <2> SUFFICES ASSUME ports = 1 PROVE FALSE
            BY DEF SetupInv
        <2>1. PICK u \in Threads : Owner(u) = 0 /\ th[u].pc = "barrier"
            BY <1>1 DEF SetupInv
        <2>2. u = t
            BY <1>1, <2>1, SectionAlone DEF SectionPcs
        <2> QED
            BY <1>1, <2>1, <2>2
    <1>3. /\ \A u \in Threads \ {t} : th'[u] = th[u]
          /\ th'[t].pc = "barrier" /\ th'[t].port = 1
        <2>1. PICK n \in Nat : n = ports + 1 /\ n = 1
            BY <1>2
        <2>2. th' = [th EXCEPT ![t].pc = "barrier", ![t].port = n]
            BY <2>1 DEF PublishPort
        <2> QED
            BY <2>1, <2>2, PortStep
    <1>4. \A e \in Ends : Section(e)' = Section(e)
        BY <1>1, <1>3 DEF Section, SectionPcs
    <1>5. \A u \in Threads : /\ (th'[u].pc = "publish" => Owner(u) = 0 /\ ~ready'[0])
                             /\ (th'[u].pc = "reset" => Owner(u) = 0)
                             /\ (th'[u].pc = "barrier" => th'[u].port = 1)
        BY <1>1, <1>3 DEF SetupInv
    <1>6. Owner(t) = 0 /\ th'[t].pc = "barrier" /\ ports' \in 0..1 /\ port' \in 0..ports'
        BY <1>1, <1>2, <1>3
    <1>7. \A e \in Ends : locked'[e] = Section(e)' /\ \A u, v \in Section(e)' : u = v
        BY <1>1, <1>4 DEF SetupInv
    <1> QED
        BY <1>5, <1>6, <1>7 DEF SetupInv

LEMMA ReadKeepsSetup ==
    ASSUME Types, SetupInv, NEW t \in Threads, ReadPort(t)
    PROVE  SetupInv'
    <1>1. /\ th[t].pc = "poll port" /\ port # 0 /\ port \in 0..ports /\ ports \in 0..1
          /\ UNCHANGED <<port, ports, locked, ready>>
        BY DEF ReadPort, SetupInv, setupVars
    <1>2. port = 1
        <2>1. port # 0 /\ port \in 0..ports /\ ports \in 0..1
            BY DEF ReadPort, SetupInv
        <2>2. \A m \in 0..1 : \A n \in 0..m : n = 0 \/ n = 1
            OBVIOUS
        <2> QED
            BY <2>1, <2>2, Zenon
    <1>3. /\ \A u \in Threads \ {t} : th'[u] = th[u]
          /\ th'[t].pc = "barrier" /\ th'[t].port = 1
        <2>1. PICK n \in Nat : n = port /\ n = 1
            BY <1>2
        <2>2. th' = [th EXCEPT ![t].pc = "barrier", ![t].port = n]
            BY <2>1 DEF ReadPort
        <2> QED
            BY <2>1, <2>2, PortStep
    <1>4. \A e \in Ends : Section(e)' = Section(e)
        BY <1>1, <1>3 DEF Section, SectionPcs
    <1>5. \A u \in Threads : /\ (th'[u].pc = "publish" => Owner(u) = 0 /\ ~ready'[0])
                             /\ (th'[u].pc = "reset" => Owner(u) = 0)
                             /\ (th'[u].pc = "barrier" => th'[u].port = 1)
        BY <1>1, <1>3 DEF SetupInv
    <1>6. ports' = 1 => ready'[0] \/ \E u \in Threads : Owner(u) = 0 /\ th'[u].pc = "barrier"
        <2>1. \A u \in Threads : th[u].pc = "barrier" => th'[u].pc = "barrier"
            BY <1>1, <1>3
        <2> QED
            BY <1>1, <2>1 DEF SetupInv
    <1>7. \A e \in Ends : locked'[e] = Section(e)' /\ \A u, v \in Section(e)' : u = v
        <2>1. \A e \in Ends : locked[e] = Section(e) /\ \A u, v \in Section(e) : u = v
            BY DEF SetupInv
        <2> QED
            BY <1>1, <1>4, <2>1
    <1>8. ports' \in 0..1 /\ port' \in 0..ports'
        BY <1>1
    <1> QED
        BY <1>5, <1>6, <1>7, <1>8 DEF SetupInv

LEMMA ConnectKeepsSetup ==
    ASSUME Types, SetupInv, NEW s \in Threads, NEW t \in Threads, Connect(s, t)
    PROVE  SetupInv'
    <1>1. /\ Owner(s) = 0 /\ Owner(t) = 1 /\ th[s].pc = "barrier" /\ th[t].pc = "barrier"
          /\ ready' = [e \in Ends |-> TRUE]
          /\ locked' = [locked EXCEPT ![1] = @ \ {t}]
          /\ port' = port /\ ports' = ports
        BY DEF Connect
    <1>2. /\ \A u \in Threads \ {s, t} : th'[u] = th[u]
          /\ th'[s].pc = "reset" /\ th'[t].pc = "frames"
        BY ConnectStep
    <1>3. \A u \in Threads : Owner(u) = 0 /\ th[u].pc \in SectionPcs => u = s
        BY <1>1, SectionAlone DEF SectionPcs
    <1>4. Section(0)' = Section(0)
        <2>1. \A u \in Threads : Owner(u) = 0 => (th'[u].pc \in SectionPcs <=> th[u].pc \in SectionPcs)
            <3> TAKE u \in Threads
            <3> SUFFICES ASSUME Owner(u) = 0
                         PROVE  th'[u].pc \in SectionPcs <=> th[u].pc \in SectionPcs
                OBVIOUS
            <3>1. u # t
                BY <1>1
            <3>2. CASE u = s
                BY <1>1, <1>2, <3>2 DEF SectionPcs
            <3>3. CASE u # s
                BY <1>2, <3>1, <3>3
            <3> QED
                BY <3>2, <3>3
        <2> QED
            BY <2>1 DEF Section
    <1>5. Section(1)' = Section(1) \ {t}
        BY <1>1, <1>2 DEF Section, SectionPcs
    <1>6. \A e \in Ends : locked'[e] = Section(e)' /\ \A u, v \in Section(e)' : u = v
        BY <1>1, <1>4, <1>5 DEF SetupInv, Types, Ends
    <1>7. \A u \in Threads : /\ (th'[u].pc = "publish" => Owner(u) = 0 /\ ~ready'[0])
                             /\ (th'[u].pc = "reset" => Owner(u) = 0)
                             /\ (th'[u].pc = "barrier" => th'[u].port = 1)
        <2> TAKE u \in Threads
        <2>1. CASE u = s \/ u = t
            BY <1>1, <1>2, <2>1
        <2>2. CASE u # s /\ u # t
            <3>1. th'[u] = th[u]
                BY <1>2, <2>2
            <3>2. th[u].pc # "publish"
                BY <1>3, <2>2 DEF SetupInv, SectionPcs
            <3> QED
                BY <3>1, <3>2 DEF SetupInv
        <2> QED
            BY <2>1, <2>2
    <1>8. ready'[0]
        BY <1>1 DEF Ends
    <1> QED
        BY <1>1, <1>6, <1>7, <1>8 DEF SetupInv

LEMMA ResetKeepsSetup ==
    ASSUME Types, SetupInv, NEW t \in Threads, ResetPort(t)
    PROVE  SetupInv'
    <1>1. /\ th[t].pc = "reset" /\ Owner(t) = 0 /\ Goto(t, "frames") /\ "frames" \in Works
          /\ port' = 0 /\ ports' = ports /\ ready' = ready
          /\ locked' = [locked EXCEPT ![0] = @ \ {t}]
        BY DEF ResetPort, PortAfter, SetupInv, Works
    <1>2. /\ \A u \in Threads \ {t} : th'[u] = th[u]
          /\ th'[t].pc = "frames"
        BY <1>1, GotoStep
    <1>3. Section(0)' = Section(0) \ {t}
        BY <1>1, <1>2 DEF Section, SectionPcs
    <1>4. Section(1)' = Section(1)
        <2>1. \A u \in Threads : Owner(u) = 1 => th'[u] = th[u]
            BY <1>1, <1>2
        <2> QED
            BY <2>1 DEF Section
    <1>5. \A e \in Ends : locked'[e] = Section(e)' /\ \A u, v \in Section(e)' : u = v
        BY <1>1, <1>3, <1>4 DEF SetupInv, Types, Ends
    <1>6. \A u \in Threads : /\ (th'[u].pc = "publish" => Owner(u) = 0 /\ ~ready'[0])
                             /\ (th'[u].pc = "reset" => Owner(u) = 0)
                             /\ (th'[u].pc = "barrier" => th'[u].port = 1)
        BY <1>1, <1>2 DEF SetupInv
    <1>7. ports' = 1 => ready'[0] \/ \E u \in Threads : Owner(u) = 0 /\ th'[u].pc = "barrier"
        <2>1. \A u \in Threads : th[u].pc = "barrier" => th'[u].pc = "barrier"
            BY <1>1, <1>2
        <2> QED
            BY <1>1, <2>1 DEF SetupInv
    <1>8. ports' \in 0..1 /\ port' \in 0..ports'
        BY <1>1 DEF SetupInv
    <1> QED
        BY <1>5, <1>6, <1>7, <1>8 DEF SetupInv

LEMMA SetupKeepsIInv ==
    ASSUME IInv, NEW t \in Threads, Setup(t)
    PROVE  IInv'
    <1>1. Types /\ Homes /\ IdleInv /\ Count /\ SetupInv /\ StepInv
        BY DEF IInv
    <1>2. Types' /\ SetupStep
        BY <1>1, SetupSteps
    <1>3. Homes' /\ IdleInv' /\ Count' /\ StepInv'
        BY <1>1, <1>2, SetupKeepsWork
    <1>4. SetupInv'
        BY <1>1, SkipKeepsSetup, BeginKeepsSetup, PublishKeepsSetup, ReadKeepsSetup,
           ConnectKeepsSetup, ResetKeepsSetup DEF Setup
    <1> QED
        BY <1>2, <1>3, <1>4 DEF IInv


-----------------------------------------------------------------------------
(* A step of one queue, by its executor or by the caller's thread.         *)

Local(q, t) ==
    /\ t = q \/ t = Main(q)
    /\ \A u \in Threads \ {t} : th'[u] = th[u]
    /\ t = Main(q) => /\ th[t].pc = "free" \/ th[t].q = q
                      /\ th'[t].pc = "free" \/ th'[t].q = q
    /\ scene' = scene
    /\ \A p \in Queues \ {q} : /\ called'[p] = called[p] /\ queue'[p] = queue[p]
                               /\ idle'[p] = idle[p] /\ finished'[p] = finished[p]

\* The other queues do not notice.
LEMMA OthersKept ==
    ASSUME NEW q \in Queues, NEW t \in Threads, Local(q, t), NEW p \in Queues \ {q}
    PROVE  /\ Working(p)' = Working(p) /\ th'[p] = th[p]
           /\ MainOn(p)' = MainOn(p) /\ OnMain(p)' = OnMain(p)
           /\ MainOn(p) => th'[Main(p)] = th[Main(p)]
           /\ Done(p)' = Done(p) /\ Pos(p)' = Pos(p)
           /\ (Counted(p) => Counted(p)') /\ (Quiet(p) => Quiet(p)') /\ (Right(p) => Right(p)')
    <1>0. p \in Threads /\ Main(p) \in Mains /\ Main(p) \in Threads /\ p # Main(q) /\ Main(q) \in Mains
        BY QueueIds, MainIds
    <1>1. th'[p] = th[p] /\ Working(p)' = Working(p)
        BY <1>0 DEF Local, Working
    <1>2. CASE Main(p) = t
        <2>1. t = Main(q)
            BY <1>0, <1>2, MainIds DEF Local
        <2>2. /\ th[Main(p)].pc = "free" \/ th[Main(p)].q = q
              /\ th'[Main(p)].pc = "free" \/ th'[Main(p)].q = q
            BY <1>2, <2>1 DEF Local
        <2>3. ~MainOn(p) /\ ~MainOn(p)'
            BY <2>2 DEF MainOn
        <2>4. ~OnMain(p) /\ ~OnMain(p)'
            BY <2>2 DEF OnMain, Working, Works
        <2> QED
            <3>1. /\ scene' = scene /\ called'[p] = called[p] /\ queue'[p] = queue[p]
                  /\ idle'[p] = idle[p] /\ finished'[p] = finished[p]
                BY DEF Local
            <3>2. Done(p)' = Done(p) /\ Pos(p)' = Pos(p) /\ Busy(p)' = Busy(p) /\ Pending(p)' = Pending(p)
                BY <1>1, <2>3, <2>4, <3>1 DEF Done, Pos, Busy, Pending
            <3>3. MainOn(p)' = MainOn(p) /\ OnMain(p)' = OnMain(p)
                BY <2>3, <2>4 DEF MainOn, OnMain, Working
            <3>4. Counted(p) => Counted(p)'
                BY <1>1, <2>3, <3>1, <3>2 DEF Counted
            <3>5. Quiet(p) => Quiet(p)'
                BY <1>1, <2>4, <3>1 DEF Quiet
            <3>6. Right(p) => Right(p)'
                BY <3>1, <3>2 DEF Right
            <3> QED
                BY <1>1, <2>3, <3>2, <3>3, <3>4, <3>5, <3>6
    <1>3. CASE Main(p) # t
        <2>1. th'[Main(p)] = th[Main(p)]
            BY <1>0, <1>3 DEF Local
        <2>2. MainOn(p)' = MainOn(p) /\ OnMain(p)' = OnMain(p)
            BY <2>1 DEF MainOn, OnMain, Working
        <2> QED
            BY <1>1, <2>1, <2>2 DEF Local, Done, Pos, Counted, Quiet, Right, Busy, Pending
    <1> QED
        BY <1>2, <1>3

\* So that the invariant is a matter of the queue.
LEMMA LocalKeeps ==
    ASSUME Types, NEW q \in Queues, NEW t \in Threads, Local(q, t), IdleInv, Count, StepInv,
           Quiet(q)', Counted(q)'
    PROVE  /\ IdleInv' /\ Count'
           /\ Done(q)' = Done(q) /\ Pos(q)' = Pos(q)
                => (\A d \in Ends : Lockstep(d)') /\ (\A p \in Queues : Reach(p)')
           /\ Right(q)' => \A p \in Queues : Right(p)'
    <1>1. \A p \in Queues \ {q} : Quiet(p)' /\ Counted(p)' /\ Right(p)' /\ Done(p)' = Done(p) /\ Pos(p)' = Pos(p)
        BY OthersKept DEF IdleInv, Count, StepInv
    <1>2. IdleInv' /\ Count'
        BY <1>1 DEF IdleInv, Count
    <1>3. ASSUME Done(q)' = Done(q), Pos(q)' = Pos(q)
          PROVE  (\A d \in Ends : Lockstep(d)') /\ (\A p \in Queues : Reach(p)')
        <2>1. scene' = scene
            BY DEF Local
        <2>2. \A p \in Queues : Done(p)' = Done(p) /\ Pos(p)' = Pos(p) /\ Done(p) \in Nat
            BY <1>1, <1>3, WorkCounts
        <2> QED
            BY <2>1, <2>2, PosKept
    <1> QED
        BY <1>1, <1>2, <1>3

\* The threads' part of the invariant, when one thread changes.
LEMMA ThreadKeeps ==
    ASSUME Homes, StepInv, NEW t \in Threads, \A u \in Threads \ {t} : th'[u] = th[u],
           t \in Queues => /\ th'[t].pc \in Works \cup {"poll", "wait"}
                           /\ Working(t)' => th'[t].q = t,
           t \in Mains => /\ th'[t].pc \in Works \cup {"free", "spin"}
                          /\ th'[t].pc # "free" => Owner(th'[t].q) = t[1],
           th'[t].pc \in (Works \ {"frames"}) \cup {"spin"} => th'[t].pos = 1 /\ th'[t].got = {},
           th'[t].pc \in {"free", "poll", "wait"} => th'[t].op = 0,
           Gets(t)'
    PROVE  Homes' /\ \A u \in Threads : Gets(u)'
    <1>1. \A u \in Threads \ {t} : Gets(u)'
        BY DEF StepInv, Gets, Working
    <1>2. ASSUME NEW q \in Queues
          PROVE  th'[q].pc \in Works \cup {"poll", "wait"} /\ (Working(q)' => th'[q].q = q)
        <2>1. CASE q = t
            BY <1>2, <2>1
        <2>2. CASE q # t
            BY <1>2, <2>2, QueueIds DEF Homes, Working
        <2> QED
            BY <2>1, <2>2
    <1>3. ASSUME NEW m \in Mains
          PROVE  th'[m].pc \in Works \cup {"free", "spin"} /\ (th'[m].pc # "free" => Owner(th'[m].q) = m[1])
        <2>1. CASE m = t
            BY <1>3, <2>1
        <2>2. CASE m # t
            BY <1>3, <2>2, MainIds DEF Homes
        <2> QED
            BY <2>1, <2>2
    <1>4. ASSUME NEW u \in Threads, th'[u].pc \in (Works \ {"frames"}) \cup {"spin"}
          PROVE  th'[u].pos = 1 /\ th'[u].got = {}
        <2>1. CASE u = t
            BY <1>4, <2>1
        <2>2. CASE u # t
            BY <1>4, <2>2 DEF Homes
        <2> QED
            BY <2>1, <2>2
    <1>5. ASSUME NEW u \in Threads, th'[u].pc \in {"free", "poll", "wait"}
          PROVE  th'[u].op = 0
        <2>1. CASE u = t
            BY <1>5, <2>1
        <2>2. CASE u # t
            BY <1>5, <2>2 DEF Homes
        <2> QED
            BY <2>1, <2>2
    <1> QED
        BY <1>1, <1>2, <1>3, <1>4, <1>5 DEF Homes

\* The steps that end no work and move no frame.
LEMMA StepKeeps ==
    ASSUME IInv, Types', OutsideSetup, NEW q \in Queues, NEW t \in Threads, Local(q, t),
           Quiet(q)', Counted(q)', finished' = finished, Pos(q)' = Pos(q),
           t \in Queues => /\ th'[t].pc \in Works \cup {"poll", "wait"}
                           /\ Working(t)' => th'[t].q = t,
           t \in Mains => /\ th'[t].pc \in Works \cup {"free", "spin"}
                          /\ th'[t].pc # "free" => Owner(th'[t].q) = t[1],
           th'[t].pc \in (Works \ {"frames"}) \cup {"spin"} => th'[t].pos = 1 /\ th'[t].got = {},
           th'[t].pc \in {"free", "poll", "wait"} => th'[t].op = 0,
           Gets(t)'
    PROVE  IInv'
    <1>1. Types /\ Homes /\ IdleInv /\ Count /\ SetupInv /\ StepInv
        BY DEF IInv
    <1>2. SetupInv'
        BY <1>1, WorkKeepsSetup
    <1>3. Done(q)' = Done(q) /\ Right(q)'
        BY <1>1 DEF Done, StepInv, Right
    <1>4. /\ IdleInv' /\ Count'
          /\ (\A d \in Ends : Lockstep(d)') /\ (\A p \in Queues : Reach(p)') /\ (\A p \in Queues : Right(p)')
        BY <1>1, <1>3, LocalKeeps
    <1>5. \A u \in Threads \ {t} : th'[u] = th[u]
        BY DEF Local
    <1>6. Homes' /\ \A u \in Threads : Gets(u)'
        BY <1>1, <1>5, ThreadKeeps
    <1>7. StepInv'
        BY <1>4, <1>6 DEF StepInv
    <1> QED
        BY <1>2, <1>4, <1>6, <1>7 DEF IInv

LEMMA Records ==
    /\ \A q \in Queues, k \in Nat :
         /\ Starting(q, k) \in ThreadStates
         /\ Starting(q, k).pc = "lock" /\ Starting(q, k).q = q /\ Starting(q, k).op = k
         /\ Starting(q, k).pos = 1 /\ Starting(q, k).got = {}
         /\ [Starting(q, k) EXCEPT !.pc = "spin"] \in ThreadStates
         /\ [Starting(q, k) EXCEPT !.pc = "spin"].pc = "spin"
         /\ [Starting(q, k) EXCEPT !.pc = "spin"].q = q /\ [Starting(q, k) EXCEPT !.pc = "spin"].op = k
         /\ [Starting(q, k) EXCEPT !.pc = "spin"].pos = 1 /\ [Starting(q, k) EXCEPT !.pc = "spin"].got = {}
    /\ \A pc \in Pcs : /\ Resting(pc) \in ThreadStates
                       /\ Resting(pc).pc = pc /\ Resting(pc).op = 0
    <1>1. <<0, "send">> \in Queues /\ "lock" \in Pcs /\ "spin" \in Pcs
        BY DEF Queues, Ends, Sides, Pcs
    <1>2. \A pc \in Pcs : /\ Resting(pc) \in ThreadStates
                          /\ Resting(pc).pc = pc /\ Resting(pc).op = 0
        BY <1>1 DEF Resting, ThreadStates
    <1>3. PICK r \in ThreadStates : r = Resting("lock") /\ r.pc = "lock" /\ r.got = {}
        <2>1. Resting("lock") \in ThreadStates /\ Resting("lock").pc = "lock" /\ Resting("lock").got = {}
            BY <1>1, <1>2 DEF Resting
        <2> QED
            BY <2>1
    <1>4. ASSUME NEW q \in Queues, NEW k \in Nat
          PROVE  /\ Starting(q, k) \in ThreadStates
                 /\ Starting(q, k).pc = "lock" /\ Starting(q, k).q = q /\ Starting(q, k).op = k
                 /\ Starting(q, k).pos = 1 /\ Starting(q, k).got = {}
        <2>1. Starting(q, k) = [[[r EXCEPT !.q = q] EXCEPT !.op = k] EXCEPT !.pos = 1]
            BY <1>3 DEF Starting
        <2>2. PICK r1 \in ThreadStates : r1 = [r EXCEPT !.q = q]
            BY <1>3 DEF ThreadStates
        <2>3. r1.pc = "lock" /\ r1.got = {} /\ r1.q = q
            BY <1>3, <2>2 DEF ThreadStates
        <2>4. PICK r2 \in ThreadStates : r2 = [r1 EXCEPT !.op = k]
            BY <2>2 DEF ThreadStates
        <2>5. r2.pc = "lock" /\ r2.got = {} /\ r2.q = q /\ r2.op = k
            BY <2>2, <2>3, <2>4 DEF ThreadStates
        <2>6. PICK r3 \in ThreadStates : r3 = [r2 EXCEPT !.pos = 1]
            BY <2>4 DEF ThreadStates
        <2>7. r3.pc = "lock" /\ r3.got = {} /\ r3.q = q /\ r3.op = k /\ r3.pos = 1
            BY <2>4, <2>5, <2>6 DEF ThreadStates
        <2> QED
            BY <2>1, <2>2, <2>4, <2>6, <2>7
    <1>5. ASSUME NEW q \in Queues, NEW k \in Nat
          PROVE  /\ [Starting(q, k) EXCEPT !.pc = "spin"] \in ThreadStates
                 /\ [Starting(q, k) EXCEPT !.pc = "spin"].pc = "spin"
                 /\ [Starting(q, k) EXCEPT !.pc = "spin"].q = q /\ [Starting(q, k) EXCEPT !.pc = "spin"].op = k
                 /\ [Starting(q, k) EXCEPT !.pc = "spin"].pos = 1 /\ [Starting(q, k) EXCEPT !.pc = "spin"].got = {}
        BY <1>1, <1>4 DEF ThreadStates
    <1> QED
        BY <1>2, <1>4, <1>5

\* The objects to be sent.
LEMMA Payloads ==
    ASSUME Types, NEW q \in Queues
    PROVE  /\ scene.pay[q[1]] \in Seq(Objects) /\ Len(scene.pay[q[1]]) \in Nat
           /\ DOMAIN scene.pay[q[1]] = 1..Len(scene.pay[q[1]])
    <1>1. scene \in Scenes /\ q[1] \in Ends
        BY QueueIds DEF Types
    <1> QED
        BY <1>1, ScenesAssumption

LEMMA CallAsyncKeeps ==
    ASSUME IInv, NEW q \in Queues, CallAsync(q)
    PROVE  IInv'
    <1>1. Types /\ Homes /\ IdleInv /\ Count /\ SetupInv /\ StepInv
        BY DEF IInv
    <1>2. PICK k \in Nat : k = called[q] + 1
        BY <1>1 DEF Types
    <1>3. /\ th[Main(q)].pc = "free" /\ k <= Len(scene.pay[q[1]])
          /\ called' = [called EXCEPT ![q] = k]
          /\ idle' = [idle EXCEPT ![q] = FALSE]
          /\ queue' = [queue EXCEPT ![q] = Append(@, k)]
          /\ scene' = scene /\ th' = th /\ finished' = finished /\ UNCHANGED setupVars
        BY <1>1, <1>2, Payloads DEF CallAsync, Enqueue, Main
    <1>4. Main(q) \in Threads /\ Main(q) \in Mains /\ Main(q) \notin Queues /\ q \in Threads
        BY QueueIds, MainIds
    <1>5. called'[q] = k /\ ~idle'[q] /\ queue'[q] = Append(queue[q], k) /\ queue[q] \in Seq(Nat)
        BY <1>1, <1>3 DEF Types
    <1>6. Types'
        <2>1. Append(queue[q], k) \in Seq(Nat)
            BY <1>5
        <2> QED
            BY <1>1, <1>3, <2>1 DEF Types, setupVars
    <1>7. OutsideSetup
        BY <1>3 DEF OutsideSetup
    <1>8. Local(q, Main(q))
        BY <1>1, <1>3 DEF Local, Types
    <1>9. ~MainOn(q) /\ ~MainOn(q)' /\ ~OnMain(q) /\ ~OnMain(q)' /\ Working(q)' = Working(q)
        BY <1>3 DEF MainOn, OnMain, Working, Works
    <1>10. Quiet(q)' /\ Pos(q)' = Pos(q)
        BY <1>3, <1>5, <1>9 DEF Quiet, Pos
    <1>11. Counted(q)'
        <2>1. Counted(q) /\ Len(queue[q]) \in Nat /\ Done(q) \in Nat /\ Busy(q) \in {0, 1}
            BY <1>1, WorkCounts DEF Count
        <2>2. Done(q)' = Done(q) /\ Busy(q)' = Busy(q) /\ Pending(q) = 0 /\ Pending(q)' = 0
            BY <1>3, <1>9 DEF Done, Busy, Pending
        <2>3. called[q] = Done(q) + Busy(q) + Len(queue[q])
            BY <2>1, <2>2 DEF Counted
        <2>4. /\ Len(queue'[q]) = Len(queue[q]) + 1
              /\ \A i \in 1..Len(queue[q]) : queue'[q][i] = queue[q][i]
              /\ queue'[q][Len(queue[q]) + 1] = k
            BY <1>5
        <2>5. \A i \in 1..Len(queue'[q]) : queue'[q][i] = Done(q) + Busy(q) + i
            <3> TAKE i \in 1..Len(queue'[q])
            <3>1. CASE i \in 1..Len(queue[q])
                BY <2>1, <2>4, <3>1 DEF Counted
            <3>2. CASE i = Len(queue[q]) + 1
                <4>0. PICK d \in Nat, b \in {0, 1}, n \in Nat : d = Done(q) /\ b = Busy(q) /\ n = Len(queue[q])
                    BY <2>1
                <4>1. k = Done(q) + Busy(q) + (Len(queue[q]) + 1)
                    <5>1. called[q] = d + b + n /\ k = called[q] + 1
                        BY <1>2, <2>3, <4>0
                    <5>2. (d + b + n) + 1 = d + b + (n + 1)
                        BY <4>0
                    <5> QED
                        BY <4>0, <5>1, <5>2
                <4> QED
                    BY <2>4, <3>2, <4>1
            <3> QED
                BY <2>1, <2>4, <3>1, <3>2
        <2>6. called'[q] = Done(q)' + Busy(q)' + Len(queue'[q]) + Pending(q)'
            <3>1. PICK d \in Nat, b \in {0, 1}, n \in Nat : d = Done(q) /\ b = Busy(q) /\ n = Len(queue[q])
                BY <2>1
            <3>2. k = d + b + (n + 1) + 0
                BY <1>2, <2>3, <3>1
            <3>3. Len(queue'[q]) = n + 1
                BY <2>4, <3>1
            <3> QED
                BY <1>5, <2>2, <3>1, <3>2, <3>3
        <2>7. Working(q)' => th'[q].op = Done(q)' + 1
            BY <1>3, <1>9, <2>1, <2>2 DEF Counted
        <2> QED
            BY <1>3, <1>5, <1>9, <2>2, <2>5, <2>6, <2>7 DEF Counted
    <1>12. Gets(Main(q))'
        BY <1>3 DEF Gets, Working, Works
    <1>13. th'[Main(q)].pc \in {"free", "poll", "wait"} => th'[Main(q)].op = 0
        BY <1>1, <1>3, <1>4 DEF Homes
    <1> QED
        BY <1>3, <1>4, <1>6, <1>7, <1>8, <1>10, <1>11, <1>12, <1>13, StepKeeps DEF Works

LEMMA CallSyncKeeps ==
    ASSUME IInv, NEW q \in Queues, CallSync(q)
    PROVE  IInv'
    <1>1. Types /\ Homes /\ IdleInv /\ Count /\ SetupInv /\ StepInv
        BY DEF IInv
    <1>2. PICK k \in Nat : k = called[q] + 1
        BY <1>1 DEF Types
    <1>4. Main(q) \in Threads /\ Main(q) \in Mains /\ Main(q) \notin Queues /\ q \in Threads /\ q # Main(q) /\ Main(q)[1] = Owner(q)
        BY QueueIds, MainIds
    <1>5. PICK new \in ThreadStates :
             /\ new = [Starting(q, k) EXCEPT !.pc = "spin"]
             /\ new.pc = "spin" /\ new.q = q /\ new.op = k /\ new.pos = 1 /\ new.got = {}
        <2> DEFINE r == [Starting(q, k) EXCEPT !.pc = "spin"]
        <2>1. r \in ThreadStates /\ r.pc = "spin" /\ r.q = q /\ r.op = k /\ r.pos = 1 /\ r.got = {}
            BY Records
        <2> HIDE DEF r
        <2>2. \E new \in ThreadStates : 
                /\ new = r
                /\ new.pc = "spin" /\ new.q = q /\ new.op = k /\ new.pos = 1 /\ new.got = {}
            BY <2>1
        <2> QED
            BY <2>2 DEF r
    <1>3. /\ th[Main(q)].pc = "free" /\ k <= Len(scene.pay[q[1]])
          /\ called' = [called EXCEPT ![q] = k] /\ th' = [th EXCEPT ![Main(q)] = new]
          /\ idle' = idle /\ queue' = queue
          /\ scene' = scene /\ finished' = finished /\ UNCHANGED setupVars
        BY <1>1, <1>2, <1>5, Payloads DEF CallSync, Main
    <1>6. called'[q] = k /\ th'[Main(q)] = new /\ \A u \in Threads \ {Main(q)} : th'[u] = th[u]
        BY <1>1, <1>3, <1>4 DEF Types
    <1>7. Types'
        BY <1>1, <1>3 DEF Types, setupVars
    <1>8. OutsideSetup
        BY <1>3, <1>5, <1>6 DEF OutsideSetup, SectionPcs
    <1>9. Local(q, Main(q))
        BY <1>1, <1>3, <1>5, <1>6 DEF Local, Types
    <1>10. /\ ~MainOn(q) /\ MainOn(q)' /\ ~OnMain(q) /\ ~OnMain(q)'
           /\ Working(q)' = Working(q) /\ th'[q] = th[q]
        BY <1>3, <1>4, <1>5, <1>6 DEF MainOn, OnMain, Working, Works
    <1>11. Quiet(q)' /\ Pos(q)' = Pos(q)
        BY <1>1, <1>3, <1>10 DEF IdleInv, Quiet, Pos
    <1>12. Counted(q)'
        <2>1. Counted(q) /\ Len(queue[q]) \in Nat /\ Done(q) \in Nat /\ Busy(q) \in {0, 1}
            BY <1>1, WorkCounts DEF Count
        <2>2. Done(q)' = Done(q) /\ Busy(q)' = Busy(q) /\ Pending(q) = 0 /\ Pending(q)' = 1
            BY <1>3, <1>10 DEF Done, Busy, Pending
        <2>3. called[q] = Done(q) + Busy(q) + Len(queue[q])
            BY <2>1, <2>2 DEF Counted
        <2>4. called'[q] = Done(q)' + Busy(q)' + Len(queue'[q]) + Pending(q)'
            <3>1. PICK d \in Nat, b \in {0, 1}, n \in Nat : d = Done(q) /\ b = Busy(q) /\ n = Len(queue[q])
                BY <2>1
            <3>2. k = d + b + n + 1
                BY <1>2, <2>3, <3>1
            <3> QED
                BY <1>3, <1>6, <2>2, <3>1, <3>2
        <2>5. Working(q)' => th'[q].op = Done(q)' + 1
            BY <1>10, <2>1, <2>2 DEF Counted
        <2>6. \A i \in 1..Len(queue'[q]) : queue'[q][i] = Done(q)' + Busy(q)' + i
            BY <1>3, <2>1, <2>2 DEF Counted
        <2>7. th'[Main(q)].op = called'[q] /\ called'[q] <= Len(scene'.pay[q[1]])
            BY <1>3, <1>5, <1>6
        <2> QED
            BY <2>4, <2>5, <2>6, <2>7 DEF Counted
    <1>13. Gets(Main(q))'
        BY <1>5, <1>6 DEF Gets, Working, Works
    <1>14. /\ th'[Main(q)].pc \in Works \cup {"free", "spin"} /\ th'[Main(q)].pc \notin {"free", "poll", "wait"}
           /\ Owner(th'[Main(q)].q) = Main(q)[1]
           /\ th'[Main(q)].pos = 1 /\ th'[Main(q)].got = {}
        BY <1>4, <1>5, <1>6
    <1> QED
        BY <1>3, <1>4, <1>7, <1>8, <1>9, <1>11, <1>12, <1>13, <1>14, StepKeeps

LEMMA StartSyncKeeps ==
    ASSUME IInv, NEW e \in Ends, StartSync(e)
    PROVE  IInv'
    <1>1. Types /\ Homes /\ IdleInv /\ Count /\ SetupInv /\ StepInv
        BY DEF IInv
    <1> DEFINE m == <<e, "main">>
    <1>0. m \in Mains /\ m \in Threads /\ m \notin Queues /\ m[1] = e
        BY MainIds, EndIds
    <1>2. PICK q \in Queues : q = th[m].q
        BY <1>0, <1>1, ThreadFields
    <1>3. th[m].pc = "spin" /\ idle[q] /\ Goto(m, "lock") /\ "lock" \in Works
          /\ scene' = scene /\ called' = called /\ queue' = queue /\ idle' = idle /\ finished' = finished
          /\ UNCHANGED setupVars
        BY <1>2 DEF StartSync, Works, Goto, MayRunHere
    <1>4. Owner(q) = e /\ Main(q) = m /\ q \in Threads /\ q # m
        BY <1>0, <1>1, <1>2, <1>3, QueueIds, MainIds DEF Homes
    <1> HIDE DEF m
    <1>5. /\ th' \in [Threads -> ThreadStates]
          /\ \A u \in Threads \ {m} : th'[u] = th[u]
          /\ th'[m].pc = "lock" /\ th'[m].q = q /\ th'[m].op = th[m].op
          /\ th'[m].pos = 1 /\ th'[m].got = {} /\ th'[m].port = th[m].port
        <2>1. th[m].pos = 1 /\ th[m].got = {}
            BY <1>0, <1>1, <1>3 DEF Homes
        <2> QED
            BY <1>0, <1>1, <1>2, <1>3, <2>1, GotoStep
    <1>7. Types'
        BY <1>1, <1>3, <1>5 DEF Types, setupVars
    <1>8. OutsideSetup
        BY <1>0, <1>3, <1>5 DEF OutsideSetup, SectionPcs
    <1>9. Local(q, m)
        BY <1>2, <1>3, <1>4, <1>5 DEF Local
    <1>10. /\ MainOn(q) /\ MainOn(q)' /\ ~OnMain(q) /\ OnMain(q)'
           /\ Working(q)' = Working(q) /\ th'[q] = th[q] /\ ~Working(q)
        <2>1. th'[q] = th[q]
            BY <1>4, <1>5
        <2>2. ~Working(q)
            BY <1>1, <1>3 DEF IdleInv, Quiet
        <2>3. MainOn(q) /\ MainOn(q)' /\ ~OnMain(q) /\ OnMain(q)'
            BY <1>2, <1>3, <1>4, <1>5 DEF MainOn, OnMain, Working, Works
        <2> QED
            BY <2>1, <2>2, <2>3 DEF Working
    <1>11. Quiet(q)' /\ Pos(q)' = Pos(q)
        BY <1>1, <1>3, <1>4, <1>5, <1>10 DEF IdleInv, Quiet, Pos
    <1>12. Counted(q)'
        <2>1. Counted(q)
            BY <1>1 DEF Count
        <2>2. Done(q)' = Done(q) /\ Busy(q)' = Busy(q) /\ Pending(q)' = Pending(q)
            BY <1>3, <1>10 DEF Done, Busy, Pending
        <2> QED
            BY <1>3, <1>4, <1>5, <1>10, <2>1, <2>2 DEF Counted
    <1>13. Gets(m)'
        BY <1>5 DEF Gets
    <1> QED
        BY <1>0, <1>3, <1>4, <1>5, <1>7, <1>8, <1>9, <1>11, <1>12, <1>13, StepKeeps

LEMMA TakeKeeps ==
    ASSUME IInv, NEW q \in Queues, th[q].pc \in {"poll", "wait"}, queue[q] # <<>>, Take(q)
    PROVE  IInv'
    <1>1. Types /\ Homes /\ IdleInv /\ Count /\ SetupInv /\ StepInv
        BY DEF IInv
    <1>2. queue[q] \in Seq(Nat) /\ Len(queue[q]) \in Nat /\ Len(queue[q]) >= 1
        BY <1>1 DEF Types
    <1>3. PICK k \in Nat : k = Head(queue[q]) /\ k = queue[q][1]
        BY <1>2
    <1>4. PICK new \in ThreadStates :
             /\ new = Starting(q, k)
             /\ new.pc = "lock" /\ new.q = q /\ new.op = k /\ new.pos = 1 /\ new.got = {}
        BY Records
    <1>5. /\ th' = [th EXCEPT ![q] = new]
          /\ queue' = [queue EXCEPT ![q] = Tail(queue[q])]
          /\ idle' = [idle EXCEPT ![q] = idle[q]]
          /\ scene' = scene /\ called' = called /\ finished' = finished /\ UNCHANGED setupVars
        BY <1>3, <1>4 DEF Take, IdleAfterTake
    <1>6. q \in Threads /\ Main(q) \in Threads /\ q # Main(q) /\ q \notin Mains
        BY QueueIds, MainIds
    <1>7. /\ th'[q] = new /\ (\A u \in Threads \ {q} : th'[u] = th[u])
          /\ queue'[q] = Tail(queue[q]) /\ idle' = idle
        BY <1>1, <1>5, <1>6 DEF Types
    <1>8. Types'
        <2>1. Tail(queue[q]) \in Seq(Nat)
            BY <1>2
        <2> QED
            BY <1>1, <1>5, <1>7, <2>1 DEF Types, setupVars
    <1>9. OutsideSetup
        BY <1>4, <1>5, <1>7 DEF OutsideSetup, SectionPcs
    <1>10. Local(q, q)
        BY <1>1, <1>5, <1>6, <1>7 DEF Local, Types
    <1>11. ~idle[q] /\ ~Working(q) /\ Working(q)' /\ ~OnMain(q)
        BY <1>1, <1>4, <1>7 DEF IdleInv, Quiet, Working, Works
    <1>12. MainOn(q)' = MainOn(q) /\ ~OnMain(q)' /\ th'[Main(q)] = th[Main(q)]
        BY <1>6, <1>7, <1>11 DEF MainOn, OnMain, Working
    <1>13. Quiet(q)' /\ Pos(q)' = Pos(q)
        BY <1>4, <1>7, <1>11, <1>12 DEF Quiet, Pos
    <1>14. Counted(q)'
        <2>1. Counted(q) /\ Done(q) \in Nat /\ Pending(q) \in {0, 1}
            BY <1>1, WorkCounts DEF Count
        <2>2. Done(q)' = Done(q) /\ Busy(q) = 0 /\ Busy(q)' = 1 /\ Pending(q)' = Pending(q)
            BY <1>5, <1>11, <1>12 DEF Done, Busy, Pending
        <2>3. PICK d \in Nat, p \in {0, 1}, n \in Nat : d = Done(q) /\ p = Pending(q) /\ n = Len(queue[q]) /\ n >= 1
            BY <1>2, <2>1
        <2>4. called[q] = d + 0 + n + p
            BY <2>1, <2>2, <2>3 DEF Counted
        <2>5. Len(queue'[q]) = n - 1 /\ \A i \in 1..(n - 1) : queue'[q][i] = queue[q][i + 1]
            BY <1>2, <1>7, <2>3
        <2>6. \A i \in 1..n : queue[q][i] = d + 0 + i
            BY <2>1, <2>2, <2>3 DEF Counted
        <2>7. k = d + 1
            BY <1>3, <2>3, <2>6
        <2>8. \A i \in 1..(n - 1) : queue'[q][i] = d + 1 + i
            <3> TAKE i \in 1..(n - 1)
            <3>1. i \in Nat /\ i + 1 \in 1..n
                BY <2>3
            <3>2. d \in Nat
                BY <2>3
            <3>3. d + 0 + (i + 1) = d + 1 + i
                BY <3>1, <3>2
            <3>4. queue[q][i + 1] = d + 0 + (i + 1)
                BY <2>6, <3>1
            <3> QED
                BY <2>5, <3>3, <3>4
        <2>9. called[q] = d + 1 + (n - 1) + p
            BY <2>3, <2>4
        <2> QED
            BY <1>4, <1>5, <1>7, <1>12, <2>1, <2>2, <2>3, <2>5, <2>7, <2>8, <2>9 DEF Counted
    <1>15. Gets(q)'
        BY <1>4, <1>7 DEF Gets
    <1> QED
        BY <1>4, <1>5, <1>6, <1>7, <1>8, <1>9, <1>10, <1>13, <1>14, <1>15, StepKeeps DEF Works

LEMMA PollEmptyKeeps ==
    ASSUME IInv, NEW q \in Queues, PollEmpty(q)
    PROVE  IInv'
    <1>1. Types /\ Homes /\ IdleInv /\ Count /\ SetupInv /\ StepInv
        BY DEF IInv
    <1>2. PICK new \in ThreadStates : new = Resting("wait") /\ new.pc = "wait" /\ new.op = 0
        BY Records DEF Pcs
    <1>5. /\ th[q].pc = "poll" /\ queue[q] = <<>>
          /\ th' = [th EXCEPT ![q] = new]
          /\ idle' = [idle EXCEPT ![q] = TRUE]
          /\ scene' = scene /\ called' = called /\ queue' = queue /\ finished' = finished /\ UNCHANGED setupVars
        BY <1>2 DEF PollEmpty
    <1>6. q \in Threads /\ Main(q) \in Threads /\ q # Main(q) /\ q \notin Mains
        BY QueueIds, MainIds
    <1>7. /\ th'[q] = new /\ (\A u \in Threads \ {q} : th'[u] = th[u]) /\ idle'[q]
        BY <1>1, <1>5, <1>6 DEF Types
    <1>8. Types'
        BY <1>1, <1>5, <1>7 DEF Types, setupVars
    <1>9. OutsideSetup
        BY <1>2, <1>5, <1>7 DEF OutsideSetup, SectionPcs
    <1>10. Local(q, q)
        BY <1>1, <1>5, <1>6, <1>7 DEF Local, Types
    <1>11. ~Working(q) /\ ~Working(q)'
        BY <1>2, <1>5, <1>7 DEF Working, Works
    <1>12. th'[Main(q)] = th[Main(q)] /\ MainOn(q)' = MainOn(q) /\ OnMain(q)' = OnMain(q)
        BY <1>6, <1>7 DEF MainOn, OnMain, Working
    <1>13. Quiet(q)' /\ Pos(q)' = Pos(q)
        BY <1>5, <1>7, <1>11, <1>12 DEF Quiet, Pos
    <1>14. Counted(q)'
        <2>1. Counted(q)
            BY <1>1 DEF Count
        <2>2. Done(q)' = Done(q) /\ Busy(q)' = Busy(q) /\ Pending(q)' = Pending(q)
            BY <1>5, <1>11, <1>12 DEF Done, Busy, Pending
        <2> QED
            BY <1>5, <1>11, <1>12, <2>1, <2>2 DEF Counted
    <1>15. Gets(q)'
        BY <1>11 DEF Gets
    <1> QED
        BY <1>2, <1>5, <1>6, <1>7, <1>8, <1>9, <1>10, <1>11, <1>13, <1>14, <1>15, StepKeeps DEF Works

-----------------------------------------------------------------------------
(* The works in hand, and the frames between them.                         *)

\* A work in hand is the first one of its queue that is not done.
LEMMA InHand ==
    ASSUME Types, Homes, IdleInv, Count, NEW t \in Threads, Working(t), NEW q, q = th[t].q
    PROVE  /\ q \in Queues /\ Owner(q) = Owner(t)
           /\ t = q \/ (t = Main(q) /\ OnMain(q) /\ ~Working(q) /\ idle[q])
           /\ Pos(q) = th[t].pos
           /\ th[t].op = Done(q) + 1 /\ th[t].op \in 1..Len(scene.pay[q[1]])
           /\ th[t].op <= called[q]
    <1>1. q \in Queues
        BY ThreadFields
    <1>2. Counted(q) /\ Quiet(q) /\ Done(q) \in Nat /\ called[q] \in Nat /\ Len(queue[q]) \in Nat
          /\ Busy(q) \in {0, 1} /\ Pending(q) \in {0, 1} /\ Len(scene.pay[q[1]]) \in Nat
        BY <1>1, WorkCounts, Payloads DEF Count, IdleInv
    <1>3. CASE t \in Queues
        <2>1. q = t
            BY <1>3 DEF Homes
        <2>2. Pos(q) = th[t].pos /\ Busy(q) = 1
            BY <2>1 DEF Pos, Busy
        <2>3. th[t].op = Done(q) + 1 /\ called[q] = Done(q) + 1 + Len(queue[q]) + Pending(q)
            BY <1>2, <2>1, <2>2 DEF Counted
        <2>4. Done(q) + 1 <= called[q] /\ called[q] <= Len(scene.pay[q[1]])
            BY <1>2, <2>3 DEF Counted
        <2> QED
            BY <1>1, <1>2, <2>1, <2>2, <2>3, <2>4
    <1>4. CASE t \in Mains
        <2>1. th[t].pc # "free" /\ t[1] = Owner(q) /\ Owner(t) = t[1]
            BY <1>4, MainIds DEF Homes, Working, Works
        <2>2. t = Main(q)
            BY <1>1, <1>4, <2>1, MainIds
        <2>3. OnMain(q) /\ MainOn(q)
            BY <2>1, <2>2 DEF OnMain, MainOn
        <2>4. idle[q] /\ queue[q] = <<>> /\ ~Working(q)
            BY <1>2, <2>3 DEF Quiet
        <2>5. Pos(q) = th[t].pos /\ Busy(q) = 0 /\ Pending(q) = 1 /\ Len(queue[q]) = 0
            BY <2>2, <2>3, <2>4 DEF Pos, Busy, Pending
        <2>6. th[t].op = called[q] /\ called[q] = Done(q) + 0 + 0 + 1 /\ called[q] <= Len(scene.pay[q[1]])
            BY <1>2, <2>2, <2>3, <2>5 DEF Counted
        <2>7. th[t].op = Done(q) + 1
            BY <1>2, <2>6
        <2>8. called[q] >= 1 /\ th[t].op <= called[q]
            BY <1>2, <2>6
        <2>9. th[t].op \in 1..Len(scene.pay[q[1]])
            BY <1>2, <2>6, <2>8
        <2> QED
            BY <1>1, <2>1, <2>2, <2>3, <2>4, <2>5, <2>7, <2>8, <2>9
    <1> QED
        BY <1>3, <1>4, ThreadIds

\* The sides of a direction, for one object.
LEMMA ProgramsAgree ==
    ASSUME Types, NEW p \in Queues, NEW q \in Queues, p[1] = q[1], p[2] = "send", q[2] = "recv",
           NEW k \in 1..Len(scene.pay[p[1]])
    PROVE  /\ Agree(Program(p, k), Program(q, k))
           /\ \A i \in 1..PLen(p, k) : Program(p, k)[i].way \in {"to", "back"}
           /\ scene.rel # "uncertain" =>
                /\ PLen(q, k) = PLen(p, k)
                /\ \A i \in 1..PLen(p, k) : Program(p, k)[i].way = "to" /\ Program(q, k)[i].way = "to"
    <1>1. scene \in Scenes /\ scene.rel \in {"apart", "same", "uncertain"}
        BY ScenesAssumption DEF Types
    <1>2. k \in DOMAIN scene.pay[p[1]] /\ scene.pay[p[1]][k] \in Objects
        BY Payloads
    <1>3. Program(p, k) = SendFrames(scene, scene.pay[p[1]][k])
        BY <1>1, <1>2 DEF Program, Programs
    <1>4. Program(q, k) = RecvFrames(scene, scene.pay[p[1]][k])
        BY <1>1, <1>2 DEF Program, Programs
    <1>5. PICK o \in Objects : o = scene.pay[p[1]][k]
        BY <1>2
    <1>6. /\ Agree(SendFrames(scene, o), RecvFrames(scene, o))
          /\ \A i \in 1..Len(SendFrames(scene, o)) : SendFrames(scene, o)[i].way \in {"to", "back"}
          /\ scene.rel # "uncertain" =>
                /\ RecvFrames(scene, o) = SendFrames(scene, o)
                /\ \A i \in 1..Len(SendFrames(scene, o)) : SendFrames(scene, o)[i].way = "to"
        BY <1>1, FramesAgree
    <1> QED
        BY <1>3, <1>4, <1>5, <1>6 DEF PLen

LEMMA PLenNat ==
    ASSUME Types, NEW q \in Queues, NEW k \in 1..Len(scene.pay[q[1]])
    PROVE  PLen(q, k) \in Nat \ {0}
    <1>1. PICK p \in Queues : p[1] = q[1] /\ p[2] = "send"
        BY SideIds DEF Sides
    <1>2. PICK r \in Queues : r[1] = q[1] /\ r[2] = "recv"
        BY SideIds DEF Sides
    <1>3. k \in 1..Len(scene.pay[p[1]]) /\ p[1] = r[1]
        BY <1>1, <1>2
    <1>4. Agree(Program(p, k), Program(r, k))
        BY <1>1, <1>2, <1>3, ProgramsAgree
    <1>5. PLen(p, k) \in Nat \ {0} /\ PLen(r, k) \in Nat \ {0}
        BY <1>4 DEF Agree, PLen
    <1>6. q = p \/ q = r
        BY <1>1, <1>2, QueueIds, Directions
    <1> QED
        BY <1>5, <1>6

LEMMA AllTo ==
    ASSUME Types, NEW x \in Queues, NEW k \in 1..Len(scene.pay[x[1]]), scene.rel # "uncertain",
           NEW i \in 1..PLen(x, k)
    PROVE  Program(x, k)[i].way = "to"
    <1>1. CASE x[2] = "send"
        <2>1. PICK y \in Queues : y[1] = x[1] /\ y[2] = "recv"
            BY SideIds DEF Sides
        <2> QED
            BY <1>1, <2>1, ProgramsAgree
    <1>2. CASE x[2] = "recv"
        <2>1. PICK y \in Queues : y[1] = x[1] /\ y[2] = "send"
            BY SideIds DEF Sides
        <2>2. k \in 1..Len(scene.pay[y[1]])
            BY <2>1
        <2>3. PLen(x, k) = PLen(y, k) /\ \A j \in 1..PLen(y, k) : Program(x, k)[j].way = "to"
            BY <1>2, <2>1, <2>2, ProgramsAgree
        <2> QED
            BY <2>3
    <1> QED
        BY <1>1, <1>2, QueueIds

LEMMA FacingSym ==
    ASSUME NEW p, NEW q, Facing(p, q)
    PROVE  Facing(q, p)
    BY DEF Facing

LEMMA FacingInv ==
    ASSUME NEW p \in Queues, NEW q \in Queues, p[1] = q[1], p[2] # q[2]
    PROVE  Lockstep(p[1]) <=> Facing(p, q)
    <1>1. CASE p[2] = "send"
        <2>1. p = <<p[1], "send">> /\ q = <<p[1], "recv">>
            BY <1>1, QueueIds DEF Sender, Receiver
        <2> QED
            BY <2>1 DEF Lockstep
    <1>2. CASE p[2] = "recv"
        <2>1. q = <<p[1], "send">> /\ p = <<p[1], "recv">>
            BY <1>2, QueueIds DEF Sender, Receiver
        <2> QED
            BY <2>1, FacingSym DEF Lockstep
    <1> QED
        BY <1>1, <1>2, QueueIds

\* Between workers that do not know whether they share a device, objects go one way.
OneWayIfUncertain ==
    \A s \in Scenes : s.rel = "uncertain" => \E d \in Ends : s.pay[d] = <<>>

\* Where two threads are in a broadcast together, they are at the same frame.
LEMMA JoinedInStep ==
    ASSUME OneWayIfUncertain, IInv, NEW s \in Threads, NEW r \in Threads, Joined(s, r),
           NEW p, p = th[s].q, NEW q, q = th[r].q
    PROVE  /\ p \in Queues /\ q \in Queues /\ p[1] = q[1] /\ p[2] # q[2] /\ s # r
           /\ Working(s) /\ Working(r)
           /\ th[s].op = th[r].op /\ th[s].pos = th[r].pos
           /\ th[s].pos \in 1..PLen(p, th[s].op) /\ th[s].pos \in 1..PLen(q, th[s].op)
           /\ Program(p, th[s].op)[th[s].pos] = Program(q, th[s].op)[th[s].pos]
    <1>1. Types /\ Homes /\ IdleInv /\ Count /\ SetupInv /\ StepInv
        BY DEF IInv
    <1>2. /\ Transmits(s) /\ Takes(r) /\ Owner(s) # Owner(r) /\ s # r
          /\ Moving(s) /\ Moving(r) /\ Working(s) /\ Working(r)
        BY DEF Joined, Transmits, Takes, Moving, Working, Works
    <1>3. /\ p \in Queues /\ Owner(p) = Owner(s) /\ Pos(p) = th[s].pos
          /\ th[s].op = Done(p) + 1 /\ th[s].op \in 1..Len(scene.pay[p[1]])
        BY <1>1, <1>2, InHand
    <1>4. /\ q \in Queues /\ Owner(q) = Owner(r) /\ Pos(q) = th[r].pos
          /\ th[r].op = Done(q) + 1 /\ th[r].op \in 1..Len(scene.pay[q[1]])
        BY <1>1, <1>2, InHand
    <1>5. /\ Reach(p) /\ Reach(q) /\ th[s].pos \in Nat /\ th[r].pos \in Nat
          /\ Done(p) \in Nat /\ Done(q) \in Nat /\ th[s].op \in Nat /\ th[r].op \in Nat
        BY <1>1, <1>3, <1>4, ThreadFields, WorkCounts DEF StepInv
    <1>6. th[s].pos >= 1 /\ th[r].pos >= 1
        BY <1>3, <1>4, <1>5 DEF Reach
    <1>7. /\ th[s].pos <= PLen(p, th[s].op) /\ th[r].pos <= PLen(q, th[r].op)
        BY <1>2 DEF Moving, PLen
    <1>8. /\ Current(s) = Program(p, th[s].op)[th[s].pos] /\ Current(r) = Program(q, th[r].op)[th[r].pos]
        BY DEF Current
    <1>9. /\ (Current(s).way = "to" /\ p[2] = "send") \/ (Current(s).way = "back" /\ p[2] = "recv")
          /\ (Current(r).way = "to" /\ q[2] = "recv") \/ (Current(r).way = "back" /\ q[2] = "send")
        BY <1>2 DEF Transmits, Takes
    <1>10. /\ PLen(p, th[s].op) \in Nat /\ PLen(q, th[r].op) \in Nat
           /\ th[s].pos \in 1..PLen(p, th[s].op) /\ th[r].pos \in 1..PLen(q, th[r].op)
        <2>1. PLen(p, th[s].op) \in Nat /\ PLen(q, th[r].op) \in Nat
            BY <1>1, <1>3, <1>4, PLenNat
        <2> QED
            BY <1>5, <1>6, <1>7, <2>1
    <1>11. p[1] = q[1]
        <2>1. CASE scene.rel = "uncertain"
            <3>1. PICK d \in Ends : scene.pay[d] = <<>>
                BY <1>1, <2>1 DEF OneWayIfUncertain, Types
            <3>2. p[1] \in Ends /\ q[1] \in Ends /\ p[1] # d /\ q[1] # d
                BY <1>3, <1>4, <3>1, QueueIds
            <3> QED
                BY <3>2 DEF Ends
        <2>2. CASE scene.rel # "uncertain"
            <3>1. Current(s).way = "to" /\ Current(r).way = "to"
                <4>1. Program(p, th[s].op)[th[s].pos].way = "to"
                    BY <1>1, <1>3, <1>10, <2>2, AllTo
                <4>2. Program(q, th[r].op)[th[r].pos].way = "to"
                    BY <1>1, <1>4, <1>10, <2>2, AllTo
                <4> QED
                    BY <1>8, <4>1, <4>2
            <3> QED
                BY <1>2, <1>3, <1>4, <1>9, <3>1, Directions
        <2> QED
            BY <2>1, <2>2
    <1>12. p[2] # q[2]
        BY <1>2, <1>3, <1>4, <1>11, Directions
    <1>13. Facing(p, q)
        <2>1. Lockstep(p[1])
            BY <1>1, <1>3, QueueIds DEF StepInv
        <2> QED
            BY <1>3, <1>4, <1>11, <1>12, <2>1, FacingInv
    <1>14. Done(p) = Done(q) /\ Pos(p) = Pos(q)
        <2>1. Pos(p) # PLen(p, Done(p) + 1) + 1
            BY <1>3, <1>7, <1>10
        <2>2. Pos(q) # PLen(q, Done(q) + 1) + 1
            BY <1>4, <1>7, <1>10
        <2> QED
            BY <1>13, <2>1, <2>2 DEF Facing
    <1>15. /\ th[s].op = th[r].op /\ th[s].pos = th[r].pos
           /\ th[s].pos \in 1..PLen(p, th[s].op) /\ th[s].pos \in 1..PLen(q, th[s].op)
        <2>1. th[s].op = th[r].op /\ th[s].pos = th[r].pos
            BY <1>3, <1>4, <1>14
        <2> QED
            BY <1>10, <2>1
    <1>16. Program(p, th[s].op)[th[s].pos] = Program(q, th[s].op)[th[s].pos]
        <2>0. Program(p, th[s].op)[th[s].pos].way # "none" /\ Program(q, th[s].op)[th[s].pos].way # "none"
            BY <1>8, <1>9, <1>15
        <2>1. CASE p[2] = "send"
            <3>0. q[2] = "recv" /\ p[1] = q[1] /\ th[s].op \in 1..Len(scene.pay[p[1]])
                BY <1>3, <1>4, <1>11, <1>12, <2>1, QueueIds
            <3>1. Agree(Program(p, th[s].op), Program(q, th[s].op))
                <4>1. PICK k \in 1..Len(scene.pay[p[1]]) : k = th[s].op
                    BY <3>0
                <4>2. p \in Queues /\ q \in Queues
                    BY <1>3, <1>4
                <4>3. Agree(Program(p, k), Program(q, k))
                    BY <1>1, <2>1, <3>0, <4>2, ProgramsAgree
                <4> QED
                    BY <4>1, <4>3
            <3> QED
                BY <1>15, <2>0, <3>1 DEF Agree, PLen
        <2>2. CASE q[2] = "send"
            <3>1. Agree(Program(q, th[s].op), Program(p, th[s].op))
                BY <1>1, <1>3, <1>4, <1>11, <1>12, <2>2, QueueIds, ProgramsAgree
            <3> QED
                BY <1>15, <2>0, <3>1 DEF Agree, PLen
        <2> QED
            BY <1>3, <1>4, <1>12, <2>1, <2>2, QueueIds
    <1> QED
        BY <1>2, <1>3, <1>4, <1>11, <1>12, <1>15, <1>16

\* A frame moves both threads on, and the one that takes it gets part of the object.
LEMMA TransferStep ==
    ASSUME Types, NEW s \in Threads, NEW r \in Threads, s # r, Transfer(s, r)
    PROVE  /\ th' \in [Threads -> ThreadStates]
           /\ \A u \in Threads \ {s, r} : th'[u] = th[u]
           /\ th'[s].pc = th[s].pc /\ th'[s].q = th[s].q /\ th'[s].op = th[s].op /\ th'[s].port = th[s].port
           /\ th'[s].pos = th[s].pos + 1 /\ th'[s].got = th[s].got
           /\ th'[r].pc = th[r].pc /\ th'[r].q = th[r].q /\ th'[r].op = th[r].op /\ th'[r].port = th[r].port
           /\ th'[r].pos = th[r].pos + 1 /\ th'[r].got = th[r].got \union {<<th[s].q, th[s].op>>}
    <1>1. PICK n \in Nat, m \in Nat : n = th[s].pos + 1 /\ m = th[r].pos + 1
        <2>1. th[s].pos \in Nat /\ th[r].pos \in Nat
            BY ThreadFields
        <2> QED
            BY <2>1
    <1>2. PICK g \in SUBSET (Queues \X Nat) : g = th[r].got \union {<<th[s].q, th[s].op>>}
        <2>1. th[r].got \in SUBSET (Queues \X Nat) /\ th[s].q \in Queues /\ th[s].op \in Nat
            BY ThreadFields
        <2>2. {<<th[s].q, th[s].op>>} \in SUBSET (Queues \X Nat)
            BY <2>1
        <2>3. th[r].got \union {<<th[s].q, th[s].op>>} \in SUBSET (Queues \X Nat)
            BY <2>1, <2>2, Zenon
        <2> QED
            BY <2>3
    <1>3. PICK a \in ThreadStates : a = th[s]
        BY ThreadFields
    <1>4. PICK b \in ThreadStates : b = th[r]
        BY ThreadFields
    <1>5. PICK x \in ThreadStates : x = [a EXCEPT !.pos = n]
        BY <1>1, <1>3 DEF ThreadStates
    <1>6. x.pc = a.pc /\ x.q = a.q /\ x.op = a.op /\ x.port = a.port /\ x.pos = n /\ x.got = a.got
        BY <1>1, <1>3, <1>5 DEF ThreadStates
    <1>7. PICK y \in ThreadStates : y = [b EXCEPT !.pos = m]
        BY <1>1, <1>4 DEF ThreadStates
    <1>8. y.pc = b.pc /\ y.q = b.q /\ y.op = b.op /\ y.port = b.port /\ y.pos = m /\ y.got = b.got
        BY <1>1, <1>4, <1>7 DEF ThreadStates
    <1>9. PICK z \in ThreadStates : z = [y EXCEPT !.got = g]
        BY <1>2, <1>7 DEF ThreadStates
    <1>10. z.pc = b.pc /\ z.q = b.q /\ z.op = b.op /\ z.port = b.port /\ z.pos = m /\ z.got = g
        BY <1>2, <1>7, <1>8, <1>9 DEF ThreadStates
    <1>11. th' = [[th EXCEPT ![s] = x] EXCEPT ![r] = z]
        <2>1. th \in [Threads -> ThreadStates]
            BY DEF Types
        <2>2. th' = [[[th EXCEPT ![s] = [th[s] EXCEPT !.pos = th[s].pos + 1]]
                          EXCEPT ![r] = [th[r] EXCEPT !.pos = th[r].pos + 1]]
                          EXCEPT ![r] = [[th[r] EXCEPT !.pos = th[r].pos + 1]
                                            EXCEPT !.got = th[r].got \union {<<th[s].q, th[s].op>>}]]
            BY <2>1, <1>4, <1>8 DEF Transfer
        <2>3. th' = [[[th EXCEPT ![s] = x] EXCEPT ![r] = y] EXCEPT ![r] = z]
            BY <2>2, <1>1, <1>2, <1>3, <1>4, <1>5, <1>7, <1>9
        <2> QED
            BY <2>1, <2>3
    <1>12. th \in [Threads -> ThreadStates]
        BY DEF Types
    <1>13. th' \in [Threads -> ThreadStates] /\ th'[s] = x /\ th'[r] = z /\ \A u \in Threads \ {s, r} : th'[u] = th[u]
        BY <1>5, <1>9, <1>11, <1>12
    <1> QED
        BY <1>1, <1>2, <1>3, <1>4, <1>6, <1>10, <1>13

LEMMA TransferKeeps ==
    ASSUME OneWayIfUncertain, IInv, NEW s \in Threads, NEW r \in Threads, Transfer(s, r)
    PROVE  IInv'
    <1>1. Types /\ Homes /\ IdleInv /\ Count /\ SetupInv /\ StepInv
        BY DEF IInv
    <1>2. Joined(s, r) /\ UNCHANGED workVars /\ UNCHANGED setupVars
        BY DEF Transfer
    <1>3. PICK p : p = th[s].q
        OBVIOUS
    <1>4. PICK q : q = th[r].q
        OBVIOUS
    <1>5. PICK k : k = th[s].op
        OBVIOUS
    <1>6. PICK i : i = th[s].pos
        OBVIOUS
    <1>7. /\ p \in Queues /\ q \in Queues /\ p[1] = q[1] /\ p[2] # q[2] /\ s # r
          /\ Working(s) /\ Working(r) /\ th[r].op = k /\ th[r].pos = i
          /\ i \in 1..PLen(p, k) /\ i \in 1..PLen(q, k) /\ Program(p, k)[i] = Program(q, k)[i]
        BY <1>1, <1>2, <1>3, <1>4, <1>5, <1>6, JoinedInStep
    <1>8. /\ th' \in [Threads -> ThreadStates]
          /\ \A u \in Threads \ {s, r} : th'[u] = th[u]
          /\ th'[s].pc = th[s].pc /\ th'[s].q = p /\ th'[s].op = k /\ th'[s].port = th[s].port
          /\ th'[s].pos = i + 1 /\ th'[s].got = th[s].got
          /\ th'[r].pc = th[r].pc /\ th'[r].q = q /\ th'[r].op = k /\ th'[r].port = th[r].port
          /\ th'[r].pos = i + 1 /\ th'[r].got = th[r].got \union {<<p, k>>}
        BY <1>1, <1>3, <1>4, <1>5, <1>6, <1>7, TransferStep
    <1>9. \A u \in Threads : /\ th'[u].pc = th[u].pc /\ th'[u].q = th[u].q /\ th'[u].op = th[u].op /\ th'[u].port = th[u].port
                             /\ Working(u)' = Working(u)
        <2> TAKE u \in Threads
        <2>1. th'[u].pc = th[u].pc /\ th'[u].q = th[u].q /\ th'[u].op = th[u].op /\ th'[u].port = th[u].port
            <3>1. CASE u = s
                BY <1>3, <1>5, <1>8, <3>1
            <3>2. CASE u = r
                BY <1>4, <1>7, <1>8, <3>2
            <3>3. CASE u # s /\ u # r
                BY <1>8, <3>3
            <3> QED
                BY <3>1, <3>2, <3>3
        <2> QED
            BY <2>1 DEF Working
    <1>10. th[s].pc = "frames" /\ th[r].pc = "frames"
        BY <1>2 DEF Joined, Transmits, Takes, Moving
    <1>11. scene' = scene /\ called' = called /\ queue' = queue /\ idle' = idle /\ finished' = finished
        BY <1>2 DEF workVars
    <1>12. Types'
        BY <1>1, <1>2, <1>8, <1>11 DEF Types, setupVars
    <1>13. SetupInv'
        <2>1. OutsideSetup
            BY <1>2, <1>9 DEF OutsideSetup
        <2> QED
            BY <1>1, <2>1, WorkKeepsSetup
    <1>14. Homes'
        <2>1. \A u \in Threads : u # s /\ u # r => th'[u] = th[u]
            BY <1>8
        <2>2. \A x \in Queues : th'[x].pc \in Works \cup {"poll", "wait"} /\ (Working(x)' => th'[x].q = x)
            BY <1>1, <1>9, QueueIds DEF Homes
        <2>3. \A m \in Mains : th'[m].pc \in Works \cup {"free", "spin"} /\ (th'[m].pc # "free" => Owner(th'[m].q) = m[1])
            BY <1>1, <1>9, MainIds DEF Homes
        <2>4. ASSUME NEW u \in Threads
              PROVE  /\ th'[u].pc \in (Works \ {"frames"}) \cup {"spin"} => th'[u].pos = 1 /\ th'[u].got = {}
                     /\ th'[u].pc \in {"free", "poll", "wait"} => th'[u].op = 0
            <3>1. CASE u = s \/ u = r
                BY <1>9, <1>10, <3>1
            <3>2. CASE u # s /\ u # r
                BY <1>1, <2>1, <3>2 DEF Homes
            <3> QED
                BY <3>1, <3>2
        <2> QED
            BY <2>2, <2>3, <2>4 DEF Homes
    <1>15. \A x \in Queues : OnMain(x)' = OnMain(x) /\ MainOn(x)' = MainOn(x)
        BY <1>9, QueueIds, MainIds DEF OnMain, MainOn
    <1>16. IdleInv' /\ Count'
        <2>1. \A x \in Queues : Done(x)' = Done(x) /\ Busy(x)' = Busy(x) /\ Pending(x)' = Pending(x)
            BY <1>9, <1>11, <1>15, QueueIds DEF Done, Busy, Pending
        <2>2. \A x \in Queues : Quiet(x)'
            BY <1>1, <1>9, <1>11, <1>15, QueueIds DEF IdleInv, Quiet
        <2>3. ASSUME NEW x \in Queues PROVE Counted(x)'
            <3>1. Counted(x) /\ x \in Threads /\ Main(x) \in Threads
                BY <1>1, QueueIds, MainIds DEF Count
            <3> QED
                BY <1>9, <1>11, <1>15, <2>1, <3>1 DEF Counted
        <2> QED
            BY <2>2, <2>3 DEF IdleInv, Count
    <1>17. /\ Pos(p) = i /\ (s = p \/ (s = Main(p) /\ OnMain(p) /\ ~Working(p))) /\ k = Done(p) + 1
           /\ k \in 1..Len(scene.pay[p[1]])
        BY <1>1, <1>3, <1>5, <1>6, <1>7, InHand
    <1>18. /\ Pos(q) = i /\ (r = q \/ (r = Main(q) /\ OnMain(q) /\ ~Working(q))) /\ k = Done(q) + 1
        BY <1>1, <1>4, <1>7, InHand
    <1>19. Pos(p)' = i + 1 /\ Pos(q)' = i + 1
        <2>1. Pos(p)' = i + 1
            BY <1>7, <1>8, <1>9, <1>15, <1>17, QueueIds DEF Pos
        <2>2. Pos(q)' = i + 1
            BY <1>7, <1>8, <1>9, <1>15, <1>18, QueueIds DEF Pos
        <2> QED
            BY <2>1, <2>2
    <1>20. \A x \in Queues : x # p /\ x # q => Pos(x)' = Pos(x)
        <2> TAKE x \in Queues
        <2> SUFFICES ASSUME x # p, x # q PROVE Pos(x)' = Pos(x)
            OBVIOUS
        <2>0. x \in Threads /\ Main(x) \in Threads
            BY QueueIds, MainIds
        <2>1. CASE Working(x)
            <3>1. th[x].q = x
                BY <1>1, <2>1 DEF Homes
            <3>2. x # s /\ x # r
                BY <1>3, <1>4, <3>1
            <3> QED
                BY <1>8, <1>9, <2>0, <2>1, <3>2 DEF Pos
        <2>2. CASE ~Working(x) /\ OnMain(x)
            <3>1. th[Main(x)].q = x
                BY <2>2 DEF OnMain
            <3>2. Main(x) # s /\ Main(x) # r
                BY <1>3, <1>4, <3>1
            <3> QED
                BY <1>8, <1>9, <1>15, <2>0, <2>2, <3>2 DEF Pos
        <2>3. CASE ~Working(x) /\ ~OnMain(x)
            BY <1>9, <1>15, <2>0, <2>3 DEF Pos
        <2> QED
            BY <2>1, <2>2, <2>3
    <1>21. \A x \in Queues : Done(x)' = Done(x) /\ Done(x) \in Nat
        BY <1>1, <1>11, WorkCounts DEF Done
    <1>22. \A x \in Queues, n \in Nat : PLen(x, n)' = PLen(x, n)
        BY <1>11, SameProgram
    <1>23. \A d \in Ends : Lockstep(d)'
        <2> TAKE d \in Ends
        <2>1. CASE d = p[1]
            <3>1. Facing(p, q)'
                BY <1>7, <1>17, <1>18, <1>19, <1>21 DEF Facing
            <3>2. Facing(q, p)'
                BY <3>1 DEF Facing
            <3>3. \/ (p = <<d, "send">> /\ q = <<d, "recv">>)
                  \/ (q = <<d, "send">> /\ p = <<d, "recv">>)
                BY <1>7, <2>1, QueueIds DEF Sender, Receiver
            <3> QED
                BY <3>1, <3>2, <3>3 DEF Lockstep
        <2>2. CASE d # p[1]
            <3>1. PICK a \in Queues, b \in Queues : a = <<d, "send">> /\ b = <<d, "recv">> /\ a[1] = d /\ b[1] = d
                BY EndIds
            <3>2. a # p /\ a # q /\ b # p /\ b # q
                BY <1>7, <2>2, <3>1
            <3>3. Facing(a, b)
                BY <1>1, <3>1 DEF StepInv, Lockstep
            <3>4. Done(a) + 1 \in Nat /\ Done(b) + 1 \in Nat
                BY <1>21
            <3>5. Facing(a, b)'
                BY <1>20, <1>21, <1>22, <3>2, <3>3, <3>4 DEF Facing
            <3> QED
                BY <3>1, <3>5 DEF Lockstep
        <2> QED
            BY <2>1, <2>2
    <1>24. \A x \in Queues : Reach(x)'
        <2> TAKE x \in Queues
        <2>1. CASE x # p /\ x # q
            <3>1. Reach(x) /\ Done(x) + 1 \in Nat /\ Receiver(x) \in Queues
                BY <1>1, <1>21, QueueIds DEF StepInv
            <3>2. /\ PLen(x, Done(x) + 1)' = PLen(x, Done(x) + 1)
                  /\ PLen(Receiver(x), Done(x) + 1)' = PLen(Receiver(x), Done(x) + 1)
                BY <1>21, <1>22, <3>1 DEF PLen, Program
            <3> QED
                BY <1>20, <1>21, <2>1, <3>1, <3>2 DEF Reach
        <2>2. CASE x = p \/ x = q
            <3>1. Pos(x)' = i + 1 /\ k = Done(x) + 1 /\ i \in 1..PLen(x, k) /\ i \in Nat
                BY <1>7, <1>17, <1>18, <1>19, <2>2
            <3>2. k \in 1..Len(scene.pay[x[1]]) /\ k \in Nat
                BY <1>7, <1>17, <2>2
            <3>3. PLen(x, Done(x) + 1)' = PLen(x, k) /\ PLen(x, k) \in Nat
                BY <1>1, <1>11, <1>21, <3>1, <3>2, PLenNat DEF PLen, Program
            <3>4. PLen(Receiver(x), Done(x) + 1)' = PLen(Receiver(x), k)
                BY <1>11, <1>21, <3>1 DEF PLen, Program
            <3>5. ASSUME x[2] = "send", i = PLen(x, k)
                  PROVE  PLen(Receiver(x), k) = PLen(x, k)
                <4>1. PICK y \in Queues : (y = p \/ y = q) /\ y[1] = x[1] /\ y[2] = "recv" /\ Program(y, k)[i] = Program(x, k)[i]
                    BY <1>7, <2>2, <3>5, QueueIds
                <4>2. Receiver(x) = y
                    BY <4>1, QueueIds DEF Receiver
                <4>3. Agree(Program(x, k), Program(y, k)) /\ \A j \in 1..PLen(x, k) : Program(x, k)[j].way \in {"to", "back"}
                    BY <1>1, <3>2, <3>5, <4>1, ProgramsAgree
                <4>4. Program(y, k)[i].way # "none"
                    BY <3>1, <4>1, <4>3
                <4> QED
                    BY <3>5, <4>2, <4>3, <4>4 DEF Agree, PLen
            <3>6. Pos(x)' <= PLen(x, k) + 1 /\ Pos(x)' >= 1
                BY <3>1, <3>3
            <3>7. Pos(x)' = PLen(x, k) + 1 => i = PLen(x, k)
                BY <3>1, <3>3
            <3> QED
                BY <3>3, <3>4, <3>5, <3>6, <3>7 DEF Reach
        <2> QED
            BY <2>1, <2>2
    <1>25. \A x \in Queues : Right(x)'
        BY <1>1, <1>11, <1>21 DEF StepInv, Right
    <1>26. \A u \in Threads : Gets(u)'
        <2>0. i \in Nat /\ i >= 1 /\ i + 1 # 1 /\ (i # 1 <=> i > 1)
            BY <1>7
        <2>1. Gets(s)'
            <3> SUFFICES ASSUME p[2] = "recv"
                         PROVE  th[s].got = {<<Sender(p), k>>}
                BY <1>8, <2>0 DEF Gets
            <3>1. i # 1
                <4> SUFFICES ASSUME i = 1 PROVE FALSE
                    OBVIOUS
                <4>1. q[2] = "send"
                    BY <1>7, QueueIds
                <4>2. Agree(Program(q, k), Program(p, k))
                    BY <1>1, <1>7, <1>17, <4>1, ProgramsAgree
                <4>3. Program(p, k)[1].way = "to"
                    BY <4>2 DEF Agree
                <4>4. Current(s) = Program(p, k)[1]
                    BY <1>3, <1>5, <1>6 DEF Current
                <4> QED
                    BY <1>2, <1>3, <4>3, <4>4 DEF Joined, Transmits
            <3>2. Gets(s)
                BY <1>1 DEF StepInv
            <3> QED
                BY <1>3, <1>5, <1>6, <1>7, <3>1, <3>2 DEF Gets
        <2>2. Gets(r)'
            <3> SUFFICES ASSUME q[2] = "recv"
                         PROVE  th[r].got \union {<<p, k>>} = {<<Sender(q), k>>}
                BY <1>8, <2>0 DEF Gets
            <3>1. p = Sender(q)
                BY <1>7, QueueIds DEF Sender
            <3>2. Gets(r)
                BY <1>1 DEF StepInv
            <3>3. th[r].got = {} \/ th[r].got = {<<Sender(q), k>>}
                BY <1>4, <1>7, <3>2 DEF Gets
            <3> QED
                BY <3>1, <3>3
        <2>3. ASSUME NEW u \in Threads, u # s, u # r PROVE Gets(u)'
            <3>1. Gets(u)
                BY <1>1 DEF StepInv
            <3>2. th'[u] = th[u] /\ Working(u)' = Working(u)
                BY <1>8, <1>9, <2>3
            <3> QED
                BY <3>1, <3>2 DEF Gets
        <2> QED
            BY <2>1, <2>2, <2>3
    <1>27. StepInv'
        BY <1>23, <1>24, <1>25, <1>26 DEF StepInv
    <1> QED
        BY <1>12, <1>13, <1>14, <1>16, <1>27 DEF IInv

\* A work ends when all its frames have moved.
LEMMA FinishKeeps ==
    ASSUME OneWayIfUncertain, IInv, NEW t \in Threads, Finish(t)
    PROVE  IInv'
    <1>1. Types /\ Homes /\ IdleInv /\ Count /\ SetupInv /\ StepInv
        BY DEF IInv
    <1>2. PICK q : q = th[t].q
        OBVIOUS
    <1>3. PICK k : k = th[t].op
        OBVIOUS
    <1>4. /\ th[t].pc = "frames" /\ Working(t) /\ ~(th[t].pos <= PLen(q, k))
          /\ finished' = [finished EXCEPT ![q] = Append(finished[q], [op |-> k, got |-> th[t].got])]
          /\ th' = [th EXCEPT ![t] = Home(t)]
          /\ scene' = scene /\ called' = called /\ queue' = queue /\ idle' = idle /\ UNCHANGED setupVars
        BY <1>2, <1>3 DEF Finish, Moving, PLen, Working, Works
    <1>5. /\ q \in Queues /\ Owner(q) = Owner(t)
          /\ t = q \/ (t = Main(q) /\ OnMain(q) /\ ~Working(q) /\ idle[q])
          /\ Pos(q) = th[t].pos /\ k = Done(q) + 1 /\ k \in 1..Len(scene.pay[q[1]])
        BY <1>1, <1>2, <1>3, <1>4, InHand
    <1>6. /\ th[t].pos \in Nat /\ th[t].got \in SUBSET (Queues \X Nat) /\ k \in Nat /\ Done(q) \in Nat
          /\ PLen(q, k) \in Nat \ {0}
        BY <1>1, <1>3, <1>5, ThreadFields, WorkCounts, PLenNat
    <1>7. PICK new \in ThreadStates : /\ new = Home(t) /\ new.op = 0
                                      /\ new.pc = (IF t \in Mains THEN "free" ELSE "poll")
        <2>1. CASE t \in Mains
            BY <2>1, ThreadIds, Records DEF Home, Pcs
        <2>2. CASE t \notin Mains
            BY <2>2, ThreadIds, Records DEF Home, Pcs
        <2> QED
            BY <2>1, <2>2
    <1>8. th'[t] = new /\ th' \in [Threads -> ThreadStates] /\ \A u \in Threads \ {t} : th'[u] = th[u]
        BY <1>1, <1>4, <1>7 DEF Types
    <1>9. PICK e \in Endings : e = [op |-> k, got |-> th[t].got] /\ e.op = k /\ e.got = th[t].got
        <2>1. PICK g \in SUBSET (Queues \X Nat) : g = th[t].got
            BY <1>6
        <2>2. [op |-> k, got |-> g] \in Endings
            BY <1>6 DEF Endings
        <2> QED
            BY <2>1, <2>2
    <1>10. /\ finished[q] \in Seq(Endings) /\ finished' = [finished EXCEPT ![q] = Append(finished[q], e)]
           /\ finished'[q] = Append(finished[q], e)
        BY <1>1, <1>4, <1>5, <1>9 DEF Types
    <1>11. /\ Append(finished[q], e) \in Seq(Endings)
           /\ Len(Append(finished[q], e)) = Len(finished[q]) + 1
           /\ Append(finished[q], e)[Len(finished[q]) + 1] = e
           /\ \A i \in 1..Len(finished[q]) : Append(finished[q], e)[i] = finished[q][i]
        BY <1>10
    <1>12. Done(q)' = Done(q) + 1
        BY <1>10, <1>11 DEF Done
    <1>13. Types'
        BY <1>1, <1>4, <1>8, <1>10, <1>11 DEF Types, setupVars
    <1>14. SetupInv'
        <2>1. OutsideSetup
            BY <1>4, <1>7, <1>8 DEF OutsideSetup, SectionPcs
        <2> QED
            BY <1>1, <2>1, WorkKeepsSetup
    <1>15. t \in Queues \/ t \in Mains
        BY ThreadIds
    <1>16. /\ q \in Threads /\ Main(q) \in Threads /\ Main(q) \in Mains /\ q # Main(q) /\ q \notin Mains
        BY <1>5, QueueIds, MainIds
    <1>17. Local(q, t)
        <2>1. \A x \in Queues \ {q} : finished'[x] = finished[x]
            BY <1>1, <1>10 DEF Types
        <2>2. t = Main(q) => th[t].q = q /\ th'[t].pc = "free"
            BY <1>2, <1>7, <1>8, <1>16
        <2> QED
            BY <1>4, <1>5, <1>8, <2>1, <2>2 DEF Local
    <1>18. ~Working(t)' /\ ~Working(q)' /\ ~OnMain(q)'
        <2>1. ~Working(t)'
            BY <1>7, <1>8 DEF Working, Works
        <2>2. CASE t = q
            <3>1. Main(q) # t /\ Working(q)
                BY <1>4, <1>16, <2>2
            <3>2. ~OnMain(q)
                BY <1>1, <1>5, <3>1 DEF IdleInv, Quiet
            <3>3. ~OnMain(q)'
                BY <1>8, <1>16, <3>1, <3>2 DEF OnMain, Working
            <3> QED
                BY <2>1, <2>2, <3>3
        <2>3. CASE t # q
            <3>1. t = Main(q) /\ ~Working(q)
                BY <1>5, <2>3
            <3>2. ~Working(q)'
                BY <1>8, <1>16, <3>1 DEF Working
            <3>3. ~OnMain(q)'
                BY <2>1, <3>1 DEF OnMain
            <3> QED
                BY <2>1, <3>2, <3>3
        <2> QED
            BY <2>2, <2>3
    <1>19. Quiet(q)'
        <2>1. idle[q] => queue[q] = <<>>
            BY <1>1, <1>5 DEF IdleInv, Quiet
        <2> QED
            BY <1>4, <1>18, <2>1 DEF Quiet
    <1>20. Counted(q)'
        <2>0. Counted(q) /\ Quiet(q) /\ called[q] \in Nat /\ Len(queue[q]) \in Nat /\ Pending(q) \in {0, 1} /\ Busy(q) \in {0, 1}
            BY <1>1, <1>5, WorkCounts DEF Count, IdleInv
        <2>1. Busy(q)' = 0
            BY <1>18 DEF Busy
        <2>2. CASE t = q
            <3>1. Busy(q) = 1 /\ th'[Main(q)] = th[Main(q)] /\ MainOn(q)' = MainOn(q) /\ Pending(q)' = Pending(q)
                BY <1>4, <1>8, <1>16, <2>2 DEF Busy, MainOn, Pending
            <3>2. PICK d \in Nat, n \in Nat, b \in {0, 1} : d = Done(q) /\ n = Len(queue[q]) /\ b = Pending(q)
                BY <1>6, <2>0
            <3>3. called[q] = d + 1 + n + b
                BY <2>0, <3>1, <3>2 DEF Counted
            <3>4. called[q] = (d + 1) + 0 + n + b
                BY <3>2, <3>3
            <3>5. \A j \in 1..n : queue[q][j] = (d + 1) + 0 + j
                <4>1. \A j \in 1..n : queue[q][j] = d + 1 + j
                    BY <2>0, <3>1, <3>2 DEF Counted
                <4>2. \A j \in 1..n : d + 1 + j = (d + 1) + 0 + j
                    BY <3>2
                <4> QED
                    BY <4>1, <4>2
            <3>6. Done(q)' = d + 1
                BY <1>12, <3>2
            <3>7. called'[q] = Done(q)' + Busy(q)' + Len(queue'[q]) + Pending(q)'
                BY <1>4, <2>1, <3>1, <3>2, <3>4, <3>6
            <3>8. \A j \in 1..Len(queue'[q]) : queue'[q][j] = Done(q)' + Busy(q)' + j
                BY <1>4, <2>1, <3>2, <3>5, <3>6
            <3>9. /\ called'[q] <= Len(scene'.pay[q[1]]) /\ (MainOn(q)' => th'[Main(q)].op = called'[q])
                BY <1>4, <2>0, <3>1 DEF Counted
            <3> QED
                BY <1>18, <3>7, <3>8, <3>9 DEF Counted
        <2>3. CASE t # q
            <3>1. t = Main(q) /\ OnMain(q) /\ ~Working(q) /\ idle[q] /\ queue[q] = <<>>
                BY <1>5, <2>0, <2>3 DEF Quiet
            <3>2. MainOn(q) /\ ~MainOn(q)'
                BY <1>7, <1>8, <1>16, <3>1 DEF MainOn, OnMain, Working, Works
            <3>3. Busy(q) = 0 /\ Pending(q) = 1 /\ Pending(q)' = 0 /\ Len(queue[q]) = 0
                BY <3>1, <3>2 DEF Busy, Pending
            <3>4. called[q] = Done(q) + 0 + 0 + 1
                BY <2>0, <3>3 DEF Counted
            <3>5. called'[q] = Done(q)' + Busy(q)' + Len(queue'[q]) + Pending(q)'
                BY <1>4, <1>6, <1>12, <2>1, <3>3, <3>4
            <3>6. called'[q] <= Len(scene'.pay[q[1]]) /\ 1..Len(queue'[q]) = {}
                BY <1>4, <2>0, <3>3 DEF Counted
            <3> QED
                BY <1>18, <3>2, <3>5, <3>6 DEF Counted
        <2> QED
            BY <2>2, <2>3
    <1>21. \A x \in Queues \ {q} : Done(x)' = Done(x) /\ Pos(x)' = Pos(x) /\ Right(x)'
        BY <1>1, <1>5, <1>17, OthersKept DEF StepInv
    <1>22. Pos(q)' = 1
        BY <1>18 DEF Pos
    <1>23. Pos(q) = PLen(q, k) + 1 /\ Pos(q) > 1 /\ Reach(q)
        <2>1. Reach(q)
            BY <1>1, <1>5 DEF StepInv
        <2>2. Pos(q) > PLen(q, k) /\ Pos(q) \in Nat
            BY <1>4, <1>5, <1>6
        <2>3. Pos(q) > 1
            BY <1>6, <2>2
        <2>4. Pos(q) <= PLen(q, k) + 1
            BY <1>5, <2>1, <2>3 DEF Reach
        <2> QED
            BY <1>6, <2>1, <2>2, <2>3, <2>4
    <1>24. \A x \in Queues, n \in Nat : PLen(x, n)' = PLen(x, n)
        BY <1>4, SameProgram
    <1>25. PICK o \in Queues : o[1] = q[1] /\ o[2] # q[2] /\ o # q
        <2>1. CASE q[2] = "send"
            BY <1>5, <2>1, SideIds DEF Sides
        <2>2. CASE q[2] = "recv"
            BY <1>5, <2>2, SideIds DEF Sides
        <2> QED
            BY <1>5, <2>1, <2>2, QueueIds
    <1>26. Facing(q, o)
        <2>1. Lockstep(q[1])
            BY <1>1, <1>5, QueueIds DEF StepInv
        <2> QED
            BY <1>5, <1>25, <2>1, FacingInv
    <1>27. \/ Done(o) = Done(q) /\ Pos(o) = Pos(q)
           \/ Done(o) = Done(q) + 1 /\ Pos(o) = 1
        <2>1. Pos(q) # 1
            BY <1>23
        <2> QED
            BY <1>26, <2>1 DEF Facing
    <1>28. ASSUME Done(o) = Done(q), Pos(o) = Pos(q)
           PROVE  Pos(o) = PLen(o, k) + 1
        <2>0. k \in 1..Len(scene.pay[o[1]])
            BY <1>5, <1>25
        <2>1. PLen(o, k) \in Nat
            BY <1>1, <2>0, PLenNat
        <2>2. CASE q[2] = "send"
            <3>1. Receiver(q) = o
                BY <1>5, <1>25, <2>2, QueueIds DEF Receiver
            <3>2. PLen(o, k) = PLen(q, k)
                BY <1>5, <1>23, <2>2, <3>1 DEF Reach
            <3> QED
                BY <1>23, <1>28, <3>2
        <2>3. CASE q[2] = "recv"
            <3>1. o[2] = "send" /\ Reach(o)
                BY <1>1, <1>25, <2>3, QueueIds DEF StepInv
            <3>2. Pos(o) <= PLen(o, k) + 1
                BY <1>5, <1>23, <1>28, <3>1 DEF Reach
            <3>3. Agree(Program(o, k), Program(q, k))
                BY <1>1, <1>5, <1>25, <2>0, <2>3, <3>1, ProgramsAgree
            <3>4. PLen(o, k) <= PLen(q, k)
                BY <3>3 DEF Agree, PLen
            <3> QED
                BY <1>6, <1>23, <1>28, <2>1, <3>2, <3>4
        <2> QED
            BY <1>5, <2>2, <2>3, QueueIds
    <1>29. Facing(q, o)'
        <2>0. Done(o)' = Done(o) /\ Pos(o)' = Pos(o) /\ PLen(o, k)' = PLen(o, k)
            BY <1>6, <1>21, <1>24, <1>25
        <2>1. CASE Done(o) = Done(q) /\ Pos(o) = Pos(q)
            <3>1. Pos(o) = PLen(o, k) + 1
                BY <1>28, <2>1
            <3>2. PLen(o, Done(o) + 1)' = PLen(o, k)
                BY <1>4, <1>5, <2>0, <2>1 DEF PLen, Program
            <3>3. Done(q)' = Done(o)' + 1 /\ Pos(q)' = 1 /\ Pos(o)' = PLen(o, Done(o) + 1)' + 1
                BY <1>12, <1>22, <2>0, <2>1, <3>1, <3>2
            <3> QED
                BY <3>3 DEF Facing
        <2>2. CASE Done(o) = Done(q) + 1 /\ Pos(o) = 1
            <3>1. Done(q)' = Done(o)' /\ Pos(q)' = Pos(o)'
                BY <1>12, <1>22, <2>0, <2>2
            <3> QED
                BY <3>1 DEF Facing
        <2> QED
            BY <1>27, <2>1, <2>2
    <1>30. \A d \in Ends : Lockstep(d)'
        <2> TAKE d \in Ends
        <2>1. CASE d = q[1]
            <3>1. Facing(o, q)'
                BY <1>29 DEF Facing
            <3>2. \/ (q = <<d, "send">> /\ o = <<d, "recv">>)
                  \/ (o = <<d, "send">> /\ q = <<d, "recv">>)
                BY <1>5, <1>25, <2>1, QueueIds DEF Sender, Receiver
            <3> QED
                BY <1>29, <3>1, <3>2 DEF Lockstep
        <2>2. CASE d # q[1]
            <3>1. PICK a \in Queues, b \in Queues : a = <<d, "send">> /\ b = <<d, "recv">> /\ a[1] = d /\ b[1] = d
                BY EndIds
            <3>2. a # q /\ b # q
                BY <2>2, <3>1
            <3>3. Facing(a, b)
                BY <1>1, <3>1 DEF StepInv, Lockstep
            <3>4. Done(a) + 1 \in Nat /\ Done(b) + 1 \in Nat
                BY <1>1, WorkCounts
            <3>5. Done(a)' = Done(a) /\ Pos(a)' = Pos(a) /\ Done(b)' = Done(b) /\ Pos(b)' = Pos(b)
                BY <1>21, <3>2
            <3>6. PLen(a, Done(a) + 1)' = PLen(a, Done(a) + 1) /\ PLen(b, Done(b) + 1)' = PLen(b, Done(b) + 1)
                BY <1>4, <3>5 DEF PLen, Program
            <3>7. Facing(a, b)'
                BY <3>3, <3>5, <3>6 DEF Facing
            <3> QED
                BY <3>1, <3>7 DEF Lockstep
        <2> QED
            BY <2>1, <2>2
    <1>31. \A x \in Queues : Reach(x)'
        <2> TAKE x \in Queues
        <2>1. CASE x = q
            BY <1>22, <2>1 DEF Reach
        <2>2. CASE x # q
            <3>1. Reach(x) /\ Done(x)' = Done(x) /\ Pos(x)' = Pos(x)
                BY <1>1, <1>21, <2>2 DEF StepInv
            <3>2. /\ PLen(x, Done(x) + 1)' = PLen(x, Done(x) + 1)
                  /\ PLen(Receiver(x), Done(x) + 1)' = PLen(Receiver(x), Done(x) + 1)
                BY <1>4, <3>1 DEF PLen, Program
            <3> QED
                BY <3>1, <3>2 DEF Reach
        <2> QED
            BY <2>1, <2>2
    <1>32. \A x \in Queues : Right(x)'
        <2>1. Right(q)'
            <3> SUFFICES ASSUME q[2] = "recv", NEW i \in 1..(Done(q)')
                         PROVE  finished'[q][i] = [op |-> i, got |-> {<<Sender(q), i>>}]
                BY DEF Right
            <3>1. i \in 1..Done(q) \/ i = k
                BY <1>5, <1>6, <1>12
            <3>2. CASE i \in 1..Done(q)
                <4>1. finished[q][i] = [op |-> i, got |-> {<<Sender(q), i>>}]
                    BY <1>1, <1>5, <3>2 DEF StepInv, Right
                <4> QED
                    BY <1>10, <1>11, <3>2, <4>1 DEF Done
            <3>3. CASE i = k
                <4>1. th[t].got = {<<Sender(q), k>>}
                    <5>1. Gets(t) /\ Working(t) /\ th[t].q[2] = "recv"
                        BY <1>1, <1>2, <1>4 DEF StepInv
                    <5>2. th[t].pos # 1
                        BY <1>5, <1>23
                    <5> QED
                        BY <1>2, <1>3, <5>1, <5>2 DEF Gets
                <4>2. finished'[q][k] = e
                    BY <1>5, <1>10, <1>11 DEF Done
                <4> QED
                    BY <1>9, <3>3, <4>1, <4>2
            <3> QED
                BY <3>1, <3>2, <3>3
        <2> QED
            BY <1>21, <2>1
    <1>33. IdleInv' /\ Count'
        BY <1>1, <1>5, <1>17, <1>19, <1>20, LocalKeeps
    <1>34. Homes' /\ \A u \in Threads : Gets(u)'
        <2>1. Gets(t)'
            BY <1>18 DEF Gets
        <2>2. th'[t].pc \in {"free", "poll"} /\ th'[t].op = 0
            BY <1>7, <1>8
        <2>3. (t \in Queues => th'[t].pc = "poll") /\ (t \in Mains => th'[t].pc = "free")
            BY <1>7, <1>8, QueueIds
        <2> QED
            BY <1>1, <1>8, <1>18, <2>1, <2>2, <2>3, ThreadKeeps DEF Works
    <1>35. StepInv'
        BY <1>30, <1>31, <1>32, <1>34 DEF StepInv
    <1> QED
        BY <1>13, <1>14, <1>33, <1>34, <1>35 DEF IInv

-----------------------------------------------------------------------------
(* The invariant holds.                                                    *)

LEMMA InitInv ==
    ASSUME Init
    PROVE  IInv
    <1>1. /\ scene \in Scenes /\ called = [q \in Queues |-> 0] /\ queue = [q \in Queues |-> <<>>]
          /\ idle = [q \in Queues |-> TRUE] /\ th = [t \in Threads |-> Home(t)]
          /\ finished = [q \in Queues |-> <<>>] /\ port = 0 /\ ports = 0
          /\ locked = [e \in Ends |-> {}] /\ ready = [e \in Ends |-> FALSE]
        BY DEF Init
    <1>2. \A t \in Threads : Home(t) \in ThreadStates /\ Home(t).op = 0
                             /\ Home(t).pc = (IF t \in Mains THEN "free" ELSE "poll")
        <2> TAKE t \in Threads
        <2>1. CASE t \in Mains
            BY <2>1, ThreadIds, Records DEF Home, Pcs
        <2>2. CASE t \notin Mains
            BY <2>2, ThreadIds, Records DEF Home, Pcs
        <2> QED
            BY <2>1, <2>2
    <1>3. \A t \in Threads : th[t] = Home(t)
        BY <1>1
    <1>4. Types
        <2>1. th \in [Threads -> ThreadStates]
            BY <1>1, <1>2
        <2>2. <<>> \in Seq(Nat) /\ <<>> \in Seq(Endings)
            OBVIOUS
        <2> QED
            BY <1>1, <2>1, <2>2 DEF Types
    <1>5. \A t \in Threads : ~Working(t) /\ th[t].pc \notin SectionPcs /\ th[t].pc \notin Works /\ th[t].pc # "spin"
        BY <1>2, <1>3 DEF Working, Works, SectionPcs
    <1>6. (\A q \in Queues : th[q].pc = "poll") /\ (\A m \in Mains : th[m].pc = "free")
        BY <1>2, <1>3, QueueIds, MainIds
    <1>7. Homes
        <2>1. \A q \in Queues : th[q].pc \in Works \cup {"poll", "wait"} /\ (Working(q) => th[q].q = q)
            BY <1>5, <1>6, QueueIds
        <2>2. \A m \in Mains : th[m].pc \in Works \cup {"free", "spin"} /\ (th[m].pc # "free" => Owner(th[m].q) = m[1])
            BY <1>6
        <2>3. \A t \in Threads : /\ th[t].pc \notin (Works \ {"frames"}) \cup {"spin"}
                                 /\ th[t].op = 0
            BY <1>2, <1>3, <1>5
        <2> QED
            BY <2>1, <2>2, <2>3 DEF Homes
    <1>8. \A q \in Queues : ~Working(q) /\ ~OnMain(q) /\ ~MainOn(q)
        BY <1>5, <1>6, QueueIds, MainIds DEF OnMain, MainOn
    <1>9. \A q \in Queues : /\ queue[q] = <<>> /\ Len(queue[q]) = 0 /\ called[q] = 0 /\ Done(q) = 0
                            /\ Busy(q) = 0 /\ Pending(q) = 0 /\ Pos(q) = 1
        BY <1>1, <1>8 DEF Done, Busy, Pending, Pos
    <1>10. IdleInv
        BY <1>8, <1>9 DEF IdleInv, Quiet
    <1>11. Count
        <2> SUFFICES ASSUME NEW q \in Queues PROVE Counted(q)
            BY DEF Count
        <2>1. Len(scene.pay[q[1]]) \in Nat
            BY <1>4, Payloads
        <2> QED
            BY <1>8, <1>9, <2>1 DEF Counted
    <1>12. SetupInv
        <2>1. \A e \in Ends : locked[e] = {} /\ Section(e) = {}
            BY <1>1, <1>5 DEF Section
        <2>2. \A t \in Threads : th[t].pc # "publish" /\ th[t].pc # "reset" /\ th[t].pc # "barrier"
            BY <1>5 DEF SectionPcs
        <2> QED
            BY <1>1, <2>1, <2>2 DEF SetupInv
    <1>13. StepInv
        <2>1. \A d \in Ends : Lockstep(d)
            <3> TAKE d \in Ends
            <3>1. PICK a \in Queues, b \in Queues : a = <<d, "send">> /\ b = <<d, "recv">>
                BY EndIds
            <3>2. Done(a) = Done(b) /\ Pos(a) = Pos(b)
                BY <1>9
            <3> QED
                BY <3>1, <3>2 DEF Lockstep, Facing
        <2>2. \A q \in Queues : Reach(q) /\ Right(q)
            BY <1>9 DEF Reach, Right
        <2>3. \A t \in Threads : Gets(t)
            BY <1>5 DEF Gets
        <2> QED
            BY <2>1, <2>2, <2>3 DEF StepInv
    <1> QED
        BY <1>4, <1>7, <1>10, <1>11, <1>12, <1>13 DEF IInv

LEMMA NextInv ==
    ASSUME OneWayIfUncertain, IInv, [Next]_vars
    PROVE  IInv'
    <1>1. CASE UNCHANGED vars
        <2>1. /\ scene' = scene /\ called' = called /\ queue' = queue /\ idle' = idle /\ th' = th
              /\ finished' = finished /\ port' = port /\ ports' = ports /\ locked' = locked /\ ready' = ready
            BY <1>1 DEF vars
        <2>2. Types /\ Homes /\ IdleInv /\ Count /\ SetupInv /\ StepInv
            BY DEF IInv
        <2>3. SetupStep /\ Types'
            BY <2>1, <2>2 DEF SetupStep, Types, workVars
        <2>4. OutsideSetup
            BY <2>1 DEF OutsideSetup, setupVars
        <2> QED
            BY <2>2, <2>3, <2>4, SetupKeepsWork, WorkKeepsSetup DEF IInv
    <1>2. ASSUME NEW q \in Queues, Call(q) PROVE IInv'
        BY <1>2, CallAsyncKeeps, CallSyncKeeps DEF Call
    <1>3. ASSUME NEW t \in Threads, Step(t) PROVE IInv'
        <2>1. CASE t[2] = "main" /\ StartSync(t[1])
            <3>1. t[1] \in Ends
                BY <2>1, ThreadIds, MainIds
            <3> QED
                BY <2>1, <3>1, StartSyncKeeps
        <2>2. CASE t[2] # "main" /\ Execute(t)
            <3>1. t \in Queues
                BY <2>2, ThreadIds
            <3> QED
                BY <2>2, <3>1, TakeKeeps, PollEmptyKeeps DEF Execute, PollFull, Wake
        <2>3. CASE Setup(t)
            BY <2>3, SetupKeepsIInv
        <2>4. CASE \E r \in Threads : Transfer(t, r)
            BY <2>4, TransferKeeps
        <2>5. CASE Finish(t)
            BY <2>5, FinishKeeps
        <2> QED
            BY <1>3, <2>1, <2>2, <2>3, <2>4, <2>5 DEF Step
    <1> QED
        BY <1>1, <1>2, <1>3 DEF Next

THEOREM InvHolds == OneWayIfUncertain /\ Spec => []IInv
    <1>1. Init => IInv
        BY InitInv
    <1>2. OneWayIfUncertain /\ IInv /\ [Next]_vars => IInv'
        BY NextInv
    <1>3. OneWayIfUncertain => OneWayIfUncertain'
        BY DEF OneWayIfUncertain
    <1> QED
        BY <1>1, <1>2, <1>3, PTL DEF Spec

-----------------------------------------------------------------------------
(* What it shows.                                                          *)

\* A sequence is one over any set that has its elements.
LEMMA SeqOver ==
    ASSUME NEW S, NEW T, NEW x \in Seq(S), \A i \in 1..Len(x) : x[i] \in T
    PROVE  x \in Seq(T)
    <1>1. PICK n \in Nat : x \in [1..n -> S] /\ n = Len(x)
        BY SeqDef
    <1>2. x \in [1..n -> T]
        BY <1>1
    <1> QED
        BY <1>1, <1>2, SeqDef

LEMMA TypesHold ==
    ASSUME IInv
    PROVE  TypeOK
    <1>1. Types /\ Homes /\ IdleInv /\ Count /\ SetupInv
        BY DEF IInv
    <1>2. ASSUME NEW q \in Queues
          PROVE  /\ called[q] \in 0..Len(scene.pay[q[1]]) /\ queue[q] \in Seq(1..called[q])
                 /\ Len(finished[q]) <= called[q] /\ idle[q] \in BOOLEAN
        <2>1. /\ Counted(q) /\ Done(q) \in Nat /\ called[q] \in Nat /\ Len(queue[q]) \in Nat
              /\ Busy(q) \in {0, 1} /\ Pending(q) \in {0, 1} /\ Len(scene.pay[q[1]]) \in Nat
            BY <1>1, WorkCounts, Payloads DEF Count
        <2>2. PICK d \in Nat, b \in {0, 1}, n \in Nat, m \in {0, 1} :
                 d = Done(q) /\ b = Busy(q) /\ n = Len(queue[q]) /\ m = Pending(q)
            BY <2>1
        <2>3. called[q] = d + b + n + m
            BY <2>1, <2>2 DEF Counted
        <2>4. d <= called[q] /\ \A i \in 1..n : d + b + i \in 1..called[q]
            <3>1. PICK w \in Nat : w = d + b + n + m
                <4>1. d \in Nat /\ b \in Nat /\ n \in Nat /\ m \in Nat
                    BY <2>2
                <4> QED
                    BY <4>1
            <3>2. d <= w /\ \A i \in 1..n : d + b + i \in 1..w
                BY <2>2, <3>1, Summands
            <3> QED
                BY <2>3, <3>1, <3>2
        <2>5. queue[q] \in Seq(Nat) /\ idle[q] \in BOOLEAN
            BY <1>1 DEF Types
        <2>6. \A i \in 1..Len(queue[q]) : queue[q][i] \in 1..called[q]
            BY <2>1, <2>2, <2>4 DEF Counted
        <2>7. queue[q] \in Seq(1..called[q])
            BY <2>5, <2>6, SeqOver
        <2>8. called[q] \in 0..Len(scene.pay[q[1]])
            BY <2>1 DEF Counted
        <2> QED
            BY <2>2, <2>4, <2>5, <2>7, <2>8 DEF Done
    <1>3. ASSUME NEW t \in Threads
          PROVE  th[t].pc \in Pcs /\ th[t].q \in Queues /\ th[t].op \in 0..called[th[t].q]
        <2>1. th[t].pc \in Pcs /\ th[t].q \in Queues /\ th[t].op \in Nat
            BY <1>1, <1>3, ThreadFields
        <2>2. called[th[t].q] \in Nat
            BY <1>1, <2>1 DEF Types
        <2>3. CASE Working(t)
            BY <1>1, <2>1, <2>2, <2>3, InHand
        <2>4. CASE th[t].pc = "spin"
            <3>1. t \in Mains
                BY <1>1, <2>4, ThreadIds DEF Homes, Works
            <3>2. Owner(th[t].q) = t[1]
                BY <1>1, <2>4, <3>1 DEF Homes
            <3>3. t = Main(th[t].q)
                BY <2>1, <3>1, <3>2, MainIds
            <3>4. MainOn(th[t].q)
                BY <2>4, <3>3 DEF MainOn
            <3>5. th[t].op = called[th[t].q]
                BY <1>1, <2>1, <3>3, <3>4 DEF Count, Counted
            <3> QED
                BY <2>1, <2>2, <3>5
        <2>5. CASE th[t].pc \in {"free", "poll", "wait"}
            BY <1>1, <2>1, <2>2, <2>5 DEF Homes
        <2> QED
            BY <2>1, <2>3, <2>4, <2>5 DEF Pcs, Working, Works
    <1> QED
        BY <1>1, <1>2, <1>3 DEF TypeOK, Types, SetupInv

\* No thread ever takes a frame of another call, or another frame than the one it
\* waits for, and the ends meet at one port: for any objects and any mix of
\* calls, where objects go one way if the workers do not know their devices.
THEOREM InStepHolds == OneWayIfUncertain /\ Spec => []InStep
    <1>1. OneWayIfUncertain /\ IInv => InStep
        <2> SUFFICES ASSUME OneWayIfUncertain, IInv
                     PROVE  InStep
            OBVIOUS
        <2>1. FramesMatch
            <3> SUFFICES ASSUME NEW s \in Threads, NEW r \in Threads, Joined(s, r)
                         PROVE  /\ th[s].op = th[r].op /\ th[s].q[1] = th[r].q[1]
                                /\ Current(s) = Current(r)
                BY DEF FramesMatch
            <3>1. PICK p, q : p = th[s].q /\ q = th[r].q
                OBVIOUS
            <3>2. /\ p[1] = q[1] /\ th[s].op = th[r].op /\ th[s].pos = th[r].pos
                  /\ Program(p, th[s].op)[th[s].pos] = Program(q, th[s].op)[th[s].pos]
                BY <3>1, JoinedInStep
            <3> QED
                BY <3>1, <3>2 DEF Current
        <2>2. SamePort
            BY DEF SamePort, IInv, SetupInv
        <2>3. TypeOK
            BY TypesHold
        <2> QED
            BY <2>1, <2>2, <2>3 DEF InStep
    <1>2. OneWayIfUncertain => OneWayIfUncertain'
        BY DEF OneWayIfUncertain
    <1> QED
        BY <1>1, <1>2, InvHolds, PTL

-----------------------------------------------------------------------------
(* The connection keeps the safety part of its promise.                    *)

UpTo(n) == [i \in 1..n |-> i]

LEMMA UpToNext ==
    ASSUME NEW n \in Nat
    PROVE  Len(UpTo(n)) = n /\ Append(UpTo(n), n + 1) = UpTo(n + 1)
    <1>1. UpTo(n) \in Seq(Nat) /\ Len(UpTo(n)) = n
        BY DEF UpTo
    <1>2. UpTo(n + 1) \in Seq(Nat) /\ Len(UpTo(n + 1)) = n + 1
        BY DEF UpTo
    <1>3. /\ Append(UpTo(n), n + 1) \in Seq(Nat) /\ Len(Append(UpTo(n), n + 1)) = n + 1
          /\ \A i \in 1..n : Append(UpTo(n), n + 1)[i] = i
          /\ Append(UpTo(n), n + 1)[n + 1] = n + 1
        BY <1>1 DEF UpTo
    <1>4. \A i \in 1..(n + 1) : Append(UpTo(n), n + 1)[i] = UpTo(n + 1)[i]
        <2> TAKE i \in 1..(n + 1)
        <2>1. UpTo(n + 1)[i] = i
            BY DEF UpTo
        <2>2. i \in 1..n \/ i = n + 1
            OBVIOUS
        <2> QED
            BY <1>3, <2>1, <2>2
    <1> QED
        BY <1>1, <1>2, <1>3, <1>4, SeqEqual

\* What the recvs have returned: the sends, one after another.
LEMMA ReturnedIs ==
    ASSUME IInv
    PROVE  \A d \in Ends : /\ Returned(<<d, "recv">>) = UpTo(Done(<<d, "recv">>))
                           /\ Done(<<d, "recv">>) \in Nat
    <1> TAKE d \in Ends
    <1>1. PICK q \in Queues : q = <<d, "recv">> /\ q[1] = d /\ q[2] = "recv"
        BY EndIds
    <1>2. /\ DOMAIN finished[q] = 1..Done(q) /\ Done(q) \in Nat
        <2>1. finished[q] \in Seq(Endings)
            BY DEF IInv, Types
        <2> QED
            BY <2>1 DEF Done
    <1>3. \A i \in 1..Done(q) : finished[q][i] = [op |-> i, got |-> {<<<<q[1], "send">>, i>>}]
        BY <1>1 DEF IInv, StepInv, Right, Sender
    <1>4. Returned(q) = UpTo(Done(q))
        BY <1>2, <1>3 DEF Returned, UpTo
    <1> QED
        BY <1>1, <1>2, <1>4

InOrder == \A d \in Ends : Returned(<<d, "recv">>) = UpTo(Done(<<d, "recv">>))

LEMMA ReturnedIsNext == IInv' => InOrder'
    <1>1. IInv => InOrder
        BY ReturnedIs DEF InOrder
    <1> QED
        BY <1>1, PTL

\* A recv that returns does so after its send has been called, and what it has
\* got is the object of that send.
LEMMA FinishRecv ==
    ASSUME OneWayIfUncertain, IInv, NEW t \in Threads, Finish(t), NEW d \in Ends, th[t].q = <<d, "recv">>
    PROVE  /\ Done(<<d, "recv">>) < called[<<d, "send">>] /\ Done(<<d, "recv">>) < called[<<d, "recv">>]
           /\ Done(<<d, "recv">>)' = Done(<<d, "recv">>) + 1
           /\ \A e \in Ends \ {d} : Done(<<e, "recv">>)' = Done(<<e, "recv">>)
    <1>1. Types /\ Homes /\ IdleInv /\ Count /\ StepInv
        BY DEF IInv
    <1>2. PICK r \in Queues : r = <<d, "recv">> /\ r[1] = d /\ r[2] = "recv"
        BY EndIds
    <1>3. PICK s \in Queues : s = <<d, "send">> /\ s[1] = d /\ s[2] = "send"
        BY EndIds
    <1>4. /\ Working(t) /\ ~(th[t].pos <= PLen(r, th[t].op))
          /\ finished' = [finished EXCEPT ![r] = Append(finished[r], [op |-> th[t].op, got |-> th[t].got])]
        BY <1>2 DEF Finish, Moving, PLen, Working, Works
    <1>5. /\ Pos(r) = th[t].pos /\ th[t].op = Done(r) + 1 /\ th[t].op \in 1..Len(scene.pay[r[1]])
          /\ th[t].op <= called[r]
        BY <1>1, <1>2, <1>4, InHand
    <1>6. /\ Done(r) \in Nat /\ Done(s) \in Nat /\ called[r] \in Nat /\ called[s] \in Nat
          /\ th[t].pos \in Nat /\ PLen(r, th[t].op) \in Nat \ {0}
        BY <1>1, <1>5, WorkCounts, ThreadFields, PLenNat
    <1>7. Pos(r) > 1
        BY <1>4, <1>5, <1>6
    <1>8. Facing(s, r)
        BY <1>1, <1>2, <1>3 DEF StepInv, Lockstep
    <1>9. Done(s) >= Done(r) /\ (Done(s) = Done(r) => Pos(s) = Pos(r))
        BY <1>6, <1>7, <1>8 DEF Facing
    <1>10. Done(s) <= called[s]
        <2>1. PICK a \in Nat, b \in {0, 1}, n \in Nat, m \in {0, 1} :
                 a = Done(s) /\ b = Busy(s) /\ n = Len(queue[s]) /\ m = Pending(s)
            BY <1>1, WorkCounts
        <2>2. called[s] = a + b + n + m
            BY <1>1, <2>1 DEF Count, Counted
        <2>3. a <= a + b + n + m
            BY <2>1, Summands
        <2> QED
            BY <2>1, <2>2, <2>3
    <1>11. Done(r) < called[s]
        <2>1. CASE Done(s) > Done(r)
            BY <1>6, <1>10, <2>1
        <2>2. CASE Done(s) = Done(r)
            <3>1. Pos(s) # 1
                BY <1>7, <1>9, <2>2
            <3>2. PICK u \in Threads : Working(u) /\ th[u].q = s
                <4>1. s \in Threads /\ Main(s) \in Threads
                    BY QueueIds, MainIds
                <4>2. Working(s) \/ OnMain(s)
                    BY <3>1 DEF Pos
                <4> QED
                    BY <1>1, <4>1, <4>2 DEF OnMain, Homes
            <3>3. Done(s) + 1 <= called[s]
                BY <1>1, <3>2, InHand
            <3> QED
                BY <1>6, <2>2, <3>3
        <2> QED
            BY <1>6, <1>9, <2>1, <2>2
    <1>12. Done(r)' = Done(r) + 1 /\ \A x \in Queues \ {r} : finished'[x] = finished[x]
        <2>1. finished[r] \in Seq(Endings) /\ finished \in [Queues -> Seq(Endings)]
            BY <1>1 DEF Types
        <2>2. finished'[r] = Append(finished[r], [op |-> th[t].op, got |-> th[t].got])
            BY <1>4, <2>1
        <2> QED
            BY <1>4, <2>1, <2>2 DEF Done
    <1>13. \A e \in Ends \ {d} : Done(<<e, "recv">>)' = Done(<<e, "recv">>)
        <2> TAKE e \in Ends \ {d}
        <2>1. <<e, "recv">> \in Queues \ {r}
            BY <1>2, EndIds
        <2> QED
            BY <1>12, <2>1 DEF Done
    <1> QED
        BY <1>2, <1>3, <1>5, <1>6, <1>11, <1>12, <1>13

LEMMA PromiseStep ==
    ASSUME OneWayIfUncertain, IInv, IInv', [Next]_vars
    PROVE  [Promise!Next]_(Promise!vars)
    <1> DEFINE sends == [d \in Ends |-> called[<<d, "send">>]]
               recvs == [d \in Ends |-> called[<<d, "recv">>]]
               results == [d \in Ends |-> Returned(<<d, "recv">>)]
    <1>0. Types /\ results = [d \in Ends |-> UpTo(Done(<<d, "recv">>))]
                /\ results' = [d \in Ends |-> UpTo(Done(<<d, "recv">>)')]
        <2>1. \A d \in Ends : Returned(<<d, "recv">>) = UpTo(Done(<<d, "recv">>))
            BY ReturnedIs
        <2>2. \A d \in Ends : Returned(<<d, "recv">>)' = UpTo(Done(<<d, "recv">>))'
            BY ReturnedIsNext DEF InOrder
        <2>3. \A d \in Ends : UpTo(Done(<<d, "recv">>))' = UpTo(Done(<<d, "recv">>)')
            BY DEF UpTo
        <2> QED
            BY <2>1, <2>2, <2>3 DEF IInv
    <1>1. ASSUME called' = called, \A d \in Ends : Done(<<d, "recv">>)' = Done(<<d, "recv">>)
          PROVE  UNCHANGED (Promise!vars)
        <2>1. sends' = sends /\ recvs' = recvs /\ results' = results
            BY <1>0, <1>1
        <2> QED
            BY <2>1 DEF Promise!vars
    <1>2. ASSUME called' = called, finished' = finished
          PROVE  UNCHANGED (Promise!vars)
        BY <1>1, <1>2 DEF Done
    <1>3. ASSUME NEW q \in Queues, Call(q)
          PROVE  Promise!Next
        <2>1. called' = [called EXCEPT ![q] = called[q] + 1] /\ finished' = finished
            BY <1>3 DEF Call, CallAsync, CallSync
        <2>2. results' = results
            BY <1>0, <2>1 DEF Done
        <2>3. PICK d \in Ends : d = q[1]
            BY QueueIds
        <2>4. CASE q = <<d, "send">>
            <3>1. sends' = [sends EXCEPT ![d] = sends[d] + 1]
                BY <1>0, <2>1, <2>4, EndIds DEF Types
            <3>2. recvs' = recvs
                BY <1>0, <2>1, <2>4, EndIds DEF Types
            <3>3. Promise!CallSend(d)
                BY <2>2, <3>1, <3>2 DEF Promise!CallSend
            <3> QED
                BY <3>3 DEF Promise!Next
        <2>5. CASE q = <<d, "recv">>
            <3>1. recvs' = [recvs EXCEPT ![d] = recvs[d] + 1]
                BY <1>0, <2>1, <2>5, EndIds DEF Types
            <3>2. sends' = sends
                BY <1>0, <2>1, <2>5, EndIds DEF Types
            <3>3. Promise!CallRecv(d)
                BY <2>2, <3>1, <3>2 DEF Promise!CallRecv
            <3> QED
                BY <3>3 DEF Promise!Next
        <2> QED
            BY <2>3, <2>4, <2>5, QueueIds DEF Sender, Receiver
    <1>4. ASSUME NEW t \in Threads, Finish(t)
          PROVE  [Promise!Next]_(Promise!vars)
        <2>0. Working(t) /\ th[t].q \in Queues /\ called' = called
            BY <1>0, <1>4, ThreadFields DEF Finish, Working, Works
        <2>1. PICK q \in Queues : q = th[t].q
            BY <2>0
        <2>2. PICK d \in Ends : d = q[1]
            BY QueueIds
        <2>3. CASE q = <<d, "send">>
            <3>1. finished' = [finished EXCEPT ![q] = Append(@, [op |-> th[t].op, got |-> th[t].got])]
                BY <1>4, <2>1 DEF Finish
            <3>2. \A e \in Ends : Done(<<e, "recv">>)' = Done(<<e, "recv">>)
                <4> TAKE e \in Ends
                <4>1. <<e, "recv">> \in Queues /\ <<e, "recv">> # q
                    BY <2>3, EndIds
                <4> QED
                    BY <1>0, <3>1, <4>1 DEF Done, Types
            <3> QED
                BY <1>1, <2>0, <3>2
        <2>4. CASE q = <<d, "recv">>
            <3>1. /\ Done(q) < called[<<d, "send">>] /\ Done(q) < called[q]
                  /\ Done(q)' = Done(q) + 1
                  /\ \A e \in Ends \ {d} : Done(<<e, "recv">>)' = Done(<<e, "recv">>)
                BY <1>4, <2>1, <2>4, FinishRecv
            <3>2. PICK n \in Nat : n = Done(q)
                BY <2>4, ReturnedIs
            <3>3. Len(UpTo(n)) = n /\ Append(UpTo(n), n + 1) = UpTo(n + 1)
                BY UpToNext
            <3>4. results[d] = UpTo(n)
                BY <1>0, <2>4, <3>2
            <3>5. results' = [results EXCEPT ![d] = Append(results[d], Len(results[d]) + 1)]
                <4>1. \A e \in Ends : UpTo(Done(<<e, "recv">>)') = IF e = d THEN UpTo(n + 1) ELSE results[e]
                    <5> TAKE e \in Ends
                    <5>1. CASE e = d
                        BY <2>4, <3>1, <3>2, <5>1
                    <5>2. CASE e # d
                        BY <1>0, <3>1, <5>2
                    <5> QED
                        BY <5>1, <5>2
                <4> QED
                    BY <1>0, <3>3, <3>4, <4>1
            <3>6. Len(results[d]) < sends[d] /\ Len(results[d]) < recvs[d]
                BY <2>4, <3>1, <3>2, <3>3, <3>4
            <3>7. sends' = sends /\ recvs' = recvs
                BY <2>0
            <3>8. Promise!Deliver(d)
                BY <3>5, <3>6, <3>7 DEF Promise!Deliver
            <3> QED
                BY <3>8 DEF Promise!Next
        <2> QED
            BY <2>2, <2>3, <2>4, QueueIds DEF Sender, Receiver
    <1>5. ASSUME NEW t \in Threads, Step(t)
          PROVE  [Promise!Next]_(Promise!vars)
        <2>1. CASE Finish(t)
            BY <1>4, <2>1
        <2>2. CASE ~Finish(t)
            <3>1. called' = called /\ finished' = finished
                BY <1>5, <2>2 DEF Step, StartSync, Execute, PollFull, PollEmpty, Wake, Take, Setup, SkipSetup, BeginSetup,
                                  PublishPort, ReadPort, ResetPort, Connect, Transfer, workVars
            <3> QED
                BY <1>2, <3>1
        <2> QED
            BY <2>1, <2>2
    <1>6. CASE UNCHANGED vars
        BY <1>2, <1>6 DEF vars
    <1> QED
        BY <1>3, <1>5, <1>6 DEF Next

\* The k-th recv of a direction returns the object of its k-th send, and not
\* before both have been called, whatever the mix of synchronous and
\* asynchronous calls: every step is one of ConnectionPromise, or none.
THEOREM RecvReturnsSendSafely ==
    OneWayIfUncertain /\ Spec => Promise!Init /\ [][Promise!Next]_(Promise!vars)
    <1>1. Init => Promise!Init
        <2> SUFFICES ASSUME Init PROVE Promise!Init
            OBVIOUS
        <2>1. \A q \in Queues : called[q] = 0 /\ finished[q] = <<>>
            BY DEF Init
        <2>2. \A d \in Ends : Returned(<<d, "recv">>) = <<>>
            <3> TAKE d \in Ends
            <3>0. DOMAIN <<>> = {}
                OBVIOUS
            <3>1. finished[<<d, "recv">>] = <<>> /\ DOMAIN finished[<<d, "recv">>] = {}
                <4>1. finished[<<d, "recv">>] = <<>>
                    BY <2>1, EndIds
                <4> QED
                    BY <3>0, <4>1
            <3>2. Returned(<<d, "recv">>) = [i \in {} |-> 0]
                BY <3>1 DEF Returned
            <3>3. <<>> = [i \in {} |-> 0]
                OBVIOUS
            <3> QED
                BY <3>2, <3>3
        <2> QED
            BY <2>1, <2>2, EndIds DEF Promise!Init
    <1>2. OneWayIfUncertain /\ IInv /\ IInv' /\ [Next]_vars => [Promise!Next]_(Promise!vars)
        BY PromiseStep
    <1>3. OneWayIfUncertain => OneWayIfUncertain'
        BY DEF OneWayIfUncertain
    <1> QED
        BY <1>1, <1>2, <1>3, InvHolds, PTL DEF Spec
=============================================================================
