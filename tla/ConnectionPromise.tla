------------------------- MODULE ConnectionPromise -------------------------
(***************************************************************************)
(* What Worker.send and Worker.recv promise between two workers: in each   *)
(* direction the k-th recv call returns the object of the k-th send call,  *)
(* whatever the mix of synchronous and asynchronous calls, and it returns  *)
(* once both calls have been made.                                         *)
(***************************************************************************)
EXTENDS Naturals, Sequences

CONSTANT Directions

VARIABLES
    sends,      \* sends[d]: how many send calls have been made
    recvs,      \* recvs[d]: how many recv calls have been made
    results     \* results[d]: the number of the send each recv returned, in order

vars == <<sends, recvs, results>>

Init == /\ sends = [d \in Directions |-> 0]
        /\ recvs = [d \in Directions |-> 0]
        /\ results = [d \in Directions |-> <<>>]

CallSend(d) == /\ sends' = [sends EXCEPT ![d] = @ + 1]
               /\ UNCHANGED <<recvs, results>>

CallRecv(d) == /\ recvs' = [recvs EXCEPT ![d] = @ + 1]
               /\ UNCHANGED <<sends, results>>

Deliver(d) == /\ Len(results[d]) < sends[d]
              /\ Len(results[d]) < recvs[d]
              /\ results' = [results EXCEPT ![d] = Append(@, Len(@) + 1)]
              /\ UNCHANGED <<sends, recvs>>

Next == \E d \in Directions : CallSend(d) \/ CallRecv(d) \/ Deliver(d)

Spec == Init /\ [][Next]_vars /\ \A d \in Directions : WF_vars(Deliver(d))
=============================================================================
