----------------------------- MODULE LoopPromise ----------------------------
(***************************************************************************)
(* What old_new promises its readers: one device after the other gets a    *)
(* result or an error of its own, until an exception ends the loop.        *)
(***************************************************************************)
EXTENDS Naturals, Sequences

CONSTANT Devices     \* the devices of the run, in order
VARIABLE verdict     \* what each device ended with

Init == verdict = [d \in DOMAIN Devices |-> "none"]

Decide(d) ==
    /\ verdict[d] = "none"
    /\ \A e \in DOMAIN Devices : e < d => verdict[e] \in {"result", "error"}
    /\ \E v \in {"result", "error", "raised"} : verdict' = [verdict EXCEPT ![d] = v]

Next == \E d \in DOMAIN Devices : Decide(d)

Spec == Init /\ [][Next]_verdict
=============================================================================
