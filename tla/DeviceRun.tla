----------------------------- MODULE DeviceRun -----------------------------
(***************************************************************************)
(* What Parallel.run promises its callers (annet/parallel.py): each device *)
(* ends in at most one of the two dictionaries, once, and nothing is       *)
(* reported after the run has returned or raised.                          *)
(***************************************************************************)
CONSTANT Devices

VARIABLES status, success, fail

rvars == <<status, success, fail>>

Init == status = "running" /\ success = {} /\ fail = {}

(* One more device gets its only verdict.                                  *)
Verdict(d) ==
    /\ d \notin success \cup fail
    /\ \/ success' = success \cup {d} /\ fail' = fail
       \/ fail' = fail \cup {d} /\ success' = success

(* The dictionaries grow by at most one device in a step.                  *)
Collect == (\E d \in Devices : Verdict(d)) \/ UNCHANGED <<success, fail>>

Progress == status = "running" /\ status' = "running" /\ Collect
Return   == status = "running" /\ status' = "done" /\ Collect
Abort    == status = "running" /\ status' = "raised" /\ UNCHANGED <<success, fail>>

Next == Progress \/ Return \/ Abort

Spec == Init /\ [][Next]_rvars
=============================================================================
