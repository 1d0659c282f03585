------------------------- MODULE ParallelPoolProps -------------------------
(***************************************************************************)
(* What makes the worker pool of annet/parallel.py correct.                *)
(***************************************************************************)
EXTENDS ParallelPool

(* Where the work for a device can be.                                     *)
Queued(d)      == \E i \in 1..Len(taskQ) : taskQ[i] = d
Running(w, d)  == Busy(w) /\ task[w] = d
Buffered(w, d) == \E i \in 1..Len(wbuf[w]) : wbuf[w][i].dev = d
Sent(d)        == \E i \in 1..Len(doneQ) : doneQ[i].dev = d
Reported(d)    == d \in success \cup fail

TaskSeq == Seq(Devices \cup {Stop})
MsgSeq  == Seq(Message)

ParentTypeOK ==
    /\ parent \in {"start", "get", "scan", "decide", "done", "raised"}
    /\ started \in 0..PoolSize /\ scan \in 1..(PoolSize + 1)
    /\ pool \subseteq Slots /\ retired \subseteq Slots /\ failed \subseteq Slots
    /\ got \in Message \cup {NoMsg}
    /\ silent \in BOOLEAN
    /\ success \subseteq Devices /\ fail \subseteq Devices

QueueTypeOK ==
    /\ taskQ \in TaskSeq
    /\ doneQ \in MsgSeq
    /\ rlock \in 0..PoolSize

WorkerTypeOK ==
    /\ wpc \in [Slots -> {"unborn", "wait", "recv", "invoke", "leave", "dead"}]
    /\ task \in [Slots -> Devices \cup {Stop}]
    /\ attempt \in [Slots -> 0..NetRetry]
    /\ count \in [Slots -> Nat]
    /\ wbuf \in [Slots -> MsgSeq]
    /\ exitcode \in [Slots -> {Ok, Retired, Failure}]

(* Every variable has the values the code can give it.                     *)
TypeOK ==
    /\ ParentTypeOK /\ QueueTypeOK /\ WorkerTypeOK
    /\ crashes \in Nat /\ broken \subseteq Devices

(* No device disappears: its work is in one of the queues, with a worker,  *)
(* with the parent or reported, unless the worker that had it died or irun *)
(* raised and terminated it.  When irun returns, a device without a verdict*)
(* has its message still in the done queue, or died with its worker, or    *)
(* was never taken and every worker of the pool died.                      *)
Held(d)        == \/ Queued(d) \/ Sent(d) \/ got.dev = d \/ Reported(d)
                  \/ \E w \in Slots : Running(w, d) \/ Buffered(w, d)
LostToDeath(d) == \/ crashes > 0 /\ d \in broken
                  \/ crashes >= PoolSize /\ Queued(d)
NothingVanishes ==
    /\ parent # "raised" => \A d \in Devices : Held(d) \/ d \in broken
    /\ parent = "done" => \A d \in Devices : Reported(d) \/ Sent(d) \/ LostToDeath(d)

(* No process outlives irun, however it ends.                              *)
NoOrphans == Ended => \A w \in Slots : wpc[w] = "dead"

(* Without tolerate_fails a worker that died makes irun raise: no reaping  *)
(* order hides a death.                                                    *)
DeathIsNotSilent == parent = "done" /\ ~TolerateFails => crashes = 0

(* With tolerate_fails only the timeout makes irun raise; without it, a    *)
(* task or a worker must have failed.                                      *)
RaiseIsJustified ==
    parent = "raised" => \/ silent
                         \/ ~TolerateFails /\ (broken # {} \/ crashes > 0)

(* opt_strict_exit_code: "With this flag the code is non-zero if           *)
(* generation failed for at least one device."  run() raises when its fail *)
(* dictionary is not empty.                                                *)
StrictExitCode == parent = "done" /\ fail = {} => broken = {}

(* If every function returns, nobody dies and the clock is not needed,     *)
(* irun returns, though workers retire and are restarted.                  *)
Undisturbed    == crashes = 0 /\ broken = {} /\ ~silent
EventuallyDone == FairWorkers /\ []Undisturbed => <>(parent = "done")

(* irun ends even if workers hang or die holding the queue's lock.         *)
EventuallyEnds == FairClock => <>Ended

(* What run() promises its callers.                                        *)
RunStatus == IF Ended THEN parent ELSE "running"
Run == INSTANCE DeviceRun WITH status <- RunStatus
RunPromise == Run!Spec
=============================================================================
