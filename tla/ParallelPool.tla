--------------------------- MODULE ParallelPool ---------------------------
(***************************************************************************)
(* The multi-process path of annet/parallel.py: Parallel.irun feeds device *)
(* ids and STOP marks to a task queue, worker processes take tasks, call   *)
(* the function through invoke_retry and send one message per task to a    *)
(* done queue; the parent takes the messages, reaps and restarts workers   *)
(* and stops when no worker is left.                                       *)
(*                                                                         *)
(* A multiprocessing.Queue has a feeder thread per writer, so a message    *)
(* put by a worker first stays in that worker (wbuf) and dies with it, and *)
(* a reader blocks on the pipe with the queue's read lock held (rlock).    *)
(* A worker dying in the middle of a write to the pipe is not modelled.    *)
(***************************************************************************)
EXTENDS Integers, Sequences, FiniteSets

CONSTANTS
    Devices,        \* the device ids
    DeviceIds,      \* the list given to irun
    PoolSize,       \* number of workers: min(self.parallel, len(device_ids))
    Stop,           \* PoolWorkerTaskType.STOP
    MaxTasks,       \* self.max_tasks, 0 for None: tasks after which a worker retires
    NetRetry,       \* self.net_retry
    TolerateFails,  \* the tolerate_fails argument
    CallbackFails,  \* may a callback of the parent raise?
    MaxCrashes,     \* bound: workers that are killed or interrupted
    SlowWork        \* may task_timeout pass while some worker could still go on?

ASSUME PoolAssumption ==
    /\ IsFiniteSet(Devices)
    /\ Stop \notin Devices
    /\ DeviceIds \in Seq(Devices)
    /\ \A i, j \in 1..Len(DeviceIds) : DeviceIds[i] = DeviceIds[j] => i = j
    /\ \A d \in Devices : \E i \in 1..Len(DeviceIds) : DeviceIds[i] = d
    /\ PoolSize \in Nat \ {0, 1} /\ PoolSize <= Len(DeviceIds)
    /\ MaxTasks \in Nat
    /\ NetRetry \in Nat
    /\ MaxCrashes \in Nat
    /\ TolerateFails \in BOOLEAN
    /\ CallbackFails \in BOOLEAN
    /\ SlowWork \in BOOLEAN

VARIABLES
    (* the parent *)
    parent,    \* where irun is
    started,   \* workers started so far
    pool,      \* the names in the pool dictionary
    scan,      \* next worker _check_children looks at
    retired,   \* retired_workers of this round
    failed,    \* failed_workers of this round
    got,       \* message taken in this round, or NoMsg
    silent,    \* more than task_timeout since the last message
    success,   \* keys of run()'s first dictionary
    fail,      \* keys of run()'s second dictionary
    (* the queues *)
    taskQ,
    doneQ,
    rlock,     \* holder of taskQ's read lock, 0 when free
    (* the workers *)
    wpc,       \* where each worker is
    task,      \* the task a worker is on
    attempt,   \* attempt counter of invoke_retry
    count,     \* tasks_done of this process
    wbuf,      \* messages put but not yet written by the feeder thread
    exitcode,  \* code a leaving or dead process has
    (* history *)
    crashes,   \* processes killed or interrupted
    broken     \* devices whose invocation raised or died

parentVars == <<parent, started, pool, scan, retired, failed, got, silent, success, fail>>
workerVars == <<wpc, task, attempt, count, wbuf, exitcode>>
queueVars  == <<taskQ, doneQ, rlock>>
history    == <<crashes, broken>>
vars       == <<parentVars, workerVars, queueVars, history>>

Slots   == 1..PoolSize
NoMsg   == [dev |-> Stop, exc |-> FALSE]
Message == [dev : Devices, exc : BOOLEAN]

(* Exit codes: normal end, retirement (sys.exit(9)), any other value. *)
Ok      == 0
Retired == 9
Failure == 1

Ended    == parent \in {"done", "raised"}
Alive(w) == wpc[w] \notin {"unborn", "dead"}
Busy(w)  == wpc[w] = "invoke"

Init ==
    /\ parent = "start" /\ started = 0 /\ pool = {} /\ scan = 1
    /\ retired = {} /\ failed = {} /\ got = NoMsg /\ silent = FALSE
    /\ success = {} /\ fail = {}
    /\ taskQ = DeviceIds /\ doneQ = <<>> /\ rlock = 0
    /\ wpc = [w \in Slots |-> "unborn"]
    /\ task = [w \in Slots |-> Stop]
    /\ attempt = [w \in Slots |-> 0]
    /\ count = [w \in Slots |-> 0]
    /\ wbuf = [w \in Slots |-> <<>>]
    /\ exitcode = [w \in Slots |-> Ok]
    /\ crashes = 0 /\ broken = {}

-----------------------------------------------------------------------------
(* The workers.                                                            *)

(* task_queue.get() takes the read lock and then blocks on the pipe.       *)
Acquire(w) ==
    /\ wpc[w] = "wait" /\ rlock = 0
    /\ rlock' = w
    /\ wpc' = [wpc EXCEPT ![w] = "recv"]
    /\ UNCHANGED <<parentVars, task, attempt, count, wbuf, exitcode, taskQ, doneQ, history>>

ReceiveTask(w) ==
    /\ wpc[w] = "recv" /\ taskQ # <<>> /\ Head(taskQ) # Stop
    /\ task' = [task EXCEPT ![w] = Head(taskQ)]
    /\ attempt' = [attempt EXCEPT ![w] = 0]
    /\ wpc' = [wpc EXCEPT ![w] = "invoke"]
    /\ taskQ' = Tail(taskQ)
    /\ rlock' = 0
    /\ UNCHANGED <<parentVars, count, wbuf, exitcode, doneQ, history>>

ReceiveStop(w) ==
    /\ wpc[w] = "recv" /\ taskQ # <<>> /\ Head(taskQ) = Stop
    /\ wpc' = [wpc EXCEPT ![w] = "leave"]
    /\ exitcode' = [exitcode EXCEPT ![w] = Ok]
    /\ taskQ' = Tail(taskQ)
    /\ rlock' = 0
    /\ UNCHANGED <<parentVars, task, attempt, count, wbuf, doneQ, history>>

LastTask(w) == MaxTasks > 0 /\ count[w] + 1 >= MaxTasks

(* After a message: the next task, or retirement at max_tasks.             *)
NextTask(w) ==
    /\ count' = [count EXCEPT ![w] = @ + 1]
    /\ task' = [task EXCEPT ![w] = Stop]
    /\ IF LastTask(w)
       THEN /\ wpc' = [wpc EXCEPT ![w] = "leave"]
            /\ exitcode' = [exitcode EXCEPT ![w] = Retired]
       ELSE /\ wpc' = [wpc EXCEPT ![w] = "wait"]
            /\ UNCHANGED exitcode

(* done_queue.put of one message.                                          *)
Put(w, exc) ==
    /\ wbuf' = [wbuf EXCEPT ![w] = Append(@, [dev |-> task[w], exc |-> exc])]
    /\ NextTask(w)
    /\ UNCHANGED <<parentVars, attempt, queueVars, crashes>>

InvokeReturns(w) ==
    /\ Busy(w)
    /\ Put(w, FALSE)
    /\ UNCHANGED broken

(* Mutant: a failed device goes back to the task queue.                    *)
InvokeRaisesAndRequeues(w) ==
    /\ Busy(w)
    /\ wbuf' = [wbuf EXCEPT ![w] = Append(@, [dev |-> task[w], exc |-> TRUE])]
    /\ NextTask(w)
    /\ taskQ' = Append(taskQ, task[w])
    /\ broken' = broken \cup {task[w]}
    /\ UNCHANGED <<parentVars, attempt, doneQ, rlock, crashes>>

InvokeRaises(w) ==
    /\ Busy(w)
    /\ Put(w, TRUE)
    /\ broken' = broken \cup {task[w]}

(* Mutant: one attempt too many.                                           *)
InvokeNetErrorOnceMore(w) ==
    /\ Busy(w) /\ attempt[w] <= NetRetry
    /\ attempt' = [attempt EXCEPT ![w] = @ + 1]
    /\ UNCHANGED <<parentVars, wpc, task, count, wbuf, exitcode, queueVars, history>>

(* BrokenPipeError and ConnectionResetError are retried.                   *)
InvokeNetError(w) ==
    /\ Busy(w) /\ attempt[w] < NetRetry
    /\ attempt' = [attempt EXCEPT ![w] = @ + 1]
    /\ UNCHANGED <<parentVars, wpc, task, count, wbuf, exitcode, queueVars, history>>

(* The feeder thread writes to the pipe.                                   *)
Feed(w) ==
    /\ Alive(w) /\ wbuf[w] # <<>>
    /\ doneQ' = Append(doneQ, Head(wbuf[w]))
    /\ wbuf' = [wbuf EXCEPT ![w] = Tail(@)]
    /\ UNCHANGED <<parentVars, wpc, task, attempt, count, exitcode, taskQ, rlock, history>>

(* A process that ends normally joins its feeder thread first.             *)
Exit(w) ==
    /\ wpc[w] = "leave" /\ wbuf[w] = <<>>
    /\ wpc' = [wpc EXCEPT ![w] = "dead"]
    /\ UNCHANGED <<parentVars, task, attempt, count, wbuf, exitcode, queueVars, history>>

(* Ctrl+C in the function: catch_ctrl_c turns it into exit code 127.       *)
Interrupt(w) ==
    /\ Busy(w) /\ crashes < MaxCrashes
    /\ crashes' = crashes + 1
    /\ broken' = broken \cup {task[w]}
    /\ task' = [task EXCEPT ![w] = Stop]
    /\ wpc' = [wpc EXCEPT ![w] = "leave"]
    /\ exitcode' = [exitcode EXCEPT ![w] = Failure]
    /\ UNCHANGED <<parentVars, attempt, count, wbuf, queueVars>>

(* The process is killed: what its feeder has not written is gone, and a   *)
(* read lock it holds is never released.                                   *)
Crash(w) ==
    /\ Alive(w) /\ crashes < MaxCrashes
    /\ crashes' = crashes + 1
    /\ broken' = broken \cup {wbuf[w][i].dev : i \in 1..Len(wbuf[w])}
                        \cup (IF Busy(w) THEN {task[w]} ELSE {})
    /\ wpc' = [wpc EXCEPT ![w] = "dead"]
    /\ exitcode' = [exitcode EXCEPT ![w] = Failure]
    /\ task' = [task EXCEPT ![w] = Stop]
    /\ wbuf' = [wbuf EXCEPT ![w] = <<>>]
    /\ UNCHANGED <<parentVars, attempt, count, queueVars>>

Worker(w) ==
    \/ Acquire(w) \/ ReceiveTask(w) \/ ReceiveStop(w)
    \/ InvokeReturns(w) \/ InvokeRaises(w) \/ InvokeNetError(w)
    \/ Feed(w) \/ Exit(w)

-----------------------------------------------------------------------------
(* The parent.                                                             *)

(* A new process object for slot w (at start-up and for a retired worker). *)
Fresh(W) ==
    /\ wpc' = [w \in Slots |-> IF w \in W THEN "wait" ELSE wpc[w]]
    /\ count' = [w \in Slots |-> IF w \in W THEN 0 ELSE count[w]]
    /\ exitcode' = [w \in Slots |-> IF w \in W THEN Ok ELSE exitcode[w]]
    /\ UNCHANGED <<task, attempt, wbuf>>

StartWith(queue) ==
    /\ parent = "start" /\ started < PoolSize
    /\ taskQ' = queue
    /\ started' = started + 1
    /\ pool' = pool \cup {started + 1}
    /\ Fresh({started + 1})
    /\ parent' = IF started + 1 = PoolSize THEN "get" ELSE "start"
    /\ UNCHANGED <<scan, retired, failed, got, silent, success, fail, doneQ, rlock, history>>

(* Mutant: STOPs ahead of the devices.                                     *)
StartStopFirst == StartWith(<<Stop>> \o taskQ)

StartWorker == StartWith(Append(taskQ, Stop))

(* No worker of the pool can do anything any more: each is alive and waits *)
(* for a lock nobody gives back or for a task nobody sends.                *)
Blocked(w) ==
    /\ wbuf[w] = <<>>
    /\ \/ wpc[w] = "wait" /\ rlock # 0
       \/ wpc[w] = "recv" /\ taskQ = <<>>

Stuck == pool # {} /\ \A w \in pool : Blocked(w)

(* More than task_timeout has passed since last_task_ts.                   *)
ClockExpires ==
    /\ parent \in {"get", "scan", "decide"} /\ ~silent
    /\ SlowWork \/ (Stuck /\ doneQ = <<>>)
    /\ silent' = TRUE
    /\ UNCHANGED <<parent, started, pool, scan, retired, failed, got, success, fail,
                   workerVars, queueVars, history>>

(* done_queue.get(True, 1)                                                 *)
GetMessage ==
    /\ parent = "get" /\ doneQ # <<>>
    /\ got' = Head(doneQ) /\ doneQ' = Tail(doneQ)
    /\ silent' = FALSE
    /\ parent' = "scan" /\ scan' = 1 /\ retired' = {} /\ failed' = {}
    /\ UNCHANGED <<started, pool, success, fail, workerVars, taskQ, rlock, history>>

(* Mutant: last_task_ts is set whether or not a message came.              *)
GetEmptyResetsClock ==
    /\ parent = "get" /\ doneQ = <<>>
    /\ got' = NoMsg /\ silent' = FALSE
    /\ parent' = "scan" /\ scan' = 1 /\ retired' = {} /\ failed' = {}
    /\ UNCHANGED <<started, pool, success, fail, workerVars, queueVars, history>>

GetEmpty ==
    /\ parent = "get" /\ doneQ = <<>>
    /\ got' = NoMsg
    /\ parent' = "scan" /\ scan' = 1 /\ retired' = {} /\ failed' = {}
    /\ UNCHANGED <<started, pool, silent, success, fail, workerVars, queueVars, history>>

(* One worker of _check_children; codes make it a failed worker.           *)
CheckNext(codes) ==
    /\ parent = "scan"
    /\ scan' = scan + 1
    /\ parent' = IF scan = PoolSize THEN "decide" ELSE "scan"
    /\ IF scan \in pool /\ wpc[scan] = "dead"
       THEN /\ retired' = IF exitcode[scan] = Retired THEN retired \cup {scan} ELSE retired
            /\ failed' = IF exitcode[scan] \in codes THEN failed \cup {scan} ELSE failed
            /\ pool' = IF exitcode[scan] = Retired THEN pool ELSE pool \ {scan}
       ELSE UNCHANGED <<retired, failed, pool>>
    /\ UNCHANGED <<started, got, silent, success, fail, workerVars, queueVars, history>>

(* Mutant: every non-zero code counts as a failure.                        *)
CheckChildRetiredFails == CheckNext({Retired, Failure})

(* Neither 0 nor 9.                                                        *)
CheckChild == CheckNext({Failure})

(* Mutant: failed workers are only looked at when no message came.         *)
MustRaiseOnlyIdle ==
    \/ got = NoMsg /\ silent
    \/ ~TolerateFails /\ (got.exc \/ (got = NoMsg /\ failed # {}))

(* terminate_exc is not None                                               *)
MustRaise ==
    \/ got = NoMsg /\ silent
    \/ ~TolerateFails /\ (got.exc \/ failed # {})

(* Terminate and join every worker, then raise out of irun and run.        *)
Raise ==
    /\ parent = "decide" /\ MustRaise
    /\ wpc' = [w \in Slots |-> "dead"]
    /\ exitcode' = [w \in Slots |-> IF Alive(w) THEN Failure ELSE exitcode[w]]
    /\ parent' = "raised"
    /\ UNCHANGED <<started, pool, scan, retired, failed, got, silent, success, fail,
                   task, attempt, count, wbuf, queueVars, history>>

(* run() files the result the callbacks leave; a callback that raises sets *)
(* task_result.exc.                                                        *)
Report ==
    IF got = NoMsg
    THEN UNCHANGED <<success, fail>>
    ELSE \/ /\ got.exc
            /\ fail' = fail \cup {got.dev} /\ UNCHANGED success
         \/ /\ ~got.exc
            /\ success' = success \cup {got.dev} /\ UNCHANGED fail
         \/ /\ CallbackFails
            /\ fail' = fail \cup {got.dev} /\ UNCHANGED success

(* Yield the message, leave the loop if over, else restart workers and go  *)
(* round again.                                                            *)
DeliverThen(over, restart) ==
    /\ parent = "decide" /\ ~MustRaise
    /\ Report
    /\ got' = NoMsg
    /\ IF over
       THEN parent' = "done" /\ UNCHANGED workerVars
       ELSE parent' = "get" /\ Fresh(restart)
    /\ UNCHANGED <<started, pool, scan, retired, failed, silent, queueVars, history>>

(* Mutants: leave after the last result; forget the retired workers.       *)
DeliverAllReported    == DeliverThen(Devices \subseteq success \cup fail \cup {got.dev}, retired)
DeliverWithoutRestart == DeliverThen(pool = {}, {})

(* The loop ends when the pool is empty; retired workers are restarted.    *)
Deliver == DeliverThen(pool = {}, retired)

Parent == StartWorker \/ GetMessage \/ GetEmpty \/ CheckChild \/ Raise \/ Deliver

-----------------------------------------------------------------------------
(* irun has returned or raised: nothing is left to do.                     *)
Finished == Ended /\ UNCHANGED vars

Next ==
    \/ Parent
    \/ ClockExpires
    \/ \E w \in Slots : Worker(w)
    \/ \E w \in Slots : Interrupt(w) \/ Crash(w)
    \/ Finished

Spec == Init /\ [][Next]_vars

(* Time passes.                                                            *)
FairClock == WF_vars(ClockExpires)

(* The function returns for every device, and the workers are scheduled.   *)
FairWorkers ==
    \A w \in Slots :
        /\ WF_vars(Acquire(w) \/ ReceiveTask(w) \/ ReceiveStop(w) \/ Exit(w))
        /\ WF_vars(InvokeReturns(w) \/ InvokeRaises(w))
        /\ WF_vars(Feed(w))

(* The operating system runs the parent.                                   *)
FairSpec == Spec /\ WF_vars(Parent)
=============================================================================
