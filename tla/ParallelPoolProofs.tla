------------------------ MODULE ParallelPoolProofs ------------------------
(***************************************************************************)
(* Proofs about the worker pool of annet/parallel.py, for any number of    *)
(* devices and workers, any max_tasks and net_retry, any number of deaths. *)
(***************************************************************************)
EXTENDS ParallelPoolProps, SequenceTheorems, FiniteSetTheorems, TLAPS

(* The pool's own actions.                                                 *)
WorkerDies(w) == Interrupt(w) \/ Crash(w)

(* A worker that is on a task has a device, and the parent's counters      *)
(* point at a worker while it starts or checks them.                       *)
TypeInv ==
    /\ TypeOK
    /\ \A w \in Slots : Busy(w) => task[w] \in Devices
    /\ parent = "scan" => scan \in Slots
    /\ parent = "start" => started < PoolSize

LEMMA SlotsFacts ==
    /\ PoolSize \in Nat /\ PoolSize >= 2
    /\ 1 \in Slots /\ 1 \in 1..(PoolSize + 1)
    /\ \A w \in Slots : w \in 0..PoolSize /\ w # 0 /\ w + 1 \in 1..(PoolSize + 1)
BY PoolAssumption DEF Slots, PoolAssumption

LEMMA TaskSeqFacts ==
    /\ DeviceIds \in TaskSeq
    /\ \A q \in TaskSeq : /\ Append(q, Stop) \in TaskSeq
                          /\ q # <<>> => Head(q) \in Devices \cup {Stop} /\ Tail(q) \in TaskSeq
<1>1. DeviceIds \in TaskSeq
  BY PoolAssumption DEF PoolAssumption, TaskSeq
<1>2. ASSUME NEW q \in TaskSeq PROVE Append(q, Stop) \in TaskSeq
  BY AppendProperties DEF TaskSeq
<1>3. ASSUME NEW q \in TaskSeq, q # <<>>
      PROVE  Head(q) \in Devices \cup {Stop} /\ Tail(q) \in TaskSeq
  BY <1>3, HeadTailProperties DEF TaskSeq
<1> QED
  BY <1>1, <1>2, <1>3

LEMMA MsgSeqFacts ==
    /\ <<>> \in MsgSeq
    /\ \A q \in MsgSeq : /\ \A i \in 1..Len(q) : q[i] \in Message
                         /\ \A m \in Message : Append(q, m) \in MsgSeq
                         /\ q # <<>> => Head(q) \in Message /\ Tail(q) \in MsgSeq
<1>0. ASSUME NEW q \in MsgSeq, NEW i \in 1..Len(q) PROVE q[i] \in Message
  BY ElementOfSeq DEF MsgSeq
<1>1. <<>> \in MsgSeq
  BY EmptySeq DEF MsgSeq
<1>2. ASSUME NEW q \in MsgSeq, NEW m \in Message PROVE Append(q, m) \in MsgSeq
  BY AppendProperties DEF MsgSeq
<1>3. ASSUME NEW q \in MsgSeq, q # <<>>
      PROVE  Head(q) \in Message /\ Tail(q) \in MsgSeq
  BY <1>3, HeadTailProperties DEF MsgSeq
<1> QED
  BY <1>0, <1>1, <1>2, <1>3

LEMMA TypeInit == Init => TypeInv
<1> SUFFICES ASSUME Init PROVE TypeInv
  OBVIOUS
<1>1. ParentTypeOK
  <2>1. started \in 0..PoolSize /\ scan \in 1..(PoolSize + 1)
    BY SlotsFacts DEF Init
  <2> QED
    BY <2>1 DEF Init, ParentTypeOK
<1>2. QueueTypeOK
  BY SlotsFacts, TaskSeqFacts, MsgSeqFacts DEF Init, QueueTypeOK
<1>3. WorkerTypeOK
  <2>1. /\ wpc \in [Slots -> {"unborn", "wait", "recv", "invoke", "leave", "dead"}]
        /\ exitcode \in [Slots -> {Ok, Retired, Failure}]
        /\ task \in [Slots -> Devices \cup {Stop}]
    BY DEF Init
  <2>2. attempt \in [Slots -> 0..NetRetry] /\ count \in [Slots -> Nat]
    BY PoolAssumption DEF Init, PoolAssumption
  <2>3. wbuf \in [Slots -> MsgSeq]
    BY MsgSeqFacts DEF Init
  <2> QED
    BY <2>1, <2>2, <2>3 DEF WorkerTypeOK
<1>4. /\ parent = "start" /\ started < PoolSize
      /\ \A w \in Slots : ~Busy(w)
  BY SlotsFacts DEF Init, Busy
<1> QED
  BY <1>1, <1>2, <1>3, <1>4 DEF Init, TypeInv, TypeOK

(* A step of one worker leaves the parent's variables alone.               *)
LEMMA WorkerType ==
  ASSUME TypeInv, NEW w \in Slots, Worker(w) \/ WorkerDies(w)
  PROVE  TypeInv'
<1>1. UNCHANGED parentVars
  BY DEF Worker, WorkerDies, Acquire, ReceiveTask, ReceiveStop, InvokeReturns, InvokeRaises,
     InvokeNetError, Feed, Exit, Interrupt, Crash, Put
<1>2. ParentTypeOK' /\ (parent = "scan" => scan \in Slots)' /\ (parent = "start" => started < PoolSize)'
  BY <1>1 DEF ParentTypeOK, parentVars, TypeInv, TypeOK
<1> DEFINE Rest == /\ QueueTypeOK /\ WorkerTypeOK
                   /\ crashes \in Nat /\ broken \subseteq Devices
                   /\ \A v \in Slots : Busy(v) => task[v] \in Devices
<1>3. SUFFICES Rest'
  BY <1>2 DEF TypeInv, TypeOK
<1>4. Rest
  BY DEF TypeInv, TypeOK
<1> USE <1>4, SlotsFacts DEF QueueTypeOK, WorkerTypeOK, Busy, queueVars, workerVars, history
<1>5. CASE Acquire(w)
  BY <1>5 DEF Acquire
<1>6. CASE ReceiveTask(w)
  <2>1. Head(taskQ) \in Devices /\ Tail(taskQ) \in TaskSeq
    BY <1>6, TaskSeqFacts DEF ReceiveTask
  <2>2. 0 \in 0..NetRetry
    BY PoolAssumption DEF PoolAssumption
  <2> QED
    BY <1>6, <2>1, <2>2 DEF ReceiveTask
<1>7. CASE ReceiveStop(w)
  BY <1>7, TaskSeqFacts DEF ReceiveStop
<1>8. ASSUME NEW exc \in BOOLEAN, Busy(w), Put(w, exc), broken' \subseteq Devices PROVE Rest'
  <2>1. [dev |-> task[w], exc |-> exc] \in Message
    BY <1>8 DEF Message
  <2>2. Append(wbuf[w], [dev |-> task[w], exc |-> exc]) \in MsgSeq
    BY <2>1, MsgSeqFacts
  <2>3. QueueTypeOK' /\ crashes' \in Nat /\ broken' \subseteq Devices
    BY <1>8 DEF Put
  <2>4. /\ wbuf' \in [Slots -> MsgSeq] /\ count' \in [Slots -> Nat]
        /\ task' \in [Slots -> Devices \cup {Stop}] /\ attempt' \in [Slots -> 0..NetRetry]
    BY <1>8, <2>2 DEF Put, NextTask
  <2>5. /\ wpc' \in [Slots -> {"unborn", "wait", "recv", "invoke", "leave", "dead"}]
        /\ exitcode' \in [Slots -> {Ok, Retired, Failure}]
        /\ \A v \in Slots : wpc'[v] = "invoke" => task'[v] \in Devices
    BY <1>8 DEF Put, NextTask
  <2> QED
    BY <2>3, <2>4, <2>5
<1>9. CASE InvokeReturns(w) \/ InvokeRaises(w)
  BY <1>8, <1>9 DEF InvokeReturns, InvokeRaises
<1>10. CASE InvokeNetError(w)
  <2>1. attempt[w] + 1 \in 0..NetRetry
    <3>1. NetRetry \in Nat
      BY PoolAssumption DEF PoolAssumption
    <3>2. attempt[w] \in 0..NetRetry /\ attempt[w] < NetRetry
      BY <1>10 DEF InvokeNetError
    <3> QED
      BY <3>1, <3>2
  <2> QED
    BY <1>10, <2>1 DEF InvokeNetError
<1>11. CASE Feed(w)
  BY <1>11, MsgSeqFacts DEF Feed
<1>12. CASE Exit(w)
  BY <1>12 DEF Exit
<1>13. CASE Interrupt(w)
  BY <1>13 DEF Interrupt
<1>14. CASE Crash(w)
  <2>1. \A i \in 1..Len(wbuf[w]) : wbuf[w][i].dev \in Devices
    BY MsgSeqFacts DEF Message
  <2>2. broken' \subseteq Devices
    BY <1>14, <2>1 DEF Crash
  <2>3. QueueTypeOK' /\ crashes' \in Nat
    BY <1>14 DEF Crash
  <2>4. WorkerTypeOK' /\ \A v \in Slots : wpc'[v] = "invoke" => task'[v] \in Devices
    BY <1>14, MsgSeqFacts DEF Crash
  <2> QED
    BY <2>2, <2>3, <2>4
<1> QED
  BY <1>5, <1>6, <1>7, <1>9, <1>10, <1>11, <1>12, <1>13, <1>14 DEF Worker, WorkerDies

(* A step of the parent.                                                   *)
LEMMA ParentType ==
  ASSUME TypeInv, Parent \/ ClockExpires
  PROVE  TypeInv'
<1> USE SlotsFacts DEF TypeInv, TypeOK, Busy, queueVars, workerVars, history
<1>1. ASSUME NEW W, Fresh(W), WorkerTypeOK PROVE WorkerTypeOK' /\ \A v \in Slots : Busy(v)' => Busy(v)
  BY <1>1 DEF Fresh, WorkerTypeOK
<1>2. CASE StartWorker
  <2>1. started + 1 \in Slots /\ started + 1 \in 0..PoolSize
    BY <1>2 DEF StartWorker, StartWith, ParentTypeOK, Slots
  <2>2. QueueTypeOK'
    BY <1>2, TaskSeqFacts DEF StartWorker, StartWith, QueueTypeOK
  <2>3. ParentTypeOK' /\ (parent' = "start" => started' < PoolSize) /\ parent' # "scan"
    BY <1>2, <2>1 DEF StartWorker, StartWith, ParentTypeOK
  <2> QED
    BY <1>1, <1>2, <2>2, <2>3 DEF StartWorker, StartWith, Fresh
<1>3. CASE ClockExpires
  BY <1>3 DEF ClockExpires, ParentTypeOK, QueueTypeOK, WorkerTypeOK
<1>4. CASE GetMessage
  <2>1. Head(doneQ) \in Message /\ Tail(doneQ) \in MsgSeq
    BY <1>4, MsgSeqFacts DEF GetMessage, QueueTypeOK
  <2> QED
    BY <1>4, <2>1 DEF GetMessage, ParentTypeOK, QueueTypeOK, WorkerTypeOK
<1>5. CASE GetEmpty
  BY <1>5 DEF GetEmpty, ParentTypeOK, QueueTypeOK, WorkerTypeOK
<1>6. CASE CheckChild
  <2>1. ParentTypeOK' /\ (parent' = "scan" => scan' \in Slots) /\ parent' # "start"
    <3>1. scan \in Slots /\ parent' \in {"decide", "scan"} /\ scan' = scan + 1
      BY <1>6 DEF CheckChild, CheckNext
    <3>2. scan' \in 1..(PoolSize + 1) /\ (parent' = "scan" => scan' \in Slots)
      BY <1>6, <3>1 DEF CheckChild, CheckNext, Slots
    <3>3. pool' \subseteq Slots /\ retired' \subseteq Slots /\ failed' \subseteq Slots
      BY <1>6, <3>1 DEF CheckChild, CheckNext, ParentTypeOK
    <3>4. UNCHANGED <<started, got, silent, success, fail>>
      BY <1>6 DEF CheckChild, CheckNext
    <3> QED
      BY <3>1, <3>2, <3>3, <3>4 DEF ParentTypeOK
  <2>2. UNCHANGED <<workerVars, queueVars, history>>
    BY <1>6 DEF CheckChild, CheckNext
  <2>3. QueueTypeOK' /\ WorkerTypeOK' /\ \A v \in Slots : wpc'[v] = "invoke" => task'[v] \in Devices
    BY <2>2 DEF QueueTypeOK, WorkerTypeOK
  <2>4. crashes' \in Nat /\ broken' \subseteq Devices
    BY <2>2
  <2> QED
    BY <2>1, <2>3, <2>4
<1>7. CASE Raise
  BY <1>7 DEF Raise, ParentTypeOK, QueueTypeOK, WorkerTypeOK
<1>8. CASE Deliver
  <2>1. ParentTypeOK' /\ parent' \in {"done", "get"}
    BY <1>8 DEF Deliver, DeliverThen, Report, Message, NoMsg, ParentTypeOK
  <2> QED
    BY <1>1, <1>8, <2>1 DEF Deliver, DeliverThen, QueueTypeOK, WorkerTypeOK, Fresh
<1> QED
  BY <1>2, <1>3, <1>4, <1>5, <1>6, <1>7, <1>8 DEF Parent

LEMMA TypeStep == TypeInv /\ [Next]_vars => TypeInv'
<1> SUFFICES ASSUME TypeInv, [Next]_vars PROVE TypeInv'
  OBVIOUS
<1>1. CASE UNCHANGED vars
  BY <1>1 DEF TypeInv, TypeOK, ParentTypeOK, QueueTypeOK, WorkerTypeOK, Busy,
              vars, parentVars, queueVars, workerVars, history
<1> QED
  BY <1>1, WorkerType, ParentType DEF Next, WorkerDies, Finished

LEMMA TypeAlways == Spec => []TypeInv
BY TypeInit, TypeStep, PTL DEF Spec

(* Every variable always has a value the code can give it.                 *)
THEOREM TypeCorrect == Spec => []TypeOK
BY TypeAlways, PTL DEF TypeInv

-----------------------------------------------------------------------------
(* No process outlives irun, and no death goes unnoticed.                  *)

Checking == parent \in {"scan", "decide"}

(* Only workers of the pool live; the pool holds every worker started and  *)
(* not yet reaped, the retired ones of the round included.                 *)
ReapInv ==
    /\ \A w \in Slots \ pool : ~Alive(w)
    /\ \A w \in Slots : wpc[w] = "unborn" <=> started < w
    /\ parent # "start" => started = PoolSize
    /\ Checking => retired \subseteq pool
    /\ parent = "done" => pool = {}
    /\ parent = "raised" => \A w \in Slots : wpc[w] = "dead"

(* Exit codes: only a leaving or dead process has one, retired workers are *)
(* dead with code 9, and a worker that died is still in the pool or among  *)
(* the failed workers of the round until irun raises.                      *)
DeathInv ==
    /\ \A w \in Slots : wpc[w] \notin {"leave", "dead"} => exitcode[w] = Ok
    /\ Checking => \A w \in retired : wpc[w] = "dead" /\ exitcode[w] = Retired
    /\ ~TolerateFails /\ crashes > 0 =>
          \/ parent = "raised"
          \/ \E w \in pool : exitcode[w] = Failure
          \/ Checking /\ failed # {}

EndInv == TypeInv /\ ReapInv /\ DeathInv

LEMMA EndInit == Init => ReapInv /\ DeathInv
BY SlotsFacts DEF Init, ReapInv, DeathInv, Alive, Checking, Slots, Ok

LEMMA WorkerEnd ==
  ASSUME EndInv, NEW w \in Slots, Worker(w) \/ WorkerDies(w)
  PROVE  ReapInv' /\ DeathInv'
<1> USE DEF EndInv, TypeInv, TypeOK, WorkerTypeOK, Alive, Busy, queueVars, history
<1>1. UNCHANGED parentVars /\ Alive(w) /\ wpc'[w] # "unborn"
  BY DEF Worker, WorkerDies, Acquire, ReceiveTask, ReceiveStop, InvokeReturns, InvokeRaises,
     InvokeNetError, Feed, Exit, Interrupt, Crash, Put, NextTask, workerVars, parentVars
<1>2. \A v \in Slots \ {w} : wpc'[v] = wpc[v] /\ exitcode'[v] = exitcode[v]
  BY DEF Worker, WorkerDies, Acquire, ReceiveTask, ReceiveStop, InvokeReturns, InvokeRaises,
     InvokeNetError, Feed, Exit, Interrupt, Crash, Put, NextTask
<1>3. w \in pool
  BY <1>1 DEF ReapInv
<1>4. ReapInv'
  BY <1>1, <1>2, <1>3 DEF ReapInv, Checking, parentVars
<1>5. wpc'[w] \notin {"leave", "dead"} => exitcode'[w] = Ok
  BY <1>1 DEF Worker, WorkerDies, Acquire, ReceiveTask, ReceiveStop, InvokeReturns, InvokeRaises,
     InvokeNetError, Feed, Exit, Interrupt, Crash, Put, NextTask, DeathInv
<1>6. Checking => w \notin retired
  BY <1>1 DEF DeathInv
<1>7. \/ WorkerDies(w) /\ exitcode'[w] = Failure
      \/ crashes' = crashes /\ (exitcode[w] = Failure => exitcode'[w] = Failure)
  <2>1. CASE WorkerDies(w)
    BY <2>1 DEF WorkerDies, Interrupt, Crash
  <2>2. CASE Worker(w)
    <3>1. crashes' = crashes
      BY <2>2 DEF Worker, Acquire, ReceiveTask, ReceiveStop, InvokeReturns, InvokeRaises,
         InvokeNetError, Feed, Exit, Put
    <3>2. exitcode'[w] # exitcode[w] => wpc[w] \in {"recv", "invoke"}
      BY <2>2 DEF Worker, Acquire, ReceiveTask, ReceiveStop, InvokeReturns, InvokeRaises,
         InvokeNetError, Feed, Exit, Put
    <3> QED
      BY <3>1, <3>2 DEF DeathInv, Ok, Failure
  <2> QED
    BY <2>1, <2>2
<1>8. DeathInv'
  <2>1. \A v \in Slots : wpc'[v] \notin {"leave", "dead"} => exitcode'[v] = Ok
    BY <1>2, <1>5 DEF DeathInv
  <2>2. Checking' => \A v \in retired' : wpc'[v] = "dead" /\ exitcode'[v] = Retired
    BY <1>1, <1>2, <1>6 DEF DeathInv, Checking, parentVars, ParentTypeOK
  <2>3. parent # "raised" /\ UNCHANGED <<parent, pool, failed>>
    BY <1>1 DEF ReapInv, parentVars
  <2>4. ~TolerateFails /\ crashes' > 0 =>
           (\E v \in pool' : exitcode'[v] = Failure) \/ (Checking' /\ failed' # {})
    BY <1>2, <1>3, <1>7, <2>3 DEF DeathInv, Checking, ParentTypeOK
  <2> QED
    BY <2>1, <2>2, <2>4 DEF DeathInv
<1> QED
  BY <1>4, <1>8

LEMMA ParentEnd ==
  ASSUME EndInv, Parent \/ ClockExpires
  PROVE  ReapInv' /\ DeathInv'
<1> USE SlotsFacts DEF EndInv, Alive
<1>1. CASE StartWorker
  <2> DEFINE n == started + 1
  <2>1. n \in Slots /\ wpc[n] = "unborn" /\ exitcode[n] = Ok
    BY <1>1 DEF StartWorker, StartWith, TypeInv, TypeOK, ParentTypeOK, ReapInv, DeathInv, Slots
  <2>2. /\ \A v \in Slots \ {n} : wpc'[v] = wpc[v] /\ exitcode'[v] = exitcode[v]
        /\ wpc'[n] = "wait" /\ exitcode'[n] = Ok
    BY <1>1, <2>1 DEF StartWorker, StartWith, Fresh
  <2>3. parent = "start" /\ started' = n /\ pool' = pool \cup {n} /\ crashes' = crashes
        /\ parent' = (IF n = PoolSize THEN "get" ELSE "start")
    BY <1>1 DEF StartWorker, StartWith, history
  <2>4. ReapInv'
    BY <2>1, <2>2, <2>3 DEF ReapInv, Checking, Slots, TypeInv, TypeOK, ParentTypeOK
  <2>5. DeathInv'
    BY <2>1, <2>2, <2>3 DEF DeathInv, Checking, Ok, Failure, TypeInv, TypeOK, ParentTypeOK
  <2> QED
    BY <2>4, <2>5
<1>2. CASE ClockExpires
  BY <1>2 DEF ClockExpires, ReapInv, DeathInv, Checking, workerVars, history
<1>3. CASE GetMessage \/ GetEmpty
  BY <1>3 DEF GetMessage, GetEmpty, ReapInv, DeathInv, Checking, workerVars, history
<1>4. CASE CheckChild
  <2>1. /\ Checking /\ Checking' /\ UNCHANGED <<started, crashes, wpc, exitcode>>
        /\ pool' \subseteq pool /\ retired' \subseteq retired \cup {scan}
    BY <1>4 DEF CheckChild, CheckNext, Checking, workerVars, history
  <2>2. /\ retired' # retired => scan \in pool /\ wpc[scan] = "dead" /\ exitcode[scan] = Retired
        /\ pool' # pool => /\ pool' = pool \ {scan} /\ wpc[scan] = "dead" /\ retired' = retired
                          /\ exitcode[scan] # Retired
    BY <1>4 DEF CheckChild, CheckNext
  <2>3. ReapInv'
    BY <2>1, <2>2 DEF ReapInv, DeathInv, Checking
  <2>4. failed \subseteq failed' /\ (pool' # pool /\ exitcode[scan] = Failure => scan \in failed')
    BY <1>4 DEF CheckChild, CheckNext
  <2>5. DeathInv'
    BY <2>1, <2>2, <2>4 DEF DeathInv, Checking
  <2> QED
    BY <2>3, <2>5
<1>5. CASE Raise
  BY <1>5 DEF Raise, ReapInv, DeathInv, Checking, TypeInv, TypeOK, WorkerTypeOK, history
<1>6. CASE Deliver
  <2>1. /\ Checking /\ ~Checking' /\ parent' # "start" /\ parent' # "raised"
        /\ UNCHANGED <<started, pool, crashes>> /\ (parent' = "done" => pool = {})
        /\ ~TolerateFails => failed = {}
    BY <1>6 DEF Deliver, DeliverThen, Checking, MustRaise, history
  <2>2. \A v \in Slots :
           \/ wpc'[v] = wpc[v] /\ exitcode'[v] = exitcode[v]
           \/ v \in retired /\ wpc'[v] = "wait" /\ exitcode'[v] = Ok
    <3>1. UNCHANGED workerVars \/ Fresh(retired)
      BY <1>6 DEF Deliver, DeliverThen
    <3>2. CASE UNCHANGED workerVars
      BY <3>2 DEF workerVars
    <3>3. ASSUME Fresh(retired), NEW v \in Slots
          PROVE  \/ wpc'[v] = wpc[v] /\ exitcode'[v] = exitcode[v]
                 \/ v \in retired /\ wpc'[v] = "wait" /\ exitcode'[v] = Ok
      BY <3>3 DEF Fresh
    <3> QED
      BY <3>1, <3>2, <3>3
  <2>3. ReapInv'
    BY <2>1, <2>2 DEF ReapInv, DeathInv, Checking
  <2>4. DeathInv'
    BY <2>1, <2>2 DEF DeathInv, Checking, Ok, Failure, Retired, TypeInv, TypeOK, ParentTypeOK
  <2> QED
    BY <2>3, <2>4
<1> QED
  BY <1>1, <1>2, <1>3, <1>4, <1>5, <1>6 DEF Parent

LEMMA EndAlways == Spec => []EndInv
<1>1. Init => EndInv
  BY TypeInit, EndInit DEF EndInv
<1>2. EndInv /\ [Next]_vars => EndInv'
  <2> SUFFICES ASSUME EndInv, [Next]_vars PROVE EndInv'
    OBVIOUS
  <2>1. TypeInv'
    BY TypeStep DEF EndInv
  <2>2. CASE UNCHANGED vars
    BY <2>1, <2>2 DEF EndInv, ReapInv, DeathInv, Checking, Alive,
                      vars, parentVars, workerVars, queueVars, history
  <2> QED
    BY <2>1, <2>2, WorkerEnd, ParentEnd DEF EndInv, Next, WorkerDies, Finished
<1> QED
  BY <1>1, <1>2, PTL DEF Spec

(* However irun ends, by an empty pool or by an exception, no worker       *)
(* process is left running.                                                *)
THEOREM NoOrphansEver == Spec => []NoOrphans
<1>1. EndInv => NoOrphans
  BY DEF EndInv, TypeInv, TypeOK, WorkerTypeOK, ReapInv, NoOrphans, Ended, Alive,
         ParentTypeOK, Slots
<1> QED
  BY <1>1, EndAlways, PTL

(* Without tolerate_fails irun does not return normally once a worker was  *)
(* killed or interrupted.                                                  *)
THEOREM DeathsAreReported == Spec => []DeathIsNotSilent
<1>1. EndInv => DeathIsNotSilent
  BY DEF EndInv, TypeInv, TypeOK, ReapInv, DeathInv, DeathIsNotSilent, Checking
<1> QED
  BY <1>1, EndAlways, PTL

-----------------------------------------------------------------------------
(* The devices in a task queue and in a queue of messages.                 *)
Tasks(q) == {q[i] : i \in 1..Len(q)} \ {Stop}
Devs(q)  == {q[i].dev : i \in 1..Len(q)}
BadIn(q) == \E i \in 1..Len(q) : q[i].exc

TaskOnce(q)  == \A i, j \in 1..Len(q) : q[i] = q[j] /\ q[i] # Stop => i = j
DevOnce(q)   == \A i, j \in 1..Len(q) : q[i].dev = q[j].dev => i = j
StopsLast(q) == \A i, j \in 1..Len(q) : i < j /\ q[i] = Stop => q[j] = Stop

(* One more STOP mark changes nothing for the devices of a task queue.     *)
LEMMA OneMoreStop ==
  ASSUME NEW q \in TaskSeq
  PROVE  /\ Tasks(Append(q, Stop)) = Tasks(q)
         /\ TaskOnce(q) => TaskOnce(Append(q, Stop))
         /\ StopsLast(q) => StopsLast(Append(q, Stop))
<1> DEFINE r == Append(q, Stop)
<1>1. Len(q) \in Nat /\ Len(r) = Len(q) + 1 /\ r[Len(q) + 1] = Stop /\ \A i \in 1..Len(q) : r[i] = q[i]
  BY AppendProperties, LenProperties DEF TaskSeq
<1>2. \A i \in 1..Len(r) : i \in 1..Len(q) \/ i = Len(q) + 1
  BY <1>1
<1>3. \A i \in 1..Len(q) : i \in 1..Len(r)
  BY <1>1
<1> HIDE DEF r
<1>4. Tasks(r) = Tasks(q)
  BY <1>1, <1>2, <1>3 DEF Tasks
<1>5. TaskOnce(q) => TaskOnce(r)
  BY <1>1, <1>2 DEF TaskOnce
<1>6. StopsLast(q) => StopsLast(r)
  BY <1>1, <1>2 DEF StopsLast
<1> QED
  BY <1>4, <1>5, <1>6 DEF r

(* Taking the head of a task queue.                                        *)
LEMMA TakeTask ==
  ASSUME NEW q \in TaskSeq, q # <<>>
  PROVE  /\ Tasks(q) = Tasks(Tail(q)) \cup ({Head(q)} \ {Stop})
         /\ TaskOnce(q) => TaskOnce(Tail(q)) /\ Head(q) \notin Tasks(Tail(q))
         /\ StopsLast(q) => StopsLast(Tail(q))
         /\ StopsLast(q) /\ Head(q) = Stop => Tasks(q) = {}
<1> DEFINE t == Tail(q)
<1>1. Len(q) \in Nat \ {0} /\ Len(t) = Len(q) - 1 /\ \A i \in 1..Len(t) : t[i] = q[i + 1]
  BY HeadTailProperties, EmptySeq DEF TaskSeq
<1>2. Head(q) = q[1] /\ 1 \in 1..Len(q)
  BY <1>1
<1>3. \A i \in 1..Len(t) : i + 1 \in 1..Len(q) /\ i + 1 # 1 /\ 1 < i + 1
  BY <1>1
<1>4. \A i \in 1..Len(q) : i = 1 \/ (i - 1 \in 1..Len(t) /\ q[i] = t[i - 1])
  <2> SUFFICES ASSUME NEW i \in 1..Len(q), i # 1 PROVE i - 1 \in 1..Len(t) /\ q[i] = t[i - 1]
    OBVIOUS
  <2>1. i - 1 \in 1..Len(t) /\ (i - 1) + 1 = i
    BY <1>1
  <2> QED
    BY <1>1, <2>1
<1> HIDE DEF t
<1>5. Tasks(q) = Tasks(t) \cup ({Head(q)} \ {Stop})
  BY <1>1, <1>2, <1>3, <1>4 DEF Tasks
<1>6. ASSUME TaskOnce(q) PROVE TaskOnce(t) /\ Head(q) \notin Tasks(t)
  <2>1. ASSUME NEW i \in 1..Len(t), NEW j \in 1..Len(t), t[i] = t[j], t[i] # Stop PROVE i = j
    <3>1. i + 1 = j + 1
      BY <1>1, <1>3, <1>6, <2>1 DEF TaskOnce
    <3> QED
      BY <3>1
  <2>2. ASSUME NEW i \in 1..Len(t), t[i] # Stop PROVE t[i] # Head(q)
    BY <1>1, <1>2, <1>3, <1>6, <2>2 DEF TaskOnce
  <2> QED
    BY <2>1, <2>2 DEF TaskOnce, Tasks
<1>7. ASSUME StopsLast(q) PROVE StopsLast(t)
  <2> SUFFICES ASSUME NEW i \in 1..Len(t), NEW j \in 1..Len(t), i < j, t[i] = Stop PROVE t[j] = Stop
    BY DEF StopsLast
  <2>1. i + 1 < j + 1 /\ i + 1 \in 1..Len(q) /\ j + 1 \in 1..Len(q)
    BY <1>3
  <2> QED
    BY <1>1, <1>7, <2>1 DEF StopsLast
<1>8. ASSUME StopsLast(q), Head(q) = Stop PROVE Tasks(q) = {}
  <2>1. \A i \in 1..Len(q) : q[i] = Stop
    BY <1>2, <1>8 DEF StopsLast
  <2> QED
    BY <2>1 DEF Tasks
<1> QED
  BY <1>5, <1>6, <1>7, <1>8 DEF t

(* The queues of messages.                                                 *)
LEMMA NoMessages == Devs(<<>>) = {} /\ DevOnce(<<>>) /\ ~BadIn(<<>>)
BY DEF Devs, DevOnce, BadIn

LEMMA OneMoreMessage ==
  ASSUME NEW q \in MsgSeq, NEW m \in Message
  PROVE  /\ Devs(Append(q, m)) = Devs(q) \cup {m.dev}
         /\ DevOnce(q) /\ m.dev \notin Devs(q) => DevOnce(Append(q, m))
         /\ BadIn(Append(q, m)) => BadIn(q) \/ m.exc
<1> DEFINE r == Append(q, m)
<1>1. Len(q) \in Nat /\ Len(r) = Len(q) + 1 /\ r[Len(q) + 1] = m /\ \A i \in 1..Len(q) : r[i] = q[i]
  BY AppendProperties, LenProperties DEF MsgSeq
<1>2. \A i \in 1..Len(r) : i \in 1..Len(q) \/ i = Len(q) + 1
  BY <1>1
<1>3. Len(q) + 1 \in 1..Len(r) /\ \A i \in 1..Len(q) : i \in 1..Len(r)
  BY <1>1
<1> HIDE DEF r
<1>4. Devs(r) = Devs(q) \cup {m.dev}
  BY <1>1, <1>2, <1>3 DEF Devs
<1>5. DevOnce(q) /\ m.dev \notin Devs(q) => DevOnce(r)
  BY <1>1, <1>2 DEF DevOnce, Devs
<1>6. BadIn(r) => BadIn(q) \/ m.exc
  BY <1>1, <1>2 DEF BadIn
<1> QED
  BY <1>4, <1>5, <1>6 DEF r

LEMMA TakeMessage ==
  ASSUME NEW q \in MsgSeq, q # <<>>
  PROVE  /\ Devs(q) = Devs(Tail(q)) \cup {Head(q).dev}
         /\ DevOnce(q) => DevOnce(Tail(q)) /\ Head(q).dev \notin Devs(Tail(q))
         /\ BadIn(Tail(q)) \/ Head(q).exc => BadIn(q)
<1> DEFINE t == Tail(q)
<1>1. Len(q) \in Nat \ {0} /\ Len(t) = Len(q) - 1 /\ \A i \in 1..Len(t) : t[i] = q[i + 1]
  BY HeadTailProperties, EmptySeq DEF MsgSeq
<1>2. Head(q) = q[1] /\ 1 \in 1..Len(q)
  BY <1>1
<1>3. \A i \in 1..Len(t) : i + 1 \in 1..Len(q) /\ i + 1 # 1
  BY <1>1
<1>4. \A i \in 1..Len(q) : i = 1 \/ (i - 1 \in 1..Len(t) /\ q[i] = t[i - 1])
  <2> SUFFICES ASSUME NEW i \in 1..Len(q), i # 1 PROVE i - 1 \in 1..Len(t) /\ q[i] = t[i - 1]
    OBVIOUS
  <2>1. i - 1 \in 1..Len(t) /\ (i - 1) + 1 = i
    BY <1>1
  <2> QED
    BY <1>1, <2>1
<1> HIDE DEF t
<1>5. Devs(q) = Devs(t) \cup {Head(q).dev}
  BY <1>1, <1>2, <1>3, <1>4 DEF Devs
<1>6. ASSUME DevOnce(q) PROVE DevOnce(t) /\ Head(q).dev \notin Devs(t)
  <2>1. ASSUME NEW i \in 1..Len(t), NEW j \in 1..Len(t), t[i].dev = t[j].dev PROVE i = j
    <3>1. i + 1 = j + 1
      BY <1>1, <1>3, <1>6, <2>1 DEF DevOnce
    <3> QED
      BY <3>1
  <2>2. ASSUME NEW i \in 1..Len(t) PROVE t[i].dev # Head(q).dev
    BY <1>1, <1>2, <1>3, <1>6 DEF DevOnce
  <2> QED
    BY <2>1, <2>2 DEF DevOnce, Devs
<1>7. BadIn(t) \/ Head(q).exc => BadIn(q)
  BY <1>1, <1>2, <1>3 DEF BadIn
<1> QED
  BY <1>5, <1>6, <1>7 DEF t

-----------------------------------------------------------------------------
(* Where a device is: it is always in exactly one place, and each queue    *)
(* holds it once.                                                          *)
Queue     == <<"queue", 0>>
Pipe      == <<"pipe", 0>>
Hand      == <<"hand", 0>>
Filed     == <<"filed", 0>>
Lost      == <<"lost", 0>>
On(w)     == <<"on", w>>
Buffer(w) == <<"buffer", w>>
Places    == {Queue, Pipe, Hand, Filed, Lost} \cup {On(w) : w \in Slots} \cup {Buffer(w) : w \in Slots}

Located(d, p) ==
    /\ d \in Tasks(taskQ) <=> p = Queue
    /\ d \in Devs(doneQ) <=> p = Pipe
    /\ got.dev = d <=> p = Hand
    /\ Reported(d) <=> p = Filed
    /\ \A w \in Slots : /\ Running(w, d) <=> p = On(w)
                        /\ d \in Devs(wbuf[w]) <=> p = Buffer(w)
    /\ p = Lost => parent = "raised" \/ (crashes > 0 /\ d \in broken)

Mapped == \E loc \in [Devices -> Places] : \A d \in Devices : Located(d, loc[d])

OnceInv ==
    /\ TaskOnce(taskQ) /\ StopsLast(taskQ)
    /\ DevOnce(doneQ)
    /\ \A w \in Slots : DevOnce(wbuf[w])

VerdictInv == OnceInv /\ Mapped

(* The parent has a message in hand only while it checks the workers.      *)
HandInv == parent \in {"start", "get", "done"} => got = NoMsg

LEMMA PlacesDiffer ==
    /\ {Queue, Pipe, Hand, Filed, Lost} \subseteq Places
    /\ \A w \in Slots : On(w) \in Places /\ Buffer(w) \in Places
    /\ Queue # Pipe /\ Queue # Hand /\ Queue # Filed /\ Queue # Lost
    /\ Pipe # Hand /\ Pipe # Filed /\ Pipe # Lost
    /\ Hand # Filed /\ Hand # Lost /\ Filed # Lost
    /\ \A w, v \in Slots : On(w) # Buffer(v)
    /\ \A w \in Slots : /\ On(w) \notin {Queue, Pipe, Hand, Filed, Lost}
                        /\ Buffer(w) \notin {Queue, Pipe, Hand, Filed, Lost}
    /\ \A w, v \in Slots : w # v => On(w) # On(v) /\ Buffer(w) # Buffer(v)
BY DEF Places, Queue, Pipe, Hand, Filed, Lost, On, Buffer

LEMMA PlacesAre ==
  ASSUME NEW p \in Places
  PROVE  \/ p \in {Queue, Pipe, Hand, Filed, Lost}
         \/ \E w \in Slots : p = On(w) \/ p = Buffer(w)
BY DEF Places

(* One device goes to place p, the others stay where they are.             *)
LEMMA OneMoves ==
  ASSUME Mapped, NEW d \in Devices, NEW p \in Places, Located(d, p)',
         \A e \in Devices \ {d} : \A q \in Places : Located(e, q) => Located(e, q)'
  PROVE  Mapped'
<1>1. PICK loc \in [Devices -> Places] : \A e \in Devices : Located(e, loc[e])
  BY DEF Mapped
<1> DEFINE new == [loc EXCEPT ![d] = p]
<1>2. new \in [Devices -> Places]
  OBVIOUS
<1>3. ASSUME NEW e \in Devices PROVE Located(e, new[e])'
  <2>1. CASE e = d
    BY <2>1
  <2>2. CASE e # d
    <3>1. loc[e] \in Places /\ Located(e, loc[e])
      BY <1>1
    <3>2. Located(e, loc[e])'
      BY <2>2, <3>1
    <3> QED
      BY <2>2, <3>2
  <2> QED
    BY <2>1, <2>2
<1> QED
  BY <1>2, <1>3 DEF Mapped

(* Every device of a set goes to place p.                                  *)
LEMMA SomeMove ==
  ASSUME Mapped, NEW p \in Places, NEW Left \in SUBSET Places,
         \A e \in Devices : \A q \in Places :
            Located(e, q) => IF q \in Left THEN Located(e, p)' ELSE Located(e, q)'
  PROVE  Mapped'
<1>1. PICK loc \in [Devices -> Places] : \A e \in Devices : Located(e, loc[e])
  BY DEF Mapped
<1> DEFINE new == [e \in Devices |-> IF loc[e] \in Left THEN p ELSE loc[e]]
<1>2. new \in [Devices -> Places]
  OBVIOUS
<1>3. ASSUME NEW e \in Devices PROVE Located(e, new[e])'
  <2>1. loc[e] \in Places /\ Located(e, loc[e])
    BY <1>1
  <2>2. CASE loc[e] \in Left
    BY <2>1, <2>2
  <2>3. CASE loc[e] \notin Left
    <3>1. Located(e, loc[e])'
      BY <2>1, <2>3
    <3> QED
      BY <2>3, <3>1
  <2> QED
    BY <2>2, <2>3
<1> QED
  BY <1>2, <1>3 DEF Mapped

(* A step after which every device is where it was.                        *)
LEMMA NoneMoves ==
  ASSUME VerdictInv, Tasks(taskQ)' = Tasks(taskQ), TaskOnce(taskQ)', StopsLast(taskQ)',
         UNCHANGED <<doneQ, got, success, fail, wbuf, broken>>,
         crashes > 0 => crashes' > 0, parent # "raised",
         \A v \in Slots : Busy(v)' <=> Busy(v),
         \A v \in Slots : Busy(v) => task'[v] = task[v]
  PROVE  VerdictInv'
<1>1. OnceInv'
  BY DEF VerdictInv, OnceInv
<1>2. ASSUME NEW e \in Devices, NEW q \in Places, Located(e, q) PROVE Located(e, q)'
  BY <1>2 DEF Located, Running, Reported
<1>3. PICK loc \in [Devices -> Places] : \A e \in Devices : Located(e, loc[e])
  BY DEF VerdictInv, Mapped
<1>4. ASSUME NEW e \in Devices PROVE Located(e, loc[e])'
  <2>1. loc[e] \in Places /\ Located(e, loc[e])
    BY <1>3
  <2> QED
    BY <1>2, <2>1
<1>5. Mapped'
  BY <1>4 DEF Mapped
<1> QED
  BY <1>1, <1>5 DEF VerdictInv

LEMMA SomePlace ==
  ASSUME Mapped, NEW d \in Devices
  PROVE  \E q \in Places : Located(d, q)
BY DEF Mapped

(* A worker's step: one device goes from one place to the next.            *)
LEMMA WorkerVerdict ==
  ASSUME EndInv, VerdictInv, NEW w \in Slots, Worker(w) \/ WorkerDies(w)
  PROVE  VerdictInv'
<1> USE PlacesDiffer DEF queueVars, parentVars, history
<1>0. TypeInv /\ OnceInv /\ Mapped
  BY DEF EndInv, VerdictInv
<1>1. parent # "raised"
  BY DEF EndInv, ReapInv, Alive, Busy, Worker, WorkerDies, Acquire, ReceiveTask, ReceiveStop,
     InvokeReturns, InvokeRaises, InvokeNetError, Feed, Exit, Interrupt, Crash
<1>2. /\ wpc \in [Slots -> {"unborn", "wait", "recv", "invoke", "leave", "dead"}]
      /\ task \in [Slots -> Devices \cup {Stop}] /\ wbuf \in [Slots -> MsgSeq]
      /\ taskQ \in TaskSeq /\ doneQ \in MsgSeq /\ crashes \in Nat
      /\ \A v \in Slots : Busy(v) => task[v] \in Devices
  BY <1>0 DEF TypeInv, TypeOK, WorkerTypeOK, QueueTypeOK
<1>3. CASE Acquire(w) \/ InvokeNetError(w) \/ Exit(w)
  <2>1. UNCHANGED <<taskQ, doneQ, got, success, fail, wbuf, broken, crashes>>
    BY <1>3 DEF Acquire, InvokeNetError, Exit
  <2>2. \A v \in Slots : (Busy(v)' <=> Busy(v)) /\ task'[v] = task[v]
    BY <1>2, <1>3 DEF Acquire, InvokeNetError, Exit, Busy
  <2> QED
    BY <1>0, <1>1, <2>1, <2>2, NoneMoves DEF OnceInv
<1>4. CASE ReceiveStop(w)
  <2>1. UNCHANGED <<doneQ, got, success, fail, wbuf, broken, crashes, task>>
    BY <1>4 DEF ReceiveStop
  <2>2. \A v \in Slots : Busy(v)' <=> Busy(v)
    BY <1>2, <1>4 DEF ReceiveStop, Busy
  <2>3. taskQ # <<>> /\ Head(taskQ) = Stop /\ taskQ' = Tail(taskQ)
    BY <1>4 DEF ReceiveStop
  <2>4. TaskOnce(taskQ) /\ StopsLast(taskQ)
    BY <1>0 DEF OnceInv
  <2>5. Tasks(taskQ)' = Tasks(taskQ) /\ TaskOnce(taskQ)' /\ StopsLast(taskQ)'
    <3>1. /\ Tasks(taskQ) = Tasks(Tail(taskQ)) \cup ({Stop} \ {Stop})
          /\ TaskOnce(Tail(taskQ)) /\ StopsLast(Tail(taskQ))
      BY <1>2, <2>3, <2>4, TakeTask
    <3>2. Tasks(taskQ) = Tasks(Tail(taskQ))
      BY <3>1
    <3> QED
      BY <2>3, <3>1, <3>2
  <2> QED
    BY <1>1, <2>1, <2>2, <2>5, NoneMoves
<1>5. CASE ReceiveTask(w)
  <2>1. PICK d \in Devices : d = Head(taskQ)
    BY <1>2, <1>5, TaskSeqFacts DEF ReceiveTask
  <2>2. /\ Tasks(taskQ) = Tasks(taskQ') \cup {d} /\ d \notin Tasks(taskQ')
        /\ TaskOnce(taskQ') /\ StopsLast(taskQ')
    BY <1>0, <1>2, <1>5, <2>1, TakeTask DEF ReceiveTask, OnceInv
  <2>3. UNCHANGED <<doneQ, got, success, fail, wbuf, broken, crashes, parent>>
    BY <1>5 DEF ReceiveTask
  <2>4. /\ ~Busy(w) /\ Busy(w)' /\ task'[w] = d
        /\ \A v \in Slots \ {w} : (Busy(v)' <=> Busy(v)) /\ task'[v] = task[v]
    BY <1>2, <1>5, <2>1 DEF ReceiveTask, Busy
  <2>5. ASSUME NEW e \in Devices \ {d}, NEW q \in Places, Located(e, q) PROVE Located(e, q)'
    BY <2>2, <2>3, <2>4, <2>5 DEF Located, Running, Reported
  <2>6. Located(d, Queue)
    BY <1>0, <2>2, SomePlace DEF Located
  <2>7. Located(d, On(w))'
    BY <2>2, <2>3, <2>4, <2>6 DEF Located, Running, Reported
  <2>8. OnceInv'
    BY <1>0, <2>2, <2>3 DEF OnceInv
  <2> QED
    BY <1>0, <2>5, <2>7, <2>8, OneMoves DEF VerdictInv
<1>6. ASSUME NEW exc \in BOOLEAN, Busy(w), Put(w, exc), broken \subseteq broken' PROVE VerdictInv'
  <2>1. PICK d \in Devices : d = task[w]
    BY <1>2, <1>6
  <2> DEFINE m == [dev |-> d, exc |-> exc]
  <2>2. m \in Message /\ m.dev = d
    BY DEF Message
  <2>3. /\ wbuf'[w] = Append(wbuf[w], m)
        /\ \A v \in Slots \ {w} : wbuf'[v] = wbuf[v]
    BY <1>2, <1>6, <2>1 DEF Put
  <2> HIDE DEF m
  <2>4. UNCHANGED <<taskQ, doneQ, got, success, fail, crashes, parent>>
    BY <1>6 DEF Put
  <2>5. /\ ~Busy(w)'
        /\ \A v \in Slots \ {w} : (Busy(v)' <=> Busy(v)) /\ task'[v] = task[v]
    BY <1>2, <1>6 DEF Put, NextTask, Busy
  <2>6. Located(d, On(w))
    BY <1>0, <1>6, <2>1, SomePlace DEF Located, Running
  <2>7. /\ Devs(wbuf'[w]) = Devs(wbuf[w]) \cup {d}
        /\ DevOnce(wbuf'[w])
    BY <1>0, <1>2, <2>2, <2>3, <2>6, OneMoreMessage DEF OnceInv, Located
  <2>8. ASSUME NEW e \in Devices \ {d}, NEW q \in Places, Located(e, q) PROVE Located(e, q)'
    BY <1>6, <2>1, <2>3, <2>4, <2>5, <2>7, <2>8 DEF Located, Running, Reported
  <2>9. Located(d, Buffer(w))'
    BY <1>6, <2>1, <2>3, <2>4, <2>5, <2>6, <2>7 DEF Located, Running, Reported
  <2>10. OnceInv'
    BY <1>0, <2>3, <2>4, <2>7 DEF OnceInv
  <2> QED
    BY <1>0, <2>8, <2>9, <2>10, OneMoves DEF VerdictInv
<1>7. CASE InvokeReturns(w) \/ InvokeRaises(w)
  BY <1>6, <1>7 DEF InvokeReturns, InvokeRaises
<1>8. CASE Feed(w)
  <2>1. wbuf[w] \in MsgSeq /\ wbuf[w] # <<>>
    BY <1>2, <1>8 DEF Feed
  <2>2. PICK m \in Message : m = Head(wbuf[w])
    BY <2>1, MsgSeqFacts
  <2>3. PICK d \in Devices : d = m.dev
    BY DEF Message
  <2>4. /\ wbuf'[w] = Tail(wbuf[w]) /\ doneQ' = Append(doneQ, m)
        /\ \A v \in Slots \ {w} : wbuf'[v] = wbuf[v]
    BY <1>2, <1>8, <2>2 DEF Feed
  <2>5. UNCHANGED <<taskQ, got, success, fail, crashes, broken, parent, wpc, task>>
    BY <1>8 DEF Feed
  <2>6. /\ Devs(wbuf[w]) = Devs(wbuf'[w]) \cup {d} /\ d \notin Devs(wbuf'[w])
        /\ DevOnce(wbuf'[w])
    BY <1>0, <2>1, <2>2, <2>3, <2>4, TakeMessage DEF OnceInv
  <2>7. Located(d, Buffer(w))
    BY <1>0, <2>6, SomePlace DEF Located
  <2>8. Devs(doneQ') = Devs(doneQ) \cup {d} /\ DevOnce(doneQ')
    BY <1>0, <1>2, <2>3, <2>4, <2>7, OneMoreMessage DEF OnceInv, Located
  <2>9. ASSUME NEW e \in Devices \ {d}, NEW q \in Places, Located(e, q) PROVE Located(e, q)'
    BY <2>4, <2>5, <2>6, <2>8, <2>9 DEF Located, Running, Reported, Busy
  <2>10. Located(d, Pipe)'
    BY <2>4, <2>5, <2>6, <2>7, <2>8 DEF Located, Running, Reported, Busy
  <2>11. OnceInv'
    BY <1>0, <2>4, <2>5, <2>6, <2>8 DEF OnceInv
  <2> QED
    BY <1>0, <2>9, <2>10, <2>11, OneMoves DEF VerdictInv
<1>9. CASE Interrupt(w)
  <2>1. PICK d \in Devices : d = task[w]
    BY <1>2, <1>9 DEF Interrupt
  <2>2. UNCHANGED <<taskQ, doneQ, got, success, fail, wbuf, parent>>
    BY <1>9 DEF Interrupt
  <2>3. crashes' > 0 /\ broken' = broken \cup {d}
    BY <1>2, <1>9, <2>1 DEF Interrupt
  <2>4. /\ Busy(w) /\ ~Busy(w)'
        /\ \A v \in Slots \ {w} : (Busy(v)' <=> Busy(v)) /\ task'[v] = task[v]
    BY <1>2, <1>9 DEF Interrupt, Busy
  <2>5. Located(d, On(w))
    BY <1>0, <2>1, <2>4, SomePlace DEF Located, Running
  <2>6. ASSUME NEW e \in Devices \ {d}, NEW q \in Places, Located(e, q) PROVE Located(e, q)'
    BY <2>1, <2>2, <2>3, <2>4, <2>6 DEF Located, Running, Reported
  <2>7. Located(d, Lost)'
    BY <2>2, <2>3, <2>4, <2>5 DEF Located, Running, Reported
  <2>8. OnceInv'
    BY <1>0, <2>2 DEF OnceInv
  <2> QED
    BY <1>0, <2>6, <2>7, <2>8, OneMoves DEF VerdictInv
<1>10. CASE Crash(w)
  <2>1. UNCHANGED <<taskQ, doneQ, got, success, fail, parent>>
    BY <1>10 DEF Crash
  <2>2. /\ wbuf'[w] = <<>>
        /\ \A v \in Slots \ {w} : wbuf'[v] = wbuf[v]
    BY <1>2, <1>10 DEF Crash
  <2>3. /\ ~Busy(w)'
        /\ \A v \in Slots \ {w} : (Busy(v)' <=> Busy(v)) /\ task'[v] = task[v]
    BY <1>2, <1>10 DEF Crash, Busy
  <2>4. /\ crashes' > 0 /\ broken \subseteq broken'
        /\ \A e \in Devices : Running(w, e) \/ e \in Devs(wbuf[w]) => e \in broken'
    BY <1>2, <1>10 DEF Crash, Running, Devs
  <2>5. ASSUME NEW e \in Devices, NEW q \in Places \ {On(w), Buffer(w)}, Located(e, q)
        PROVE  Located(e, q)'
    BY <2>1, <2>2, <2>3, <2>4, <2>5, NoMessages DEF Located, Running, Reported
  <2>6. ASSUME NEW e \in Devices, NEW q \in {On(w), Buffer(w)}, Located(e, q)
        PROVE  Located(e, Lost)'
    <3>1. e \in broken'
      BY <2>4, <2>6 DEF Located
    <3> QED
      BY <2>1, <2>2, <2>3, <2>4, <2>6, <3>1, NoMessages DEF Located, Running, Reported
  <2>7. PICK Left \in SUBSET Places : Left = {On(w), Buffer(w)}
    OBVIOUS
  <2>8. \A e \in Devices : \A q \in Places :
           Located(e, q) => IF q \in Left THEN Located(e, Lost)' ELSE Located(e, q)'
    BY <2>5, <2>6, <2>7
  <2>9. OnceInv'
    BY <1>0, <2>1, <2>2, NoMessages DEF OnceInv
  <2> QED
    BY <1>0, <2>8, <2>9, SomeMove DEF VerdictInv
<1> QED
  BY <1>3, <1>4, <1>5, <1>7, <1>8, <1>9, <1>10 DEF Worker, WorkerDies

(* The parent's step: it takes a message, files a verdict or gives up.     *)
LEMMA ParentVerdict ==
  ASSUME EndInv, VerdictInv, HandInv, Parent \/ ClockExpires
  PROVE  VerdictInv'
<1> USE PlacesDiffer DEF queueVars, parentVars, history, workerVars
<1>0. TypeInv /\ OnceInv /\ Mapped
  BY DEF EndInv, VerdictInv
<1>1. parent # "raised" /\ Stop \notin Devices
  BY PoolAssumption DEF Parent, ClockExpires, StartWorker, StartWith, GetMessage, GetEmpty, CheckChild,
     CheckNext, Raise, Deliver, DeliverThen, PoolAssumption
<1>2. /\ wpc \in [Slots -> {"unborn", "wait", "recv", "invoke", "leave", "dead"}]
      /\ taskQ \in TaskSeq /\ doneQ \in MsgSeq /\ got \in Message \cup {NoMsg}
  BY <1>0 DEF TypeInv, TypeOK, WorkerTypeOK, QueueTypeOK, ParentTypeOK
<1>3. CASE StartWorker
  <2>1. UNCHANGED <<doneQ, got, success, fail, wbuf, broken, crashes, task>>
    BY <1>3 DEF StartWorker, StartWith, Fresh
  <2>2. started + 1 \in Slots /\ wpc[started + 1] = "unborn"
    BY <1>3, SlotsFacts DEF StartWorker, StartWith, EndInv, TypeInv, TypeOK, ParentTypeOK, ReapInv, Slots
  <2>3. \A v \in Slots : Busy(v)' <=> Busy(v)
    BY <1>2, <1>3, <2>2 DEF StartWorker, StartWith, Fresh, Busy
  <2>4. taskQ' = Append(taskQ, Stop) /\ TaskOnce(taskQ) /\ StopsLast(taskQ)
    BY <1>0, <1>3 DEF StartWorker, StartWith, OnceInv
  <2>5. Tasks(taskQ)' = Tasks(taskQ) /\ TaskOnce(taskQ)' /\ StopsLast(taskQ)'
    BY <1>2, <2>4, OneMoreStop
  <2> QED
    BY <1>1, <2>1, <2>3, <2>5, NoneMoves
<1>4. CASE ClockExpires \/ GetEmpty \/ CheckChild
  <2>1. UNCHANGED <<taskQ, doneQ, got, success, fail, wbuf, broken, crashes, wpc, task>>
    BY <1>4 DEF ClockExpires, GetEmpty, CheckChild, CheckNext, HandInv
  <2>2. TaskOnce(taskQ) /\ StopsLast(taskQ)
    BY <1>0 DEF OnceInv
  <2> QED
    BY <1>1, <2>1, <2>2, NoneMoves DEF Busy
<1>5. CASE GetMessage
  <2>1. PICK m \in Message : m = Head(doneQ)
    BY <1>2, <1>5, MsgSeqFacts DEF GetMessage
  <2>2. PICK d \in Devices : d = m.dev
    BY DEF Message
  <2>3. UNCHANGED <<taskQ, success, fail, wbuf, broken, crashes, wpc, task>>
    BY <1>5 DEF GetMessage
  <2>4. got.dev \notin Devices /\ got'.dev = d
    BY <1>1, <1>5, <2>1, <2>2 DEF GetMessage, HandInv, NoMsg
  <2>5. Devs(doneQ) = Devs(doneQ') \cup {d} /\ d \notin Devs(doneQ') /\ DevOnce(doneQ')
    BY <1>0, <1>2, <1>5, <2>1, <2>2, TakeMessage DEF GetMessage, OnceInv
  <2>6. Located(d, Pipe)
    BY <1>0, <2>5, SomePlace DEF Located
  <2>7. ASSUME NEW e \in Devices \ {d}, NEW q \in Places, Located(e, q) PROVE Located(e, q)'
    BY <1>1, <2>3, <2>4, <2>5, <2>7 DEF Located, Running, Reported, Busy
  <2>8. Located(d, Hand)'
    BY <1>1, <2>3, <2>4, <2>5, <2>6 DEF Located, Running, Reported, Busy
  <2>9. OnceInv'
    BY <1>0, <2>3, <2>5 DEF OnceInv
  <2> QED
    BY <1>0, <2>7, <2>8, <2>9, OneMoves DEF VerdictInv
<1>6. CASE Raise
  <2>1. UNCHANGED <<taskQ, doneQ, got, success, fail, wbuf, broken, crashes>> /\ parent' = "raised"
    BY <1>6 DEF Raise
  <2>2. \A v \in Slots : ~Busy(v)'
    BY <1>6 DEF Raise, Busy
  <2>3. PICK Left \in SUBSET Places : Left = {On(v) : v \in Slots}
    BY DEF Places
  <2>4. ASSUME NEW e \in Devices, NEW q \in Places \ Left, Located(e, q) PROVE Located(e, q)'
    BY <2>1, <2>2, <2>3, <2>4 DEF Located, Running, Reported
  <2>5. ASSUME NEW e \in Devices, NEW q \in Left, Located(e, q) PROVE Located(e, Lost)'
    BY <2>1, <2>2, <2>3, <2>5 DEF Located, Running, Reported
  <2>6. \A e \in Devices : \A q \in Places :
           Located(e, q) => IF q \in Left THEN Located(e, Lost)' ELSE Located(e, q)'
    BY <2>4, <2>5
  <2>7. OnceInv'
    BY <1>0, <2>1 DEF OnceInv
  <2> QED
    BY <1>0, <2>6, <2>7, SomeMove DEF VerdictInv
<1>7. CASE Deliver
  <2>1. UNCHANGED <<taskQ, doneQ, wbuf, task, broken, crashes>> /\ got' = NoMsg /\ parent' # "raised"
    BY <1>7 DEF Deliver, DeliverThen, Fresh
  <2>2. \A v \in Slots : Busy(v)' <=> Busy(v)
    <3>1. \A v \in retired : wpc[v] = "dead"
      BY <1>7 DEF EndInv, DeathInv, Deliver, DeliverThen, Checking
    <3> QED
      BY <1>2, <1>7, <3>1 DEF Deliver, DeliverThen, Fresh, Busy
  <2>3. OnceInv'
    BY <1>0, <2>1 DEF OnceInv
  <2>4. CASE got = NoMsg
    <3>1. UNCHANGED <<got, success, fail>>
      BY <1>7, <2>1, <2>4 DEF Deliver, DeliverThen, Report
    <3>2. TaskOnce(taskQ) /\ StopsLast(taskQ)
      BY <1>0 DEF OnceInv
    <3> QED
      BY <1>1, <2>1, <2>2, <3>1, <3>2, NoneMoves
  <2>5. CASE got # NoMsg
    <3>1. PICK d \in Devices : d = got.dev
      BY <1>2, <2>5 DEF Message
    <3>2. success' \cup fail' = success \cup fail \cup {d}
      BY <1>7, <2>5, <3>1 DEF Deliver, DeliverThen, Report
    <3>3. Located(d, Hand)
      BY <1>0, <3>1, SomePlace DEF Located
    <3>4. got'.dev \notin Devices
      BY <1>1, <2>1 DEF NoMsg
    <3>5. ASSUME NEW e \in Devices \ {d}, NEW q \in Places, Located(e, q) PROVE Located(e, q)'
      BY <1>1, <2>1, <2>2, <3>1, <3>2, <3>4, <3>5 DEF Located, Running, Reported
    <3>6. Located(d, Filed)'
      BY <2>1, <2>2, <3>2, <3>3, <3>4 DEF Located, Running, Reported
    <3> QED
      BY <1>0, <2>3, <3>5, <3>6, OneMoves DEF VerdictInv
  <2> QED
    BY <2>4, <2>5
<1> QED
  BY <1>3, <1>4, <1>5, <1>6, <1>7 DEF Parent

-----------------------------------------------------------------------------
(* Each device gets at most one verdict.                                   *)
EachOnceInv == EndInv /\ VerdictInv /\ HandInv

LEMMA VerdictInit == Init => VerdictInv /\ HandInv
<1> SUFFICES ASSUME Init PROVE VerdictInv /\ HandInv
  OBVIOUS
<1>1. /\ taskQ = DeviceIds /\ doneQ = <<>> /\ got = NoMsg /\ success = {} /\ fail = {}
      /\ \A w \in Slots : wbuf[w] = <<>> /\ ~Busy(w)
  BY DEF Init, Busy
<1>2. Stop \notin Devices /\ \A d \in Devices : d \in Tasks(taskQ)
  BY <1>1, PoolAssumption DEF PoolAssumption, Tasks
<1>3. TaskOnce(taskQ) /\ StopsLast(taskQ)
  <2>1. \A i \in 1..Len(DeviceIds) : DeviceIds[i] \in Devices
    BY PoolAssumption, ElementOfSeq DEF PoolAssumption
  <2> QED
    BY <1>1, <1>2, <2>1, PoolAssumption DEF PoolAssumption, TaskOnce, StopsLast
<1>4. OnceInv
  BY <1>1, <1>3, NoMessages DEF OnceInv
<1>5. \A d \in Devices : Located(d, Queue)
  BY <1>1, <1>2, NoMessages, PlacesDiffer DEF Located, NoMsg, Running, Reported
<1>6. [d \in Devices |-> Queue] \in [Devices -> Places]
  BY PlacesDiffer
<1>7. Mapped
  BY <1>5, <1>6 DEF Mapped
<1> QED
  BY <1>1, <1>4, <1>7 DEF VerdictInv, HandInv

LEMMA HandStep == ASSUME HandInv, [Next]_vars PROVE HandInv'
<1>1. CASE Parent \/ ClockExpires
  BY <1>1 DEF HandInv, Parent, ClockExpires, StartWorker, StartWith, GetMessage, GetEmpty, CheckChild,
     CheckNext, Raise, Deliver, DeliverThen
<1>2. CASE UNCHANGED vars
  BY <1>2 DEF HandInv, vars, parentVars
<1>3. ASSUME NEW w \in Slots, Worker(w) \/ WorkerDies(w) PROVE HandInv'
  BY <1>3 DEF HandInv, Worker, WorkerDies, Acquire, ReceiveTask, ReceiveStop, InvokeReturns, InvokeRaises,
     InvokeNetError, Feed, Exit, Interrupt, Crash, Put, parentVars
<1> QED
  BY <1>1, <1>2, <1>3 DEF Next, WorkerDies, Finished

LEMMA EachOnceStep == ASSUME EachOnceInv, EndInv', [Next]_vars PROVE EachOnceInv'
<1>1. HandInv'
  BY HandStep DEF EachOnceInv
<1>2. CASE UNCHANGED vars
  <2>1. VerdictInv'
    BY <1>2 DEF EachOnceInv, VerdictInv, OnceInv, Mapped, Located, Running, Busy, Reported,
                vars, parentVars, workerVars, queueVars, history
  <2> QED
    BY <1>1, <2>1 DEF EachOnceInv
<1> QED
  BY <1>1, <1>2, WorkerVerdict, ParentVerdict DEF EachOnceInv, Next, WorkerDies, Finished

LEMMA EachOnceAlways == Spec => []EachOnceInv
<1>1. Init /\ EndInv => EachOnceInv
  BY VerdictInit DEF EachOnceInv
<1>2. EachOnceInv /\ EndInv' /\ [Next]_vars => EachOnceInv'
  BY EachOnceStep
<1> QED
  BY <1>1, <1>2, EndAlways, PTL DEF Spec

(* A step of the pool is a step of the run its callers see, or none.       *)
LEMMA RunStep == ASSUME EachOnceInv, [Next]_vars PROVE [Run!Next]_(Run!rvars)
<1> USE DEF Run!rvars, RunStatus, Ended
<1>1. ASSUME UNCHANGED <<parent, success, fail>> PROVE [Run!Next]_(Run!rvars)
  BY <1>1
<1>2. ASSUME NEW w \in Slots, Worker(w) \/ WorkerDies(w) PROVE [Run!Next]_(Run!rvars)
  BY <1>1, <1>2 DEF Worker, WorkerDies, Acquire, ReceiveTask, ReceiveStop, InvokeReturns, InvokeRaises,
     InvokeNetError, Feed, Exit, Interrupt, Crash, Put, parentVars
<1>3. CASE StartWorker \/ ClockExpires \/ GetMessage \/ GetEmpty \/ CheckChild
  BY <1>3 DEF StartWorker, StartWith, ClockExpires, GetMessage, GetEmpty, CheckChild, CheckNext
<1>4. CASE Raise
  BY <1>4 DEF Raise, Run!Next, Run!Abort
<1>5. CASE Deliver
  <2>1. RunStatus = "running" /\ RunStatus' \in {"running", "done"}
    BY <1>5 DEF Deliver, DeliverThen
  <2>2. Run!Collect
    <3>1. CASE got = NoMsg
      BY <1>5, <3>1 DEF Deliver, DeliverThen, Report, Run!Collect
    <3>2. CASE got # NoMsg
      <4>1. PICK d \in Devices : d = got.dev
        BY <3>2 DEF EachOnceInv, EndInv, TypeInv, TypeOK, ParentTypeOK, Message
      <4>2. d \notin success \cup fail
        BY <4>1, SomePlace, PlacesDiffer DEF EachOnceInv, VerdictInv, Located, Reported
      <4> QED
        BY <1>5, <3>2, <4>1, <4>2 DEF Deliver, DeliverThen, Report, Run!Collect, Run!Verdict
    <3> QED
      BY <3>1, <3>2
  <2> QED
    BY <2>1, <2>2 DEF Run!Next, Run!Progress, Run!Return
<1>6. CASE UNCHANGED vars
  BY <1>1, <1>6 DEF vars, parentVars
<1> QED
  BY <1>2, <1>3, <1>4, <1>5, <1>6 DEF Next, Parent, WorkerDies, Finished

(* The pool is a run as its callers know it: a device gets at most one     *)
(* verdict, whatever dies, retires or is restarted on the way.             *)
THEOREM VerdictsOnce == Spec => RunPromise
<1>1. Init => Run!Init
  BY DEF Init, Run!Init, RunStatus, Ended
<1>2. EachOnceInv /\ [Next]_vars => [Run!Next]_(Run!rvars)
  BY RunStep
<1> QED
  BY <1>1, <1>2, EachOnceAlways, PTL DEF Spec, RunPromise, Run!Spec

-----------------------------------------------------------------------------
(* A raise is always justified.                                            *)

(* A failed task was a device's; a worker with a failure code died; so did *)
(* every worker the parent found failed.                                   *)
BlameInv ==
    /\ BadIn(doneQ) \/ got.exc \/ (\E w \in Slots : BadIn(wbuf[w])) => broken # {}
    /\ parent # "raised" => \A w \in Slots : exitcode[w] = Failure => crashes > 0
    /\ parent # "raised" /\ failed # {} => crashes > 0
    /\ RaiseIsJustified

LEMMA WorkerBlame ==
  ASSUME EndInv, BlameInv, NEW w \in Slots, Worker(w) \/ WorkerDies(w)
  PROVE  BlameInv'
<1> USE DEF queueVars, parentVars, history
<1>0. /\ wpc \in [Slots -> {"unborn", "wait", "recv", "invoke", "leave", "dead"}]
      /\ exitcode \in [Slots -> {Ok, Retired, Failure}]
      /\ task \in [Slots -> Devices \cup {Stop}] /\ wbuf \in [Slots -> MsgSeq]
      /\ doneQ \in MsgSeq /\ crashes \in Nat
      /\ \A v \in Slots : Busy(v) => task[v] \in Devices
  BY DEF EndInv, TypeInv, TypeOK, WorkerTypeOK, QueueTypeOK
<1>1. UNCHANGED parentVars /\ parent # "raised"
  BY DEF EndInv, ReapInv, Alive, Busy, Worker, WorkerDies, Acquire, ReceiveTask, ReceiveStop,
     InvokeReturns, InvokeRaises, InvokeNetError, Feed, Exit, Interrupt, Crash, Put
<1>2. /\ crashes > 0 => crashes' > 0
      /\ broken \subseteq broken'
      /\ \A v \in Slots : exitcode'[v] = Failure => exitcode[v] = Failure \/ crashes' > 0
  BY <1>0 DEF Worker, WorkerDies, Acquire, ReceiveTask, ReceiveStop, InvokeReturns, InvokeRaises,
     InvokeNetError, Feed, Exit, Interrupt, Crash, Put, NextTask, Ok, Retired, Failure
<1>3. BadIn(doneQ') \/ (\E v \in Slots : BadIn(wbuf'[v])) => broken' # {}
  <2>1. CASE UNCHANGED <<doneQ, wbuf>>
    BY <1>2, <2>1 DEF BlameInv
  <2>2. CASE InvokeReturns(w) \/ InvokeRaises(w)
    <3>1. PICK exc \in BOOLEAN : Put(w, exc) /\ (exc => broken' # {}) /\ Busy(w)
      BY <2>2 DEF InvokeReturns, InvokeRaises
    <3> DEFINE m == [dev |-> task[w], exc |-> exc]
    <3>2. m \in Message /\ m.exc = exc
      BY <1>0, <3>1 DEF Message
    <3>3. /\ wbuf'[w] = Append(wbuf[w], m) /\ doneQ' = doneQ
          /\ \A v \in Slots \ {w} : wbuf'[v] = wbuf[v]
      BY <1>0, <3>1 DEF Put
    <3> HIDE DEF m
    <3>4. wbuf[w] \in MsgSeq
      BY <1>0
    <3>5. BadIn(wbuf'[w]) => BadIn(wbuf[w]) \/ exc
      BY <3>2, <3>3, <3>4, OneMoreMessage
    <3> QED
      BY <1>2, <3>1, <3>3, <3>5 DEF BlameInv
  <2>3. CASE Feed(w)
    <3>1. wbuf[w] \in MsgSeq /\ wbuf[w] # <<>>
      BY <1>0, <2>3 DEF Feed
    <3>2. PICK m \in Message : m = Head(wbuf[w])
      BY <3>1, MsgSeqFacts
    <3>3. /\ wbuf'[w] = Tail(wbuf[w]) /\ doneQ' = Append(doneQ, m)
          /\ \A v \in Slots \ {w} : wbuf'[v] = wbuf[v]
      BY <1>0, <2>3, <3>2 DEF Feed
    <3>4. BadIn(wbuf'[w]) \/ m.exc => BadIn(wbuf[w])
      BY <3>1, <3>2, <3>3, TakeMessage
    <3>5. BadIn(doneQ') => BadIn(doneQ) \/ m.exc
      BY <1>0, <3>3, OneMoreMessage
    <3> QED
      BY <1>2, <3>3, <3>4, <3>5 DEF BlameInv
  <2>4. CASE Crash(w)
    <3>1. doneQ' = doneQ /\ wbuf'[w] = <<>> /\ \A v \in Slots \ {w} : wbuf'[v] = wbuf[v]
      BY <1>0, <2>4 DEF Crash
    <3> QED
      BY <1>2, <3>1, NoMessages DEF BlameInv
  <2> QED
    BY <2>1, <2>2, <2>3, <2>4 DEF Worker, WorkerDies, Acquire, ReceiveTask, ReceiveStop,
       InvokeNetError, Exit, Interrupt
<1>4. crashes > 0 => crashes' > 0
  BY <1>2
<1>5. UNCHANGED <<parent, got, failed>> /\ parent' # "raised"
  BY <1>1
<1>6. BadIn(doneQ)' \/ got'.exc \/ (\E v \in Slots : BadIn(wbuf[v])') => broken' # {}
  BY <1>2, <1>3, <1>5 DEF BlameInv
<1>7. \A v \in Slots : exitcode'[v] = Failure => crashes' > 0
  BY <1>1, <1>2, <1>4 DEF BlameInv
<1> QED
  BY <1>1, <1>4, <1>5, <1>6, <1>7 DEF BlameInv, RaiseIsJustified

LEMMA ParentBlame ==
  ASSUME EndInv, BlameInv, Parent \/ ClockExpires
  PROVE  BlameInv'
<1> USE DEF queueVars, history, workerVars
<1>0. /\ exitcode \in [Slots -> {Ok, Retired, Failure}]
      /\ doneQ \in MsgSeq /\ crashes \in Nat /\ parent # "raised"
  BY DEF EndInv, TypeInv, TypeOK, WorkerTypeOK, QueueTypeOK, Parent, ClockExpires, StartWorker, StartWith,
     GetMessage, GetEmpty, CheckChild, CheckNext, Raise, Deliver, DeliverThen
<1>1. ASSUME NEW W, Fresh(W) PROVE \A v \in Slots : exitcode'[v] = Failure => exitcode[v] = Failure
  BY <1>1 DEF Fresh, Ok, Failure
<1>2. CASE StartWorker
  BY <1>1, <1>2 DEF StartWorker, StartWith, Fresh, BlameInv, RaiseIsJustified
<1>3. CASE ClockExpires
  BY <1>3 DEF ClockExpires, BlameInv, RaiseIsJustified
<1>4. CASE GetMessage
  <2>1. PICK m \in Message : m = Head(doneQ)
    BY <1>0, <1>4, MsgSeqFacts DEF GetMessage
  <2>2. BadIn(doneQ') \/ got'.exc => BadIn(doneQ)
    BY <1>0, <1>4, <2>1, TakeMessage DEF GetMessage
  <2> QED
    BY <1>4, <2>2 DEF GetMessage, BlameInv, RaiseIsJustified
<1>5. CASE GetEmpty
  BY <1>5 DEF GetEmpty, BlameInv, RaiseIsJustified, NoMsg
<1>6. CASE CheckChild
  <2>1. failed' # {} => failed # {} \/ \E w \in Slots : exitcode[w] = Failure
    BY <1>6 DEF CheckChild, CheckNext, EndInv, TypeInv, TypeOK, ParentTypeOK
  <2>2. parent' # "raised" /\ UNCHANGED <<got, doneQ, wbuf, exitcode, crashes, broken>>
    BY <1>6 DEF CheckChild, CheckNext
  <2> QED
    BY <1>0, <2>1, <2>2 DEF BlameInv, RaiseIsJustified
<1>7. CASE Raise
  <2>1. silent \/ (~TolerateFails /\ (broken # {} \/ crashes > 0))
    BY <1>0, <1>7 DEF Raise, MustRaise, BlameInv
  <2> QED
    BY <1>7, <2>1 DEF Raise, BlameInv, RaiseIsJustified
<1>8. CASE Deliver
  <2>1. /\ UNCHANGED <<doneQ, wbuf, failed, broken, crashes>> /\ got' = NoMsg /\ parent' # "raised"
        /\ \A v \in Slots : exitcode'[v] = Failure => exitcode[v] = Failure
    BY <1>1, <1>8 DEF Deliver, DeliverThen, Fresh
  <2> QED
    BY <1>0, <2>1 DEF BlameInv, RaiseIsJustified, NoMsg
<1> QED
  BY <1>2, <1>3, <1>4, <1>5, <1>6, <1>7, <1>8 DEF Parent

LEMMA BlameAlways == Spec => []BlameInv
<1>1. Init => BlameInv
  BY NoMessages DEF Init, BlameInv, RaiseIsJustified, NoMsg, Ok, Failure
<1>2. EndInv /\ BlameInv /\ [Next]_vars => BlameInv'
  <2> SUFFICES ASSUME EndInv, BlameInv, [Next]_vars PROVE BlameInv'
    OBVIOUS
  <2>1. CASE UNCHANGED vars
    BY <2>1 DEF BlameInv, RaiseIsJustified, vars, parentVars, workerVars, queueVars, history
  <2> QED
    BY <2>1, WorkerBlame, ParentBlame DEF Next, WorkerDies, Finished
<1> QED
  BY <1>1, <1>2, EndAlways, PTL DEF Spec

(* irun never raises for nothing: with tolerate_fails only because of the  *)
(* timeout, without it because a task failed or a worker died.             *)
THEOREM RaisesAreJust == Spec => []RaiseIsJustified
BY BlameAlways, PTL DEF BlameInv

-----------------------------------------------------------------------------
(* No device vanishes.                                                     *)
FailedOnes == {w \in Slots : exitcode[w] = Failure}

(* A dead worker left no message behind; a worker out of the pool did not  *)
(* retire; each failure code cost a death; and a worker ends normally only *)
(* when no device is queued any more.                                      *)
LastInv ==
    /\ parent # "raised" => /\ \A w \in Slots : ~Alive(w) => wbuf[w] = <<>>
                            /\ \A w \in Slots \ pool : wpc[w] = "dead" => exitcode[w] # Retired
                            /\ Cardinality(FailedOnes) <= crashes
    /\ \A w \in Slots : wpc[w] \in {"leave", "dead"} /\ exitcode[w] = Ok => Tasks(taskQ) = {}

LEMMA FailedFacts ==
  /\ IsFiniteSet(Slots) /\ Cardinality(Slots) = PoolSize
  /\ \A W \in SUBSET Slots : IsFiniteSet(W) /\ Cardinality(W) \in Nat
  /\ \A W, V \in SUBSET Slots : W \subseteq V => Cardinality(W) <= Cardinality(V)
  /\ \A W \in SUBSET Slots : \A w \in Slots : Cardinality(W \cup {w}) <= Cardinality(W) + 1
<1>1. IsFiniteSet(Slots) /\ Cardinality(Slots) = PoolSize
  BY SlotsFacts, FS_Interval DEF Slots
<1>2. \A W \in SUBSET Slots : IsFiniteSet(W) /\ Cardinality(W) \in Nat
  BY <1>1, FS_Subset, FS_CardinalityType
<1>3. \A W, V \in SUBSET Slots : W \subseteq V => Cardinality(W) <= Cardinality(V)
  BY <1>2, FS_Subset
<1>4. ASSUME NEW W \in SUBSET Slots, NEW w \in Slots
      PROVE  Cardinality(W \cup {w}) <= Cardinality(W) + 1
  BY <1>2, FS_AddElement
<1> QED
  BY <1>1, <1>2, <1>3, <1>4

LEMMA WorkerLast ==
  ASSUME EachOnceInv, LastInv, NEW w \in Slots, Worker(w) \/ WorkerDies(w)
  PROVE  LastInv'
<1> USE DEF queueVars, parentVars, history
<1>0. /\ wpc \in [Slots -> {"unborn", "wait", "recv", "invoke", "leave", "dead"}]
      /\ exitcode \in [Slots -> {Ok, Retired, Failure}]
      /\ wbuf \in [Slots -> MsgSeq] /\ taskQ \in TaskSeq /\ crashes \in Nat
  BY DEF EachOnceInv, EndInv, TypeInv, TypeOK, WorkerTypeOK, QueueTypeOK
<1>1. UNCHANGED <<parent, pool>> /\ parent # "raised" /\ w \in pool
  BY DEF EachOnceInv, EndInv, ReapInv, Alive, Busy, Worker, WorkerDies, Acquire, ReceiveTask, ReceiveStop,
     InvokeReturns, InvokeRaises, InvokeNetError, Feed, Exit, Interrupt, Crash, Put
<1>2. \A v \in Slots \ {w} : wpc'[v] = wpc[v] /\ exitcode'[v] = exitcode[v] /\ wbuf'[v] = wbuf[v]
  BY <1>0 DEF Worker, WorkerDies, Acquire, ReceiveTask, ReceiveStop, InvokeReturns, InvokeRaises,
     InvokeNetError, Feed, Exit, Interrupt, Crash, Put, NextTask
<1>3. ~Alive(w)' => wbuf'[w] = <<>>
  BY <1>0 DEF Alive, Busy, Worker, WorkerDies, Acquire, ReceiveTask, ReceiveStop, InvokeReturns,
     InvokeRaises, InvokeNetError, Feed, Exit, Interrupt, Crash, Put, NextTask
<1>4. Cardinality(FailedOnes)' <= crashes'
  <2>1. FailedOnes \in SUBSET Slots /\ FailedOnes' \in SUBSET Slots /\ Cardinality(FailedOnes) <= crashes
    BY <1>1 DEF FailedOnes, LastInv
  <2>2. CASE Worker(w)
    <3>1. crashes' = crashes /\ (exitcode'[w] = Failure => exitcode[w] = Failure)
      BY <1>0, <2>2 DEF Worker, Acquire, ReceiveTask, ReceiveStop, InvokeReturns, InvokeRaises,
         InvokeNetError, Feed, Exit, Put, NextTask, Ok, Retired, Failure
    <3>2. FailedOnes' \subseteq FailedOnes
      BY <1>2, <3>1 DEF FailedOnes
    <3>3. Cardinality(FailedOnes') <= Cardinality(FailedOnes)
      BY <2>1, <3>2, FailedFacts
    <3> QED
      BY <1>0, <2>1, <3>1, <3>3, FailedFacts
  <2>3. CASE WorkerDies(w)
    <3>1. crashes' = crashes + 1
      BY <2>3 DEF WorkerDies, Interrupt, Crash
    <3>2. FailedOnes' \subseteq FailedOnes \cup {w}
      BY <1>2 DEF FailedOnes
    <3>3. /\ Cardinality(FailedOnes') <= Cardinality(FailedOnes \cup {w})
          /\ Cardinality(FailedOnes \cup {w}) <= Cardinality(FailedOnes) + 1
      BY <2>1, <3>2, FailedFacts
    <3>4. /\ Cardinality(FailedOnes') \in Nat /\ Cardinality(FailedOnes) \in Nat
          /\ Cardinality(FailedOnes \cup {w}) \in Nat
      BY <2>1, FailedFacts
    <3> QED
      BY <1>0, <2>1, <3>1, <3>3, <3>4
  <2> QED
    BY <2>2, <2>3
<1>5. \A v \in Slots : wpc'[v] \in {"leave", "dead"} /\ exitcode'[v] = Ok => Tasks(taskQ') = {}
  <2>1. Tasks(taskQ') \subseteq Tasks(taskQ)
    <3>1. taskQ' = taskQ \/ (taskQ # <<>> /\ taskQ' = Tail(taskQ))
      BY DEF Worker, WorkerDies, Acquire, ReceiveTask, ReceiveStop, InvokeReturns, InvokeRaises,
         InvokeNetError, Feed, Exit, Interrupt, Crash, Put
    <3>2. taskQ # <<>> => Tasks(Tail(taskQ)) \subseteq Tasks(taskQ)
      BY <1>0, TakeTask
    <3> QED
      BY <3>1, <3>2
  <2>2. CASE ReceiveStop(w)
    <3>1. taskQ # <<>> /\ Head(taskQ) = Stop /\ StopsLast(taskQ)
      BY <2>2 DEF ReceiveStop, EachOnceInv, VerdictInv, OnceInv
    <3>2. Tasks(taskQ) = {}
      BY <1>0, <3>1, TakeTask
    <3> QED
      BY <2>1, <3>2
  <2>3. CASE ~ReceiveStop(w)
    <3>1. wpc'[w] \in {"leave", "dead"} /\ exitcode'[w] = Ok => wpc[w] = "leave" /\ exitcode[w] = Ok
      BY <1>0, <2>3 DEF Busy, Alive, Worker, WorkerDies, Acquire, ReceiveTask, InvokeReturns, InvokeRaises,
         InvokeNetError, Feed, Exit, Interrupt, Crash, Put, NextTask, Ok, Retired, Failure
    <3> QED
      BY <1>2, <2>1, <3>1 DEF LastInv
  <2> QED
    BY <2>2, <2>3
<1>6. /\ \A v \in Slots : ~Alive(v)' => wbuf'[v] = <<>>
      /\ \A v \in Slots \ pool : wpc'[v] = "dead" => exitcode'[v] # Retired
  BY <1>1, <1>2, <1>3 DEF LastInv, Alive
<1> QED
  BY <1>1, <1>4, <1>5, <1>6 DEF LastInv

LEMMA ParentLast ==
  ASSUME EachOnceInv, LastInv, Parent \/ ClockExpires
  PROVE  LastInv'
<1> USE DEF queueVars, history, workerVars
<1>0. /\ wpc \in [Slots -> {"unborn", "wait", "recv", "invoke", "leave", "dead"}]
      /\ exitcode \in [Slots -> {Ok, Retired, Failure}]
      /\ taskQ \in TaskSeq /\ crashes \in Nat /\ parent # "raised"
  BY DEF EachOnceInv, EndInv, TypeInv, TypeOK, WorkerTypeOK, QueueTypeOK, Parent, ClockExpires,
     StartWorker, StartWith, GetMessage, GetEmpty, CheckChild, CheckNext, Raise, Deliver, DeliverThen
<1>1. FailedOnes \in SUBSET Slots /\ FailedOnes' \in SUBSET Slots /\ Cardinality(FailedOnes) <= crashes
  BY <1>0 DEF FailedOnes, LastInv
<1>2. ASSUME crashes' = crashes, \A v \in Slots : exitcode'[v] = Failure => exitcode[v] = Failure
      PROVE  Cardinality(FailedOnes') <= crashes'
  <2>1. FailedOnes' \subseteq FailedOnes
    BY <1>2 DEF FailedOnes
  <2>2. Cardinality(FailedOnes') <= Cardinality(FailedOnes)
    BY <1>1, <2>1, FailedFacts
  <2>3. Cardinality(FailedOnes') \in Nat /\ Cardinality(FailedOnes) \in Nat
    BY <1>1, FailedFacts
  <2> QED
    BY <1>0, <1>1, <1>2, <2>2, <2>3
<1>3. CASE StartWorker
  <2> DEFINE n == started + 1
  <2>1. n \in Slots /\ wpc[n] = "unborn"
    BY <1>3, SlotsFacts DEF StartWorker, StartWith, EachOnceInv, EndInv, TypeInv, TypeOK, ParentTypeOK,
       ReapInv, Slots
  <2>2. /\ \A v \in Slots \ {n} : wpc'[v] = wpc[v] /\ exitcode'[v] = exitcode[v]
        /\ wpc'[n] = "wait" /\ exitcode'[n] = Ok /\ wbuf' = wbuf /\ crashes' = crashes
        /\ pool' = pool \cup {n} /\ taskQ' = Append(taskQ, Stop)
    BY <1>3, <2>1 DEF StartWorker, StartWith, Fresh
  <2>3. Tasks(taskQ') = Tasks(taskQ)
    BY <1>0, <2>2, OneMoreStop
  <2>4. Cardinality(FailedOnes)' <= crashes'
    BY <1>2, <2>2 DEF Ok, Failure
  <2> QED
    BY <1>0, <2>1, <2>2, <2>3, <2>4 DEF LastInv, Alive
<1>4. CASE ClockExpires \/ GetMessage \/ GetEmpty
  <2>1. UNCHANGED <<taskQ, pool, wpc, exitcode, wbuf, crashes>>
    BY <1>4 DEF ClockExpires, GetMessage, GetEmpty
  <2> QED
    BY <1>0, <2>1 DEF LastInv, Alive, FailedOnes
<1>5. CASE CheckChild
  <2>1. UNCHANGED <<taskQ, wpc, exitcode, wbuf, crashes>>
    BY <1>5 DEF CheckChild, CheckNext
  <2>2. \A v \in pool \ pool' : exitcode[v] # Retired
    BY <1>5 DEF CheckChild, CheckNext
  <2> QED
    BY <1>0, <2>1, <2>2 DEF LastInv, Alive, FailedOnes
<1>6. CASE Raise
  <2>1. /\ parent' = "raised" /\ taskQ' = taskQ
        /\ \A v \in Slots : exitcode'[v] = Ok => ~Alive(v) /\ exitcode[v] = Ok
    BY <1>0, <1>6 DEF Raise, Ok, Failure
  <2>2. \A v \in Slots : wpc[v] # "unborn"
    BY <1>6, SlotsFacts DEF Raise, EachOnceInv, EndInv, ReapInv, Slots
  <2> QED
    BY <1>0, <2>1, <2>2 DEF LastInv, Alive
<1>7. CASE Deliver
  <2>1. \A v \in Slots :
           \/ wpc'[v] = wpc[v] /\ exitcode'[v] = exitcode[v]
           \/ v \in retired /\ wpc'[v] = "wait" /\ exitcode'[v] = Ok
    <3>1. UNCHANGED workerVars \/ Fresh(retired)
      BY <1>7 DEF Deliver, DeliverThen
    <3>2. CASE UNCHANGED workerVars
      BY <3>2
    <3>3. CASE Fresh(retired)
      BY <3>3 DEF Fresh
    <3> QED
      BY <3>1, <3>2, <3>3
  <2>2. UNCHANGED <<taskQ, pool, wbuf, crashes>>
    BY <1>7 DEF Deliver, DeliverThen, Fresh
  <2>3. Cardinality(FailedOnes)' <= crashes'
    BY <1>2, <2>1, <2>2 DEF Ok, Failure
  <2> QED
    BY <1>0, <2>1, <2>2, <2>3 DEF LastInv, Alive
<1> QED
  BY <1>3, <1>4, <1>5, <1>6, <1>7 DEF Parent

LEMMA LastAlways == Spec => []LastInv
<1>1. Init => LastInv
  <2> SUFFICES ASSUME Init PROVE LastInv
    OBVIOUS
  <2>1. FailedOnes = {} /\ crashes = 0
    BY DEF Init, FailedOnes, Ok, Failure
  <2>2. Cardinality(FailedOnes) <= crashes
    BY <2>1, FS_EmptySet
  <2> QED
    BY <2>2 DEF Init, LastInv
<1>2. EachOnceInv /\ LastInv /\ [Next]_vars => LastInv'
  <2> SUFFICES ASSUME EachOnceInv, LastInv, [Next]_vars PROVE LastInv'
    OBVIOUS
  <2>1. CASE UNCHANGED vars
    BY <2>1 DEF LastInv, Alive, FailedOnes, vars, parentVars, workerVars, queueVars, history
  <2> QED
    BY <2>1, WorkerLast, ParentLast DEF Next, WorkerDies, Finished
<1> QED
  BY <1>1, <1>2, EachOnceAlways, PTL DEF Spec

LEMMA StillHeld ==
  ASSUME EachOnceInv, parent # "raised", NEW d \in Devices
  PROVE  Held(d) \/ (crashes > 0 /\ d \in broken)
<1>1. PICK p \in Places : Located(d, p)
  BY SomePlace DEF EachOnceInv, VerdictInv
<1>2. (d \in Tasks(taskQ) => Queued(d)) /\ (d \in Devs(doneQ) => Sent(d))
  BY DEF Tasks, Devs, Queued, Sent
<1>3. \A w \in Slots : d \in Devs(wbuf[w]) => Buffered(w, d)
  BY DEF Devs, Buffered
<1> QED
  BY <1>1, <1>2, <1>3, PlacesAre DEF Located, Held

LEMMA AllDied ==
  ASSUME EachOnceInv, LastInv, parent = "done", NEW d \in Devices, Queued(d)
  PROVE  crashes >= PoolSize
<1>1. d \in Tasks(taskQ)
  BY PoolAssumption DEF Queued, Tasks, PoolAssumption
<1>2. \A w \in Slots : wpc[w] = "dead" /\ exitcode[w] # Retired /\ exitcode[w] # Ok
  BY <1>1, SlotsFacts DEF EachOnceInv, EndInv, ReapInv, LastInv, TypeInv, TypeOK, WorkerTypeOK, Alive, Slots
<1>3. FailedOnes = Slots
  BY <1>2 DEF FailedOnes, EachOnceInv, EndInv, TypeInv, TypeOK, WorkerTypeOK
<1>4. PoolSize <= crashes /\ crashes \in Nat
  BY <1>3, FailedFacts DEF LastInv, EachOnceInv, EndInv, TypeInv, TypeOK
<1> QED
  BY <1>4, SlotsFacts

(* No device disappears but with the worker that had it, and none stays in *)
(* the task queue unless every worker died.                                *)
THEOREM NothingIsLost == Spec => []NothingVanishes
<1>1. EachOnceInv /\ LastInv => NothingVanishes
  <2> SUFFICES ASSUME EachOnceInv, LastInv PROVE NothingVanishes
    OBVIOUS
  <2>1. ASSUME parent # "raised", NEW d \in Devices PROVE Held(d) \/ d \in broken
    BY <2>1, StillHeld
  <2>2. ASSUME parent = "done", NEW d \in Devices PROVE Reported(d) \/ Sent(d) \/ LostToDeath(d)
    <3>1. Held(d) \/ (crashes > 0 /\ d \in broken)
      BY <2>2, StillHeld
    <3>2. Stop \notin Devices /\ got = NoMsg
      BY <2>2, PoolAssumption DEF PoolAssumption, EachOnceInv, HandInv
    <3>3. \A w \in Slots : ~Alive(w)
      BY <2>2 DEF EachOnceInv, EndInv, ReapInv
    <3>4. \A w \in Slots : ~Running(w, d) /\ wbuf[w] = <<>>
      BY <2>2, <3>3 DEF LastInv, Alive, Running, Busy
    <3>5. \A w \in Slots : ~Buffered(w, d)
      BY <3>4, SlotsFacts DEF Buffered
    <3>6. Queued(d) => LostToDeath(d)
      BY <2>2, AllDied DEF LostToDeath
    <3> QED
      BY <3>1, <3>2, <3>4, <3>5, <3>6 DEF Held, LostToDeath, NoMsg
  <2> QED
    BY <2>1, <2>2 DEF NothingVanishes
<1> QED
  BY <1>1, EachOnceAlways, LastAlways, PTL
=============================================================================
