--------------------------- MODULE IngestorProofs ---------------------------
(***************************************************************************)
(* For any workers and any number of messages, stop requests and faults:   *)
(* the ingestor runs a task in at most one place, it implements the status *)
(* machine of IngestionTask, and it forgets no created task.  IInv adds to *)
(* the first two what the steps of the API need: a request in progress is  *)
(* about a task that exists.  The third rests on NewestWaits: the newest   *)
(* message waits, no earlier run of the task can acknowledge it, and every *)
(* delivery it lost was lost to a fault.                                   *)
(***************************************************************************)
EXTENDS Ingestor, TLAPS

-----------------------------------------------------------------------------
(* What the steps of a worker leave alone.                                 *)

\* A worker that goes on with its task stays the only holder of it.
LEMMA GoOn ==
    ASSUME TypeOK, OneWorkerPerTask, NEW w \in Workers,
           wpc[w] \notin {"idle", "off"},
           NEW pc \in WorkerPc \ {"idle", "off"}, Goto(w, pc),
           UNCHANGED <<claimed, queued, cpc>>
    PROVE  OneWorkerPerTask' /\ wpc' \in [Workers -> WorkerPc]
<1>1. wpc \in [Workers -> WorkerPc]
  BY DEF TypeOK
<1>2. wpc' \in [Workers -> WorkerPc]
  BY <1>1 DEF Goto
<1>3. \A v \in Workers : wpc'[v] \notin {"idle", "off"}
                            <=> wpc[v] \notin {"idle", "off"}
  BY <1>1 DEF Goto
<1> QED
  BY <1>2, <1>3 DEF OneWorkerPerTask

\* The variables that GoOn and UNCHANGED leave to be typed.
LEMMA GoOnTypes ==
    ASSUME IInv, NEW w \in Workers, wpc[w] \notin {"idle", "off"},
           NEW pc \in WorkerPc \ {"idle", "off"}, Goto(w, pc),
           UNCHANGED <<deliveries, apiVars, up, consVars, claimed, queued, wmsg>>,
           status' \in T!TaskStatus, flag' \in BOOLEAN,
           msg' \in [Msgs -> MsgState], faults' \in 0..MaxFaults,
           cancelled' \in [Workers -> BOOLEAN], fresh' \in [Workers -> BOOLEAN],
           status # "none" => status' # "none"
    PROVE  IInv'
<1> USE DEF IInv
<1>1. wpc' \in [Workers -> WorkerPc] /\ OneWorkerPerTask'
  BY GoOn DEF consVars
<1>2. \A v \in Workers : wpc'[v] \notin {"idle", "off"}
                            => wpc[v] \notin {"idle", "off"}
  BY DEF Goto, TypeOK
<1>3. TypeOK'
  BY <1>1, <1>2 DEF TypeOK, apiVars, consVars
<1>4. RequestsKnown'
  BY DEF RequestsKnown, apiVars
<1> QED
  BY <1>1, <1>3, <1>4

\* Fault keeps its counter within its bound.
LEMMA FaultType == ASSUME TypeOK, Fault PROVE faults' \in 0..MaxFaults
  BY IngestorAssumption DEF TypeOK, Fault

\* The broker's answers.
LEMMA MsgTypes ==
    ASSUME TypeOK, NEW m \in Msgs
    PROVE  /\ Acked(m) \in [Msgs -> MsgState]
           /\ Nacked(m) \in [Msgs -> MsgState]
  BY DEF TypeOK, Acked, Nacked, MsgState

-----------------------------------------------------------------------------
(* Every step keeps IInv and moves the status as IngestionTask allows.     *)

\* The two results of every lemma below.
Good == IInv' /\ (T!Next \/ status' = status)

\* Steps that leave the process alone only have the row, the broker and the
\* requests to type.
LEMMA Outside ==
    ASSUME IInv, UNCHANGED <<up, consVars, claimed, queued, workVars>>,
           status' \in T!TaskStatus, flag' \in BOOLEAN,
           msg' \in [Msgs -> MsgState], faults' \in 0..MaxFaults,
           deliveries' = deliveries, lost' \in BOOLEAN,
           pub' \in {"no", "new", "FAILED", "STOPPED"},
           setting' \in BOOLEAN, removing' \in BOOLEAN, stops' \in 0..MaxStops,
           RequestsKnown'
    PROVE  IInv'
  BY DEF IInv, TypeOK, OneWorkerPerTask, consVars, workVars

LEMMA ApiStep == ASSUME IInv, Api PROVE Good
<1> USE IngestorAssumption DEF IInv
<1>1. CASE CreateOrRetry
  <2>1. status' \in T!TaskStatus /\ pub' \in {"no", "new", "FAILED", "STOPPED"}
    BY <1>1 DEF CreateOrRetry, T!TaskStatus
  <2>2. RequestsKnown'
    BY <1>1 DEF CreateOrRetry, RequestsKnown
  <2>3. T!Next
    BY <1>1 DEF CreateOrRetry, T!Next, T!Create, T!Transition,
                T!ValidTransition, T!TaskStatus
  <2>4. UNCHANGED <<up, consVars, claimed, queued, workVars, flag, msg, faults,
                    setting, removing, stops, deliveries, lost>>
    BY <1>1 DEF CreateOrRetry
  <2>5. IInv'
    BY <2>1, <2>2, <2>4, Outside DEF TypeOK
  <2> QED
    BY <2>3, <2>5 DEF Good
<1>2. CASE Enqueue
  <2>1. UNCHANGED <<up, consVars, claimed, queued, workVars, flag, setting,
                    removing, stops, deliveries>>
           /\ pub' = "no" /\ lost' \in BOOLEAN /\ status # "none"
    BY <1>2 DEF Enqueue, RequestsKnown
  <2>2. /\ msg' \in [Msgs -> MsgState]
        /\ faults' \in 0..MaxFaults
        /\ status' = status \/ (msg' = msg /\ status' = RolledBack)
    BY <1>2, FaultType DEF Enqueue, TypeOK, MsgState
  <2>3. ASSUME status' = RolledBack
        PROVE  /\ status' \in T!TaskStatus /\ status' # "none"
               /\ T!Next \/ status' = status
    BY <1>2, <2>1, <2>3 DEF RolledBack, Enqueue, TypeOK, T!TaskStatus,
       T!Terminal, T!Next, T!Rollback, T!Remove
  <2>4. status' \in T!TaskStatus /\ status' # "none"
           /\ (T!Next \/ status' = status)
    BY <2>1, <2>2, <2>3 DEF TypeOK
  <2>5. IInv'
    BY <2>1, <2>2, <2>4, Outside DEF TypeOK, RequestsKnown
  <2> QED
    BY <2>4, <2>5 DEF Good
<1>3. CASE RequestStop
  <2>1. UNCHANGED <<up, consVars, claimed, queued, workVars, flag, msg, faults,
                    deliveries, pub, lost, removing>>
    BY <1>3 DEF RequestStop
  <2>2. /\ status' \in T!TaskStatus
        /\ status' # "none"
        /\ stops' \in 0..MaxStops
        /\ setting' = setting \/ setting' = TRUE
    BY <1>3 DEF RequestStop, TypeOK, T!TaskStatus, T!Terminal
  <2>3. T!Next
    BY <1>3 DEF RequestStop, T!Next, T!Transition, T!ValidTransition,
                T!TaskStatus, T!Terminal
  <2>4. IInv'
    BY <2>1, <2>2, Outside DEF TypeOK, RequestsKnown
  <2> QED
    BY <2>3, <2>4 DEF Good
<1>4. CASE SetCancelFlag
  <2>1. UNCHANGED <<up, consVars, claimed, queued, workVars, status, msg,
                    faults, deliveries, pub, lost, removing, stops>>
           /\ setting' = FALSE /\ flag' = TRUE
    BY <1>4 DEF SetCancelFlag
  <2>2. IInv'
    BY <2>1, Outside DEF TypeOK, RequestsKnown
  <2> QED
    BY <2>1, <2>2 DEF Good
<1>5. CASE CheckRemovable
  <2>1. UNCHANGED <<up, consVars, claimed, queued, workVars, taskVars, msg,
                    faults, deliveries, pub, lost, setting, stops>>
           /\ removing' = TRUE /\ status # "none"
    BY <1>5 DEF CheckRemovable, Terminal, T!Terminal
  <2>2. IInv'
    BY <2>1, Outside DEF TypeOK, RequestsKnown, taskVars
  <2> QED
    BY <2>1, <2>2 DEF Good, taskVars
<1>6. CASE DeleteRow
  <2>1. UNCHANGED <<up, consVars, claimed, queued, workVars, flag, msg,
                    faults, deliveries, pub, lost, setting, stops>>
           /\ removing' = FALSE /\ status' = "removed" /\ status # "none"
    BY <1>6 DEF DeleteRow, RequestsKnown
  <2>2. IInv'
    BY <2>1, Outside DEF TypeOK, RequestsKnown, T!TaskStatus
  <2>3. T!Next
    BY <2>1 DEF T!Next, T!Remove
  <2> QED
    BY <2>2, <2>3 DEF Good
<1> QED
  BY <1>1, <1>2, <1>3, <1>4, <1>5, <1>6 DEF Api

LEMMA BrokerStep ==
    ASSUME IInv, NEW m \in Msgs, Redeliver(m) \/ AckWaitExpires(m)
    PROVE  Good
<1>1. UNCHANGED <<up, consVars, claimed, queued, workVars, taskVars, apiVars,
                  deliveries>>
         /\ msg' = [msg EXCEPT ![m] = "ready"]
         /\ (Fault \/ faults' = faults)
  BY DEF Redeliver, AckWaitExpires
<1>2. msg' \in [Msgs -> MsgState] /\ faults' \in 0..MaxFaults
  BY <1>1, FaultType DEF IInv, TypeOK, MsgState
<1>3. IInv'
  BY <1>1, <1>2, Outside DEF IInv, TypeOK, RequestsKnown, taskVars, apiVars
<1> QED
  BY <1>1, <1>3 DEF Good, taskVars

LEMMA ConsumeStep == ASSUME IInv, Consume PROVE Good
<1> USE DEF IInv
<1>1. CASE \E m \in Msgs : Fetch(m)
  <2> PICK m \in Msgs : Fetch(m)
    BY <1>1
  <2>1. /\ msg' \in [Msgs -> MsgState]
        /\ deliveries' \in [Msgs -> 0..MaxDeliver]
    BY IngestorAssumption DEF Fetch, TypeOK, MsgState
  <2>2. TypeOK'
    BY <2>1 DEF Fetch, TypeOK, taskVars, apiVars, workVars
  <2>3. OneWorkerPerTask' /\ RequestsKnown'
    BY DEF Fetch, OneWorkerPerTask, RequestsKnown, taskVars, apiVars, workVars
  <2> QED
    BY <2>2, <2>3 DEF Good, Fetch, taskVars
<1>2. CASE StartRunning
  <2>1. /\ status' \in T!TaskStatus
        /\ status # "none" => status' # "none"
        /\ T!Next \/ status' = status
    BY <1>2 DEF StartRunning, Activated, TypeOK, T!TaskStatus, T!Terminal,
                T!Next, T!Transition, T!ValidTransition
  <2>2. TypeOK'
    BY <1>2, <2>1 DEF StartRunning, TypeOK, apiVars, workVars
  <2>3. OneWorkerPerTask' /\ RequestsKnown'
    BY <1>2, <2>1 DEF StartRunning, OneWorkerPerTask, RequestsKnown, apiVars,
                      workVars
  <2> QED
    BY <2>1, <2>2, <2>3 DEF Good
<1>3. CASE StartRunningFails
  <2>1. msg' \in [Msgs -> MsgState] /\ faults' \in 0..MaxFaults
    BY <1>3, MsgTypes, FaultType DEF StartRunningFails, ConsumerNacks, TypeOK
  <2>2. TypeOK'
    BY <1>3, <2>1 DEF StartRunningFails, ConsumerNacks, TypeOK, taskVars,
                      apiVars, workVars
  <2>3. OneWorkerPerTask' /\ RequestsKnown'
    BY <1>3 DEF StartRunningFails, ConsumerNacks, OneWorkerPerTask,
                RequestsKnown, taskVars, apiVars, workVars
  <2> QED
    BY <1>3, <2>2, <2>3 DEF Good, StartRunningFails, taskVars
<1>4. CASE ClaimTask
  <2>1. TypeOK'
    BY <1>4 DEF ClaimTask, TypeOK, taskVars, apiVars, workVars
  <2>2. OneWorkerPerTask' /\ RequestsKnown'
    BY <1>4 DEF ClaimTask, OneWorkerPerTask, RequestsKnown, taskVars, apiVars,
                workVars
  <2> QED
    BY <1>4, <2>1, <2>2 DEF Good, ClaimTask, taskVars
<1>5. CASE PutTask
  <2>0. cmsg \in Msgs
    BY <1>5 DEF PutTask, TypeOK
  <2>1. msg' \in [Msgs -> MsgState] /\ faults' \in 0..MaxFaults
    BY <1>5, <2>0, MsgTypes, FaultType DEF PutTask, ConsumerNacks, TypeOK
  <2>2. TypeOK'
    BY <1>5, <2>0, <2>1 DEF PutTask, ConsumerNacks, TypeOK, taskVars, apiVars,
                            workVars
  <2>3. OneWorkerPerTask' /\ RequestsKnown'
    BY <1>5 DEF PutTask, ConsumerNacks, OneWorkerPerTask, RequestsKnown,
                taskVars, apiVars, workVars
  <2> QED
    BY <1>5, <2>2, <2>3 DEF Good, PutTask, taskVars
<1>6. CASE AckMessage
  <2>1. msg' \in [Msgs -> MsgState]
    BY <1>6, MsgTypes DEF AckMessage, TypeOK
  <2>2. TypeOK'
    BY <1>6, <2>1 DEF AckMessage, TypeOK, taskVars, apiVars, workVars
  <2>3. OneWorkerPerTask' /\ RequestsKnown'
    BY <1>6 DEF AckMessage, OneWorkerPerTask, RequestsKnown, taskVars, apiVars,
                workVars
  <2> QED
    BY <1>6, <2>2, <2>3 DEF Good, AckMessage, taskVars
<1> QED
  BY <1>1, <1>2, <1>3, <1>4, <1>5, <1>6 DEF Consume

LEMMA ProcessStep == ASSUME IInv, Stop \/ Exit \/ Restart PROVE Good
<1> USE DEF IInv
<1>1. faults' \in 0..MaxFaults
  BY FaultType DEF Stop, Exit, Restart, TypeOK
<1>2. UNCHANGED <<taskVars, msg, deliveries, apiVars>>
  BY DEF Stop, Exit, Restart
<1>3. RequestsKnown'
  BY <1>2 DEF RequestsKnown, taskVars, apiVars
<1>4. CASE Stop
  BY <1>1, <1>3, <1>4 DEF Stop, TypeOK, OneWorkerPerTask, taskVars, apiVars,
     consVars, workVars, Good
<1>5. CASE Exit
  <2>1. TypeOK'
    BY <1>1, <1>5 DEF Exit, TypeOK, taskVars, apiVars, WorkerPc
  <2>2. OneWorkerPerTask'
    BY <1>5 DEF Exit, OneWorkerPerTask
  <2> QED
    BY <1>2, <1>3, <2>1, <2>2 DEF Good, taskVars
<1>6. CASE Restart
  <2>1. TypeOK'
    BY <1>6 DEF Restart, TypeOK, taskVars, apiVars, consVars, WorkerPc
  <2>2. OneWorkerPerTask'
    BY <1>6 DEF Restart, OneWorkerPerTask, consVars
  <2> QED
    BY <1>2, <1>3, <2>1, <2>2 DEF Good, taskVars
<1> QED
  BY <1>4, <1>5, <1>6

\* Steps that take a task, or give it up.
LEMMA HandOverStep ==
    ASSUME IInv, NEW w \in Workers, TakeTask(w) \/ ReleaseTask(w) \/ PollCancel(w)
    PROVE  Good
<1> USE DEF IInv
<1>1. RequestsKnown' /\ status' = status
  BY DEF TakeTask, ReleaseTask, PollCancel, KeepOthers, RequestsKnown,
         taskVars, apiVars
<1>2. CASE TakeTask(w)
  <2>1. /\ wpc' = [wpc EXCEPT ![w] = "check"]
        /\ wmsg' = [wmsg EXCEPT ![w] = queued]
        /\ queued \in Msgs /\ queued' = NoMsg
        /\ wpc[w] = "idle"
        /\ UNCHANGED <<deliveries, apiVars, up, consVars, taskVars, msg, faults,
                       claimed, cancelled, fresh>>
    BY <1>2 DEF TakeTask, Goto, KeepOthers, TypeOK
  <2>2. wpc' \in [Workers -> WorkerPc] /\ wmsg' \in [Workers -> Msgs \cup {NoMsg}]
    BY <2>1 DEF TypeOK, WorkerPc, Running
  <2>3. TypeOK'
    BY <2>1, <2>2 DEF TypeOK, apiVars, consVars, taskVars
  <2>4. \A v \in Workers : v # w => wpc[v] \in {"idle", "off"}
    BY <2>1, IngestorAssumption DEF OneWorkerPerTask, Msgs, NoMsg
  <2>5. queued # NoMsg
    BY <1>2 DEF TakeTask
  <2>6. \A v \in Workers : v # w => wpc'[v] \in {"idle", "off"}
    BY <2>1, <2>4 DEF TypeOK
  <2>7. OneWorkerPerTask'
    BY <2>1, <2>5, <2>6 DEF OneWorkerPerTask, consVars
  <2> QED
    BY <1>1, <2>3, <2>7 DEF Good
<1>3. CASE ReleaseTask(w)
  <2>1. /\ wpc' = [wpc EXCEPT ![w] = "idle"]
        /\ wmsg' = [wmsg EXCEPT ![w] = NoMsg]
        /\ cancelled' = [cancelled EXCEPT ![w] = FALSE]
        /\ fresh' = [fresh EXCEPT ![w] = FALSE]
        /\ claimed' = FALSE
        /\ wpc[w] = "release"
        /\ UNCHANGED <<deliveries, apiVars, up, consVars, taskVars, msg, faults,
                       queued>>
    BY <1>3 DEF ReleaseTask, Goto, KeepOthers
  <2>2. wpc' \in [Workers -> WorkerPc] /\ wmsg' \in [Workers -> Msgs \cup {NoMsg}]
    BY <2>1 DEF TypeOK, WorkerPc
  <2>3. cancelled' \in [Workers -> BOOLEAN] /\ fresh' \in [Workers -> BOOLEAN]
    BY <2>1 DEF TypeOK
  <2>4. \A v \in Workers : wpc'[v] \notin {"idle", "off"} => wmsg'[v] \in Msgs
    BY <2>1 DEF TypeOK
  <2>5. TypeOK'
    <3>1. UNCHANGED <<status, flag, msg, deliveries, pub, lost, setting,
                      removing, stops, faults, up, cpc, cmsg, queued>>
             /\ claimed' \in BOOLEAN
      BY <2>1 DEF apiVars, consVars, taskVars
    <3> QED
      BY <2>2, <2>3, <2>4, <3>1 DEF TypeOK
  <2>6. \A v \in Workers : wpc'[v] \in {"idle", "off"}
    BY <2>1 DEF TypeOK, OneWorkerPerTask
  <2>7. queued = NoMsg /\ cpc # "put"
    BY <2>1 DEF OneWorkerPerTask
  <2>8. OneWorkerPerTask'
    BY <2>1, <2>6, <2>7 DEF OneWorkerPerTask, consVars
  <2> QED
    BY <1>1, <2>5, <2>8 DEF Good
<1>4. CASE PollCancel(w)
  <2>1. TypeOK'
    BY <1>4 DEF PollCancel, KeepOthers, TypeOK, apiVars, consVars, taskVars
  <2>2. OneWorkerPerTask'
    BY <1>4 DEF PollCancel, KeepOthers, OneWorkerPerTask, consVars
  <2> QED
    BY <1>1, <2>1, <2>2 DEF Good
<1> QED
  BY <1>2, <1>3, <1>4

\* Steps that leave the row's status alone.
LEMMA QuietStep ==
    ASSUME IInv, NEW w \in Workers,
           \/ CheckCancel(w) \/ BeginRun(w) \/ ClearStaleFlag(w)
           \/ RunPipeline(w) \/ Panic(w) \/ ClearFlag(w) \/ Settle(w)
           \/ AckOrNack(w)
    PROVE  Good
<1> DEFINE Next1 == {"begin", "stop", "clear", "run", "complete", "fail",
                     "settle", "settled", "panic", "ack", "nack", "release"}
<1>1. /\ wpc[w] \notin {"idle", "off"}
      /\ \E pc \in Next1 : Goto(w, pc)
      /\ UNCHANGED <<deliveries, apiVars, up, consVars, claimed, queued, wmsg,
                     status>>
  BY DEF CheckCancel, BeginRun, ClearStaleFlag, RunPipeline, Panic, ClearFlag,
         Settle, AckOrNack, KeepOthers, taskVars
<1>2. faults' \in 0..MaxFaults
  BY FaultType DEF CheckCancel, BeginRun, ClearStaleFlag, RunPipeline, Panic,
     ClearFlag, Settle, AckOrNack, IInv, TypeOK
<1>3. msg' \in [Msgs -> MsgState]
  BY MsgTypes DEF CheckCancel, BeginRun, ClearStaleFlag, RunPipeline, Panic,
     ClearFlag, Settle, AckOrNack, IInv, TypeOK
<1>4. flag' \in BOOLEAN
  BY DEF CheckCancel, BeginRun, ClearStaleFlag, RunPipeline, Panic, ClearFlag,
     Settle, AckOrNack, IInv, TypeOK, taskVars
<1>5. cancelled' \in [Workers -> BOOLEAN]
  BY DEF CheckCancel, BeginRun, ClearStaleFlag, RunPipeline, Panic, ClearFlag,
     Settle, AckOrNack, IInv, TypeOK
<1>6. fresh' \in [Workers -> BOOLEAN]
  BY DEF CheckCancel, BeginRun, ClearStaleFlag, RunPipeline, Panic, ClearFlag,
     Settle, AckOrNack, IInv, TypeOK, CtxDone
<1>7. PICK pc \in WorkerPc \ {"idle", "off"} : Goto(w, pc)
  BY <1>1 DEF WorkerPc, Running
<1>8. IInv'
  BY <1>1, <1>2, <1>3, <1>4, <1>5, <1>6, <1>7, GoOnTypes DEF IInv, TypeOK
<1> QED
  BY <1>1, <1>8 DEF Good

\* Steps that settle the row.
LEMMA SettleStep ==
    ASSUME IInv, NEW w \in Workers,
           CompleteTask(w) \/ FailTask(w) \/ StopTask(w) \/ MarkStopped(w)
    PROVE  Good
<1> DEFINE Next1 == {"settle", "settled", "stop", "stopped", "unflag"}
<1>1. /\ wpc[w] \notin {"idle", "off"}
      /\ UNCHANGED <<deliveries, apiVars, up, consVars, claimed, queued, wmsg,
                     msg, cancelled, fresh>>
  BY DEF CompleteTask, FailTask, StopTask, MarkStopped, KeepOthers
<1>2. \E pc \in Next1 : Goto(w, pc)
  BY DEF CompleteTask, FailTask, StopTask, MarkStopped
<1>3. faults' \in 0..MaxFaults
  BY FaultType DEF CompleteTask, FailTask, StopTask, MarkStopped, IInv, TypeOK
<1>4. flag' \in BOOLEAN
  BY DEF CompleteTask, FailTask, StopTask, MarkStopped, IInv, TypeOK, taskVars
<1>5. /\ status' \in T!TaskStatus
      /\ status # "none" => status' # "none"
      /\ T!Next \/ status' = status
  BY DEF CompleteTask, FailTask, StopTask, MarkStopped, IInv, TypeOK, taskVars,
     T!TaskStatus, T!Terminal, T!Next, T!Transition, T!ValidTransition
<1>6. PICK pc \in WorkerPc \ {"idle", "off"} : Goto(w, pc)
  BY <1>2 DEF WorkerPc, Running
<1>7. IInv'
  BY <1>1, <1>3, <1>4, <1>5, <1>6, GoOnTypes DEF IInv, TypeOK
<1> QED
  BY <1>5, <1>7 DEF Good

LEMMA Initially == ASSUME Init PROVE IInv /\ T!Init
<1>1. TypeOK
  <2>1. /\ msg \in [Msgs -> MsgState]
        /\ wpc \in [Workers -> WorkerPc]
        /\ wmsg \in [Workers -> Msgs \cup {NoMsg}]
    BY DEF Init, MsgState, WorkerPc
  <2>2. cancelled \in [Workers -> BOOLEAN] /\ fresh \in [Workers -> BOOLEAN]
    BY DEF Init
  <2>3. \A w \in Workers : wpc[w] = "idle"
    BY DEF Init
  <2>4. /\ stops \in 0..MaxStops /\ faults \in 0..MaxFaults
        /\ deliveries \in [Msgs -> 0..MaxDeliver]
    BY IngestorAssumption DEF Init
  <2> QED
    BY <2>1, <2>2, <2>3, <2>4 DEF Init, TypeOK, T!TaskStatus
<1>2. OneWorkerPerTask /\ RequestsKnown /\ T!Init
  BY DEF Init, OneWorkerPerTask, RequestsKnown, T!Init
<1> QED
  BY <1>1, <1>2 DEF IInv

LEMMA EveryStep == ASSUME IInv, [Next]_vars PROVE Good
<1>1. CASE \E w \in Workers : Execute(w) \/ PollCancel(w) \/ Panic(w)
  BY <1>1, HandOverStep, QuietStep, SettleStep DEF Execute
<1>2. CASE \E m \in Msgs : Redeliver(m) \/ AckWaitExpires(m)
  BY <1>2, BrokerStep
<1>3. CASE UNCHANGED vars
  <2>1. IInv'
    BY <1>3 DEF vars, IInv, TypeOK, OneWorkerPerTask, RequestsKnown, taskVars,
                apiVars, consVars, workVars
  <2> QED
    BY <1>3, <2>1 DEF Good, vars, taskVars
<1> QED
  BY <1>1, <1>2, <1>3, ApiStep, ConsumeStep, ProcessStep DEF Next

LEMMA Inductive == Spec => []IInv
<1>1. Init => IInv
  BY Initially
<1>2. IInv /\ [Next]_vars => IInv'
  BY EveryStep DEF Good
<1> QED
  BY <1>1, <1>2, PTL DEF Spec

-----------------------------------------------------------------------------
(* The theorems.                                                           *)

\* Every variable of the ingestor keeps its type; in particular a worker at
\* work always has a message to settle (executeTask).
THEOREM IngestorTypes == Spec => []TypeOK
<1>1. IInv => TypeOK
  BY DEF IInv
<1> QED
  BY <1>1, Inductive, PTL

\* However its messages are redelivered, a task is in at most one place of the
\* process, and the claim in currentTasks covers it (claimTask, releaseTask).
THEOREM IngestorOneWorker == Spec => []OneWorkerPerTask
<1>1. IInv => OneWorkerPerTask
  BY DEF IInv
<1> QED
  BY <1>1, Inductive, PTL

\* Requests, consumer, workers, panics and crashes together move the status of
\* the row only as validateTransition and the two rollbacks allow.
THEOREM IngestorImplementsTask == Spec => ImplementsTask
<1>1. Init => T!Init
  BY Initially
<1>2. IInv /\ [Next]_vars => [T!Next]_status
  BY EveryStep DEF Good
<1> QED
  BY <1>1, <1>2, Inductive, PTL DEF Spec, ImplementsTask, T!Spec

-----------------------------------------------------------------------------
(* A created task keeps a message that will start it.                      *)

\* A step that delivers nothing and takes no delivery from the consume loop,
\* unless it fails, leaves the deliveries accounted for.
LEMMA StillPaid ==
    ASSUME TypeOK, NEW k \in Msgs, Paid(k), UNCHANGED deliveries,
           faults' = faults \/ Fault,
           Starting(k) => Starting(k)' \/ Fault
    PROVE  Paid(k)'
  BY DEF TypeOK, Paid, Fault

\* What a step must respect: no message starts or stops being unused, the
\* process takes no unused one, and a waiting one stays with the broker or
\* with the consume loop before StartRunning.
LEMMA StillWaits ==
    ASSUME NewestWaits,
           \A k \in Msgs : msg'[k] = "unused" <=> msg[k] = "unused",
           \A k \in Msgs : msg[k] = "unused" =>
               /\ deliveries'[k] = deliveries[k]
               /\ cmsg' # k /\ queued' # k /\ \A w \in Workers : wmsg'[w] # k,
           \A k \in Msgs : Waiting(k) /\ status' = "CREATED" =>
               /\ msg'[k] \in {"ready", "out"}
               /\ queued' # k
               /\ \A w \in Workers : wmsg'[w] # k
               /\ cmsg' = k => cpc' \in {"idle", "start"}
               /\ Paid(k)',
           status' = "CREATED" /\ pub' = "no" /\ ~lost'
               => status = "CREATED" /\ pub = "no" /\ ~lost
    PROVE  NewestWaits'
<1>1. UnusedUntouched'
  BY DEF NewestWaits, UnusedUntouched
<1>2. ASSUME status' = "CREATED", pub' = "no", ~lost'
      PROVE  \E m \in Msgs : Waiting(m)'
  <2>1. PICK m \in Msgs : Waiting(m)
    BY <1>2 DEF NewestWaits
  <2>2. Waiting(m)'
    BY <1>2, <2>1 DEF Waiting
  <2> QED
    BY <2>2
<1> QED
  BY <1>1, <1>2 DEF NewestWaits

\* Steps that hold on to the messages they have.
LEMMA QuietWaits ==
    ASSUME TypeOK, NewestWaits,
           UNCHANGED <<msg, deliveries, cmsg, queued, wmsg>>,
           faults' = faults \/ Fault,
           UNCHANGED <<up, cpc>> \/ cpc = "claim" \/ status' # "CREATED"
               \/ (cpc' = cpc /\ (Fault \/ up # "up")),
           status' = "CREATED" /\ pub' = "no" /\ ~lost'
               => status = "CREATED" /\ pub = "no" /\ ~lost
    PROVE  NewestWaits'
<1>1. \A k \in Msgs : msg[k] = "unused" =>
          cmsg' # k /\ queued' # k /\ \A w \in Workers : wmsg'[w] # k
  BY DEF NewestWaits, UnusedUntouched
<1>2. \A k \in Msgs : Waiting(k) /\ status' = "CREATED" =>
          /\ msg'[k] \in {"ready", "out"}
          /\ queued' # k
          /\ \A w \in Workers : wmsg'[w] # k
          /\ cmsg' = k => cpc' \in {"idle", "start"}
  BY DEF Waiting
<1>3. ASSUME NEW k \in Msgs, Waiting(k), status' = "CREATED"
      PROVE  Paid(k)'
  BY <1>3, StillPaid DEF Waiting, Starting
<1> QED
  BY <1>1, <1>2, <1>3, StillWaits

LEMMA ApiWaits == ASSUME TypeOK, NewestWaits, Api PROVE NewestWaits'
<1>1. CASE /\ Enqueue
           /\ \E m \in Msgs : /\ msg[m] = "unused"
                              /\ \A k \in Msgs : k < m => msg[k] # "unused"
                              /\ msg' = [msg EXCEPT ![m] = "ready"]
  <2>1. PICK m \in Msgs : /\ msg[m] = "unused"
                          /\ \A k \in Msgs : k < m => msg[k] # "unused"
                          /\ msg' = [msg EXCEPT ![m] = "ready"]
    BY <1>1
  <2>2. UNCHANGED <<deliveries, cpc, cmsg, queued, wmsg>>
    BY <1>1 DEF Enqueue, consVars, workVars
  <2>3. msg \in [Msgs -> MsgState] /\ Msgs \in SUBSET Nat
    BY IngestorAssumption DEF TypeOK, Msgs
  <2>4. \A k \in Msgs : m < k => msg'[k] = "unused"
    BY <2>1, <2>3 DEF NewestWaits, UnusedUntouched
  <2>5. UnusedUntouched'
    <3> SUFFICES ASSUME NEW k \in Msgs, msg'[k] = "unused"
                 PROVE  /\ \A j \in Msgs : k < j => msg'[j] = "unused"
                        /\ deliveries[k] = 0
                        /\ cmsg # k /\ queued # k
                        /\ \A w \in Workers : wmsg[w] # k
      BY <2>2 DEF UnusedUntouched
    <3>1. msg[k] = "unused" /\ m < k
      BY <2>1, <2>3
    <3> QED
      BY <2>3, <2>4, <3>1 DEF NewestWaits, UnusedUntouched
  <2>6. Paid(m)'
    <3>1. deliveries'[m] = 0 /\ faults' \in Nat
      BY <1>1, <2>1, <2>2, FaultType
      DEF Enqueue, NewestWaits, UnusedUntouched, TypeOK
    <3>2. deliveries'[m] <= faults'
      BY <3>1
    <3> QED
      BY <3>2 DEF Paid
  <2>7. Waiting(m)'
    BY <2>1, <2>2, <2>3, <2>4, <2>6 DEF Waiting, NewestWaits, UnusedUntouched
  <2> QED
    BY <2>5, <2>7 DEF NewestWaits
<1>2. CASE Enqueue /\ Fault /\ (status' = RolledBack \/ lost') /\ UNCHANGED msg
  <2>1. /\ status' # "CREATED" \/ lost'
        /\ UNCHANGED <<deliveries, up, cpc, cmsg, queued, wmsg>>
    BY <1>2 DEF Enqueue, RolledBack, TypeOK, consVars, workVars
  <2> QED
    BY <1>2, <2>1, QuietWaits
<1>3. CASE CreateOrRetry \/ RequestStop \/ SetCancelFlag \/ CheckRemovable
           \/ DeleteRow
  <2>1. UNCHANGED <<msg, deliveries, faults, up, cpc, cmsg, queued, wmsg>>
    BY <1>3 DEF CreateOrRetry, RequestStop, SetCancelFlag, CheckRemovable,
                DeleteRow, consVars, workVars
  <2>2. status' = "CREATED" /\ pub' = "no" /\ ~lost'
            => status = "CREATED" /\ pub = "no" /\ ~lost
    BY <1>3 DEF CreateOrRetry, RequestStop, SetCancelFlag, CheckRemovable,
                DeleteRow, taskVars
  <2> QED
    BY <2>1, <2>2, QuietWaits
<1> QED
  BY <1>1, <1>2, <1>3 DEF Api, Enqueue

LEMMA BrokerWaits ==
    ASSUME TypeOK, NewestWaits, NEW m \in Msgs, Redeliver(m) \/ AckWaitExpires(m)
    PROVE  NewestWaits'
<1>1. /\ msg[m] = "out" /\ msg' = [msg EXCEPT ![m] = "ready"]
      /\ UNCHANGED <<status, deliveries, pub, lost, up, cpc, cmsg, queued, wmsg>>
      /\ faults' = faults \/ Fault
      /\ Fault \/ ~(cpc = "start" /\ cmsg = m)
  BY DEF Redeliver, AckWaitExpires, Held, taskVars, apiVars, consVars, workVars
<1>2. \A k \in Msgs : msg'[k] = msg[k] \/ (msg[k] = "out" /\ msg'[k] = "ready")
  BY <1>1 DEF TypeOK
<1>3. ASSUME NEW k \in Msgs, Waiting(k) PROVE Paid(k)'
  <2>1. Starting(k) => Starting(k)' \/ Fault
    BY <1>1 DEF Starting, TypeOK
  <2> QED
    BY <1>1, <1>3, <2>1, StillPaid DEF Waiting
<1> QED
  BY <1>1, <1>2, <1>3, StillWaits DEF NewestWaits, UnusedUntouched, Waiting

LEMMA ConsumeWaits == ASSUME TypeOK, NewestWaits, Consume PROVE NewestWaits'
<1> DEFINE Free(k) == /\ deliveries'[k] = deliveries[k]
                      /\ cmsg' # k /\ queued' # k
                      /\ \A w \in Workers : wmsg'[w] # k
<1> DEFINE Safe(k) == /\ msg'[k] \in {"ready", "out"}
                      /\ queued' # k
                      /\ \A w \in Workers : wmsg'[w] # k
                      /\ cmsg' = k => cpc' \in {"idle", "start"}
                      /\ Paid(k)'
<1>1. msg \in [Msgs -> MsgState] /\ NoMsg \notin Msgs
  BY IngestorAssumption DEF TypeOK, Msgs, NoMsg
<1>2. CASE \E m \in Msgs : Fetch(m)
  <2>1. PICK m \in Msgs : Fetch(m)
    BY <1>2
  <2>2. /\ msg[m] = "ready" /\ msg' = [msg EXCEPT ![m] = "out"]
        /\ deliveries' = [deliveries EXCEPT ![m] = @ + 1]
        /\ up = "up" /\ cpc = "idle" /\ cmsg' = m /\ cpc' = "start"
        /\ UNCHANGED <<status, pub, lost, faults, up, queued, wmsg>>
    BY <2>1 DEF Fetch, taskVars, apiVars, workVars
  <2>3. \A k \in Msgs : msg'[k] = "unused" <=> msg[k] = "unused"
    BY <1>1, <2>2
  <2>4. \A k \in Msgs : msg[k] = "unused" => Free(k)
    BY <2>2 DEF NewestWaits, UnusedUntouched, TypeOK
  <2>5. ASSUME NEW k \in Msgs, Waiting(k) PROVE Paid(k)'
    <3>1. deliveries[k] <= faults /\ deliveries[k] \in Nat /\ faults \in Nat
      BY <2>2, <2>5 DEF Waiting, Paid, Starting, TypeOK
    <3>2. CASE k = m
      BY <1>1, <2>2, <3>1, <3>2 DEF Paid, Starting, TypeOK
    <3>3. CASE k # m
      BY <2>2, <3>1, <3>3 DEF Paid, TypeOK
    <3> QED
      BY <3>2, <3>3
  <2>6. \A k \in Msgs : Waiting(k) => Safe(k)
    BY <1>1, <2>2, <2>5 DEF Waiting
  <2> QED
    BY <2>2, <2>3, <2>4, <2>6, StillWaits
<1>3. CASE StartRunning
  <2>1. /\ status' # "CREATED"
        /\ UNCHANGED <<msg, deliveries, faults, cmsg, queued, wmsg>>
    BY <1>3 DEF StartRunning, Activated, workVars
  <2> QED
    BY <2>1, QuietWaits
<1>4. CASE StartRunningFails \/ AckMessage
           \/ (PutTask /\ ConsumerNacks /\ UNCHANGED queued)
  <2>1. /\ cmsg \in Msgs /\ cmsg' = NoMsg
        /\ UNCHANGED <<status, deliveries, pub, lost, queued, wmsg>>
        /\ faults' = faults \/ Fault
        /\ Fault \/ up # "up" \/ cpc # "start"
        /\ msg' = Nacked(cmsg) \/ (msg' = Acked(cmsg) /\ cpc = "ack")
    BY <1>4 DEF StartRunningFails, AckMessage, PutTask, ConsumerNacks, TypeOK,
                taskVars, apiVars, workVars
  <2>2. msg[cmsg] # "unused"
    BY <2>1 DEF NewestWaits, UnusedUntouched
  <2>3. \A k \in Msgs : msg'[k] = "unused" <=> msg[k] = "unused"
    BY <1>1, <2>1, <2>2 DEF Acked, Nacked
  <2>4. \A k \in Msgs : msg[k] = "unused" => Free(k)
    BY <1>1, <2>1 DEF NewestWaits, UnusedUntouched
  <2>5. ASSUME NEW k \in Msgs, Waiting(k) PROVE Paid(k)'
    BY <2>1, <2>5, StillPaid DEF Waiting, Starting
  <2>6. \A k \in Msgs : Waiting(k) => Safe(k)
    BY <1>1, <2>1, <2>5 DEF Waiting, Acked, Nacked
  <2> QED
    BY <2>1, <2>3, <2>4, <2>6, StillWaits
<1>5. CASE ClaimTask
  <2>1. /\ cpc = "claim"
        /\ UNCHANGED <<msg, deliveries, faults, cmsg, queued, wmsg, status, pub,
                       lost>>
    BY <1>5 DEF ClaimTask, taskVars, apiVars, workVars
  <2> QED
    BY <2>1, QuietWaits
<1>6. CASE PutTask /\ queued' = cmsg
  <2>1. /\ cpc = "put" /\ cmsg \in Msgs /\ queued' = cmsg
        /\ faults' = faults \/ Fault
        /\ UNCHANGED <<status, deliveries, pub, lost, wmsg>>
    BY <1>6 DEF PutTask, TypeOK, taskVars, apiVars, workVars
  <2>2. CASE cmsg' = NoMsg /\ UNCHANGED msg
    <3>1. \A k \in Msgs : msg[k] = "unused" => Free(k)
      BY <1>1, <2>1, <2>2 DEF NewestWaits, UnusedUntouched
    <3>2. ASSUME NEW k \in Msgs, Waiting(k) PROVE Paid(k)'
      BY <2>1, <3>2, StillPaid DEF Waiting, Starting
    <3>3. \A k \in Msgs : Waiting(k) => Safe(k)
      BY <1>1, <2>1, <2>2, <3>2 DEF Waiting
    <3> QED
      BY <2>1, <2>2, <3>1, <3>3, StillWaits
  <2> QED
    BY <1>4, <1>6, <2>2 DEF PutTask
<1> QED
  BY <1>2, <1>3, <1>4, <1>5, <1>6 DEF Consume, PutTask

\* A worker's messages change hands only in TakeTask and ReleaseTask, and are
\* answered only in AckOrNack.
LEMMA WorkerWaits ==
    ASSUME TypeOK, NewestWaits, NEW w \in Workers,
           Execute(w) \/ PollCancel(w) \/ Panic(w)
    PROVE  NewestWaits'
<1>1. /\ msg \in [Msgs -> MsgState] /\ NoMsg \notin Msgs
      /\ wmsg \in [Workers -> Msgs \cup {NoMsg}]
      /\ wpc[w] \notin {"idle", "off"} => wmsg[w] \in Msgs
  BY IngestorAssumption DEF TypeOK, Msgs, NoMsg
<1>2. UNCHANGED <<deliveries, pub, lost, up, cpc, cmsg>>
  BY DEF Execute, TakeTask, CheckCancel, BeginRun, ClearStaleFlag, RunPipeline,
         CompleteTask, FailTask, StopTask, MarkStopped, ClearFlag, Settle,
         AckOrNack, ReleaseTask, PollCancel, Panic, KeepOthers, apiVars,
         consVars
<1>3. faults' = faults \/ Fault
  BY DEF Execute, TakeTask, CheckCancel, BeginRun, ClearStaleFlag, RunPipeline,
         CompleteTask, FailTask, StopTask, MarkStopped, ClearFlag, Settle,
         AckOrNack, ReleaseTask, PollCancel, Panic
<1>4. ASSUME NEW k \in Msgs, Waiting(k), msg'[k] = msg[k] PROVE Paid(k)'
  BY <1>3, <1>2, <1>4, StillPaid DEF Waiting, Starting
<1>5. CASE TakeTask(w)
  <2>1. /\ wmsg' = [wmsg EXCEPT ![w] = queued] /\ queued' = NoMsg
        /\ UNCHANGED <<msg, status>>
    BY <1>5 DEF TakeTask, taskVars
  <2>2. \A k \in Msgs : (\A v \in Workers : wmsg[v] # k) /\ queued # k
                            => \A v \in Workers : wmsg'[v] # k
    BY <1>1, <2>1
  <2> QED
    BY <1>1, <1>2, <1>4, <2>1, <2>2, StillWaits
    DEF NewestWaits, UnusedUntouched, Waiting
<1>6. CASE ReleaseTask(w)
  <2>1. /\ wmsg' = [wmsg EXCEPT ![w] = NoMsg]
        /\ UNCHANGED <<msg, status, queued>>
    BY <1>6 DEF ReleaseTask, taskVars
  <2>2. \A k \in Msgs : (\A v \in Workers : wmsg[v] # k)
                            => \A v \in Workers : wmsg'[v] # k
    BY <1>1, <2>1
  <2> QED
    BY <1>1, <1>2, <1>4, <2>1, <2>2, StillWaits
    DEF NewestWaits, UnusedUntouched, Waiting
<1>7. CASE AckOrNack(w)
  <2>1. /\ wmsg[w] \in Msgs /\ UNCHANGED <<status, queued, wmsg>>
        /\ msg' = Acked(wmsg[w]) \/ msg' = Nacked(wmsg[w])
    BY <1>1, <1>7 DEF AckOrNack, taskVars
  <2>2. msg[wmsg[w]] # "unused"
    BY <2>1 DEF NewestWaits, UnusedUntouched
  <2>3. \A k \in Msgs : /\ k # wmsg[w] => msg'[k] = msg[k]
                        /\ msg'[wmsg[w]] # "unused"
    BY <1>1, <2>1, <2>2 DEF Acked, Nacked
  <2> QED
    BY <1>2, <1>4, <2>1, <2>2, <2>3, StillWaits
    DEF NewestWaits, UnusedUntouched, Waiting
<1>8. CASE \/ CheckCancel(w) \/ BeginRun(w) \/ ClearStaleFlag(w)
           \/ RunPipeline(w) \/ CompleteTask(w) \/ FailTask(w) \/ StopTask(w)
           \/ MarkStopped(w) \/ ClearFlag(w) \/ Settle(w) \/ PollCancel(w)
           \/ Panic(w)
  <2>1. UNCHANGED <<msg, queued, wmsg>>
    BY <1>8 DEF CheckCancel, BeginRun, ClearStaleFlag, RunPipeline,
         CompleteTask, FailTask, StopTask, MarkStopped, ClearFlag, Settle,
         PollCancel, Panic
  <2>2. status' = "CREATED" => status = "CREATED"
    BY <1>8 DEF CheckCancel, BeginRun, ClearStaleFlag, RunPipeline,
         CompleteTask, FailTask, StopTask, MarkStopped, ClearFlag, Settle,
         PollCancel, Panic, taskVars
  <2> QED
    BY <1>3, <1>2, <2>1, <2>2, QuietWaits
<1> QED
  BY <1>5, <1>6, <1>7, <1>8 DEF Execute

LEMMA ProcessWaits ==
    ASSUME TypeOK, NewestWaits, Stop \/ Exit \/ Restart \/ UNCHANGED vars
    PROVE  NewestWaits'
<1>1. UNCHANGED <<msg, deliveries, status, pub, lost>>
         /\ (faults' = faults \/ Fault)
  BY DEF Stop, Exit, Restart, vars, taskVars, apiVars
<1>2. NoMsg \notin Msgs
  BY IngestorAssumption DEF Msgs, NoMsg
<1>3. CASE Exit
  <2>1. /\ cmsg' = NoMsg /\ queued' = NoMsg
        /\ \A w \in Workers : wmsg'[w] = NoMsg
        /\ up # "up" \/ Fault
    BY <1>3 DEF Exit
  <2>2. ASSUME NEW k \in Msgs, Waiting(k) PROVE Paid(k)'
    BY <1>1, <2>1, <2>2, StillPaid DEF Waiting, Starting
  <2> QED
    BY <1>1, <1>2, <2>1, <2>2, StillWaits DEF Waiting
<1>4. CASE Stop \/ Restart \/ UNCHANGED vars
  <2>1. /\ UNCHANGED <<cpc, cmsg, queued, wmsg>>
        /\ UNCHANGED up \/ Fault \/ up # "up"
    BY <1>4 DEF Stop, Restart, vars, consVars, workVars
  <2> QED
    BY <1>1, <2>1, QuietWaits
<1> QED
  BY <1>3, <1>4

\* Whatever is redelivered, retried, stopped or crashes: a task whose creation
\* was not reported as failed and that nothing has started yet still has a
\* message that can start it, for as long as fewer things went wrong than the
\* broker makes deliveries (CreateAndEnqueue, InitConsumer).
THEOREM IngestorForgetsNoTask == Spec => []CreatedIsQueued
<1>1. Init => NewestWaits
  BY IngestorAssumption
  DEF Init, NewestWaits, UnusedUntouched, Msgs, NoMsg
<1>2. IInv /\ NewestWaits /\ [Next]_vars => NewestWaits'
  <2> SUFFICES ASSUME TypeOK, NewestWaits, [Next]_vars
               PROVE  NewestWaits'
    BY DEF IInv
  <2>1. CASE \E w \in Workers : Execute(w) \/ PollCancel(w) \/ Panic(w)
    BY <2>1, WorkerWaits
  <2>2. CASE \E m \in Msgs : Redeliver(m) \/ AckWaitExpires(m)
    BY <2>2, BrokerWaits
  <2> QED
    BY <2>1, <2>2, ApiWaits, ConsumeWaits, ProcessWaits DEF Next
<1>3. IInv /\ NewestWaits => CreatedIsQueued
  <2> SUFFICES ASSUME TypeOK, NewestWaits, status = "CREATED", pub = "no", ~lost,
                      faults < MaxDeliver
               PROVE  \E m \in Msgs : CanStart(m)
    BY DEF IInv, CreatedIsQueued
  <2>1. PICK m \in Msgs : Waiting(m)
    BY DEF NewestWaits
  <2>2. CanStart(m)
    BY <2>1, IngestorAssumption DEF Waiting, Paid, Starting, CanStart, TypeOK
  <2> QED
    BY <2>2
<1> QED
  BY <1>1, <1>2, <1>3, Inductive, PTL DEF Spec
=============================================================================
