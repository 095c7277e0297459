------------------------------ MODULE Ingestor ------------------------------
(***************************************************************************)
(* The ingestor process (internal/ingestion/service/ingestion_service.go)  *)
(* running one ingestion task: the consume loop that activates the task    *)
(* for each delivery of a message and hands it to the worker pool, the     *)
(* workers that run the document pipeline and settle task and message, the *)
(* task service (internal/service/ingestion_task_service.go) that API      *)
(* requests and the process share, the Redis cancel flag, and the          *)
(* at-least-once broker.                                                   *)
(*                                                                         *)
(* A service call reads the row, validates, and updates it only if its     *)
(* status is still the one read; a lost race is an error that the caller   *)
(* treats like a call made later, so a call is one step.  Other tasks only *)
(* compete for the channel.                                                *)
(***************************************************************************)
EXTENDS Integers, FiniteSets

CONSTANTS
    Workers,     \* goroutines of workerLoop
    MaxMsgs,     \* bound: messages published for the task
    MaxStops,    \* bound: stop requests
    MaxDeliver,  \* how often the broker delivers a message at most
    MaxFaults    \* bound: failed calls, missed timeouts, stops and crashes

ASSUME IngestorAssumption ==
    /\ MaxMsgs \in Nat
    /\ MaxStops \in Nat
    /\ MaxDeliver \in Nat \ {0}
    /\ MaxFaults \in Nat

VARIABLES
    status,    \* status of the task's row
    flag,      \* the Redis key {task}-cancel
    msg,       \* [Msgs -> state of the message at the broker]
    deliveries,\* [Msgs -> how often it was delivered]
    pub,       \* CreateAndEnqueue between row and message: what to restore
    lost,      \* history: neither the last message was published nor the row
               \* put back
    setting,   \* a RequestStop between row and flag
    removing,  \* a Delete between its check and its DELETE
    stops,     \* stop requests made
    faults,    \* how many things went wrong
    up,        \* the process: "up", "stopping" or "down"
    cpc,       \* step of the consume loop
    cmsg,      \* the message it handles
    claimed,   \* the task is in currentTasks
    queued,    \* the message whose task waits in taskChan, NoMsg if none
    wpc,       \* [Workers -> step]
    wmsg,      \* [Workers -> message of the task it runs]
    cancelled, \* [Workers -> its task context is cancelled]
    fresh      \* [Workers -> markStopped was given a fresh context]

taskVars == <<status, flag>>
apiVars  == <<pub, lost, setting, removing, stops>>
consVars == <<cpc, cmsg>>
workVars == <<wpc, wmsg, cancelled, fresh>>
vars == <<taskVars, msg, deliveries, apiVars, faults, up, consVars, claimed,
          queued, workVars>>

T == INSTANCE IngestionTask

Terminal == T!Terminal
Active == {"CREATED", "RUNNING", "STOPPING"}

Msgs == 1..MaxMsgs
NoMsg == 0

\* A message is published (ready), delivered and not settled (out), or gone.
MsgState == {"unused", "ready", "out", "gone"}

\* Steps at which a worker's task context is alive and may be cancelled.
Running == {"check", "begin", "clear", "run", "complete", "fail", "stop",
            "stopped", "unflag", "panic"}
WorkerPc == {"idle", "off", "settle", "settled", "ack", "nack", "release"}
                \cup Running

TypeOK ==
    /\ status \in T!TaskStatus
    /\ flag \in BOOLEAN
    /\ msg \in [Msgs -> MsgState]
    /\ deliveries \in [Msgs -> 0..MaxDeliver]
    /\ pub \in {"no", "new", "FAILED", "STOPPED"}
    /\ lost \in BOOLEAN
    /\ setting \in BOOLEAN
    /\ removing \in BOOLEAN
    /\ stops \in 0..MaxStops
    /\ faults \in 0..MaxFaults
    /\ up \in {"up", "stopping", "down"}
    /\ cpc \in {"idle", "start", "claim", "put", "ack"}
    /\ cmsg \in Msgs \cup {NoMsg}
    /\ cpc # "idle" => cmsg \in Msgs
    /\ claimed \in BOOLEAN
    /\ queued \in Msgs \cup {NoMsg}
    /\ wpc \in [Workers -> WorkerPc]
    /\ wmsg \in [Workers -> Msgs \cup {NoMsg}]
    /\ \A w \in Workers : wpc[w] \notin {"idle", "off"} => wmsg[w] \in Msgs
    /\ cancelled \in [Workers -> BOOLEAN]
    /\ fresh \in [Workers -> BOOLEAN]

Init ==
    /\ status = "none"
    /\ flag = FALSE
    /\ msg = [m \in Msgs |-> "unused"]
    /\ deliveries = [m \in Msgs |-> 0]
    /\ pub = "no"
    /\ lost = FALSE
    /\ setting = FALSE
    /\ removing = FALSE
    /\ stops = 0
    /\ faults = 0
    /\ up = "up"
    /\ cpc = "idle"
    /\ cmsg = NoMsg
    /\ claimed = FALSE
    /\ queued = NoMsg
    /\ wpc = [w \in Workers |-> "idle"]
    /\ wmsg = [w \in Workers |-> NoMsg]
    /\ cancelled = [w \in Workers |-> FALSE]
    /\ fresh = [w \in Workers |-> FALSE]

Fault == faults < MaxFaults /\ faults' = faults + 1

-----------------------------------------------------------------------------
(* The broker: a work queue with explicit acknowledgement.                 *)

Acked(m)  == [msg EXCEPT ![m] = "gone"]
\* A negative acknowledgement of a message that was settled does nothing.
Nacked(m) == [msg EXCEPT ![m] = IF @ = "gone" THEN @ ELSE "ready"]

\* A delivery that somebody in the process still has to settle.
Held(m) ==
    \/ cpc # "idle" /\ cmsg = m
    \/ queued = m
    \/ \E w \in Workers : wpc[w] \notin {"idle", "off", "release"} /\ wmsg[w] = m

\* The acknowledgement wait of an abandoned delivery runs out.
Redeliver(m) ==
    /\ msg[m] = "out"
    /\ ~Held(m)
    /\ msg' = [msg EXCEPT ![m] = "ready"]
    /\ UNCHANGED <<taskVars, deliveries, apiVars, faults, up, consVars,
                   claimed, queued, workVars>>

\* That of a held one: no heartbeat is sent while the task waits in the
\* channel or once its context is cancelled, and heartbeats may fail.
AckWaitExpires(m) ==
    /\ msg[m] = "out"
    /\ Held(m)
    /\ Fault
    /\ msg' = [msg EXCEPT ![m] = "ready"]
    /\ UNCHANGED <<taskVars, deliveries, apiVars, up, consVars, claimed,
                   queued, workVars>>

-----------------------------------------------------------------------------
(* API requests: ingestion_task_service.go.                                *)

\* CreateAndEnqueue, first half: a new row, or a retry of a failed or stopped
\* task; any other status is refused.
CreateOrRetry ==
    /\ pub = "no"
    /\ \E m \in Msgs : msg[m] = "unused"
    /\ status \in {"none", "FAILED", "STOPPED"}
    /\ pub' = IF status = "none" THEN "new" ELSE status
    /\ status' = "CREATED"
    /\ UNCHANGED <<flag, msg, deliveries, lost, setting, removing, stops,
                   faults, up, consVars, claimed, queued, workVars>>

\* rollbackCreatedTask and rollbackRetriedTask, from the statuses each allows.
RolledBack ==
    IF pub = "new"
    THEN IF status \in {"RUNNING", "STOPPING"} THEN status ELSE "removed"
    ELSE IF status = "CREATED" THEN pub ELSE status

\* Second half: the message is published, or the row is put back, or that
\* fails as well and the request ends with the row as it is.
Enqueue ==
    /\ pub # "no"
    /\ pub' = "no"
    /\ \/ /\ \E m \in Msgs :
                /\ msg[m] = "unused"
                /\ \A k \in Msgs : k < m => msg[k] # "unused"
                /\ msg' = [msg EXCEPT ![m] = "ready"]
          /\ lost' = FALSE
          /\ UNCHANGED <<status, faults>>
       \/ /\ Fault
          /\ status' = RolledBack
          /\ lost' = FALSE
          /\ UNCHANGED msg
       \/ /\ Fault
          /\ lost' = TRUE
          /\ UNCHANGED <<status, msg>>
    /\ UNCHANGED <<flag, deliveries, setting, removing, stops, up, consVars,
                   claimed, queued, workVars>>

\* RequestStop by a user: the row first, the Redis flag after it.
RequestStop ==
    /\ stops < MaxStops
    /\ stops' = stops + 1
    /\ \/ /\ status = "CREATED"
          /\ status' = "STOPPED"
          /\ UNCHANGED setting
       \/ /\ status = "RUNNING" /\ ~setting
          /\ status' = "STOPPING"
          /\ setting' = TRUE
    /\ UNCHANGED <<flag, msg, deliveries, pub, lost, removing, faults, up,
                   consVars, claimed, queued, workVars>>

SetCancelFlag ==
    /\ setting
    /\ setting' = FALSE
    /\ flag' = TRUE
    /\ UNCHANGED <<status, msg, deliveries, pub, lost, removing, stops, faults,
                   up, consVars, claimed, queued, workVars>>

\* Delete reads the status without a lock, then deletes by id.
CheckRemovable ==
    /\ ~removing
    /\ status \in {"CREATED"} \cup Terminal
    /\ removing' = TRUE
    /\ UNCHANGED <<taskVars, msg, deliveries, pub, lost, setting, stops,
                   faults, up, consVars, claimed, queued, workVars>>

DeleteRow ==
    /\ removing
    /\ removing' = FALSE
    /\ status' = "removed"
    /\ UNCHANGED <<flag, msg, deliveries, pub, lost, setting, stops, faults,
                   up, consVars, claimed, queued, workVars>>

-----------------------------------------------------------------------------
(* The consume loop: consumeLoop and processMessage.                       *)

\* GetMessages; the messages of one fetch are handled one after the other.  A
\* message delivered MaxDeliver times stays at the broker for good.
Fetch(m) ==
    /\ up = "up"
    /\ cpc = "idle"
    /\ msg[m] = "ready"
    /\ deliveries[m] < MaxDeliver
    /\ msg' = [msg EXCEPT ![m] = "out"]
    /\ deliveries' = [deliveries EXCEPT ![m] = @ + 1]
    /\ cpc' = "start"
    /\ cmsg' = m
    /\ UNCHANGED <<taskVars, apiVars, faults, up, claimed, queued, workVars>>

\* Mutant: a task that is being stopped is left as it is.
ActivatedMutant(s) == IF s = "CREATED" THEN "RUNNING" ELSE s

\* The status StartRunning leaves, given the one it finds.
Activated(s) ==
    IF s = "CREATED" THEN "RUNNING" ELSE IF s = "STOPPING" THEN "STOPPED" ELSE s

\* StartRunning: only a task that is running now goes on, the delivery of any
\* other is acknowledged.
StartRunning ==
    /\ cpc = "start"
    /\ up = "up"
    /\ status' = Activated(status)
    /\ cpc' = IF status' = "RUNNING" THEN "claim" ELSE "ack"
    /\ UNCHANGED <<flag, msg, deliveries, apiVars, faults, up, cmsg, claimed,
                   queued, workVars>>

\* The message returns to the broker, the loop to its start.
ConsumerNacks ==
    /\ msg' = Nacked(cmsg)
    /\ cpc' = "idle"
    /\ cmsg' = NoMsg

\* Mutant: the message is acknowledged although the task was not activated.
StartRunningFailsMutant ==
    /\ cpc = "start"
    /\ \/ up = "up" /\ Fault
       \/ up = "stopping" /\ UNCHANGED faults
    /\ msg' = Acked(cmsg)
    /\ cpc' = "idle"
    /\ cmsg' = NoMsg
    /\ UNCHANGED <<taskVars, deliveries, apiVars, up, claimed, queued,
                   workVars>>

\* A database error, or the context of a stopping process.
StartRunningFails ==
    /\ cpc = "start"
    /\ \/ up = "up" /\ Fault
       \/ up = "stopping" /\ UNCHANGED faults
    /\ ConsumerNacks
    /\ UNCHANGED <<taskVars, deliveries, apiVars, up, claimed, queued,
                   workVars>>

\* Mutant: a task that is claimed is scheduled again.
ClaimTaskMutant ==
    /\ cpc = "claim"
    /\ cpc' = "put"
    /\ claimed' = TRUE
    /\ UNCHANGED <<taskVars, msg, deliveries, apiVars, faults, up, cmsg,
                   queued, workVars>>

\* claimTask: a delivery of a claimed task is acknowledged and skipped.
ClaimTask ==
    /\ cpc = "claim"
    /\ cpc' = IF claimed THEN "ack" ELSE "put"
    /\ claimed' = TRUE
    /\ UNCHANGED <<taskVars, msg, deliveries, apiVars, faults, up, cmsg,
                   queued, workVars>>

\* The task goes to the channel; if that is full it is rejected, and the
\* deferred release gives the claim back.
PutTask ==
    /\ cpc = "put"
    /\ \/ /\ queued' = cmsg
          /\ cpc' = "idle"
          /\ cmsg' = NoMsg
          /\ UNCHANGED <<msg, claimed, faults>>
       \/ /\ Fault
          /\ ConsumerNacks
          /\ claimed' = FALSE
          /\ UNCHANGED queued
    /\ UNCHANGED <<taskVars, deliveries, apiVars, up, workVars>>

AckMessage ==
    /\ cpc = "ack"
    /\ msg' = Acked(cmsg)
    /\ cpc' = "idle"
    /\ cmsg' = NoMsg
    /\ UNCHANGED <<taskVars, deliveries, apiVars, faults, up, claimed, queued,
                   workVars>>

Consume ==
    \/ \E m \in Msgs : Fetch(m)
    \/ StartRunning \/ StartRunningFails \/ ClaimTask \/ PutTask \/ AckMessage

-----------------------------------------------------------------------------
(* The workers: executeTask, runTask and settleMessage.                    *)

Goto(w, pc) == wpc' = [wpc EXCEPT ![w] = pc]
KeepOthers == UNCHANGED <<deliveries, apiVars, up, consVars>>

\* Calls made with the task's context fail once it is cancelled.
CtxDone(w) == cancelled[w] \/ up = "stopping"

\* defaultCancelCheck: the flag, or the status of the row.
CancelCheck == flag \/ status = "STOPPING"

\* Mutant: a worker runs what it receives although nothing was queued.
TakeTaskMutant(w) ==
    /\ up # "down"
    /\ wpc[w] = "idle"
    /\ wmsg' = [wmsg EXCEPT ![w] = queued]
    /\ queued' = NoMsg
    /\ Goto(w, "check")
    /\ KeepOthers
    /\ UNCHANGED <<taskVars, msg, faults, claimed, cancelled, fresh>>

\* The select of workerLoop may also choose a task over the end of the context.
TakeTask(w) ==
    /\ up # "down"
    /\ wpc[w] = "idle"
    /\ queued # NoMsg
    /\ wmsg' = [wmsg EXCEPT ![w] = queued]
    /\ queued' = NoMsg
    /\ Goto(w, "check")
    /\ KeepOthers
    /\ UNCHANGED <<taskVars, msg, faults, claimed, cancelled, fresh>>

\* The synchronous check of executeTask.
CheckCancel(w) ==
    /\ wpc[w] = "check"
    /\ cancelled' = [cancelled EXCEPT ![w] = @ \/ CancelCheck]
    /\ Goto(w, "begin")
    /\ KeepOthers
    /\ UNCHANGED <<taskVars, msg, faults, claimed, queued, wmsg, fresh>>

\* pollCancel, until the message is settled.
PollCancel(w) ==
    /\ wpc[w] \in Running \cup {"settle", "settled"}
    /\ CancelCheck
    /\ ~cancelled[w]
    /\ cancelled' = [cancelled EXCEPT ![w] = TRUE]
    /\ KeepOthers
    /\ UNCHANGED <<taskVars, msg, faults, claimed, queued, wpc, wmsg, fresh>>

\* runTask: a cancelled task is stopped with a fresh context; otherwise the run
\* is counted, which may fail.
BeginRun(w) ==
    /\ wpc[w] = "begin"
    /\ \/ /\ Goto(w, IF CtxDone(w) THEN "stop" ELSE "clear")
          /\ fresh' = [fresh EXCEPT ![w] = CtxDone(w)]
          /\ UNCHANGED faults
       \/ /\ ~CtxDone(w) /\ Fault
          /\ Goto(w, "fail")
          /\ UNCHANGED fresh
    /\ KeepOthers
    /\ UNCHANGED <<taskVars, msg, claimed, queued, wmsg, cancelled>>

\* A flag left by an earlier run is deleted, unless the context is done by now.
ClearStaleFlag(w) ==
    /\ wpc[w] = "clear"
    /\ flag' = (flag /\ CtxDone(w))
    /\ Goto(w, "run")
    /\ KeepOthers
    /\ UNCHANGED <<status, msg, faults, claimed, queued, wmsg, cancelled,
                   fresh>>

\* The pipeline ends.  A cancelled one reports that, and markStopped fails at
\* its first call since it is given the cancelled context; a pipeline that
\* ends otherwise then cannot update the row either.
RunPipeline(w) ==
    /\ wpc[w] = "run"
    /\ IF CtxDone(w) THEN Goto(w, "settle")
                     ELSE Goto(w, "complete") \/ Goto(w, "fail")
    /\ KeepOthers
    /\ UNCHANGED <<taskVars, msg, faults, claimed, queued, wmsg, cancelled,
                   fresh>>

Panic(w) ==
    /\ wpc[w] = "run"
    /\ Fault
    /\ Goto(w, "panic")
    /\ KeepOthers
    /\ UNCHANGED <<taskVars, msg, claimed, queued, wmsg, cancelled, fresh>>

\* completeOrSettle: MarkCompleted, or settleToTerminal when a stop was faster.
CompleteTask(w) ==
    /\ wpc[w] = "complete"
    /\ \/ /\ ~CtxDone(w)
          /\ status' = IF status = "RUNNING" THEN "COMPLETED" ELSE status
          /\ Goto(w, CASE status' \in Terminal -> "settled"
                       [] status = "STOPPING"  -> "stop"
                       [] OTHER                -> "settle")
          /\ UNCHANGED faults
       \/ /\ CtxDone(w) /\ Goto(w, "settle") /\ UNCHANGED <<status, faults>>
       \/ /\ Fault /\ Goto(w, "settle") /\ UNCHANGED status
    /\ KeepOthers
    /\ UNCHANGED <<flag, msg, claimed, queued, wmsg, cancelled, fresh>>

\* Mutant: the update of a failed task is not conditional on its status.
FailTaskMutant(w) ==
    /\ wpc[w] \in {"fail", "panic"}
    /\ status' = "FAILED"
    /\ Goto(w, "settled")
    /\ KeepOthers
    /\ UNCHANGED <<flag, msg, faults, claimed, queued, wmsg, cancelled, fresh>>

\* MarkFailed: a terminal status is kept, STOPPING cannot become FAILED.
FailTask(w) ==
    /\ wpc[w] \in {"fail", "panic"}
    /\ LET dead == IF wpc[w] = "fail" THEN CtxDone(w) ELSE up = "stopping"
       IN  \/ /\ ~dead
              /\ status' = IF status = "RUNNING" THEN "FAILED" ELSE status
              /\ Goto(w, IF wpc[w] = "fail" /\ status' \in Terminal
                         THEN "settled" ELSE "settle")
              /\ UNCHANGED faults
           \/ /\ dead /\ Goto(w, "settle") /\ UNCHANGED <<status, faults>>
           \/ /\ Fault /\ Goto(w, "settle") /\ UNCHANGED status
    /\ KeepOthers
    /\ UNCHANGED <<flag, msg, claimed, queued, wmsg, cancelled, fresh>>

\* The context markStopped was given is done.
StopDone(w) == ~fresh[w] /\ CtxDone(w)

\* markStopped, first call: RequestStop, which sets the flag itself.
StopTask(w) ==
    /\ wpc[w] = "stop"
    /\ \/ /\ ~StopDone(w)
          /\ status' = CASE status = "CREATED" -> "STOPPED"
                         [] status = "RUNNING" -> "STOPPING"
                         [] OTHER              -> status
          /\ flag' = (flag \/ status = "RUNNING")
          /\ Goto(w, IF status = "removed" THEN "settle" ELSE "stopped")
          /\ UNCHANGED faults
       \/ StopDone(w) /\ Goto(w, "settle") /\ UNCHANGED <<taskVars, faults>>
       \/ Fault /\ Goto(w, "settle") /\ UNCHANGED taskVars
    /\ KeepOthers
    /\ UNCHANGED <<msg, claimed, queued, wmsg, cancelled, fresh>>

\* Second call: MarkStopped.
MarkStopped(w) ==
    /\ wpc[w] = "stopped"
    /\ \/ /\ ~StopDone(w)
          /\ status' = IF status \in {"CREATED", "STOPPING"} THEN "STOPPED"
                       ELSE status
          /\ Goto(w, IF status' \in Terminal THEN "unflag" ELSE "settle")
          /\ UNCHANGED faults
       \/ StopDone(w) /\ Goto(w, "settle") /\ UNCHANGED <<status, faults>>
       \/ Fault /\ Goto(w, "settle") /\ UNCHANGED status
    /\ KeepOthers
    /\ UNCHANGED <<flag, msg, claimed, queued, wmsg, cancelled, fresh>>

\* Last, best-effort: the flag is deleted.
ClearFlag(w) ==
    /\ wpc[w] = "unflag"
    /\ flag' = (flag /\ StopDone(w))
    /\ Goto(w, "settled")
    /\ KeepOthers
    /\ UNCHANGED <<status, msg, faults, claimed, queued, wmsg, cancelled,
                   fresh>>

\* settleMessage asks the database; only if that fails it trusts the outcome
\* the worker remembers.
Settle(w) ==
    /\ wpc[w] \in {"settle", "settled"}
    /\ \/ /\ up = "up" /\ status # "removed"
          /\ Goto(w, IF status \in Terminal THEN "ack" ELSE "nack")
          /\ UNCHANGED faults
       \/ /\ up = "stopping" \/ status = "removed"
          /\ Goto(w, IF wpc[w] = "settled" THEN "ack" ELSE "nack")
          /\ UNCHANGED faults
       \/ /\ up = "up" /\ Fault
          /\ Goto(w, IF wpc[w] = "settled" THEN "ack" ELSE "nack")
    /\ KeepOthers
    /\ UNCHANGED <<taskVars, msg, claimed, queued, wmsg, cancelled, fresh>>

AckOrNack(w) ==
    /\ wpc[w] \in {"ack", "nack"}
    /\ msg' = IF wpc[w] = "ack" THEN Acked(wmsg[w]) ELSE Nacked(wmsg[w])
    /\ Goto(w, "release")
    /\ KeepOthers
    /\ UNCHANGED <<taskVars, faults, claimed, queued, wmsg, cancelled, fresh>>

\* The deferred calls of executeTask: the poller ends, the claim is released.
ReleaseTask(w) ==
    /\ wpc[w] = "release"
    /\ claimed' = FALSE
    /\ cancelled' = [cancelled EXCEPT ![w] = FALSE]
    /\ fresh' = [fresh EXCEPT ![w] = FALSE]
    /\ wmsg' = [wmsg EXCEPT ![w] = NoMsg]
    /\ Goto(w, "idle")
    /\ KeepOthers
    /\ UNCHANGED <<taskVars, msg, faults, queued>>

Execute(w) ==
    \/ TakeTask(w) \/ CheckCancel(w) \/ BeginRun(w) \/ ClearStaleFlag(w)
    \/ RunPipeline(w) \/ CompleteTask(w) \/ FailTask(w) \/ StopTask(w)
    \/ MarkStopped(w) \/ ClearFlag(w) \/ Settle(w) \/ AckOrNack(w)
    \/ ReleaseTask(w)

-----------------------------------------------------------------------------
(* The process.                                                            *)

\* Stop: the root context is cancelled, running work is waited for.
Stop ==
    /\ up = "up"
    /\ Fault
    /\ up' = "stopping"
    /\ UNCHANGED <<taskVars, msg, deliveries, apiVars, consVars, claimed,
                   queued, workVars>>

\* The process ends: after Stop, whose wait is bounded, or by a crash.
Exit ==
    /\ \/ up = "stopping" /\ UNCHANGED faults
       \/ up = "up" /\ Fault
    /\ up' = "down"
    /\ cpc' = "idle"
    /\ cmsg' = NoMsg
    /\ claimed' = FALSE
    /\ queued' = NoMsg
    /\ wpc' = [w \in Workers |-> "off"]
    /\ wmsg' = [w \in Workers |-> NoMsg]
    /\ cancelled' = [w \in Workers |-> FALSE]
    /\ fresh' = [w \in Workers |-> FALSE]
    /\ UNCHANGED <<taskVars, msg, deliveries, apiVars>>

Restart ==
    /\ up = "down"
    /\ up' = "up"
    /\ wpc' = [w \in Workers |-> "idle"]
    /\ UNCHANGED <<taskVars, msg, deliveries, apiVars, faults, consVars,
                   claimed, queued, wmsg, cancelled, fresh>>

Api ==
    \/ CreateOrRetry \/ Enqueue \/ RequestStop \/ SetCancelFlag
    \/ CheckRemovable \/ DeleteRow

Next ==
    \/ Api
    \/ Consume
    \/ \E w \in Workers : Execute(w) \/ PollCancel(w) \/ Panic(w)
    \/ \E m \in Msgs : Redeliver(m) \/ AckWaitExpires(m)
    \/ Stop \/ Exit \/ Restart

Spec == Init /\ [][Next]_vars

\* Requests that began are finished; the loop, the workers, the pollers and
\* the broker keep going; a process is started again.
FairSpec ==
    /\ Spec
    /\ WF_vars(Enqueue) /\ WF_vars(SetCancelFlag) /\ WF_vars(DeleteRow)
    /\ WF_vars(Consume)
    /\ \A w \in Workers : WF_vars(Execute(w)) /\ WF_vars(PollCancel(w))
    /\ \A m \in Msgs : WF_vars(Redeliver(m))
    /\ WF_vars(Exit /\ up = "stopping") /\ WF_vars(Restart)

-----------------------------------------------------------------------------
(* Properties.                                                             *)

\* The task is in at most one place of the process: being enqueued, waiting in
\* the channel or held by one worker, however often its messages are
\* redelivered and whatever is retried; and the claim covers all of it.
OneWorkerPerTask ==
    LET held == {w \in Workers : wpc[w] \notin {"idle", "off"}}
    IN  /\ \A v, w \in held : v = w
        /\ held # {} => queued = NoMsg /\ cpc # "put" /\ claimed
        /\ queued # NoMsg => cpc # "put" /\ claimed
        /\ cpc = "put" => claimed

\* A request in progress is about a task that was created.
RequestsKnown == (pub # "no" \/ removing) => status # "none"

\* The inductive invariant of the proofs.
IInv == TypeOK /\ OneWorkerPerTask /\ RequestsKnown

\* Message m, not answered yet, is with the consume loop or can be delivered.
CanStart(m) ==
    /\ msg[m] \in {"ready", "out"}
    /\ deliveries[m] < MaxDeliver \/ (cpc = "start" /\ cmsg = m)

\* A created task is not forgotten: once its request is over, a message that
\* can still start it is at the broker or with the consume loop.  Two things
\* do strand the row (CreateAndEnqueue, InitConsumer): a message that could
\* not be published and a rollback that failed too, and as many faults as the
\* broker makes deliveries.
CreatedIsQueued ==
    status = "CREATED" /\ pub = "no" /\ ~lost /\ faults < MaxDeliver
        => \E m \in Msgs : CanStart(m)

\* The numbers of the messages not published yet are above all others, and
\* nothing in the process holds one of them.
UnusedUntouched ==
    \A m \in Msgs : msg[m] = "unused" =>
        /\ \A k \in Msgs : m < k => msg[k] = "unused"
        /\ deliveries[m] = 0
        /\ cmsg # m /\ queued # m
        /\ \A w \in Workers : wmsg[w] # m

\* The consume loop has m and will start its task unless something fails.
Starting(m) == msg[m] = "out" /\ up = "up" /\ cpc = "start" /\ cmsg = m

\* Each delivery of m but the present one was lost to a fault.
Paid(m) ==
    deliveries[m] <= faults \/ (Starting(m) /\ deliveries[m] <= faults + 1)

\* Message m is the newest, and nobody has started the task for it.
Waiting(m) ==
    /\ msg[m] \in {"ready", "out"}
    /\ \A k \in Msgs : m < k => msg[k] = "unused"
    /\ queued # m
    /\ \A w \in Workers : wmsg[w] # m
    /\ cmsg = m => cpc \in {"idle", "start"}
    /\ Paid(m)

\* The strengthening that makes CreatedIsQueued inductive: it is the newest
\* message, which no earlier run can acknowledge, that waits.
NewestWaits ==
    /\ UnusedUntouched
    /\ status = "CREATED" /\ pub = "no" /\ ~lost => \E m \in Msgs : Waiting(m)

\* The row's status moves as the service promises, whoever moves it.
ImplementsTask == T!Spec

\* The first run of a task, stopped by its user or not, comes to an end as
\* long as nothing fails and it is not retried.
FirstRunSettles ==
    status \in Active ~> \/ status \notin Active
                         \/ faults > 0
                         \/ \E m \in Msgs : m > 1 /\ msg[m] # "unused"

\* "Nack otherwise so the broker redelivers and resumes" (ackOrNack): as long
\* as nothing fails, every task that was started comes to an end.
EveryRunSettles ==
    status \in Active ~> status \notin Active \/ faults > 0

=============================================================================
