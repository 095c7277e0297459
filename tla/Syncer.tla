------------------------------- MODULE Syncer -------------------------------
(***************************************************************************)
(* The datasource syncer of the Go server (internal/syncer): a scheduler   *)
(* that recovers, lists, claims and enqueues the due rows of sync_logs, a  *)
(* pool of workers that execute them under a process-local connector lock, *)
(* the rows' status machine (internal/dao/sync_task.go), the connector API *)
(* that pauses and resumes them (internal/service/connector.go), and the   *)
(* source the documents come from.                                         *)
(*                                                                         *)
(* A row is named by its link (a connector attached to a dataset), its     *)
(* task type and a slot: a slot is used again once its row has ended and   *)
(* nobody holds its id, so a bounded number of slots stands for the        *)
(* unbounded table.  Time is the number of changes made at the sources,    *)
(* and the number of the change that made it names a version of a          *)
(* document; the time the source reports for a version is another matter.  *)
(***************************************************************************)
EXTENDS Integers, Sequences, FiniteSets

CONSTANTS
    Connectors,   \* rows of the connector table
    Links,        \* rows of connector2kb
    ConnOf,       \* the connector of a link
    Docs,         \* documents a source can hold
    Workers,      \* goroutines of TaskWorker.Run
    Exact,        \* connectors whose sessions return what their windows and
                  \* snapshots hold, see IsPage
    PruneOn,      \* the connector's sync_deleted_files flag
    QueueSize,    \* capacity of the task channel
    Slots,        \* bound: rows kept per link and task type
    MaxClock,     \* bound: changes made at the sources
    MaxFaults     \* bound: failed calls, stops, crashes and API requests

ASSUME SyncerAssumption ==
    /\ ConnOf \in [Links -> Connectors]
    /\ Exact \subseteq Connectors
    /\ PruneOn \in BOOLEAN
    /\ QueueSize \in Nat \ {0}
    /\ Slots \in SUBSET Nat
    /\ MaxClock \in Nat
    /\ MaxFaults \in Nat

Types == {"sync", "prune"}

\* Ids of sync_logs rows: link, task type, slot.
Ids == Links \X Types \X Slots
LinkOf(i) == i[1]
TypeOf(i) == i[2]
ConnectorOf(i) == ConnOf[i[1]]

Times == 0..MaxClock

VARIABLES
    status,    \* [Ids -> status of the row]
    start,     \* [Ids -> poll_range_start]; 0 is NULL, the whole source
    conn,      \* [Connectors -> connector status]
    marks,     \* [Links -> poll_range_ends of the SYNC rows that completed]
    now,       \* the clock
    src,       \* [Connectors -> [Docs -> version at the source, 0 absent]]
    stamp,     \* [version -> the update time its source reports]
    backdated, \* history: versions whose update time was covered already when
               \* they were made, see Covered
    idx,       \* [Links -> [Docs -> version of the stored copy, 0 none]]
    up,        \* the syncer process: "up", "stopping" or "down"
    faults,    \* how many calls failed, stops, crashes and requests there were
    spc,       \* the scheduler's step
    todo,      \* listed tasks the scan has not claimed yet
    cur,       \* the task the scan has claimed
    queue,     \* the task channel
    lock,      \* ConnectorLock.locked
    wpc,       \* [Workers -> step of the worker]
    wid,       \* [Workers -> the task it handles]
    wend,      \* [Workers -> windowEnd]
    cand,      \* [Workers -> candidateEnd]
    view,      \* [Workers -> [Docs -> version when the session was opened]]
    left,      \* [Workers -> documents not paged through yet]
    pend,      \* [Workers -> [Docs -> listed version to upsert, 0 none]]
    bad,       \* [Workers -> an item of the batch failed]
    keep,      \* [Workers -> retain set of a PRUNE, then what it deletes]
    api        \* [Connectors -> step of UpdateConnector]

rowVars  == <<status, start>>
dbVars   == <<status, start, conn, marks>>
srcVars  == <<now, src, stamp, backdated>>
dataVars == <<srcVars, idx>>
procVars == <<up, faults>>
schVars  == <<spc, todo, cur>>
runVars  == <<wend, cand, view, left, pend, bad, keep>>
workVars == <<lock, wpc, wid, runVars>>
vars == <<dbVars, dataVars, procVars, schVars, queue, lock, wpc, wid, runVars,
          api>>

NoId == <<>>
\* "ended" stands for DONE, FAIL and CANCEL, which no code here tells apart
\* (what a completed row leaves behind is in marks), and for an unused row.
RowStatus  == {"ended", "schedule", "running", "late"}
\* A late row is stored as running; its timeout has passed.
Running == {"running", "late"}
ConnStatus == {"ended", "schedule", "running"}
WorkerPc == {"idle", "lock", "page", "item", "prune", "fail", "unlock",
             "off"}

\* Steps at which a worker holds its connector's lock.
Executing == {"page", "item", "prune", "fail", "unlock"}
\* Steps within Run of the SYNC or the PRUNE runner.
InRunner == {"page", "item", "prune"}

TypeOK ==
    /\ status \in [Ids -> RowStatus]
    /\ start \in [Ids -> Times]
    /\ conn \in [Connectors -> ConnStatus]
    /\ marks \in [Links -> SUBSET Times]
    /\ now \in Times
    /\ src \in [Connectors -> [Docs -> Times]]
    /\ stamp \in [Times -> Times]
    /\ backdated \in SUBSET Times
    /\ idx \in [Links -> [Docs -> Times]]
    /\ up \in {"up", "stopping", "down"}
    /\ faults \in 0..MaxFaults
    /\ spc \in {"idle", "list", "claim", "mark", "put", "off"}
    /\ todo \in SUBSET Ids
    /\ cur \in Ids \cup {NoId}
    /\ spc \in {"mark", "put"} => cur \in Ids
    /\ queue \in Seq(Ids)
    /\ lock \in SUBSET Connectors
    /\ wpc \in [Workers -> WorkerPc]
    /\ wid \in [Workers -> Ids \cup {NoId}]
    /\ \A w \in Workers : wpc[w] \notin {"idle", "off"} => wid[w] \in Ids
    /\ wend \in [Workers -> Times]
    /\ cand \in [Workers -> Times]
    /\ view \in [Workers -> [Docs -> Times]]
    /\ left \in [Workers -> SUBSET Docs]
    /\ pend \in [Workers -> [Docs -> Times]]
    /\ bad \in [Workers -> BOOLEAN]
    /\ keep \in [Workers -> SUBSET Docs]
    /\ api \in [Connectors -> {"none", "pause", "cancelled", "schedule"}]

\* One of the events the bound limits: what goes wrong and what users do.
Fault == faults < MaxFaults /\ faults' = faults + 1

-----------------------------------------------------------------------------
(* The rows: internal/dao/sync_task.go and internal/dao/connector.go.      *)

\* An id the scheduler, the channel or a worker of W still uses: its slot is
\* not used again.  A worker that only has to unlock needs no more than the
\* connector.
Held(i, W) ==
    \/ i \in todo
    \/ i = cur
    \/ \E n \in DOMAIN queue : queue[n] = i
    \/ \E w \in W : wid[w] = i /\ wpc[w] # "unlock"

Free(st, i, W) == st[i] = "ended" /\ ~Held(i, W)

\* The slot a new row of a link and type takes, given the statuses st: any of
\* the free ones, the lowest to keep the state space small.
IsFresh(st, i, W) ==
    /\ Free(st, i, W)
    /\ \A s \in Slots : s < i[3] => ~Free(st, <<i[1], i[2], s>>, W)

HasFresh(st, l, t, W) == \E s \in Slots : Free(st, <<l, t, s>>, W)

\* "existing > 0": the link has a scheduled row of the type.
Existing(st, l, t) == \E s \in Slots : st[<<l, t, s>>] = "schedule"

\* createScheduledTask in the transaction in which worker w ends its row i:
\* the next row of the same link and type, starting at from, unless one is
\* scheduled already.
CreateNext(w, i, from) ==
    LET ended == [status EXCEPT ![i] = "ended"]
        wanted == ~Existing(ended, i[1], i[2])
        New(k) == /\ wanted /\ k[1] = i[1] /\ k[2] = i[2]
                  /\ IsFresh(ended, k, Workers \ {w})
    IN  /\ wanted => HasFresh(ended, i[1], i[2], Workers \ {w})
        /\ status' = [k \in Ids |-> IF New(k) THEN "schedule" ELSE ended[k]]
        /\ start'  = [k \in Ids |-> IF New(k) THEN from ELSE start[k]]

\* RescheduleClaimed: only a row that is still running goes back, and with it
\* its connector if that is running.
RescheduleClaimed(i) ==
    /\ status' = [status EXCEPT ![i] = IF @ \in Running THEN "schedule" ELSE @]
    /\ conn'   = [conn EXCEPT ![ConnectorOf(i)] =
                    IF status[i] \in Running /\ @ = "running"
                    THEN "schedule" ELSE @]
    /\ UNCHANGED <<start, marks>>

\* FailTask with a connector id: whatever the row's status is.
FailTask(i) ==
    /\ status' = [status EXCEPT ![i] = "ended"]
    /\ conn'   = [conn EXCEPT ![ConnectorOf(i)] = "ended"]
    /\ UNCHANGED <<start, marks>>

\* FailTask with an empty connector id.
FailTaskOnly(i) ==
    /\ status' = [status EXCEPT ![i] = "ended"]
    /\ UNCHANGED <<start, conn, marks>>

CompleteSyncTask(w, i, end) ==
    /\ CreateNext(w, i, end)
    /\ conn'  = [conn EXCEPT ![ConnectorOf(i)] = "ended"]
    /\ marks' = [marks EXCEPT ![LinkOf(i)] = @ \cup {end}]

CompletePruneTask(w, i) ==
    /\ IF PruneOn
       THEN CreateNext(w, i, 0)
       ELSE /\ status' = [status EXCEPT ![i] = "ended"]
            /\ UNCHANGED start
    /\ conn' = [conn EXCEPT ![ConnectorOf(i)] = "ended"]
    /\ UNCHANGED marks

\* timeout_secs have passed since a running row was claimed.  That it happens
\* while somebody still holds the row counts as a fault: a call hangs.
Timeout(i) ==
    /\ status[i] = "running"
    /\ status' = [status EXCEPT ![i] = "late"]
    /\ IF Held(i, Workers) THEN Fault ELSE UNCHANGED faults
    /\ UNCHANGED <<start, conn, marks, dataVars, up, schVars,
                   queue, workVars, api>>

-----------------------------------------------------------------------------
(* The scheduler: internal/syncer/scheduler.go.                            *)

\* A call to the database or the source fails: at any time, within the bound,
\* and for certain once the context is cancelled.
CallFails ==
    \/ up = "up" /\ Fault
    \/ up = "stopping" /\ UNCHANGED faults

\* Mutant: only rows whose connector was marked are recovered.
StaleRunningMutant ==
    {i \in Ids : status[i] = "late" /\ conn[ConnectorOf(i)] = "running"}

StaleRunning == {i \in Ids : status[i] = "late"}

\* RescheduleClaimed on every row of S, then the connectors of S.
Recover(S) ==
    /\ status' = [i \in Ids |-> IF i \in S THEN "schedule" ELSE status[i]]
    /\ conn'   = [c \in Connectors |->
                    IF conn[c] = "running" /\ \E i \in S : ConnectorOf(i) = c
                    THEN "schedule" ELSE conn[c]]
    /\ UNCHANGED <<start, marks>>

\* scan begins on start-up and on every tick of the poll interval.
RecoverStaleRunning ==
    /\ up = "up" /\ spc = "idle"
    /\ Recover(StaleRunning)
    /\ spc' = "list"
    /\ UNCHANGED <<dataVars, procVars, todo, cur, queue, workVars, api>>

AfterClaim(t) == IF t = {} THEN "idle" ELSE "claim"

Schedulable ==
    {i \in Ids : /\ status[i] = "schedule"
                 /\ conn[ConnectorOf(i)] = "schedule"
                 /\ TypeOf(i) = "prune" => PruneOn}

\* Which of them are due is a matter of refresh_freq, prune_freq and the time
\* of their last update (isDue).
ListDueTasks(S) ==
    /\ up = "up" /\ spc = "list" /\ S \in SUBSET Schedulable
    /\ todo' = S /\ spc' = AfterClaim(S)
    /\ UNCHANGED <<dbVars, dataVars, procVars, cur, queue, workVars, api>>

\* ClaimTask: the conditional update, which a pause may have forestalled.
Claim(i) ==
    /\ up = "up" /\ spc = "claim" /\ i \in todo
    /\ todo' = todo \ {i}
    /\ IF status[i] = "schedule"
       THEN /\ status' = [status EXCEPT ![i] = "running"]
            /\ cur' = i /\ spc' = "mark"
       ELSE /\ spc' = AfterClaim(todo')
            /\ UNCHANGED <<status, cur>>
    /\ UNCHANGED <<start, conn, marks, dataVars, procVars, queue, workVars,
                   api>>

\* The rest of Claim: GetTaskContext and MarkConnectorRunning.
MarkConnectorRunning ==
    /\ up = "up" /\ spc = "mark"
    /\ conn' = [conn EXCEPT ![ConnectorOf(cur)] = "running"]
    /\ spc' = "put"
    /\ UNCHANGED <<rowVars, marks, dataVars, procVars, todo, cur, queue,
                   workVars, api>>

\* A call of the scan fails.  The recovery may have reached some rows; the
\* query ends the scan; a claim is skipped, and so is a task that was claimed
\* but whose connector was not marked: its row stays running.
ScanError ==
    /\ CallFails
    /\ \/ /\ spc = "idle"
          /\ \E S \in SUBSET StaleRunning : Recover(S)
          /\ UNCHANGED schVars
       \/ /\ spc = "list" /\ spc' = "idle"
          /\ UNCHANGED <<dbVars, todo, cur>>
       \/ /\ spc = "claim"
          /\ \E i \in todo : todo' = todo \ {i}
          /\ spc' = AfterClaim(todo')
          /\ UNCHANGED <<dbVars, cur>>
       \/ /\ spc = "mark" /\ spc' = AfterClaim(todo) /\ cur' = NoId
          /\ UNCHANGED <<dbVars, todo>>
    /\ UNCHANGED <<dataVars, up, queue, workVars, api>>

\* The send on the bounded channel blocks while it is full.
Enqueue ==
    /\ up # "down" /\ spc = "put" /\ Len(queue) < QueueSize
    /\ queue' = Append(queue, cur)
    /\ cur' = NoId /\ spc' = AfterClaim(todo)
    /\ UNCHANGED <<dbVars, dataVars, procVars, todo, workVars, api>>

\* Scheduler.Run returns once its context is cancelled; a claimed task that
\* was not sent stays running.
SchedulerExit ==
    /\ up = "stopping" /\ spc # "off"
    /\ spc' = "off" /\ todo' = {} /\ cur' = NoId
    /\ UNCHANGED <<dbVars, dataVars, procVars, queue, workVars, api>>

-----------------------------------------------------------------------------
(* The workers: internal/syncer/task_worker.go and task_coordinator.go.    *)

Goto(w, pc) == wpc' = [wpc EXCEPT ![w] = pc]

\* The runner returns: its local variables are gone.
Discard(w) ==
    /\ wend' = [wend EXCEPT ![w] = 0]
    /\ cand' = [cand EXCEPT ![w] = 0]
    /\ view' = [view EXCEPT ![w] = [d \in Docs |-> 0]]
    /\ left' = [left EXCEPT ![w] = {}]
    /\ pend' = [pend EXCEPT ![w] = [d \in Docs |-> 0]]
    /\ bad'  = [bad EXCEPT ![w] = FALSE]
    /\ keep' = [keep EXCEPT ![w] = {}]

\* handle returns: the worker is back in its loop.
Return(w) ==
    /\ Goto(w, "idle")
    /\ wid' = [wid EXCEPT ![w] = NoId]

\* The worker takes a task and loads its context, which never changes.  It
\* does not look at the row's status: a row that was cancelled, recovered or
\* completed meanwhile is executed all the same.
Receive(w) ==
    /\ up # "down" /\ wpc[w] = "idle" /\ queue # <<>>
    /\ wid' = [wid EXCEPT ![w] = Head(queue)]
    /\ queue' = Tail(queue)
    /\ Goto(w, "lock")
    /\ UNCHANGED <<dbVars, dataVars, procVars, schVars, lock, runVars, api>>

\* GetContext fails: the row is failed, or put back when the syncer is
\* stopping; that call may fail as well.
GetContextError(w) ==
    /\ wpc[w] = "lock" /\ CallFails
    /\ \/ up = "up" /\ FailTaskOnly(wid[w])
       \/ up = "stopping" /\ RescheduleClaimed(wid[w])
       \/ UNCHANGED dbVars
    /\ Return(w)
    /\ UNCHANGED <<dataVars, up, schVars, queue, lock, runVars,
                   api>>

\* Mutant: the registry is written but not looked at.
TryLockMutant(w) ==
    /\ up = "up" /\ wpc[w] = "lock"
    /\ lock' = lock \cup {ConnectorOf(wid[w])}
    /\ wend' = [wend EXCEPT ![w] = now]
    /\ cand' = [cand EXCEPT ![w] = start[wid[w]]]
    /\ view' = [view EXCEPT ![w] = src[ConnectorOf(wid[w])]]
    /\ left' = [left EXCEPT ![w] = Docs]
    /\ pend' = [pend EXCEPT ![w] = [d \in Docs |-> 0]]
    /\ bad'  = [bad EXCEPT ![w] = FALSE]
    /\ keep' = [keep EXCEPT ![w] = {}]
    /\ Goto(w, "page")
    /\ UNCHANGED <<dbVars, dataVars, procVars, schVars, queue, wid, api>>

\* TryLock succeeds and Execute opens the connector, which may read the source
\* now (the RSS feed is read once), and its session: a SYNC window ends now and
\* starts at the row's waterline.
TryLock(w) ==
    /\ up = "up" /\ wpc[w] = "lock"
    /\ ConnectorOf(wid[w]) \notin lock
    /\ lock' = lock \cup {ConnectorOf(wid[w])}
    /\ wend' = [wend EXCEPT ![w] = now]
    /\ cand' = [cand EXCEPT ![w] = start[wid[w]]]
    /\ view' = [view EXCEPT ![w] = src[ConnectorOf(wid[w])]]
    /\ left' = [left EXCEPT ![w] = Docs]
    /\ pend' = [pend EXCEPT ![w] = [d \in Docs |-> 0]]
    /\ bad'  = [bad EXCEPT ![w] = FALSE]
    /\ keep' = [keep EXCEPT ![w] = {}]
    /\ Goto(w, "page")
    /\ UNCHANGED <<dbVars, dataVars, procVars, schVars, queue, wid, api>>

\* TryLock fails: the task is put back, unless that call fails.
Busy(w) ==
    /\ up # "down" /\ wpc[w] = "lock"
    /\ ConnectorOf(wid[w]) \in lock
    /\ \/ up = "up" /\ RescheduleClaimed(wid[w]) /\ UNCHANGED faults
       \/ CallFails /\ UNCHANGED dbVars
    /\ Return(w)
    /\ UNCHANGED <<dataVars, up, schVars, queue, lock, runVars,
                   api>>

\* Execute returns an error: opening, paging, deleting or committing failed,
\* or the context was cancelled.
ExecuteError(w) ==
    /\ wpc[w] \in {"page", "prune"} /\ CallFails
    /\ Discard(w)
    /\ Goto(w, "fail")
    /\ UNCHANGED <<dbVars, dataVars, up, schVars, queue, lock, wid,
                   api>>

\* Execute failed: the task is failed, or put back when the syncer is
\* stopping; either call may fail as well.
HandleError(w) ==
    /\ up # "down" /\ wpc[w] = "fail"
    /\ \/ up = "up" /\ FailTask(wid[w])
       \/ up = "stopping" /\ RescheduleClaimed(wid[w])
       \/ UNCHANGED dbVars
    /\ Goto(w, "unlock")
    /\ UNCHANGED <<dataVars, procVars, schVars, queue, lock, wid, runVars,
                   api>>

Unlock(w) ==
    /\ up # "down" /\ wpc[w] = "unlock"
    /\ lock' = lock \ {ConnectorOf(wid[w])}
    /\ Return(w)
    /\ UNCHANGED <<dbVars, dataVars, procVars, schVars, queue, runVars, api>>

WorkerExit(w) ==
    /\ up = "stopping" /\ wpc[w] = "idle"
    /\ Goto(w, "off")
    /\ UNCHANGED <<dbVars, dataVars, procVars, schVars, queue, lock, wid,
                   runVars, api>>

-----------------------------------------------------------------------------
(* A SYNC task: internal/syncer/sync_runner.go.                            *)

\* The session's filter (github.go, rss.go): after windowStart and not after
\* windowEnd.  A missing windowStart is 0.
InWindow(t, from, to) == t > from /\ t <= to

\* A page of the session that covers the documents B.  A document is seen as it
\* is now or as it was when the session was opened, and filtered by its update
\* time.  Not every session does that: Gmail's has no upper bound, or bounds
\* some message of the thread instead of the time it reports, and a numbered
\* page of GitHub's leaves out what moved up when another issue went away.  Of
\* those a page may hold any document of the source, or not.
IsPage(w, B, page) ==
    LET c == ConnectorOf(wid[w])
        Shown(v) == IF InWindow(stamp[v], start[wid[w]], wend[w]) THEN v ELSE 0
    IN  \A d \in Docs :
            IF d \notin B THEN page[d] = 0
            ELSE \/ page[d] \in {Shown(src[c][d]), Shown(view[w][d])}
                 \/ c \notin Exact /\ page[d] \in {0, src[c][d]}

\* t is the latest of u and the update times of a page.
IsLatest(t, u, page) ==
    /\ t = u \/ \E d \in Docs : t = stamp[page[d]]
    /\ t >= u /\ \A d \in Docs : t >= stamp[page[d]]

NextBatch(w, B) ==
    /\ up = "up" /\ wpc[w] = "page" /\ TypeOf(wid[w]) = "sync"
    /\ B \in SUBSET left[w] /\ B # {}
    /\ left' = [left EXCEPT ![w] = @ \ B]
    /\ \E page \in [Docs -> Times], t \in Times :
          /\ IsPage(w, B, page) /\ IsLatest(t, cand[w], page)
          /\ pend' = [pend EXCEPT ![w] = page]
          /\ cand' = [cand EXCEPT ![w] = t]
    /\ Goto(w, "item")
    /\ UNCHANGED <<dbVars, dataVars, procVars, schVars, queue, lock, wid, wend,
                   view, bad, keep, api>>

\* processDocument of one goroutine of the batch.  A document whose stored
\* fingerprint is the listed one is skipped, which changes nothing either.
Upsert(w, d) ==
    /\ up = "up" /\ wpc[w] = "item" /\ pend[w][d] # 0
    /\ idx' = [idx EXCEPT ![LinkOf(wid[w])][d] = pend[w][d]]
    /\ pend' = [pend EXCEPT ![w][d] = 0]
    /\ UNCHANGED <<dbVars, srcVars, procVars, schVars, queue, lock, wpc, wid,
                   wend, cand, view, left, bad, keep, api>>

\* The retries of one document are used up, or the context was cancelled.
ItemError(w, d) ==
    /\ wpc[w] = "item" /\ pend[w][d] # 0 /\ CallFails
    /\ pend' = [pend EXCEPT ![w][d] = 0]
    /\ bad' = [bad EXCEPT ![w] = TRUE]
    /\ UNCHANGED <<dbVars, dataVars, up, schVars, queue, lock, wpc,
                   wid, wend, cand, view, left, keep, api>>

\* wg.Wait: every goroutine of the batch has ended.
BatchDone(w) ==
    /\ up # "down" /\ wpc[w] = "item"
    /\ \A d \in Docs : pend[w][d] = 0
    /\ IF bad[w]
       THEN Discard(w) /\ Goto(w, "fail")
       ELSE Goto(w, "page") /\ UNCHANGED runVars
    /\ UNCHANGED <<dbVars, dataVars, procVars, schVars, queue, lock, wid,
                   api>>

\* Mutants: the end of the window is taken when the session is over; the next
\* window starts one tick later.
CandidateEndLate(w) == IF cand[w] = 0 THEN now ELSE cand[w]
CandidateEndPlus(w) == (IF cand[w] = 0 THEN wend[w] ELSE cand[w]) + 1

\* io.EOF: the waterline is the latest update time seen, and the end of the
\* window when there is neither a document nor an earlier waterline.
CandidateEnd(w) == IF cand[w] = 0 THEN wend[w] ELSE cand[w]

CompleteSync(w) ==
    /\ up = "up" /\ wpc[w] = "page" /\ TypeOf(wid[w]) = "sync"
    /\ left[w] = {}
    /\ CompleteSyncTask(w, wid[w], CandidateEnd(w))
    /\ Discard(w)
    /\ Goto(w, "unlock")
    /\ UNCHANGED <<dataVars, procVars, schVars, queue, lock, wid, api>>

-----------------------------------------------------------------------------
(* A PRUNE task: internal/syncer/prune_runner.go, sync_prune_service.go.   *)

\* A batch of the snapshot holds the documents of B that are there, and of
\* those that came or went since the session was opened any; that of a session
\* that is not exact may lack others.
IsSnapshot(w, B, K) ==
    LET c == ConnectorOf(wid[w])
    IN  /\ \A d \in K : d \in B /\ (src[c][d] # 0 \/ view[w][d] # 0)
        /\ c \in Exact =>
             \A d \in B : src[c][d] # 0 /\ view[w][d] # 0 => d \in K

SnapshotBatch(w, B) ==
    /\ up = "up" /\ wpc[w] = "page" /\ TypeOf(wid[w]) = "prune"
    /\ B \in SUBSET left[w] /\ B # {}
    /\ left' = [left EXCEPT ![w] = @ \ B]
    /\ \E K \in SUBSET Docs : /\ IsSnapshot(w, B, K)
                              /\ keep' = [keep EXCEPT ![w] = @ \cup K]
    /\ UNCHANGED <<dbVars, dataVars, procVars, schVars, queue, lock, wpc, wid,
                   wend, cand, view, pend, bad, api>>

\* Mutant: a snapshot that is not complete is used.
ListIDsMutant(w) ==
    /\ up = "up" /\ wpc[w] = "page" /\ TypeOf(wid[w]) = "prune"
    /\ keep' = [keep EXCEPT ![w] =
                  {d \in Docs : idx[LinkOf(wid[w])][d] # 0} \ @]
    /\ Goto(w, "prune")
    /\ UNCHANGED <<dbVars, dataVars, procVars, schVars, queue, lock, wid, wend,
                   cand, view, left, pend, bad, api>>

\* DeleteStale lists the stored documents and drops those of the snapshot.
ListIDs(w) ==
    /\ up = "up" /\ wpc[w] = "page" /\ TypeOf(wid[w]) = "prune"
    /\ left[w] = {}
    /\ keep' = [keep EXCEPT ![w] =
                  {d \in Docs : idx[LinkOf(wid[w])][d] # 0} \ @]
    /\ Goto(w, "prune")
    /\ UNCHANGED <<dbVars, dataVars, procVars, schVars, queue, lock, wid, wend,
                   cand, view, left, pend, bad, api>>

DeleteDocument(w, d) ==
    /\ up = "up" /\ wpc[w] = "prune" /\ d \in keep[w]
    /\ idx' = [idx EXCEPT ![LinkOf(wid[w])][d] = 0]
    /\ keep' = [keep EXCEPT ![w] = @ \ {d}]
    /\ UNCHANGED <<dbVars, srcVars, procVars, schVars, queue, lock, wpc, wid,
                   wend, cand, view, left, pend, bad, api>>

CompletePrune(w) ==
    /\ up = "up" /\ wpc[w] = "prune" /\ keep[w] = {}
    /\ CompletePruneTask(w, wid[w])
    /\ Discard(w)
    /\ Goto(w, "unlock")
    /\ UNCHANGED <<dataVars, procVars, schVars, queue, lock, wid, api>>

-----------------------------------------------------------------------------
(* The connector API: UpdateConnector (internal/service/connector.go).     *)

Row(c, i) == ConnectorOf(i) = c

\* CancelRunningOrScheduledLogs, the first statement of cancelConnectorTasks;
\* a reschedule continues with ScheduleConnectorTasks, a pause does not.
CancelTasks(c) ==
    /\ api[c] = "none" /\ Fault
    /\ status' = [i \in Ids |->
                    IF Row(c, i) /\ status[i] \in Running \cup {"schedule"}
                    THEN "ended" ELSE status[i]]
    /\ \E pc \in {"pause", "cancelled"} : api' = [api EXCEPT ![c] = pc]
    /\ UNCHANGED <<start, conn, marks, dataVars, up, schVars, queue, workVars>>

\* The second statement: the connector's own status.
CancelConnector(c) ==
    /\ api[c] \in {"pause", "cancelled"}
    /\ conn' = [conn EXCEPT ![c] = "ended"]
    /\ api' = [api EXCEPT ![c] = IF @ = "pause" THEN "none" ELSE "schedule"]
    /\ UNCHANGED <<rowVars, marks, dataVars, procVars, schVars, queue,
                   workVars>>

\* The waterlines scheduleConnectorTask can start from: the poll_range_end of
\* the newest completed row, or none.  Which of the completed rows is the
\* newest is left open: FailTask can fail a completed row afterwards.
ResumeFrom(l) == IF marks[l] = {} THEN {0} ELSE marks[l]

\* ScheduleConnectorTasks: one transaction, on resume or as the last part of a
\* reschedule.
ScheduleConnectorTasks(c) ==
    /\ \/ api[c] = "none" /\ Fault
       \/ api[c] = "schedule" /\ UNCHANGED faults
    /\ LET wanted == {k \in {l \in Links : ConnOf[l] = c} \X
                             (IF PruneOn THEN Types ELSE {"sync"}) :
                        ~Existing(status, k[1], k[2])}
           New(i) == <<i[1], i[2]>> \in wanted /\ IsFresh(status, i, Workers)
       IN  /\ \A k \in wanted : HasFresh(status, k[1], k[2], Workers)
           /\ \E from \in [Links -> Times] :
                /\ \A l \in Links :
                     IF <<l, "sync">> \in wanted
                     THEN from[l] \in ResumeFrom(l) ELSE from[l] = 0
                /\ start' = [i \in Ids |->
                               IF ~New(i) THEN start[i]
                               ELSE IF i[2] = "sync" THEN from[i[1]] ELSE 0]
           /\ status' = [i \in Ids |->
                           IF New(i) THEN "schedule" ELSE status[i]]
    /\ conn' = [conn EXCEPT ![c] = "schedule"]
    /\ api' = [api EXCEPT ![c] = "none"]
    /\ UNCHANGED <<marks, dataVars, up, schVars, queue, workVars>>

\* A statement of the API fails: the request, which the bound has counted
\* already, ends where it is.
ApiError(c) ==
    /\ api[c] # "none"
    /\ api' = [api EXCEPT ![c] = "none"]
    /\ UNCHANGED <<dbVars, dataVars, procVars, schVars, queue, workVars>>

-----------------------------------------------------------------------------
(* The source and the process.                                             *)

\* An update time of connector c that a window has reached already: it is not
\* after a waterline, or not after the end of a window that is being read.
Covered(c, t) ==
    \/ \E l \in Links : ConnOf[l] = c /\ \E m \in marks[l] : t <= m
    \/ \E w \in Workers : /\ wpc[w] \in InRunner /\ TypeOf(wid[w]) = "sync"
                          /\ ConnectorOf(wid[w]) = c /\ t <= wend[w]

\* A document is created or changed at the source, which reports any update
\* time t for it: that of another document (the times have a granularity), one
\* long past (a missing date, an entry published late), or one to come.
SourceUpdate(c, d, t) ==
    /\ now < MaxClock
    /\ now' = now + 1
    /\ src' = [src EXCEPT ![c][d] = now + 1]
    /\ stamp' = [stamp EXCEPT ![now + 1] = t]
    /\ backdated' = backdated \cup (IF Covered(c, t) THEN {now + 1} ELSE {})
    /\ UNCHANGED <<dbVars, idx, procVars, schVars, queue, workVars, api>>

SourceDelete(c, d) ==
    /\ src[c][d] # 0
    /\ src' = [src EXCEPT ![c][d] = 0]
    /\ UNCHANGED <<dbVars, now, stamp, backdated, idx, procVars, schVars,
                   queue, workVars, api>>

\* Syncer.Stop cancels the context.
Stop ==
    /\ up = "up" /\ Fault
    /\ up' = "stopping"
    /\ UNCHANGED <<dbVars, dataVars, schVars, queue, workVars, api>>

\* The process is gone, and with it the queue, the lock and the goroutines.
Gone ==
    /\ up' = "down"
    /\ spc' = "off" /\ todo' = {} /\ cur' = NoId
    /\ queue' = <<>> /\ lock' = {}
    /\ wpc' = [w \in Workers |-> "off"]
    /\ wid' = [w \in Workers |-> NoId]
    /\ wend' = [w \in Workers |-> 0]
    /\ cand' = [w \in Workers |-> 0]
    /\ view' = [w \in Workers |-> [d \in Docs |-> 0]]
    /\ left' = [w \in Workers |-> {}]
    /\ pend' = [w \in Workers |-> [d \in Docs |-> 0]]
    /\ bad' = [w \in Workers |-> FALSE]
    /\ keep' = [w \in Workers |-> {}]
    /\ UNCHANGED <<dbVars, dataVars, api>>

\* workerGroup.Wait returns.
Stopped ==
    /\ up = "stopping" /\ spc = "off"
    /\ \A w \in Workers : wpc[w] = "off"
    /\ Gone
    /\ UNCHANGED faults

Crash ==
    /\ up # "down" /\ Fault
    /\ Gone

StartContext ==
    /\ up = "down"
    /\ up' = "up" /\ spc' = "idle"
    /\ wpc' = [w \in Workers |-> "idle"]
    /\ UNCHANGED <<dbVars, dataVars, faults, todo, cur, queue, lock, wid,
                   runVars, api>>

-----------------------------------------------------------------------------
\* The links have just been scheduled for the first time.
Init ==
    /\ status = [i \in Ids |->
                   IF (i[2] = "sync" \/ PruneOn) /\ \A s \in Slots : i[3] <= s
                   THEN "schedule" ELSE "ended"]
    /\ start = [i \in Ids |-> 0]
    /\ conn = [c \in Connectors |-> "schedule"]
    /\ marks = [l \in Links |-> {}]
    /\ now = 0
    /\ src = [c \in Connectors |-> [d \in Docs |-> 0]]
    /\ stamp = [v \in Times |-> 0]
    /\ backdated = {}
    /\ idx = [l \in Links |-> [d \in Docs |-> 0]]
    /\ up = "up" /\ faults = 0
    /\ spc = "idle" /\ todo = {} /\ cur = NoId
    /\ queue = <<>> /\ lock = {}
    /\ wpc = [w \in Workers |-> "idle"]
    /\ wid = [w \in Workers |-> NoId]
    /\ wend = [w \in Workers |-> 0]
    /\ cand = [w \in Workers |-> 0]
    /\ view = [w \in Workers |-> [d \in Docs |-> 0]]
    /\ left = [w \in Workers |-> {}]
    /\ pend = [w \in Workers |-> [d \in Docs |-> 0]]
    /\ bad = [w \in Workers |-> FALSE]
    /\ keep = [w \in Workers |-> {}]
    /\ api = [c \in Connectors |-> "none"]

Scheduler ==
    \/ RecoverStaleRunning
    \/ (\E S \in SUBSET Ids : ListDueTasks(S)) \/ (\E i \in Ids : Claim(i))
    \/ MarkConnectorRunning \/ Enqueue \/ SchedulerExit

Worker(w) ==
    \/ Receive(w) \/ GetContextError(w) \/ TryLock(w) \/ Busy(w)
    \/ ExecuteError(w) \/ HandleError(w) \/ Unlock(w) \/ WorkerExit(w)
    \/ (\E B \in SUBSET Docs : NextBatch(w, B) \/ SnapshotBatch(w, B))
    \/ (\E d \in Docs : \/ Upsert(w, d) \/ ItemError(w, d)
                       \/ DeleteDocument(w, d))
    \/ BatchDone(w) \/ CompleteSync(w) \/ ListIDs(w) \/ CompletePrune(w)

Api(c) ==
    \/ CancelTasks(c) \/ CancelConnector(c) \/ ScheduleConnectorTasks(c)
    \/ ApiError(c)

Source(c) ==
    \E d \in Docs : \/ \E t \in Times \ {0} : SourceUpdate(c, d, t)
                    \/ SourceDelete(c, d)

Process == Stop \/ Stopped \/ Crash \/ StartContext

Next ==
    \/ Scheduler \/ ScanError
    \/ \E i \in Ids : Timeout(i)
    \/ \E w \in Workers : Worker(w)
    \/ \E c \in Connectors : Api(c) \/ Source(c)
    \/ Process

Spec == Init /\ [][Next]_vars

\* What the Go runtime, the clock and the supervisor of the process provide:
\* goroutines and their timers make progress, calls return, a stopped or
\* crashed process comes back.
Fairness ==
    /\ WF_vars(Scheduler)
    /\ \A w \in Workers : WF_vars(Worker(w))
    /\ \A i \in Ids : WF_vars(Timeout(i))
    /\ WF_vars(Stopped \/ StartContext)
    /\ SF_vars(ListDueTasks(Schedulable))

FairSpec == Spec /\ Fairness

-----------------------------------------------------------------------------
(* Properties.                                                             *)

\* Two tasks of one connector never execute at the same time
\* (connector_lock.go: "serializes work for a connector"), although rows are
\* recovered, paused, resumed and claimed again while they execute.
ConnectorSerialized ==
    \A v, w \in Workers :
        v # w /\ wpc[v] \in Executing /\ wpc[w] \in Executing
            => ConnectorOf(wid[v]) # ConnectorOf(wid[w])

\* The lower bounds a SYNC of link l can still be started with.
Waterlines(l) ==
    marks[l] \cup
    {start[i] : i \in {k \in Ids : k[1] = l /\ k[2] = "sync" /\
                                   status[k] \in Running \cup {"schedule"}}}

\* No change made at the source is skipped: whatever its sessions can tell to
\* be not newer than a waterline the link can continue from is stored in its
\* dataset, although the source changes while it is paged through, tasks fail
\* half way and completed rows are executed again (sync_runner.go: "commits the
\* final waterline").  This is about exact sessions, and about versions whose
\* update time no window had reached when they were made: one reported with the
\* same time as an earlier one that was seen, or with a past one, is never
\* listed (the filter is a strict After).
NoUpdateMissed ==
    \A l \in Links, d \in Docs :
        LET v == src[ConnOf[l]][d]
        IN  ConnOf[l] \in Exact /\ v # 0 /\ v \notin backdated
            /\ (\E m \in Waterlines(l) : stamp[v] <= m) => idx[l][d] = v

\* A PRUNE never removes a stored document that is what the source holds now,
\* although it deletes by a snapshot taken earlier (prune_runner.go: "collects
\* the full prune snapshot before deleting stale documents"): of connectors
\* whose snapshots are exact, whatever the update times are.
PruneKeepsLive ==
    [][\A l \in Links, d \in Docs :
         ConnOf[l] \in Exact /\ idx[l][d] # 0 /\ idx'[l][d] = 0
            => idx[l][d] # src[ConnOf[l]][d]]_vars

\* A claimed row does not stay running for ever, whatever is lost between the
\* claim and the end of its execution (RecoverStaleRunning: "restores
\* timed-out running tasks to schedule").
RunningSettles ==
    \A i \in Ids : status[i] \in Running ~> status[i] \notin Running

\* The next row of a completed task is claimed once it is due, unless the user
\* pauses or resumes the connector (sync_task.go: "marks SYNC done and creates
\* the next schedule task").
NextTaskRuns ==
    \A i \in Ids : status[i] = "schedule" ~> status[i] # "schedule"

-----------------------------------------------------------------------------
(* The inductive invariant behind ConnectorSerialized, NoUpdateMissed and  *)
(* PruneKeepsLive.                                                         *)

\* A worker that executes has its connector in the registry.
LockHeld ==
    \A w \in Workers : wpc[w] \in Executing => ConnectorOf(wid[w]) \in lock

\* No version is newer than the last change, and only versions have a time.
InTime ==
    /\ \A c \in Connectors, d \in Docs : src[c][d] <= now
    /\ \A l \in Links, d \in Docs : idx[l][d] <= now
    /\ \A v \in Times : v \in 1..now <=> stamp[v] # 0
    /\ \A v \in backdated : v <= now

\* A SYNC starts at the end of a completed one, or at the beginning.
StartsMarked ==
    \A i \in Ids : TypeOf(i) = "sync" => start[i] \in marks[LinkOf(i)] \cup {0}

\* What link l stores is complete up to m.
Sound(l, m) ==
    \A d \in Docs :
        LET v == src[ConnOf[l]][d]
        IN  v # 0 /\ v \notin backdated /\ stamp[v] <= m => idx[l][d] = v

MarksSound ==
    \A l \in Links : ConnOf[l] \in Exact =>
        \A m \in marks[l] : m <= now /\ Sound(l, m)

\* The document of worker w's source went or changed after its session was
\* opened.
Changed(w, d) ==
    LET v == src[ConnectorOf(wid[w])][d] IN v = 0 \/ v > wend[w]

\* It is none that the window of worker w has to show.
Outside(w, d) ==
    LET v == src[ConnectorOf(wid[w])][d]
    IN  v = 0 \/ v \in backdated \/ stamp[v] > wend[w]

\* Only a SYNC upserts documents and only a PRUNE deletes them; and what a
\* session sees of the source: its window ends when it is opened.
ViewOK(w) ==
    /\ wpc[w] = "item" => TypeOf(wid[w]) = "sync"
    /\ wpc[w] = "prune" => TypeOf(wid[w]) = "prune"
    /\ wpc[w] \in InRunner =>
        /\ wend[w] <= now
        /\ \A d \in Docs :
             /\ view[w][d] <= wend[w] /\ pend[w][d] <= now
             /\ view[w][d] = src[ConnectorOf(wid[w])][d] \/ Changed(w, d)

\* What a SYNC of an exact connector has paged through is stored, about to be
\* stored, or outside its window; what it is about to store is the source's
\* version, unless that is outside; and its window ends no earlier than the
\* waterlines of its link, which nobody else moves while it executes.
SyncOK(w) ==
    wpc[w] \in InRunner /\ TypeOf(wid[w]) = "sync"
    /\ ConnectorOf(wid[w]) \in Exact =>
        /\ \A m \in marks[LinkOf(wid[w])] : m <= wend[w]
        /\ start[wid[w]] <= cand[w] /\ cand[w] <= wend[w]
        /\ wpc[w] = "page" => /\ ~bad[w]
                              /\ \A d \in Docs : pend[w][d] = 0
        /\ \A d \in Docs :
             LET v == src[ConnectorOf(wid[w])][d]
             IN  /\ Changed(w, d) => Outside(w, d)
                 /\ d \notin left[w] => \/ Outside(w, d)
                                        \/ stamp[v] <= start[wid[w]]
                                        \/ bad[w]
                                        \/ pend[w][d] = v
                                        \/ idx[LinkOf(wid[w])][d] = v
                 /\ pend[w][d] # 0 => pend[w][d] = v \/ Outside(w, d)

\* What a PRUNE of an exact connector will delete has gone or changed since its
\* session was opened, and what its link stores has not.
PruneOK(w) ==
    wpc[w] \in InRunner /\ TypeOf(wid[w]) = "prune" =>
        \A d \in Docs :
            /\ idx[LinkOf(wid[w])][d] <= wend[w]
            /\ ConnectorOf(wid[w]) \in Exact =>
                 /\ wpc[w] = "page" /\ d \notin left[w] /\ d \notin keep[w]
                       => Changed(w, d)
                 /\ wpc[w] = "prune" /\ d \in keep[w] => Changed(w, d)

WorkerOK(w) == ViewOK(w) /\ SyncOK(w) /\ PruneOK(w)

IInv ==
    /\ TypeOK
    /\ LockHeld /\ ConnectorSerialized
    /\ InTime /\ StartsMarked /\ MarksSound
    /\ \A w \in Workers : WorkerOK(w)
=============================================================================
