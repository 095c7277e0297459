# CS Interview Flow: TLA+ models, model checking and proofs

This directory specifies the parts of the repository that keep durable state
while processes crash, leases run out, messages come twice and users interfere:

* the **interview service**, the application this repository adds to RAGFlow
  (Python): sessions of questions, answers, follow-ups and a report, advanced by
  workers over a durable operation queue;
* the **data source syncer** (Go): periodic SYNC and PRUNE of external sources
  into datasets;
* the **ingestor** and its task service (Go): document tasks delivered by an
  at-least-once broker;
* the **dataset-level knowledge compiler** (Go): merges the products of the
  documents of a dataset, driven by a leased backlog row.

Python sources are cited as
OPS `api/db/services/interview_operation_service.py`,
REPO `api/db/services/interview_service.py`,
API `api/apps/restful_apis/cs_interview_api.py`,
and, in `api/apps/services/cs_interview/`, WRK `worker.py`, SVC `service.py`,
REL `reliability.py`, DOM `domain.py`. Go sources are cited by their path under
`internal/`.

## 1. Inventory

### Interview service

| Component | State | Operations | Interacts with |
| --- | --- | --- | --- |
| REST API (API) | none of its own | `start_session`, `submit_answer`, `abort_session`, code and event endpoints | reads the session, creates operations, aborts |
| Operation queue (OPS) | rows `InterviewOperation`, `InterviewRequest`, `InterviewEvent` | `create`, `claim` and its sweeps, `renew`, `complete`, `retry`, `fail`, `cancel_*`, `append_*event` | called by API and workers; shared rows |
| Worker (WRK) | lease owner name, one operation in hand, a guard task | `run_once`, `process`, `_lease_guard`, `_handle_failure` | claims from the queue, runs the application's bodies, settles |
| Application (SVC) | none between calls | `start_events`, `answer_events`, `_resume_next_question`, `_fail_session`, `abort` | several transactions with awaits of models in between |
| Repository (REPO), state machine (DOM) | rows `InterviewSession`, `InterviewRound`, `InterviewReport`; transition tables | `transition`, `transition_round`, `create_round`, request `begin`/`finish`/`fail` | compare-and-swap on `state_version` |
| Quota, runtime, privacy, bootstrap, code runner, evaluation | own tables, Redis | own jobs | mostly independent of the session protocol |

### Go services

| Component | State | Operations | Interacts with |
| --- | --- | --- | --- |
| Syncer (`syncer/`, `dao/sync_task.go`) | rows `sync_logs` and `connector`, bounded channel, in-memory connector lock | scan (recover, list, claim, mark, enqueue), handle, SYNC and PRUNE runs, stop | external sources; documents of a dataset; connector API |
| Connector API (`service/connector.go`) | the same rows | pause, resume, reschedule | writes rows while the syncer executes them |
| Ingestion task service (`service/ingestion_task_service.go`) | rows `ingestion_task`, Redis cancel flag | create, retry, stop, remove, complete, fail | compare-and-swap on the status; publishes messages |
| Ingestor (`ingestion/service/ingestion_service.go`) | in-memory claims, task channel | consume, run, cancel, settle, stop | broker (`engine/nats`), task service, pipeline |
| Knowledge compiler (`ingestion/knowledge_compile/`) | one row per dataset (backlog, inflight, token, lease), document engine, per-process sequence map | publish, claim, reclaim, heartbeat, merge, strip, ack | pipeline and document service publish; ingestor hosts the workers |
| Agent canvas and harness, chat and retrieval, model providers, document engines, CLI, admin, handlers, parsers | configuration and content rows | request handlers and data transformations | not modelled, see section 5 |

The hard part everywhere is that several actors write the same rows in separate
statements. A lease, lock or claim is supposed to keep them apart, and it can be
lost between any two statements. `PROJECT.json` lists each hazard at its source
line with the properties that cover it, or the reason none does.

What makes the components correct:

* operation queue: an attempt has one owner, a stale owner cannot write, a
  settled row stays settled, "completed" means the work was committed, every
  accepted operation is settled in the end;
* session: one active question, answers go to the question the candidate saw,
  budgets hold, an ended session is frozen;
* syncer: tasks of a connector never overlap, no update at the source is skipped
  by the waterline as far as its reported time allows, PRUNE deletes only what is
  gone, claimed rows settle;
* ingestor: a task runs in one place, a created task has a message that can start
  it, the status moves only along the service's transitions, runs come to an end;
* knowledge compiler: no published event is lost, abandoned batches are found
  again, deletions are not undone and take no row along that names others, the
  backlog drains.

## 2. Modules

| Module | Content |
| --- | --- |
| `InterviewOperation` | the queue and the worker processes (OPS, WRK, request rows of REPO) |
| `InterviewSession` | abstract specification of one interview session (DOM, REPO) |
| `InterviewFlow` | extends `InterviewOperation` with session, rounds, API and application bodies; implements `InterviewSession` |
| `Syncer` | scheduler, queue, workers, runners, rows, connector API, source |
| `IngestionTask` | abstract specification of the status of one ingestion task |
| `Ingestor` | broker, consume loop, workers, task service; implements `IngestionTask` |
| `CompiledDocument` | abstract specification of what the compiler promises about the first parse of a document |
| `KnowledgeCompile` | producers, backlog row, compile workers, merged products; implements `CompiledDocument` |
| `...Proofs` | theorems of the module without the suffix; those of `InterviewFlow` are in three modules that extend each other: `InterviewFlowProofs` (queue underneath, ended sessions), `InterviewFlowSessionProofs` (rows agree, refinement), `InterviewFlowAnswerProofs` (answers) |
| `MC...` | instances for TLC: symmetry sets and functions for the constants |

### InterviewOperation

State: `op` (operation rows), `request` (status of each operation's request
row), `log` (events), `worker` (program counter and locals of each process), and
the history variable `committed` (operations whose body committed its result).

One action is one statement or one transaction. `claim` is eight kinds of step:
`Poll` (selects expired cancellations, then candidates), `SweepCancelledOps`,
`SweepCancelledRequests`, `Pick` (the compare-and-swap), `SweepLate`,
`FailLateRequests`, `SweepExhausted`, `FailExhaustedRequests`. `complete`, `fail` and
`cancel_running` are two each (`Complete`/`Fail`/`CancelRunning`, then
`SettleRequest`), since the code does not put the two updates in a transaction.
`_handle_failure` is `Decide` (its read) and then `Retry`, `LogError`, `Fail`,
`LateFailSession` or `CancelRunning`, so that anything can happen between the
read and the writes.

Time is what the code's comparisons see: a lease is live or expired, a retry is
due or not, a deadline has passed or not, each turned by an action of its own in
any order. `claim` reads the clock once; a candidate whose deadline passes
afterwards is still claimed, as in the code. An expired lease that nobody took
can still be renewed, as in `renew`.

Abstractions, each stating what the properties tell apart:

* an error is `retryable`, `fatal` or `pipeline` (not retryable, with a code in
  `PIPELINE_FAILURE_CODES`);
* an event is its kind; equality of payloads is equality of kinds;
* the select of a sweep and the update under the same condition are one step
  where only the condition matters (deadline and attempts), two where the ids are
  used again without the condition (cancellations);
* the last select of `claim` (candidates) is merged with the step before it;
* a restarted process is a new owner, so a dead worker does not come back;
* the wake-up stream in Redis only shortens the poll interval and is left out.

### InterviewSession

Phase, active question, and the counters of one session, with the actions
`Start`, `Ask`, `Answer`, `FollowUp`, `Prepare`, `Complete`, `Fail`, `Abort`.

### InterviewFlow

Adds `session`, `rounds`, `payload` (what each operation was created with), `body`
(the locals each body keeps across an await) and the history variable `offered`
(every state the API showed that a client may act on). `Submit` uses any member
of `offered`, which is the gap between the check at API 691 and the creation of
the operation. `payload` is kept after an operation is settled, for the
properties; the code clears the column.

A body is a sequence of transactions: `BeginStart`, `BeginRestart`,
`BeginAnswer`, `BeginRecover`, `BeginResume` or `Refuse`; then `ChooseFollowup`
and `CommitFollowup`, or `CommitEvaluation` and `CommitQuestion`, or
`CommitReport`. Between them the queue's actions run. What judge, planner and
models decide is nondeterministic within the budgets. A transaction that loses
the compare-and-swap on `state_version` raises `state_conflict` and is rolled
back, which is the same as running after the winner; so a transaction is one step.

Left out: code submissions (and with them `code_execution_in_progress`), and the
other callers of `cancel_session` (privacy and resume deletion). A session is
observed from its creation or from its first question, the state in which a
start operation of no further interest left it.

The refinement mapping of `ImplementsSession` takes the phase and counters from
the session row and the question and follow-up count from the active round.

### Syncer

State: the rows (`status`, `start` = `poll_range_start`, `conn`, and `marks`, the
`poll_range_end` values of completed rows), the scheduler (`spc`, `todo`, `cur`),
the channel, the connector lock, and the locals of each worker. A row is an id
`<<link, type, slot>>`: a link is a pair of connector and dataset, and slots are
used again once nobody refers to the old row, so that endless scheduling is finite.

`scan` is `RecoverStaleRunning`, `ListDueTasks`, then `Claim`,
`MarkConnectorRunning`, `Enqueue` per task, with `ScanError` for a failing call of
each. `handle` is `Receive`, `TryLock` or `Busy`, the runner, and `HandleError` or
the completion, then `Unlock`. A SYNC run is `NextBatch`, one `Upsert` or
`ItemError` per document in any order (they are goroutines), `BatchDone`,
`CompleteSync`; a PRUNE run is `SnapshotBatch`, `ListIDs`, `DeleteDocument`,
`CompletePrune`. `UpdateConnector` is `CancelTasks`, `CancelConnector`,
`ScheduleConnectorTasks`, with everything else in between.

A document has a version, at the source and in the dataset: the number of the change
that made it. The update time the source reports for a version is another thing
(`stamp`), and any time may be reported: that of another document, since sources
have a granularity; a past one (a missing date, an entry published late); one to
come. Windows and waterlines only see update times. `backdated` remembers the
versions whose time was covered by a waterline or by an open window when they were
made; the filter being a strict After, the code misses those.

What a session shows is `IsPage` and `IsSnapshot`. The sessions of an *exact*
connector show each document as it is when the page is read or as it was when the
session was opened, filtered by its reported time against both ends of the window:

* RSS is exact: the feed is read once, at the start, and filtered. It is read by
  `Validate`, a moment before `windowEnd` is taken; a change in that moment is, in
  the model, one after the session was opened with a time it covers, so `backdated`.
* GitHub is exact as long as nothing is deleted between two pages: its pages are
  numbered, newest update first, so an update only repeats documents, and a deletion
  moves one to a page that was read already (`github.go` 233-244).
* Gmail is not: the first window has no query and so no upper bound (`gmail.go`
  102-105), later ones bound some message of a thread while the whole thread with its
  latest date is returned (351, 505-526), and the waterline follows (`sync_runner.go`
  81-86).

A page of a connector outside `Exact` may hold or omit any document of the source.
`NoUpdateMissed` and `PruneKeepsLive` speak of exact connectors only, everything else
of all; the run `recovery` has a connector that is not exact.

Which scheduled rows are due, and the limit of the query, is a choice of
`ListDueTasks`. DONE, FAIL and CANCEL of a row are one value, since no code reads
them apart except for the waterline, which `marks` keeps.

### Ingestor

State: the status row and cancel flag of one task, its messages at the broker and
how often each was delivered (`MaxDeliver`, 16 in `nats.go` 204), API
requests between their two statements (`pub`, `setting`, `removing`), the consume
loop, the claim, the channel, and each worker's step and context. A service call
that loses its compare-and-swap returns an error that its caller treats like a
call made after the winner, so a call is one step; calls that consist of several
statements (`CreateAndEnqueue`, `RequestStop`, `Delete`, `markStopped`) are several.
Contexts matter: calls with a cancelled task context fail (`CtxDone`, `StopDone`),
which is why a cancelled pipeline ends in `Settle` directly. `Enqueue` has three ends:
the message is published; it is not and the row is put back; or that fails as well and
the request ends with the row as it is (`ingestion_task_service.go` 391-393, 406-408),
which the history variable `lost` records. Such a row stays CREATED with no message, and
so does one whose message was delivered `MaxDeliver` times without being started.

`IngestionTask` is the promise of the task service: the transitions of
`validateTransition`, creation, rollback, removal.

### KnowledgeCompile

State: the row of one dataset (`backlog`, `inflight`, `token`, `lease`, `state`),
producers per document (`parse`, `life`, `ver`), stored products (`doc`), the dataset's
products (`rows`), the sequence map of each process, and each worker's batch.
The products of a document are the number of the parse they come from, which
decides their keys (`Compiled`). `processBatch` is
`Reconcile`, `DeleteDocLevelForDocs`, `StripMergedSources`, `LoadDocProducts`,
`SearchSimilar`, `WriteMerged`, then `Ack` or `NoAck`; `FailBatch` may happen at
each of them and leaves a half-done write.

A row of `rows` is a key (`datasetLevelID`: variant and slug, name with type, or
content) and its `source_doc_ids`; its content is abstracted. Whoever writes a key
replaces the row and its sources (`Upserted`): a document whose product has the key, a
batch that folded a product into another, a late worker with an old result. A merge
keeps the sources of the product or row it folds into and does not add those of the
other (`structure/merge.go` 190-204), and only products with keys in `Sourced` (wiki pages, sections,
graphs) name their document at all; entities and relations do not
(`structure/compile.go` 228-232). What dedup, similarity search and judge make of a
batch is a choice within that (`IsOutcome`). `Stripped` is what a deletion does: a row
that names the document is rewritten, or deleted if it names no other. So a row that
holds the content of two documents and names one goes with that one, is not found when
the other is deleted, and an entity row is never found. None of this is excluded
from the model and no property claims the contrary: `written`, a history variable,
says that a batch that succeeded wrote a document's products, not that they
are still there. Search and writes of a strip are one step; only a worker that lost its
lease could come in between, and of rows after a fault no property speaks.

A token is the worker that will use it, or `"gone"`.
`TryClaim` reads its candidates in one snapshot and locks one of them later:
`Probe` and `Reclaim`. The constant `Provisioned` says whether the process that
deletes documents has installed a publisher. `RemoveEntries` keeps the row's entries
that are not in the acknowledged batch; it names the k-th kept entry by the rank of
its position (`Nth`), which says the same as the loop of `removeEntries` and can be
reasoned about without induction.

`CompiledDocument` gives each document a stage: unannounced, announced, written,
released. A step may only move a document on. The mapping (`Stage`) reads the stage from
`written` and the row; a second parse, a deletion or an event
lost by its best-effort publication releases the compiler, since what it does then is
the subject of `DeletedGone` and of the runs `reparse` and `orphan`.

## 3. Runs

| Run | Instance | Shows |
| --- | --- | --- |
| `operation` | 1 operation, 2 workers, 2 attempts, 1 crash, 1 event, `DeadlineSpec` | `TypeOK`, `FencingToken`, `CompletedMeansCommitted`, `TerminalIsFinal`, `EverySettles` |
| `flow` | 2 operations, 1 attempt, batch 1, 2 answers, 2 questions, 1 follow-up | `FlowTypeOK`, `AnswerToQuestionSeen`, `RoundMatchesSession`, `ImplementsSession` |
| `crash` | 1 operation, 2 attempts, 1 crash, events, deadlines | `EventsInAttemptOrder`, `RoundMatchesSession`, `EndedIsFrozen`, `IInv` (the inductive invariant of the proofs, in the composed system) |
| `syncer` | 1 connector, 1 link, 1 document, SYNC and PRUNE, 2 workers, queue of 1, exact, 2 changes or 1 change and 1 fault (`MCBound`) | `TypeOK`, `ConnectorSerialized`, `NoUpdateMissed`, `PruneKeepsLive` |
| `recovery` | the same with 1 worker, 1 change and 1 fault, not exact, `FairSpec` | `RunningSettles` |
| `ingestor` | 1 task, 2 messages of 2 deliveries, 2 workers, 1 stop, 2 faults, `FairSpec` | `TypeOK`, `OneWorkerPerTask`, `CreatedIsQueued`, `ImplementsTask`, `FirstRunSettles` |
| `compile` | 2 documents of 1 parse with the same page and the same entity, 2 workers in 2 processes, batch of 2, 1 fault, `FairSpec` | `TypeOK`, `RowRecoverable`, `FirstMergeKept`, `DeletedGone`, `Drains`, `ImplementsPromise`, `RowsOutliveOthers` |

Bounds. Two workers are an owner and its successor or competitor; the proofs
cover any number. Two attempts give one takeover. Two operations give every pair
of start and answer operations of one session. A fault of the Go modules is
anything that goes wrong or that a user asks for (failed call, hang, missed
heartbeat, stop, crash, pause); one fault at every point of every interleaving
reaches each recovery path, two in `ingestor` reach a failure during recovery.
Two messages of one task are a run and its retry; two deliveries and two faults use a
message up. Two changes of a document give an update time that is equal to,
before or after the waterline the first one left, in the same window or the next;
the constraint `MCBound` of `syncer` keeps two changes and a fault apart, which
together are covered by the theorems. Two documents with the same keys share every
row, so writes and deletions of one meet the other's.
`flow` follows a session to its end (`MCUntilEnd`): what ended is frozen by theorem
`EndIsFinal`; `crash` goes on. Symmetry is over workers and answers, which no
definition tells apart, and is not used where liveness is checked.
`CHECK_DEADLOCK FALSE` in `ingestor` and `stranded` because a task that ended stops.

Fairness. `DeadlineSpec`: the worker loop executes its next statement (it polls the
database every half second, WRK 342-373), deadlines pass, and the timeout of
`wait_for` (WRK 256) ends an await; nothing is assumed of external calls, leases
or the guard task. `Syncer!FairSpec`: goroutines with an enabled step take it, the
ticker fires, timeouts pass, a stopped process is started again, and a due task is
listed again and again (strong fairness of the complete list, because `refresh_freq`
elapses). `KnowledgeCompile!FairSpec`: workers poll and finish their batches, leases
run out, processes come back. `Ingestor!FairSpec`: requests that began end, loop,
workers, pollers and broker go on, a process comes back; nothing is assumed of new
requests or of what fails.

### Disagreements with documentation and comments

Each is a run in which TLC must find a violation; `PROJECT.json` quotes the line.

| Run | What happens |
| --- | --- |
| `takeover` | recovery of an evaluation always raises: `answer_kind` is unbound (SVC 452) |
| `next` | the task scheduled by a completed SYNC is never due: the same transaction sets the connector to DONE (`dao/sync_task.go` 214) |
| `reparse` | every completion after the first of a document is skipped as stale: callers pass sequence 0 (`consumer.go` 280) |
| `orphan` | deletions in the API and syncer processes reach no consumer (`event.go` 120) |
| `stranded` | the message of a retry is acknowledged and skipped while the finished run holds its claim; the task stays RUNNING (`ingestion_service.go` 392) |

Narrower races that are part of the models and no run's subject: the
attempts-exhausted sweep fails a last attempt under a live lease (OPS 288); `retry`
(OPS 408) does not test `cancellation_requested`, so an abort in between strands
the row in `retry_wait` until its deadline; the failure of one operation fails the
session another one works on (WRK 309, SVC 828); a second answer operation can
complete as the resumption of the first (SVC 390); a deadline sweep leaves the
session preparing or evaluating; a pause is overwritten by a task that is being
claimed or completed; a reclaimed completion can follow a newer deletion, so
`DeletedGone` speaks only of histories without faults; a stale cancel flag stops a
retry; updates with covered times and those a Gmail window jumps over are never listed;
a publish and a rollback that both fail strand a CREATED task; deleting a document can
delete a shared row, or leave its content in one that does not name it.

## 4. Proofs

For every value of the constants under the named assumptions (limits are natural
numbers, the positive ones positive, null values distinct):

| Theorem | Statement |
| --- | --- |
| `Invariant`, `TypeCorrect`, `Fencing`, `EventOrder`, `CompletionSound` | `Spec => []IInv` of the queue and its parts |
| `Finality` | `Spec => TerminalIsFinal` |
| `SessionSafe` | `Budgets => (SessionSpec => []SessionConsistent)` |
| `FlowImplementsQueue`, `FlowInvariant` | `FlowSpec => Spec`, `FlowSpec => []IInv` |
| `EndIsFinal` | `FlowSpec => EndedIsFrozen` |
| `FlowTypeCorrect`, `RoundsAgree`, `AnswersToQuestionSeen` | `FlowSpec => []FlowTypeOK`, `[]RoundMatchesSession`, `[]AnswerToQuestionSeen` |
| `FlowImplementsSession` | `FlowSpec => ImplementsSession` |
| `SyncerTypes`, `SyncerSerialized`, `SyncerMissesNothing` | `Spec => []TypeOK`, `[]ConnectorSerialized`, `[]NoUpdateMissed` |
| `SyncerPruneSafe` | `Spec => PruneKeepsLive` |
| `CompileTypes`, `RowAlwaysRecoverable` | `Spec => []TypeOK`, `[]RowRecoverable` of the compiler |
| `FirstMergeAlwaysKept`, `DeletedStaysGone` | `Spec => []FirstMergeKept`, `[]DeletedGone` |
| `RowsOutlive` | `Spec => RowsOutliveOthers` |
| `CompileImplementsPromise` | `Spec => ImplementsPromise` |
| `IngestorTypes`, `IngestorOneWorker`, `IngestorForgetsNoTask` | `Spec => []TypeOK`, `[]OneWorkerPerTask`, `[]CreatedIsQueued` |
| `IngestorImplementsTask` | `Spec => ImplementsTask` |

The argument for the queue. None of the properties is inductive alone.
`FencingToken` says that a live owner executes the attempt the row counts; to
keep it through a claim one needs that a process in its polling steps holds no
operation (`HeldWhileWorking`), and through settlement that a row has an owner
only while running (`LeaseMatchesStatus`). `EventsInAttemptOrder` follows from
`FencingToken` and the fact that no event carries an attempt beyond the row's
(`LogWithinAttempts`): a fenced write carries the highest attempt so far.
`CompletedMeansCommitted` needs `RequestEvidence`: a request that a later attempt
replays is completed because a body committed, or cancelled because the
operation was, and then `CheckResult` or the owner test stops the completion.
The sweeps write requests for ids they selected earlier; `RequestEvidence` also
records that those operations were cancelled or are settled. `TerminalIsFinal` is
an action property over the same invariant; `SettledBehind` covers the
statements that follow a settlement.

`FlowImplementsQueue` shows that each action of the composed system is an action
of the queue or leaves it alone, so all queue theorems hold there. `EndIsFinal`
rests on the transition table: each write goes through `require_transition`, and
the ended states have no successor.

The argument for the session. A body reads `completed_question_count` and
`followup_count`, awaits the judge, and writes the counters back. `FlowInv` adds to
`FlowTypeOK` and `RoundMatchesSession` what makes this safe. `Evaluators`: while the
session evaluates, one body at most can commit the evaluation, and its locals are
still what the rows hold; it survives take-overs because a second body enters
through `BeginRecover`, which never commits, and it ends with the session. `Counters`: an
ended question is counted before the next is asked, so the budget tested against
the one counter bounds the other. `Payloads`: an operation carries an offer the API
made. Under `FlowInv` the active round is the last one (`LastRound`), which turns each
transaction into one step of `InterviewSession`, or a stutter. `AnswerInv`
(`InterviewFlowAnswerProofs`) adds `CurrentOffers`: every write of the session moves
`state_version` on, so an offer with the session's version shows the question that
is open now, and comparing that one number in `answer_events` suffices; `Recorded`:
the operation behind a recorded answer exists, so `Submit` cannot write its payload
again; and `Tallies`, which relates the number of answers of a round to its follow-ups.

The argument for the syncer. A waterline is sound when every version at the source
whose reported time is not after it, and that is not backdated, is the stored one
(`Sound`, `MarksSound`); a row starts at such a waterline (`StartsMarked`). `WorkerOK`
follows a run in progress. `SyncOK` relates what is still to be paged (`left`), what is
listed and not stored (`pend`) and what is stored to the window, so that the candidate
end is sound when `left` and `pend` are empty. The key fact is about a document that
changes while it is paged (`Changed`): its new time is beyond the window, or the window
covered it and it is backdated (`Outside`); either way this window owes it nothing. No
waterline of the link is beyond the end of an open window. A second writer of the same
link would break all of it; `LockHeld` (an executing worker holds its connector's entry,
and no two do) excludes that. `PruneOK` says that a PRUNE deletes only documents that
are gone from the source or changed there after its session was opened: what its link
stores is older than that, so it is not the source's version. Each action either
touches one worker (`LocalStep` and the lemmas built on it) or the source or the rows
(`SourceStep`, `WaterlineStep`), which keeps the cases small.

The argument for the ingestor. `OneWorkerPerTask` counts the places of a task
(about to be queued, queued, held by a worker) and ties each to the claim, which
makes it inductive with `TypeOK`; `RequestsKnown` is needed for the refinement,
since a rollback or removal must not create a task. Each action then maps to a step
of `IngestionTask` or leaves the status alone. `CreatedIsQueued` is not inductive:
some message being unacknowledged does not exclude that the run it belongs to is
about to acknowledge it. `NewestWaits` strengthens it: the newest message waits, and
it is in the hands of no worker, so no earlier run can acknowledge it; message numbers
grow with each publication (`UnusedUntouched`). `Paid` counts: each delivery that did not
start the task cost a fault, so a message whose deliveries are used up has seen as many
faults, which is the case the property leaves out.

The argument for the compiler. `RowRecoverable` is inductive as it stands: what a
step does to the lease depends on the row alone. `Ack` is the only action that clears the
lease and does so when nothing is left in flight.

`FirstMergeKept` is not: an `Ack` drops an entry, and nothing on the row says that its
worker merged it. `FirstMergeInv` adds what does. `Carried` follows a completion through
the steps of a batch: a worker that holds it also has the document in its list until
the products are loaded, has the first parse loaded until they are written, and reaches
its `Ack` only when they were. `FirstParse` says why a worker may skip the
completion as stale: whichever process remembers its sequence number, the products were written.
It holds for a worker that lost its claim too, so take-overs need no case of their own.
`Locals` (no leftovers of an earlier batch), `Bounded` (no product is newer than its parse,
so `written[d] # 0` is `written[d] = 1` for a first parse) and `Lifecycle` support it.

`DeletedGone` needs `OneBatch`: while nothing failed, at most one worker has a batch,
and what is in flight is that batch; the lease is what keeps the second one out. Then
`Followed` says that on the row every completion of a deleted document precedes its
deletion. `Claim` takes a prefix of the row, so either the deletion is still in the backlog
or the batch has it last, and `Reconcile` lets it win; `Purging` follows the document from
there to the end of the batch: after the strip no row names it, and since each row that is
written has the sources of a loaded product or of a row that was found, none does again.
All of it is stated under `faults = 0`: after a take-over
a reclaimed completion can come behind a newer deletion, as section 3 says.
`RowsOutliveOthers` follows from the same facts: as long as nothing failed only a strip
takes rows away, it takes those whose sources are all in its list, and a document is in
the list only if its deletion was published, which it is when the document is deleted.

The refinement needs one more fact, `AnnouncedFirst`: products that are not announced are
neither loaded nor written, so the stages cannot be skipped. The steps of
`FirstMergeKept` then show that an announced entry leaves the row only when it was written.

The sequence facts behind these proofs (`RemoveEntries` returns entries of the row and
every entry that is not acknowledged; what a prefix and the rest of a row hold) are lemmas of
`KnowledgeCompileProofs`. That every kept position has a rank is shown by counting: ranks are
an injection of the kept positions into as many numbers.

Only model-checked: the liveness properties `EverySettles`, `RunningSettles`, `Drains` and
`FirstRunSettles`; liveness under fairness is outside what the proof system's backends do
here. Every invariant, action property and refinement of the passing runs is a theorem.

## 5. Not modelled

Interview service: the SSE reader, code submissions, quota and circuit breaker,
external-call checkpoints and budgets, privacy jobs, retention and knowledge
bootstrap. Prompting, retrieval, grounding checks and scoring are data
transformations whose outcome is a choice in the model.

Syncer: the individual source connectors beyond what their sessions show, document
conversion and the upload into storage, connector creation, linking and rebuild,
two syncer processes. Ingestor: memory-extraction tasks, other tasks in the channel (that
it is full counts as a fault), two ingestor processes, the pipeline's own checkpoints.
Compiler: several datasets (a busy backlog of another one can delay a reclaim), the
content of rows, vector search, the model that judges duplicates, refresh delays of the
document engine.

By far most of the repository's Go code has no protocol state: model providers and
chat pipelines (prompt building and HTTP), document engines (query translation),
command line client and admin server (parsing, printing, CRUD), REST handlers,
parsers and layout analysis, agent components. It consists of conversions and
single-row updates whose correctness unit tests reach; a model of it would repeat
the code. The agent harness is a library that no product package imports. The share
of the Go lines that the map covers is small for that reason.

## 6. Plan

Done: the interview queue, session protocol and composition; syncer; ingestor and
task service; knowledge compiler; theorems for all their safety properties.

Next modules, by how much depends on them: the session lease of the agent run
tracker (`agent/canvas/run_tracker.go`); the event stream of the interview service;
external-call checkpoints and budgets; connector linking and rebuild.

Next theorems: an abstract specification of a link's waterline (what is stored covers
every version up to it) that `Syncer` implements, built on `SyncOK`.
