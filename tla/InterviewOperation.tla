------------------------- MODULE InterviewOperation -------------------------
(***************************************************************************)
(* The durable operation queue of the CS interview service: the rows of    *)
(* InterviewOperation and InterviewRequest, the public event log, and the  *)
(* worker processes that claim, lease, execute and settle operations       *)
(* (api/db/services/interview_operation_service.py and                     *)
(* api/apps/services/cs_interview/worker.py).                              *)
(*                                                                         *)
(* One action is one database statement or one transaction: the code of a  *)
(* worker between two awaits still interleaves with the other workers and  *)
(* with the API, and a process may die between two of its statements.      *)
(*                                                                         *)
(* Time appears only through the comparisons the code makes: a lease is    *)
(* live or expired, next_retry_at is due or not, deadline_at has passed or *)
(* not.  Any relative order of these instants is possible.                 *)
(*                                                                         *)
(* The operations are those of one session, numbered in the order of       *)
(* create_time.  What an operation computes is left to InterviewFlow: here *)
(* its body emits events, commits or raises.                               *)
(***************************************************************************)
EXTENDS Naturals, Sequences, FiniteSets

CONSTANTS
    NumOps,        \* bound: how many operations the session ever creates
    Workers,       \* the lease owners; a restarted process is a new owner
    NoWorker,      \* lease_owner is null
    MaxAttempts,   \* CS_INTERVIEW_OPERATION_MAX_ATTEMPTS
    ClaimBatch,    \* how many candidates one claim looks at
    EventKinds,    \* the public events a body can emit
    MaxLog,        \* bound: worker events emitted per operation
    MaxCrashes     \* bound: how many worker processes die

Ops  == 1 .. NumOps
NoOp == 0

ASSUME ConstantsAssumption ==
    /\ NumOps \in Nat
    /\ MaxAttempts \in Nat \ {0}
    /\ ClaimBatch \in Nat \ {0}
    /\ MaxLog \in Nat
    /\ MaxCrashes \in Nat
    /\ NoWorker \notin Workers
    /\ "error" \notin EventKinds

VARIABLES
    op,         \* InterviewOperation rows
    request,    \* status of the InterviewRequest row of each operation
    log,        \* InterviewEvent rows of each operation, in sequence order
    committed,  \* history: the operations whose body committed its result
    worker      \* program counter and locals of each worker process

vars == <<op, request, log, committed, worker>>

-----------------------------------------------------------------------------
(* Rows.                                                                   *)

Statuses    == {"absent", "pending", "running", "retry_wait",
                "completed", "failed", "cancelled"}
Terminal    == {"completed", "failed", "cancelled"}
ActiveStati == {"pending", "retry_wait", "running"}

Row == [status  : Statuses,
        owner   : Workers \cup {NoWorker},
        attempt : 0 .. MaxAttempts,
        lease   : {"none", "live", "expired"},
        cancel  : BOOLEAN,       \* cancellation_requested
        late    : BOOLEAN,       \* deadline_at <= now
        due     : BOOLEAN]       \* next_retry_at is null or <= now

AbsentRow == [status |-> "absent", owner |-> NoWorker, attempt |-> 0,
              lease |-> "none", cancel |-> FALSE, late |-> FALSE, due |-> TRUE]

PendingRow == [AbsentRow EXCEPT !.status = "pending"]

Requests == {"absent", "queued", "processing", "completed", "failed", "cancelled"}

Event == [kind : EventKinds \cup {"error"}, attempt : Nat]

(* The values update() writes. *)
ClaimedMutant(r, w) == [r EXCEPT !.status = "running", !.owner = w,
                                 !.lease = "live", !.due = TRUE]

Claimed(r, w) == [r EXCEPT !.status = "running", !.owner = w, !.lease = "live",
                           !.due = TRUE, !.attempt = @ + 1]

Settled(r, s) == [r EXCEPT !.status = s, !.owner = NoWorker, !.lease = "none"]

Cancelled(r) == [Settled(r, "cancelled") EXCEPT !.cancel = TRUE]

Waiting(r) == [r EXCEPT !.status = "retry_wait", !.owner = NoWorker,
                        !.lease = "none", !.due = FALSE]

(* The where() clauses of claim.  They all use the now of the call, so     *)
(* what held of deadline_at (never changed) at the select holds at every   *)
(* later statement: a candidate whose deadline passes in between is still  *)
(* claimed, and a row the deadline group left active has deadline_at > now.*)
ExpiredCancellation(r) == r.status = "running" /\ r.cancel /\ r.lease = "expired"

EligibleMutant(r) == \/ r.status = "pending"
                     \/ r.status = "retry_wait" /\ r.due
                     \/ r.status = "running" /\ r.lease = "expired"

Eligible(r) == /\ \/ r.status = "pending"
                  \/ r.status = "retry_wait" /\ r.due
                  \/ r.status = "running" /\ r.lease = "expired"
               /\ r.attempt < MaxAttempts

Claimable(r) == Eligible(r) /\ ~r.cancel /\ ~r.late

StillClaimable(r) == Eligible(r) /\ ~r.cancel

PastDeadlineMutant(r) == r.status \in {"pending", "retry_wait"} /\ r.late

PastDeadline(r) == r.status \in ActiveStati /\ r.late

Exhausted(r) == r.status \in ActiveStati /\ r.attempt >= MaxAttempts

(* The lease predicate of every worker write. *)
Owns(w, o) == op[o].status = "running" /\ op[o].owner = w

(* operation_is_cancelled *)
IsCancelled(o) == op[o].status = "cancelled" \/ op[o].cancel

-----------------------------------------------------------------------------
(* Worker processes.                                                       *)

PollLabels == {"poll", "sweepOps", "sweepReqs", "pick", "lateReqs",
               "exhaust", "exhaustReqs"}
BodyLabels == {"claimed", "begin", "await", "tail", "complete", "failRequest",
               "earlyFail", "decide", "retrying", "logError", "failing",
               "cancelling"}
SettleLabels == {"reqCompleted", "reqFailed", "reqCancelled", "lateFail"}
BusyLabels == BodyLabels \cup SettleLabels
Labels == PollLabels \cup BusyLabels \cup {"dead"}

Errors == {"retryable", "fatal", "pipeline"}

(* op and token are the row that claim returned: its id and the            *)
(* attempt_count the claim gave it.                                        *)
Process == [pc : Labels, op : Ops \cup {NoOp}, token : 0 .. MaxAttempts,
            err : Errors \cup {"none"}, ids : SUBSET Ops]

Idle == [pc |-> "poll", op |-> NoOp, token |-> 0, err |-> "none", ids |-> {}]

At(w, l) == worker[w].pc = l

Become(w, p)   == worker' = [worker EXCEPT ![w] = p]
Goto(w, l)     == Become(w, [worker[w] EXCEPT !.pc = l])
GoIdle(w)      == Become(w, Idle)
Raise(w, l, e) == Become(w, [worker[w] EXCEPT !.pc = l, !.err = e])
Scan(w, l, S)  == Become(w, [worker[w] EXCEPT !.pc = l, !.ids = S])

SetRow(o, r)     == op' = [op EXCEPT ![o] = r]
SetRequest(o, s) == request' = [request EXCEPT ![o] = s]

Init == /\ op = [o \in Ops |-> AbsentRow]
        /\ request = [o \in Ops |-> "absent"]
        /\ log = [o \in Ops |-> <<>>]
        /\ committed = {}
        /\ worker = [w \in Workers |-> Idle]

-----------------------------------------------------------------------------
(* The API.                                                                *)

(* InterviewOperationService.create: the operation and its request appear  *)
(* in one transaction.  Repeating the call with the same request_id        *)
(* returns the existing row and changes nothing.                           *)
Create(o) ==
    /\ op[o].status = "absent"
    /\ \A p \in Ops : p < o => op[p].status # "absent"
    /\ SetRow(o, PendingRow)
    /\ SetRequest(o, "queued")
    /\ UNCHANGED <<log, committed, worker>>

(* InterviewOperationService.cancel_session, one transaction. *)
AfterAbortMutant(r) ==
    IF r.status \in {"pending", "retry_wait"} THEN Cancelled(r) ELSE r

AfterAbort(r) ==
    CASE r.status \in {"pending", "retry_wait"} -> Cancelled(r)
      [] r.status = "running"                   -> [r EXCEPT !.cancel = TRUE]
      [] OTHER                                  -> r

CancelSession ==
    /\ op' = [o \in Ops |-> AfterAbort(op[o])]
    /\ request' = [o \in Ops |-> IF request[o] \in {"queued", "processing"}
                                 THEN "cancelled" ELSE request[o]]
    /\ UNCHANGED <<log, committed, worker>>

-----------------------------------------------------------------------------
(* claim: every statement of it is one action.                             *)

(* The oldest ClaimBatch claimable operations. *)
Candidates ==
    LET C == {o \in Ops : Claimable(op[o])}
    IN  {o \in C : Cardinality({p \in C : p < o}) < ClaimBatch}

SetRows(S, F(_)) == op' = [o \in Ops |-> IF o \in S THEN F(op[o]) ELSE op[o]]

SetRequests(S, s) == request' = [o \in Ops |-> IF o \in S THEN s ELSE request[o]]

FailRow(r)   == Settled(r, "failed")
CancelRow(r) == Settled(r, "cancelled")

Poll(w) ==
    /\ At(w, "poll")
    /\ LET expired == {o \in Ops : ExpiredCancellation(op[o])}
       IN  IF expired # {} THEN Scan(w, "sweepOps", expired)
                           ELSE Scan(w, "pick", Candidates)
    /\ UNCHANGED <<op, request, log, committed>>

(* The rows are updated under the condition, the requests for every        *)
(* selected id.                                                            *)
SweepCancelledOps(w) ==
    /\ At(w, "sweepOps")
    /\ SetRows({o \in worker[w].ids : ExpiredCancellation(op[o])}, CancelRow)
    /\ Goto(w, "sweepReqs")
    /\ UNCHANGED <<request, log, committed>>

SweepCancelledRequests(w) ==
    /\ At(w, "sweepReqs")
    /\ SetRequests(worker[w].ids, "cancelled")
    /\ Scan(w, "pick", Candidates)
    /\ UNCHANGED <<op, log, committed>>

(* The compare-and-swap of the first candidate that is still claimable. *)
Pick(w) ==
    /\ At(w, "pick")
    /\ \E o \in worker[w].ids :
          /\ StillClaimable(op[o])
          /\ \A p \in worker[w].ids : StillClaimable(op[p]) => o <= p
          /\ SetRow(o, Claimed(op[o], w))
          /\ Become(w, [pc |-> "claimed", op |-> o, token |-> op[o].attempt + 1,
                        err |-> "none", ids |-> {}])
    /\ UNCHANGED <<request, log, committed>>

SweepLate(w) ==
    /\ At(w, "pick")
    /\ \A o \in worker[w].ids : ~StillClaimable(op[o])
    /\ LET late == {o \in Ops : PastDeadline(op[o])}
       IN  /\ SetRows(late, FailRow)
           /\ Scan(w, IF late = {} THEN "exhaust" ELSE "lateReqs", late)
    /\ UNCHANGED <<request, log, committed>>

FailLateRequests(w) ==
    /\ At(w, "lateReqs")
    /\ SetRequests(worker[w].ids, "failed")
    /\ Scan(w, "exhaust", {})
    /\ UNCHANGED <<op, log, committed>>

SweepExhausted(w) ==
    /\ At(w, "exhaust")
    /\ LET spent == {o \in Ops : Exhausted(op[o])}
       IN  /\ SetRows(spent, FailRow)
           /\ Scan(w, IF spent = {} THEN "poll" ELSE "exhaustReqs", spent)
    /\ UNCHANGED <<request, log, committed>>

FailExhaustedRequests(w) ==
    /\ At(w, "exhaustReqs")
    /\ SetRequests(worker[w].ids, "failed")
    /\ GoIdle(w)
    /\ UNCHANGED <<op, log, committed>>

-----------------------------------------------------------------------------
(* execute.                                                                *)

(* The tenant semaphore is full or Redis is down: run_once handles the     *)
(* error without executing the operation.                                  *)
SemaphoreDenied(w) ==
    /\ At(w, "claimed")
    /\ Raise(w, "decide", "retryable")
    /\ UNCHANGED <<op, request, log, committed>>

(* set_stage("dispatch") *)
Dispatch(w) ==
    /\ At(w, "claimed")
    /\ IF Owns(w, worker[w].op) THEN Goto(w, "begin") ELSE Raise(w, "decide", "fatal")
    /\ UNCHANGED <<op, request, log, committed>>

(* InterviewRequestService.begin, in the first transaction of the body. *)
Begin(w) ==
    LET o == worker[w].op
    IN  /\ At(w, "begin")
        /\ request[o] \in {"queued", "processing"}
        /\ SetRequest(o, "processing")
        /\ Goto(w, "await")
        /\ UNCHANGED <<op, log, committed>>

(* The body refuses the session's state: the transaction is rolled back. *)
BeginConflict(w) ==
    /\ At(w, "begin")
    /\ request[worker[w].op] \in {"queued", "processing"}
    /\ Raise(w, "failRequest", "fatal")
    /\ UNCHANGED <<op, request, log, committed>>

(* The request failed before: begin raises the saved error. *)
BeginFailed(w, e) ==
    /\ At(w, "begin")
    /\ request[worker[w].op] = "failed"
    /\ Raise(w, IF e = "pipeline" THEN "earlyFail" ELSE "decide", e)
    /\ UNCHANGED <<op, request, log, committed>>

(* The request is settled: the body replays the stored events. *)
Replay(w) ==
    /\ At(w, "begin")
    /\ request[worker[w].op] \in {"completed", "cancelled"}
    /\ Goto(w, "tail")
    /\ UNCHANGED <<op, request, log, committed>>

(* A new InterviewEvent row; the author's attempt is recorded for the      *)
(* properties only.                                                        *)
AppendEvent(w, k) ==
    LET o == worker[w].op
    IN  log' = [log EXCEPT ![o] = Append(log[o], [kind |-> k, attempt |-> worker[w].token])]

(* append_worker_event: the event equal to the last one is not written     *)
(* again.  The cancellation check that follows is folded in: a later       *)
(* cancellation is seen by the next step of the worker.                    *)
AppendWorkerEventMutant(w, k) ==
    LET o == worker[w].op
        last == Len(log[o])
    IN  /\ IF last > 0 /\ log[o][last].kind = k THEN UNCHANGED log
                                                ELSE AppendEvent(w, k)
        /\ UNCHANGED worker

AppendWorkerEvent(w, k) ==
    LET o == worker[w].op
        last == Len(log[o])
    IN  IF Owns(w, o) /\ ~op[o].cancel
        THEN /\ IF last > 0 /\ log[o][last].kind = k THEN UNCHANGED log
                                                     ELSE AppendEvent(w, k)
             /\ UNCHANGED worker
        ELSE /\ Raise(w, "decide", "fatal")
             /\ UNCHANGED log

Emit(w, k) ==
    /\ At(w, "await") \/ At(w, "tail")
    /\ Len(log[worker[w].op]) < MaxLog
    /\ AppendWorkerEvent(w, k)
    /\ UNCHANGED <<op, request, committed>>

(* _ensure_operation_active after an external call. *)
EnsureActive(w) ==
    /\ At(w, "await")
    /\ IsCancelled(worker[w].op)
    /\ Raise(w, "failRequest", "fatal")
    /\ UNCHANGED <<op, request, log, committed>>

(* An error of the body, or a stage timeout or lost semaphore reported by  *)
(* the lease guard.                                                        *)
BodyFails(w, e) ==
    /\ At(w, "await")
    /\ Raise(w, IF e = "retryable" THEN "decide" ELSE "failRequest", e)
    /\ UNCHANGED <<op, request, log, committed>>

(* InterviewRequestService.finish, in the last transaction of the body;    *)
(* neither looks at the lease.                                             *)
Finish(w) ==
    LET o == worker[w].op
    IN  /\ At(w, "await")
        /\ SetRequest(o, "completed")
        /\ committed' = committed \cup {o}
        /\ Goto(w, "tail")
        /\ UNCHANGED <<op, log>>

(* InterviewRequestService.fail: it does not look at the lease either. *)
FailRequest(w) ==
    /\ At(w, "failRequest")
    /\ SetRequest(worker[w].op, "failed")
    /\ Goto(w, IF worker[w].err = "pipeline" THEN "earlyFail" ELSE "decide")
    /\ UNCHANGED <<op, log, committed>>

(* _fail_session called by the body for a pipeline failure code. *)
EarlyFailSession(w) ==
    /\ At(w, "earlyFail")
    /\ Goto(w, "decide")
    /\ UNCHANGED <<op, request, log, committed>>

-----------------------------------------------------------------------------
(* _lease_guard and wait_for, which run while the body awaits.             *)

Renew(w) ==
    LET o == worker[w].op
    IN  /\ At(w, "await")
        /\ ~IsCancelled(o)
        /\ IF Owns(w, o)
           THEN SetRow(o, [op[o] EXCEPT !.lease = "live"]) /\ UNCHANGED worker
           ELSE GoIdle(w) /\ UNCHANGED op
        /\ UNCHANGED <<request, log, committed>>

(* Also stands for the cancellation check _append_events makes after each  *)
(* event: it ends in _handle_failure, which cancels the row as well.       *)
GuardSeesCancel(w) ==
    /\ At(w, "await")
    /\ IsCancelled(worker[w].op)
    /\ Goto(w, "cancelling")
    /\ UNCHANGED <<op, request, log, committed>>

DeadlineTimeout(w) ==
    /\ At(w, "await")
    /\ op[worker[w].op].late
    /\ Raise(w, "decide", "retryable")
    /\ UNCHANGED <<op, request, log, committed>>

-----------------------------------------------------------------------------
(* process: settling the operation.                                        *)

CheckResultMutant(w) ==
    /\ At(w, "tail")
    /\ Goto(w, "complete")
    /\ UNCHANGED <<op, request, log, committed>>

CheckResult(w) ==
    /\ At(w, "tail")
    /\ Goto(w, IF IsCancelled(worker[w].op) THEN "cancelling" ELSE "complete")
    /\ UNCHANGED <<op, request, log, committed>>

(* The row half of complete, fail, cancel_running and retry: one update    *)
(* under the lease predicate.  The request half is a statement of its own. *)
SettleRow(w, r, next) == SetRow(worker[w].op, r) /\ Goto(w, next)

Complete(w) ==
    LET o == worker[w].op
    IN  /\ At(w, "complete")
        /\ IF Owns(w, o)
           THEN SettleRow(w, Settled(op[o], "completed"), "reqCompleted")
           ELSE Raise(w, "decide", "fatal") /\ UNCHANGED op
        /\ UNCHANGED <<request, log, committed>>

CancelRunning(w) ==
    LET o == worker[w].op
    IN  /\ At(w, "cancelling")
        /\ IF Owns(w, o)
           THEN SettleRow(w, Cancelled(op[o]), "reqCancelled")
           ELSE GoIdle(w) /\ UNCHANGED op
        /\ UNCHANGED <<request, log, committed>>

(* _handle_failure decides on a fresh read of the row. *)
Decide(w) ==
    LET o == worker[w].op
        canRetry == /\ worker[w].err = "retryable"
                    /\ op[o].attempt < MaxAttempts
                    /\ ~op[o].late
    IN  /\ At(w, "decide")
        /\ CASE op[o].cancel                              -> Goto(w, "cancelling")
             [] ~op[o].cancel /\ ~Owns(w, o)              -> GoIdle(w)
             [] ~op[o].cancel /\ Owns(w, o) /\ canRetry   -> Goto(w, "retrying")
             [] ~op[o].cancel /\ Owns(w, o) /\ ~canRetry  -> Goto(w, "logError")
        /\ UNCHANGED <<op, request, log, committed>>

Retry(w) ==
    LET o == worker[w].op
    IN  /\ At(w, "retrying")
        /\ IF Owns(w, o) THEN SetRow(o, Waiting(op[o])) ELSE UNCHANGED op
        /\ GoIdle(w)
        /\ UNCHANGED <<request, log, committed>>

(* append_event(10_000, "error"): at most one per operation, not fenced by *)
(* the lease; a failing write is ignored.                                  *)
HasError(o) == \E i \in DOMAIN log[o] : log[o][i].kind = "error"

LogError(w) ==
    LET o == worker[w].op
    IN  /\ At(w, "logError")
        /\ IF HasError(o) THEN UNCHANGED log ELSE AppendEvent(w, "error")
        /\ Goto(w, "failing")
        /\ UNCHANGED <<op, request, committed>>

LogErrorLost(w) ==
    /\ At(w, "logError")
    /\ Goto(w, "failing")
    /\ UNCHANGED <<op, request, log, committed>>

FailMutant(w) ==
    /\ At(w, "failing")
    /\ SettleRow(w, Settled(op[worker[w].op], "failed"), "reqFailed")
    /\ UNCHANGED <<request, log, committed>>

Fail(w) ==
    LET o == worker[w].op
    IN  /\ At(w, "failing")
        /\ IF Owns(w, o)
           THEN SettleRow(w, Settled(op[o], "failed"), "reqFailed")
           ELSE GoIdle(w) /\ UNCHANGED op
        /\ UNCHANGED <<request, log, committed>>

(* The request half of complete, cancel_running and fail. *)
SettleRequest(w) ==
    LET o == worker[w].op
    IN  /\ \/ /\ At(w, "reqCompleted")
              /\ SetRequest(o, "completed")
              /\ GoIdle(w)
           \/ /\ At(w, "reqCancelled")
              /\ SetRequest(o, "cancelled")
              /\ GoIdle(w)
           \/ /\ At(w, "reqFailed")
              /\ SetRequest(o, "failed")
              /\ Goto(w, "lateFail")
        /\ UNCHANGED <<op, log, committed>>

(* _fail_session called by _handle_failure once fail won. *)
LateFailSession(w) ==
    /\ At(w, "lateFail")
    /\ GoIdle(w)
    /\ UNCHANGED <<op, request, log, committed>>

-----------------------------------------------------------------------------
(* The environment: time and process death.                                *)

LeaseExpires(o) ==
    /\ op[o].lease = "live"
    /\ SetRow(o, [op[o] EXCEPT !.lease = "expired"])
    /\ UNCHANGED <<request, log, committed, worker>>

RetryDue(o) ==
    /\ ~op[o].due
    /\ SetRow(o, [op[o] EXCEPT !.due = TRUE])
    /\ UNCHANGED <<request, log, committed, worker>>

DeadlinePasses(o) ==
    /\ op[o].status \in ActiveStati
    /\ ~op[o].late
    /\ SetRow(o, [op[o] EXCEPT !.late = TRUE])
    /\ UNCHANGED <<request, log, committed, worker>>

Dead == {w \in Workers : worker[w].pc = "dead"}

Crash(w) ==
    /\ ~At(w, "dead")
    /\ Cardinality(Dead) < MaxCrashes
    /\ Become(w, [Idle EXCEPT !.pc = "dead"])
    /\ UNCHANGED <<op, request, log, committed>>

-----------------------------------------------------------------------------
Claim(w) == \/ Poll(w) \/ SweepCancelledOps(w) \/ SweepCancelledRequests(w)
            \/ Pick(w) \/ SweepLate(w) \/ FailLateRequests(w)
            \/ SweepExhausted(w) \/ FailExhaustedRequests(w)

Guard(w) == Renew(w) \/ GuardSeesCancel(w) \/ DeadlineTimeout(w)

HandleFailure(w) == \/ FailRequest(w) \/ EarlyFailSession(w) \/ Decide(w)
                    \/ Retry(w) \/ LogError(w) \/ LogErrorLost(w) \/ Fail(w)
                    \/ CancelRunning(w) \/ SettleRequest(w) \/ LateFailSession(w)

Body(w) == \/ Begin(w) \/ BeginConflict(w) \/ Replay(w) \/ EnsureActive(w) \/ Finish(w)
           \/ \E e \in {"fatal", "pipeline"} : BeginFailed(w, e)
           \/ \E k \in EventKinds : Emit(w, k)
           \/ \E e \in Errors : BodyFails(w, e)

Settle(w) == \/ SemaphoreDenied(w) \/ Dispatch(w) \/ CheckResult(w) \/ Complete(w)

Time(o) == LeaseExpires(o) \/ RetryDue(o) \/ DeadlinePasses(o)

Next == \/ \E o \in Ops : Create(o) \/ Time(o)
        \/ CancelSession
        \/ \E w \in Workers : \/ Claim(w) \/ Body(w) \/ Guard(w)
                              \/ Settle(w) \/ HandleFailure(w) \/ Crash(w)

Spec == Init /\ [][Next]_vars

(***************************************************************************)
(* Fairness.  The worker loop takes its next statement, and clocks         *)
(* advance.  Nothing is assumed of the lease guard: its renewals may stop  *)
(* (an exception of acquire_semaphore ends the guard task silently).       *)
(* External calls may hang for ever, but deadline_at passes and wait_for   *)
(* then ends the await.                                                    *)
(***************************************************************************)
Statement(w) == \/ Claim(w) \/ Settle(w) \/ HandleFailure(w) \/ Begin(w) \/ Replay(w)
                \/ BeginConflict(w) \/ \E e \in {"fatal", "pipeline"} : BeginFailed(w, e)

DeadlineSpec == /\ Spec
                /\ \A w \in Workers : WF_vars(Statement(w)) /\ WF_vars(DeadlineTimeout(w))
                /\ \A o \in Ops : WF_vars(DeadlinePasses(o))

-----------------------------------------------------------------------------
(* Properties.                                                             *)

(* Every row, request, event and process has the shape its table or class  *)
(* declares; in particular claim never gives an operation more than        *)
(* max_attempts attempts.                                                  *)
TypeOK == /\ op \in [Ops -> Row]
          /\ request \in [Ops -> Requests]
          /\ log \in [Ops -> Seq(Event)]
          /\ committed \subseteq Ops
          /\ worker \in [Workers -> Process]

(* The lease columns agree with the status: a row has an owner and a lease *)
(* exactly while it is running.                                            *)
LeaseMatchesStatus ==
    \A o \in Ops : /\ (op[o].owner # NoWorker) <=> (op[o].status = "running")
                   /\ (op[o].lease # "none") <=> (op[o].status = "running")

(* The processes that execute an operation, from claim to the last         *)
(* statement that still uses the claimed row.                              *)
Holds(w, o) == worker[w].op = o

(* attempt_count is a fencing token.  No two processes ever hold the same  *)
(* attempt of an operation, no process holds an attempt the row has not    *)
(* reached, and a lease owner that is alive executes exactly the attempt   *)
(* the row counts: the owner test of every worker write is a test that no  *)
(* later claim happened, although the row stores no attempt with the owner.*)
FencingToken ==
    /\ \A o \in Ops, v, w \in Workers :
          Holds(v, o) /\ Holds(w, o) /\ worker[v].token = worker[w].token => v = w
    /\ \A o \in Ops, w \in Workers : Holds(w, o) => worker[w].token <= op[o].attempt
    /\ \A o \in Ops, w \in Workers :
          Owns(w, o) /\ ~At(w, "dead") => Holds(w, o) /\ worker[w].token = op[o].attempt

(* The public events of an operation are those of attempt 1, then those of *)
(* attempt 2, and so on: a worker that lost its lease never writes a body  *)
(* event after its successor did.  The "error" event of _handle_failure is *)
(* excluded: append_event has no lease test, so a worker that loses its    *)
(* lease between Decide and LogError writes it into its successor's log.   *)
EventsInAttemptOrder ==
    \A o \in Ops : \A i, j \in DOMAIN log[o] :
        i < j /\ log[o][i].kind # "error" /\ log[o][j].kind # "error"
        => log[o][i].attempt <= log[o][j].attempt

(* An operation is reported completed only if some attempt of its body     *)
(* committed its result, also when the completing attempt only replayed a  *)
(* settled request.                                                        *)
CompletedMeansCommitted ==
    \A o \in Ops : op[o].status = "completed" => o \in committed

(* A settled operation stays as it was settled, whoever writes next: a     *)
(* stale worker, a sweep, or an abort.                                     *)
TerminalIsFinal ==
    [][\A o \in Ops : op[o].status \in Terminal => op'[o].status = op[o].status]_vars

(* The strengthening that makes the invariants above inductive.            *)

(* A row that was never created is untouched. *)
AbsentUntouched ==
    \A o \in Ops : op[o].status = "absent" => op[o].attempt = 0 /\ ~op[o].cancel

(* A process holds an operation exactly from claim to its last statement,  *)
(* and the attempt it was given is at least the first.                     *)
HeldWhileWorking ==
    \A w \in Workers :
        /\ worker[w].pc \in BusyLabels <=> worker[w].op # NoOp
        /\ worker[w].op # NoOp => worker[w].token > 0

(* A process writes the request half only after the row was settled. *)
SettledBehind ==
    \A w \in Workers : worker[w].pc \in SettleLabels => op[worker[w].op].status \in Terminal

(* No event was written under an attempt the row has not reached. *)
LogWithinAttempts ==
    \A o \in Ops : \A i \in DOMAIN log[o] : log[o][i].attempt <= op[o].attempt

(* What makes a replayed request safe to complete: a settled request stands *)
(* for a committed body, or else its operation is cancelled or settled, and *)
(* then complete cannot win.                                               *)
RequestEvidence ==
    /\ \A o \in Ops :
          /\ op[o].status = "absent" => request[o] = "absent"
          /\ request[o] = "completed" => o \in committed
          /\ request[o] = "cancelled" => op[o].cancel \/ op[o].status \in Terminal
    /\ \A w \in Workers :
          /\ worker[w].pc \in {"sweepOps", "sweepReqs"} => \A o \in worker[w].ids : op[o].cancel
          /\ worker[w].pc \in {"lateReqs", "exhaustReqs"} =>
                \A o \in worker[w].ids : op[o].status \in Terminal
          /\ worker[w].pc = "tail" =>
                \/ worker[w].op \in committed
                \/ op[worker[w].op].cancel
                \/ op[worker[w].op].status \in Terminal
          /\ worker[w].pc = "complete" =>
                \/ worker[w].op \in committed
                \/ op[worker[w].op].status \in Terminal
          /\ worker[w].pc = "reqCompleted" => worker[w].op \in committed

(* The inductive invariant of InterviewOperationProofs. *)
IInv == /\ TypeOK
        /\ LeaseMatchesStatus
        /\ AbsentUntouched
        /\ HeldWhileWorking
        /\ SettledBehind
        /\ FencingToken
        /\ LogWithinAttempts
        /\ EventsInAttemptOrder
        /\ RequestEvidence
        /\ CompletedMeansCommitted

(* Every accepted operation is eventually settled, whichever workers die,  *)
(* leases expire or semaphores deny, as long as one worker survives: the   *)
(* deadline sweep of claim and the timeout of process see to it.           *)
EverySettles ==
    \A o \in Ops : op[o].status = "pending" ~> op[o].status \in Terminal

=============================================================================
