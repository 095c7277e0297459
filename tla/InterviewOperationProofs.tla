---------------------- MODULE InterviewOperationProofs ----------------------
(***************************************************************************)
(* Proofs about InterviewOperation, for any number of operations, workers, *)
(* attempts and crashes.                                                   *)
(*                                                                         *)
(* The argument has two levels.  Every step other than the claim of an     *)
(* operation is QUIET: it leaves attempt_count alone, makes nobody a lease *)
(* owner, reopens nothing, and lets a process keep or drop what it holds.  *)
(* The fencing and finality results only look at quiet steps and at Pick.  *)
(***************************************************************************)
EXTENDS InterviewOperation, TLAPS

-----------------------------------------------------------------------------
(* Rows.                                                                   *)

RowOK(r) == /\ r \in Row
            /\ (r.owner # NoWorker) <=> (r.status = "running")
            /\ (r.lease # "none") <=> (r.status = "running")
            /\ r.status = "absent" => r.attempt = 0 /\ ~r.cancel

QuietRow(r, s) == /\ s.attempt = r.attempt
                  /\ s.status = "running" => r.status = "running" /\ s.owner = r.owner
                  /\ s.status = "absent" => r.status = "absent"
                  /\ r.cancel => s.cancel
                  /\ r.status \in Terminal => s.status = r.status

GoodUpdate(r, s) == RowOK(s) /\ QuietRow(r, s)

(* What the updates of settled rows do: complete, fail, cancel_running,    *)
(* retry, the sweeps and cancel_session only ever close an active row.     *)
LEMMA ClosingUpdates ==
    ASSUME NEW r, RowOK(r), r.status \in ActiveStati, NEW s \in Terminal
    PROVE  /\ GoodUpdate(r, Settled(r, s))
           /\ GoodUpdate(r, Cancelled(r))
           /\ GoodUpdate(r, Waiting(r))
<1> USE DEF GoodUpdate, RowOK, QuietRow, Row, Terminal, ActiveStati, Statuses
<1>1. GoodUpdate(r, Settled(r, s))
  BY DEF Settled
<1>2. GoodUpdate(r, Cancelled(r))
  BY DEF Settled, Cancelled
<1>3. GoodUpdate(r, Waiting(r))
  BY DEF Waiting
<1> QED BY <1>1, <1>2, <1>3

(* What renewals, clocks, aborts and creation do to a row. *)
LEMMA OtherUpdates ==
    ASSUME NEW r, RowOK(r)
    PROVE  /\ GoodUpdate(r, r)
           /\ r.status = "absent" => GoodUpdate(r, PendingRow)
           /\ GoodUpdate(r, AfterAbort(r))
           /\ r.status = "running" => GoodUpdate(r, [r EXCEPT !.lease = "live"])
           /\ r.lease = "live" => GoodUpdate(r, [r EXCEPT !.lease = "expired"])
           /\ GoodUpdate(r, [r EXCEPT !.due = TRUE])
           /\ GoodUpdate(r, [r EXCEPT !.late = TRUE])
<1> USE DEF GoodUpdate, RowOK, QuietRow, Row, Terminal, Statuses
<1>1. GoodUpdate(r, r)
  OBVIOUS
<1>2. r.status = "absent" => GoodUpdate(r, PendingRow)
  BY ConstantsAssumption DEF PendingRow, AbsentRow
<1>3. GoodUpdate(r, AfterAbort(r))
  <2>1. CASE r.status \in {"pending", "retry_wait"}
    <3>1. AfterAbort(r) = Cancelled(r)
      BY <2>1 DEF AfterAbort
    <3> HIDE DEF GoodUpdate, RowOK, QuietRow, Row, Terminal, Statuses
    <3> QED BY <2>1, <3>1, ClosingUpdates DEF ActiveStati, Terminal
  <2>2. CASE r.status = "running"
    BY <2>2 DEF AfterAbort
  <2>3. CASE r.status \notin {"pending", "retry_wait", "running"}
    BY <2>3 DEF AfterAbort
  <2> QED BY <2>1, <2>2, <2>3
<1>4. r.status = "running" => GoodUpdate(r, [r EXCEPT !.lease = "live"])
  OBVIOUS
<1>5. r.lease = "live" => GoodUpdate(r, [r EXCEPT !.lease = "expired"])
  OBVIOUS
<1>6. GoodUpdate(r, [r EXCEPT !.due = TRUE]) /\ GoodUpdate(r, [r EXCEPT !.late = TRUE])
  OBVIOUS
<1> QED BY <1>1, <1>2, <1>3, <1>4, <1>5, <1>6

(* The claim: the only update that raises the attempt and sets an owner. *)
LEMMA ClaimUpdate ==
    ASSUME NEW r, RowOK(r), StillClaimable(r), NEW w \in Workers
    PROVE  /\ RowOK(Claimed(r, w))
           /\ Claimed(r, w).attempt = r.attempt + 1
           /\ Claimed(r, w).owner = w
           /\ Claimed(r, w).status = "running"
           /\ Claimed(r, w).cancel = r.cancel
           /\ r.status \in ActiveStati
           /\ r.attempt \in 0 .. (MaxAttempts - 1)
<1>1. r.status \in ActiveStati /\ r.attempt < MaxAttempts
  BY DEF StillClaimable, Eligible, ActiveStati
<1>2. r.attempt \in 0 .. (MaxAttempts - 1) /\ r.attempt + 1 \in 0 .. MaxAttempts
  BY <1>1, ConstantsAssumption DEF RowOK, Row
<1> QED BY <1>1, <1>2, ConstantsAssumption DEF RowOK, Row, Claimed, Statuses, ActiveStati

-----------------------------------------------------------------------------
(* Processes.                                                              *)

(* A process keeps the attempt it holds, or drops it. *)
QuietProc(p, q) == (q.op = p.op /\ q.token = p.token) \/ q.op = NoOp

ProcOK(p) == /\ p \in Process
             /\ p.pc \in BusyLabels <=> p.op # NoOp
             /\ p.op # NoOp => p.token > 0

(* Every local update of a process keeps its shape and releases or keeps what it holds. *)
LEMMA ProcUpdates ==
    ASSUME NEW p, ProcOK(p)
    PROVE  /\ ProcOK(Idle) /\ QuietProc(p, Idle)
           /\ ProcOK([Idle EXCEPT !.pc = "dead"]) /\ QuietProc(p, [Idle EXCEPT !.pc = "dead"])
           /\ \A l \in Labels : (l \in BusyLabels <=> p.op # NoOp)
                 => /\ ProcOK([p EXCEPT !.pc = l]) /\ QuietProc(p, [p EXCEPT !.pc = l])
                    /\ \A e \in Errors : /\ ProcOK([p EXCEPT !.pc = l, !.err = e])
                                         /\ QuietProc(p, [p EXCEPT !.pc = l, !.err = e])
                    /\ \A S \in SUBSET Ops : /\ ProcOK([p EXCEPT !.pc = l, !.ids = S])
                                             /\ QuietProc(p, [p EXCEPT !.pc = l, !.ids = S])
<1> USE DEF ProcOK, QuietProc, Process
<1>1. ProcOK(Idle) /\ QuietProc(p, Idle)
  BY ConstantsAssumption DEF Idle, Labels, PollLabels, BusyLabels, BodyLabels, SettleLabels
<1>2. ProcOK([Idle EXCEPT !.pc = "dead"]) /\ QuietProc(p, [Idle EXCEPT !.pc = "dead"])
  BY ConstantsAssumption DEF Idle, Labels, PollLabels, BusyLabels, BodyLabels, SettleLabels
<1>3. ASSUME NEW l \in Labels, l \in BusyLabels <=> p.op # NoOp
      PROVE  /\ ProcOK([p EXCEPT !.pc = l]) /\ QuietProc(p, [p EXCEPT !.pc = l])
             /\ \A e \in Errors : /\ ProcOK([p EXCEPT !.pc = l, !.err = e])
                                  /\ QuietProc(p, [p EXCEPT !.pc = l, !.err = e])
             /\ \A S \in SUBSET Ops : /\ ProcOK([p EXCEPT !.pc = l, !.ids = S])
                                      /\ QuietProc(p, [p EXCEPT !.pc = l, !.ids = S])
  BY <1>3
<1> QED BY <1>1, <1>2, <1>3

-----------------------------------------------------------------------------
(* States and quiet steps.                                                 *)

Basic == /\ op \in [Ops -> Row] /\ \A o \in Ops : RowOK(op[o])
         /\ worker \in [Workers -> Process] /\ \A w \in Workers : ProcOK(worker[w])
         /\ request \in [Ops -> Requests]
         /\ log \in [Ops -> Seq(Event)]
         /\ committed \subseteq Ops

QuietOps == /\ op' \in [Ops -> Row]
            /\ \A o \in Ops : GoodUpdate(op[o], op'[o])

QuietProcs == /\ worker' \in [Workers -> Process]
              /\ \A v \in Workers : ProcOK(worker'[v]) /\ QuietProc(worker[v], worker'[v])

TypedRest == /\ request' \in [Ops -> Requests]
             /\ log' \in [Ops -> Seq(Event)]
             /\ committed' \subseteq Ops

Quiet == QuietOps /\ QuietProcs /\ TypedRest

(* Basic is the conjunction of four named parts of IInv, row by row and process by process. *)
LEMMA BasicIsShape ==
    Basic <=> TypeOK /\ LeaseMatchesStatus /\ AbsentUntouched /\ HeldWhileWorking
BY DEF Basic, TypeOK, LeaseMatchesStatus, AbsentUntouched, HeldWhileWorking, RowOK, ProcOK

(* Basic holds before anything was created. *)
LEMMA BasicInit == Init => Basic
<1> SUFFICES ASSUME Init PROVE Basic
  OBVIOUS
<1>1. op \in [Ops -> Row] /\ \A o \in Ops : RowOK(op[o])
  BY ConstantsAssumption DEF Init, AbsentRow, RowOK, Row, Statuses
<1>2. worker \in [Workers -> Process] /\ \A w \in Workers : ProcOK(worker[w])
  BY ConstantsAssumption
     DEF Init, Idle, ProcOK, Process, Labels, PollLabels, BusyLabels, BodyLabels, SettleLabels
<1> QED BY <1>1, <1>2 DEF Basic, Init, Requests

(* An update of one row, and the two sweeping updates. *)
LEMMA QuietSetRow ==
    ASSUME Basic, NEW o \in Ops, NEW r, GoodUpdate(op[o], r), SetRow(o, r)
    PROVE  QuietOps
BY OtherUpdates DEF Basic, SetRow, QuietOps, GoodUpdate, RowOK

(* The sweeps of claim settle active rows only. *)
LEMMA QuietSweeps ==
    ASSUME Basic, NEW S \in SUBSET Ops, \A o \in S : op[o].status \in ActiveStati,
           SetRows(S, FailRow) \/ SetRows(S, CancelRow)
    PROVE  QuietOps
<1>1. \A o \in S : GoodUpdate(op[o], FailRow(op[o])) /\ GoodUpdate(op[o], CancelRow(op[o]))
  BY ClosingUpdates DEF Basic, FailRow, CancelRow, Terminal
<1>2. \A o \in Ops : GoodUpdate(op[o], op[o])
  BY OtherUpdates DEF Basic
<1>3. CASE SetRows(S, FailRow)
  BY <1>1, <1>2, <1>3 DEF SetRows, QuietOps, GoodUpdate, RowOK
<1>4. CASE SetRows(S, CancelRow)
  BY <1>1, <1>2, <1>4 DEF SetRows, QuietOps, GoodUpdate, RowOK
<1> QED BY <1>3, <1>4

(* A step that writes no row is quiet. *)
LEMMA QuietOpsUnchanged == Basic /\ UNCHANGED op => QuietOps
BY OtherUpdates DEF Basic, QuietOps

(* A process moves to a label on the same side of claim and release. *)
LEMMA QuietMoves ==
    ASSUME Basic, NEW w \in Workers
    PROVE  /\ UNCHANGED worker => QuietProcs
           /\ GoIdle(w) => QuietProcs
           /\ Become(w, [Idle EXCEPT !.pc = "dead"]) => QuietProcs
           /\ \A l \in Labels : (l \in BusyLabels <=> worker[w].pc \in BusyLabels)
                 => /\ Goto(w, l) => QuietProcs
                    /\ \A e \in Errors : Raise(w, l, e) => QuietProcs
                    /\ \A S \in SUBSET Ops : Scan(w, l, S) => QuietProcs
<1>1. \A v \in Workers : QuietProc(worker[v], worker[v]) /\ ProcOK(worker[v])
  BY DEF QuietProc, Basic
<1>2. ASSUME NEW q, ProcOK(q), QuietProc(worker[w], q), Become(w, q) PROVE QuietProcs
  BY <1>1, <1>2 DEF Basic, Become, QuietProcs, ProcOK
<1>3. UNCHANGED worker => QuietProcs
  BY <1>1 DEF QuietProcs, Basic
<1>4. GoIdle(w) => QuietProcs
  BY <1>1, <1>2, ProcUpdates DEF GoIdle
<1>5. Become(w, [Idle EXCEPT !.pc = "dead"]) => QuietProcs
  BY <1>1, <1>2, ProcUpdates
<1>6. ASSUME NEW l \in Labels, l \in BusyLabels <=> worker[w].pc \in BusyLabels
      PROVE  /\ Goto(w, l) => QuietProcs
             /\ \A e \in Errors : Raise(w, l, e) => QuietProcs
             /\ \A S \in SUBSET Ops : Scan(w, l, S) => QuietProcs
  <2>1. l \in BusyLabels <=> worker[w].op # NoOp
    BY <1>1, <1>6 DEF ProcOK
  <2>2. Goto(w, l) => QuietProcs
    BY <1>1, <1>2, <2>1, ProcUpdates DEF Goto
  <2>3. \A e \in Errors : Raise(w, l, e) => QuietProcs
    BY <1>1, <1>2, <2>1, ProcUpdates DEF Raise
  <2>4. \A S \in SUBSET Ops : Scan(w, l, S) => QuietProcs
    BY <1>1, <1>2, <2>1, ProcUpdates DEF Scan
  <2> QED BY <2>2, <2>3, <2>4
<1> QED BY <1>3, <1>4, <1>5, <1>6

(* The operation a busy process works on. *)
LEMMA BusyHolds ==
    ASSUME Basic, NEW w \in Workers, worker[w].pc \in BusyLabels
    PROVE  /\ worker[w].op \in Ops
           /\ worker[w].token \in 1 .. MaxAttempts
           /\ RowOK(op[worker[w].op])
BY ConstantsAssumption DEF Basic, ProcOK, Process

(* A new event goes to the end of the log of the held operation, under the *)
(* attempt its author holds.                                               *)
LEMMA AppendEffect ==
    ASSUME Basic, NEW w \in Workers, worker[w].pc \in BusyLabels,
           NEW k \in EventKinds \cup {"error"}, AppendEvent(w, k)
    PROVE  /\ log' \in [Ops -> Seq(Event)]
           /\ log'[worker[w].op] = Append(log[worker[w].op],
                                          [kind |-> k, attempt |-> worker[w].token])
           /\ \A p \in Ops : p # worker[w].op => log'[p] = log[p]
<1>1. worker[w].op \in Ops /\ worker[w].token \in Nat
  BY BusyHolds, ConstantsAssumption
<1>2. [kind |-> k, attempt |-> worker[w].token] \in Event
  BY <1>1 DEF Event
<1>3. Append(log[worker[w].op], [kind |-> k, attempt |-> worker[w].token]) \in Seq(Event)
  BY <1>1, <1>2 DEF Basic
<1> QED BY <1>1, <1>3 DEF AppendEvent, Basic

-----------------------------------------------------------------------------
(* Every step but Pick is quiet.                                           *)

(* create, cancel_session, the clocks and a crash are quiet. *)
LEMMA QuietEnvironment ==
    ASSUME Basic
    PROVE  /\ \A o \in Ops : Create(o) => Quiet
           /\ \A o \in Ops : Time(o) => Quiet
           /\ CancelSession => Quiet
           /\ \A w \in Workers : Crash(w) => Quiet
           /\ UNCHANGED vars => Quiet
<1>u. UNCHANGED worker => QuietProcs
  BY QuietMoves DEF QuietProcs, Basic, QuietProc
<1>1. ASSUME NEW o \in Ops, Create(o) PROVE Quiet
  <2>1. QuietOps
    BY <1>1, OtherUpdates, QuietSetRow DEF Create, Basic
  <2> QED BY <1>1, <1>u, <2>1 DEF Create, Quiet, TypedRest, Basic, SetRequest, Requests
<1>2. ASSUME NEW o \in Ops, Time(o) PROVE Quiet
  <2>1. QuietOps
    BY <1>2, OtherUpdates, QuietSetRow DEF Time, LeaseExpires, RetryDue, DeadlinePasses, Basic
  <2> QED BY <1>2, <1>u, <2>1
      DEF Time, LeaseExpires, RetryDue, DeadlinePasses, Quiet, TypedRest, Basic
<1>3. ASSUME CancelSession PROVE Quiet
  <2>1. \A o \in Ops : op'[o] = AfterAbort(op[o]) /\ GoodUpdate(op[o], op'[o])
    BY <1>3, OtherUpdates DEF CancelSession, Basic
  <2>2. QuietOps
    BY <1>3, <2>1 DEF CancelSession, QuietOps, GoodUpdate, RowOK
  <2> QED BY <1>3, <1>u, <2>2 DEF CancelSession, Quiet, TypedRest, Basic, Requests
<1>4. ASSUME NEW w \in Workers, Crash(w) PROVE Quiet
  BY <1>4, QuietMoves, QuietOpsUnchanged DEF Crash, Quiet, TypedRest, Basic
<1>5. UNCHANGED vars => Quiet
  BY <1>u, QuietOpsUnchanged DEF vars, Quiet, TypedRest, Basic
<1> QED BY <1>1, <1>2, <1>3, <1>4, <1>5

(* Every statement of claim but the compare-and-swap is quiet. *)
LEMMA QuietClaim ==
    ASSUME Basic, NEW w \in Workers, Claim(w), ~Pick(w)
    PROVE  Quiet
<1> USE QuietMoves, QuietOpsUnchanged DEF At, TypedRest, Basic, Labels, PollLabels, BusyLabels, BodyLabels, SettleLabels
<1>1. CASE Poll(w)
  <2>1. {o \in Ops : ExpiredCancellation(op[o])} \in SUBSET Ops /\ Candidates \in SUBSET Ops
    BY DEF Candidates
  <2>2. QuietProcs
    BY <1>1, <2>1 DEF Poll
  <2> QED BY <1>1, <2>2 DEF Poll, Quiet
<1>2. CASE SweepCancelledOps(w)
  <2>1. {o \in worker[w].ids : ExpiredCancellation(op[o])} \in SUBSET Ops
    BY DEF ProcOK, Process
  <2>2. QuietOps
    BY <1>2, <2>1, QuietSweeps DEF SweepCancelledOps, ExpiredCancellation, ActiveStati
  <2> QED BY <1>2, <2>2 DEF SweepCancelledOps, Quiet
<1>3. CASE SweepCancelledRequests(w)
  BY <1>3 DEF SweepCancelledRequests, SetRequests, Requests, Quiet, Candidates
<1>4. CASE SweepLate(w)
  <2>1. QuietOps
    BY <1>4, QuietSweeps DEF SweepLate, PastDeadline
  <2> QED BY <1>4, <2>1 DEF SweepLate, Quiet
<1>5. CASE FailLateRequests(w)
  <2>1. QuietProcs
    <3>1. {} \in SUBSET Ops
      OBVIOUS
    <3> QED BY <1>5, <3>1 DEF FailLateRequests
  <2> QED BY <1>5, <2>1 DEF FailLateRequests, SetRequests, Requests, Quiet
<1>6. CASE SweepExhausted(w)
  <2>1. QuietOps
    BY <1>6, QuietSweeps DEF SweepExhausted, Exhausted
  <2> QED BY <1>6, <2>1 DEF SweepExhausted, Quiet
<1>7. CASE FailExhaustedRequests(w)
  BY <1>7 DEF FailExhaustedRequests, SetRequests, Requests, Quiet
<1> QED BY <1>1, <1>2, <1>3, <1>4, <1>5, <1>6, <1>7 DEF Claim

(* Every step of a body and of its lease guard is quiet. *)
LEMMA QuietBody ==
    ASSUME Basic, NEW w \in Workers, Body(w) \/ Guard(w)
    PROVE  Quiet
<1> USE QuietMoves, QuietOpsUnchanged DEF At, TypedRest, Basic, Errors, Labels, PollLabels, BusyLabels, BodyLabels, SettleLabels
<1>1. CASE Begin(w)
  BY <1>1, BusyHolds DEF Begin, Quiet, SetRequest, Requests
<1>2. CASE BeginConflict(w)
  BY <1>2, BusyHolds DEF BeginConflict, Quiet
<1>3. CASE Replay(w)
  BY <1>3, BusyHolds DEF Replay, Quiet
<1>4. CASE EnsureActive(w)
  BY <1>4, BusyHolds DEF EnsureActive, Quiet
<1>5. CASE Finish(w)
  BY <1>5, BusyHolds DEF Finish, Quiet, SetRequest, Requests
<1>6. ASSUME NEW e \in {"fatal", "pipeline"}, BeginFailed(w, e) PROVE Quiet
  BY <1>6 DEF BeginFailed, Quiet
<1>7. ASSUME NEW k \in EventKinds, Emit(w, k) PROVE Quiet
  <2>1. worker[w].pc \in BusyLabels
    BY <1>7 DEF Emit
  <2>2. log' \in [Ops -> Seq(Event)]
    BY <1>7, <2>1, AppendEffect DEF Emit, AppendWorkerEvent
  <2>3. QuietProcs
    BY <1>7 DEF Emit, AppendWorkerEvent
  <2> QED BY <1>7, <2>2, <2>3 DEF Emit, Quiet
<1>8. ASSUME NEW e \in Errors, BodyFails(w, e) PROVE Quiet
  BY <1>8 DEF BodyFails, Quiet
<1>9. CASE Renew(w)
  <2>1. QuietOps
    BY <1>9, BusyHolds, OtherUpdates, QuietSetRow DEF Renew, Owns
  <2>2. QuietProcs
    BY <1>9 DEF Renew
  <2> QED BY <1>9, <2>1, <2>2 DEF Renew, Quiet
<1>10. CASE GuardSeesCancel(w)
  BY <1>10, BusyHolds DEF GuardSeesCancel, Quiet
<1>11. CASE DeadlineTimeout(w)
  BY <1>11, BusyHolds DEF DeadlineTimeout, Quiet
<1> QED BY <1>1, <1>2, <1>3, <1>4, <1>5, <1>6, <1>7, <1>8, <1>9, <1>10, <1>11 DEF Body, Guard

(* Every step that settles an operation is quiet. *)
LEMMA QuietSettle ==
    ASSUME Basic, NEW w \in Workers, Settle(w) \/ HandleFailure(w)
    PROVE  Quiet
<1> USE QuietMoves, QuietOpsUnchanged DEF At, TypedRest, Basic, Errors, Labels, PollLabels, BusyLabels, BodyLabels, SettleLabels
<1>1. CASE SemaphoreDenied(w)
  BY <1>1, BusyHolds DEF SemaphoreDenied, Quiet
<1>2. CASE Dispatch(w)
  BY <1>2, BusyHolds DEF Dispatch, Quiet
<1>3. CASE CheckResult(w)
  BY <1>3, BusyHolds DEF CheckResult, Quiet
<1>4. CASE Complete(w)
  <2>1. QuietOps
    BY <1>4, BusyHolds, ClosingUpdates, QuietSetRow
       DEF Complete, SettleRow, Owns, ActiveStati, Terminal
  <2>2. QuietProcs
    BY <1>4 DEF Complete, SettleRow
  <2> QED BY <1>4, <2>1, <2>2 DEF Complete, Quiet
<1>5. CASE FailRequest(w)
  BY <1>5, BusyHolds DEF FailRequest, Quiet, SetRequest, Requests
<1>6. CASE EarlyFailSession(w)
  BY <1>6, BusyHolds DEF EarlyFailSession, Quiet
<1>7. CASE Decide(w)
  BY <1>7, BusyHolds DEF Decide, Quiet
<1>8. CASE Retry(w)
  <2>1. QuietOps
    BY <1>8, BusyHolds, ClosingUpdates, QuietSetRow
       DEF Retry, SettleRow, Owns, ActiveStati, Terminal
  <2>2. QuietProcs
    BY <1>8 DEF Retry, SettleRow
  <2> QED BY <1>8, <2>1, <2>2 DEF Retry, Quiet
<1>9. CASE LogError(w)
  <2>1. worker[w].pc \in BusyLabels
    BY <1>9 DEF LogError
  <2>2. log' \in [Ops -> Seq(Event)]
    BY <1>9, <2>1, AppendEffect DEF LogError
  <2> QED BY <1>9, <2>2 DEF LogError, Quiet
<1>10. CASE LogErrorLost(w)
  BY <1>10, BusyHolds DEF LogErrorLost, Quiet
<1>11. CASE Fail(w)
  <2>1. QuietOps
    BY <1>11, BusyHolds, ClosingUpdates, QuietSetRow
       DEF Fail, SettleRow, Owns, ActiveStati, Terminal
  <2>2. QuietProcs
    BY <1>11 DEF Fail, SettleRow
  <2> QED BY <1>11, <2>1, <2>2 DEF Fail, Quiet
<1>12. CASE CancelRunning(w)
  <2>1. QuietOps
    BY <1>12, BusyHolds, ClosingUpdates, QuietSetRow
       DEF CancelRunning, SettleRow, Owns, ActiveStati, Terminal
  <2>2. QuietProcs
    BY <1>12 DEF CancelRunning, SettleRow
  <2> QED BY <1>12, <2>1, <2>2 DEF CancelRunning, Quiet
<1>13. CASE SettleRequest(w)
  BY <1>13, BusyHolds DEF SettleRequest, Quiet, SetRequest, Requests
<1>14. CASE LateFailSession(w)
  BY <1>14, BusyHolds DEF LateFailSession, Quiet
<1> QED BY <1>1, <1>2, <1>3, <1>4, <1>5, <1>6, <1>7, <1>8, <1>9, <1>10, <1>11, <1>12, <1>13, <1>14
       DEF Settle, HandleFailure

(* Only the compare-and-swap of claim starts an attempt. *)
LEMMA QuietOrPick ==
    Basic /\ [Next]_vars => Quiet \/ \E w \in Workers : Pick(w)
BY QuietEnvironment, QuietClaim, QuietBody, QuietSettle DEF Next

-----------------------------------------------------------------------------
(* The claim.                                                              *)

(* Pick gives one operation a new attempt and one process that attempt. *)
PickOf(w, o) ==
    /\ StillClaimable(op[o])
    /\ op' = [op EXCEPT ![o] = Claimed(op[o], w)]
    /\ worker' = [worker EXCEPT ![w] = [pc |-> "claimed", op |-> o, token |-> op[o].attempt + 1,
                                       err |-> "none", ids |-> {}]]
    /\ worker[w].pc = "pick" /\ worker[w].op = NoOp
    /\ UNCHANGED <<request, log, committed>>

(* The compare-and-swap claims one operation of the session. *)
LEMMA PickIsPickOf ==
    ASSUME Basic, NEW w \in Workers, Pick(w)
    PROVE  \E o \in Ops : PickOf(w, o)
<1>1. worker[w].pc = "pick" /\ worker[w].op = NoOp /\ worker[w].ids \subseteq Ops
  BY DEF Pick, At, Basic, ProcOK, Process, BusyLabels, BodyLabels, SettleLabels
<1> QED BY <1>1 DEF Pick, PickOf, SetRow, Become

(* What claiming an operation does to the row and to the process. *)
LEMMA PickEffect ==
    ASSUME Basic, NEW w \in Workers, NEW o \in Ops, PickOf(w, o)
    PROVE  /\ Basic'
           /\ op'[o].attempt = op[o].attempt + 1 /\ op'[o].owner = w
           /\ op'[o].cancel = op[o].cancel /\ op'[o].status = "running"
           /\ op[o].status \in ActiveStati
           /\ op[o].attempt \in Nat
           /\ \A p \in Ops : p # o => op'[p] = op[p]
           /\ worker'[w].pc = "claimed" /\ worker'[w].op = o
           /\ worker'[w].token = op[o].attempt + 1 /\ worker'[w].ids = {}
           /\ \A v \in Workers : v # w => worker'[v] = worker[v]
<1>1. /\ RowOK(Claimed(op[o], w)) /\ Claimed(op[o], w).attempt = op[o].attempt + 1
      /\ Claimed(op[o], w).owner = w /\ Claimed(op[o], w).cancel = op[o].cancel
      /\ Claimed(op[o], w).status = "running"
      /\ op[o].status \in ActiveStati /\ op[o].attempt \in 0 .. (MaxAttempts - 1)
  BY ClaimUpdate DEF PickOf, Basic
<1>2. op' \in [Ops -> Row] /\ \A p \in Ops : RowOK(op'[p])
  BY <1>1 DEF PickOf, Basic, RowOK
<1>3. ProcOK([pc |-> "claimed", op |-> o, token |-> op[o].attempt + 1,
              err |-> "none", ids |-> {}])
  BY <1>1, ConstantsAssumption
     DEF ProcOK, Process, Labels, BusyLabels, BodyLabels, Ops, NoOp
<1>4. worker' \in [Workers -> Process] /\ \A v \in Workers : ProcOK(worker'[v])
  BY <1>3 DEF PickOf, Basic, ProcOK
<1>5. Basic'
  BY <1>2, <1>4 DEF Basic, PickOf
<1>6. op \in [Ops -> Row] /\ worker \in [Workers -> Process]
  BY DEF Basic
<1>7. op'[o] = Claimed(op[o], w) /\ \A p \in Ops : p # o => op'[p] = op[p]
  BY <1>6 DEF PickOf
<1>8. /\ worker'[w] = [pc |-> "claimed", op |-> o, token |-> op[o].attempt + 1,
                       err |-> "none", ids |-> {}]
      /\ \A v \in Workers : v # w => worker'[v] = worker[v]
  BY <1>6 DEF PickOf
<1>9. op[o].attempt \in Nat
  BY <1>1, ConstantsAssumption
<1> QED BY <1>1, <1>5, <1>7, <1>8, <1>9

(* Basic is inductive. *)
LEMMA BasicNext == Basic /\ [Next]_vars => Basic'
<1> SUFFICES ASSUME Basic, [Next]_vars PROVE Basic'
  OBVIOUS
<1>1. CASE Quiet
  BY <1>1 DEF Quiet, QuietOps, QuietProcs, TypedRest, GoodUpdate, Basic
<1>2. ASSUME NEW w \in Workers, Pick(w) PROVE Basic'
  BY <1>2, PickIsPickOf, PickEffect
<1> QED BY <1>1, <1>2, QuietOrPick

-----------------------------------------------------------------------------
(* Releasing.                                                              *)

(* A living process that stops working on an operation does not own it any *)
(* more, and a dead one stays dead.                                        *)
CleanRelease ==
    \A v \in Workers : worker'[v].pc # "dead" =>
        /\ worker[v].pc # "dead"
        /\ \/ worker'[v].op = worker[v].op
           \/ ~(op'[worker[v].op].status = "running" /\ op'[worker[v].op].owner = v)

(* What a step of w must show for CleanRelease. *)
Releases(w) == \/ worker'[w].op = worker[w].op
               \/ ~(op'[worker[w].op].status = "running" /\ op'[worker[w].op].owner = w)

(* Moving a process to another label changes neither what it holds nor the other processes. *)
LEMMA MoveEffects ==
    ASSUME Basic, NEW w \in Workers, NEW l, NEW e, NEW S,
           \/ Goto(w, l) \/ Raise(w, l, e) \/ Scan(w, l, S)
    PROVE  /\ worker'[w].op = worker[w].op
           /\ worker'[w].pc = l
           /\ \A v \in Workers : v # w => worker'[v] = worker[v]
<1>1. worker \in [Workers -> Process] /\ worker[w] \in Process
  BY DEF Basic
<1>2. CASE Goto(w, l)
  BY <1>1, <1>2 DEF Goto, Become, Process
<1>3. CASE Raise(w, l, e)
  BY <1>1, <1>3 DEF Raise, Become, Process
<1>4. CASE Scan(w, l, S)
  BY <1>1, <1>4 DEF Scan, Become, Process
<1> QED BY <1>2, <1>3, <1>4

(* A process that goes back to polling holds nothing, and the other processes stay. *)
LEMMA IdleEffects ==
    ASSUME Basic, NEW w \in Workers, GoIdle(w)
    PROVE  /\ worker'[w] = Idle
           /\ \A v \in Workers : v # w => worker'[v] = worker[v]
BY DEF Basic, GoIdle, Become

(* A step in which one process lets go of its operation cleanly is a clean release. *)
LEMMA OneReleases ==
    ASSUME Basic, NEW w \in Workers, worker[w].pc # "dead", Releases(w),
           \A v \in Workers : v # w => worker'[v] = worker[v]
    PROVE  CleanRelease
BY DEF CleanRelease, Releases

(* The statements of claim release nothing. *)
LEMMA ReleaseClaim ==
    ASSUME Basic, NEW w \in Workers, Claim(w), ~Pick(w)
    PROVE  CleanRelease
<1>1. CASE Poll(w)
  BY <1>1, MoveEffects, OneReleases DEF Poll, At, Releases
<1>2. CASE SweepCancelledOps(w)
  BY <1>2, MoveEffects, OneReleases DEF SweepCancelledOps, At, Releases
<1>3. CASE SweepCancelledRequests(w)
  BY <1>3, MoveEffects, OneReleases DEF SweepCancelledRequests, At, Releases
<1>4. CASE SweepLate(w)
  BY <1>4, MoveEffects, OneReleases DEF SweepLate, At, Releases
<1>5. CASE FailLateRequests(w)
  BY <1>5, MoveEffects, OneReleases DEF FailLateRequests, At, Releases
<1>6. CASE SweepExhausted(w)
  BY <1>6, MoveEffects, OneReleases DEF SweepExhausted, At, Releases
<1>7. CASE FailExhaustedRequests(w)
  <2>1. worker[w].op = NoOp
    BY <1>7 DEF FailExhaustedRequests, At, Basic, ProcOK, BusyLabels, BodyLabels, SettleLabels
  <2> QED BY <1>7, <2>1, IdleEffects, OneReleases DEF FailExhaustedRequests, At, Releases, Idle
<1> QED BY <1>1, <1>2, <1>3, <1>4, <1>5, <1>6, <1>7 DEF Claim

(* A body lets go of its operation only when it no longer owns the lease. *)
LEMMA ReleaseBody ==
    ASSUME Basic, NEW w \in Workers, Body(w) \/ Guard(w)
    PROVE  CleanRelease
<1>1. CASE Begin(w)
  BY <1>1, MoveEffects, OneReleases DEF Begin, At, Releases
<1>2. CASE BeginConflict(w)
  BY <1>2, MoveEffects, OneReleases DEF BeginConflict, At, Releases
<1>3. CASE Replay(w)
  BY <1>3, MoveEffects, OneReleases DEF Replay, At, Releases
<1>4. CASE EnsureActive(w)
  BY <1>4, MoveEffects, OneReleases DEF EnsureActive, At, Releases
<1>5. CASE Finish(w)
  BY <1>5, MoveEffects, OneReleases DEF Finish, At, Releases
<1>6. ASSUME NEW e \in {"fatal", "pipeline"}, BeginFailed(w, e) PROVE CleanRelease
  BY <1>6, MoveEffects, OneReleases DEF BeginFailed, At, Releases
<1>7. ASSUME NEW k \in EventKinds, Emit(w, k) PROVE CleanRelease
  BY <1>7, MoveEffects, OneReleases DEF Emit, AppendWorkerEvent, At, Releases
<1>8. ASSUME NEW e \in Errors, BodyFails(w, e) PROVE CleanRelease
  BY <1>8, MoveEffects, OneReleases DEF BodyFails, At, Releases
<1>9. CASE Renew(w)
  BY <1>9, IdleEffects, OneReleases DEF Renew, At, Releases, Owns
<1>10. CASE GuardSeesCancel(w)
  BY <1>10, MoveEffects, OneReleases DEF GuardSeesCancel, At, Releases
<1>11. CASE DeadlineTimeout(w)
  BY <1>11, MoveEffects, OneReleases DEF DeadlineTimeout, At, Releases
<1> QED BY <1>1, <1>2, <1>3, <1>4, <1>5, <1>6, <1>7, <1>8, <1>9, <1>10, <1>11 DEF Body, Guard

(* A settling process lets go of its operation only once the row is no longer its own. *)
LEMMA ReleaseSettle ==
    ASSUME Basic, SettledBehind, NEW w \in Workers, Settle(w) \/ HandleFailure(w)
    PROVE  CleanRelease
<1>1. CASE SemaphoreDenied(w)
  BY <1>1, MoveEffects, OneReleases DEF SemaphoreDenied, At, Releases
<1>2. CASE Dispatch(w)
  BY <1>2, MoveEffects, OneReleases DEF Dispatch, At, Releases
<1>3. CASE CheckResult(w)
  BY <1>3, MoveEffects, OneReleases DEF CheckResult, At, Releases
<1>4. CASE Complete(w)
  BY <1>4, MoveEffects, OneReleases DEF Complete, At, Releases, SettleRow
<1>5. CASE FailRequest(w)
  BY <1>5, MoveEffects, OneReleases DEF FailRequest, At, Releases
<1>6. CASE EarlyFailSession(w)
  BY <1>6, MoveEffects, OneReleases DEF EarlyFailSession, At, Releases
<1>7. CASE Decide(w)
  BY <1>7, MoveEffects, IdleEffects, OneReleases DEF Decide, At, Releases, Owns
<1>8. CASE Retry(w)
  <2>1. worker[w].op \in Ops
    BY <1>8, BusyHolds DEF Retry, At, BusyLabels, BodyLabels
  <2>2. ~(op'[worker[w].op].status = "running" /\ op'[worker[w].op].owner = w)
    <3>1. op \in [Ops -> Row] /\ op[worker[w].op] \in Row
      BY <2>1 DEF Basic
    <3>2. Waiting(op[worker[w].op]).status = "retry_wait"
      BY <3>1 DEF Waiting, Row
    <3> QED BY <1>8, <2>1, <3>1, <3>2 DEF Retry, SetRow, Owns
  <2> QED BY <1>8, <2>2, IdleEffects, OneReleases DEF Retry, At, Releases
<1>9. CASE LogError(w)
  BY <1>9, MoveEffects, OneReleases DEF LogError, At, Releases
<1>10. CASE LogErrorLost(w)
  BY <1>10, MoveEffects, OneReleases DEF LogErrorLost, At, Releases
<1>11. CASE Fail(w)
  BY <1>11, MoveEffects, IdleEffects, OneReleases DEF Fail, At, Releases, SettleRow, Owns
<1>12. CASE CancelRunning(w)
  BY <1>12, MoveEffects, IdleEffects, OneReleases DEF CancelRunning, At, Releases, SettleRow, Owns
<1>13. CASE SettleRequest(w)
  BY <1>13, MoveEffects, IdleEffects, OneReleases
     DEF SettleRequest, At, Releases, SettledBehind, SettleLabels, Terminal
<1>14. CASE LateFailSession(w)
  BY <1>14, IdleEffects, OneReleases
     DEF LateFailSession, At, Releases, SettledBehind, SettleLabels, Terminal
<1> QED BY <1>1, <1>2, <1>3, <1>4, <1>5, <1>6, <1>7, <1>8, <1>9, <1>10, <1>11, <1>12, <1>13, <1>14
       DEF Settle, HandleFailure

(* No step but a claim leaves an owner that does not execute its operation. *)
LEMMA ReleaseNext ==
    ASSUME Basic, SettledBehind, [Next]_vars, \A w \in Workers : ~Pick(w)
    PROVE  CleanRelease
<1>1. UNCHANGED worker => CleanRelease
  BY DEF CleanRelease
<1>2. ASSUME NEW w \in Workers, Crash(w) PROVE CleanRelease
  <2>1. worker'[w].pc = "dead" /\ \A v \in Workers : v # w => worker'[v] = worker[v]
    BY <1>2 DEF Crash, Become, Idle, Basic
  <2> QED BY <2>1 DEF CleanRelease
<1> QED BY <1>1, <1>2, ReleaseClaim, ReleaseBody, ReleaseSettle
       DEF Next, vars, Create, Time, LeaseExpires, RetryDue, DeadlinePasses, CancelSession

-----------------------------------------------------------------------------
(* Fencing.                                                                *)

(* attempt_count stays a fencing token. *)
LEMMA FencingNext ==
    ASSUME Basic, SettledBehind, FencingToken, [Next]_vars
    PROVE  FencingToken'
<1>n. NoOp \notin Ops
  BY ConstantsAssumption DEF NoOp, Ops
<1>1. CASE Quiet /\ \A w \in Workers : ~Pick(w)
  <2>q. /\ \A o \in Ops : op'[o].attempt = op[o].attempt
        /\ \A o \in Ops : op'[o].status = "running" =>
               op[o].status = "running" /\ op'[o].owner = op[o].owner
        /\ \A v \in Workers : \/ worker'[v].op = worker[v].op /\ worker'[v].token = worker[v].token
                              \/ worker'[v].op = NoOp
    BY <1>1 DEF Quiet, QuietOps, QuietProcs, GoodUpdate, QuietRow, QuietProc
  <2>1. \A o \in Ops, v, w \in Workers :
           worker'[v].op = o /\ worker'[w].op = o /\ worker'[v].token = worker'[w].token => v = w
    BY <2>q, <1>n DEF FencingToken, Holds
  <2>2. \A o \in Ops, w \in Workers : worker'[w].op = o => worker'[w].token <= op'[o].attempt
    BY <2>q, <1>n DEF FencingToken, Holds
  <2>3. ASSUME NEW o \in Ops, NEW w \in Workers, op'[o].status = "running", op'[o].owner = w,
               worker'[w].pc # "dead"
        PROVE  worker'[w].op = o /\ worker'[w].token = op'[o].attempt
    <3>1. worker[w].pc # "dead" /\ Releases(w)
      BY <1>1, <2>3, ReleaseNext DEF CleanRelease, Releases
    <3>2. worker[w].op = o /\ worker[w].token = op[o].attempt
      BY <2>q, <2>3, <3>1 DEF FencingToken, Holds, Owns, At
    <3> QED BY <1>n, <2>q, <2>3, <3>1, <3>2 DEF Releases
  <2> QED BY <2>1, <2>2, <2>3 DEF FencingToken, Holds, Owns, At
<1>2. ASSUME NEW w \in Workers, NEW o \in Ops, PickOf(w, o) PROVE FencingToken'
  <2>e. /\ op'[o].attempt = op[o].attempt + 1 /\ op'[o].owner = w
        /\ op[o].attempt \in Nat
        /\ \A p \in Ops : p # o => op'[p] = op[p]
        /\ worker'[w].op = o /\ worker'[w].token = op[o].attempt + 1
        /\ \A v \in Workers : v # w => worker'[v] = worker[v]
    BY <1>2, PickEffect
  <2>f. worker[w].op = NoOp /\ worker[w].pc = "pick"
    BY <1>2 DEF PickOf
  <2>t. \A v \in Workers : worker[v].token \in Nat /\ (worker[v].op = o => worker[v].token <= op[o].attempt)
    BY ConstantsAssumption DEF Basic, Process, FencingToken, Holds
  <2>1. \A p \in Ops, u, v \in Workers :
           worker'[u].op = p /\ worker'[v].op = p /\ worker'[u].token = worker'[v].token => u = v
    BY <2>e, <2>t DEF FencingToken, Holds
  <2>2. \A p \in Ops, v \in Workers : worker'[v].op = p => worker'[v].token <= op'[p].attempt
    BY <2>e, <2>t DEF FencingToken, Holds
  <2>3. \A p \in Ops, v \in Workers :
           op'[p].status = "running" /\ op'[p].owner = v /\ worker'[v].pc # "dead"
           => worker'[v].op = p /\ worker'[v].token = op'[p].attempt
    BY <1>n, <2>e, <2>f DEF FencingToken, Holds, Owns, At
  <2> QED BY <2>1, <2>2, <2>3 DEF FencingToken, Holds, Owns, At
<1> QED BY <1>1, <1>2, QuietOrPick, PickIsPickOf

-----------------------------------------------------------------------------
(* The event log.                                                          *)

(* attempt_count never decreases. *)
LEMMA AttemptsGrow ==
    ASSUME Basic, [Next]_vars
    PROVE  \A o \in Ops : op[o].attempt \in Nat /\ op[o].attempt <= op'[o].attempt
<1>1. \A o \in Ops : op[o].attempt \in Nat
  BY ConstantsAssumption DEF Basic, Row
<1>2. CASE Quiet
  BY <1>1, <1>2 DEF Quiet, QuietOps, GoodUpdate, QuietRow
<1>3. ASSUME NEW w \in Workers, NEW o \in Ops, PickOf(w, o)
      PROVE  \A p \in Ops : op[p].attempt <= op'[p].attempt
  <2>1. op'[o].attempt = op[o].attempt + 1 /\ \A p \in Ops : p # o => op'[p] = op[p]
    BY <1>3, PickEffect
  <2> QED BY <1>1, <2>1
<1> QED BY <1>1, <1>2, <1>3, QuietOrPick, PickIsPickOf

(* Events are written by append_worker_event and by _handle_failure only. *)
LogWrite(w, k) == /\ worker[w].pc \in BusyLabels
                  /\ AppendEvent(w, k)
                  /\ k # "error" => Owns(w, worker[w].op)

(* Events are written by append_worker_event and by the error event only. *)
LEMMA LogWrites ==
    ASSUME Basic, [Next]_vars
    PROVE  \/ UNCHANGED log
           \/ \E w \in Workers : \E k \in EventKinds \cup {"error"} : LogWrite(w, k)
<1>1. ASSUME NEW w \in Workers, Claim(w) PROVE UNCHANGED log
  BY <1>1 DEF Claim, Poll, SweepCancelledOps, SweepCancelledRequests, Pick, SweepLate,
              FailLateRequests, SweepExhausted, FailExhaustedRequests
<1>2. ASSUME NEW w \in Workers, Guard(w) \/ Settle(w) \/ Crash(w) PROVE UNCHANGED log
  BY <1>2 DEF Guard, Renew, GuardSeesCancel, DeadlineTimeout, Settle, SemaphoreDenied, Dispatch,
              CheckResult, Complete, Crash
<1>3. ASSUME NEW w \in Workers, Body(w), \A k \in EventKinds : ~Emit(w, k) PROVE UNCHANGED log
  BY <1>3 DEF Body, Begin, BeginConflict, Replay, EnsureActive, Finish, BeginFailed, BodyFails
<1>4. ASSUME NEW w \in Workers, HandleFailure(w), ~LogError(w) PROVE UNCHANGED log
  BY <1>4 DEF HandleFailure, FailRequest, EarlyFailSession, Decide, Retry, LogErrorLost, Fail,
              CancelRunning, SettleRequest, LateFailSession
<1>5. ASSUME NEW w \in Workers, LogError(w) PROVE UNCHANGED log \/ LogWrite(w, "error")
  BY <1>5 DEF LogError, LogWrite, At, BusyLabels, BodyLabels
<1>6. ASSUME NEW w \in Workers, NEW k \in EventKinds, Emit(w, k)
      PROVE  UNCHANGED log \/ LogWrite(w, k)
  BY <1>6 DEF Emit, AppendWorkerEvent, LogWrite, At, BusyLabels, BodyLabels
<1>7. UNCHANGED vars \/ CancelSession \/ (\E o \in Ops : Create(o) \/ Time(o)) => UNCHANGED log
  BY DEF vars, CancelSession, Create, Time, LeaseExpires, RetryDue, DeadlinePasses
<1> QED BY <1>1, <1>2, <1>3, <1>4, <1>5, <1>6, <1>7 DEF Next

(* The event log stays in the order of the attempts. *)
LEMMA LogNext ==
    ASSUME Basic, FencingToken, LogWithinAttempts, EventsInAttemptOrder, [Next]_vars
    PROVE  LogWithinAttempts' /\ EventsInAttemptOrder'
<1>g. \A o \in Ops : op[o].attempt \in Nat /\ op[o].attempt <= op'[o].attempt /\ op'[o].attempt \in Nat
  BY AttemptsGrow, BasicNext, ConstantsAssumption DEF Basic, Row
<1>s. \A o \in Ops : /\ log[o] \in Seq(Event)
                     /\ \A i \in DOMAIN log[o] : log[o][i].attempt \in Nat
  <2>1. \A o \in Ops : log[o] \in Seq(Event)
    BY DEF Basic
  <2>2. ASSUME NEW o \in Ops, NEW i \in DOMAIN log[o] PROVE log[o][i] \in Event
    BY <2>1, <2>2
  <2>3. \A e \in Event : e.attempt \in Nat
    BY DEF Event
  <2> QED BY <2>1, <2>2, <2>3
<1>1. CASE UNCHANGED log
  BY <1>1, <1>g, <1>s DEF LogWithinAttempts, EventsInAttemptOrder
<1>2. ASSUME NEW w \in Workers, NEW k \in EventKinds \cup {"error"}, LogWrite(w, k)
      PROVE  LogWithinAttempts' /\ EventsInAttemptOrder'
  <2> DEFINE o == worker[w].op
             e == [kind |-> k, attempt |-> worker[w].token]
             n == Len(log[o])
  <2>1. /\ o \in Ops /\ e.attempt \in Nat /\ e.attempt <= op[o].attempt
        /\ log'[o] = Append(log[o], e)
        /\ \A p \in Ops : p # o => log'[p] = log[p]
    <3>1. o \in Ops /\ worker[w].token \in Nat
      BY <1>2, BusyHolds, ConstantsAssumption DEF LogWrite
    <3>2. worker[w].token <= op[o].attempt
      BY <3>1 DEF FencingToken, Holds
    <3> QED BY <1>2, <3>1, <3>2, AppendEffect DEF LogWrite
  <2>2. k # "error" => e.attempt = op[o].attempt
    <3>1. ~At(w, "dead")
      BY <1>2 DEF LogWrite, At, BusyLabels, BodyLabels, SettleLabels
    <3> QED BY <1>2, <2>1, <3>1 DEF LogWrite, FencingToken
  <2>3. /\ n \in Nat /\ DOMAIN log[o] = 1 .. n /\ DOMAIN log'[o] = 1 .. (n + 1)
        /\ \A i \in 1 .. n : log'[o][i] = log[o][i]
        /\ log'[o][n + 1] = e
    BY <1>s, <2>1
  <2>4. \A p \in Ops : \A i \in DOMAIN log'[p] : log'[p][i].attempt <= op'[p].attempt
    <3> SUFFICES ASSUME NEW p \in Ops, NEW i \in DOMAIN log'[p]
                 PROVE  log'[p][i].attempt <= op'[p].attempt
      OBVIOUS
    <3>1. CASE p # o
      BY <3>1, <1>g, <1>s, <2>1 DEF LogWithinAttempts
    <3>2. CASE p = o /\ i <= n
      <4>1. i \in 1 .. n /\ log'[p][i] = log[o][i]
        BY <3>2, <2>3
      <4>2. log[o][i].attempt <= op[o].attempt /\ log[o][i].attempt \in Nat
        BY <4>1, <1>s, <2>1, <2>3 DEF LogWithinAttempts
      <4>3. op[o].attempt \in Nat /\ op'[p].attempt \in Nat /\ op[o].attempt <= op'[p].attempt
        BY <3>2, <1>g
      <4> QED BY <4>1, <4>2, <4>3
    <3>3. CASE p = o /\ i = n + 1
      <4>1. log'[p][i].attempt <= op[o].attempt /\ log'[p][i].attempt \in Nat
        BY <3>3, <2>1, <2>3
      <4>2. op[o].attempt \in Nat /\ op'[p].attempt \in Nat /\ op[o].attempt <= op'[p].attempt
        BY <3>3, <1>g
      <4> QED BY <4>1, <4>2
    <3> QED BY <3>1, <3>2, <3>3, <2>3
  <2>5. \A p \in Ops : \A i, j \in DOMAIN log'[p] :
           i < j /\ log'[p][i].kind # "error" /\ log'[p][j].kind # "error"
           => log'[p][i].attempt <= log'[p][j].attempt
    <3> SUFFICES ASSUME NEW p \in Ops, NEW i \in DOMAIN log'[p], NEW j \in DOMAIN log'[p],
                        i < j, log'[p][i].kind # "error", log'[p][j].kind # "error"
                 PROVE  log'[p][i].attempt <= log'[p][j].attempt
      OBVIOUS
    <3>1. CASE p # o
      BY <3>1, <2>1 DEF EventsInAttemptOrder
    <3>2. CASE p = o /\ j <= n
      <4>1. i \in 1 .. n /\ j \in 1 .. n /\ log'[p][i] = log[o][i] /\ log'[p][j] = log[o][j]
        BY <3>2, <2>3
      <4> QED BY <4>1, <2>1, <2>3 DEF EventsInAttemptOrder
    <3>3. CASE p = o /\ j = n + 1
      <4>1. i \in 1 .. n /\ log'[o][i] = log[o][i] /\ log'[o][j] = e
        BY <3>3, <2>3
      <4>2. log[o][i].attempt <= op[o].attempt
        BY <4>1, <2>1, <2>3 DEF LogWithinAttempts
      <4>3. k # "error"
        BY <3>3, <4>1
      <4> QED BY <3>3, <4>1, <4>2, <4>3, <2>2
    <3> QED BY <3>1, <3>2, <3>3, <2>3
  <2> QED BY <2>4, <2>5 DEF LogWithinAttempts, EventsInAttemptOrder
<1> QED BY <1>1, <1>2, LogWrites

-----------------------------------------------------------------------------
(* Evidence of a commit.                                                   *)

(* No step takes back a cancellation, reopens a settled operation or       *)
(* removes a row.                                                          *)
Forward ==
    \A o \in Ops : /\ op[o].cancel => op'[o].cancel
                   /\ op[o].status \in Terminal => op'[o].status = op[o].status
                   /\ op'[o].status = "absent" => op[o].status = "absent"

(* Attempts, cancellations and settlements are never undone. *)
LEMMA ForwardNext ==
    ASSUME Basic, [Next]_vars
    PROVE  Forward
<1>1. CASE Quiet
  BY <1>1 DEF Quiet, QuietOps, GoodUpdate, QuietRow, Forward
<1>2. ASSUME NEW w \in Workers, NEW o \in Ops, PickOf(w, o) PROVE Forward
  <2>1. /\ op'[o].cancel = op[o].cancel /\ op'[o].status = "running"
        /\ op[o].status \in ActiveStati
        /\ \A p \in Ops : p # o => op'[p] = op[p]
    BY <1>2, PickEffect
  <2> QED BY <2>1 DEF Forward, ActiveStati, Terminal
<1> QED BY <1>1, <1>2, QuietOrPick, PickIsPickOf

(* What a process that holds an operation knows about the row: it exists. *)
LEMMA HeldExists ==
    ASSUME Basic, FencingToken, NEW w \in Workers, worker[w].pc \in BusyLabels
    PROVE  worker[w].op \in Ops /\ op[worker[w].op].status # "absent"
<1>1. /\ worker[w].op \in Ops /\ worker[w].token \in 1 .. MaxAttempts
      /\ RowOK(op[worker[w].op])
  BY BusyHolds
<1>2. worker[w].token <= op[worker[w].op].attempt
  BY <1>1 DEF FencingToken, Holds
<1> QED BY <1>1, <1>2, ConstantsAssumption DEF RowOK, Row

(* The parts of RequestEvidence, SettledBehind and CompletedMeansCommitted *)
(* that speak of one row and of one process.                               *)
RowEvidence(o) ==
    /\ op[o].status = "absent" => request[o] = "absent"
    /\ request[o] = "completed" => o \in committed
    /\ request[o] = "cancelled" => op[o].cancel \/ op[o].status \in Terminal
    /\ op[o].status = "completed" => o \in committed

ProcEvidence(w) ==
    /\ worker[w].pc \in {"sweepOps", "sweepReqs"} => \A o \in worker[w].ids : op[o].cancel
    /\ worker[w].pc \in {"lateReqs", "exhaustReqs"} =>
          \A o \in worker[w].ids : op[o].status \in Terminal
    /\ worker[w].pc = "tail" =>
          \/ worker[w].op \in committed
          \/ op[worker[w].op].cancel
          \/ op[worker[w].op].status \in Terminal
    /\ worker[w].pc = "complete" =>
          worker[w].op \in committed \/ op[worker[w].op].status \in Terminal
    /\ worker[w].pc = "reqCompleted" => worker[w].op \in committed
    /\ worker[w].pc \in SettleLabels => op[worker[w].op].status \in Terminal

Evidence == /\ \A o \in Ops : RowEvidence(o)
            /\ \A w \in Workers : ProcEvidence(w)

(* Evidence is the conjunction of three named parts of IInv, row by row and process by process. *)
LEMMA EvidenceParts ==
    Evidence <=> RequestEvidence /\ SettledBehind /\ CompletedMeansCommitted
BY DEF Evidence, RowEvidence, ProcEvidence, RequestEvidence, SettledBehind, CompletedMeansCommitted

(* The only statement that completes an operation is complete(), and the   *)
(* evidence at its label says that the body had committed.                 *)
LEMMA StatusWritten ==
    ASSUME NEW r \in Row, NEW s \in Statuses, NEW w
    PROVE  /\ Settled(r, s).status = s
           /\ Cancelled(r).status = "cancelled"
           /\ Waiting(r).status = "retry_wait"
           /\ Claimed(r, w).status = "running"
           /\ FailRow(r).status = "failed" /\ CancelRow(r).status = "cancelled"
           /\ PendingRow.status = "pending"
           /\ AfterAbort(r).status \in {r.status, "cancelled"}
<1>1. Settled(r, s).status = s /\ Waiting(r).status = "retry_wait" /\ Claimed(r, w).status = "running"
  BY DEF Settled, Waiting, Claimed, Row
<1>2. Cancelled(r).status = "cancelled" /\ PendingRow.status = "pending"
  BY DEF Cancelled, Settled, Row, PendingRow, AbsentRow
<1>3. FailRow(r).status = "failed" /\ CancelRow(r).status = "cancelled"
  BY DEF FailRow, CancelRow, Settled, Row
<1>4. AfterAbort(r).status \in {r.status, "cancelled"}
  BY <1>2 DEF AfterAbort, Row
<1> QED BY <1>1, <1>2, <1>3, <1>4

Completes(o) == op'[o].status = "completed" /\ op[o].status # "completed"

(* Only complete() of the lease owner makes an operation completed. *)
LEMMA OnlyComplete ==
    ASSUME Basic, [Next]_vars, NEW o \in Ops, Completes(o)
    PROVE  \E w \in Workers : At(w, "complete") /\ worker[w].op = o /\ Owns(w, o)
<1>r. op \in [Ops -> Row] /\ op[o] \in Row
  BY DEF Basic
<1>u. op' # op
  BY DEF Completes
<1>1. ASSUME NEW p \in Ops, Create(p) \/ Time(p) PROVE FALSE
  BY <1>1, <1>r, StatusWritten
     DEF Create, Time, LeaseExpires, RetryDue, DeadlinePasses, SetRow, Completes, Row, Statuses
<1>2. ASSUME CancelSession PROVE FALSE
  <2>1. op'[o] = AfterAbort(op[o])
    BY <1>2, <1>r DEF CancelSession
  <2> QED BY <2>1, <1>r, StatusWritten DEF Completes, Statuses
<1>3. ASSUME NEW w \in Workers, Claim(w) PROVE FALSE
  <2>1. ASSUME NEW S, SetRows(S, FailRow) \/ SetRows(S, CancelRow) PROVE FALSE
    <3>1. CASE SetRows(S, FailRow)
      <4>1. op'[o] = op[o] \/ op'[o] = FailRow(op[o])
        BY <3>1, <1>r DEF SetRows
      <4> QED BY <4>1, <1>r, StatusWritten DEF Completes, Statuses
    <3>2. CASE SetRows(S, CancelRow)
      <4>1. op'[o] = op[o] \/ op'[o] = CancelRow(op[o])
        BY <3>2, <1>r DEF SetRows
      <4> QED BY <4>1, <1>r, StatusWritten DEF Completes, Statuses
    <3> QED BY <2>1, <3>1, <3>2
  <2>2. ASSUME NEW p \in Ops, PickOf(w, p) PROVE FALSE
    <3>1. op'[p].status = "running" /\ \A q \in Ops : q # p => op'[q] = op[q]
      BY <2>2, PickEffect
    <3> QED BY <3>1 DEF Completes
  <2>3. CASE Pick(w)
    BY <2>2, <2>3, PickIsPickOf
  <2>4. CASE SweepCancelledOps(w) \/ SweepLate(w) \/ SweepExhausted(w)
    BY <2>1, <2>4 DEF SweepCancelledOps, SweepLate, SweepExhausted
  <2> QED BY <1>3, <1>u, <2>3, <2>4
      DEF Claim, Poll, SweepCancelledRequests, FailLateRequests, FailExhaustedRequests
<1>4. ASSUME NEW w \in Workers, Body(w) \/ Crash(w) \/ GuardSeesCancel(w) \/ DeadlineTimeout(w)
      PROVE  FALSE
  BY <1>4, <1>u DEF Body, Begin, BeginConflict, Replay, EnsureActive, Finish, BeginFailed, Emit,
                    BodyFails, Crash, GuardSeesCancel, DeadlineTimeout
<1>5. ASSUME NEW w \in Workers, Renew(w) PROVE FALSE
  BY <1>5, <1>r DEF Renew, SetRow, Completes, Row
<1>6. ASSUME NEW w \in Workers, HandleFailure(w) PROVE FALSE
  <2>1. CASE Retry(w)
    <3>1. op'[o] = op[o] \/ op'[o] = Waiting(op[o])
      BY <2>1, <1>r DEF Retry, SetRow
    <3> QED BY <3>1, <1>r, StatusWritten DEF Completes, Statuses
  <2>2. CASE Fail(w)
    <3>1. op'[o] = op[o] \/ op'[o] = Settled(op[o], "failed")
      BY <2>2, <1>r DEF Fail, SettleRow, SetRow
    <3> QED BY <3>1, <1>r, StatusWritten DEF Completes, Statuses
  <2>3. CASE CancelRunning(w)
    <3>1. op'[o] = op[o] \/ op'[o] = Cancelled(op[o])
      BY <2>3, <1>r DEF CancelRunning, SettleRow, SetRow
    <3> QED BY <3>1, <1>r, StatusWritten DEF Completes, Statuses
  <2> QED BY <1>6, <1>u, <2>1, <2>2, <2>3
      DEF HandleFailure, FailRequest, EarlyFailSession, Decide, LogError, LogErrorLost,
          SettleRequest, LateFailSession
<1>7. ASSUME NEW w \in Workers, Settle(w)
      PROVE  At(w, "complete") /\ worker[w].op = o /\ Owns(w, o)
  <2>1. Complete(w) /\ Owns(w, worker[w].op)
    BY <1>7, <1>u DEF Settle, SemaphoreDenied, Dispatch, CheckResult, Complete
  <2>2. worker[w].op = o
    BY <2>1, <1>r DEF Complete, SettleRow, SetRow, Completes
  <2> QED BY <2>1, <2>2 DEF Complete
<1> QED BY <1>1, <1>2, <1>3, <1>4, <1>5, <1>6, <1>7, <1>u DEF Next, Guard, vars

(* Only the body's last transaction adds a committed operation.            *)
LEMMA CommitsGrow ==
    ASSUME [Next]_vars
    PROVE  committed \subseteq committed'
<1>1. ASSUME NEW w \in Workers, Claim(w) PROVE UNCHANGED committed
  BY <1>1 DEF Claim, Poll, SweepCancelledOps, SweepCancelledRequests, Pick, SweepLate,
              FailLateRequests, SweepExhausted, FailExhaustedRequests
<1>2. ASSUME NEW w \in Workers, Guard(w) \/ Settle(w) \/ Crash(w) PROVE UNCHANGED committed
  BY <1>2 DEF Guard, Renew, GuardSeesCancel, DeadlineTimeout, Settle, SemaphoreDenied, Dispatch,
              CheckResult, Complete, Crash
<1>3. ASSUME NEW w \in Workers, Body(w) PROVE committed \subseteq committed'
  BY <1>3 DEF Body, Begin, BeginConflict, Replay, EnsureActive, Finish, BeginFailed, BodyFails, Emit
<1>4. ASSUME NEW w \in Workers, HandleFailure(w) PROVE UNCHANGED committed
  BY <1>4 DEF HandleFailure, FailRequest, EarlyFailSession, Decide, Retry, LogError, LogErrorLost,
              Fail, CancelRunning, SettleRequest, LateFailSession
<1>5. UNCHANGED vars \/ CancelSession \/ (\E o \in Ops : Create(o) \/ Time(o)) => UNCHANGED committed
  BY DEF vars, CancelSession, Create, Time, LeaseExpires, RetryDue, DeadlinePasses
<1> QED BY <1>1, <1>2, <1>3, <1>4, <1>5 DEF Next

(* A request that a step writes has the evidence it needs afterwards. *)
RequestKept(o) ==
    \/ request'[o] = request[o]
    \/ /\ op'[o].status # "absent"
       /\ request'[o] = "completed" => o \in committed'
       /\ request'[o] = "cancelled" => op'[o].cancel \/ op'[o].status \in Terminal

(* What a settled request stands for is kept by every step. *)
LEMMA RequestsKept ==
    ASSUME Basic, FencingToken, Evidence, [Next]_vars, NEW o \in Ops
    PROVE  RequestKept(o)
<1>r. request \in [Ops -> Requests] /\ op \in [Ops -> Row] /\ op[o] \in Row /\ RowOK(op[o])
  BY DEF Basic
<1>u. UNCHANGED request => RequestKept(o)
  BY DEF RequestKept
<1>f. Forward /\ committed \subseteq committed'
  BY ForwardNext, CommitsGrow
<1>h. ASSUME NEW w \in Workers, worker[w].pc \in BusyLabels
      PROVE  worker[w].op \in Ops /\ op'[worker[w].op].status # "absent"
  BY <1>f, <1>h, HeldExists DEF Forward
<1>1. ASSUME NEW p \in Ops, Create(p) PROVE RequestKept(o)
  <2>1. CASE p = o
    BY <1>1, <2>1, <1>r DEF Create, SetRow, SetRequest, PendingRow, AbsentRow, RequestKept
  <2>2. CASE p # o
    BY <1>1, <2>2, <1>r DEF Create, SetRequest, RequestKept
  <2> QED BY <2>1, <2>2
<1>2. ASSUME CancelSession PROVE RequestKept(o)
  <2>1. op'[o] = AfterAbort(op[o])
    BY <1>2, <1>r DEF CancelSession
  <2>2. CASE request[o] \notin {"queued", "processing"}
    BY <1>2, <2>2, <1>r DEF CancelSession, RequestKept
  <2>3. CASE request[o] \in {"queued", "processing"}
    <3>1. op[o].status # "absent"
      BY <2>3 DEF Evidence, RowEvidence
    <3>2. op'[o].cancel \/ op'[o].status \in Terminal
      BY <2>1, <3>1, <1>r DEF AfterAbort, Cancelled, Settled, Row, Statuses, Terminal
    <3>3. op'[o].status # "absent"
      BY <3>1, <1>f DEF Forward
    <3> QED BY <1>2, <2>3, <1>r, <3>2, <3>3 DEF CancelSession, RequestKept
  <2> QED BY <2>2, <2>3
<1>3. ASSUME NEW w \in Workers, SweepCancelledRequests(w) PROVE RequestKept(o)
  <2>1. o \in worker[w].ids => op[o].cancel
    BY <1>3 DEF SweepCancelledRequests, At, Evidence, ProcEvidence
  <2>2. op[o].cancel => op'[o].cancel /\ op'[o].status # "absent"
    BY <1>f, <1>r DEF Forward, RowOK
  <2> QED BY <1>3, <1>r, <2>1, <2>2 DEF SweepCancelledRequests, SetRequests, RequestKept
<1>4. ASSUME NEW w \in Workers, FailLateRequests(w) \/ FailExhaustedRequests(w)
      PROVE  RequestKept(o)
  <2>1. o \in worker[w].ids => op'[o].status # "absent"
    BY <1>4, <1>f
       DEF FailLateRequests, FailExhaustedRequests, At, Evidence, ProcEvidence, Forward, Terminal
  <2> QED BY <1>4, <1>r, <2>1
      DEF FailLateRequests, FailExhaustedRequests, SetRequests, RequestKept
<1>5. ASSUME NEW w \in Workers, Begin(w) PROVE RequestKept(o)
  BY <1>5, <1>h, <1>r DEF Begin, SetRequest, RequestKept, At, BusyLabels, BodyLabels
<1>6. ASSUME NEW w \in Workers, Finish(w) PROVE RequestKept(o)
  BY <1>6, <1>h, <1>r DEF Finish, SetRequest, RequestKept, At, BusyLabels, BodyLabels
<1>7. ASSUME NEW w \in Workers, FailRequest(w) PROVE RequestKept(o)
  BY <1>7, <1>h, <1>r DEF FailRequest, SetRequest, RequestKept, At, BusyLabels, BodyLabels
<1>8. ASSUME NEW w \in Workers, SettleRequest(w) PROVE RequestKept(o)
  <2>1. /\ worker[w].pc \in {"reqCompleted", "reqCancelled", "reqFailed"}
        /\ worker[w].pc \in BusyLabels /\ worker[w].pc \in SettleLabels
    BY <1>8 DEF SettleRequest, At, BusyLabels, SettleLabels
  <2>2. /\ worker[w].op \in Ops /\ op'[worker[w].op].status # "absent"
        /\ op'[worker[w].op].status \in Terminal
    BY <2>1, <1>h, <1>f DEF Evidence, ProcEvidence, Forward
  <2>3. worker[w].pc = "reqCompleted" => worker[w].op \in committed'
    BY <1>f DEF Evidence, ProcEvidence
  <2> QED BY <1>8, <1>r, <2>2, <2>3 DEF SettleRequest, SetRequest, RequestKept, At
<1>9. ASSUME NEW w \in Workers, Claim(w) PROVE RequestKept(o)
  BY <1>9, <1>3, <1>4, <1>u DEF Claim, Poll, SweepCancelledOps, Pick, SweepLate, SweepExhausted
<1>10. ASSUME NEW w \in Workers, Body(w) PROVE RequestKept(o)
  BY <1>10, <1>5, <1>6, <1>u DEF Body, BeginConflict, Replay, EnsureActive, BeginFailed, BodyFails, Emit
<1>11. ASSUME NEW w \in Workers, Guard(w) \/ Settle(w) \/ Crash(w) PROVE RequestKept(o)
  BY <1>11, <1>u DEF Guard, Renew, GuardSeesCancel, DeadlineTimeout, Settle, SemaphoreDenied,
                     Dispatch, CheckResult, Complete, Crash
<1>12. ASSUME NEW w \in Workers, HandleFailure(w) PROVE RequestKept(o)
  BY <1>12, <1>7, <1>8, <1>u
     DEF HandleFailure, EarlyFailSession, Decide, Retry, LogError, LogErrorLost, Fail, CancelRunning,
         LateFailSession
<1>13. UNCHANGED vars \/ (\E p \in Ops : Time(p)) => UNCHANGED request
  BY DEF vars, Time, LeaseExpires, RetryDue, DeadlinePasses
<1> QED BY <1>1, <1>2, <1>9, <1>10, <1>11, <1>12, <1>13, <1>u DEF Next

(* Evidence a process has stays true while it does not move. *)
LEMMA EvidenceStays ==
    ASSUME Basic, Forward, committed \subseteq committed',
           NEW w \in Workers, ProcEvidence(w), UNCHANGED (worker[w])
    PROVE  ProcEvidence(w)'
<1>1. worker[w] \in Process /\ ProcOK(worker[w]) /\ worker[w].ids \subseteq Ops
  BY DEF Basic, ProcOK, Process
<1>2. worker[w].pc \in BusyLabels => worker[w].op \in Ops
  BY BusyHolds
<1>3. worker[w].pc \in SettleLabels \cup {"tail", "complete", "reqCompleted"} => worker[w].op \in Ops
  BY <1>2 DEF BusyLabels, BodyLabels, SettleLabels
<1> QED BY <1>1, <1>3 DEF ProcEvidence, Forward, SettleLabels

(* The labels at which a process needs evidence. *)
EvidenceLabels == {"sweepOps", "sweepReqs", "lateReqs", "exhaustReqs", "tail", "complete"}
                      \cup SettleLabels

(* A process outside the labels that carry evidence needs none. *)
LEMMA NoEvidenceNeeded ==
    ASSUME NEW w \in Workers, worker'[w].pc \notin EvidenceLabels
    PROVE  ProcEvidence(w)'
BY DEF ProcEvidence, EvidenceLabels, SettleLabels

(* A step of one process: the others keep their evidence. *)
LEMMA OneMoves ==
    ASSUME Basic, Forward, committed \subseteq committed', \A v \in Workers : ProcEvidence(v),
           NEW w \in Workers, \A v \in Workers : v # w => worker'[v] = worker[v],
           worker'[w].pc \notin EvidenceLabels \/ ProcEvidence(w)'
    PROVE  \A v \in Workers : ProcEvidence(v)'
BY EvidenceStays, NoEvidenceNeeded

(* The selected ids a move of a process leaves it with.                 *)
LEMMA MoveIds ==
    ASSUME Basic, NEW w \in Workers, NEW l, NEW S
    PROVE  /\ Goto(w, l) => worker'[w].ids = worker[w].ids
           /\ Scan(w, l, S) => worker'[w].ids = S
<1>1. worker \in [Workers -> Process] /\ worker[w] \in Process
  BY DEF Basic
<1>2. Goto(w, l) => worker'[w].ids = worker[w].ids
  BY <1>1 DEF Goto, Become, Process
<1>3. Scan(w, l, S) => worker'[w].ids = S
  BY <1>1 DEF Scan, Become, Process
<1> QED BY <1>2, <1>3

(* The rows a deadline or attempt sweep selects are failed afterwards. *)
LEMMA SweptRowsFail ==
    ASSUME Basic, NEW S \in SUBSET Ops, SetRows(S, FailRow)
    PROVE  \A o \in S : op'[o].status \in Terminal
<1>1. \A o \in S : op'[o] = FailRow(op[o]) /\ op[o] \in Row
  BY DEF SetRows, Basic
<1> QED BY <1>1, StatusWritten DEF Terminal, Statuses

(* The evidence of the processes, one step per group of actions. *)
LEMMA ProcEvidenceClaim ==
    ASSUME Basic, Evidence, Forward, committed \subseteq committed',
           NEW w \in Workers, Claim(w)
    PROVE  \A v \in Workers : ProcEvidence(v)'
<1>e. \A v \in Workers : ProcEvidence(v)
  BY DEF Evidence
<1>i. worker[w].ids \subseteq Ops
  BY DEF Basic, Process
<1>1. CASE Poll(w)
  <2> DEFINE S == {o \in Ops : ExpiredCancellation(op[o])}
  <2>1. CASE S # {}
    <3>1. Scan(w, "sweepOps", S) /\ UNCHANGED op
      BY <1>1, <2>1 DEF Poll
    <3>2. worker'[w].pc = "sweepOps" /\ worker'[w].ids = S
          /\ \A v \in Workers : v # w => worker'[v] = worker[v]
      BY <3>1, MoveEffects, MoveIds
    <3>3. ProcEvidence(w)'
      BY <3>1, <3>2 DEF ProcEvidence, ExpiredCancellation, SettleLabels
    <3> QED BY <1>e, <3>2, <3>3, OneMoves
  <2>2. CASE S = {}
    <3>1. worker'[w].pc = "pick" /\ \A v \in Workers : v # w => worker'[v] = worker[v]
      BY <1>1, <2>2, MoveEffects DEF Poll
    <3> QED BY <1>e, <3>1, OneMoves DEF EvidenceLabels, SettleLabels
  <2> QED BY <2>1, <2>2
<1>2. CASE SweepCancelledOps(w)
  <2>1. /\ worker'[w].pc = "sweepReqs" /\ worker'[w].ids = worker[w].ids
        /\ \A v \in Workers : v # w => worker'[v] = worker[v]
    BY <1>2, MoveEffects, MoveIds DEF SweepCancelledOps
  <2>2. \A o \in worker[w].ids : op'[o].cancel
    BY <1>2, <1>e, <1>i DEF SweepCancelledOps, At, ProcEvidence, Forward
  <2>3. ProcEvidence(w)'
    BY <2>1, <2>2 DEF ProcEvidence, SettleLabels
  <2> QED BY <1>e, <2>1, <2>3, OneMoves
<1>3. CASE SweepCancelledRequests(w)
  <2>1. worker'[w].pc = "pick" /\ \A v \in Workers : v # w => worker'[v] = worker[v]
    BY <1>3, MoveEffects DEF SweepCancelledRequests
  <2> QED BY <1>e, <2>1, OneMoves DEF EvidenceLabels, SettleLabels
<1>4. CASE Pick(w)
  <2>1. worker'[w].pc = "claimed" /\ \A v \in Workers : v # w => worker'[v] = worker[v]
    BY <1>4, PickIsPickOf, PickEffect
  <2> QED BY <1>e, <2>1, OneMoves DEF EvidenceLabels, SettleLabels
<1>5. CASE SweepLate(w)
  <2> DEFINE S == {o \in Ops : PastDeadline(op[o])}
             l == IF S = {} THEN "exhaust" ELSE "lateReqs"
  <2>1. Scan(w, l, S) /\ SetRows(S, FailRow)
    BY <1>5 DEF SweepLate
  <2>2. /\ worker'[w].pc = l /\ worker'[w].ids = S
        /\ \A v \in Workers : v # w => worker'[v] = worker[v]
    BY <2>1, MoveEffects, MoveIds
  <2>3. \A o \in S : op'[o].status \in Terminal
    BY <2>1, SweptRowsFail
  <2>4. ProcEvidence(w)'
    BY <2>2, <2>3 DEF ProcEvidence, SettleLabels
  <2> QED BY <1>e, <2>2, <2>4, OneMoves
<1>6. CASE FailLateRequests(w)
  <2>1. worker'[w].pc = "exhaust" /\ \A v \in Workers : v # w => worker'[v] = worker[v]
    BY <1>6, MoveEffects DEF FailLateRequests
  <2> QED BY <1>e, <2>1, OneMoves DEF EvidenceLabels, SettleLabels
<1>7. CASE SweepExhausted(w)
  <2> DEFINE S == {o \in Ops : Exhausted(op[o])}
             l == IF S = {} THEN "poll" ELSE "exhaustReqs"
  <2>1. Scan(w, l, S) /\ SetRows(S, FailRow)
    BY <1>7 DEF SweepExhausted
  <2>2. /\ worker'[w].pc = l /\ worker'[w].ids = S
        /\ \A v \in Workers : v # w => worker'[v] = worker[v]
    BY <2>1, MoveEffects, MoveIds
  <2>3. \A o \in S : op'[o].status \in Terminal
    BY <2>1, SweptRowsFail
  <2>4. ProcEvidence(w)'
    BY <2>2, <2>3 DEF ProcEvidence, SettleLabels
  <2> QED BY <1>e, <2>2, <2>4, OneMoves
<1>8. CASE FailExhaustedRequests(w)
  <2>1. worker'[w].pc = "poll" /\ \A v \in Workers : v # w => worker'[v] = worker[v]
    BY <1>8, IdleEffects DEF FailExhaustedRequests, Idle
  <2> QED BY <1>e, <2>1, OneMoves DEF EvidenceLabels, SettleLabels
<1> QED BY <1>1, <1>2, <1>3, <1>4, <1>5, <1>6, <1>7, <1>8 DEF Claim

(* The steps of a body and of its lease guard keep the evidence of every process. *)
LEMMA ProcEvidenceBody ==
    ASSUME Basic, Evidence, Forward, committed \subseteq committed',
           NEW w \in Workers, Body(w) \/ Guard(w)
    PROVE  \A v \in Workers : ProcEvidence(v)'
<1>e. \A v \in Workers : ProcEvidence(v)
  BY DEF Evidence
<1>u. UNCHANGED worker => \A v \in Workers : ProcEvidence(v)'
  BY <1>e, EvidenceStays
<1>p. ASSUME NEW l, l \notin EvidenceLabels, NEW x, Goto(w, l) \/ Raise(w, l, x)
      PROVE  \A v \in Workers : ProcEvidence(v)'
  BY <1>e, <1>p, MoveEffects, OneMoves
<1>d. GoIdle(w) => \A v \in Workers : ProcEvidence(v)'
  BY <1>e, IdleEffects, OneMoves DEF Idle, EvidenceLabels, SettleLabels
<1>l. {"await", "failRequest", "earlyFail", "decide", "cancelling"} \cap EvidenceLabels = {}
  BY DEF EvidenceLabels, SettleLabels
<1>1. CASE Replay(w)
  <2>1. /\ worker'[w].pc = "tail" /\ worker'[w].op = worker[w].op
        /\ \A v \in Workers : v # w => worker'[v] = worker[v]
    BY <1>1, MoveEffects DEF Replay
  <2>2. worker[w].op \in Ops
    BY <1>1, BusyHolds DEF Replay, At, BusyLabels, BodyLabels
  <2>3. \/ worker[w].op \in committed
        \/ op[worker[w].op].cancel \/ op[worker[w].op].status \in Terminal
    BY <1>1, <2>2 DEF Replay, Evidence, RowEvidence
  <2>4. ProcEvidence(w)'
    BY <1>1, <2>1, <2>3 DEF Replay, ProcEvidence, SettleLabels
  <2> QED BY <1>e, <2>1, <2>4, OneMoves
<1>2. CASE Finish(w)
  <2>1. /\ worker'[w].pc = "tail" /\ worker'[w].op = worker[w].op
        /\ worker[w].op \in committed'
        /\ \A v \in Workers : v # w => worker'[v] = worker[v]
    BY <1>2, MoveEffects DEF Finish
  <2>2. ProcEvidence(w)'
    BY <2>1 DEF ProcEvidence, SettleLabels
  <2> QED BY <1>e, <2>1, <2>2, OneMoves
<1>3. CASE Begin(w)
  BY <1>3, <1>p, <1>l DEF Begin
<1>4. CASE BeginConflict(w)
  BY <1>4, <1>p, <1>l DEF BeginConflict
<1>5. CASE EnsureActive(w)
  BY <1>5, <1>p, <1>l DEF EnsureActive
<1>6. ASSUME NEW e \in {"fatal", "pipeline"}, BeginFailed(w, e)
      PROVE  \A v \in Workers : ProcEvidence(v)'
  BY <1>6, <1>p, <1>l DEF BeginFailed
<1>7. ASSUME NEW k \in EventKinds, Emit(w, k)
      PROVE  \A v \in Workers : ProcEvidence(v)'
  BY <1>7, <1>p, <1>l, <1>u DEF Emit, AppendWorkerEvent
<1>8. ASSUME NEW e \in Errors, BodyFails(w, e)
      PROVE  \A v \in Workers : ProcEvidence(v)'
  BY <1>8, <1>p, <1>l DEF BodyFails
<1>9. CASE Renew(w)
  BY <1>9, <1>u, <1>d DEF Renew
<1>10. CASE GuardSeesCancel(w)
  BY <1>10, <1>p, <1>l DEF GuardSeesCancel
<1>11. CASE DeadlineTimeout(w)
  BY <1>11, <1>p, <1>l DEF DeadlineTimeout
<1> QED BY <1>1, <1>2, <1>3, <1>4, <1>5, <1>6, <1>7, <1>8, <1>9, <1>10, <1>11 DEF Body, Guard

(* The settling steps keep the evidence of every process. *)
LEMMA ProcEvidenceSettle ==
    ASSUME Basic, Evidence, Forward, committed \subseteq committed',
           NEW w \in Workers, Settle(w) \/ HandleFailure(w)
    PROVE  \A v \in Workers : ProcEvidence(v)'
<1>e. \A v \in Workers : ProcEvidence(v)
  BY DEF Evidence
<1>r. op \in [Ops -> Row]
  BY DEF Basic
<1>p. ASSUME NEW l, l \notin EvidenceLabels, NEW x, Goto(w, l) \/ Raise(w, l, x)
      PROVE  \A v \in Workers : ProcEvidence(v)'
  BY <1>e, <1>p, MoveEffects, OneMoves
<1>d. GoIdle(w) => \A v \in Workers : ProcEvidence(v)'
  BY <1>e, IdleEffects, OneMoves DEF Idle, EvidenceLabels, SettleLabels
<1>l. {"begin", "earlyFail", "decide", "cancelling", "retrying", "logError", "failing"}
         \cap EvidenceLabels = {}
  BY DEF EvidenceLabels, SettleLabels
<1>1. CASE CheckResult(w)
  <2>1. CASE IsCancelled(worker[w].op)
    BY <1>1, <1>p, <1>l, <2>1 DEF CheckResult
  <2>2. CASE ~IsCancelled(worker[w].op)
    <3>1. /\ worker'[w].pc = "complete" /\ worker'[w].op = worker[w].op
          /\ \A v \in Workers : v # w => worker'[v] = worker[v]
      BY <1>1, <2>2, MoveEffects DEF CheckResult
    <3>2. worker[w].op \in committed \/ op[worker[w].op].status \in Terminal
      BY <1>1, <1>e, <2>2 DEF CheckResult, At, ProcEvidence, IsCancelled
    <3>3. ProcEvidence(w)'
      BY <1>1, <3>1, <3>2 DEF CheckResult, ProcEvidence, SettleLabels
    <3> QED BY <1>e, <3>1, <3>3, OneMoves
  <2> QED BY <2>1, <2>2
<1>2. CASE Complete(w)
  <2>1. CASE ~Owns(w, worker[w].op)
    BY <1>2, <1>p, <1>l, <2>1 DEF Complete
  <2>2. CASE Owns(w, worker[w].op)
    <3>1. worker[w].op \in Ops
      BY <1>2, BusyHolds DEF Complete, At, BusyLabels, BodyLabels
    <3>2. /\ op'[worker[w].op] = Settled(op[worker[w].op], "completed")
          /\ Goto(w, "reqCompleted")
      BY <1>2, <1>r, <2>2, <3>1 DEF Complete, SettleRow, SetRow
    <3>3. /\ worker'[w].pc = "reqCompleted" /\ worker'[w].op = worker[w].op
          /\ \A v \in Workers : v # w => worker'[v] = worker[v]
      BY <3>2, MoveEffects
    <3>4. op'[worker[w].op].status \in Terminal
      BY <1>r, <3>1, <3>2, StatusWritten DEF Statuses, Terminal
    <3>5. worker[w].op \in committed'
      BY <1>2, <1>e, <2>2 DEF Complete, At, ProcEvidence, Owns, Terminal
    <3>6. ProcEvidence(w)'
      BY <3>3, <3>4, <3>5 DEF ProcEvidence, SettleLabels
    <3> QED BY <1>e, <3>3, <3>6, OneMoves
  <2> QED BY <2>1, <2>2
<1>3. CASE Fail(w)
  <2>1. CASE ~Owns(w, worker[w].op)
    BY <1>3, <1>d, <2>1 DEF Fail
  <2>2. CASE Owns(w, worker[w].op)
    <3>1. worker[w].op \in Ops
      BY <1>3, BusyHolds DEF Fail, At, BusyLabels, BodyLabels
    <3>2. op'[worker[w].op] = Settled(op[worker[w].op], "failed") /\ Goto(w, "reqFailed")
      BY <1>3, <1>r, <2>2, <3>1 DEF Fail, SettleRow, SetRow
    <3>3. /\ worker'[w].pc = "reqFailed" /\ worker'[w].op = worker[w].op
          /\ \A v \in Workers : v # w => worker'[v] = worker[v]
      BY <3>2, MoveEffects
    <3>4. op'[worker[w].op].status \in Terminal
      BY <1>r, <3>1, <3>2, StatusWritten DEF Statuses, Terminal
    <3>5. ProcEvidence(w)'
      BY <3>3, <3>4 DEF ProcEvidence, SettleLabels
    <3> QED BY <1>e, <3>3, <3>5, OneMoves
  <2> QED BY <2>1, <2>2
<1>4. CASE CancelRunning(w)
  <2>1. CASE ~Owns(w, worker[w].op)
    BY <1>4, <1>d, <2>1 DEF CancelRunning
  <2>2. CASE Owns(w, worker[w].op)
    <3>1. worker[w].op \in Ops
      BY <1>4, BusyHolds DEF CancelRunning, At, BusyLabels, BodyLabels
    <3>2. op'[worker[w].op] = Cancelled(op[worker[w].op]) /\ Goto(w, "reqCancelled")
      BY <1>4, <1>r, <2>2, <3>1 DEF CancelRunning, SettleRow, SetRow
    <3>3. /\ worker'[w].pc = "reqCancelled" /\ worker'[w].op = worker[w].op
          /\ \A v \in Workers : v # w => worker'[v] = worker[v]
      BY <3>2, MoveEffects
    <3>4. op'[worker[w].op].status \in Terminal
      BY <1>r, <3>1, <3>2, StatusWritten DEF Statuses, Terminal
    <3>5. ProcEvidence(w)'
      BY <3>3, <3>4 DEF ProcEvidence, SettleLabels
    <3> QED BY <1>e, <3>3, <3>5, OneMoves
  <2> QED BY <2>1, <2>2
<1>5. CASE SettleRequest(w)
  <2>1. CASE ~At(w, "reqFailed")
    BY <1>5, <1>d, <2>1 DEF SettleRequest
  <2>2. CASE At(w, "reqFailed")
    <3>1. worker[w].op \in Ops
      BY <2>2, BusyHolds DEF At, BusyLabels, SettleLabels
    <3>2. /\ worker'[w].pc = "lateFail" /\ worker'[w].op = worker[w].op
          /\ \A v \in Workers : v # w => worker'[v] = worker[v]
      BY <1>5, <2>2, MoveEffects DEF SettleRequest, At
    <3>3. op'[worker[w].op].status \in Terminal
      BY <1>e, <2>2, <3>1 DEF At, ProcEvidence, SettleLabels, Forward
    <3>4. ProcEvidence(w)'
      BY <3>2, <3>3 DEF ProcEvidence, SettleLabels
    <3> QED BY <1>e, <3>2, <3>4, OneMoves
  <2> QED BY <2>1, <2>2
<1>6. CASE SemaphoreDenied(w) \/ Dispatch(w)
  BY <1>6, <1>p, <1>l DEF SemaphoreDenied, Dispatch
<1>7. CASE FailRequest(w) \/ EarlyFailSession(w)
  BY <1>7, <1>p, <1>l DEF FailRequest, EarlyFailSession
<1>8. CASE Decide(w)
  BY <1>8, <1>p, <1>l, <1>d DEF Decide
<1>9. CASE Retry(w) \/ LateFailSession(w)
  BY <1>9, <1>d DEF Retry, LateFailSession
<1>10. CASE LogError(w) \/ LogErrorLost(w)
  BY <1>10, <1>p, <1>l DEF LogError, LogErrorLost
<1> QED BY <1>1, <1>2, <1>3, <1>4, <1>5, <1>6, <1>7, <1>8, <1>9, <1>10 DEF Settle, HandleFailure

(* The evidence is preserved by every step. *)
LEMMA EvidenceNext ==
    ASSUME Basic, FencingToken, Evidence, [Next]_vars
    PROVE  Evidence'
<1>1. Forward /\ committed \subseteq committed'
  BY ForwardNext, CommitsGrow
<1>2. ASSUME NEW o \in Ops PROVE RowEvidence(o)'
  <2>1. RequestKept(o)
    BY RequestsKept
  <2>2. op'[o].status = "completed" => o \in committed'
    <3>1. CASE Completes(o)
      <4>1. PICK w \in Workers : At(w, "complete") /\ worker[w].op = o /\ Owns(w, o)
        BY <3>1, OnlyComplete
      <4>2. o \in committed
        BY <4>1 DEF Evidence, ProcEvidence, At, Owns, Terminal
      <4> QED BY <1>1, <4>2
    <3>2. CASE ~Completes(o)
      BY <1>1, <3>2 DEF Completes, Evidence, RowEvidence
    <3> QED BY <3>1, <3>2
  <2> QED BY <1>1, <2>1, <2>2 DEF RequestKept, Evidence, RowEvidence, Forward
<1>3. \A v \in Workers : ProcEvidence(v)'
  <2>1. UNCHANGED worker => \A v \in Workers : ProcEvidence(v)'
    BY <1>1, EvidenceStays DEF Evidence
  <2>2. ASSUME NEW w \in Workers, Crash(w) PROVE \A v \in Workers : ProcEvidence(v)'
    <3>1. worker'[w].pc = "dead" /\ \A v \in Workers : v # w => worker'[v] = worker[v]
      BY <2>2 DEF Crash, Become, Idle, Basic
    <3> QED BY <1>1, <3>1, OneMoves DEF EvidenceLabels, SettleLabels, Evidence
  <2> QED BY <1>1, <2>1, <2>2, ProcEvidenceClaim, ProcEvidenceBody, ProcEvidenceSettle
      DEF Next, vars, Create, Time, LeaseExpires, RetryDue, DeadlinePasses, CancelSession
<1> QED BY <1>2, <1>3 DEF Evidence

-----------------------------------------------------------------------------
(* The theorems.                                                           *)

(* IInv, grouped the way it is proved. *)
LEMMA IInvParts ==
    IInv <=> Basic /\ FencingToken /\ LogWithinAttempts /\ EventsInAttemptOrder /\ Evidence
BY BasicIsShape, EvidenceParts DEF IInv

(* The invariant holds initially. *)
LEMMA IInvInit == Init => IInv
<1> SUFFICES ASSUME Init PROVE IInv
  OBVIOUS
<1>1. Basic
  BY BasicInit
<1>2. FencingToken
  BY ConstantsAssumption DEF Init, FencingToken, Holds, Owns, Idle, AbsentRow, Ops, NoOp
<1>3. LogWithinAttempts /\ EventsInAttemptOrder
  BY DEF Init, LogWithinAttempts, EventsInAttemptOrder
<1>4. Evidence
  BY DEF Init, Evidence, RowEvidence, ProcEvidence, Idle, AbsentRow, SettleLabels
<1> QED BY <1>1, <1>2, <1>3, <1>4, IInvParts

(* Every step preserves the invariant. *)
LEMMA IInvNext == IInv /\ [Next]_vars => IInv'
<1> SUFFICES ASSUME IInv, [Next]_vars PROVE IInv'
  OBVIOUS
<1>1. Basic /\ FencingToken /\ LogWithinAttempts /\ EventsInAttemptOrder /\ Evidence
  BY IInvParts
<1>2. SettledBehind
  BY <1>1, EvidenceParts
<1>3. Basic' /\ FencingToken' /\ LogWithinAttempts' /\ EventsInAttemptOrder' /\ Evidence'
  BY <1>1, <1>2, BasicNext, FencingNext, LogNext, EvidenceNext
<1>4. (Basic /\ FencingToken /\ LogWithinAttempts /\ EventsInAttemptOrder /\ Evidence)' => IInv'
  BY IInvParts, PTL
<1> QED BY <1>3, <1>4

(* The inductive invariant holds in every reachable state of the queue. *)
THEOREM Invariant == Spec => []IInv
BY IInvInit, IInvNext, PTL DEF Spec

(* Every row, request, event and process keeps its declared shape; claim   *)
(* never exceeds max_attempts.                                             *)
THEOREM TypeCorrect == Spec => []TypeOK
<1>1. IInv => TypeOK
  BY DEF IInv
<1> QED BY Invariant, <1>1, PTL

(* attempt_count fences the workers: two processes never hold the same     *)
(* attempt, and a living lease owner executes the newest one.              *)
THEOREM Fencing == Spec => []FencingToken
<1>1. IInv => FencingToken
  BY DEF IInv
<1> QED BY Invariant, <1>1, PTL

(* The public body events of an operation appear in the order of the       *)
(* attempts that wrote them, however many workers believe they own it.     *)
THEOREM EventOrder == Spec => []EventsInAttemptOrder
<1>1. IInv => EventsInAttemptOrder
  BY DEF IInv
<1> QED BY Invariant, <1>1, PTL

(* complete() never reports an operation completed whose body committed    *)
(* nothing, although the completing attempt may only have replayed.        *)
THEOREM CompletionSound == Spec => []CompletedMeansCommitted
<1>1. IInv => CompletedMeansCommitted
  BY DEF IInv
<1> QED BY Invariant, <1>1, PTL

(* No statement of any worker, sweep or abort reopens or re-labels an      *)
(* operation that was settled.                                             *)
THEOREM Finality == Spec => TerminalIsFinal
<1>1. IInv /\ [Next]_vars
      => [\A o \in Ops : op[o].status \in Terminal => op'[o].status = op[o].status]_vars
  BY IInvParts, ForwardNext DEF Forward
<1> QED BY Invariant, <1>1, PTL DEF Spec, TerminalIsFinal
=============================================================================
