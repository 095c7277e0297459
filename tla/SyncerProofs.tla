---------------------------- MODULE SyncerProofs ----------------------------
(* The syncer's inductive invariant, for every set of links, documents and *)
(* workers and every bound.                                                *)
EXTENDS Syncer, TLAPS

\* The parts of a row id.
LEMMA IdParts ==
    ASSUME NEW i \in Ids
    PROVE  /\ LinkOf(i) \in Links /\ TypeOf(i) \in Types
           /\ i[1] \in Links /\ i[2] \in Types /\ i[3] \in Slots
           /\ ConnectorOf(i) \in Connectors
           /\ ConnectorOf(i) = ConnOf[LinkOf(i)]
           /\ i # NoId
BY SyncerAssumption DEF Ids, LinkOf, TypeOf, ConnectorOf, NoId

-----------------------------------------------------------------------------
(* Types.                                                                  *)

\* The row updates keep the rows' types.
LEMMA RowsTyped ==
    ASSUME TypeOK, NEW i \in Ids, NEW w \in Workers, NEW t \in Times
    PROVE  /\ RescheduleClaimed(i) \/ FailTask(i) \/ FailTaskOnly(i)
              \/ CompleteSyncTask(w, i, t) \/ CompletePruneTask(w, i)
                => /\ status' \in [Ids -> RowStatus]
                   /\ start' \in [Ids -> Times]
                   /\ conn' \in [Connectors -> ConnStatus]
                   /\ marks' \in [Links -> SUBSET Times]
<1> USE IdParts, SyncerAssumption DEF TypeOK, RowStatus, ConnStatus, Running
<1>1. CASE RescheduleClaimed(i)
  BY <1>1 DEF RescheduleClaimed
<1>2. CASE FailTask(i) \/ FailTaskOnly(i)
  BY <1>2 DEF FailTask, FailTaskOnly
<1>3. 0 \in Times
  BY DEF Times
<1>4. ASSUME NEW u \in Times, CreateNext(w, i, u)
      PROVE  status' \in [Ids -> RowStatus] /\ start' \in [Ids -> Times]
  BY <1>4 DEF CreateNext
<1>5. CASE CompleteSyncTask(w, i, t)
  BY <1>4, <1>5 DEF CompleteSyncTask
<1>6. CASE CompletePruneTask(w, i)
  BY <1>3, <1>4, <1>6 DEF CompletePruneTask
<1> QED
  BY <1>1, <1>2, <1>5, <1>6

LEMMA RecoverTyped ==
    ASSUME TypeOK, NEW S \in SUBSET Ids, Recover(S)
    PROVE  /\ status' \in [Ids -> RowStatus]
           /\ start' \in [Ids -> Times]
           /\ conn' \in [Connectors -> ConnStatus]
           /\ marks' \in [Links -> SUBSET Times]
BY IdParts DEF Recover, TypeOK, RowStatus, ConnStatus

LEMMA SchedulerTyped ==
    ASSUME TypeOK, Scheduler \/ ScanError \/ \E i \in Ids : Timeout(i)
    PROVE  TypeOK'
<1> USE SyncerAssumption DEF Fault, CallFails, AfterClaim
<1>1. CASE RecoverStaleRunning
  <2>1. StaleRunning \in SUBSET Ids
    BY DEF StaleRunning
  <2> QED
    BY <1>1, <2>1, RecoverTyped
    DEF RecoverStaleRunning, TypeOK, dataVars, srcVars, procVars, workVars,
        runVars
<1>2. ASSUME NEW S \in SUBSET Ids, ListDueTasks(S)
      PROVE  TypeOK'
  BY <1>2
  DEF ListDueTasks, TypeOK, dbVars, dataVars, srcVars, procVars, workVars,
      runVars
<1>3. ASSUME NEW i \in Ids, Claim(i)
      PROVE  TypeOK'
  BY <1>3
  DEF Claim, TypeOK, dataVars, srcVars, procVars, workVars, runVars, RowStatus
<1>4. CASE MarkConnectorRunning
  BY <1>4, IdParts
  DEF MarkConnectorRunning, TypeOK, rowVars, dataVars, srcVars, procVars,
      workVars, runVars, ConnStatus
<1>5. CASE Enqueue
  BY <1>5
  DEF Enqueue, TypeOK, dbVars, dataVars, srcVars, procVars, workVars, runVars
<1>6. CASE SchedulerExit
  BY <1>6
  DEF SchedulerExit, TypeOK, dbVars, dataVars, srcVars, procVars, workVars,
      runVars
<1>7. CASE ScanError
  <2>1. faults' \in 0..MaxFaults
    BY <1>7 DEF ScanError, TypeOK
  <2>2. CASE spc = "idle"
    <3>1. PICK S \in SUBSET StaleRunning : Recover(S)
      BY <1>7, <2>2 DEF ScanError
    <3>2. S \in SUBSET Ids
      BY DEF StaleRunning
    <3> QED
      BY <1>7, <2>1, <2>2, <3>1, <3>2, RecoverTyped
      DEF ScanError, TypeOK, dataVars, srcVars, schVars, workVars, runVars
  <2>3. CASE spc # "idle"
    BY <1>7, <2>1, <2>3
    DEF ScanError, TypeOK, dbVars, dataVars, srcVars, workVars, runVars
  <2> QED
    BY <2>2, <2>3
<1>8. ASSUME NEW i \in Ids, Timeout(i)
      PROVE  TypeOK'
  BY <1>8
  DEF Timeout, TypeOK, dataVars, srcVars, schVars, workVars, runVars, RowStatus
<1> QED
  BY <1>1, <1>2, <1>3, <1>4, <1>5, <1>6, <1>7, <1>8 DEF Scheduler

\* A worker's step, once its effect on the rows is known to be typed.
LEMMA WorkerTyped ==
    ASSUME TypeOK, NEW w \in Workers, Worker(w)
    PROVE  TypeOK'
<1> USE SyncerAssumption, IdParts
<1>0. 0 \in Times /\ [d \in Docs |-> 0] \in [Docs -> Times]
  BY DEF Times
<1>1. ASSUME CallFails
      PROVE  faults' \in 0..MaxFaults
  BY <1>1 DEF CallFails, Fault, TypeOK
<1>2. ASSUME NEW pc \in WorkerPc, Goto(w, pc)
      PROVE  wpc' \in [Workers -> WorkerPc]
  BY <1>2 DEF Goto, TypeOK
<1>3. ASSUME Discard(w)
      PROVE  /\ wend' \in [Workers -> Times] /\ cand' \in [Workers -> Times]
             /\ view' \in [Workers -> [Docs -> Times]]
             /\ left' \in [Workers -> SUBSET Docs]
             /\ pend' \in [Workers -> [Docs -> Times]]
             /\ bad' \in [Workers -> BOOLEAN]
             /\ keep' \in [Workers -> SUBSET Docs]
  BY <1>0, <1>3 DEF Discard, TypeOK
<1>4. CASE Receive(w)
  <2>1. Head(queue) \in Ids /\ Tail(queue) \in Seq(Ids)
    BY <1>4 DEF Receive, TypeOK
  <2> QED
    BY <1>4, <2>1
    DEF Receive, Goto, TypeOK, dbVars, dataVars, srcVars, procVars, schVars,
        runVars, WorkerPc
<1>5. CASE GetContextError(w)
  <2>1. wid[w] \in Ids
    BY <1>5 DEF GetContextError, TypeOK
  <2>2. /\ status' \in [Ids -> RowStatus] /\ start' \in [Ids -> Times]
        /\ conn' \in [Connectors -> ConnStatus]
        /\ marks' \in [Links -> SUBSET Times]
    BY <1>0, <1>5, <2>1, RowsTyped DEF GetContextError, TypeOK, dbVars
  <2> QED
    BY <1>1, <1>5, <2>2
    DEF GetContextError, Return, Goto, TypeOK, dataVars, srcVars, schVars,
        runVars, WorkerPc
<1>6. CASE TryLock(w)
  <2>1. wid[w] \in Ids
    BY <1>6 DEF TryLock, TypeOK
  <2>2. view' \in [Workers -> [Docs -> Times]]
    BY <1>6, <2>1 DEF TryLock, TypeOK
  <2> QED
    BY <1>0, <1>6, <2>1, <2>2
    DEF TryLock, Goto, TypeOK, dbVars, dataVars, srcVars, procVars, schVars,
        WorkerPc
<1>7. CASE Busy(w)
  <2>1. wid[w] \in Ids
    BY <1>7 DEF Busy, TypeOK
  <2>2. /\ status' \in [Ids -> RowStatus] /\ start' \in [Ids -> Times]
        /\ conn' \in [Connectors -> ConnStatus]
        /\ marks' \in [Links -> SUBSET Times]
    BY <1>0, <1>7, <2>1, RowsTyped DEF Busy, TypeOK, dbVars
  <2> QED
    BY <1>1, <1>7, <2>2
    DEF Busy, Return, Goto, TypeOK, dataVars, srcVars, schVars, runVars,
        WorkerPc
<1>8. CASE ExecuteError(w)
  BY <1>1, <1>3, <1>8
  DEF ExecuteError, Goto, TypeOK, dbVars, dataVars, srcVars, schVars, WorkerPc
<1>9. CASE HandleError(w)
  <2>1. wid[w] \in Ids
    BY <1>9 DEF HandleError, TypeOK
  <2>2. /\ status' \in [Ids -> RowStatus] /\ start' \in [Ids -> Times]
        /\ conn' \in [Connectors -> ConnStatus]
        /\ marks' \in [Links -> SUBSET Times]
    BY <1>0, <1>9, <2>1, RowsTyped DEF HandleError, TypeOK, dbVars
  <2> QED
    BY <1>9, <2>2
    DEF HandleError, Goto, TypeOK, dataVars, srcVars, procVars, schVars,
        runVars, WorkerPc
<1>10. CASE Unlock(w)
  BY <1>10
  DEF Unlock, Return, Goto, TypeOK, dbVars, dataVars, srcVars, procVars,
      schVars, runVars, WorkerPc
<1>11. CASE WorkerExit(w)
  BY <1>11
  DEF WorkerExit, Goto, TypeOK, dbVars, dataVars, srcVars, procVars, schVars,
      runVars, WorkerPc
<1>12. ASSUME NEW B \in SUBSET Docs, NextBatch(w, B)
       PROVE  TypeOK'
  <2>1. wid[w] \in Ids
    BY <1>12 DEF NextBatch, TypeOK
  <2>2. PICK page \in [Docs -> Times], t \in Times :
          /\ pend' = [pend EXCEPT ![w] = page]
          /\ cand' = [cand EXCEPT ![w] = t]
    BY <1>12 DEF NextBatch
  <2>4. /\ cand' \in [Workers -> Times]
        /\ left' \in [Workers -> SUBSET Docs]
        /\ pend' \in [Workers -> [Docs -> Times]]
    BY <1>12, <2>2 DEF NextBatch, TypeOK
  <2> QED
    BY <1>12, <2>4
    DEF NextBatch, Goto, TypeOK, dbVars, dataVars, srcVars, procVars, schVars,
        WorkerPc
<1>13. ASSUME NEW B \in SUBSET Docs, SnapshotBatch(w, B)
       PROVE  TypeOK'
  <2>1. PICK K \in SUBSET Docs : keep' = [keep EXCEPT ![w] = @ \cup K]
    BY <1>13 DEF SnapshotBatch
  <2> QED
    BY <1>13, <2>1
    DEF SnapshotBatch, TypeOK, dbVars, dataVars, srcVars, procVars, schVars
<1>14. ASSUME NEW d \in Docs, Upsert(w, d)
       PROVE  TypeOK'
  <2>1. wid[w] \in Ids
    BY <1>14 DEF Upsert, TypeOK
  <2>5. pend[w][d] \in Times
    BY DEF TypeOK
  <2>2. LinkOf(wid[w]) \in Links
    BY <2>1
  <2>3. idx' \in [Links -> [Docs -> Times]]
    BY <1>14, <2>5, <2>2 DEF Upsert, TypeOK
  <2>4. pend' \in [Workers -> [Docs -> Times]]
    BY <1>0, <1>14 DEF Upsert, TypeOK
  <2> QED
    BY <1>14, <2>3, <2>4 DEF Upsert, TypeOK, dbVars, srcVars, procVars, schVars
<1>15. ASSUME NEW d \in Docs, ItemError(w, d)
       PROVE  TypeOK'
  BY <1>0, <1>1, <1>15
  DEF ItemError, TypeOK, dbVars, dataVars, srcVars, schVars
<1>16. ASSUME NEW d \in Docs, DeleteDocument(w, d)
       PROVE  TypeOK'
  BY <1>0, <1>16 DEF DeleteDocument, TypeOK, dbVars, srcVars, procVars, schVars
<1>17. CASE BatchDone(w)
  BY <1>3, <1>17
  DEF BatchDone, Goto, TypeOK, dbVars, dataVars, srcVars, procVars, schVars,
      runVars, WorkerPc
<1>18. CASE CompleteSync(w)
  <2>1. wid[w] \in Ids /\ CandidateEnd(w) \in Times
    BY <1>18 DEF CompleteSync, CandidateEnd, TypeOK
  <2>2. /\ status' \in [Ids -> RowStatus] /\ start' \in [Ids -> Times]
        /\ conn' \in [Connectors -> ConnStatus]
        /\ marks' \in [Links -> SUBSET Times]
    BY <1>18, <2>1, RowsTyped DEF CompleteSync
  <2> QED
    BY <1>3, <1>18, <2>2
    DEF CompleteSync, Goto, TypeOK, dataVars, srcVars, procVars, schVars,
        WorkerPc
<1>19. CASE ListIDs(w)
  BY <1>19
  DEF ListIDs, Goto, TypeOK, dbVars, dataVars, srcVars, procVars, schVars,
      WorkerPc
<1>20. CASE CompletePrune(w)
  <2>1. wid[w] \in Ids
    BY <1>20 DEF CompletePrune, TypeOK
  <2>2. /\ status' \in [Ids -> RowStatus] /\ start' \in [Ids -> Times]
        /\ conn' \in [Connectors -> ConnStatus]
        /\ marks' \in [Links -> SUBSET Times]
    BY <1>0, <1>20, <2>1, RowsTyped DEF CompletePrune
  <2> QED
    BY <1>3, <1>20, <2>2
    DEF CompletePrune, Goto, TypeOK, dataVars, srcVars, procVars, schVars,
        WorkerPc
<1> QED
  BY <1>4, <1>5, <1>6, <1>7, <1>8, <1>9, <1>10, <1>11, <1>12, <1>13, <1>14,
     <1>15, <1>16, <1>17, <1>18, <1>19, <1>20 DEF Worker

\* The API, the source and the process keep the types.
LEMMA OtherTyped ==
    ASSUME TypeOK, (\E c \in Connectors : Api(c) \/ Source(c)) \/ Process
    PROVE  TypeOK'
<1> USE SyncerAssumption DEF Fault
<1>0. 0 \in Times /\ [d \in Docs |-> 0] \in [Docs -> Times]
  BY DEF Times
<1>1. ASSUME NEW c \in Connectors, CancelTasks(c)
      PROVE  TypeOK'
  BY <1>1
  DEF CancelTasks, TypeOK, dataVars, srcVars, schVars, workVars, runVars,
      RowStatus
<1>2. ASSUME NEW c \in Connectors, CancelConnector(c)
      PROVE  TypeOK'
  BY <1>2
  DEF CancelConnector, TypeOK, rowVars, dataVars, srcVars, procVars, schVars,
      workVars, runVars, ConnStatus
<1>3. ASSUME NEW c \in Connectors, ScheduleConnectorTasks(c)
      PROVE  TypeOK'
  <2>1. start' \in [Ids -> Times]
    BY <1>0, <1>3, IdParts DEF ScheduleConnectorTasks, TypeOK
  <2>2. status' \in [Ids -> RowStatus]
    BY <1>3 DEF ScheduleConnectorTasks, TypeOK, RowStatus
  <2>3. conn' \in [Connectors -> ConnStatus] /\ faults' \in 0..MaxFaults
    BY <1>3 DEF ScheduleConnectorTasks, TypeOK, ConnStatus
  <2> QED
    BY <1>3, <2>1, <2>2, <2>3
    DEF ScheduleConnectorTasks, TypeOK, dataVars, srcVars, schVars, workVars,
        runVars
<1>4. ASSUME NEW c \in Connectors, ApiError(c)
      PROVE  TypeOK'
  BY <1>4
  DEF ApiError, TypeOK, dbVars, dataVars, srcVars, procVars, schVars, workVars,
      runVars
<1>5. ASSUME NEW c \in Connectors, NEW d \in Docs,
             NEW t \in Times, SourceUpdate(c, d, t)
      PROVE  TypeOK'
  <2>1. now + 1 \in Times
    BY <1>5 DEF SourceUpdate, TypeOK, Times
  <2>2. /\ src' \in [Connectors -> [Docs -> Times]]
        /\ stamp' \in [Times -> Times] /\ backdated' \in SUBSET Times
    BY <1>5, <2>1 DEF SourceUpdate, TypeOK
  <2> QED
    BY <1>5, <2>1, <2>2
    DEF SourceUpdate, TypeOK, dbVars, procVars, schVars, workVars, runVars
<1>6. ASSUME NEW c \in Connectors, NEW d \in Docs, SourceDelete(c, d)
      PROVE  TypeOK'
  BY <1>0, <1>6
  DEF SourceDelete, TypeOK, dbVars, procVars, schVars, workVars, runVars
<1>7. CASE Stop
  BY <1>7
  DEF Stop, TypeOK, dbVars, dataVars, srcVars, schVars, workVars, runVars
<1>8. CASE Stopped \/ Crash
  <2>1. Gone /\ faults' \in 0..MaxFaults
    BY <1>8 DEF Stopped, Crash, TypeOK
  <2>2. /\ pend' \in [Workers -> [Docs -> Times]]
        /\ view' \in [Workers -> [Docs -> Times]]
        /\ wend' \in [Workers -> Times] /\ cand' \in [Workers -> Times]
    BY <1>0, <2>1 DEF Gone
  <2> QED
    BY <2>1, <2>2 DEF Gone, TypeOK, dbVars, dataVars, srcVars, WorkerPc
<1>9. CASE StartContext
  BY <1>9
  DEF StartContext, TypeOK, dbVars, dataVars, srcVars, runVars, WorkerPc
<1> QED
  BY <1>1, <1>2, <1>3, <1>4, <1>5, <1>6, <1>7, <1>8, <1>9
  DEF Api, Source, Process

LEMMA InitTyped == Init => TypeOK
BY SyncerAssumption
DEF Init, TypeOK, RowStatus, ConnStatus, WorkerPc, Times, Executing, NoId

LEMMA NextTyped == TypeOK /\ [Next]_vars => TypeOK'
<1> SUFFICES ASSUME TypeOK, [Next]_vars PROVE TypeOK'
  OBVIOUS
<1>1. CASE UNCHANGED vars
  BY <1>1
  DEF TypeOK, vars, dbVars, dataVars, srcVars, procVars, schVars, runVars
<1> QED
  BY <1>1, SchedulerTyped, WorkerTyped, OtherTyped DEF Next

-----------------------------------------------------------------------------
(* The rest of the invariant.                                              *)

\* The data the invariant is about, and the local state of a worker.
stores == <<start, marks, now, src, stamp, backdated, idx>>

Same(v) ==
    /\ wpc'[v] = wpc[v] /\ wid'[v] = wid[v] /\ wend'[v] = wend[v]
    /\ cand'[v] = cand[v] /\ view'[v] = view[v] /\ left'[v] = left[v]
    /\ pend'[v] = pend[v] /\ bad'[v] = bad[v] /\ keep'[v] = keep[v]

\* A step of worker w leaves the other workers alone.
OthersSame(w) == \A v \in Workers : v # w => Same(v)

LEMMA InitInv == Init => IInv
<1> SUFFICES ASSUME Init PROVE IInv
  OBVIOUS
<1> USE DEF Init
<1>1. TypeOK
  BY InitTyped
<1>2. LockHeld /\ ConnectorSerialized /\ \A w \in Workers : WorkerOK(w)
  BY DEF LockHeld, ConnectorSerialized, WorkerOK, ViewOK, SyncOK, PruneOK,
         Executing, InRunner
<1>3. InTime /\ MarksSound /\ StartsMarked
  BY SyncerAssumption, IdParts DEF InTime, MarksSound, StartsMarked, Times
<1> QED
  BY <1>1, <1>2, <1>3 DEF IInv

\* The stores are as they were.
LEMMA StoresKept ==
    ASSUME IInv, UNCHANGED stores
    PROVE  InTime' /\ StartsMarked' /\ MarksSound'
BY DEF IInv, InTime, StartsMarked, MarksSound, Sound, stores

\* A worker that does not move, on a link whose rows, waterlines and documents
\* do not change while its source does not either.
LEMMA WorkerKept ==
    ASSUME NEW v \in Workers, WorkerOK(v), Same(v),
           UNCHANGED <<now, src, stamp, backdated>>,
           wpc[v] \in InRunner =>
              /\ start'[wid[v]] = start[wid[v]]
              /\ marks'[LinkOf(wid[v])] = marks[LinkOf(wid[v])]
              /\ \A d \in Docs :
                   idx'[LinkOf(wid[v])][d] = idx[LinkOf(wid[v])][d]
    PROVE  WorkerOK(v)'
<1>1. \A d \in Docs : /\ Changed(v, d)' <=> Changed(v, d)
                      /\ Outside(v, d)' <=> Outside(v, d)
  BY DEF Changed, Outside, Same
<1>2. ViewOK(v)'
  BY <1>1 DEF WorkerOK, ViewOK, Same
<1>3. SyncOK(v)'
  BY <1>1 DEF WorkerOK, SyncOK, Same
<1>4. PruneOK(v)'
  BY <1>1 DEF WorkerOK, PruneOK, Same
<1> QED
  BY <1>2, <1>3, <1>4 DEF WorkerOK

\* Steps that touch neither the stores nor the workers.
LEMMA QuietStep ==
    ASSUME IInv, TypeOK', UNCHANGED stores, UNCHANGED workVars
    PROVE  IInv'
<1>1. LockHeld' /\ ConnectorSerialized'
  BY DEF IInv, LockHeld, ConnectorSerialized, workVars
<1>2. \A v \in Workers : WorkerOK(v) /\ Same(v)
  BY DEF IInv, Same, workVars, runVars
<1>3. \A v \in Workers : WorkerOK(v)'
  BY <1>2, WorkerKept DEF stores
<1> QED
  BY <1>1, <1>3, StoresKept DEF IInv

\* Steps of worker w that keep the stores.
LEMMA LocalStep ==
    ASSUME IInv, TypeOK', UNCHANGED stores, NEW w \in Workers, OthersSame(w),
           LockHeld', ConnectorSerialized', WorkerOK(w)'
    PROVE  IInv'
<1>1. \A v \in Workers : WorkerOK(v)
  BY DEF IInv
<1>2. \A v \in Workers : WorkerOK(v)'
  BY <1>1, WorkerKept DEF OthersSame, stores
<1> QED
  BY <1>2, StoresKept DEF IInv

\* A worker outside of a runner has nothing to keep.
LEMMA Outer ==
    ASSUME NEW w \in Workers, wpc'[w] \notin InRunner
    PROVE  WorkerOK(w)'
BY DEF WorkerOK, ViewOK, SyncOK, PruneOK, InRunner

\* Steps that only move worker w, to a place outside of a runner.
LEMMA MoveStep ==
    ASSUME IInv, TypeOK', UNCHANGED stores, NEW w \in Workers, OthersSame(w),
           wpc'[w] \notin InRunner,
           \/ wpc'[w] \notin Executing /\ lock' = lock
           \/ /\ wpc[w] \in Executing /\ wpc'[w] \in Executing
              /\ wid'[w] = wid[w] /\ lock' = lock
           \/ /\ wpc[w] \in Executing /\ wpc'[w] \notin Executing
              /\ lock' = lock \ {ConnectorOf(wid[w])}
    PROVE  IInv'
<1>1. LockHeld' /\ ConnectorSerialized'
  BY DEF IInv, LockHeld, ConnectorSerialized, OthersSame, Same
<1> QED
  BY <1>1, Outer, LocalStep

\* A worker opens a session: its window ends now.
LEMMA TryLockStep ==
    ASSUME IInv, TypeOK', NEW w \in Workers, TryLock(w)
    PROVE  IInv'
<1> DEFINE c == ConnectorOf(wid[w])
           l == LinkOf(wid[w])
<1> USE DEF IInv
<1>1. OthersSame(w) /\ UNCHANGED stores /\ wid[w] \in Ids /\ wid' = wid
  BY DEF TryLock, Goto, OthersSame, Same, TypeOK, dbVars, dataVars, srcVars,
         stores
<1>2. /\ wpc'[w] = "page" /\ wend'[w] = now /\ cand'[w] = start[wid[w]]
      /\ view'[w] = src[c] /\ left'[w] = Docs
      /\ pend'[w] = [d \in Docs |-> 0] /\ ~bad'[w]
  BY DEF TryLock, Goto, TypeOK
<1>3. LockHeld' /\ ConnectorSerialized'
  BY <1>1 DEF TryLock, Goto, TypeOK, LockHeld, ConnectorSerialized, OthersSame,
              Same, Executing
<1>4. /\ l \in Links /\ c \in Connectors /\ c = ConnOf[l]
      /\ now \in Times /\ start[wid[w]] \in Times
      /\ \A d \in Docs : src[c][d] \in Times
  BY <1>1, IdParts DEF TypeOK
<1>5. /\ \A d \in Docs : src[c][d] <= now /\ idx[l][d] <= now
      /\ now <= now /\ 0 <= now
  BY <1>4 DEF InTime, Times
<1>6. \A d \in Docs : Changed(w, d)' => src[c][d] = 0
  BY <1>1, <1>2, <1>4, <1>5 DEF Changed, stores, Times
<1>7. ViewOK(w)'
  BY <1>1, <1>2, <1>5 DEF ViewOK, stores
<1>8. SyncOK(w)'
  <2>1. ASSUME TypeOf(wid[w]) = "sync", c \in Exact
        PROVE  start[wid[w]] <= start[wid[w]] /\ start[wid[w]] <= now
    BY <1>1, <1>4, <2>1 DEF StartsMarked, MarksSound, Times
  <2>2. c \in Exact => \A m \in marks[l] : m <= now
    BY <1>4 DEF MarksSound
  <2>3. \A d \in Docs : Changed(w, d)' => Outside(w, d)'
    BY <1>1, <1>6 DEF Outside, stores
  <2> QED
    BY <1>1, <1>2, <2>1, <2>2, <2>3 DEF SyncOK, stores
<1>9. PruneOK(w)'
  BY <1>1, <1>2, <1>5 DEF PruneOK, stores
<1> QED
  BY <1>1, <1>3, <1>7, <1>8, <1>9, LocalStep DEF WorkerOK

\* Steps of a runner: worker w stays in it, on the same task.
LEMMA StayStep ==
    ASSUME IInv, NEW w \in Workers, OthersSame(w),
           wpc[w] \in InRunner, wpc'[w] \in InRunner, wid'[w] = wid[w],
           UNCHANGED lock
    PROVE  LockHeld' /\ ConnectorSerialized'
BY DEF IInv, OthersSame, Same, LockHeld, ConnectorSerialized, InRunner,
       Executing

\* What a page of an exact session shows of a document: the source's version,
\* or nothing that the window has to show, with an update time in the window.
LEMMA PageShows ==
    ASSUME IInv, NEW w \in Workers, wpc[w] = "page", TypeOf(wid[w]) = "sync",
           ConnectorOf(wid[w]) \in Exact, NEW B \in SUBSET Docs,
           NEW page \in [Docs -> Times], IsPage(w, B, page), NEW d \in Docs
    PROVE  LET v == src[ConnectorOf(wid[w])][d]
           IN  /\ stamp[page[d]] <= wend[w]
               /\ page[d] # 0 => page[d] = v \/ Outside(w, d)
               /\ d \in B => \/ page[d] = v \/ Outside(w, d)
                             \/ stamp[v] <= start[wid[w]]
<1> DEFINE c == ConnectorOf(wid[w])
           v == src[c][d]
           u == view[w][d]
<1> USE DEF IInv
<1>1. /\ wid[w] \in Ids /\ c \in Connectors /\ v \in Times /\ u \in Times
      /\ stamp[v] \in Times /\ stamp[u] \in Times /\ stamp[0] \in Times
      /\ start[wid[w]] \in Times /\ wend[w] \in Times
  <2>1. wid[w] \in Ids
    BY DEF TypeOK
  <2>2. 0 \in Times
    BY SyncerAssumption DEF Times
  <2> QED
    BY <2>1, <2>2, IdParts DEF TypeOK
<1>2. stamp[0] = 0
  BY SyncerAssumption DEF InTime, Times, TypeOK
<1>3. u = v \/ Outside(w, d)
  BY DEF WorkerOK, ViewOK, SyncOK, InRunner
<1>4. InWindow(stamp[v], start[wid[w]], wend[w]) \/ Outside(w, d)
          \/ stamp[v] <= start[wid[w]]
  BY <1>1 DEF InWindow, Outside, Times
<1>5. \/ page[d] = 0
      \/ page[d] = v /\ stamp[v] <= wend[w]
      \/ page[d] = u /\ stamp[u] <= wend[w]
  BY DEF IsPage, InWindow
<1>6. ASSUME d \in B
      PROVE  \/ page[d] = v \/ Outside(w, d) \/ stamp[v] <= start[wid[w]]
  BY <1>3, <1>4, <1>6 DEF IsPage
<1>7. stamp[page[d]] <= wend[w]
  BY <1>1, <1>2, <1>5 DEF Times
<1> QED
  BY <1>3, <1>5, <1>6, <1>7

\* A page is read: what is inside the window becomes pending.
LEMMA NextBatchStep ==
    ASSUME IInv, TypeOK', NEW w \in Workers, NEW B \in SUBSET Docs,
           NextBatch(w, B)
    PROVE  IInv'
<1> DEFINE c == ConnectorOf(wid[w])
<1> USE DEF IInv
<1>1. OthersSame(w) /\ UNCHANGED stores /\ wid[w] \in Ids /\ wid' = wid
  BY DEF NextBatch, Goto, OthersSame, Same, TypeOK, dbVars, dataVars, srcVars,
         stores
<1>2. PICK page \in [Docs -> Times], t \in Times :
        /\ IsPage(w, B, page) /\ IsLatest(t, cand[w], page)
        /\ pend'[w] = page /\ cand'[w] = t
  BY DEF NextBatch, TypeOK
<1>3. /\ wpc[w] = "page" /\ wpc'[w] = "item" /\ TypeOf(wid[w]) = "sync"
      /\ wend' = wend /\ bad' = bad /\ lock' = lock /\ view' = view
      /\ left'[w] = left[w] \ B
  BY DEF NextBatch, Goto, TypeOK
<1>4. LockHeld' /\ ConnectorSerialized'
  BY <1>1, <1>3, StayStep DEF InRunner
<1>5. \A d \in Docs : /\ Changed(w, d)' <=> Changed(w, d)
                      /\ Outside(w, d)' <=> Outside(w, d)
  BY <1>1, <1>3 DEF Changed, Outside, stores
<1>6. ViewOK(w) /\ SyncOK(w)
  BY DEF WorkerOK
<1>7. ViewOK(w)'
  <2>1. \A d \in Docs : /\ src[c][d] <= now /\ view[w][d] <= now /\ 0 <= now
    <3>1. /\ c \in Connectors /\ now \in Times /\ wend[w] \in Times
          /\ \A d \in Docs : view[w][d] \in Times
      BY <1>1, IdParts DEF TypeOK
    <3> QED
      BY <1>3, <1>6, <3>1 DEF InTime, ViewOK, InRunner, Times
  <2>2. \A d \in Docs : page[d] \in {0, src[c][d], view[w][d]}
    BY <1>2 DEF IsPage
  <2>3. \A d \in Docs : pend'[w][d] <= now
    BY <1>2, <2>1, <2>2
  <2> QED
    BY <1>1, <1>3, <1>5, <1>6, <2>3 DEF ViewOK, stores, InRunner
<1>8. SyncOK(w)'
  <2> SUFFICES ASSUME c \in Exact PROVE SyncOK(w)'
    BY <1>1 DEF SyncOK
  <2>1. /\ start[wid[w]] \in Times /\ wend[w] \in Times /\ cand[w] \in Times
        /\ \A d \in Docs : stamp[page[d]] \in Times
    BY <1>1 DEF TypeOK
  <2>2. /\ start[wid[w]] <= cand[w] /\ cand[w] <= wend[w] /\ ~bad[w]
        /\ \A m \in marks[LinkOf(wid[w])] : m <= wend[w]
    BY <1>3, <1>6 DEF SyncOK, InRunner
  <2>3. \A d \in Docs :
          LET v == src[c][d]
          IN  /\ stamp[page[d]] <= wend[w]
              /\ page[d] # 0 => page[d] = v \/ Outside(w, d)
              /\ d \in B => \/ page[d] = v \/ Outside(w, d)
                            \/ stamp[v] <= start[wid[w]]
    BY <1>2, <1>3, PageShows
  <2>4. start[wid[w]] <= t /\ t <= wend[w]
    BY <1>2, <2>1, <2>2, <2>3 DEF IsLatest, Times
  <2>5. \A d \in Docs : d \notin left[w] =>
          \/ Outside(w, d) \/ stamp[src[c][d]] <= start[wid[w]]
          \/ pend[w][d] = src[c][d]
          \/ idx[LinkOf(wid[w])][d] = src[c][d]
    BY <1>3, <1>6, <2>2 DEF SyncOK, InRunner
  <2>6. \A d \in Docs : /\ pend[w][d] = src[c][d] => Outside(w, d)
                        /\ Changed(w, d) => Outside(w, d)
    BY <1>3, <1>6 DEF SyncOK, InRunner, Outside
  <2> QED
    BY <1>1, <1>2, <1>3, <1>5, <2>2, <2>3, <2>4, <2>5, <2>6
    DEF SyncOK, stores, InRunner
<1>9. PruneOK(w)'
  BY <1>1, <1>3 DEF PruneOK
<1> QED
  BY <1>1, <1>4, <1>7, <1>8, <1>9, LocalStep DEF WorkerOK

\* A version that is there has an update time.
LEMMA Stamped ==
    ASSUME IInv, NEW c \in Connectors, NEW d \in Docs, src[c][d] # 0
    PROVE  stamp[src[c][d]] \in Times /\ stamp[src[c][d]] > 0
<1>1. src[c][d] \in Times /\ src[c][d] <= now /\ now \in Times
  BY DEF IInv, InTime, TypeOK
<1>2. src[c][d] \in 1..now
  BY <1>1 DEF Times
<1>3. stamp[src[c][d]] \in Times /\ stamp[src[c][d]] # 0
  BY <1>1, <1>2 DEF IInv, InTime, TypeOK
<1> QED
  BY <1>3 DEF Times

\* Two workers in a runner work on different links.
LEMMA OwnLink ==
    ASSUME IInv, NEW v \in Workers, NEW w \in Workers, v # w,
           wpc[v] \in InRunner, wpc[w] \in InRunner
    PROVE  LinkOf(wid[v]) # LinkOf(wid[w])
<1>1. wid[v] \in Ids /\ wid[w] \in Ids
  BY DEF IInv, TypeOK, InRunner
<1>2. ConnectorOf(wid[v]) # ConnectorOf(wid[w])
  BY DEF IInv, ConnectorSerialized, InRunner, Executing
<1> QED
  BY <1>1, <1>2, IdParts

\* Worker w changes what its link stores of document d, to the source's version
\* or while no waterline of the link covers that version.
LEMMA StoreStep ==
    ASSUME IInv, TypeOK', NEW w \in Workers, NEW d \in Docs, NEW t \in Times,
           wpc[w] \in InRunner, wpc' = wpc, wid' = wid, OthersSame(w),
           UNCHANGED lock, t <= now, WorkerOK(w)',
           ConnectorOf(wid[w]) \in Exact =>
              LET v == src[ConnectorOf(wid[w])][d]
              IN  \/ t = v \/ v = 0 \/ v \in backdated
                  \/ \A m \in marks[LinkOf(wid[w])] : ~(stamp[v] <= m),
           idx' = [idx EXCEPT ![LinkOf(wid[w])][d] = t],
           UNCHANGED <<start, marks, now, src, stamp, backdated>>
    PROVE  IInv'
<1> DEFINE l == LinkOf(wid[w])
<1> USE DEF IInv
<1>1. wid[w] \in Ids
  BY DEF TypeOK, InRunner
<1>2. l \in Links /\ ConnectorOf(wid[w]) = ConnOf[l] /\ ConnOf[l] \in Connectors
  BY <1>1, IdParts
<1>3. \A k \in Links, e \in Docs :
         idx'[k][e] = IF k = l /\ e = d THEN t ELSE idx[k][e]
  BY <1>2 DEF TypeOK
<1>4. InTime' /\ StartsMarked'
  BY <1>3 DEF InTime, StartsMarked
<1>5. MarksSound'
  <2> SUFFICES ASSUME NEW k \in Links, ConnOf[k] \in Exact, NEW m \in marks[k],
                      NEW e \in Docs, src[ConnOf[k]][e] # 0,
                      src[ConnOf[k]][e] \notin backdated,
                      stamp[src[ConnOf[k]][e]] <= m
               PROVE  m <= now /\ idx'[k][e] = src[ConnOf[k]][e]
    BY DEF MarksSound, Sound
  <2>1. m <= now /\ idx[k][e] = src[ConnOf[k]][e]
    BY DEF MarksSound, Sound
  <2> QED
    BY <1>2, <1>3, <2>1
<1>6. LockHeld' /\ ConnectorSerialized'
  BY StayStep
<1>7. ASSUME NEW v \in Workers, v # w
      PROVE  WorkerOK(v)'
  <2>1. wpc[v] \in InRunner => LinkOf(wid[v]) \in Links /\ LinkOf(wid[v]) # l
    BY <1>7, OwnLink, IdParts DEF TypeOK, InRunner
  <2>2. WorkerOK(v) /\ Same(v)
    BY <1>7 DEF OthersSame
  <2> QED
    BY <1>3, <2>1, <2>2, WorkerKept
<1> QED
  BY <1>4, <1>5, <1>6, <1>7

LEMMA UpsertStep ==
    ASSUME IInv, TypeOK', NEW w \in Workers, NEW d \in Docs, Upsert(w, d)
    PROVE  IInv'
<1> DEFINE l == LinkOf(wid[w])
           c == ConnectorOf(wid[w])
<1> USE DEF IInv
<1>1. /\ OthersSame(w)
      /\ UNCHANGED <<start, marks, now, src, stamp, backdated>>
      /\ wid[w] \in Ids /\ wid' = wid /\ wpc' = wpc /\ wpc[w] = "item"
      /\ wend' = wend /\ cand' = cand /\ left' = left /\ bad' = bad
      /\ lock' = lock /\ view' = view
  BY DEF Upsert, OthersSame, Same, TypeOK, dbVars, srcVars
<1>2. ViewOK(w) /\ SyncOK(w) /\ TypeOf(wid[w]) = "sync"
  BY <1>1 DEF WorkerOK, ViewOK
<1>3. /\ l \in Links /\ c \in Connectors
      /\ pend[w][d] # 0 /\ pend[w][d] \in Times /\ pend[w][d] <= now
      /\ wend[w] \in Times /\ now \in Times /\ 0 <= now
  BY <1>1, <1>2, IdParts DEF Upsert, TypeOK, ViewOK, InRunner, Times
<1>4. /\ \A e \in Docs :
           idx'[l][e] = IF e = d THEN pend[w][d] ELSE idx[l][e]
      /\ \A e \in Docs : pend'[w][e] = IF e = d THEN 0 ELSE pend[w][e]
  BY <1>3 DEF Upsert, TypeOK
<1>5. \A e \in Docs : /\ Changed(w, e)' <=> Changed(w, e)
                      /\ Outside(w, e)' <=> Outside(w, e)
  BY <1>1 DEF Changed, Outside
<1>6. c \in Exact => /\ pend[w][d] = src[c][d] \/ Outside(w, d)
                     /\ \A m \in marks[l] : m <= wend[w]
  BY <1>1, <1>2, <1>3 DEF SyncOK, InRunner
<1>7. c \in Exact =>
        LET v == src[c][d]
        IN  \/ pend[w][d] = v \/ v = 0 \/ v \in backdated
            \/ \A m \in marks[l] : ~(stamp[v] <= m)
  <2>1. /\ \A m \in marks[l] : m \in Times
        /\ stamp[src[c][d]] \in Times
    BY <1>3 DEF TypeOK
  <2> QED
    BY <1>3, <1>6, <2>1 DEF Outside, Times
<1>8. ViewOK(w)'
  BY <1>1, <1>2, <1>3, <1>4, <1>5 DEF ViewOK
<1>9. SyncOK(w)'
  <2> SUFFICES ASSUME c \in Exact PROVE SyncOK(w)'
    BY <1>1 DEF SyncOK
  <2>1. ASSUME NEW e \in Docs
        PROVE  LET v == src[c][e]
               IN  /\ Changed(w, e) => Outside(w, e)
                   /\ e \notin left[w] =>
                        \/ Outside(w, e) \/ stamp[v] <= start[wid[w]] \/ bad[w]
                        \/ pend'[w][e] = v \/ idx'[l][e] = v
                   /\ pend'[w][e] # 0 => pend'[w][e] = v \/ Outside(w, e)
    BY <1>1, <1>2, <1>4, <1>6 DEF SyncOK, InRunner
  <2> QED
    BY <1>1, <1>2, <1>5, <2>1 DEF SyncOK, InRunner
<1>10. PruneOK(w)'
  BY <1>1, <1>2 DEF PruneOK
<1> QED
  BY <1>1, <1>3, <1>7, <1>8, <1>9, <1>10, StoreStep
  DEF WorkerOK, InRunner, Upsert

LEMMA ItemErrorStep ==
    ASSUME IInv, TypeOK', NEW w \in Workers, NEW d \in Docs, ItemError(w, d)
    PROVE  IInv'
<1> USE DEF IInv
<1>1. /\ OthersSame(w) /\ UNCHANGED stores /\ UNCHANGED <<wid, wpc, lock>>
      /\ UNCHANGED <<wend, cand, view, left, keep>>
      /\ wpc[w] = "item" /\ bad'[w] /\ now \in Times
  BY DEF ItemError, OthersSame, Same, TypeOK, dbVars, dataVars, srcVars, stores
<1>2. \A e \in Docs : pend'[w][e] = IF e = d THEN 0 ELSE pend[w][e]
  BY DEF ItemError, TypeOK
<1>3. LockHeld' /\ ConnectorSerialized'
  BY <1>1, StayStep DEF InRunner
<1>4. \A e \in Docs : /\ Changed(w, e)' <=> Changed(w, e)
                      /\ Outside(w, e)' <=> Outside(w, e)
  BY <1>1 DEF Changed, Outside, stores
<1>5. WorkerOK(w)
  OBVIOUS
<1>6. ViewOK(w)'
  <2>1. 0 <= now
    BY <1>1 DEF Times
  <2> QED
    BY <1>1, <1>2, <1>4, <1>5, <2>1 DEF WorkerOK, ViewOK, stores
<1>7. SyncOK(w)'
  BY <1>1, <1>2, <1>4, <1>5 DEF WorkerOK, SyncOK, stores
<1>8. PruneOK(w)'
  BY <1>1, <1>4, <1>5 DEF WorkerOK, PruneOK, stores
<1> QED
  BY <1>1, <1>3, <1>6, <1>7, <1>8, LocalStep DEF WorkerOK

LEMMA BatchDoneStep ==
    ASSUME IInv, TypeOK', NEW w \in Workers, BatchDone(w)
    PROVE  IInv'
<1>1. CASE bad[w]
  <2>1. /\ OthersSame(w) /\ UNCHANGED stores /\ wid' = wid /\ lock' = lock
        /\ wpc[w] = "item" /\ wpc'[w] = "fail"
    BY <1>1
    DEF BatchDone, Discard, Goto, OthersSame, Same, IInv, TypeOK, dbVars,
        dataVars, srcVars, stores
  <2> QED
    BY <2>1, MoveStep DEF InRunner, Executing
<1>2. CASE ~bad[w]
  <2> USE DEF IInv
  <2>1. /\ OthersSame(w) /\ UNCHANGED stores /\ wid' = wid /\ lock' = lock
        /\ UNCHANGED <<wend, cand, view, left, pend, bad, keep>>
        /\ wpc[w] = "item" /\ wpc'[w] = "page"
        /\ \A d \in Docs : pend[w][d] = 0
    BY <1>2
    DEF BatchDone, Goto, OthersSame, Same, TypeOK, dbVars, dataVars, srcVars,
        stores, runVars
  <2>2. WorkerOK(w) /\ TypeOf(wid[w]) = "sync"
    BY <2>1 DEF WorkerOK, ViewOK
  <2>3. LockHeld' /\ ConnectorSerialized'
    BY <2>1, StayStep DEF InRunner
  <2>4. \A e \in Docs : /\ Changed(w, e)' <=> Changed(w, e)
                        /\ Outside(w, e)' <=> Outside(w, e)
    BY <2>1 DEF Changed, Outside, stores
  <2>5. ViewOK(w)'
    BY <2>1, <2>2, <2>4 DEF WorkerOK, ViewOK, stores, InRunner
  <2>6. SyncOK(w)'
    BY <1>2, <2>1, <2>2, <2>4 DEF WorkerOK, SyncOK, stores, InRunner
  <2>7. PruneOK(w)'
    BY <2>1, <2>2 DEF PruneOK
  <2> QED
    BY <2>1, <2>3, <2>5, <2>6, <2>7, LocalStep DEF WorkerOK
<1> QED
  BY <1>1, <1>2

LEMMA SnapshotBatchStep ==
    ASSUME IInv, TypeOK', NEW w \in Workers, NEW B \in SUBSET Docs,
           SnapshotBatch(w, B)
    PROVE  IInv'
<1> DEFINE c == ConnectorOf(wid[w])
<1> USE DEF IInv
<1>1. /\ OthersSame(w) /\ UNCHANGED stores /\ UNCHANGED <<wid, wpc, lock>>
      /\ UNCHANGED <<wend, cand, view, pend, bad>>
      /\ wpc[w] = "page" /\ TypeOf(wid[w]) = "prune"
      /\ left'[w] = left[w] \ B
  BY DEF SnapshotBatch, OthersSame, Same, TypeOK, dbVars, dataVars, srcVars,
         stores
<1>2. PICK K \in SUBSET Docs : IsSnapshot(w, B, K) /\ keep'[w] = keep[w] \cup K
  BY DEF SnapshotBatch, TypeOK
<1>3. LockHeld' /\ ConnectorSerialized'
  BY <1>1, StayStep DEF InRunner
<1>4. \A e \in Docs : Changed(w, e)' <=> Changed(w, e)
  BY <1>1 DEF Changed, stores
<1>5. WorkerOK(w)
  OBVIOUS
<1>6. ViewOK(w)'
  BY <1>1, <1>4, <1>5 DEF WorkerOK, ViewOK, stores
<1>7. c \in Exact => \A d \in B \ K : Changed(w, d)
  BY <1>1, <1>2, <1>5 DEF WorkerOK, ViewOK, IsSnapshot, Changed, InRunner
<1>8. PruneOK(w)'
  BY <1>1, <1>2, <1>4, <1>5, <1>7 DEF WorkerOK, PruneOK, stores, InRunner
<1>9. SyncOK(w)'
  BY <1>1 DEF SyncOK
<1> QED
  BY <1>1, <1>3, <1>6, <1>8, <1>9, LocalStep DEF WorkerOK

LEMMA ListIDsStep ==
    ASSUME IInv, TypeOK', NEW w \in Workers, ListIDs(w)
    PROVE  IInv'
<1> USE DEF IInv
<1>1. /\ OthersSame(w) /\ UNCHANGED stores /\ UNCHANGED <<wid, lock>>
      /\ UNCHANGED <<wend, cand, view, left, pend, bad>>
      /\ wpc[w] = "page" /\ TypeOf(wid[w]) = "prune" /\ wpc'[w] = "prune"
      /\ left[w] = {}
      /\ \A d \in keep'[w] : d \in Docs /\ d \notin keep[w]
  BY DEF ListIDs, Goto, OthersSame, Same, TypeOK, dbVars, dataVars, srcVars,
         stores
<1>2. LockHeld' /\ ConnectorSerialized'
  BY <1>1, StayStep DEF InRunner
<1>3. \A e \in Docs : Changed(w, e)' <=> Changed(w, e)
  BY <1>1 DEF Changed, stores
<1>4. WorkerOK(w)
  OBVIOUS
<1>5. ViewOK(w)'
  BY <1>1, <1>3, <1>4 DEF WorkerOK, ViewOK, stores, InRunner
<1>6. PruneOK(w)'
  BY <1>1, <1>3, <1>4 DEF WorkerOK, PruneOK, stores, InRunner
<1>7. SyncOK(w)'
  BY <1>1 DEF SyncOK
<1> QED
  BY <1>1, <1>2, <1>5, <1>6, <1>7, LocalStep DEF WorkerOK

LEMMA DeleteDocumentStep ==
    ASSUME IInv, TypeOK', NEW w \in Workers, NEW d \in Docs,
           DeleteDocument(w, d)
    PROVE  IInv'
<1> DEFINE l == LinkOf(wid[w])
           c == ConnectorOf(wid[w])
<1> USE DEF IInv
<1>1. /\ OthersSame(w)
      /\ UNCHANGED <<start, marks, now, src, stamp, backdated>>
      /\ wid[w] \in Ids /\ wid' = wid /\ wpc' = wpc /\ wpc[w] = "prune"
      /\ UNCHANGED <<wend, cand, view, left, pend, bad, lock>>
      /\ d \in keep[w] /\ keep'[w] = keep[w] \ {d}
  BY DEF DeleteDocument, OthersSame, Same, TypeOK, dbVars, srcVars
<1>2. WorkerOK(w) /\ TypeOf(wid[w]) = "prune"
  BY <1>1 DEF WorkerOK, ViewOK
<1>3. /\ l \in Links /\ c \in Connectors /\ c = ConnOf[l]
      /\ wend[w] \in Times /\ now \in Times
      /\ src[c][d] \in Times /\ idx[l][d] \in Times
      /\ 0 \in Times /\ 0 <= wend[w] /\ 0 <= now
  <2>1. l \in Links /\ c \in Connectors /\ c = ConnOf[l]
    BY <1>1, IdParts
  <2>2. /\ wend[w] \in Times /\ now \in Times
        /\ src[c][d] \in Times /\ idx[l][d] \in Times
    BY <2>1 DEF TypeOK
  <2> QED
    BY <2>1, <2>2, SyncerAssumption DEF Times
<1>4. \A e \in Docs : idx'[l][e] = IF e = d THEN 0 ELSE idx[l][e]
  BY <1>3 DEF DeleteDocument, TypeOK
<1>5. \A e \in Docs : Changed(w, e)' <=> Changed(w, e)
  BY <1>1 DEF Changed
<1>6. c \in Exact =>
        LET v == src[c][d]
        IN  \/ 0 = v \/ v = 0 \/ v \in backdated
            \/ \A m \in marks[l] : ~(stamp[v] <= m)
  <2> SUFFICES ASSUME c \in Exact, src[c][d] # 0, src[c][d] \notin backdated,
                      NEW m \in marks[l], stamp[src[c][d]] <= m
               PROVE  FALSE
    OBVIOUS
  <2>1. src[c][d] > wend[w]
    BY <1>1, <1>2 DEF WorkerOK, PruneOK, Changed, InRunner
  <2>2. idx[l][d] <= wend[w]
    BY <1>1, <1>2 DEF WorkerOK, PruneOK, InRunner
  <2>3. idx[l][d] = src[c][d]
    BY <1>3 DEF MarksSound, Sound
  <2> QED
    BY <1>3, <2>1, <2>2, <2>3 DEF Times
<1>7. ViewOK(w)'
  BY <1>1, <1>2, <1>5 DEF WorkerOK, ViewOK
<1>8. PruneOK(w)'
  BY <1>1, <1>2, <1>3, <1>4, <1>5 DEF WorkerOK, PruneOK, InRunner
<1>9. SyncOK(w)'
  BY <1>1, <1>2 DEF SyncOK
<1> QED
  BY <1>1, <1>3, <1>6, <1>7, <1>8, <1>9, StoreStep
  DEF WorkerOK, InRunner, DeleteDocument

\* Where a new row of the transaction ends up: on the same link and type, in a
\* slot no other runner uses.
LEMMA NextRow ==
    ASSUME IInv, NEW w \in Workers, NEW from \in Times, wid[w] \in Ids,
           CreateNext(w, wid[w], from)
    PROVE  /\ \A k \in Ids : \/ start'[k] = start[k]
                             \/ /\ LinkOf(k) = LinkOf(wid[w])
                                /\ TypeOf(k) = TypeOf(wid[w])
                                /\ start'[k] = from
           /\ \A v \in Workers : v # w /\ wpc[v] \in InRunner
                => start'[wid[v]] = start[wid[v]]
<1>1. \A k \in Ids :
        \/ start'[k] = start[k]
        \/ /\ k[1] = wid[w][1] /\ k[2] = wid[w][2] /\ start'[k] = from
           /\ IsFresh([status EXCEPT ![wid[w]] = "ended"], k, Workers \ {w})
  BY DEF CreateNext
<1>2. \A v \in Workers : wpc[v] \in InRunner => wid[v] \in Ids
  BY DEF IInv, TypeOK, InRunner
<1> QED
  BY <1>1, <1>2 DEF LinkOf, TypeOf, IsFresh, Free, Held, InRunner

\* A transaction that gives rows of link l a waterline up to which the link is
\* sound, while worker w leaves its runner and no other runner is on the link.
LEMMA WaterlineStep ==
    ASSUME IInv, TypeOK', NEW w \in Workers, NEW l \in Links, NEW m \in Times,
           OthersSame(w), UNCHANGED <<now, src, stamp, backdated, idx, lock>>,
           wpc[w] \in Executing, wpc'[w] \in Executing \ InRunner,
           wid'[w] = wid[w],
           ConnOf[l] \in Exact => m <= now /\ Sound(l, m),
           marks' = [marks EXCEPT ![l] = @ \cup {m}] \/ marks' = marks,
           \A k \in Ids : \/ start'[k] = start[k] \/ start'[k] = 0
                          \/ /\ start'[k] = m /\ LinkOf(k) = l
                             /\ marks' = [marks EXCEPT ![l] = @ \cup {m}],
           \A v \in Workers : v # w /\ wpc[v] \in InRunner
                => LinkOf(wid[v]) # l /\ start'[wid[v]] = start[wid[v]]
    PROVE  IInv'
<1> USE DEF IInv
<1>1. LockHeld' /\ ConnectorSerialized'
  BY DEF LockHeld, ConnectorSerialized, OthersSame, Same
<1>2. InTime'
  BY DEF InTime
<1>3. \A k \in Links : \/ marks'[k] = marks[k]
                       \/ k = l /\ marks'[k] = marks[k] \cup {m}
  BY DEF TypeOK
<1>4. MarksSound'
  BY <1>3 DEF MarksSound, Sound
<1>5. StartsMarked'
  <2> SUFFICES ASSUME NEW k \in Ids, TypeOf(k) = "sync"
               PROVE  start'[k] \in marks'[LinkOf(k)] \cup {0}
    BY DEF StartsMarked
  <2>1. LinkOf(k) \in Links
    BY IdParts
  <2>2. CASE start'[k] = start[k]
    BY <1>3, <2>1, <2>2 DEF StartsMarked
  <2>3. CASE start'[k] # start[k]
    BY <2>1, <2>3 DEF TypeOK
  <2> QED
    BY <2>2, <2>3
<1>6. ASSUME NEW v \in Workers, v # w
      PROVE  WorkerOK(v)'
  <2>1. wpc[v] \in InRunner =>
          marks'[LinkOf(wid[v])] = marks[LinkOf(wid[v])]
    BY <1>3, <1>6, IdParts DEF InRunner, TypeOK
  <2>2. WorkerOK(v) /\ Same(v)
    BY <1>6 DEF OthersSame
  <2> QED
    BY <1>6, <2>1, <2>2, WorkerKept
<1>7. WorkerOK(w)'
  BY Outer
<1> QED
  BY <1>1, <1>2, <1>4, <1>5, <1>6, <1>7

\* The waterline a finished SYNC commits is sound.
LEMMA CompleteSyncStep ==
    ASSUME IInv, TypeOK', NEW w \in Workers, CompleteSync(w)
    PROVE  IInv'
<1> DEFINE l == LinkOf(wid[w])
           c == ConnectorOf(wid[w])
           m == CandidateEnd(w)
<1> USE DEF IInv
<1>1. /\ OthersSame(w) /\ UNCHANGED <<now, src, stamp, backdated, idx, lock>>
      /\ wid' = wid /\ wpc[w] = "page" /\ wpc'[w] = "unlock" /\ wid[w] \in Ids
      /\ TypeOf(wid[w]) = "sync" /\ left[w] = {}
  BY DEF CompleteSync, Discard, Goto, OthersSame, Same, TypeOK, dataVars,
         srcVars
<1>2. /\ l \in Links /\ c = ConnOf[l] /\ c \in Connectors /\ m \in Times
      /\ start[wid[w]] \in Times /\ cand[w] \in Times /\ wend[w] \in Times
      /\ now \in Times /\ \A d \in Docs : src[c][d] \in Times
  BY <1>1, IdParts DEF CandidateEnd, TypeOK
<1>3. \A d \in Docs : stamp[src[c][d]] \in Times
  BY <1>2 DEF TypeOK
<1>4. WorkerOK(w)
  OBVIOUS
<1>5. ASSUME c \in Exact
      PROVE  m <= now /\ Sound(l, m)
  <2>1. /\ cand[w] <= wend[w] /\ wend[w] <= now
        /\ ~bad[w] /\ \A d \in Docs : pend[w][d] = 0
    BY <1>1, <1>4, <1>5 DEF WorkerOK, SyncOK, ViewOK, InRunner
  <2>2. m <= now /\ m <= wend[w]
    BY <1>2, <2>1 DEF CandidateEnd, Times
  <2>3. ASSUME NEW d \in Docs, src[c][d] # 0, src[c][d] \notin backdated,
               stamp[src[c][d]] <= m
        PROVE  idx[l][d] = src[c][d]
    <3>1. ~Outside(w, d)
      BY <1>2, <1>3, <2>2, <2>3 DEF Outside, Times
    <3>2. stamp[src[c][d]] <= start[wid[w]] \/ idx[l][d] = src[c][d]
      BY <1>1, <1>4, <1>5, <2>1, <2>3, <3>1 DEF WorkerOK, SyncOK, InRunner
    <3>3. CASE stamp[src[c][d]] <= start[wid[w]]
      <4>1. stamp[src[c][d]] > 0
        BY <1>2, <2>3, Stamped
      <4>2. start[wid[w]] \in marks[l]
        BY <1>1, <1>2, <1>3, <3>3, <4>1 DEF StartsMarked, Times
      <4> QED
        BY <1>2, <1>5, <2>3, <3>3, <4>2 DEF MarksSound, Sound
    <3> QED
      BY <3>2, <3>3
  <2> QED
    BY <1>2, <2>2, <2>3 DEF Sound
<1>6. CreateNext(w, wid[w], m) /\ marks' = [marks EXCEPT ![l] = @ \cup {m}]
  BY DEF CompleteSync, CompleteSyncTask
<1>7. /\ \A k \in Ids : \/ start'[k] = start[k]
                        \/ start'[k] = m /\ LinkOf(k) = l
      /\ \A v \in Workers : v # w /\ wpc[v] \in InRunner
           => start'[wid[v]] = start[wid[v]]
  BY <1>1, <1>2, <1>6, NextRow
<1>8. \A v \in Workers : v # w /\ wpc[v] \in InRunner => LinkOf(wid[v]) # l
  BY <1>1, OwnLink DEF InRunner
<1> HIDE DEF m, l
<1> QED
  BY <1>1, <1>2, <1>5, <1>6, <1>7, <1>8, WaterlineStep
  DEF InRunner, Executing

LEMMA CompletePruneStep ==
    ASSUME IInv, TypeOK', NEW w \in Workers, CompletePrune(w)
    PROVE  IInv'
<1> DEFINE l == LinkOf(wid[w])
<1> USE DEF IInv
<1>1. /\ OthersSame(w)
      /\ UNCHANGED <<now, src, stamp, backdated, idx, lock, marks>>
      /\ wid' = wid /\ wpc[w] = "prune" /\ wpc'[w] = "unlock" /\ wid[w] \in Ids
  BY DEF CompletePrune, CompletePruneTask, Discard, Goto, OthersSame, Same,
         TypeOK, dataVars, srcVars
<1>2. l \in Links
  BY <1>1, IdParts
<1>3. 0 \in Times /\ 0 <= now
  BY SyncerAssumption DEF Times, TypeOK
<1>4. Sound(l, 0)
  <2> SUFFICES ASSUME NEW d \in Docs, src[ConnOf[l]][d] # 0,
                      stamp[src[ConnOf[l]][d]] <= 0
               PROVE  FALSE
    BY DEF Sound
  <2>1. stamp[src[ConnOf[l]][d]] \in Times /\ stamp[src[ConnOf[l]][d]] > 0
    BY <1>2, SyncerAssumption, Stamped
  <2> QED
    BY <2>1 DEF Times
<1>5. /\ \A k \in Ids : start'[k] = start[k] \/ start'[k] = 0
      /\ \A v \in Workers : v # w /\ wpc[v] \in InRunner
           => start'[wid[v]] = start[wid[v]]
  <2>1. CASE PruneOn
    BY <1>1, <1>2, <1>3, <2>1, NextRow DEF CompletePrune, CompletePruneTask
  <2>2. CASE ~PruneOn
    BY <2>2 DEF CompletePrune, CompletePruneTask
  <2> QED
    BY <2>1, <2>2
<1>6. \A v \in Workers : v # w /\ wpc[v] \in InRunner => LinkOf(wid[v]) # l
  BY <1>1, OwnLink DEF InRunner
<1> HIDE DEF l
<1> QED
  BY <1>1, <1>2, <1>3, <1>4, <1>5, <1>6, WaterlineStep DEF InRunner, Executing

\* Resuming starts rows at waterlines the link already has.
LEMMA ScheduleStep ==
    ASSUME IInv, TypeOK', NEW c \in Connectors, ScheduleConnectorTasks(c)
    PROVE  IInv'
<1> USE DEF IInv
<1>1. /\ UNCHANGED <<marks, now, src, stamp, backdated, idx>>
      /\ UNCHANGED workVars
  BY DEF ScheduleConnectorTasks, dataVars, srcVars
<1>2. /\ \A k \in Ids : \/ start'[k] = start[k] \/ start'[k] = 0
                        \/ start'[k] \in marks[LinkOf(k)]
      /\ \A v \in Workers : wpc[v] \in InRunner
           => start'[wid[v]] = start[wid[v]]
  <2> DEFINE wanted == {k \in {l \in Links : ConnOf[l] = c} \X
                             (IF PruneOn THEN Types ELSE {"sync"}) :
                           ~Existing(status, k[1], k[2])}
             New(i) == <<i[1], i[2]>> \in wanted /\ IsFresh(status, i, Workers)
  <2>1. PICK from \in [Links -> Times] :
          /\ \A l \in Links : IF <<l, "sync">> \in wanted
                              THEN from[l] \in ResumeFrom(l) ELSE from[l] = 0
          /\ start' = [i \in Ids |->
                         IF ~New(i) THEN start[i]
                         ELSE IF i[2] = "sync" THEN from[i[1]] ELSE 0]
    BY DEF ScheduleConnectorTasks
  <2>2. \A l \in Links : from[l] = 0 \/ from[l] \in marks[l]
    BY <2>1 DEF ResumeFrom
  <2>3. ASSUME NEW k \in Ids, start'[k] # start[k]
        PROVE  /\ start'[k] = 0 \/ start'[k] \in marks[LinkOf(k)]
               /\ IsFresh(status, k, Workers)
    <3>1. k[1] \in Links /\ LinkOf(k) = k[1]
      BY IdParts DEF LinkOf
    <3> HIDE DEF wanted
    <3> QED
      BY <2>1, <2>2, <2>3, <3>1
  <2>4. \A v \in Workers : wpc[v] \in InRunner =>
          wid[v] \in Ids /\ ~IsFresh(status, wid[v], Workers)
    BY DEF TypeOK, InRunner, IsFresh, Free, Held
  <2> QED
    BY <2>3, <2>4
<1>3. LockHeld' /\ ConnectorSerialized'
  BY <1>1 DEF LockHeld, ConnectorSerialized, workVars
<1>4. InTime' /\ MarksSound'
  BY <1>1 DEF InTime, MarksSound, Sound
<1>5. StartsMarked'
  BY <1>1, <1>2 DEF StartsMarked
<1>6. \A v \in Workers : Same(v)
  BY <1>1 DEF Same, workVars, runVars
<1>7. \A v \in Workers : WorkerOK(v)'
  BY <1>1, <1>2, <1>6, WorkerKept
<1> QED
  BY <1>3, <1>4, <1>5, <1>7

\* What a step of the source does to a document: nothing, it goes away, or it
\* gets a new version whose update time was covered or no window had reached.
LEMMA SourceChange ==
    ASSUME IInv, NEW c \in Connectors, Source(c)
    PROVE  /\ now' \in {now, now + 1}
           /\ \A v \in Times :
                v <= now => /\ stamp'[v] = stamp[v]
                            /\ v \in backdated' <=> v \in backdated
           /\ \A k \in Connectors, d \in Docs :
                \/ src'[k][d] = src[k][d] \/ src'[k][d] = 0
                \/ /\ src'[k][d] = now + 1 /\ now' = now + 1
                   /\ \/ now + 1 \in backdated'
                      \/ ~Covered(k, stamp'[now + 1])
           /\ \A v \in Times : v \in 1..now' <=> stamp'[v] # 0
           /\ \A v \in backdated' : v <= now'
<1> USE DEF IInv
<1>1. ASSUME NEW d \in Docs, SourceDelete(c, d)
      PROVE  /\ UNCHANGED <<now, stamp, backdated>>
             /\ \A k \in Connectors, e \in Docs :
                  src'[k][e] = src[k][e] \/ src'[k][e] = 0
  BY <1>1 DEF SourceDelete, TypeOK
<1>2. ASSUME NEW d \in Docs, NEW t \in Times \ {0}, SourceUpdate(c, d, t)
      PROVE  /\ now' = now + 1 /\ now + 1 \in Times
             /\ \A v \in Times :
                  stamp'[v] = IF v = now + 1 THEN t ELSE stamp[v]
             /\ backdated' = backdated \cup
                               (IF Covered(c, t) THEN {now + 1} ELSE {})
             /\ \A k \in Connectors, e \in Docs :
                  src'[k][e] = IF k = c /\ e = d THEN now + 1 ELSE src[k][e]
  <2>1. now + 1 \in Times
    BY <1>2, SyncerAssumption DEF SourceUpdate, TypeOK, Times
  <2> QED
    BY <1>2, <2>1 DEF SourceUpdate, TypeOK
<1>3. now \in Times
  BY DEF TypeOK
<1>4. CASE \E d \in Docs : SourceDelete(c, d)
  BY <1>1, <1>4 DEF InTime
<1>5. CASE \E d \in Docs : \E t \in Times \ {0} : SourceUpdate(c, d, t)
  <2>1. PICK d \in Docs, t \in Times \ {0} : SourceUpdate(c, d, t)
    BY <1>5
  <2>2. \A v \in Times : v <= now => v # now + 1
    BY <1>3 DEF Times
  <2>3. \A v \in Times : v \in 1..(now + 1) <=> v \in 1..now \/ v = now + 1
    BY <1>3 DEF Times
  <2>4. \A v \in backdated : v <= now + 1
    BY <1>3 DEF InTime, TypeOK, Times
  <2>5. now + 1 <= now + 1
    BY <1>3 DEF Times
  <2>6. \A v \in Times : v \in 1..now' <=> stamp'[v] # 0
    BY <1>2, <2>1, <2>3 DEF InTime
  <2> QED
    BY <1>2, <2>1, <2>2, <2>4, <2>5, <2>6
<1> QED
  BY <1>4, <1>5 DEF Source

\* A change at the source is newer than every version stored, and its update
\* time is past every waterline and every window, unless it is backdated.
LEMMA SourceStep ==
    ASSUME IInv, TypeOK', NEW c \in Connectors, Source(c)
    PROVE  IInv'
<1> USE DEF IInv
<1>1. /\ UNCHANGED <<start, marks, idx>> /\ UNCHANGED workVars
  BY DEF Source, SourceUpdate, SourceDelete, dbVars
<1>2. /\ now \in Times /\ now' \in Times /\ now <= now' /\ now' <= now'
      /\ \A v \in Times : v <= now => v <= now'
  BY SourceChange DEF TypeOK, Times
<1>3. LockHeld' /\ ConnectorSerialized'
  BY <1>1 DEF LockHeld, ConnectorSerialized, workVars
<1>4. /\ \A k \in Connectors, d \in Docs :
           src[k][d] \in Times /\ src'[k][d] \in Times /\ src[k][d] <= now
      /\ \A l \in Links, d \in Docs : idx[l][d] \in Times /\ idx[l][d] <= now
  BY DEF TypeOK, InTime
<1>5. InTime'
  <2>1. \A k \in Connectors, d \in Docs : src'[k][d] <= now'
    <3> SUFFICES ASSUME NEW k \in Connectors, NEW d \in Docs
                 PROVE  src'[k][d] <= now'
      OBVIOUS
    <3>1. \/ src'[k][d] = src[k][d] \/ src'[k][d] = 0
          \/ src'[k][d] = now + 1 /\ now' = now + 1
      BY SourceChange
    <3> QED
      BY <1>2, <1>4, <3>1 DEF Times
  <2>2. \A l \in Links, d \in Docs : idx'[l][d] <= now'
    BY <1>1, <1>2, <1>4
  <2> QED
    BY <2>1, <2>2, SourceChange DEF InTime
<1>6. StartsMarked'
  BY <1>1 DEF StartsMarked
\* A version that is there and not backdated, after the step.
<1>7. ASSUME NEW k \in Connectors, NEW d \in Docs, src'[k][d] # 0,
             src'[k][d] \notin backdated'
      PROVE  \/ /\ src'[k][d] = src[k][d] /\ src[k][d] \notin backdated
                /\ stamp'[src'[k][d]] = stamp[src[k][d]]
             \/ src'[k][d] = now + 1 /\ ~Covered(k, stamp'[src'[k][d]])
  BY <1>4, <1>7, SourceChange
<1>8. MarksSound'
  <2> SUFFICES ASSUME NEW l \in Links, ConnOf[l] \in Exact, NEW m \in marks[l]
               PROVE  m <= now' /\ Sound(l, m)'
    BY <1>1 DEF MarksSound, Sound
  <2>1. m <= now /\ m \in Times /\ Sound(l, m)
    BY DEF MarksSound, TypeOK
  <2>2. ConnOf[l] \in Connectors
    BY SyncerAssumption
  <2>3. ASSUME NEW d \in Docs, src'[ConnOf[l]][d] # 0,
               src'[ConnOf[l]][d] \notin backdated',
               stamp'[src'[ConnOf[l]][d]] <= m
        PROVE  idx[l][d] = src'[ConnOf[l]][d]
    BY <1>7, <2>1, <2>2, <2>3 DEF Sound, Covered
  <2> QED
    BY <1>1, <1>2, <2>1, <2>3 DEF Sound
<1>9. ASSUME NEW w \in Workers
      PROVE  WorkerOK(w)'
  <2> DEFINE k == ConnectorOf(wid[w])
  <2>1. CASE wpc[w] \notin InRunner
    BY <1>1, <2>1, Outer DEF workVars
  <2>2. CASE wpc[w] \in InRunner
    <3>1. Same(w) /\ WorkerOK(w)
      BY <1>1 DEF Same, workVars, runVars
    <3>2. /\ wid[w] \in Ids /\ k \in Connectors /\ wend[w] \in Times
          /\ \A d \in Docs : view[w][d] \in Times /\ pend[w][d] \in Times
      <4>1. wid[w] \in Ids
        BY <2>2 DEF TypeOK, InRunner
      <4>2. k \in Connectors
        BY <4>1, IdParts
      <4> QED
        BY <4>1, <4>2 DEF TypeOK
    <3>3. wend[w] <= now
      BY <2>2, <3>1 DEF WorkerOK, ViewOK
    <3>4. ASSUME NEW d \in Docs
          PROVE  \/ /\ src'[k][d] = src[k][d]
                    /\ Changed(w, d)' <=> Changed(w, d)
                 \/ Changed(w, d)'
      <4>1. \/ src'[k][d] = src[k][d] \/ src'[k][d] = 0
            \/ src'[k][d] = now + 1
        BY <3>2, SourceChange
      <4> QED
        BY <1>2, <3>1, <3>2, <3>3, <4>1 DEF Changed, Same, Times
    <3>5. ViewOK(w)'
      <4>1. wend[w] <= now' /\ \A d \in Docs : pend[w][d] <= now'
        BY <1>2, <2>2, <3>1, <3>2 DEF WorkerOK, ViewOK
      <4> QED
        BY <2>2, <3>1, <3>4, <4>1 DEF WorkerOK, ViewOK, Same
    <3>6. PruneOK(w)'
      BY <1>1, <2>2, <3>1, <3>4 DEF WorkerOK, PruneOK, Same
    <3>7. SyncOK(w)'
      <4> SUFFICES ASSUME TypeOf(wid[w]) = "sync", k \in Exact
                   PROVE  SyncOK(w)'
        BY <3>1 DEF SyncOK, Same
      <4>1. ASSUME NEW d \in Docs
            PROVE  \/ Outside(w, d)'
                   \/ /\ src'[k][d] = src[k][d]
                      /\ stamp'[src'[k][d]] = stamp[src[k][d]]
                      /\ ~Outside(w, d)
        <5> SUFFICES ASSUME src'[k][d] # 0, src'[k][d] \notin backdated'
                     PROVE  \/ Outside(w, d)'
                            \/ /\ src'[k][d] = src[k][d]
                               /\ stamp'[src'[k][d]] = stamp[src[k][d]]
                               /\ ~Outside(w, d)
          BY <3>1 DEF Outside, Same
        <5>1. CASE /\ src'[k][d] = src[k][d] /\ src[k][d] \notin backdated
                   /\ stamp'[src'[k][d]] = stamp[src[k][d]]
          BY <3>1, <5>1 DEF Outside, Same
        <5>2. CASE ~Covered(k, stamp'[src'[k][d]])
          <6>1. ~(stamp'[src'[k][d]] <= wend[w])
            BY <2>2, <5>2 DEF Covered
          <6>2. stamp'[src'[k][d]] \in Times
            BY <1>4, <3>2 DEF TypeOK
          <6> QED
            BY <3>1, <3>2, <6>1, <6>2 DEF Outside, Same, Times
        <5> QED
          BY <1>7, <3>2, <5>1, <5>2
      <4>2. \A d \in Docs : Changed(w, d)' => Outside(w, d)'
        <5> SUFFICES ASSUME NEW d \in Docs, Changed(w, d)', ~Outside(w, d)'
                     PROVE  FALSE
          OBVIOUS
        <5>1. src'[k][d] = src[k][d] /\ ~Outside(w, d)
          BY <4>1
        <5>2. Changed(w, d)
          BY <3>1, <5>1 DEF Changed, Same
        <5> QED
          BY <2>2, <3>1, <5>1, <5>2 DEF WorkerOK, SyncOK
      <4> QED
        BY <1>1, <2>2, <3>1, <4>1, <4>2 DEF WorkerOK, SyncOK, Same
    <3> QED
      BY <3>5, <3>6, <3>7 DEF WorkerOK
  <2> QED
    BY <2>1, <2>2
<1> QED
  BY <1>3, <1>5, <1>6, <1>8, <1>9

\* No worker is in a runner once the process is gone, nor when it starts.
LEMMA ProcessStep ==
    ASSUME IInv, TypeOK', Process
    PROVE  IInv'
<1> USE DEF IInv
<1>1. CASE Stop
  BY <1>1, QuietStep DEF Stop, dbVars, dataVars, srcVars, stores
<1>2. CASE Stopped \/ Crash \/ StartContext
  <2>1. /\ UNCHANGED stores
        /\ \A w \in Workers : wpc'[w] \notin Executing \cup InRunner
    BY <1>2
    DEF Stopped, Crash, Gone, StartContext, dbVars, dataVars, srcVars, stores,
        Executing, InRunner
  <2>2. LockHeld' /\ ConnectorSerialized'
    BY <2>1 DEF LockHeld, ConnectorSerialized
  <2>3. InTime' /\ StartsMarked' /\ MarksSound'
    BY <2>1, StoresKept
  <2>4. \A w \in Workers : WorkerOK(w)'
    BY <2>1, Outer
  <2> QED
    BY <2>2, <2>3, <2>4
<1> QED
  BY <1>1, <1>2 DEF Process

LEMMA WorkerStep ==
    ASSUME IInv, TypeOK', NEW w \in Workers, Worker(w)
    PROVE  IInv'
<1>1. CASE Receive(w) \/ GetContextError(w) \/ Busy(w) \/ WorkerExit(w)
  <2>1. /\ OthersSame(w) /\ UNCHANGED stores /\ lock' = lock
        /\ wpc'[w] \in {"lock", "idle", "off"}
    BY <1>1
    DEF Receive, GetContextError, Busy, WorkerExit, Return, Goto, OthersSame,
        Same, IInv, TypeOK, dbVars, dataVars, srcVars, runVars, stores,
        RescheduleClaimed, FailTaskOnly
  <2> QED
    BY <2>1, MoveStep DEF InRunner, Executing
<1>2. CASE ExecuteError(w) \/ HandleError(w)
  <2>1. /\ OthersSame(w) /\ UNCHANGED stores /\ lock' = lock /\ wid' = wid
        /\ wpc[w] \in Executing /\ wpc'[w] \in {"fail", "unlock"}
    BY <1>2
    DEF ExecuteError, HandleError, Discard, Goto, OthersSame, Same, IInv,
        TypeOK, dbVars, dataVars, srcVars, runVars, stores, RescheduleClaimed,
        FailTask, Executing
  <2> QED
    BY <2>1, MoveStep DEF InRunner, Executing
<1>3. CASE Unlock(w)
  <2>1. /\ OthersSame(w) /\ UNCHANGED stores
        /\ lock' = lock \ {ConnectorOf(wid[w])}
        /\ wpc[w] \in Executing /\ wpc'[w] = "idle"
    BY <1>3
    DEF Unlock, Return, Goto, OthersSame, Same, IInv, TypeOK, dbVars, dataVars,
        srcVars, runVars, stores, Executing
  <2> QED
    BY <2>1, MoveStep DEF InRunner, Executing
<1> QED
  BY <1>1, <1>2, <1>3, TryLockStep, NextBatchStep, SnapshotBatchStep,
     UpsertStep, ItemErrorStep, DeleteDocumentStep, BatchDoneStep,
     CompleteSyncStep, ListIDsStep, CompletePruneStep DEF Worker

LEMMA NextInv == IInv /\ [Next]_vars => IInv'
<1> SUFFICES ASSUME IInv, [Next]_vars PROVE IInv'
  OBVIOUS
<1>1. TypeOK'
  BY NextTyped DEF IInv
<1>2. CASE UNCHANGED vars
  <2>1. UNCHANGED stores /\ UNCHANGED workVars
    BY <1>2 DEF vars, dbVars, dataVars, srcVars, runVars, stores, workVars
  <2> QED
    BY <1>1, <2>1, QuietStep
<1>3. CASE Scheduler \/ ScanError \/ \E i \in Ids : Timeout(i)
  <2>1. UNCHANGED stores /\ UNCHANGED workVars
    BY <1>3
    DEF Scheduler, ScanError, Timeout, RecoverStaleRunning, Recover,
        ListDueTasks, Claim, MarkConnectorRunning, Enqueue, SchedulerExit,
        rowVars, dbVars, dataVars, srcVars, stores
  <2> QED
    BY <1>1, <2>1, QuietStep
<1>4. CASE \E w \in Workers : Worker(w)
  BY <1>1, <1>4, WorkerStep
<1>5. ASSUME NEW c \in Connectors, Api(c)
      PROVE  IInv'
  <2>1. CASE CancelTasks(c) \/ CancelConnector(c) \/ ApiError(c)
    <3>1. UNCHANGED stores /\ UNCHANGED workVars
      BY <2>1
      DEF CancelTasks, CancelConnector, ApiError, rowVars, dbVars, dataVars,
          srcVars, stores
    <3> QED
      BY <1>1, <3>1, QuietStep
  <2> QED
    BY <1>1, <1>5, <2>1, ScheduleStep DEF Api
<1>6. CASE \E c \in Connectors : Source(c)
  BY <1>1, <1>6, SourceStep
<1>7. CASE Process
  BY <1>1, <1>7, ProcessStep
<1> QED
  BY <1>2, <1>3, <1>4, <1>5, <1>6, <1>7 DEF Next

LEMMA InvHolds == Spec => []IInv
BY InitInv, NextInv, PTL DEF Spec

-----------------------------------------------------------------------------
(* The theorems.                                                           *)

\* Every variable of the syncer keeps its type.
THEOREM SyncerTypes == Spec => []TypeOK
BY InitTyped, NextTyped, PTL DEF Spec

\* ConnectorLock serializes the tasks of a connector, whatever the scheduler,
\* the API and restarts do to their rows.
THEOREM SyncerSerialized == Spec => []ConnectorSerialized
<1>1. IInv => ConnectorSerialized
  BY DEF IInv
<1> QED
  BY <1>1, InvHolds, PTL

\* Of connectors with exact sessions, the waterline never passes a change of
\* the source that is not stored, unless its update time had been passed when
\* it was made: for every number of workers, documents, failures and restarts,
\* and whatever the sessions of the other connectors return.
THEOREM SyncerMissesNothing == Spec => []NoUpdateMissed
<1>1. IInv => NoUpdateMissed
  <2> SUFFICES ASSUME IInv, NEW l \in Links, NEW d \in Docs,
                      ConnOf[l] \in Exact, src[ConnOf[l]][d] # 0,
                      src[ConnOf[l]][d] \notin backdated,
                      NEW m \in Waterlines(l), stamp[src[ConnOf[l]][d]] <= m
               PROVE  idx[l][d] = src[ConnOf[l]][d]
    BY DEF NoUpdateMissed
  <2>1. m \in marks[l] \/ m = 0
    <3>1. ASSUME NEW i \in Ids, i[1] = l, i[2] = "sync"
          PROVE  start[i] \in marks[l] \cup {0}
      BY <3>1 DEF IInv, StartsMarked, LinkOf, TypeOf
    <3> QED
      BY <3>1 DEF Waterlines
  <2>2. m # 0
    <3>1. stamp[src[ConnOf[l]][d]] \in Times /\ stamp[src[ConnOf[l]][d]] > 0
      BY SyncerAssumption, Stamped
    <3> QED
      BY <3>1 DEF Times
  <2> QED
    BY <2>1, <2>2 DEF IInv, MarksSound, Sound
<1> QED
  BY <1>1, InvHolds, PTL

\* Of connectors with exact sessions, a PRUNE deletes only what the source no
\* longer has in that form, whatever update times it reports.
THEOREM SyncerPruneSafe == Spec => PruneKeepsLive
<1> DEFINE Safe == \A l \in Links, d \in Docs :
                     ConnOf[l] \in Exact /\ idx[l][d] # 0 /\ idx'[l][d] = 0
                         => idx[l][d] # src[ConnOf[l]][d]
<1>1. IInv /\ [Next]_vars => [Safe]_vars
  <2> SUFFICES ASSUME IInv, Next, NEW l \in Links, NEW d \in Docs,
                      ConnOf[l] \in Exact, idx[l][d] # 0, idx'[l][d] = 0
               PROVE  idx[l][d] # src[ConnOf[l]][d]
    BY DEF Safe
  <2>1. PICK w \in Workers, e \in Docs : Upsert(w, e) \/ DeleteDocument(w, e)
    <3>1. idx' # idx
      OBVIOUS
    <3> QED
      BY <3>1
      DEF Next, Scheduler, ScanError, Timeout, RecoverStaleRunning,
          ListDueTasks, Claim, MarkConnectorRunning, Enqueue, SchedulerExit,
          Worker, Receive, GetContextError, TryLock, Busy, ExecuteError,
          HandleError, Unlock, WorkerExit, NextBatch, SnapshotBatch, ItemError,
          BatchDone, CompleteSync, ListIDs, CompletePrune, Api, CancelTasks,
          CancelConnector, ScheduleConnectorTasks, ApiError, Source,
          SourceUpdate, SourceDelete, Process, Stop, Stopped, Crash, Gone,
          StartContext, dataVars, srcVars
  <2>2. wid[w] \in Ids /\ wpc[w] \in InRunner
    BY <2>1 DEF Upsert, DeleteDocument, IInv, TypeOK, InRunner
  <2>3. LinkOf(wid[w]) \in Links /\ ConnectorOf(wid[w]) = ConnOf[LinkOf(wid[w])]
    BY <2>2, IdParts
  <2>4. DeleteDocument(w, e) /\ l = LinkOf(wid[w]) /\ d = e
    BY <2>1, <2>3 DEF Upsert, DeleteDocument, IInv, TypeOK
  <2>5. Changed(w, d) /\ idx[l][d] <= wend[w]
    <3>1. wpc[w] = "prune" /\ d \in keep[w]
      BY <2>4 DEF DeleteDocument
    <3>2. WorkerOK(w)
      BY DEF IInv
    <3> QED
      BY <2>2, <2>3, <2>4, <3>1, <3>2 DEF WorkerOK, ViewOK, PruneOK
  <2>6. /\ idx[l][d] \in Times /\ wend[w] \in Times
        /\ src[ConnOf[l]][d] \in Times
    BY SyncerAssumption DEF IInv, TypeOK
  <2> QED
    BY <2>3, <2>4, <2>5, <2>6 DEF Changed, Times
<1> QED
  BY <1>1, InvHolds, PTL DEF Spec, PruneKeepsLive
=============================================================================
