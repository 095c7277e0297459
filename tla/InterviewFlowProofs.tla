------------------------ MODULE InterviewFlowProofs -------------------------
(***************************************************************************)
(* Proofs about the session flow, for every number of operations, workers, *)
(* attempts, questions and follow-ups: the flow is an implementation of    *)
(* the operation queue, and an ended session is never touched again.       *)
(***************************************************************************)
EXTENDS InterviewFlow, InterviewOperationProofs

-----------------------------------------------------------------------------
(* The queue underneath.                                                   *)

(* A step of a worker in the flow is a step of that worker in the queue or *)
(* leaves the queue alone.                                                 *)
LEMMA WorkerStepInQueue ==
    ASSUME NEW w \in Workers, Transaction(w) \/ FailInterview(w) \/ QueueStep(w)
    PROVE  \/ Claim(w) \/ Body(w) \/ Guard(w) \/ Settle(w) \/ HandleFailure(w) \/ Crash(w)
           \/ UNCHANGED vars
<1>1. CASE Transaction(w)
  <2>1. ASSUME BeginStart(w) \/ BeginRestart(w) \/ BeginAnswer(w) \/ BeginRecover(w) \/ BeginResume(w)
        PROVE  Begin(w)
    BY <2>1 DEF BeginStart, BeginRestart, BeginAnswer, BeginRecover, BeginResume
  <2>2. ASSUME Refuse(w) PROVE BeginConflict(w)
    BY <2>2 DEF Refuse
  <2>3. ASSUME CommitFollowup(w) \/ CommitReport(w) \/ CommitQuestion(w) PROVE Finish(w)
    BY <2>3 DEF CommitFollowup, CommitReport, CommitQuestion
  <2>4. ASSUME ChooseFollowup(w) \/ CommitEvaluation(w) PROVE UNCHANGED vars
    BY <2>4 DEF ChooseFollowup, CommitEvaluation
  <2> QED BY <1>1, <2>1, <2>2, <2>3, <2>4 DEF Transaction, Body
<1>2. CASE FailInterview(w)
  BY <1>2 DEF FailInterview, HandleFailure
<1>3. CASE QueueStep(w)
  BY <1>3 DEF QueueStep, Raised, Awaiting, Body, HandleFailure
<1> QED BY <1>1, <1>2, <1>3

(* Every step of the flow is a step of the queue or leaves it alone. *)
LEMMA StepInQueue == [FlowNext]_allVars => [Next]_vars
<1> SUFFICES ASSUME [FlowNext]_allVars PROVE [Next]_vars
  OBVIOUS
<1>1. ASSUME NEW o \in Ops, Elapse(o) \/ \E q \in offered, a \in Answers \cup {NoAnswer} : Submit(o, q, a)
      PROVE  Next
  BY <1>1 DEF Elapse, Submit, Next
<1>2. CASE AbortSession
  BY <1>2 DEF AbortSession, Next
<1>3. ASSUME NEW w \in Workers, Transaction(w) \/ FailInterview(w) \/ QueueStep(w)
      PROVE  Next \/ UNCHANGED vars
  BY <1>3, WorkerStepInQueue DEF Next
<1>4. CASE UNCHANGED allVars
  BY <1>4 DEF allVars, vars
<1> QED BY <1>1, <1>2, <1>3, <1>4 DEF FlowNext

(* The flow implements the queue: adding the session, its transactions and *)
(* its failures to the workers changes nothing the queue promises.         *)
THEOREM FlowImplementsQueue == FlowSpec => Spec
<1>1. FlowInit => Init
  BY DEF FlowInit
<1> QED BY <1>1, StepInQueue, PTL DEF FlowSpec, Spec

(* Fencing, event order and completion hold of the queue that drives the   *)
(* session.                                                                *)
THEOREM FlowInvariant == FlowSpec => []IInv
BY FlowImplementsQueue, Invariant, PTL

-----------------------------------------------------------------------------
(* Ended sessions.                                                         *)

Ended == session.status \in {"completed", "failed", "aborted"}

(* transition() admits no status after an ended one. *)
LEMMA NoWriteAfterEnd ==
    ASSUME Ended, NEW s, NEW rs, Write(s, rs)
    PROVE  FALSE
BY DEF Ended, Write, SESSION_TRANSITIONS

(* No step of the flow writes to an ended session or to its rounds. *)
LEMMA EndedUntouched ==
    ASSUME Ended, [FlowNext]_allVars
    PROVE  UNCHANGED <<session, rounds>>
<1>1. ASSUME NEW o \in Ops, Elapse(o) \/ \E q \in offered, a \in Answers \cup {NoAnswer} : Submit(o, q, a)
      PROVE  UNCHANGED <<session, rounds>>
  BY <1>1 DEF Elapse, Submit, SameSession, flowVars
<1>2. ASSUME AbortSession PROVE FALSE
  BY <1>2, NoWriteAfterEnd DEF AbortSession
<1>3. ASSUME NEW w \in Workers, Transaction(w) PROVE UNCHANGED <<session, rounds>>
  <2>1. ASSUME BeginStart(w) \/ BeginAnswer(w) PROVE FALSE
    BY <2>1, NoWriteAfterEnd DEF BeginStart, BeginAnswer
  <2>2. ASSUME CommitFollowup(w) \/ CommitEvaluation(w) PROVE FALSE
    BY <2>2, NoWriteAfterEnd DEF CommitFollowup, CommitEvaluation
  <2>3. ASSUME CommitReport(w) \/ CommitQuestion(w) PROVE FALSE
    BY <2>3, NoWriteAfterEnd DEF CommitReport, CommitQuestion
  <2>4. ASSUME BeginRestart(w) \/ BeginRecover(w) \/ BeginResume(w) \/ Refuse(w) \/ ChooseFollowup(w)
        PROVE  UNCHANGED <<session, rounds>>
    BY <2>4 DEF BeginRestart, BeginRecover, BeginResume, Refuse, ChooseFollowup, SameSession
  <2> QED BY <1>3, <2>1, <2>2, <2>3, <2>4 DEF Transaction
<1>4. ASSUME NEW w \in Workers, FailInterview(w) PROVE UNCHANGED <<session, rounds>>
  BY <1>4, NoWriteAfterEnd DEF FailInterview, FailSession, SameSession
<1>5. ASSUME NEW w \in Workers, QueueStep(w) PROVE UNCHANGED <<session, rounds>>
  BY <1>5 DEF QueueStep, SameSession
<1>6. CASE UNCHANGED allVars
  BY <1>6 DEF allVars
<1> QED BY <1>1, <1>2, <1>3, <1>4, <1>5, <1>6 DEF FlowNext

(* A completed, failed or aborted session stays as it ended: no stale body, *)
(* late failure or second abort revives it or adds to it.                   *)
THEOREM EndIsFinal == FlowSpec => EndedIsFrozen
<1>1. [FlowNext]_allVars => [Ended => UNCHANGED <<session, rounds>>]_allVars
  BY EndedUntouched
<1> QED BY <1>1, PTL DEF FlowSpec, EndedIsFrozen, Ended
=============================================================================
