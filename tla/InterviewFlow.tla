--------------------------- MODULE InterviewFlow ----------------------------
(***************************************************************************)
(* One interview session driven by the durable operations of               *)
(* InterviewOperation: the rows of InterviewSession and InterviewRound, the *)
(* API that checks the session before it creates an operation, and the     *)
(* bodies start_events and answer_events of                                *)
(* api/apps/services/cs_interview/service.py, one action per transaction.  *)
(*                                                                         *)
(* Every action is an action of InterviewOperation with its effect on the  *)
(* session, or leaves the queue alone.  What the models, the planner and   *)
(* the judge decide is a nondeterministic choice within the budgets.       *)
(*                                                                         *)
(* A transaction reads the session and writes it back under its            *)
(* state_version (InterviewSessionRepository.transition), so it is one     *)
(* step, or it raises state_conflict and is rolled back.                   *)
(***************************************************************************)
EXTENDS InterviewOperation

CONSTANTS
    Answers,        \* the texts a candidate submits
    NoAnswer,       \* the payload of a start operation has no answer
    MaxQuestions,   \* max_questions of the session
    MaxFollowups    \* max_followups of the session

ASSUME FlowAssumption ==
    /\ MaxQuestions \in Nat \ {0}
    /\ MaxFollowups \in Nat
    /\ NoAnswer \notin Answers

VARIABLES
    session,   \* the InterviewSession row, with its InterviewReport
    rounds,    \* the InterviewRound rows, by sequence
    payload,   \* InterviewOperation.payload
    offered,   \* history: what the API showed, with its state_version
    body       \* locals of the body each worker executes

flowVars == <<session, rounds, payload, offered, body>>
allVars  == <<op, request, log, committed, worker, session, rounds, payload, offered, body>>

-----------------------------------------------------------------------------
(* Rows.                                                                   *)

TransitionsMutant ==
    [created            |-> {"preparing_question", "aborted"},
     preparing_question |-> {"awaiting_answer", "failed", "aborted"},
     awaiting_answer    |-> {"evaluating", "aborted"},
     evaluating         |-> {"awaiting_answer", "preparing_question", "completed", "failed", "aborted"},
     failed             |-> {"aborted"},
     completed          |-> {},
     aborted            |-> {}]

SESSION_TRANSITIONS ==
    [created            |-> {"preparing_question", "aborted"},
     preparing_question |-> {"awaiting_answer", "failed", "aborted"},
     awaiting_answer    |-> {"evaluating", "aborted"},
     evaluating         |-> {"awaiting_answer", "preparing_question", "completed", "failed", "aborted"},
     failed             |-> {},
     completed          |-> {},
     aborted            |-> {}]

SessionStatuses == DOMAIN SESSION_TRANSITIONS

(* A round is committed as awaiting_answer: create_round and the transition *)
(* from "preparing" are one transaction.                                    *)
Answerable    == {"awaiting_answer", "awaiting_followup"}
RoundStatuses == Answerable \cup {"evaluating", "completed", "failed"}

NewRound == [status |-> "awaiting_answer", active |-> TRUE, followups |-> 0, answers |-> <<>>]

FreshSession == [status |-> "created", version |-> 0, asked |-> 0, done |-> 0,
                 report |-> FALSE]

AskedSession == [FreshSession EXCEPT !.status = "awaiting_answer", !.version = 2, !.asked = 1]

Actives == {i \in DOMAIN rounds : rounds[i].active}
Active  == CHOOSE i \in Actives : TRUE

(* The session evaluates an answer to its active round. *)
StillEvaluating == /\ session.status = "evaluating"
                   /\ Actives # {}
                   /\ rounds[Active].status = "evaluating"

Last(s) == s[Len(s)]

(* InterviewSessionRepository.transition *)
Moved(s) == [session EXCEPT !.status = s, !.version = @ + 1]

(* transition_round: a terminal status takes the active guard away. *)
MovedRound(s) == [rounds EXCEPT ![Active].status = s, ![Active].active = s \notin {"completed", "failed"}]

FailedActiveMutant == [i \in DOMAIN rounds |->
    IF rounds[i].active THEN [rounds[i] EXCEPT !.status = "failed"] ELSE rounds[i]]

(* The rounds after the active one, whatever its status, became failed. *)
FailedActive == [i \in DOMAIN rounds |->
    IF rounds[i].active THEN [rounds[i] EXCEPT !.status = "failed", !.active = FALSE]
                        ELSE rounds[i]]

(* What a client may act on: the session as the API last showed it, ready   *)
(* to start or waiting for the answer to a question.                       *)
Offer(k, s, f) == [kind |-> k, version |-> s.version, asked |-> s.asked, followups |-> f]

Offers(k) == [kind : {k}, version : Nat, asked : 0 .. MaxQuestions, followups : 0 .. MaxFollowups]

Shown(s, rs) == CASE s.status = "created"         -> {Offer("start", s, 0)}
                  [] s.status = "awaiting_answer" -> {Offer("answer", s, rs[s.asked].followups)}
                  [] OTHER                        -> {}

(* A transaction writes the session and its rounds; require_transition      *)
(* admits the new status.                                                   *)
Write(s, rs) ==
    /\ s.status \in SESSION_TRANSITIONS[session.status]
    /\ session' = s
    /\ rounds' = rs
    /\ offered' = offered \cup Shown(s, rs)

NoPayload == [offer |-> Offer("none", FreshSession, 0), answer |-> NoAnswer]

Stages == {"none", "question", "evaluate", "followup", "next", "resume", "broken"}
NoBody == [stage |-> "none", done |-> 0, followups |-> 0]

FlowInit ==
    /\ Init
    /\ \/ session = FreshSession /\ rounds = <<>>
       \/ session = AskedSession /\ rounds = <<NewRound>>
    /\ offered = Shown(session, rounds)
    /\ payload = [o \in Ops |-> NoPayload]
    /\ body = [w \in Workers |-> NoBody]

(* The locals of a body end with it. *)
KeepBodies == body' = [w \in Workers |-> IF worker'[w].pc = "await" THEN body[w] ELSE NoBody]

Enter(w, st) ==
    body' = [body EXCEPT ![w] = [stage |-> st, done |-> session.done,
                                 followups |-> IF Actives = {} THEN 0 ELSE rounds[Active].followups]]

In(w, S) == At(w, "await") /\ body[w].stage \in S

Task(w) == payload[worker[w].op]

SameSession == UNCHANGED <<session, rounds, offered>>

-----------------------------------------------------------------------------
(* The API.                                                                *)

(* start_session and submit_answer: the handler reads the session, compares *)
(* status and state_version with what the client sent, and creates the      *)
(* operation; the session may change between the two.                       *)
Submit(o, q, a) ==
    /\ q.kind = "start" <=> a = NoAnswer
    /\ Create(o)
    /\ payload' = [payload EXCEPT ![o] = [offer |-> q, answer |-> a]]
    /\ SameSession
    /\ UNCHANGED body

(* abort_session, one transaction: InterviewSessionRepository.abort and    *)
(* cancel_session.                                                         *)
AbortSession ==
    /\ session.status \notin {"completed", "aborted"}
    /\ CancelSession
    /\ Write(Moved("aborted"), FailedActive)
    /\ UNCHANGED <<payload, body>>

-----------------------------------------------------------------------------
(* The first transaction of a body.                                        *)

(* start_events *)
CanStart(w)   == Task(w).offer.kind = "start" /\ session.status = "created"
CanRestart(w) == Task(w).offer.kind = "start" /\ session.status = "preparing_question"

(* answer_events *)
CanAnswerMutant(w) == Task(w).offer.kind = "answer" /\ session.status = "awaiting_answer"

CanAnswer(w) == /\ Task(w).offer.kind = "answer"
                /\ session.status = "awaiting_answer"
                /\ session.version = Task(w).offer.version
                /\ Actives # {} /\ rounds[Active].status \in Answerable

CanRecover(w) == /\ Task(w).offer.kind = "answer"
                 /\ StillEvaluating
                 /\ rounds[Active].answers # <<>>
                 /\ Last(rounds[Active].answers).text = Task(w).answer

CanResume(w) == Task(w).offer.kind = "answer" /\ session.status = "preparing_question"

BeginStart(w) ==
    /\ Begin(w)
    /\ CanStart(w)
    /\ Write(Moved("preparing_question"), rounds)
    /\ Enter(w, "question")
    /\ UNCHANGED payload

(* The session is still preparing a question: the start is resumed. *)
BeginRestart(w) ==
    /\ Begin(w)
    /\ CanRestart(w)
    /\ Enter(w, "question")
    /\ SameSession
    /\ UNCHANGED payload

BeginAnswer(w) ==
    /\ Begin(w)
    /\ CanAnswer(w)
    /\ Write(Moved("evaluating"),
             [MovedRound("evaluating") EXCEPT
                 ![Active].answers = Append(@, [by |-> worker[w].op, text |-> Task(w).answer])])
    /\ Enter(w, "evaluate")
    /\ UNCHANGED payload

(* The session is evaluating this very answer.  answer_kind is bound on    *)
(* the path of BeginAnswer only, so the next statement raises and the body *)
(* reports evaluation_failed.                                              *)
BeginRecover(w) ==
    /\ Begin(w)
    /\ CanRecover(w)
    /\ Enter(w, "broken")
    /\ SameSession
    /\ UNCHANGED payload

(* An evaluation was committed and the next question was not: the body     *)
(* goes on with _resume_next_question.                                     *)
BeginResume(w) ==
    /\ Begin(w)
    /\ CanResume(w)
    /\ Enter(w, "resume")
    /\ SameSession
    /\ UNCHANGED payload

(* state_conflict, session_terminal or not_awaiting_answer. *)
Refuse(w) ==
    /\ BeginConflict(w)
    /\ ~(CanStart(w) \/ CanRestart(w) \/ CanAnswer(w) \/ CanRecover(w) \/ CanResume(w))
    /\ KeepBodies
    /\ SameSession
    /\ UNCHANGED payload

-----------------------------------------------------------------------------
(* The later transactions of a body.  Each reads the session again, and    *)
(* raises state_conflict unless it is still in the expected state: then    *)
(* only the BodyFails of QueueStep is left.                                    *)

ChooseFollowupMutant(w) ==
    /\ In(w, {"evaluate"})
    /\ ~IsCancelled(worker[w].op)
    /\ body[w].followups <= MaxFollowups
    /\ body' = [body EXCEPT ![w].stage = "followup"]
    /\ SameSession
    /\ UNCHANGED <<payload, vars>>

(* The judge answered and the planner asks for a follow-up; its text is    *)
(* generated next.  The budget is that of the round as it was read.        *)
ChooseFollowup(w) ==
    /\ In(w, {"evaluate"})
    /\ ~IsCancelled(worker[w].op)
    /\ body[w].followups < MaxFollowups
    /\ body' = [body EXCEPT ![w].stage = "followup"]
    /\ SameSession
    /\ UNCHANGED <<payload, vars>>

CommitFollowup(w) ==
    /\ In(w, {"followup"})
    /\ StillEvaluating
    /\ Finish(w)
    /\ Write(Moved("awaiting_answer"),
             [MovedRound("awaiting_followup") EXCEPT ![Active].followups = @ + 1])
    /\ KeepBodies
    /\ UNCHANGED payload

CommitEvaluationMutant(w) ==
    /\ In(w, {"evaluate"})
    /\ StillEvaluating
    /\ body[w].done < MaxQuestions
    /\ Write([Moved("preparing_question") EXCEPT !.done = body[w].done + 1], MovedRound("completed"))
    /\ body' = [body EXCEPT ![w].stage = "next"]
    /\ UNCHANGED <<payload, vars>>

(* The final evaluation: completed_question_count is written from the      *)
(* session as it was read.                                                 *)
CommitEvaluation(w) ==
    /\ In(w, {"evaluate"})
    /\ StillEvaluating
    /\ body[w].done + 1 < MaxQuestions
    /\ Write([Moved("preparing_question") EXCEPT !.done = body[w].done + 1], MovedRound("completed"))
    /\ body' = [body EXCEPT ![w].stage = "next"]
    /\ UNCHANGED <<payload, vars>>

(* The last question, or the planner ends the interview. *)
CommitReport(w) ==
    /\ In(w, {"evaluate"})
    /\ StillEvaluating
    /\ Finish(w)
    /\ Write([Moved("completed") EXCEPT !.done = body[w].done + 1, !.report = TRUE], MovedRound("completed"))
    /\ KeepBodies
    /\ UNCHANGED payload

(* create_round refuses a second active round. *)
CommitQuestion(w) ==
    /\ In(w, {"question", "next", "resume"})
    /\ session.status = "preparing_question"
    /\ Actives = {}
    /\ Finish(w)
    /\ Write([Moved("awaiting_answer") EXCEPT !.asked = @ + 1], Append(rounds, NewRound))
    /\ KeepBodies
    /\ UNCHANGED payload

-----------------------------------------------------------------------------
(* Failures.                                                               *)

(* _fail_session *)
FailSession ==
    IF session.status \in {"preparing_question", "evaluating"}
    THEN Write(Moved("failed"), FailedActive)
    ELSE SameSession

FailInterview(w) ==
    /\ EarlyFailSession(w) \/ LateFailSession(w)
    /\ FailSession
    /\ KeepBodies
    /\ UNCHANGED payload

(* A broken body raises before it awaits anything. *)
Raised(w) == \E e \in Errors : BodyFails(w, e) /\ (body[w].stage = "broken" => e = "retryable")

Awaiting(w) == /\ body[w].stage # "broken"
               /\ \/ EnsureActive(w) \/ Guard(w)
                  \/ \E k \in EventKinds : Emit(w, k)

(* Steps of the queue that leave the session alone. *)
QueueStep(w) ==
    /\ \/ Claim(w) \/ Settle(w) \/ Replay(w) \/ Crash(w)
       \/ \E e \in {"fatal", "pipeline"} : BeginFailed(w, e)
       \/ Raised(w) \/ Awaiting(w)
       \/ FailRequest(w) \/ Decide(w) \/ Retry(w) \/ LogError(w) \/ LogErrorLost(w)
       \/ Fail(w) \/ CancelRunning(w) \/ SettleRequest(w)
    /\ KeepBodies
    /\ SameSession
    /\ UNCHANGED payload

Transaction(w) == \/ BeginStart(w) \/ BeginRestart(w) \/ BeginAnswer(w) \/ BeginRecover(w)
                  \/ BeginResume(w) \/ Refuse(w) \/ ChooseFollowup(w) \/ CommitFollowup(w)
                  \/ CommitEvaluation(w) \/ CommitReport(w) \/ CommitQuestion(w)

Elapse(o) == Time(o) /\ UNCHANGED flowVars

FlowNext == \/ \E o \in Ops : \/ Elapse(o)
                              \/ \E q \in offered, a \in Answers \cup {NoAnswer} : Submit(o, q, a)
            \/ AbortSession
            \/ \E w \in Workers : Transaction(w) \/ FailInterview(w) \/ QueueStep(w)

FlowSpec == FlowInit /\ [][FlowNext]_allVars

-----------------------------------------------------------------------------
(* Properties.                                                             *)

(* Rows and locals have their declared shape, and both budgets hold: no    *)
(* session asks or counts more than max_questions questions, no round more *)
(* than max_followups follow-ups.                                          *)
FlowTypeOK ==
    /\ session \in [status : SessionStatuses, version : Nat, asked : 0 .. MaxQuestions,
                    done : 0 .. MaxQuestions, report : BOOLEAN]
    /\ rounds \in Seq([status : RoundStatuses, active : BOOLEAN, followups : 0 .. MaxFollowups,
                       answers : Seq([by : Ops, text : Answers])])
    /\ payload \in [Ops -> [offer : Offers("none") \cup Offers("start") \cup Offers("answer"),
                            answer : Answers \cup {NoAnswer}]]
    /\ offered \subseteq Offers("start") \cup Offers("answer")
    /\ body \in [Workers -> [stage : Stages, done : 0 .. MaxQuestions, followups : 0 .. MaxFollowups]]

(* The columns of session and rounds that different transactions write     *)
(* agree: at most one round holds the active guard and it is the last one, *)
(* its status is the one the session's status calls for, and the counters  *)
(* count the rounds.                                                       *)
RoundMatchesSession ==
    /\ \A i \in DOMAIN rounds : rounds[i].active <=> rounds[i].status \notin {"completed", "failed"}
    /\ Actives \subseteq {Len(rounds)}
    /\ session.status = "awaiting_answer" <=>
          \E i \in Actives : rounds[i].status \in Answerable
    /\ session.status = "evaluating" <=> \E i \in Actives : rounds[i].status = "evaluating"
    /\ session.asked = Len(rounds)
    /\ session.done = Cardinality({i \in DOMAIN rounds : rounds[i].status = "completed"})
    /\ session.report <=> session.status = "completed"

(* An answer is recorded for the question its candidate saw: the same      *)
(* round and the same number of follow-ups, however many operations,       *)
(* attempts and stale workers were in between; and at most once.           *)
AnswerToQuestionSeen ==
    /\ \A i \in DOMAIN rounds : \A j \in DOMAIN rounds[i].answers :
          LET o == rounds[i].answers[j].by
          IN  payload[o].offer.asked = i /\ payload[o].offer.followups = j - 1
    /\ \A i \in DOMAIN rounds : Len(rounds[i].answers) \in
          {rounds[i].followups, rounds[i].followups + 1}

(* A session that ended is never touched again: no stale body adds a round, *)
(* a report or an answer to it, or revives it.                              *)
EndedIsFrozen ==
    [][session.status \in {"completed", "failed", "aborted"} => UNCHANGED <<session, rounds>>]_allVars

(* The session protocol: every transaction is a step of InterviewSession.  *)
Protocol == INSTANCE InterviewSession WITH
    phase     <- session.status,
    question  <- IF Actives = {} THEN "none" ELSE rounds[Active].status,
    asked     <- session.asked,
    done      <- session.done,
    followups <- IF Actives = {} THEN 0 ELSE rounds[Active].followups

ImplementsSession == Protocol!SessionSpec

(* Every behaviour of the flow is a behaviour of the queue, so what        *)
(* InterviewOperationProofs proves holds here as well.                     *)
ImplementsQueue == Spec

-----------------------------------------------------------------------------
(* What documentation and tests state and the code does not keep.          *)

(* "After a crash the lease is taken over": a worker that takes over the    *)
(* evaluation its operation began can finish it.                            *)
TakeoverResumes ==
    \A w \in Workers :
        At(w, "await") /\ StillEvaluating /\ Last(rounds[Active].answers).by = worker[w].op
        => body[w].stage \in {"evaluate", "followup"}

=============================================================================
