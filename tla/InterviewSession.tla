-------------------------- MODULE InterviewSession --------------------------
(***************************************************************************)
(* What one interview session promises to the candidate, without           *)
(* operations, workers and transactions: the session and round state       *)
(* machines of api/apps/services/cs_interview/domain.py with the question  *)
(* and follow-up budgets.  Every committed transaction of InterviewFlow is *)
(* one step of this specification.                                         *)
(*                                                                         *)
(* A session is observed from its creation or from its first question, the *)
(* state in which a start operation that is no longer of interest left it. *)
(***************************************************************************)
EXTENDS Naturals

CONSTANTS
    MaxQuestions,   \* max_questions of the session
    MaxFollowups    \* max_followups of the session

\* What the proofs need of the budgets.
Budgets ==
    /\ MaxQuestions \in Nat \ {0}
    /\ MaxFollowups \in Nat

VARIABLES
    phase,      \* InterviewSession.status
    question,   \* status of the active InterviewRound, or "none"
    asked,      \* current_round_sequence
    done,       \* completed_question_count
    followups   \* followup_count of the active round

sessionVars == <<phase, question, asked, done, followups>>

(* The tables SESSION_TRANSITIONS and ROUND_TRANSITIONS, as actions. *)
Phases     == {"created", "preparing_question", "awaiting_answer", "evaluating",
               "completed", "failed", "aborted"}
Closed     == {"completed", "failed", "aborted"}
Answerable == {"awaiting_answer", "awaiting_followup"}
Questions  == Answerable \cup {"evaluating", "none"}

NoQuestion == question' = "none" /\ followups' = 0

SessionInit ==
    /\ done = 0 /\ followups = 0
    /\ \/ phase = "created" /\ question = "none" /\ asked = 0
       \/ phase = "awaiting_answer" /\ question = "awaiting_answer" /\ asked = 1

Start == /\ phase = "created"
         /\ phase' = "preparing_question"
         /\ UNCHANGED <<question, asked, done, followups>>

Ask == /\ phase = "preparing_question"
       /\ phase' = "awaiting_answer"
       /\ question' = "awaiting_answer"
       /\ asked' = asked + 1
       /\ UNCHANGED <<done, followups>>

Answer == /\ phase = "awaiting_answer"
          /\ phase' = "evaluating"
          /\ question' = "evaluating"
          /\ UNCHANGED <<asked, done, followups>>

FollowUp == /\ phase = "evaluating"
            /\ followups < MaxFollowups
            /\ phase' = "awaiting_answer"
            /\ question' = "awaiting_followup"
            /\ followups' = followups + 1
            /\ UNCHANGED <<asked, done>>

Prepare == /\ phase = "evaluating"
           /\ phase' = "preparing_question"
           /\ done' = done + 1
           /\ done' < MaxQuestions
           /\ NoQuestion
           /\ UNCHANGED asked

Complete == /\ phase = "evaluating"
            /\ phase' = "completed"
            /\ done' = done + 1
            /\ NoQuestion
            /\ UNCHANGED asked

Fail == /\ phase \in {"preparing_question", "evaluating"}
        /\ phase' = "failed"
        /\ NoQuestion
        /\ UNCHANGED <<asked, done>>

Abort == /\ phase \notin Closed
         /\ phase' = "aborted"
         /\ NoQuestion
         /\ UNCHANGED <<asked, done>>

SessionNext == \/ Start \/ Ask \/ Answer \/ FollowUp \/ Prepare
               \/ Complete \/ Fail \/ Abort

SessionSpec == SessionInit /\ [][SessionNext]_sessionVars

-----------------------------------------------------------------------------
(* The candidate is asked one question at a time, within both budgets, and *)
(* exactly while the session waits for or evaluates an answer.             *)
SessionConsistent ==
    /\ phase \in Phases
    /\ question \in Questions
    /\ followups \in 0 .. MaxFollowups
    /\ asked \in 0 .. MaxQuestions
    /\ phase = "awaiting_answer" <=> question \in Answerable
    /\ phase = "evaluating" <=> question = "evaluating"
    /\ question = "awaiting_followup" => followups > 0
    /\ done \in 0 .. MaxQuestions
    /\ asked = done \/ asked = done + 1
    /\ phase \in {"created", "preparing_question"} => asked = done /\ done < MaxQuestions
    /\ phase = "completed" => asked = done
    /\ phase \in {"awaiting_answer", "evaluating"} => asked = done + 1
=============================================================================
