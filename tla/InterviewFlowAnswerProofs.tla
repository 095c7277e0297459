--------------------- MODULE InterviewFlowAnswerProofs ----------------------
(***************************************************************************)
(* Every recorded answer belongs to the question its candidate saw, for    *)
(* every number of operations, workers, attempts, questions and            *)
(* follow-ups.                                                             *)
(*                                                                         *)
(* answer_events compares one number, state_version, with what the client  *)
(* sent.  That is enough because of CurrentOffers: every write of the      *)
(* session moves the version on, so an offer with the session's version    *)
(* shows the question that is still open.                                  *)
(***************************************************************************)
EXTENDS InterviewFlowSessionProofs

(* A round has one answer for its question and one for every follow-up,    *)
(* but the one it still waits for.                                         *)
Tally(i) == /\ Len(rounds[i].answers) \in {rounds[i].followups, rounds[i].followups + 1}
            /\ i = session.asked /\ session.status = "awaiting_answer" =>
                  Len(rounds[i].answers) = rounds[i].followups
            /\ i = session.asked /\ session.status = "evaluating" =>
                  Len(rounds[i].answers) = rounds[i].followups + 1

Tallies == \A i \in DOMAIN rounds : Tally(i)

(* An offer of the session's version shows the question that is open. *)
CurrentOffers ==
    \A q \in offered :
        /\ q.version <= session.version
        /\ q.kind = "answer" /\ q.version = session.version =>
              /\ session.status = "awaiting_answer"
              /\ q.asked = session.asked
              /\ q.followups = rounds[session.asked].followups

(* The operation that recorded an answer exists, so its payload is final. *)
Recorded ==
    \A i \in DOMAIN rounds : \A j \in DOMAIN rounds[i].answers :
        /\ op[rounds[i].answers[j].by].status # "absent"
        /\ payload[rounds[i].answers[j].by].offer.asked = i
        /\ payload[rounds[i].answers[j].by].offer.followups = j - 1

AnswerInv == Tallies /\ CurrentOffers /\ Recorded

-----------------------------------------------------------------------------
(* What every step keeps.                                                  *)

(* The payload of an existing operation is never written again. *)
PayloadFixed ==
    \A o \in Ops : op[o].status # "absent" =>
        op'[o].status # "absent" /\ payload'[o] = payload[o]

LEMMA PayloadKept ==
    ASSUME IInv, FlowInv, [FlowNext]_allVars
    PROVE  PayloadFixed
<1>1. \A o \in Ops : op[o].status # "absent" => op'[o].status # "absent"
  BY StepInQueue, IInvParts, ForwardNext DEF Forward
<1>2. CASE \E o \in Ops, q \in offered, a \in Answers \cup {NoAnswer} : Submit(o, q, a)
  <2>1. PICK o \in Ops, q \in offered, a \in Answers \cup {NoAnswer} : Submit(o, q, a)
    BY <1>2
  <2>2. /\ op[o].status = "absent"
        /\ payload' = [payload EXCEPT ![o] = [offer |-> q, answer |-> a]]
    BY <2>1 DEF Submit, Create
  <2>3. \A p \in Ops : p # o => payload'[p] = payload[p]
    BY <2>2 DEF FlowInv, FlowTypeOK
  <2> QED
    BY <1>1, <2>2, <2>3 DEF PayloadFixed
<1>3. CASE ~ \E o \in Ops, q \in offered, a \in Answers \cup {NoAnswer} : Submit(o, q, a)
  <2>1. ASSUME NEW w \in Workers, Transaction(w) \/ FailInterview(w) \/ QueueStep(w)
        PROVE  payload' = payload
    BY <2>1 DEF Transaction, FailInterview, QueueStep, BeginStart, BeginRestart, BeginAnswer,
       BeginRecover, BeginResume, Refuse, ChooseFollowup, CommitFollowup, CommitEvaluation,
       CommitReport, CommitQuestion
  <2>2. ASSUME NEW o \in Ops, Elapse(o)
        PROVE  payload' = payload
    BY <2>2 DEF Elapse, flowVars
  <2>3. payload' = payload
    BY <1>3, <2>1, <2>2 DEF FlowNext, AbortSession, allVars
  <2> QED
    BY <1>1, <2>3 DEF PayloadFixed
<1> QED
  BY <1>2, <1>3

(* The operations that recorded the answers of a round are operations. *)
LEMMA AnswersTyped ==
    ASSUME FlowInv, NEW i \in DOMAIN rounds
    PROVE  /\ rounds[i] \in RoundRow
           /\ rounds[i].answers \in Seq(AnswerRow)
           /\ rounds[i].followups \in Nat
           /\ \A j \in DOMAIN rounds[i].answers : rounds[i].answers[j].by \in Ops
<1>1. rounds[i] \in RoundRow
  BY Typed, LenProperties, ElementOfSeq
<1>2. rounds[i].answers \in Seq(AnswerRow) /\ rounds[i].followups \in Nat
  BY <1>1, FlowAssumption DEF RoundRow
<1>3. \A j \in DOMAIN rounds[i].answers : rounds[i].answers[j] \in AnswerRow
  BY <1>2, LenProperties, ElementOfSeq
<1> QED
  BY <1>1, <1>2, <1>3 DEF AnswerRow

(* Answers that stay stay right. *)
LEMMA RecordedKept ==
    ASSUME FlowInv, Recorded, PayloadFixed,
           \A i \in DOMAIN rounds' : \/ rounds'[i].answers = <<>>
                                     \/ /\ i \in DOMAIN rounds
                                        /\ rounds'[i].answers = rounds[i].answers
    PROVE  Recorded'
<1> SUFFICES ASSUME NEW i \in DOMAIN rounds', NEW j \in DOMAIN rounds'[i].answers
             PROVE  /\ op'[rounds'[i].answers[j].by].status # "absent"
                    /\ payload'[rounds'[i].answers[j].by].offer.asked = i
                    /\ payload'[rounds'[i].answers[j].by].offer.followups = j - 1
  BY DEF Recorded
<1>1. rounds'[i].answers # <<>>
  OBVIOUS
<1>2. i \in DOMAIN rounds /\ rounds'[i].answers = rounds[i].answers
  BY <1>1
<1>3. rounds[i].answers[j].by \in Ops
  BY <1>2, AnswersTyped
<1> QED
  BY <1>2, <1>3 DEF Recorded, PayloadFixed

(* A written session has a new version, and older offers are out of date. *)
LEMMA OffersWritten ==
    ASSUME FlowInv, CurrentOffers, session' \in SessionRow,
           session'.version = session.version + 1,
           offered' = offered \cup Shown(session', rounds')
    PROVE  CurrentOffers'
<1>1. session.version \in Nat
  BY Typed DEF SessionRow
<1>2. \A q \in offered : q.version \in Nat /\ q.version <= session.version
  BY Typed DEF CurrentOffers, OfferRow, Offers
<1>3. \A q \in offered : q.version <= session'.version /\ q.version # session'.version
  BY <1>1, <1>2
<1>4. ASSUME NEW q \in Shown(session', rounds')
      PROVE  /\ q.version = session'.version
             /\ q.kind = "answer" => /\ session'.status = "awaiting_answer"
                                     /\ q.asked = session'.asked
                                     /\ q.followups = rounds'[session'.asked].followups
  BY <1>4 DEF Shown, Offer
<1>5. session'.version <= session'.version
  BY <1>1
<1> QED
  BY <1>3, <1>4, <1>5 DEF CurrentOffers

(* The open question is closed, or there was none: answers and follow-ups  *)
(* stay.                                                                   *)
LEMMA ClosingWrite ==
    ASSUME FlowInv, AnswerInv, PayloadFixed, session' \in SessionRow,
           session'.version = session.version + 1, session'.status \notin Open,
           offered' = offered \cup Shown(session', rounds'),
           DOMAIN rounds' = DOMAIN rounds,
           \A i \in DOMAIN rounds : /\ rounds'[i].answers = rounds[i].answers
                                    /\ rounds'[i].followups = rounds[i].followups
    PROVE  AnswerInv'
<1>1. Tallies'
  BY DEF AnswerInv, Tallies, Tally, Open
<1>2. CurrentOffers'
  BY OffersWritten DEF AnswerInv
<1>3. Recorded'
  BY RecordedKept DEF AnswerInv
<1> QED
  BY <1>1, <1>2, <1>3 DEF AnswerInv

(* A step that leaves the session alone. *)
LEMMA QuietAnswers ==
    ASSUME FlowInv, AnswerInv, PayloadFixed, SameSession
    PROVE  AnswerInv'
<1>1. session' = session /\ rounds' = rounds /\ offered' = offered
  BY DEF SameSession
<1>2. Tallies' /\ CurrentOffers'
  BY <1>1 DEF AnswerInv, Tallies, Tally, CurrentOffers
<1>3. Recorded'
  BY <1>1, RecordedKept DEF AnswerInv
<1> QED
  BY <1>2, <1>3 DEF AnswerInv

-----------------------------------------------------------------------------
(* The transactions.                                                       *)

(* What MovedRound keeps. *)
LEMMA MovedRoundKeeps ==
    ASSUME FlowInv, session.status \in Open, NEW s \in RoundStatuses
    PROVE  /\ DOMAIN MovedRound(s) = DOMAIN rounds
           /\ \A i \in DOMAIN rounds : /\ MovedRound(s)[i].answers = rounds[i].answers
                                       /\ MovedRound(s)[i].followups = rounds[i].followups
<1>1. \A i \in DOMAIN rounds : rounds[i] \in RoundRow
  BY AnswersTyped
<1>2. session.asked \in DOMAIN rounds
  BY LastRound
<1> DEFINE r == [rounds[session.asked] EXCEPT !.status = s, !.active = s \notin Closed]
<1>3. MovedRound(s) = [rounds EXCEPT ![session.asked] = r]
  BY MovedRoundIs
<1>4. r.answers = rounds[session.asked].answers /\ r.followups = rounds[session.asked].followups
  BY <1>1, <1>2 DEF RoundRow
<1> HIDE DEF r
<1> QED
  BY <1>2, <1>3, <1>4

LEMMA StartAnswers ==
    ASSUME FlowInv, AnswerInv, PayloadFixed, NEW w \in Workers, BeginStart(w)
    PROVE  AnswerInv'
<1>1. /\ session' = Moved("preparing_question") /\ rounds' = rounds
      /\ offered' = offered \cup Shown(session', rounds')
  BY DEF BeginStart, Write
<1>2. /\ session' \in SessionRow /\ session'.version = session.version + 1
      /\ session'.status = "preparing_question"
  BY <1>1, Typed, MovedTyped, StatusSet
<1> QED
  BY <1>1, <1>2, ClosingWrite DEF Open

LEMMA EvaluationAnswers ==
    ASSUME FlowInv, FlowInv', AnswerInv, PayloadFixed, NEW w \in Workers,
           CommitEvaluation(w) \/ CommitReport(w)
    PROVE  AnswerInv'
<1>1. PICK s \in {"preparing_question", "completed"} :
        /\ \/ session' = [Moved(s) EXCEPT !.done = body[w].done + 1]
           \/ session' = [Moved(s) EXCEPT !.done = body[w].done + 1, !.report = TRUE]
        /\ rounds' = MovedRound("completed")
        /\ offered' = offered \cup Shown(session', rounds')
        /\ session.status = "evaluating"
  BY DEF CommitEvaluation, CommitReport, Write, StillEvaluating
<1>2. /\ Moved(s) \in SessionRow /\ Moved(s).status = s
      /\ Moved(s).version = session.version + 1
  BY Typed, MovedTyped, StatusSet
<1>3. session'.status = s /\ session'.version = session.version + 1
  <2> DEFINE m == Moved(s)
  <2>1. /\ m \in SessionRow /\ m.status = s /\ m.version = session.version + 1
        /\ \/ session' = [m EXCEPT !.done = body[w].done + 1]
           \/ session' = [m EXCEPT !.done = body[w].done + 1, !.report = TRUE]
    BY <1>1, <1>2
  <2> HIDE DEF m
  <2> QED
    BY <2>1 DEF SessionRow
<1>4. session' \in SessionRow
  BY DEF FlowInv, FlowTypeOK, SessionRow
<1>5. /\ DOMAIN rounds' = DOMAIN rounds
      /\ \A i \in DOMAIN rounds : /\ rounds'[i].answers = rounds[i].answers
                                  /\ rounds'[i].followups = rounds[i].followups
  BY <1>1, MovedRoundKeeps DEF Open, RoundStatuses
<1> QED
  BY <1>1, <1>3, <1>4, <1>5, ClosingWrite DEF Open

LEMMA EndAnswers ==
    ASSUME FlowInv, AnswerInv, PayloadFixed, NEW s \in {"failed", "aborted"},
           Write(Moved(s), FailedActive)
    PROVE  AnswerInv'
<1>1. /\ session' = Moved(s) /\ rounds' = FailedActive
      /\ offered' = offered \cup Shown(session', rounds')
  BY DEF Write
<1>2. session' \in SessionRow /\ session'.version = session.version + 1 /\ session'.status = s
  BY <1>1, Typed, MovedTyped, StatusSet
<1>3. \A i \in DOMAIN rounds : rounds[i] \in RoundRow
  BY AnswersTyped
<1>4. /\ DOMAIN rounds' = DOMAIN rounds
      /\ \A i \in DOMAIN rounds : /\ rounds'[i].answers = rounds[i].answers
                                  /\ rounds'[i].followups = rounds[i].followups
  BY <1>1, <1>3 DEF FailedActive, RoundRow
<1> QED
  BY <1>1, <1>2, <1>4, ClosingWrite DEF Open

(* One answer more, by an operation whose offer has the session's version. *)
LEMMA AnswerAnswers ==
    ASSUME IInv, FlowInv, FlowInv', AnswerInv, PayloadFixed, NEW w \in Workers, BeginAnswer(w)
    PROVE  AnswerInv'
<1> DEFINE n == session.asked
           o == worker[w].op
           a == [by |-> o, text |-> Task(w).answer]
           m == MovedRound("evaluating")
<1>1. /\ session.status = "awaiting_answer" /\ session' = Moved("evaluating")
      /\ rounds' = [m EXCEPT ![Active].answers = Append(m[Active].answers, a)]
      /\ offered' = offered \cup Shown(session', rounds')
      /\ Task(w).offer.kind = "answer" /\ Task(w).offer.version = session.version
      /\ At(w, "begin")
  BY DEF BeginAnswer, CanAnswer, Write, Begin
<1>2. /\ session' \in SessionRow /\ session'.version = session.version + 1
      /\ session'.status = "evaluating" /\ session'.asked = n
  BY <1>1, Typed, MovedTyped, StatusSet
<1>3. Active = n /\ n \in DOMAIN rounds
  BY <1>1, LastRound DEF Open
<1>4. /\ DOMAIN m = DOMAIN rounds
      /\ \A i \in DOMAIN rounds : /\ m[i].answers = rounds[i].answers
                                  /\ m[i].followups = rounds[i].followups
  BY <1>1, MovedRoundKeeps DEF Open, RoundStatuses
<1>5. /\ DOMAIN rounds' = DOMAIN rounds
      /\ \A i \in DOMAIN rounds : rounds'[i].followups = rounds[i].followups
      /\ \A i \in DOMAIN rounds \ {n} : rounds'[i].answers = rounds[i].answers
      /\ rounds'[n].answers = Append(rounds[n].answers, a)
  <2>1. \A i \in DOMAIN rounds : m[i] \in RoundRow
    <3>1. \A i \in DOMAIN rounds : rounds[i] \in RoundRow
      BY AnswersTyped
    <3>2. m = [rounds EXCEPT ![n] =
                  [rounds[n] EXCEPT !.status = "evaluating", !.active = "evaluating" \notin Closed]]
      BY <1>1, MovedRoundIs DEF Open, RoundStatuses
    <3>3. [rounds[n] EXCEPT !.status = "evaluating", !.active = "evaluating" \notin Closed] \in RoundRow
      BY <1>3, <3>1 DEF RoundRow, RoundStatuses
    <3> QED
      BY <1>3, <3>1, <3>2, <3>3
  <2>2. rounds' = [m EXCEPT ![n].answers = Append(m[n].answers, a)]
    BY <1>1, <1>3
  <2> HIDE DEF m, a
  <2>3. \A i \in DOMAIN rounds \ {n} : rounds'[i] = m[i]
    BY <1>4, <2>2
  <2>4. rounds'[n] = [m[n] EXCEPT !.answers = Append(m[n].answers, a)]
    BY <1>3, <1>4, <2>2
  <2>5. rounds'[n].followups = m[n].followups /\ rounds'[n].answers = Append(m[n].answers, a)
    BY <1>3, <2>1, <2>4 DEF RoundRow
  <2> QED
    BY <1>3, <1>4, <2>2, <2>3, <2>5
<1>6. o \in Ops /\ op[o].status # "absent"
  BY <1>1, IInvParts, HeldExists DEF At, BusyLabels, BodyLabels
<1>7. /\ rounds[n].answers \in Seq(AnswerRow) /\ rounds[n].followups \in Nat
      /\ Len(rounds[n].answers) = rounds[n].followups
  BY <1>1, <1>3, AnswersTyped DEF AnswerInv, Tallies, Tally
<1>8. /\ payload[o].offer.asked = n
      /\ payload[o].offer.followups = rounds[n].followups
  <2>1. payload[o].offer \in offered
    BY <1>1, <1>6 DEF FlowInv, Payloads, Task, NoPayload, Offer
  <2> QED
    BY <1>1, <2>1 DEF AnswerInv, CurrentOffers, Task
<1>9. a \in AnswerRow
  BY <1>1, <1>6 DEF AnswerRow, FlowInv, Payloads, Task
<1>10. a.by = o
  OBVIOUS
<1> HIDE DEF a
<1>11. /\ Len(rounds'[n].answers) = rounds[n].followups + 1
       /\ DOMAIN rounds'[n].answers = 1 .. (rounds[n].followups + 1)
       /\ \A j \in 1 .. rounds[n].followups : rounds'[n].answers[j] = rounds[n].answers[j]
       /\ rounds'[n].answers[rounds[n].followups + 1] = a
       /\ DOMAIN rounds[n].answers = 1 .. rounds[n].followups
  BY <1>5, <1>7, <1>9, AppendProperties, LenProperties
<1>12. Tallies'
  BY <1>2, <1>3, <1>5, <1>11 DEF AnswerInv, Tallies, Tally
<1>13. CurrentOffers'
  BY <1>1, <1>2, OffersWritten DEF AnswerInv
<1>14. ASSUME NEW i \in DOMAIN rounds, NEW j \in DOMAIN rounds[i].answers
       PROVE  /\ op'[rounds[i].answers[j].by].status # "absent"
              /\ payload'[rounds[i].answers[j].by].offer.asked = i
              /\ payload'[rounds[i].answers[j].by].offer.followups = j - 1
  BY AnswersTyped DEF AnswerInv, Recorded, PayloadFixed
<1>15. Recorded'
  <2> SUFFICES ASSUME NEW i \in DOMAIN rounds', NEW j \in DOMAIN rounds'[i].answers
               PROVE  /\ op'[rounds'[i].answers[j].by].status # "absent"
                      /\ payload'[rounds'[i].answers[j].by].offer.asked = i
                      /\ payload'[rounds'[i].answers[j].by].offer.followups = j - 1
    BY DEF Recorded
  <2>1. CASE i = n /\ j = rounds[n].followups + 1
    <3>1. rounds'[i].answers[j].by = o
      BY <1>10, <1>11, <2>1
    <3>2. op'[o].status # "absent" /\ payload'[o] = payload[o]
      BY <1>6 DEF PayloadFixed
    <3>3. payload[o].offer.followups = j - 1
      BY <1>7, <1>8, <2>1
    <3> QED
      BY <1>8, <2>1, <3>1, <3>2, <3>3
  <2>2. CASE i = n /\ j # rounds[n].followups + 1
    <3>1. j \in 1 .. rounds[n].followups
      BY <1>7, <1>11, <2>2
    <3>2. rounds'[i].answers[j] = rounds[i].answers[j] /\ j \in DOMAIN rounds[i].answers
      BY <1>11, <2>2, <3>1
    <3>3. i \in DOMAIN rounds
      BY <1>3, <2>2
    <3> QED
      BY <1>14, <3>2, <3>3
  <2>3. CASE i # n
    BY <1>5, <1>14, <2>3
  <2> QED
    BY <2>1, <2>2, <2>3
<1> QED
  BY <1>12, <1>13, <1>15 DEF AnswerInv

LEMMA FollowupAnswers ==
    ASSUME FlowInv, AnswerInv, PayloadFixed, NEW w \in Workers, CommitFollowup(w)
    PROVE  AnswerInv'
<1> DEFINE n == session.asked
           m == MovedRound("awaiting_followup")
<1>1. /\ session.status = "evaluating" /\ session' = Moved("awaiting_answer")
      /\ rounds' = [m EXCEPT ![Active].followups = m[Active].followups + 1]
      /\ offered' = offered \cup Shown(session', rounds')
  BY DEF CommitFollowup, StillEvaluating, Write
<1>2. /\ session' \in SessionRow /\ session'.version = session.version + 1
      /\ session'.status = "awaiting_answer" /\ session'.asked = n
  BY <1>1, Typed, MovedTyped, StatusSet
<1>3. Active = n /\ n \in DOMAIN rounds
  BY <1>1, LastRound DEF Open
<1>4. /\ DOMAIN m = DOMAIN rounds
      /\ \A i \in DOMAIN rounds : /\ m[i].answers = rounds[i].answers
                                  /\ m[i].followups = rounds[i].followups
  BY <1>1, MovedRoundKeeps DEF Open, RoundStatuses, Answerable
<1>5. m[n] \in RoundRow
  <2>1. rounds[n] \in RoundRow
    BY <1>3, AnswersTyped
  <2>2. m = [rounds EXCEPT ![n] = [rounds[n] EXCEPT !.status = "awaiting_followup",
                                                    !.active = "awaiting_followup" \notin Closed]]
    BY <1>1, MovedRoundIs DEF Open, RoundStatuses, Answerable
  <2>3. [rounds[n] EXCEPT !.status = "awaiting_followup",
                          !.active = "awaiting_followup" \notin Closed] \in RoundRow
    BY <2>1 DEF RoundRow, RoundStatuses, Answerable
  <2> QED
    BY <1>3, <2>2, <2>3
<1>6. rounds' = [m EXCEPT ![n].followups = m[n].followups + 1]
  BY <1>1, <1>3
<1> HIDE DEF m
<1>7. rounds'[n] = [m[n] EXCEPT !.followups = m[n].followups + 1]
  BY <1>3, <1>4, <1>6
<1>8. rounds'[n].answers = m[n].answers /\ rounds'[n].followups = m[n].followups + 1
  BY <1>5, <1>7 DEF RoundRow
<1>9. /\ DOMAIN rounds' = DOMAIN rounds
      /\ \A i \in DOMAIN rounds : rounds'[i].answers = rounds[i].answers
      /\ \A i \in DOMAIN rounds \ {n} : rounds'[i].followups = rounds[i].followups
      /\ rounds'[n].followups = rounds[n].followups + 1
  BY <1>3, <1>4, <1>6, <1>8
<1>10. Len(rounds[n].answers) = rounds[n].followups + 1
  BY <1>1, <1>3 DEF AnswerInv, Tallies, Tally
<1>11. Tallies'
  <2> SUFFICES ASSUME NEW i \in DOMAIN rounds'
               PROVE  Tally(i)'
    BY DEF Tallies
  <2>1. CASE i = n
    BY <1>2, <1>3, <1>9, <1>10, <2>1 DEF Tally
  <2>2. CASE i # n
    BY <1>2, <1>9, <2>2 DEF AnswerInv, Tallies, Tally
  <2> QED
    BY <2>1, <2>2
<1>12. CurrentOffers'
  BY <1>1, <1>2, OffersWritten DEF AnswerInv
<1>13. Recorded'
  BY <1>9, RecordedKept DEF AnswerInv
<1> QED
  BY <1>11, <1>12, <1>13 DEF AnswerInv

LEMMA QuestionAnswers ==
    ASSUME FlowInv, FlowInv', AnswerInv, PayloadFixed, NEW w \in Workers, CommitQuestion(w)
    PROVE  AnswerInv'
<1> DEFINE n == session.asked
           s == Moved("awaiting_answer")
<1>1. /\ session' = [s EXCEPT !.asked = s.asked + 1]
      /\ rounds' = Append(rounds, NewRound)
      /\ offered' = offered \cup Shown(session', rounds')
  BY DEF CommitQuestion, Write
<1>2. /\ s \in SessionRow /\ s.status = "awaiting_answer" /\ s.asked = n
      /\ s.version = session.version + 1
  BY Typed, MovedTyped, StatusSet
<1> HIDE DEF s
<1>3. /\ session'.version = session.version + 1 /\ session'.asked = n + 1
      /\ session'.status = "awaiting_answer"
  BY <1>1, <1>2 DEF SessionRow
<1>4. session' \in SessionRow
  BY DEF FlowInv, FlowTypeOK, SessionRow
<1>5. rounds \in Seq(RoundRow) /\ Len(rounds) = n /\ n \in Nat /\ DOMAIN rounds = 1 .. n
  BY LastRound
<1>6. NewRound \in RoundRow
  BY FlowAssumption, EmptySeq DEF NewRound, RoundRow, RoundStatuses, Answerable
<1>7. NewRound.answers = <<>> /\ NewRound.followups = 0
  BY DEF NewRound
<1> HIDE DEF NewRound
<1>8. /\ DOMAIN rounds' = 1 .. (n + 1)
      /\ \A i \in 1 .. n : rounds'[i] = rounds[i]
      /\ rounds'[n + 1] = NewRound
  BY <1>1, <1>5, <1>6, AppendProperties, LenProperties
<1>9. Tallies'
  <2> SUFFICES ASSUME NEW i \in DOMAIN rounds'
               PROVE  Tally(i)'
    BY DEF Tallies
  <2>1. CASE i = n + 1
    <3>1. Len(rounds'[i].answers) = 0 /\ rounds'[i].followups = 0
      BY <1>7, <1>8, <2>1, EmptySeq
    <3> QED
      BY <1>3, <3>1 DEF Tally
  <2>2. CASE i # n + 1
    <3>1. i \in 1 .. n /\ i # session'.asked
      BY <1>3, <1>5, <1>8, <2>2
    <3>2. Tally(i) /\ rounds'[i] = rounds[i]
      BY <1>5, <1>8, <3>1 DEF AnswerInv, Tallies
    <3> QED
      BY <3>1, <3>2 DEF Tally
  <2> QED
    BY <2>1, <2>2
<1>10. CurrentOffers'
  BY <1>1, <1>3, <1>4, OffersWritten DEF AnswerInv
<1>11. \A i \in DOMAIN rounds' : \/ rounds'[i].answers = <<>>
                                 \/ i \in DOMAIN rounds /\ rounds'[i].answers = rounds[i].answers
  BY <1>5, <1>7, <1>8
<1>12. Recorded'
  BY <1>11, RecordedKept DEF AnswerInv
<1> QED
  BY <1>9, <1>10, <1>12 DEF AnswerInv

-----------------------------------------------------------------------------
(* The theorem.                                                            *)

LEMMA AnswersInitially == FlowInit => AnswerInv
<1> SUFFICES ASSUME FlowInit PROVE AnswerInv
  OBVIOUS
<1>1. FlowInv
  BY FlowInitially
<1>2. NewRound.answers = <<>> /\ NewRound.followups = 0
  BY DEF NewRound
<1>3. rounds = <<>> \/ rounds = <<NewRound>>
  BY DEF FlowInit
<1>4. \A i \in DOMAIN rounds : rounds[i] = NewRound
  <2> HIDE DEF NewRound
  <2> QED
    BY <1>3
<1>5. session.status # "evaluating"
  <2>1. ~ \E i \in DOMAIN rounds : rounds[i].status = "evaluating"
    BY <1>4 DEF NewRound
  <2> QED
    BY <1>1, <2>1 DEF FlowInv, RoundMatchesSession, Actives
<1>6. Tallies
  BY <1>2, <1>4, <1>5, EmptySeq DEF Tallies, Tally
<1>7. Recorded
  BY <1>2, <1>4 DEF Recorded
<1>8. CurrentOffers
  <2>1. session.version \in Nat
    BY <1>1, Typed DEF SessionRow
  <2>2. offered = Shown(session, rounds)
    BY DEF FlowInit
  <2> QED
    BY <2>1, <2>2 DEF CurrentOffers, Shown, Offer
<1> QED
  BY <1>6, <1>7, <1>8 DEF AnswerInv

LEMMA AnswersNext ==
    ASSUME IInv, FlowInv, AnswerInv, [FlowNext]_allVars
    PROVE  AnswerInv'
<1>1. FlowInv' /\ PayloadFixed
  BY FlowStep, PayloadKept
<1>2. ASSUME NEW o \in Ops,
             Elapse(o) \/ \E q \in offered, a \in Answers \cup {NoAnswer} : Submit(o, q, a)
      PROVE  SameSession
  BY <1>2 DEF Elapse, Submit, flowVars, SameSession
<1>3. ASSUME AbortSession
      PROVE  AnswerInv'
  BY <1>1, <1>3, EndAnswers DEF AbortSession
<1>4. ASSUME NEW w \in Workers, Transaction(w)
      PROVE  AnswerInv' \/ SameSession
  <2>1. CASE \/ BeginRestart(w) \/ BeginRecover(w) \/ BeginResume(w)
             \/ Refuse(w) \/ ChooseFollowup(w)
    BY <2>1 DEF BeginRestart, BeginRecover, BeginResume, Refuse, ChooseFollowup
  <2> QED
    BY <1>1, <1>4, <2>1, StartAnswers, AnswerAnswers, FollowupAnswers, EvaluationAnswers,
       QuestionAnswers
    DEF Transaction
<1>5. ASSUME NEW w \in Workers, FailInterview(w)
      PROVE  AnswerInv' \/ SameSession
  BY <1>1, <1>5, EndAnswers DEF FailInterview, FailSession
<1>6. ASSUME NEW w \in Workers, QueueStep(w)
      PROVE  SameSession
  BY <1>6 DEF QueueStep
<1>7. ASSUME UNCHANGED allVars
      PROVE  SameSession
  BY <1>7 DEF allVars, SameSession
<1> QED
  BY <1>1, <1>2, <1>3, <1>4, <1>5, <1>6, <1>7, QuietAnswers DEF FlowNext

(* An answer is recorded at most once, and for the round and the follow-up *)
(* its candidate saw, whatever retries, take-overs and stale bodies came   *)
(* between the page and the transaction.                                   *)
THEOREM AnswersToQuestionSeen == FlowSpec => []AnswerToQuestionSeen
<1>1. FlowInit => AnswerInv
  BY AnswersInitially
<1>2. IInv /\ FlowInv /\ AnswerInv /\ [FlowNext]_allVars => AnswerInv'
  BY AnswersNext
<1>3. AnswerInv => AnswerToQuestionSeen
  BY DEF AnswerInv, Tallies, Tally, Recorded, AnswerToQuestionSeen
<1> QED
  BY <1>1, <1>2, <1>3, FlowInductive, FlowInvariant, PTL DEF FlowSpec

=============================================================================
