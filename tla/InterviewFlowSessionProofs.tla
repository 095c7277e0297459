--------------------- MODULE InterviewFlowSessionProofs ---------------------
(***************************************************************************)
(* The session flow implements the session protocol, for every number of   *)
(* operations, workers, attempts, questions and follow-ups.                *)
(*                                                                         *)
(* A body keeps completed_question_count and followup_count across the     *)
(* await of the judge and writes them back later.  What makes that safe is *)
(* Evaluators: while the session evaluates an answer, only one body can    *)
(* commit the evaluation, and what it read is still what the rows hold.    *)
(***************************************************************************)
EXTENDS InterviewFlow, InterviewFlowProofs, FiniteSetTheorems, SequenceTheorems

SessionRow == [status : SessionStatuses, version : Nat, asked : 0 .. MaxQuestions,
               done : 0 .. MaxQuestions, report : BOOLEAN]
AnswerRow == [by : Ops, text : Answers]
RoundRow == [status : RoundStatuses, active : BOOLEAN, followups : 0 .. MaxFollowups,
             answers : Seq(AnswerRow)]
BodyRow == [stage : Stages, done : 0 .. MaxQuestions, followups : 0 .. MaxFollowups]
OfferRow == Offers("start") \cup Offers("answer")

Open == {"awaiting_answer", "evaluating"}
Closed == {"completed", "failed"}

(* An ended question is counted before the next one is asked. *)
Counters ==
    /\ session.status \in {"created", "preparing_question"} =>
          session.asked = session.done /\ session.done < MaxQuestions
    /\ session.status \in Open => session.asked = session.done + 1

Evaluator(w) == body[w].stage \in {"evaluate", "followup"}

(* A body that will commit an evaluation is the only one, and its locals   *)
(* are what the rows hold, unless the session ended meanwhile.             *)
Evaluators ==
    \A w \in Workers : Evaluator(w) =>
        \/ Ended
        \/ /\ session.status = "evaluating"
           /\ body[w].done = session.done
           /\ body[w].followups = rounds[session.asked].followups
           /\ body[w].stage = "followup" => body[w].followups < MaxFollowups
           /\ \A v \in Workers : Evaluator(v) => v = w

(* A payload is an offer the API made, with an answer exactly if the offer *)
(* was a question.                                                         *)
Payloads ==
    \A o \in Ops : /\ payload[o].offer \in offered \cup {NoPayload.offer}
                   /\ payload[o].offer.kind = "answer" => payload[o].answer \in Answers

FlowInv == FlowTypeOK /\ RoundMatchesSession /\ Counters /\ Evaluators /\ Payloads

-----------------------------------------------------------------------------
(* The rounds.                                                             *)

(* RoundMatchesSession in terms of the last round. *)
LEMMA LastRound ==
    FlowInv =>
      /\ rounds \in Seq(RoundRow) /\ Len(rounds) = session.asked
      /\ session.asked \in Nat /\ DOMAIN rounds = 1 .. session.asked
      /\ session.status \in Open =>
            /\ Actives = {session.asked} /\ Active = session.asked
            /\ session.asked \in DOMAIN rounds
            /\ rounds[session.asked] \in RoundRow
            /\ rounds[session.asked].active
            /\ rounds[session.asked].status \notin Closed
      /\ session.status \notin Open => Actives = {}
      /\ session.status = "awaiting_answer" => rounds[session.asked].status \in Answerable
      /\ session.status = "evaluating" => rounds[session.asked].status = "evaluating"
<1> SUFFICES ASSUME FlowInv
             PROVE  /\ rounds \in Seq(RoundRow) /\ Len(rounds) = session.asked
                    /\ session.asked \in Nat /\ DOMAIN rounds = 1 .. session.asked
                    /\ session.status \in Open =>
                          /\ Actives = {session.asked} /\ Active = session.asked
                          /\ session.asked \in DOMAIN rounds
                          /\ rounds[session.asked] \in RoundRow
                          /\ rounds[session.asked].active
                          /\ rounds[session.asked].status \notin Closed
                    /\ session.status \notin Open => Actives = {}
                    /\ session.status = "awaiting_answer" =>
                          rounds[session.asked].status \in Answerable
                    /\ session.status = "evaluating" =>
                          rounds[session.asked].status = "evaluating"
  OBVIOUS
<1>1. rounds \in Seq(RoundRow) /\ session \in SessionRow
  BY DEF FlowInv, FlowTypeOK, RoundRow, SessionRow, AnswerRow
<1>2. Len(rounds) = session.asked /\ session.asked \in Nat
      /\ DOMAIN rounds = 1 .. session.asked
  BY <1>1, LenProperties, FlowAssumption DEF FlowInv, RoundMatchesSession, SessionRow
<1>3. \A i \in DOMAIN rounds : rounds[i] \in RoundRow
  BY <1>1, <1>2, ElementOfSeq
<1>4. Actives \subseteq {session.asked} /\ Actives \subseteq DOMAIN rounds
  BY <1>2 DEF FlowInv, RoundMatchesSession, Actives
<1>5. \A i \in Actives : rounds[i].active /\ rounds[i].status \notin Closed
                         /\ rounds[i].status \in Answerable \cup {"evaluating"}
  BY <1>3 DEF FlowInv, RoundMatchesSession, Actives, RoundRow, RoundStatuses, Closed
<1>6. session.status \notin Open => Actives = {}
  BY <1>5 DEF FlowInv, RoundMatchesSession, Open
<1>7. ASSUME session.status \in Open
      PROVE  Actives = {session.asked}
  BY <1>4, <1>7 DEF FlowInv, RoundMatchesSession, Open
<1>8. ASSUME session.status \in Open
      PROVE  Active = session.asked
  BY <1>7, <1>8 DEF Active
<1>9. session.status = "awaiting_answer" => rounds[session.asked].status \in Answerable
  BY <1>4 DEF FlowInv, RoundMatchesSession
<1>10. session.status = "evaluating" => rounds[session.asked].status = "evaluating"
  BY <1>4 DEF FlowInv, RoundMatchesSession
<1> QED
  BY <1>1, <1>2, <1>3, <1>4, <1>5, <1>6, <1>7, <1>8, <1>9, <1>10

Completed(rs) == {i \in DOMAIN rs : rs[i].status = "completed"}

LEMMA CompletedFinite ==
    ASSUME NEW rs \in Seq(RoundRow)
    PROVE  IsFiniteSet(Completed(rs)) /\ Cardinality(Completed(rs)) \in Nat
<1>1. DOMAIN rs = 1 .. Len(rs) /\ Len(rs) \in Nat
  BY LenProperties
<1>2. IsFiniteSet(1 .. Len(rs))
  BY <1>1, FS_Interval
<1>3. Completed(rs) \subseteq 1 .. Len(rs)
  BY <1>1 DEF Completed
<1>4. IsFiniteSet(Completed(rs))
  BY <1>2, <1>3, FS_Subset
<1> QED
  BY <1>4, FS_CardinalityType

(* The active round is the last one and becomes r. *)
LEMMA LastReplaced ==
    ASSUME FlowInv, session.status \in Open, NEW r \in RoundRow,
           r.active <=> r.status \notin Closed,
           rounds' = [rounds EXCEPT ![session.asked] = r],
           session'.asked = session.asked,
           session'.status = "awaiting_answer" <=> r.status \in Answerable,
           session'.status = "evaluating" <=> r.status = "evaluating",
           session'.done = IF r.status = "completed" THEN session.done + 1 ELSE session.done,
           session'.report <=> session'.status = "completed"
    PROVE  /\ RoundMatchesSession' /\ rounds' \in Seq(RoundRow)
           /\ rounds'[session.asked] = r
           /\ \A i \in DOMAIN rounds : i # session.asked => rounds'[i] = rounds[i]
           /\ DOMAIN rounds' = DOMAIN rounds
<1> DEFINE n == session.asked
<1>1. /\ rounds \in Seq(RoundRow) /\ Len(rounds) = n /\ n \in Nat
      /\ DOMAIN rounds = 1 .. n /\ n \in DOMAIN rounds
      /\ rounds[n].status \notin Closed
      /\ Actives = {n}
  BY LastRound
<1>2. rounds' \in Seq(RoundRow) /\ Len(rounds') = n
      /\ \A i \in 1 .. n : rounds'[i] = IF i = n THEN r ELSE rounds[i]
  BY <1>1, ExceptSeq
<1>3. DOMAIN rounds' = 1 .. n
  BY <1>1, <1>2, LenProperties
<1>4. \A i \in DOMAIN rounds' : rounds'[i].active <=> rounds'[i].status \notin Closed
  BY <1>1, <1>2, <1>3 DEF FlowInv, RoundMatchesSession, Closed
<1>5. Actives' = IF r.active THEN {n} ELSE {}
  BY <1>1, <1>2, <1>3 DEF Actives
<1>6. /\ (session'.status = "awaiting_answer" <=>
             \E i \in Actives' : rounds'[i].status \in Answerable)
      /\ (session'.status = "evaluating" <=> \E i \in Actives' : rounds'[i].status = "evaluating")
  BY <1>1, <1>2, <1>5 DEF Closed, Answerable
<1>7. session.done = Cardinality(Completed(rounds))
  BY DEF FlowInv, RoundMatchesSession, Completed
<1>8. session'.done = Cardinality(Completed(rounds'))
  <2>1. IsFiniteSet(Completed(rounds)) /\ n \notin Completed(rounds)
    BY <1>1, CompletedFinite DEF Completed, Closed
  <2>2. CASE r.status = "completed"
    <3>1. Completed(rounds') = Completed(rounds) \cup {n}
      BY <1>1, <1>2, <1>3, <2>2 DEF Completed
    <3>2. Cardinality(Completed(rounds) \cup {n}) = Cardinality(Completed(rounds)) + 1
      BY <2>1, FS_AddElement
    <3> QED
      BY <1>7, <2>2, <3>1, <3>2
  <2>3. CASE r.status # "completed"
    <3>1. Completed(rounds') = Completed(rounds)
      BY <1>1, <1>2, <1>3, <2>1, <2>3 DEF Completed
    <3> QED
      BY <1>7, <2>3, <3>1
  <2> QED
    BY <2>2, <2>3
<1>9. RoundMatchesSession'
  BY <1>2, <1>4, <1>5, <1>6, <1>8 DEF RoundMatchesSession, Completed, Closed
<1> QED
  BY <1>1, <1>2, <1>3, <1>9

(* No round is active, and the rounds stay as they are. *)
LEMMA RoundsKept ==
    ASSUME FlowInv, session.status \notin Open, session'.status \notin Open,
           rounds' = rounds, session'.asked = session.asked, session'.done = session.done,
           session'.report <=> session'.status = "completed"
    PROVE  RoundMatchesSession'
<1>1. Actives = {} /\ Actives' = {}
  BY LastRound DEF Actives
<1> QED
  BY <1>1 DEF FlowInv, RoundMatchesSession, Open

(* A new round is asked. *)
LEMMA RoundAppended ==
    ASSUME FlowInv, session.status \notin Open, session'.status = "awaiting_answer",
           rounds' = Append(rounds, NewRound), session'.asked = session.asked + 1,
           session'.done = session.done, ~session'.report
    PROVE  /\ RoundMatchesSession' /\ rounds' \in Seq(RoundRow)
           /\ rounds'[session'.asked] = NewRound
           /\ \A i \in DOMAIN rounds : rounds'[i] = rounds[i]
           /\ DOMAIN rounds' = 1 .. session'.asked
<1> DEFINE n == session.asked
<1>1. /\ rounds \in Seq(RoundRow) /\ Len(rounds) = n /\ n \in Nat
      /\ DOMAIN rounds = 1 .. n /\ Actives = {}
  BY LastRound
<1>2. NewRound \in RoundRow
  BY FlowAssumption, EmptySeq DEF NewRound, RoundRow, RoundStatuses, Answerable
<1>3. rounds' \in Seq(RoundRow) /\ Len(rounds') = n + 1
      /\ \A i \in 1 .. n : rounds'[i] = rounds[i]
      /\ rounds'[n + 1] = NewRound
  BY <1>1, <1>2, AppendProperties
<1>4. DOMAIN rounds' = 1 .. (n + 1)
  BY <1>1, <1>3, LenProperties
<1>5. \A i \in 1 .. n : ~rounds[i].active
  BY <1>1 DEF Actives
<1>6. Actives' = {n + 1}
  BY <1>1, <1>3, <1>4, <1>5 DEF Actives, NewRound
<1>7. Completed(rounds') = Completed(rounds)
  BY <1>1, <1>3, <1>4 DEF Completed, NewRound
<1>8. \A i \in DOMAIN rounds' : rounds'[i].active <=> rounds'[i].status \notin Closed
  BY <1>1, <1>3, <1>4 DEF FlowInv, RoundMatchesSession, Closed, NewRound
<1>9. /\ \E i \in Actives' : rounds'[i].status \in Answerable
      /\ ~ \E i \in Actives' : rounds'[i].status = "evaluating"
  BY <1>3, <1>6 DEF NewRound, Answerable
<1>10. session'.done = Cardinality(Completed(rounds'))
  BY <1>7 DEF FlowInv, RoundMatchesSession, Completed
<1>11. RoundMatchesSession'
  BY <1>3, <1>6, <1>8, <1>9, <1>10 DEF RoundMatchesSession, Completed, Closed
<1> QED
  BY <1>1, <1>3, <1>4, <1>11

-----------------------------------------------------------------------------
(* Bodies and offers.                                                      *)

LEMMA Typed ==
    FlowInv => /\ session \in SessionRow
               /\ rounds \in Seq(RoundRow)
               /\ offered \subseteq OfferRow
               /\ body \in [Workers -> BodyRow]
BY DEF FlowInv, FlowTypeOK, SessionRow, RoundRow, AnswerRow, OfferRow, BodyRow

LEMMA NoBodyTyped == NoBody \in BodyRow
BY FlowAssumption DEF NoBody, BodyRow, Stages

(* The locals of the other bodies stay, or end with their body. *)
LEMMA BodiesKept ==
    ASSUME FlowInv, KeepBodies
    PROVE  /\ body' \in [Workers -> BodyRow]
           /\ \A v \in Workers : body'[v] = body[v] \/ body'[v] = NoBody
           /\ \A v \in Workers : worker'[v].pc # "await" => body'[v] = NoBody
BY Typed, NoBodyTyped DEF KeepBodies

LEMMA BodyEntered ==
    ASSUME FlowInv, NEW w \in Workers, NEW st \in Stages, Enter(w, st)
    PROVE  /\ body' \in [Workers -> BodyRow]
           /\ \A v \in Workers : v # w => body'[v] = body[v]
           /\ body'[w].stage = st /\ body'[w].done = session.done
           /\ session.status \in Open =>
                 body'[w].followups = rounds[session.asked].followups
<1>1. body \in [Workers -> BodyRow] /\ session \in SessionRow
  BY Typed
<1>2. /\ session.status \notin Open => Actives = {}
      /\ session.status \in Open => /\ Actives = {session.asked} /\ Active = session.asked
                                    /\ rounds[session.asked] \in RoundRow
  BY LastRound
<1> DEFINE f == IF Actives = {} THEN 0 ELSE rounds[Active].followups
<1>3. f \in 0 .. MaxFollowups
  BY <1>2, FlowAssumption DEF RoundRow
<1>4. [stage |-> st, done |-> session.done, followups |-> f] \in BodyRow
  BY <1>1, <1>3 DEF BodyRow, SessionRow
<1>5. body' = [body EXCEPT ![w] = [stage |-> st, done |-> session.done, followups |-> f]]
  BY DEF Enter
<1>6. session.status \in Open => f = rounds[session.asked].followups
  BY <1>2
<1> HIDE DEF f
<1> QED
  BY <1>1, <1>4, <1>5, <1>6

(* What the API shows of the written rows. *)
LEMMA ShownTyped ==
    ASSUME session' \in SessionRow, rounds' \in Seq(RoundRow), RoundMatchesSession'
    PROVE  Shown(session', rounds') \subseteq OfferRow
<1>1. session'.asked = Len(rounds') /\ DOMAIN rounds' = 1 .. Len(rounds')
      /\ \A i \in DOMAIN rounds' : rounds'[i] \in RoundRow
  BY LenProperties, ElementOfSeq DEF RoundMatchesSession
<1>2. session'.status = "awaiting_answer" => session'.asked \in DOMAIN rounds'
  BY <1>1 DEF RoundMatchesSession, Actives
<1>3. \A k \in {"start", "answer"}, f \in 0 .. MaxFollowups : Offer(k, session', f) \in OfferRow
  BY DEF Offer, OfferRow, Offers, SessionRow
<1>4. 0 \in 0 .. MaxFollowups
  BY FlowAssumption
<1>5. CASE session'.status = "created"
  BY <1>3, <1>4, <1>5 DEF Shown
<1>6. CASE session'.status = "awaiting_answer"
  <2>1. rounds'[session'.asked].followups \in 0 .. MaxFollowups
    BY <1>1, <1>2, <1>6 DEF RoundRow
  <2> QED
    BY <1>3, <1>6, <2>1 DEF Shown
<1>7. CASE session'.status \notin {"created", "awaiting_answer"}
  BY <1>7 DEF Shown
<1> QED
  BY <1>5, <1>6, <1>7

(* A payload stays an offer the API made. *)
LEMMA PayloadsKept ==
    ASSUME Payloads, payload' = payload, offered \subseteq offered'
    PROVE  Payloads'
BY DEF Payloads, NoPayload, Offer, FreshSession

(* A body of an earlier step is no evaluator of a session that has no      *)
(* evaluation.                                                             *)
LEMMA NoEvaluator ==
    ASSUME FlowInv, ~Ended, session.status # "evaluating", NEW w \in Workers
    PROVE  ~Evaluator(w)
BY DEF FlowInv, Evaluators

(* A step that leaves the session alone. *)
LEMMA QuietFlow ==
    ASSUME FlowInv, SameSession, payload' = payload, body' \in [Workers -> BodyRow],
           \A v \in Workers : Evaluator(v)' =>
               /\ Evaluator(v)
               /\ body'[v].done = body[v].done /\ body'[v].followups = body[v].followups
               /\ body'[v].stage = "followup" =>
                     body[v].stage = "followup" \/ body[v].followups < MaxFollowups
    PROVE  FlowInv'
<1>1. FlowTypeOK'
  BY DEF FlowInv, FlowTypeOK, SameSession, BodyRow
<1>2. RoundMatchesSession'
  BY DEF FlowInv, RoundMatchesSession, SameSession, Actives
<1>3. Counters'
  BY DEF FlowInv, Counters, SameSession
<1>4. Evaluators'
  <2> SUFFICES ASSUME NEW w \in Workers, Evaluator(w)', ~Ended'
               PROVE  /\ session'.status = "evaluating"
                      /\ body'[w].done = session'.done
                      /\ body'[w].followups = rounds'[session'.asked].followups
                      /\ body'[w].stage = "followup" => body'[w].followups < MaxFollowups
                      /\ \A v \in Workers : Evaluator(v)' => v = w
    BY DEF Evaluators
  <2>1. /\ Evaluator(w) /\ ~Ended
        /\ session' = session /\ rounds' = rounds
    BY DEF SameSession, Ended
  <2>2. /\ session.status = "evaluating"
        /\ body[w].done = session.done
        /\ body[w].followups = rounds[session.asked].followups
        /\ body[w].stage = "followup" => body[w].followups < MaxFollowups
        /\ \A v \in Workers : Evaluator(v) => v = w
    BY <2>1 DEF FlowInv, Evaluators
  <2> QED
    BY <2>1, <2>2
<1>5. Payloads'
  BY PayloadsKept DEF FlowInv, SameSession
<1> QED
  BY <1>1, <1>2, <1>3, <1>4, <1>5 DEF FlowInv

(* A step that writes the session. *)
LEMMA WrittenFlow ==
    ASSUME FlowInv, session' \in SessionRow, rounds' \in Seq(RoundRow),
           RoundMatchesSession', Counters', Evaluators', payload' = payload,
           body' \in [Workers -> BodyRow],
           offered' = offered \cup Shown(session', rounds')
    PROVE  FlowInv'
<1>1. offered' \subseteq OfferRow
  BY Typed, ShownTyped
<1>2. FlowTypeOK'
  BY <1>1 DEF FlowInv, FlowTypeOK, SessionRow, RoundRow, AnswerRow, OfferRow, BodyRow
<1>3. Payloads'
  BY PayloadsKept DEF FlowInv
<1> QED
  BY <1>2, <1>3 DEF FlowInv

-----------------------------------------------------------------------------
(* The transactions.  Each keeps FlowInv and is a step of the protocol.    *)

(* The question and the follow-ups of the refinement mapping. *)
Question == IF Actives = {} THEN "none" ELSE rounds[Active].status
FollowupsAsked == IF Actives = {} THEN 0 ELSE rounds[Active].followups

Viewed ==
    /\ Question = IF session.status \in Open THEN rounds[session.asked].status ELSE "none"
    /\ FollowupsAsked = IF session.status \in Open
                        THEN rounds[session.asked].followups ELSE 0

LEMMA View == FlowInv => Viewed
BY LastRound DEF Viewed, Question, FollowupsAsked

LEMMA ViewNext == FlowInv' => Viewed'
BY View, PTL

(* What every written session keeps of its type. *)
LEMMA MovedTyped ==
    ASSUME session \in SessionRow, NEW s \in SessionStatuses
    PROVE  /\ Moved(s) \in SessionRow
           /\ Moved(s).status = s /\ Moved(s).asked = session.asked
           /\ Moved(s).done = session.done /\ Moved(s).report = session.report
           /\ Moved(s).version = session.version + 1
<1>1. session.version + 1 \in Nat
  BY DEF SessionRow
<1>2. Moved(s) \in SessionRow
  BY <1>1 DEF Moved, SessionRow
<1>3. /\ Moved(s).status = s /\ Moved(s).asked = session.asked
      /\ Moved(s).done = session.done
      /\ Moved(s).version = session.version + 1
  BY DEF Moved, SessionRow
<1>4. Moved(s).report = session.report
  BY DEF Moved, SessionRow
<1> QED
  BY <1>2, <1>3, <1>4

LEMMA StatusSet ==
    SessionStatuses = {"created", "preparing_question", "awaiting_answer", "evaluating",
                       "completed", "failed", "aborted"}
BY DEF SessionStatuses, SESSION_TRANSITIONS

LEMMA StartStep ==
    ASSUME FlowInv, NEW w \in Workers, BeginStart(w)
    PROVE  FlowInv' /\ Protocol!Start
<1>1. /\ session.status = "created" /\ session' = Moved("preparing_question")
      /\ rounds' = rounds /\ offered' = offered \cup Shown(session', rounds')
      /\ payload' = payload /\ Enter(w, "question")
  BY DEF BeginStart, CanStart, Write
<1>2. session \in SessionRow
  BY Typed
<1>3. /\ session' \in SessionRow
      /\ session'.status = "preparing_question" /\ session'.asked = session.asked
      /\ session'.done = session.done /\ session'.report = session.report
  BY <1>1, <1>2, MovedTyped, StatusSet
<1>4. ~session.report
  BY <1>1 DEF FlowInv, RoundMatchesSession
<1>5. RoundMatchesSession'
  BY <1>1, <1>3, <1>4, RoundsKept DEF Open
<1>6. Counters'
  BY <1>1, <1>3 DEF FlowInv, Counters, Open
<1>7. /\ body' \in [Workers -> BodyRow]
      /\ \A v \in Workers : v # w => body'[v] = body[v]
      /\ body'[w].stage = "question"
  BY <1>1, BodyEntered DEF Stages
<1>8. Evaluators'
  BY <1>1, <1>7, NoEvaluator DEF Evaluators, Evaluator, Ended
<1>9. FlowInv'
  BY <1>1, <1>3, <1>5, <1>6, <1>7, <1>8, Typed, WrittenFlow
<1>10. UNCHANGED <<Question, FollowupsAsked>>
  BY <1>1, <1>3, <1>9, View, ViewNext DEF Open, Viewed
<1> QED
  BY <1>1, <1>3, <1>9, <1>10 DEF Protocol!Start, Question, FollowupsAsked

(* The active round after MovedRound. *)
LEMMA MovedRoundIs ==
    ASSUME FlowInv, session.status \in Open, NEW s \in RoundStatuses
    PROVE  MovedRound(s) = [rounds EXCEPT ![session.asked] =
                              [rounds[session.asked] EXCEPT !.status = s, !.active = s \notin Closed]]
<1>1. Active = session.asked /\ session.asked \in DOMAIN rounds
      /\ rounds[session.asked] \in RoundRow
  BY LastRound
<1> QED
  BY <1>1 DEF MovedRound, Closed, RoundRow

LEMMA AnswerStep ==
    ASSUME IInv, FlowInv, NEW w \in Workers, BeginAnswer(w)
    PROVE  FlowInv' /\ Protocol!Answer
<1> DEFINE n == session.asked
           a == [by |-> worker[w].op, text |-> Task(w).answer]
           r == [rounds[n] EXCEPT !.status = "evaluating", !.active = TRUE,
                                  !.answers = Append(@, a)]
<1>1. /\ session.status = "awaiting_answer" /\ session' = Moved("evaluating")
      /\ rounds' = [MovedRound("evaluating") EXCEPT ![Active].answers = Append(@, a)]
      /\ offered' = offered \cup Shown(session', rounds')
      /\ payload' = payload /\ Enter(w, "evaluate")
      /\ Task(w).offer.kind = "answer" /\ At(w, "begin")
  BY DEF BeginAnswer, CanAnswer, Write, Begin
<1>2. session \in SessionRow
  BY Typed
<1>3. /\ session' \in SessionRow
      /\ session'.status = "evaluating" /\ session'.asked = n
      /\ session'.done = session.done /\ session'.report = session.report
  BY <1>1, <1>2, MovedTyped, StatusSet
<1>4. /\ session.status \in Open /\ Active = n /\ n \in DOMAIN rounds
      /\ rounds[n] \in RoundRow /\ ~session.report
  BY <1>1, LastRound DEF Open, FlowInv, RoundMatchesSession
<1>5. a \in AnswerRow
  <2>1. worker[w].op \in Ops
    BY <1>1 DEF IInv, TypeOK, HeldWhileWorking, At, Process, BusyLabels, BodyLabels
  <2> QED
    BY <1>1, <2>1 DEF AnswerRow, FlowInv, Payloads, Task
<1> HIDE DEF a
<1>6. Append(rounds[n].answers, a) \in Seq(AnswerRow)
  BY <1>4, <1>5, AppendProperties DEF RoundRow
<1>7. /\ r \in RoundRow /\ r.active /\ r.status = "evaluating"
      /\ r.followups = rounds[n].followups
  BY <1>4, <1>6 DEF RoundRow, RoundStatuses
<1>8. rounds' = [rounds EXCEPT ![n] = r]
  <2>1. MovedRound("evaluating") = [rounds EXCEPT ![n] =
                              [rounds[n] EXCEPT !.status = "evaluating", !.active = TRUE]]
    BY <1>4, MovedRoundIs DEF RoundStatuses, Closed
  <2> DEFINE m == [rounds[n] EXCEPT !.status = "evaluating", !.active = TRUE]
  <2>2. [m EXCEPT !.answers = Append(m.answers, a)] = r
    BY <1>4 DEF RoundRow
  <2> HIDE DEF m, r
  <2>3. rounds' = [[rounds EXCEPT ![n] = m] EXCEPT ![n].answers = Append(@, a)]
    BY <1>1, <1>4, <2>1 DEF m
  <2> QED
    BY <1>4, <2>2, <2>3
<1> HIDE DEF r
<1>9. /\ RoundMatchesSession' /\ rounds' \in Seq(RoundRow) /\ rounds'[n] = r
  BY <1>3, <1>4, <1>7, <1>8, LastReplaced DEF Closed, Answerable
<1>10. Counters'
  BY <1>1, <1>3 DEF FlowInv, Counters, Open
<1>11. /\ body' \in [Workers -> BodyRow]
       /\ \A v \in Workers : v # w => body'[v] = body[v]
       /\ body'[w].stage = "evaluate" /\ body'[w].done = session.done
       /\ body'[w].followups = rounds[n].followups
  BY <1>1, <1>4, BodyEntered DEF Stages
<1>12. Evaluators'
  BY <1>1, <1>3, <1>7, <1>9, <1>11, NoEvaluator DEF Evaluators, Evaluator, Ended
<1>13. FlowInv'
  BY <1>1, <1>3, <1>9, <1>10, <1>11, <1>12, WrittenFlow
<1>14. Question' = "evaluating" /\ FollowupsAsked' = FollowupsAsked
  BY <1>1, <1>3, <1>7, <1>9, <1>13, View, ViewNext DEF Open, Viewed
<1> QED
  BY <1>1, <1>3, <1>13, <1>14 DEF Protocol!Answer, Question, FollowupsAsked

(* The only evaluator, and what it read. *)
LEMMA EvaluatorReads ==
    ASSUME FlowInv, NEW w \in Workers, Evaluator(w), session.status = "evaluating"
    PROVE  /\ body[w].done = session.done
           /\ body[w].followups = rounds[session.asked].followups
           /\ body[w].stage = "followup" => body[w].followups < MaxFollowups
           /\ \A v \in Workers : Evaluator(v) => v = w
BY DEF FlowInv, Evaluators, Ended

(* The transaction that finishes a body ends its locals. *)
LEMMA FinishedBody ==
    ASSUME IInv, FlowInv, NEW w \in Workers, Finish(w), KeepBodies
    PROVE  /\ body' \in [Workers -> BodyRow]
           /\ body'[w] = NoBody
           /\ \A v \in Workers : body'[v] = body[v] \/ body'[v] = NoBody
<1>1. worker'[w].pc = "tail"
  BY DEF IInv, TypeOK, Finish, Goto, Become, Process
<1> QED
  BY <1>1, BodiesKept

LEMMA FollowupStep ==
    ASSUME IInv, FlowInv, NEW w \in Workers, CommitFollowup(w)
    PROVE  FlowInv' /\ Protocol!FollowUp
<1> DEFINE n == session.asked
           r == [rounds[n] EXCEPT !.status = "awaiting_followup", !.active = TRUE,
                                  !.followups = @ + 1]
<1>1. /\ session.status = "evaluating" /\ session' = Moved("awaiting_answer")
      /\ rounds' = [MovedRound("awaiting_followup") EXCEPT ![Active].followups = @ + 1]
      /\ offered' = offered \cup Shown(session', rounds')
      /\ payload' = payload /\ KeepBodies /\ Finish(w)
      /\ body[w].stage = "followup"
  BY DEF CommitFollowup, StillEvaluating, Write, In
<1>2. session \in SessionRow
  BY Typed
<1>3. /\ session' \in SessionRow
      /\ session'.status = "awaiting_answer" /\ session'.asked = n
      /\ session'.done = session.done /\ session'.report = session.report
  BY <1>1, <1>2, MovedTyped, StatusSet
<1>4. /\ session.status \in Open /\ Active = n /\ n \in DOMAIN rounds
      /\ rounds[n] \in RoundRow /\ ~session.report
  BY <1>1, LastRound DEF Open, FlowInv, RoundMatchesSession
<1>5. Evaluator(w)
  BY <1>1 DEF Evaluator
<1>6. rounds[n].followups < MaxFollowups /\ \A v \in Workers : Evaluator(v) => v = w
  BY <1>1, <1>5, EvaluatorReads
<1>7. rounds[n].followups + 1 \in 0 .. MaxFollowups
  BY <1>4, <1>6, FlowAssumption DEF RoundRow
<1>8. /\ r \in RoundRow /\ r.active /\ r.status = "awaiting_followup"
      /\ r.followups = rounds[n].followups + 1
  BY <1>4, <1>7 DEF RoundRow, RoundStatuses, Answerable
<1>9. rounds' = [rounds EXCEPT ![n] = r]
  <2>1. MovedRound("awaiting_followup") = [rounds EXCEPT ![n] =
                              [rounds[n] EXCEPT !.status = "awaiting_followup", !.active = TRUE]]
    BY <1>4, MovedRoundIs DEF RoundStatuses, Closed, Answerable
  <2> DEFINE m == [rounds[n] EXCEPT !.status = "awaiting_followup", !.active = TRUE]
  <2>2. [m EXCEPT !.followups = m.followups + 1] = r
    BY <1>4 DEF RoundRow
  <2> HIDE DEF m, r
  <2>3. rounds' = [[rounds EXCEPT ![n] = m] EXCEPT ![n].followups = @ + 1]
    BY <1>1, <1>4, <2>1 DEF m
  <2> QED
    BY <1>4, <2>2, <2>3
<1> HIDE DEF r
<1>10. /\ RoundMatchesSession' /\ rounds' \in Seq(RoundRow) /\ rounds'[n] = r
  BY <1>3, <1>4, <1>8, <1>9, LastReplaced DEF Closed, Answerable
<1>11. Counters'
  BY <1>1, <1>3 DEF FlowInv, Counters, Open
<1>12. /\ body' \in [Workers -> BodyRow] /\ body'[w] = NoBody
       /\ \A v \in Workers : body'[v] = body[v] \/ body'[v] = NoBody
  BY <1>1, FinishedBody
<1>13. \A v \in Workers : ~Evaluator(v)'
  BY <1>6, <1>12 DEF Evaluator, NoBody
<1>14. Evaluators'
  BY <1>13 DEF Evaluators
<1>15. FlowInv'
  BY <1>1, <1>3, <1>10, <1>11, <1>12, <1>14, WrittenFlow
<1>16. /\ Question' = "awaiting_followup" /\ FollowupsAsked' = FollowupsAsked + 1
       /\ FollowupsAsked < MaxFollowups
  BY <1>1, <1>3, <1>6, <1>8, <1>10, <1>15, View, ViewNext DEF Open, Viewed
<1> QED
  BY <1>1, <1>3, <1>15, <1>16 DEF Protocol!FollowUp, Question, FollowupsAsked

(* The end of an evaluation: the round is completed and counted. *)
LEMMA EvaluatedRound ==
    ASSUME FlowInv, session.status = "evaluating", rounds' = MovedRound("completed"),
           session'.asked = session.asked, session'.done = session.done + 1,
           session'.status \notin Open, session'.report <=> session'.status = "completed"
    PROVE  RoundMatchesSession' /\ rounds' \in Seq(RoundRow)
<1> DEFINE n == session.asked
           r == [rounds[n] EXCEPT !.status = "completed", !.active = FALSE]
<1>1. session.status \in Open /\ rounds[n] \in RoundRow
  BY LastRound DEF Open
<1>2. r \in RoundRow /\ ~r.active /\ r.status = "completed"
  BY <1>1 DEF RoundRow, RoundStatuses
<1>3. rounds' = [rounds EXCEPT ![n] = r]
  BY <1>1, MovedRoundIs DEF RoundStatuses, Closed
<1> HIDE DEF r
<1> QED
  BY <1>1, <1>2, <1>3, LastReplaced DEF Closed, Answerable, Open

LEMMA EvaluationStep ==
    ASSUME FlowInv, NEW w \in Workers, CommitEvaluation(w)
    PROVE  FlowInv' /\ Protocol!Prepare
<1>1. /\ session.status = "evaluating"
      /\ session' = [Moved("preparing_question") EXCEPT !.done = body[w].done + 1]
      /\ rounds' = MovedRound("completed")
      /\ offered' = offered \cup Shown(session', rounds')
      /\ payload' = payload /\ body' = [body EXCEPT ![w].stage = "next"]
      /\ body[w].stage = "evaluate" /\ body[w].done + 1 < MaxQuestions
  BY DEF CommitEvaluation, StillEvaluating, Write, In
<1>2. session \in SessionRow /\ body \in [Workers -> BodyRow]
  BY Typed
<1>3. Evaluator(w)
  BY <1>1 DEF Evaluator
<1>4. body[w].done = session.done /\ \A v \in Workers : Evaluator(v) => v = w
  BY <1>1, <1>3, EvaluatorReads
<1> DEFINE s == Moved("preparing_question")
<1>5. /\ s \in SessionRow /\ s.status = "preparing_question" /\ s.asked = session.asked
      /\ s.report = session.report
  BY <1>2, MovedTyped, StatusSet
<1> HIDE DEF s
<1>6. session.done + 1 \in 0 .. MaxQuestions
  BY <1>1, <1>2, <1>4, FlowAssumption DEF SessionRow
<1>7. session' = [s EXCEPT !.done = session.done + 1]
  BY <1>1, <1>4 DEF s
<1>8. /\ session' \in SessionRow /\ session'.status = "preparing_question"
      /\ session'.asked = session.asked /\ session'.done = session.done + 1
  BY <1>5, <1>6, <1>7 DEF SessionRow
<1>9. ~session'.report
  <2>1. ~session.report
    BY <1>1 DEF FlowInv, RoundMatchesSession
  <2> QED
    BY <1>5, <1>7, <2>1 DEF SessionRow
<1>10. RoundMatchesSession' /\ rounds' \in Seq(RoundRow)
  BY <1>1, <1>8, <1>9, EvaluatedRound DEF Open
<1>11. Counters'
  BY <1>1, <1>4, <1>8 DEF FlowInv, Counters, Open
<1>12. /\ body' \in [Workers -> BodyRow]
       /\ \A v \in Workers : body'[v].stage = IF v = w THEN "next" ELSE body[v].stage
  BY <1>1, <1>2 DEF BodyRow, Stages
<1>13. \A v \in Workers : ~Evaluator(v)'
  BY <1>4, <1>12 DEF Evaluator
<1>14. Evaluators'
  BY <1>13 DEF Evaluators
<1>15. FlowInv'
  BY <1>1, <1>8, <1>10, <1>11, <1>12, <1>14, WrittenFlow
<1>16. Question' = "none" /\ FollowupsAsked' = 0
  BY <1>8, <1>15, ViewNext DEF Open, Viewed
<1> QED
  BY <1>1, <1>4, <1>8, <1>15, <1>16
  DEF Protocol!Prepare, Protocol!NoQuestion, Question, FollowupsAsked

LEMMA ReportStep ==
    ASSUME IInv, FlowInv, NEW w \in Workers, CommitReport(w)
    PROVE  FlowInv' /\ Protocol!Complete
<1>1. /\ session.status = "evaluating"
      /\ session' = [Moved("completed") EXCEPT !.done = body[w].done + 1, !.report = TRUE]
      /\ rounds' = MovedRound("completed")
      /\ offered' = offered \cup Shown(session', rounds')
      /\ payload' = payload /\ KeepBodies /\ Finish(w)
      /\ body[w].stage = "evaluate"
  BY DEF CommitReport, StillEvaluating, Write, In
<1>2. session \in SessionRow
  BY Typed
<1>3. Evaluator(w)
  BY <1>1 DEF Evaluator
<1>4. body[w].done = session.done
  BY <1>1, <1>3, EvaluatorReads
<1> DEFINE s == Moved("completed")
<1>5. /\ s \in SessionRow /\ s.status = "completed" /\ s.asked = session.asked
  BY <1>2, MovedTyped, StatusSet
<1> HIDE DEF s
<1>6. session.done + 1 \in 0 .. MaxQuestions
  BY <1>1, <1>2, FlowAssumption DEF SessionRow, FlowInv, Counters, Open
<1>7. session' = [s EXCEPT !.done = session.done + 1, !.report = TRUE]
  BY <1>1, <1>4 DEF s
<1>8. /\ session' \in SessionRow /\ session'.status = "completed"
      /\ session'.asked = session.asked /\ session'.done = session.done + 1
  BY <1>5, <1>6, <1>7 DEF SessionRow
<1>9. session'.report
  BY <1>5, <1>7 DEF SessionRow
<1>10. RoundMatchesSession' /\ rounds' \in Seq(RoundRow)
  BY <1>1, <1>8, <1>9, EvaluatedRound DEF Open
<1>11. Counters' /\ Evaluators'
  BY <1>8 DEF Counters, Open, Evaluators, Ended
<1>12. body' \in [Workers -> BodyRow]
  BY <1>1, FinishedBody
<1>13. FlowInv'
  BY <1>1, <1>8, <1>10, <1>11, <1>12, WrittenFlow
<1>14. Question' = "none" /\ FollowupsAsked' = 0
  BY <1>8, <1>13, ViewNext DEF Open, Viewed
<1> QED
  BY <1>1, <1>8, <1>13, <1>14
  DEF Protocol!Complete, Protocol!NoQuestion, Question, FollowupsAsked

LEMMA QuestionStep ==
    ASSUME IInv, FlowInv, NEW w \in Workers, CommitQuestion(w)
    PROVE  FlowInv' /\ Protocol!Ask
<1>1. /\ session.status = "preparing_question"
      /\ session' = [Moved("awaiting_answer") EXCEPT !.asked = @ + 1]
      /\ rounds' = Append(rounds, NewRound)
      /\ offered' = offered \cup Shown(session', rounds')
      /\ payload' = payload /\ KeepBodies /\ Finish(w)
  BY DEF CommitQuestion, Write
<1>2. session \in SessionRow
  BY Typed
<1> DEFINE s == Moved("awaiting_answer")
<1>3. /\ s \in SessionRow /\ s.status = "awaiting_answer" /\ s.asked = session.asked
      /\ s.done = session.done /\ s.report = session.report
  BY <1>2, MovedTyped, StatusSet
<1>4. session' = [s EXCEPT !.asked = s.asked + 1]
  BY <1>1
<1> HIDE DEF s
<1>5. s.asked + 1 \in 0 .. MaxQuestions
  BY <1>1, <1>2, <1>3, FlowAssumption DEF SessionRow, FlowInv, Counters
<1>6. /\ session' \in SessionRow /\ session'.status = "awaiting_answer"
      /\ session'.asked = session.asked + 1 /\ session'.done = session.done
  BY <1>3, <1>4, <1>5 DEF SessionRow
<1>7. ~session'.report
  <2>1. ~session.report
    BY <1>1 DEF FlowInv, RoundMatchesSession
  <2> QED
    BY <1>3, <1>4, <2>1 DEF SessionRow
<1>8. /\ RoundMatchesSession' /\ rounds' \in Seq(RoundRow)
      /\ rounds'[session'.asked] = NewRound
  BY <1>1, <1>6, <1>7, RoundAppended DEF Open
<1>9. Counters'
  BY <1>1, <1>6 DEF FlowInv, Counters, Open
<1>10. /\ body' \in [Workers -> BodyRow]
       /\ \A v \in Workers : body'[v] = body[v] \/ body'[v] = NoBody
  BY <1>1, FinishedBody
<1>11. \A v \in Workers : ~Evaluator(v)'
  BY <1>1, <1>10, NoEvaluator DEF Evaluator, NoBody, Ended
<1>12. Evaluators'
  BY <1>11 DEF Evaluators
<1>13. FlowInv'
  BY <1>1, <1>6, <1>8, <1>9, <1>10, <1>12, WrittenFlow
<1>14. NewRound.status = "awaiting_answer" /\ NewRound.followups = 0
  BY DEF NewRound
<1>15. Question' = "awaiting_answer" /\ FollowupsAsked' = 0
  BY <1>6, <1>8, <1>13, <1>14, ViewNext DEF Open, Viewed
<1>16. FollowupsAsked = 0
  <2>1. session.status \notin Open
    BY <1>1 DEF Open
  <2> QED
    BY <2>1, View DEF Viewed
<1> QED
  BY <1>1, <1>6, <1>13, <1>15, <1>16 DEF Protocol!Ask, Question, FollowupsAsked

(* abort and _fail_session: the active round fails, if there is one. *)
LEMMA EndStep ==
    ASSUME FlowInv, ~Ended, NEW s \in {"failed", "aborted"},
           session' = Moved(s), rounds' = FailedActive,
           offered' = offered \cup Shown(session', rounds'), payload' = payload,
           body' \in [Workers -> BodyRow]
    PROVE  /\ FlowInv' /\ session'.status = s /\ session'.asked = session.asked
           /\ session'.done = session.done
           /\ Question' = "none" /\ FollowupsAsked' = 0
<1>1. session \in SessionRow /\ s \in SessionStatuses
  BY Typed, StatusSet
<1>2. /\ session' \in SessionRow /\ session'.status = s /\ session'.asked = session.asked
      /\ session'.done = session.done /\ session'.report = session.report
  BY <1>1, MovedTyped
<1>3. ~session'.report
  BY <1>2 DEF FlowInv, RoundMatchesSession, Ended
<1>4. RoundMatchesSession' /\ rounds' \in Seq(RoundRow)
  <2>1. CASE session.status \in Open
    <3> DEFINE n == session.asked
               r == [rounds[n] EXCEPT !.status = "failed", !.active = FALSE]
    <3>1. rounds[n] \in RoundRow /\ Actives = {n} /\ n \in DOMAIN rounds
      BY <2>1, LastRound
    <3>2. r \in RoundRow /\ ~r.active /\ r.status = "failed"
      BY <3>1 DEF RoundRow, RoundStatuses
    <3>3. \A i \in DOMAIN rounds : rounds[i].active <=> i = n
      BY <3>1 DEF Actives
    <3>4. rounds' = [i \in DOMAIN rounds |-> IF i = n THEN r ELSE rounds[i]]
      BY <3>1, <3>3 DEF FailedActive
    <3>5. rounds' = [rounds EXCEPT ![n] = r]
      BY <3>1, <3>4, Typed
    <3> HIDE DEF r
    <3> QED
      BY <1>2, <1>3, <2>1, <3>2, <3>5, LastReplaced DEF Closed, Answerable
  <2>2. CASE session.status \notin Open
    <3>1. Actives = {} /\ rounds \in Seq(RoundRow)
      BY <2>2, LastRound
    <3>2. \A i \in DOMAIN rounds : ~rounds[i].active
      BY <3>1 DEF Actives
    <3>3. rounds' = [i \in DOMAIN rounds |-> rounds[i]]
      BY <3>2 DEF FailedActive
    <3>4. rounds' = rounds
      BY <3>1, <3>3, LenProperties
    <3> QED
      BY <1>2, <1>3, <2>2, <3>1, <3>4, RoundsKept DEF Open
  <2> QED
    BY <2>1, <2>2
<1>5. Counters' /\ Evaluators'
  BY <1>2 DEF Counters, Open, Evaluators, Ended
<1>6. FlowInv'
  BY <1>2, <1>4, <1>5, WrittenFlow
<1>7. Question' = "none" /\ FollowupsAsked' = 0
  BY <1>2, <1>6, ViewNext DEF Open, Viewed
<1> QED
  BY <1>2, <1>6, <1>7

LEMMA AbortStep == ASSUME FlowInv, AbortSession PROVE FlowInv' /\ Protocol!Abort
<1>1. /\ session' = Moved("aborted") /\ rounds' = FailedActive
      /\ offered' = offered \cup Shown(session', rounds')
      /\ payload' = payload /\ body' = body
      /\ ~Ended
  BY NoWriteAfterEnd DEF AbortSession, Write
<1>2. /\ FlowInv' /\ session'.status = "aborted" /\ session'.asked = session.asked
      /\ session'.done = session.done
      /\ Question' = "none" /\ FollowupsAsked' = 0
  BY <1>1, Typed, EndStep
<1> QED
  BY <1>1, <1>2
  DEF Protocol!Abort, Protocol!NoQuestion, Protocol!Closed, Question, FollowupsAsked, Ended

(* The mapped variables. *)
Mapped == <<session.status, Question, session.asked, session.done, FollowupsAsked>>

LEMMA SameMapped ==
    ASSUME SameSession
    PROVE  UNCHANGED Mapped
BY DEF SameSession, Mapped, Question, FollowupsAsked, Actives, Active

LEMMA FailStep ==
    ASSUME FlowInv, NEW w \in Workers, FailInterview(w)
    PROVE  FlowInv' /\ (Protocol!Fail \/ UNCHANGED Mapped)
<1>1. payload' = payload /\ KeepBodies /\ FailSession
  BY DEF FailInterview
<1>2. /\ body' \in [Workers -> BodyRow]
      /\ \A v \in Workers : body'[v] = body[v] \/ body'[v] = NoBody
  BY <1>1, BodiesKept
<1>3. CASE SameSession
  <2>1. FlowInv'
    BY <1>1, <1>2, <1>3, QuietFlow DEF Evaluator, NoBody
  <2> QED
    BY <1>3, <2>1, SameMapped
<1>4. CASE ~SameSession
  <2>1. /\ session.status \in {"preparing_question", "evaluating"}
        /\ session' = Moved("failed") /\ rounds' = FailedActive
        /\ offered' = offered \cup Shown(session', rounds')
    BY <1>1, <1>4 DEF FailSession, Write
  <2>2. /\ FlowInv' /\ session'.status = "failed" /\ session'.asked = session.asked
        /\ session'.done = session.done
        /\ Question' = "none" /\ FollowupsAsked' = 0
    BY <1>1, <1>2, <2>1, EndStep DEF Ended
  <2> QED
    BY <2>1, <2>2 DEF Protocol!Fail, Protocol!NoQuestion, Question, FollowupsAsked
<1> QED
  BY <1>3, <1>4

(* Steps that leave the session alone. *)
LEMMA QuietSteps ==
    ASSUME FlowInv, NEW w \in Workers,
           \/ BeginRestart(w) \/ BeginRecover(w) \/ BeginResume(w)
           \/ Refuse(w) \/ ChooseFollowup(w) \/ QueueStep(w)
    PROVE  FlowInv' /\ UNCHANGED Mapped
<1>1. SameSession /\ payload' = payload
  BY DEF BeginRestart, BeginRecover, BeginResume, Refuse, ChooseFollowup, QueueStep
<1>2. CASE Refuse(w) \/ QueueStep(w)
  <2>1. KeepBodies
    BY <1>2 DEF Refuse, QueueStep
  <2>2. /\ body' \in [Workers -> BodyRow]
        /\ \A v \in Workers : body'[v] = body[v] \/ body'[v] = NoBody
    BY <2>1, BodiesKept
  <2> QED
    BY <1>1, <2>2, QuietFlow, SameMapped DEF Evaluator, NoBody
<1>3. CASE BeginRestart(w) \/ BeginRecover(w) \/ BeginResume(w)
  <2>1. PICK st \in {"question", "broken", "resume"} : Enter(w, st)
    BY <1>3 DEF BeginRestart, BeginRecover, BeginResume
  <2>2. /\ body' \in [Workers -> BodyRow]
        /\ \A v \in Workers : v # w => body'[v] = body[v]
        /\ body'[w].stage = st
    BY <2>1, BodyEntered DEF Stages
  <2> QED
    BY <1>1, <2>2, QuietFlow, SameMapped DEF Evaluator
<1>4. CASE ChooseFollowup(w)
  <2>1. /\ body' = [body EXCEPT ![w].stage = "followup"]
        /\ body[w].stage = "evaluate" /\ body[w].followups < MaxFollowups
    BY <1>4 DEF ChooseFollowup, In
  <2>2. body \in [Workers -> BodyRow]
    BY Typed
  <2>3. /\ body' \in [Workers -> BodyRow]
        /\ \A v \in Workers : v # w => body'[v] = body[v]
        /\ body'[w].done = body[w].done /\ body'[w].followups = body[w].followups
    BY <2>1, <2>2 DEF BodyRow, Stages
  <2> QED
    BY <1>1, <2>1, <2>3, QuietFlow, SameMapped DEF Evaluator
<1> QED
  BY <1>2, <1>3, <1>4

LEMMA SubmitStep ==
    ASSUME FlowInv, NEW o \in Ops, NEW q \in offered, NEW a \in Answers \cup {NoAnswer},
           Submit(o, q, a)
    PROVE  FlowInv' /\ UNCHANGED Mapped
<1>1. /\ SameSession /\ body' = body
      /\ payload' = [payload EXCEPT ![o] = [offer |-> q, answer |-> a]]
      /\ q.kind = "answer" => a \in Answers
  BY DEF Submit
<1>2. q \in OfferRow
  BY Typed
<1>3. /\ \A p \in Ops : payload'[p] = IF p = o THEN [offer |-> q, answer |-> a] ELSE payload[p]
      /\ payload' \in [Ops -> [offer : Offers("none") \cup Offers("start") \cup Offers("answer"),
                               answer : Answers \cup {NoAnswer}]]
  BY <1>1, <1>2 DEF FlowInv, FlowTypeOK, OfferRow
<1>4. FlowTypeOK'
  BY <1>1, <1>3 DEF FlowInv, FlowTypeOK, SameSession
<1>5. RoundMatchesSession' /\ Counters'
  BY <1>1 DEF FlowInv, RoundMatchesSession, Counters, SameSession, Actives
<1>6. Evaluators'
  BY <1>1 DEF FlowInv, Evaluators, Evaluator, Ended, SameSession
<1>7. Payloads'
  BY <1>1, <1>3 DEF FlowInv, Payloads, SameSession, NoPayload, Offer, FreshSession
<1> QED
  BY <1>1, <1>4, <1>5, <1>6, <1>7, SameMapped DEF FlowInv

-----------------------------------------------------------------------------
(* The theorems.                                                           *)

LEMMA FlowInitially == FlowInit => FlowInv /\ Protocol!SessionInit
<1> SUFFICES ASSUME FlowInit PROVE FlowInv /\ Protocol!SessionInit
  OBVIOUS
<1>1. /\ session \in SessionRow /\ ~session.report /\ session.done = 0
      /\ \/ session.status = "created" /\ session.asked = 0 /\ rounds = <<>>
         \/ session.status = "awaiting_answer" /\ session.asked = 1 /\ rounds = <<NewRound>>
  <2>1. /\ FreshSession \in SessionRow /\ ~FreshSession.report /\ FreshSession.done = 0
        /\ FreshSession.status = "created" /\ FreshSession.asked = 0
    BY FlowAssumption, StatusSet DEF FreshSession, SessionRow
  <2>2. /\ AskedSession \in SessionRow
        /\ AskedSession.status = "awaiting_answer" /\ AskedSession.asked = 1
    <3>1. 1 \in 0 .. MaxQuestions /\ "awaiting_answer" \in SessionStatuses
      BY FlowAssumption, StatusSet
    <3>2. AskedSession \in SessionRow
      BY <2>1, <3>1 DEF AskedSession, SessionRow
    <3>3. AskedSession.status = "awaiting_answer" /\ AskedSession.asked = 1
      BY <2>1 DEF AskedSession, SessionRow
    <3> QED
      BY <3>2, <3>3
  <2>3. AskedSession.done = FreshSession.done /\ AskedSession.report = FreshSession.report
    BY <2>1 DEF AskedSession, SessionRow
  <2> QED
    BY <2>1, <2>2, <2>3 DEF FlowInit
<1>2. NewRound \in RoundRow
  BY FlowAssumption, EmptySeq DEF NewRound, RoundRow, RoundStatuses, Answerable
<1>3. NewRound.status = "awaiting_answer" /\ NewRound.active /\ NewRound.followups = 0
  BY DEF NewRound
<1>4. rounds \in Seq(RoundRow) /\ Len(rounds) = session.asked
      /\ DOMAIN rounds = 1 .. session.asked
      /\ \A i \in DOMAIN rounds : rounds[i] = NewRound
  <2> HIDE DEF NewRound
  <2>1. CASE session.asked = 0 /\ rounds = <<>>
    BY <2>1, EmptySeq
  <2>2. CASE session.asked = 1 /\ rounds = <<NewRound>>
    BY <1>2, <2>2
  <2> QED
    BY <1>1, <2>1, <2>2
<1>5. Actives = 1 .. session.asked
  BY <1>3, <1>4 DEF Actives
<1>6. Cardinality({i \in DOMAIN rounds : rounds[i].status = "completed"}) = 0
  <2>1. {i \in DOMAIN rounds : rounds[i].status = "completed"} = {}
    BY <1>3, <1>4
  <2> QED
    BY <2>1, FS_EmptySet
<1>7. RoundMatchesSession
  BY <1>1, <1>3, <1>4, <1>5, <1>6 DEF RoundMatchesSession, Answerable
<1>8. offered \subseteq OfferRow
  <2>1. \A k \in {"start", "answer"} : Offer(k, session, 0) \in OfferRow
    BY <1>1, FlowAssumption DEF Offer, OfferRow, Offers, SessionRow
  <2> QED
    BY <1>1, <1>3, <2>1 DEF FlowInit, Shown
<1>9. body \in [Workers -> BodyRow] /\ \A w \in Workers : body[w] = NoBody
  BY NoBodyTyped DEF FlowInit
<1>10. /\ payload \in [Ops -> [offer : Offers("none") \cup Offers("start") \cup Offers("answer"),
                               answer : Answers \cup {NoAnswer}]]
       /\ Payloads
  BY FlowAssumption DEF FlowInit, NoPayload, Payloads, Offer, Offers, FreshSession
<1>11. FlowTypeOK
  BY <1>1, <1>4, <1>8, <1>9, <1>10
  DEF FlowTypeOK, SessionRow, RoundRow, AnswerRow, OfferRow, BodyRow
<1>12. Counters
  BY <1>1, FlowAssumption DEF Counters, Open
<1>13. Evaluators
  BY <1>9 DEF Evaluators, Evaluator, NoBody
<1>14. FlowInv
  BY <1>7, <1>10, <1>11, <1>12, <1>13 DEF FlowInv
<1>15. Viewed
  BY <1>14, View
<1>16. /\ FollowupsAsked = 0
       /\ Question = IF session.status = "created" THEN "none" ELSE "awaiting_answer"
  BY <1>1, <1>3, <1>4, <1>15 DEF Viewed, Open
<1> QED
  BY <1>1, <1>14, <1>16 DEF Protocol!SessionInit, Question, FollowupsAsked

LEMMA FlowStep ==
    ASSUME IInv, FlowInv, [FlowNext]_allVars
    PROVE  FlowInv' /\ (Protocol!SessionNext \/ UNCHANGED Mapped)
<1>1. ASSUME NEW o \in Ops, Elapse(o)
      PROVE  FlowInv' /\ UNCHANGED Mapped
  BY <1>1, Typed, QuietFlow, SameMapped DEF Elapse, flowVars, SameSession, Evaluator
<1>2. CASE \E o \in Ops, q \in offered, a \in Answers \cup {NoAnswer} : Submit(o, q, a)
  BY <1>2, SubmitStep
<1>3. CASE AbortSession
  BY <1>3, AbortStep DEF Protocol!SessionNext
<1>4. ASSUME NEW w \in Workers, Transaction(w)
      PROVE  FlowInv' /\ (Protocol!SessionNext \/ UNCHANGED Mapped)
  BY <1>4, StartStep, AnswerStep, FollowupStep, EvaluationStep, ReportStep, QuestionStep,
     QuietSteps
  DEF Transaction, Protocol!SessionNext
<1>5. ASSUME NEW w \in Workers, FailInterview(w) \/ QueueStep(w)
      PROVE  FlowInv' /\ (Protocol!SessionNext \/ UNCHANGED Mapped)
  BY <1>5, FailStep, QuietSteps DEF Protocol!SessionNext
<1>6. CASE UNCHANGED allVars
  BY <1>6, Typed, QuietFlow, SameMapped DEF allVars, SameSession, Evaluator
<1> QED
  BY <1>1, <1>2, <1>3, <1>4, <1>5, <1>6 DEF FlowNext

LEMMA FlowInductive == FlowSpec => []FlowInv
<1>1. FlowInit => FlowInv
  BY FlowInitially
<1>2. IInv /\ FlowInv /\ [FlowNext]_allVars => FlowInv'
  BY FlowStep
<1> QED
  BY <1>1, <1>2, FlowInvariant, PTL DEF FlowSpec

(* Rows and locals keep their shape, and no interleaving of bodies,        *)
(* take-overs, aborts and failures exceeds max_questions or max_followups. *)
THEOREM FlowTypeCorrect == FlowSpec => []FlowTypeOK
<1>1. FlowInv => FlowTypeOK
  BY DEF FlowInv
<1> QED
  BY <1>1, FlowInductive, PTL

(* The session row and the round rows, which different transactions write, *)
(* always agree.                                                           *)
THEOREM RoundsAgree == FlowSpec => []RoundMatchesSession
<1>1. FlowInv => RoundMatchesSession
  BY DEF FlowInv
<1> QED
  BY <1>1, FlowInductive, PTL

(* Every committed transaction of the flow is a step of the session        *)
(* protocol that domain.py describes.                                      *)
THEOREM FlowImplementsSession == FlowSpec => ImplementsSession
<1>1. FlowInit => Protocol!SessionInit
  BY FlowInitially
<1>2. IInv /\ FlowInv /\ [FlowNext]_allVars => [Protocol!SessionNext]_(Protocol!sessionVars)
  BY FlowStep DEF Mapped, Question, FollowupsAsked, Protocol!sessionVars
<1> QED
  BY <1>1, <1>2, FlowInductive, FlowInvariant, PTL
  DEF FlowSpec, ImplementsSession, Protocol!SessionSpec

=============================================================================
