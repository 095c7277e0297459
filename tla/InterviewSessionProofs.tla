----------------------- MODULE InterviewSessionProofs -----------------------
(* Proofs about the abstract session, for every pair of budgets. *)
EXTENDS InterviewSession, TLAPS

(* One question at a time, within both budgets, whatever the budgets are:   *)
(* SessionConsistent is inductive as it stands.                             *)
THEOREM SessionSafe == Budgets => (SessionSpec => []SessionConsistent)
<1> SUFFICES ASSUME Budgets PROVE SessionSpec => []SessionConsistent
  OBVIOUS
<1> USE DEF Budgets
<1>1. SessionInit => SessionConsistent
  BY DEF SessionInit, SessionConsistent, Phases, Questions, Answerable
<1>2. SessionConsistent /\ [SessionNext]_sessionVars => SessionConsistent'
  <2> SUFFICES ASSUME SessionConsistent, [SessionNext]_sessionVars
               PROVE  SessionConsistent'
    OBVIOUS
  <2> USE DEF SessionConsistent, Phases, Questions, Answerable
  <2>1. CASE Start
    BY <2>1 DEF Start
  <2>2. CASE Ask
    BY <2>2 DEF Ask
  <2>3. CASE Answer
    BY <2>3 DEF Answer
  <2>4. CASE FollowUp
    BY <2>4 DEF FollowUp
  <2>5. CASE Prepare
    BY <2>5 DEF Prepare, NoQuestion
  <2>6. CASE Complete
    BY <2>6 DEF Complete, NoQuestion
  <2>7. CASE Fail
    BY <2>7 DEF Fail, NoQuestion
  <2>8. CASE Abort
    BY <2>8 DEF Abort, NoQuestion
  <2>9. CASE UNCHANGED sessionVars
    BY <2>9 DEF sessionVars
  <2> QED BY <2>1, <2>2, <2>3, <2>4, <2>5, <2>6, <2>7, <2>8, <2>9 DEF SessionNext
<1> QED BY <1>1, <1>2, PTL DEF SessionSpec
=============================================================================
