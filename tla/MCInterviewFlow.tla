--------------------------- MODULE MCInterviewFlow --------------------------
EXTENDS InterviewFlow, TLC

MCSymmetry == Permutations(Workers) \cup Permutations(Answers)

(* Bound, of steps: a session is followed to its end.  What ended is        *)
(* frozen (theorem EndIsFinal), so later steps add nothing to what is said  *)
(* of session and rounds.                                                   *)
MCUntilEnd == session.status \notin {"completed", "failed", "aborted"}
=============================================================================
