------------------------ MODULE MCInterviewOperation ------------------------
EXTENDS InterviewOperation, TLC

MCSymmetry == Permutations(Workers)
=============================================================================
