---------------------------- MODULE MCQuizSession ----------------------------
(***************************************************************************)
(* QuizSession on small instances.  Two calls of takeQuiz are the first    *)
(* take and a resume, or two first takes at once; two servers let a resume *)
(* or a submission miss the process that holds the timer.                  *)
(***************************************************************************)
EXTENDS QuizSession, TLC

OneDuration  == {1}
TwoDurations == {1, 2}
Symmetry == Permutations(Server) \cup Permutations(Take)
=============================================================================
