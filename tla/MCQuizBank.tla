----------------------------- MODULE MCQuizBank ------------------------------
(* Two curriculums, a quiz of four questions, two of one text to import, and three requests. *)
EXTENDS QuizBank, TLC

CONSTANTS r1, r2, r3, own, other, t1, t2

Draft(title, level, c) == [title |-> title, level |-> level, cur |-> c]
MCDrafts == {Draft(t1, "medium", None), Draft(t2, "hard", other)}

MCInitially == {Row(<<None, 1>>, Draft(t1, "easy", own)), Row(<<None, 2>>, Draft(t1, "medium", own)),
                Row(<<None, 3>>, Draft(t1, "hard", own)), Row(<<None, 4>>, Draft(t2, "easy", own))}
MCElsewhere == {Row(<<None, 5>>, Draft(t1, "easy", other)), Row(<<None, 6>>, Draft(t1, "easy", other))}

\* Shares that add up and do not, one that is negative, with a total that rounds up and
\* one that does not.
Percent(easy, medium, hard, total) ==
  [easy |-> easy, medium |-> medium, hard |-> hard, total |-> total]
MCOptions == {Percent(100, 0, 0, 2), Percent(34, 33, 33, 2), Percent(100, 100, 100, 1),
              Percent(-100, 100, 100, 1)}

Symmetry == Permutations(Request)
=============================================================================
