CONSTANTS
  Take = {t1, t2}
  Submit = {p1}
  Answer = {a1}
  Server = {v1, v2}
  Question = {q1}
  SingleChoice = {q1}
  Durations <- OneDuration
  MaxDelay = 2
  MaxNow = 1
  MaxCrashes = 0
SPECIFICATION FairSpec
INVARIANTS
  ScoreWithinHundred
  ScoreMatchesAnswers
PROPERTY AutoSubmit
CHECK_DEADLOCK FALSE
