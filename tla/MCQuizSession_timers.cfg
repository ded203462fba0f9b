CONSTANTS
  Take = {t1, t2}
  Submit = {p1}
  Answer = {}
  Server = {v1, v2}
  Question = {q1, q2}
  SingleChoice = {q1}
  Durations <- TwoDurations
  MaxDelay = 1
  MaxNow = 2
  MaxCrashes = 1
SYMMETRY Symmetry
SPECIFICATION Spec
INVARIANTS
  TimerCoverage
  RegistrySound
  ResultIsShown
CHECK_DEADLOCK FALSE
