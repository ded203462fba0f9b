--------------------------- MODULE MCCertificates ----------------------------
(* Either a student attends, in two rows perhaps, and a job asks how long; or   *)
(* nobody does, and two jobs meet, or one meets itself.                        *)
EXTENDS Certificates, TLC

CONSTANTS ann, ben, c1, c2, j1, j2, f1

Scores(d, f) == [q \in QuizType |-> IF q = "daily" THEN d ELSE f]

MCAverages == ann :> Scores({2, 4}, {0}) @@ ben :> Scores({4}, {3})

HowLong == [who |-> <<ann>>, score |-> Scores(0, 0), attended |-> 1]
Both    == [who |-> <<ann, ben>>, score |-> Scores(4, 0), attended |-> 0]

\* A minimum below zero, which the dto lets pass, is reached by everyone.
Twice   == [who |-> <<ann, ann>>, score |-> Scores(4, 0), attended |-> -1]
Again   == [who |-> <<ann>>, score |-> Scores(2, 2), attended |-> -1]

MCRequests == j1 :> {HowLong, Both, Twice} @@ j2 :> {Again}

ClassIsLogged ==
  /\ attends = {ann} /\ asked[j1] = HowLong /\ grade[ann]["daily"] = 4
  /\ job[j1].waits /\ ~job[j2].waits
JobsMeet ==
  attends = {} /\ asked[j1] = Both /\ (\A j \in Job : job[j].waits) /\ grade[ann]["daily"] = 4
JobMeetsItself == attends = {} /\ asked[j1] = Twice /\ job[j1].waits /\ ~job[j2].waits

MCInit == Init /\ (ClassIsLogged \/ JobsMeet \/ JobMeetsItself)

MCSpec == MCInit /\ [][Next]_vars /\ Fairness
=============================================================================
