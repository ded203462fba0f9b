---------------------------- MODULE Certificates -----------------------------
(***************************************************************************)
(* Certificates of one course (certificates/certificates.consumer.ts and   *)
(* certificates.service.ts), granted for quiz scores and for attendance.   *)
(*                                                                         *)
(* A queued job lists students and minimums; a worker of any server        *)
(* process takes it, reads the course once, and works on all its students  *)
(* at once.  What it decides is stored, numbered and sent to an external   *)
(* generator, whose answer finds the certificate by its number.  A worker  *)
(* may die at any step; Bull gives its job to a worker once more.          *)
(***************************************************************************)
EXTENDS Attendance

CONSTANTS
  Job,           \* generator-certificate jobs
  Averages,      \* what each student's averages may be and, as more is scored, become
  Requests,      \* what each job may ask: whom, which averages, how much attendance
  Point,         \* parts of a point of score; the column holds whole points
  MaxPlaces,     \* bound: students listed in a job
  MaxDone,       \* bound: certificates ever made
  Early          \* bound: the jobs that may run before the class is over

QuizType == {"daily", "final"}
Place == 1 .. MaxPlaces
NoQuiz == -1                        \* the average of nothing
Average == {a \in Int : a >= NoQuiz}
Request == [who : Seq(Student), score : [QuizType -> Int], attended : Int]

ASSUME AveragesAreAverages == Averages \in [Student -> [QuizType -> SUBSET Average]]
ASSUME RequestsAreJobs ==
  \A j \in Job : \A r \in Requests[j] : r \in Request /\ Len(r.who) <= MaxPlaces
ASSUME PointsHaveParts == Point \in Nat \ {0}
ASSUME CertificateBounds == MaxPlaces \in Nat /\ MaxDone \in Nat /\ Early \subseteq Job

VARIABLES
  grade,       \* each student's averages
  asked,       \* what each job asks
  job,         \* whether it waits, how often it ran, and the attendance it read
  task,        \* a job's work on the student at a place of its list
  cert,        \* Certificate rows, by id
  sent,        \* certificate.generate events whose answers were not handled yet
  overlap,     \* history: students two tasks worked on at once
  drawn,       \* history: whose task has read which number
  unsent       \* history: certificates whose task ended before their event

certVars == <<grade, asked, job, task, cert, sent, overlap, drawn, unsent>>
vars == <<attendanceVars, certVars>>

None == 0
NoWork == [pc |-> "off", user |-> Nobody, average |-> [q \in QuizType |-> NoQuiz],
         number |-> None, id |-> None, made |-> FALSE]
Active(j, p) == task[j][p].pc \notin {"off", "done", "failed"}
WorksOn(j, p, u) == Active(j, p) /\ task[j][p].user = u
CertificatesOf(u) == {i \in DOMAIN cert : cert[i].user = u}

Init ==
  /\ AttendanceInit
  /\ grade \in [Student -> [QuizType -> UNION {Averages[u][q] : u \in Student, q \in QuizType}]]
  /\ \A u \in Student, q \in QuizType : grade[u][q] \in Averages[u][q]
  /\ asked \in [Job -> UNION {Requests[j] : j \in Job}]
  /\ \A j \in Job : asked[j] \in Requests[j]
  /\ job \in [Job -> [waits : BOOLEAN, runs : {0}, credit : {[u \in Student |-> 0]}]]
  /\ task = [j \in Job |-> [p \in Place |-> NoWork]]
  /\ cert = <<>> /\ sent = {} /\ overlap = {} /\ drawn = {} /\ unsent = {}

-----------------------------------------------------------------------------
(* The consumer *)

\* More of a student's quizzes are scored.  The average of no quizzes stays one.
ScoreRises(u, q) ==
  /\ grade[u][q] # NoQuiz
  /\ \E a \in Averages[u][q] : a > grade[u][q] /\ grade' = [grade EXCEPT ![u][q] = a]
  /\ UNCHANGED <<attendanceVars, asked, job, task, cert, sent, overlap, drawn, unsent>>

\* generateCertificate has checked that the students listed are enrolled, not that
\* each is listed once.  The course is read, with the rows of its live classes.
\* bound: a job that is not early waits until the class is over.
StartJob(j) ==
  /\ job[j].waits
  /\ j \in Early \/ (now = MaxNow /\ writes = {} /\ \A u \in Student :
                       hooks[u] = <<>> /\ \A c \in Call : call[u][c].pc = "off")
  /\ LET who == asked[j].who IN
     /\ task' = [task EXCEPT ![j] = [p \in Place |->
          IF p \in DOMAIN who THEN [NoWork EXCEPT !.pc = "number", !.user = who[p]] ELSE NoWork]]
     /\ overlap' = overlap \cup {u \in Student : \E p \in DOMAIN who : who[p] = u /\
          \/ \E o \in DOMAIN who \ {p} : who[o] = u
          \/ \E k \in Job \ {j}, o \in Place : WorksOn(k, o, u)}
  /\ job' = [job EXCEPT ![j] = [waits |-> FALSE, runs |-> @.runs + 1,
                                credit |-> [u \in Student |-> Credit(u)]]]
  /\ UNCHANGED <<attendanceVars, grade, asked, cert, sent, drawn, unsent>>

\* The worker process dies.  Bull gives the job to another once, and fails it the
\* second time; a job that has failed already is not run again.
Die(j) ==
  /\ \E p \in Place : Active(j, p)
  /\ task' = [task EXCEPT ![j] = [p \in Place |-> NoWork]]
  /\ job' = [job EXCEPT ![j].waits =
               job[j].runs = 1 /\ \A p \in Place : task[j][p].pc # "failed"]
  /\ unsent' = unsent \cup {task[j][p].id : p \in {o \in Place : task[j][o].made}}
  /\ UNCHANGED <<attendanceVars, grade, asked, cert, sent, overlap, drawn>>

\* Given and not zero: then an average must reach it.  The average of nothing reaches none.
MinimumsOf(r) == {q \in QuizType : r.score[q] # 0}
Reaches(average, r, q) == average[q] # NoQuiz /\ average[q] >= r.score[q]

\* Mutant: one of the minimums is enough.
Competent_Any(average, r) == \E q \in MinimumsOf(r) : Reaches(average, r, q)

Competent(average, r) ==
  MinimumsOf(r) # {} /\ \A q \in MinimumsOf(r) : Reaches(average, r, q)

Participated(j, u) == asked[j].attended # 0 /\ job[j].credit[u] >= asked[j].attended

Step(j, p, pc) == task' = [task EXCEPT ![j][p].pc = pc]
At(j, p, pc) == task[j][p].pc = pc
AfterCompetence(j, p) == IF Participated(j, task[j][p].user) THEN "findP" ELSE "done"

\* The number is one more than the last id, or 1.
NextNumber == Len(cert) + 1

\* The scores are read and judged, and the number is read.
ReadNumber(j, p) ==
  LET u == task[j][p].user IN
  /\ At(j, p, "number")
  /\ task' = [task EXCEPT ![j][p] =
       [@ EXCEPT !.number = NextNumber, !.average = grade[u],
                 !.pc = IF Competent(grade[u], asked[j]) THEN "findC" ELSE AfterCompetence(j, p)]]
  /\ drawn' = drawn \cup {<<u, NextNumber>>}
  /\ UNCHANGED <<attendanceVars, grade, asked, job, cert, sent, overlap, unsent>>

\* Any certificate of the student for the course, of either kind.
FindCertificate(j, p, found, missing) ==
  \/ /\ CertificatesOf(task[j][p].user) = {}
     /\ Step(j, p, missing)
  \/ \E i \in CertificatesOf(task[j][p].user) :
       task' = [task EXCEPT ![j][p] = [@ EXCEPT !.pc = found, !.id = i]]

FindCompetence(j, p) ==
  /\ At(j, p, "findC")
  /\ FindCertificate(j, p, "scores", "create")
  /\ UNCHANGED <<attendanceVars, grade, asked, job, cert, sent, overlap, drawn, unsent>>

\* A certificate is made, with what was asked for it.
Create(j, p, kind, next) ==
  /\ Len(cert) < MaxDone
  /\ cert' = Append(cert, [user |-> task[j][p].user, no |-> <<kind, task[j][p].number>>,
                           file |-> "none", scores |-> {}, asked |-> asked[j]])
  /\ task' = [task EXCEPT ![j][p] =
                [@ EXCEPT !.pc = next, !.id = Len(cert) + 1, !.made = TRUE]]
  /\ UNCHANGED <<attendanceVars, grade, asked, job, sent, overlap, drawn, unsent>>

CreateCompetence(j, p) == At(j, p, "create") /\ Create(j, p, "C", "scores")

\* A score is stored unless its average is zero or of nothing, the daily one first.
\* The column refuses a fraction, and an old certificate need not have the row
\* that is updated: both fail the job, after what was done before.
StoreScores(j, p) ==
  LET t == task[j][p]
      stored == {q \in QuizType : t.average[q] \notin {0, NoQuiz}}
      failing == {q \in stored : t.average[q] % Point # 0
                                  \/ (~t.made /\ q \notin cert[t.id].scores)} IN
  /\ At(j, p, "scores")
  /\ cert' = [cert EXCEPT ![t.id].scores = @ \cup
       (IF "daily" \in failing THEN {} ELSE stored \ failing)]
  /\ IF failing = {}
     THEN Step(j, p, "emitC") /\ UNCHANGED unsent
     ELSE /\ task' = [task EXCEPT ![j][p] = [@ EXCEPT !.pc = "failed", !.made = FALSE]]
          /\ unsent' = IF t.made THEN unsent \cup {t.id} ELSE unsent
  /\ UNCHANGED <<attendanceVars, grade, asked, job, sent, overlap, drawn>>

\* Mutant: the event names the number that is next when it is sent.
Emit_NextNumber(j, p, kind, next) ==
  /\ sent' = sent \cup {[no |-> <<kind, NextNumber>>, user |-> task[j][p].user]}
  /\ task' = [task EXCEPT ![j][p] = [@ EXCEPT !.pc = next, !.made = FALSE]]
  /\ UNCHANGED <<attendanceVars, grade, asked, job, cert, overlap, drawn, unsent>>

\* The event names the number that was read, also when the certificate has another.
Emit(j, p, kind, next) ==
  /\ sent' = sent \cup {[no |-> <<kind, task[j][p].number>>, user |-> task[j][p].user]}
  /\ task' = [task EXCEPT ![j][p] = [@ EXCEPT !.pc = next, !.made = FALSE]]
  /\ UNCHANGED <<attendanceVars, grade, asked, job, cert, overlap, drawn, unsent>>

\* Mutant: the competence branch returns before the event.
EmitCompetence_Skipped(j, p) ==
  /\ At(j, p, "emitC")
  /\ Step(j, p, AfterCompetence(j, p))
  /\ UNCHANGED <<attendanceVars, grade, asked, job, cert, sent, overlap, drawn, unsent>>

EmitCompetence(j, p) == At(j, p, "emitC") /\ Emit(j, p, "C", AfterCompetence(j, p))

\* The participation branch finds the certificate that the other one made.
\* Mutant: it does not look.
FindParticipation_Never(j, p) ==
  /\ At(j, p, "findP")
  /\ Step(j, p, "createP")
  /\ UNCHANGED <<attendanceVars, grade, asked, job, cert, sent, overlap, drawn, unsent>>

FindParticipation(j, p) ==
  /\ At(j, p, "findP")
  /\ FindCertificate(j, p, "emitP", "createP")
  /\ UNCHANGED <<attendanceVars, grade, asked, job, cert, sent, overlap, drawn, unsent>>

CreateParticipation(j, p) == At(j, p, "createP") /\ Create(j, p, "P", "emitP")

EmitParticipation(j, p) == At(j, p, "emitP") /\ Emit(j, p, "P", "done")

Task(j, p) ==
  \/ ReadNumber(j, p) \/ FindCompetence(j, p) \/ CreateCompetence(j, p)
  \/ StoreScores(j, p) \/ EmitCompetence(j, p) \/ FindParticipation(j, p)
  \/ CreateParticipation(j, p) \/ EmitParticipation(j, p)

-----------------------------------------------------------------------------
(* What a student is shown *)

\* getCertificatesByUser: the student's certificates that have a file.
Listed(u) == {i \in CertificatesOf(u) : cert[i].file # "none"}

\* requestDownloadCertificate: a certificate of the student is asked for, and the
\* file it names is sent.
Download(u, i) == IF i \in CertificatesOf(u) THEN cert[i].file ELSE "none"

-----------------------------------------------------------------------------
(* The generator answers in any order. *)

\* handleCertificateGenerated: any certificate of that number gets the file; if
\* there is none, nothing happens.
HandleGenerated(e) ==
  /\ sent' = sent \ {e}
  /\ LET found == {i \in DOMAIN cert : cert[i].no = e.no} IN
     IF found = {} THEN UNCHANGED cert
     ELSE \E i \in found : cert' = [cert EXCEPT ![i].file = e.user]
  /\ UNCHANGED <<attendanceVars, grade, asked, job, task, overlap, drawn, unsent>>

CertificateNext ==
  \/ \E u \in Student, q \in QuizType : ScoreRises(u, q)
  \/ \E j \in Job : StartJob(j) \/ Die(j)
  \/ \E j \in Job, p \in Place : Task(j, p)
  \/ \E e \in sent : HandleGenerated(e)

Next ==
  \/ AttendanceNext /\ UNCHANGED certVars
  \/ CertificateNext

Spec == Init /\ [][Next]_vars

\* A worker finishes what it began, unless it dies; the generator answers, and is heard.
Fairness ==
  /\ WF_vars(\E j \in Job, p \in Place : Task(j, p))
  /\ WF_vars(\E e \in sent : HandleGenerated(e))

-----------------------------------------------------------------------------
(* Properties *)

\* Every variable keeps its type; a certificate's number is at most its id.
TypeOK ==
  /\ AttendanceTypeOK
  /\ grade \in [Student -> [QuizType -> Average]]
  /\ \A i \in DOMAIN cert :
       /\ cert[i].user \in Student /\ cert[i].no \in {"C", "P"} \X (1 .. i)
       /\ cert[i].file \in Student \cup {"none"} /\ cert[i].scores \subseteq QuizType
  /\ \A j \in Job, p \in Place : task[j][p].id \in 0 .. Len(cert)

Earned(c, average, attended) ==
  \/ /\ c.no[1] = "C" /\ MinimumsOf(c.asked) # {}
     /\ \A q \in MinimumsOf(c.asked) : Reaches(average, c.asked, q)
  \/ c.no[1] = "P" /\ c.asked.attended # 0 /\ attended >= c.asked.attended

\* A certificate was earned: of competence by an average that reaches every minimum its
\* job gave, of participation by time that really passed since the student came, through
\* late, repeated and lost webhooks, unordered updates, a class that goes on while the job
\* runs, and a job that runs again.  Time is counted once for every participant row, of
\* which two webhooks at once may make two.
CertificatesAreEarned ==
  \A i \in DOMAIN cert : Earned(cert[i], grade[cert[i].user], Attended(cert[i].user))

\* A student gets a second certificate for the course only if two tasks worked on
\* him or her at once, of two jobs or of one that lists the student twice: each looks
\* before it creates, also after a worker died.
OneCertificate ==
  \A u \in Student : Cardinality(CertificatesOf(u)) > 1 => u \in overlap

\* The file of a certificate in a student's list is the student's own.  Only one whose
\* work has read the same number, while it was next, can have put another's there,
\* whichever way the events and the generator's answers are ordered.
OwnFile ==
  \A u \in Student : \A i \in Listed(u) :
    LET whose == Download(u, i) IN
    whose # u => <<whose, cert[i].no[2]>> \in drawn

SharesNumber(i) == \E k \in DOMAIN cert \ {i} : cert[k].no = cert[i].no
Settled(i) == cert[i].file # "none" \/ SharesNumber(i) \/ i \in unsent

\* Every certificate gets a file, unless another took its number first, its student's
\* scores were refused, or its worker died before the event was sent: again and again
\* all that were made are settled, and what is settled stays so.
EveryCertificateIsPrinted == []<>(\A i \in DOMAIN cert : Settled(i))
=============================================================================
