------------------------------ MODULE Classroom ------------------------------
(***************************************************************************)
(* One course as its students follow it: curriculums and their subjects,   *)
(* the subjects each student has completed, the reviews, and the notices   *)
(* of new subjects (courses/curriculums, courses/reviews, notifications,   *)
(* and the ends of courses and users).                                     *)
(*                                                                         *)
(* A request is a process that takes one step a query where the queries    *)
(* can be told apart.  Files, videos and live classes are subjects; their  *)
(* contents are left out.  Rows are named after the request that made      *)
(* them; a foreign key cascades, or refuses the row.                       *)
(***************************************************************************)
EXTENDS Integers, FiniteSets

CONSTANTS
  Request,     \* calls of the handlers below
  Student,     \* users with role 'user'
  Curriculum,  \* curriculums the course starts with
  Initially    \* its subjects then: id and curriculum

ASSUME CourseIsFinite == IsFiniteSet(Request) /\ IsFiniteSet(Initially)

VARIABLES
  course,       \* "running", "ended" (is_completed) or "gone"
  students,     \* User rows
  enrolled,     \* Enrollment rows
  curriculums,
  subjects,     \* FileContent, VideoContent and LiveClass rows
  completions,  \* SubjectCompletion rows
  reviews,      \* Review rows
  notices,      \* Notification rows: of which subject, for whom, read or not
  req,          \* where each request is, and what it has read
  told,         \* history: users told that they completed a subject, and the subject
  borrowed,     \* history: those who were answered with another user's completion
  marked,       \* history: users whose completion of a subject was written, and the subject
  overlapped    \* history: users who marked one subject, or reviewed the course, twice
                \* at once, and the subject or "course"

rows == <<course, students, enrolled, curriculums, subjects, completions, reviews, notices>>
history == <<told, borrowed, marked, overlapped>>
vars == <<rows, req, history>>

Ids(some) == {row.id : row \in some}
SubjectId == Ids(Initially) \cup Request

ASSUME SubjectsAreRows == Initially \subseteq [id : SubjectId, cur : Curriculum]
ASSUME NewIdsAreNew == Ids(Initially) \cap Request = {}

Fresh == [pc |-> "new"]
Done == [pc |-> "done"]

Init ==
  /\ course = "running" /\ students = Student /\ enrolled \in SUBSET Student
  /\ curriculums = Curriculum /\ subjects = Initially
  /\ completions = {} /\ reviews = {} /\ notices = {}
  /\ req = [r \in Request |-> Fresh]
  /\ told = {} /\ borrowed = {} /\ marked = {} /\ overlapped = {}

At(r, pc) == req[r].pc = pc
Go(r, state) == req' = [req EXCEPT ![r] = state]
Of(some, u) == {row \in some : row.user = u}

-----------------------------------------------------------------------------
(* Curriculums and subjects *)

CreateCurriculum(r) ==
  /\ At(r, "new") /\ course # "gone"
  /\ curriculums' = curriculums \cup {r} /\ Go(r, Done)
  /\ UNCHANGED <<course, students, enrolled, subjects, completions, reviews, notices, history>>

\* What is left when only these subjects are.
Keep(some) ==
  /\ subjects' = some
  /\ completions' = {row \in completions : row.subject \in Ids(some)}

RemoveCurriculum(r, c) ==
  /\ At(r, "new") /\ c \in curriculums
  /\ curriculums' = curriculums \ {c} /\ Go(r, Done)
  /\ Keep({s \in subjects : s.cur # c})
  /\ UNCHANGED <<course, students, enrolled, reviews, notices, history>>

\* Mutant: with a subject, all progress in its course is removed.
RemoveSubject_ClearsProgress(r, s) ==
  /\ At(r, "new") /\ s \in subjects
  /\ subjects' = subjects \ {s} /\ completions' = {} /\ Go(r, Done)
  /\ UNCHANGED <<course, students, enrolled, curriculums, reviews, notices, history>>

RemoveSubject(r, s) ==
  /\ At(r, "new") /\ s \in subjects
  /\ Keep(subjects \ {s}) /\ Go(r, Done)
  /\ UNCHANGED <<course, students, enrolled, curriculums, reviews, notices, history>>

\* addFileContent, addVideoContent, addLiveClass: the subject is there ...
AddSubject(r, c) ==
  /\ At(r, "new") /\ c \in curriculums
  /\ subjects' = subjects \cup {[id |-> r, cur |-> c]}
  /\ Go(r, [pc |-> "added"])
  /\ UNCHANGED <<course, students, enrolled, curriculums, completions, reviews, notices, history>>

\* ... and whoever is enrolled is told: all at once, in any order.  If the course
\* has gone the request fails.
ReadEnrolled(r) ==
  /\ At(r, "added")
  /\ Go(r, IF course = "gone" THEN Done ELSE [pc |-> "notify", to |-> enrolled, left |-> enrolled,
                                                failed |-> {}])
  /\ UNCHANGED <<rows, history>>

Write(r, u) ==
  /\ u \in students
  /\ notices' = notices \cup {[id |-> r, user |-> u, read |-> FALSE]}

\* Mutant: the first insert that fails ends it.
SendNotification_StopsAtError(r, u) ==
  /\ At(r, "notify") /\ u \in req[r].left
  /\ \/ Write(r, u) /\ req' = [req EXCEPT ![r].left = @ \ {u}]
     \/ /\ req' = [req EXCEPT ![r].left = {}, ![r].failed = @ \cup {u}]
        /\ UNCHANGED notices
  /\ UNCHANGED <<course, students, enrolled, curriculums, subjects, completions, reviews, history>>

\* An insert fails when the user has gone, or for any other reason.
SendNotification(r, u) ==
  /\ At(r, "notify") /\ u \in req[r].left
  /\ \/ Write(r, u) /\ req' = [req EXCEPT ![r].left = @ \ {u}]
     \/ /\ req' = [req EXCEPT ![r].left = @ \ {u}, ![r].failed = @ \cup {u}]
        /\ UNCHANGED notices
  /\ UNCHANGED <<course, students, enrolled, curriculums, subjects, completions, reviews, history>>

-----------------------------------------------------------------------------
(* Progress *)

\* Requests of a user for one thing that have looked and not written yet.
Pending(pc, u, s) ==
  {r \in Request : At(r, pc) /\ req[r].user = u /\ req[r].subject = s}

\* HasEnrolledGuard.
HasEnrolled(u) == course # "gone" /\ u \in enrolled

\* A request that has found nothing goes on to write; others of the user's may too.
GoOn(r, pc, u, s) ==
  /\ Go(r, [pc |-> pc, user |-> u, subject |-> s])
  /\ overlapped' = IF Pending(pc, u, s) # {} THEN overlapped \cup {<<u, s>>} ELSE overlapped

\* The endpoint answers 'Successfully marked subject as completed'.
Tell(u, s) == told' = told \cup {<<u, s>>}

\* markSubjectCompletedBySubjectUUID: any completion of the subject will do, whoever's
\* it is.
\* Mutant: none is looked for.
FindCompletion_Never(r, u, s) ==
  /\ At(r, "new") /\ HasEnrolled(u) /\ s \in Ids(subjects)
  /\ GoOn(r, "mark", u, s)
  /\ UNCHANGED <<rows, told, borrowed, marked>>

FindCompletion(r, u, s) ==
  LET found == {row \in completions : row.subject = s} IN
  /\ At(r, "new") /\ HasEnrolled(u) /\ s \in Ids(subjects)
  /\ IF found # {}
     THEN /\ Tell(u, s)
          /\ borrowed' = IF Of(found, u) = {} THEN borrowed \cup {<<u, s>>} ELSE borrowed
          /\ Go(r, Done)
          /\ UNCHANGED overlapped
     ELSE GoOn(r, "mark", u, s) /\ UNCHANGED <<told, borrowed>>
  /\ UNCHANGED <<rows, marked>>

CreateCompletion(r) ==
  LET q == req[r] IN
  /\ At(r, "mark")
  /\ IF q.user \in students /\ q.subject \in Ids(subjects)
     THEN /\ completions' = completions \cup {[id |-> r, user |-> q.user, subject |-> q.subject]}
          /\ marked' = marked \cup {<<q.user, q.subject>>}
          /\ Go(r, [pc |-> "answer", user |-> q.user, subject |-> q.subject])
     ELSE Go(r, Done) /\ UNCHANGED <<completions, marked>>
  /\ UNCHANGED <<course, students, enrolled, curriculums, subjects, reviews, notices,
                 told, borrowed, overlapped>>

\* The completion is there, and the student hears of it.
AnswerMarked(r) ==
  /\ At(r, "answer")
  /\ Tell(req[r].user, req[r].subject) /\ Go(r, Done)
  /\ UNCHANGED <<rows, borrowed, marked, overlapped>>

\* The course is found before its progress is asked for: by getProgressClass, ...
GetProgressClass(r, u) ==
  /\ At(r, "new") /\ u \in students /\ course # "gone"
  /\ Go(r, [pc |-> "course", user |-> u])
  /\ UNCHANGED <<rows, history>>

\* ... or with the enrolments of a student, by EnrollmentsService.findAll.
ListEnrollments(r, u) ==
  /\ At(r, "new") /\ u \in enrolled
  /\ Go(r, [pc |-> "course", user |-> u])
  /\ UNCHANGED <<rows, history>>

\* getProgressCourse counts the subjects (and fails if the course has gone), then what
\* the student has completed: of subjects, late, that may have been added meanwhile.
CountSubjects(r) ==
  /\ At(r, "course")
  /\ Go(r, IF course = "gone" THEN Done
           ELSE [pc |-> "count", user |-> req[r].user, seen |-> Ids(subjects)])
  /\ UNCHANGED <<rows, history>>

CountCompletions(r) ==
  LET q == req[r]  mine == Of(completions, q.user) IN
  /\ At(r, "count")
  /\ Go(r, [pc |-> "progress", user |-> q.user, total |-> Cardinality(q.seen),
            marked |-> Cardinality(mine),
            late |-> Cardinality({row \in mine : row.subject \notin q.seen})])
  /\ UNCHANGED <<rows, history>>

\* findAllWithSubjects reads the curriculums with their subjects, ...
ListSubjects(r, u) ==
  /\ At(r, "new") /\ HasEnrolled(u)
  /\ Go(r, [pc |-> "list", user |-> u, left |-> Ids(subjects), completed |-> {},
            had |-> {row.subject : row \in Of(completions, u)}])
  /\ UNCHANGED <<rows, history>>

\* ... and then, in any order, whether the student has completed each of them.
Ask(r, s, some) ==
  /\ At(r, "list") /\ s \in req[r].left
  /\ req' = [req EXCEPT ![r].left = @ \ {s},
                        ![r].completed = IF s \in {row.subject : row \in some} THEN @ \cup {s} ELSE @]
  /\ UNCHANGED <<rows, history>>

\* Mutant: the completion is looked up without the user.
IsCompleted_ByAnyone(r, s) == Ask(r, s, completions)

IsCompleted(r, s) == Ask(r, s, Of(completions, req[r].user))

-----------------------------------------------------------------------------
(* Reviews *)

\* createReview: the user has none, ...
\* Mutant: not asked.
CheckReview_Never(r, u) ==
  /\ At(r, "new") /\ u \in students /\ course # "gone"
  /\ GoOn(r, "review", u, "course")
  /\ UNCHANGED <<rows, told, borrowed, marked>>

CheckReview(r, u) ==
  /\ At(r, "new") /\ u \in students /\ course # "gone" /\ Of(reviews, u) = {}
  /\ GoOn(r, "review", u, "course")
  /\ UNCHANGED <<rows, told, borrowed, marked>>

\* ... and the course is over.
CreateReview(r) ==
  LET u == req[r].user IN
  /\ At(r, "review")
  /\ reviews' = IF course = "ended" /\ u \in students
                THEN reviews \cup {[id |-> r, user |-> u]} ELSE reviews
  /\ Go(r, Done)
  /\ UNCHANGED <<course, students, enrolled, curriculums, subjects, completions, notices, history>>

DeleteReview(r, row) ==
  /\ At(r, "new") /\ row \in reviews
  /\ reviews' = reviews \ {row} /\ Go(r, Done)
  /\ UNCHANGED <<course, students, enrolled, curriculums, subjects, completions, notices, history>>

-----------------------------------------------------------------------------
(* Notices, the course, its users *)

MarkAsRead(r, n) ==
  /\ At(r, "new") /\ n \in notices
  /\ notices' = (notices \ {n}) \cup {[n EXCEPT !.read = TRUE]} /\ Go(r, Done)
  /\ UNCHANGED <<course, students, enrolled, curriculums, subjects, completions, reviews, history>>

\* markAllAsRead finds the user's notices, all of them, and marks those it found.
ListNotices(r, u) ==
  /\ At(r, "new") /\ u \in students
  /\ Go(r, [pc |-> "read", user |-> u, ids |-> Ids(Of(notices, u))])
  /\ UNCHANGED <<rows, history>>

MarkAllAsRead(r) ==
  /\ At(r, "read")
  /\ notices' = {IF n.user = req[r].user /\ n.id \in req[r].ids THEN [n EXCEPT !.read = TRUE]
                 ELSE n : n \in notices}
  /\ Go(r, Done)
  /\ UNCHANGED <<course, students, enrolled, curriculums, subjects, completions, reviews, history>>

\* CoursesService.endCourse and remove.
EndCourse(r) ==
  /\ At(r, "new") /\ course # "gone"
  /\ course' = "ended" /\ Go(r, Done)
  /\ UNCHANGED <<students, enrolled, curriculums, subjects, completions, reviews, notices, history>>

RemoveCourse(r) ==
  /\ At(r, "new") /\ course # "gone"
  /\ course' = "gone" /\ enrolled' = {} /\ curriculums' = {} /\ reviews' = {}
  /\ Keep({}) /\ Go(r, Done)
  /\ UNCHANGED <<students, notices, history>>

\* UsersService.remove, with every row of the user's.
RemoveUser(r, u) ==
  /\ At(r, "new") /\ u \in students
  /\ students' = students \ {u} /\ enrolled' = enrolled \ {u} /\ Go(r, Done)
  /\ completions' = completions \ Of(completions, u)
  /\ reviews' = reviews \ Of(reviews, u)
  /\ notices' = notices \ Of(notices, u)
  /\ UNCHANGED <<course, curriculums, subjects, history>>

-----------------------------------------------------------------------------
TeacherStep(r) ==
  \/ CreateCurriculum(r) \/ \E c \in curriculums : RemoveCurriculum(r, c) \/ AddSubject(r, c)
  \/ \E s \in subjects : RemoveSubject(r, s)
  \/ ReadEnrolled(r) \/ \E u \in Student : SendNotification(r, u) \/ RemoveUser(r, u)
  \/ EndCourse(r) \/ RemoveCourse(r) \/ \E row \in reviews : DeleteReview(r, row)

StudentStep(r) ==
  \/ \E u \in Student : \/ \E s \in Ids(subjects) : FindCompletion(r, u, s)
                        \/ CheckReview(r, u) \/ ListNotices(r, u)
                        \/ GetProgressClass(r, u) \/ ListEnrollments(r, u)
                        \/ ListSubjects(r, u)
  \/ CountSubjects(r) \/ CountCompletions(r) \/ \E s \in SubjectId : IsCompleted(r, s)
  \/ CreateCompletion(r) \/ AnswerMarked(r) \/ CreateReview(r) \/ MarkAllAsRead(r)
  \/ \E n \in notices : MarkAsRead(r, n)

Next == \E r \in Request : TeacherStep(r) \/ StudentStep(r)

Spec == Init /\ [][Next]_vars

-----------------------------------------------------------------------------
(* Properties *)

\* Every variable keeps its type, and every row refers to rows that are there.
TypeOK ==
  /\ course \in {"running", "ended", "gone"}
  /\ students \subseteq Student /\ enrolled \subseteq students
  /\ curriculums \subseteq Curriculum \cup Request
  /\ subjects \subseteq [id : SubjectId, cur : curriculums]
  /\ completions \subseteq [id : Request, user : students, subject : Ids(subjects)]
  /\ reviews \subseteq [id : Request, user : students]
  /\ notices \subseteq [id : Request, user : students, read : BOOLEAN]

\* A student's progress is at most 100 per cent, but for subjects that were added
\* and completed between the two counts, though completed subjects are removed
\* meanwhile: unless the student marked one subject twice at once
\* (markSubjectCompletedBySubjectUUID looks and then writes, and no key keeps the
\* rows apart).
ProgressWithinHundred ==
  \A r \in Request : At(r, "progress") /\ overlapped \cap ({req[r].user} \X SubjectId) = {}
    => req[r].marked <= req[r].total + req[r].late

\* The list of a course's subjects, which many queries make, shows as completed
\* whatever the student had completed before they asked and is still there, and
\* nothing that they have never completed (findAllWithSubjects).
ListShowsOwnProgress ==
  \A r \in Request : At(r, "list") /\ req[r].left = {} /\ req[r].user \in students =>
    /\ req[r].had \cap Ids(subjects) \subseteq req[r].completed
    /\ \A s \in req[r].completed : <<req[r].user, s>> \in marked

\* Who was told that they have completed a subject has completed it as long as it
\* is there, unless the answer was another student's completion.
KeptUnless(excused) ==
  \A p \in told \ excused :
    p[1] \in students /\ p[2] \in Ids(subjects)
      => \E row \in completions : row.user = p[1] /\ row.subject = p[2]

ProgressIsKept == KeptUnless(borrowed)

\* 'Successfully marked subject as completed' (subjects.controller.ts:84): who is
\* told so has completed the subject.
MarkedIsCompleted == KeptUnless({})

\* A student has one review, unless two were sent at once.
OneReviewEach ==
  \A a, b \in reviews : a.user = b.user /\ a # b => <<a.user, "course">> \in overlapped

\* Everyone who was enrolled is told of a new subject, unless their own insert
\* failed: whoever else's does, and whoever's account is removed while the notices
\* go out (sendNotification).
EveryoneIsTold ==
  \A r \in Request : At(r, "notify") /\ req[r].left = {} =>
    \A u \in (req[r].to \ req[r].failed) \cap students :
      \E n \in notices : n.id = r /\ n.user = u
=============================================================================
