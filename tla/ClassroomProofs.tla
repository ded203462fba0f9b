-------------------------- MODULE ClassroomProofs --------------------------
(***************************************************************************)
(* Proofs about Classroom: that every row refers to rows that are there,   *)
(* that a student has one review unless two were sent at once, that        *)
(* progress is kept, shown and at most 100 per cent, and that everyone is  *)
(* told of a new subject.                                                  *)
(***************************************************************************)
EXTENDS Classroom, FiniteSetTheorems, TLAPS

Notice == [id : Request, user : students, read : BOOLEAN]

LEMMA TypeInit == Init => TypeOK
  BY SubjectsAreRows DEF Init, TypeOK

\* Fewer subjects leave fewer completions, each of a subject that is left.
LEMMA KeepTyped ==
  ASSUME TypeOK, NEW some \in SUBSET subjects, Keep(some),
         students' = students, curriculums' \subseteq Curriculum \cup Request,
         \A s \in some : s.cur \in curriculums'
  PROVE  /\ subjects' \subseteq [id : SubjectId, cur : curriculums']
         /\ completions' \subseteq [id : Request, user : students', subject : Ids(subjects')]
  BY DEF TypeOK, Keep

LEMMA TeacherTyped ==
  ASSUME TypeOK, NEW r \in Request, TeacherStep(r) PROVE TypeOK'
<1>1. CASE CreateCurriculum(r)
  BY <1>1 DEF CreateCurriculum, TypeOK, history
<1>2. ASSUME NEW c \in curriculums, RemoveCurriculum(r, c) PROVE TypeOK'
  BY <1>2, KeepTyped DEF RemoveCurriculum, TypeOK, history
<1>3. ASSUME NEW c \in curriculums, AddSubject(r, c) PROVE TypeOK'
  BY <1>3 DEF AddSubject, TypeOK, SubjectId, Ids, history
<1>4. ASSUME NEW s \in subjects, RemoveSubject(r, s) PROVE TypeOK'
  BY <1>4, KeepTyped DEF RemoveSubject, TypeOK, history
<1>5. CASE ReadEnrolled(r)
  BY <1>5 DEF ReadEnrolled, TypeOK, rows
<1>6. ASSUME NEW u \in Student, SendNotification(r, u) PROVE TypeOK'
  <2>1. UNCHANGED <<course, students, enrolled, curriculums, subjects, completions, reviews>>
    BY <1>6 DEF SendNotification
  <2>2. notices' \subseteq [id : Request, user : students, read : BOOLEAN]
    <3>1. CASE Write(r, u)
      <4> DEFINE new == [id |-> r, user |-> u, read |-> FALSE]
      <4>1. new \in [id : Request, user : students, read : BOOLEAN]
        BY <3>1 DEF Write
      <4>2. notices' = notices \cup {new}
        BY <3>1 DEF Write
      <4> HIDE DEF new
      <4> QED BY <4>1, <4>2 DEF TypeOK
    <3>2. CASE notices' = notices
      BY <3>2 DEF TypeOK
    <3> QED BY <1>6, <3>1, <3>2 DEF SendNotification
  <2> QED BY <2>1, <2>2 DEF TypeOK
<1>7. ASSUME NEW u \in Student, RemoveUser(r, u) PROVE TypeOK'
  <2>1. students' = students \ {u} /\ UNCHANGED <<course, curriculums, subjects>>
    BY <1>7 DEF RemoveUser
  <2>2. enrolled' \subseteq students' /\ reviews' \subseteq [id : Request, user : students']
    BY <1>7, <2>1 DEF RemoveUser, TypeOK, Of
  <2>3. completions' \subseteq [id : Request, user : students', subject : Ids(subjects')]
    BY <1>7, <2>1 DEF RemoveUser, TypeOK, Of
  <2>4. notices' \subseteq [id : Request, user : students', read : BOOLEAN]
    BY <1>7, <2>1 DEF RemoveUser, TypeOK, Of
  <2> QED BY <2>1, <2>2, <2>3, <2>4 DEF TypeOK
<1>8. CASE EndCourse(r)
  BY <1>8 DEF EndCourse, TypeOK
<1>9. CASE RemoveCourse(r)
  BY <1>9, KeepTyped DEF RemoveCourse, TypeOK
<1>10. ASSUME NEW row \in reviews, DeleteReview(r, row) PROVE TypeOK'
  BY <1>10 DEF DeleteReview, TypeOK
<1> QED BY <1>1, <1>2, <1>3, <1>4, <1>5, <1>6, <1>7, <1>8, <1>9, <1>10 DEF TeacherStep

LEMMA StudentTyped ==
  ASSUME TypeOK, NEW r \in Request, StudentStep(r) PROVE TypeOK'
<1>1. CASE UNCHANGED rows
  BY <1>1 DEF rows, TypeOK
<1>2. CASE CreateCompletion(r)
  BY <1>2 DEF CreateCompletion, TypeOK
<1>3. CASE CreateReview(r)
  BY <1>3 DEF CreateReview, TypeOK
<1>4. CASE MarkAllAsRead(r)
  <2>1. \A n \in notices : [n EXCEPT !.read = TRUE] \in Notice
    BY DEF TypeOK, Notice
  <2> QED BY <1>4, <2>1 DEF MarkAllAsRead, TypeOK, Notice
<1>5. ASSUME NEW n \in notices, MarkAsRead(r, n) PROVE TypeOK'
  <2>1. [n EXCEPT !.read = TRUE] \in Notice
    BY DEF TypeOK, Notice
  <2> QED BY <1>5, <2>1 DEF MarkAsRead, TypeOK, Notice
<1> QED BY <1>1, <1>2, <1>3, <1>4, <1>5 DEF StudentStep, FindCompletion, GoOn, CheckReview,
        ListNotices, GetProgressClass, ListEnrollments,
       CountSubjects, ListSubjects, CountCompletions, IsCompleted, Ask, AnswerMarked

LEMMA TypeNext == TypeOK /\ [Next]_vars => TypeOK'
<1> SUFFICES ASSUME TypeOK, [Next]_vars PROVE TypeOK'
  OBVIOUS
<1>1. CASE UNCHANGED vars
  BY <1>1 DEF vars, rows, TypeOK
<1> QED BY <1>1, TeacherTyped, StudentTyped DEF Next

\* Whatever is added and removed, and in whatever order, every subject has its
\* curriculum, every completion its subject and its student, every review and notice
\* its student: the removals take all that refers to the row (schema.prisma).
THEOREM RowsRefer == Spec => []TypeOK
  BY TypeInit, TypeNext, PTL DEF Spec

-----------------------------------------------------------------------------
(* What a step does to the requests. *)

\* What a request that takes its steps one query at a time remembers.
Notifying == [pc : {"notify"}, to : SUBSET Student, left : SUBSET Student,
              failed : SUBSET Student]
Listing == [pc : {"list"}, user : Student, left : SUBSET SubjectId,
            completed : SUBSET SubjectId, had : SUBSET SubjectId]

ReqInv ==
  /\ DOMAIN req = Request
  /\ \A r \in Request : At(r, "notify") => req[r] \in Notifying
  /\ \A r \in Request : At(r, "list") => req[r] \in Listing

\* What brings a request to its next query, or to the state it takes.
Reaches(r, state) ==
  /\ state.pc # "new"
  /\ state.pc = "notify" =>
       state \in Notifying /\ (ReadEnrolled(r) \/ \E u \in Student : SendNotification(r, u))
  /\ state.pc = "list" =>
       state \in Listing /\ ((\E u \in Student : ListSubjects(r, u))
                             \/ \E s \in SubjectId : IsCompleted(r, s))
  /\ state.pc = "mark" => \E u \in Student, s \in Ids(subjects) : FindCompletion(r, u, s)
  /\ state.pc = "answer" => CreateCompletion(r)
  /\ state.pc = "count" => CountSubjects(r)
  /\ state.pc = "progress" => CountCompletions(r)
  /\ state.pc = "review" => \E u \in Student : CheckReview(r, u)
  /\ state.pc = "read" => \E u \in Student : ListNotices(r, u)

\* A step of r leaves the other requests alone.
StepOf(r) ==
  /\ DOMAIN req' = Request
  /\ \A x \in Request \ {r} : req'[x] = req[x]
  /\ Reaches(r, req'[r])

LEMMA GoStep ==
  ASSUME ReqInv, NEW r \in Request, NEW state, Go(r, state), Reaches(r, state)
  PROVE  StepOf(r)
  BY DEF ReqInv, Go, StepOf

LEMMA TeacherStepOf ==
  ASSUME TypeOK, ReqInv, NEW r \in Request, TeacherStep(r) PROVE StepOf(r)
<1>1. CASE Go(r, Done)
  BY <1>1, GoStep DEF Reaches, Done
<1>2. CASE Go(r, [pc |-> "added"])
  BY <1>2, GoStep DEF Reaches
<1>3. ASSUME ReadEnrolled(r),
             Go(r, [pc |-> "notify", to |-> enrolled, left |-> enrolled, failed |-> {}])
      PROVE  StepOf(r)
  <2> DEFINE state == [pc |-> "notify", to |-> enrolled, left |-> enrolled, failed |-> {}]
  <2>1. state \in Notifying /\ state.pc = "notify"
    BY DEF TypeOK, Notifying
  <2>2. Go(r, state)
    BY <1>3
  <2> HIDE DEF state
  <2> QED BY <1>3, <2>1, <2>2, GoStep DEF Reaches
<1>4. ASSUME NEW u \in Student, SendNotification(r, u) PROVE StepOf(r)
  <2> DEFINE sent == [req[r] EXCEPT !.left = @ \ {u}]
             not == [req[r] EXCEPT !.left = @ \ {u}, !.failed = @ \cup {u}]
  <2>1. req[r] \in Notifying
    BY <1>4 DEF SendNotification, ReqInv
  <2>2. /\ sent \in Notifying /\ sent.pc = "notify"
        /\ not \in Notifying /\ not.pc = "notify"
    BY <2>1 DEF Notifying
  <2>3. Go(r, sent) \/ Go(r, not)
    BY <1>4, <2>1 DEF SendNotification, Go
  <2> HIDE DEF sent, not
  <2> QED BY <1>4, <2>2, <2>3, GoStep DEF Reaches
<1> QED BY <1>1, <1>2, <1>3, <1>4 DEF TeacherStep, CreateCurriculum, RemoveCurriculum, AddSubject,
        RemoveSubject, ReadEnrolled, RemoveUser, EndCourse, RemoveCourse, DeleteReview

LEMMA StudentStepOf ==
  ASSUME TypeOK, ReqInv, NEW r \in Request, StudentStep(r) PROVE StepOf(r)
<1>1. CASE Go(r, Done)
  BY <1>1, GoStep DEF Reaches, Done
<1>2. ASSUME NEW u \in Student, NEW s \in Ids(subjects), FindCompletion(r, u, s) PROVE StepOf(r)
  <2>1. CASE Go(r, [pc |-> "mark", user |-> u, subject |-> s])
    BY <1>2, <2>1, GoStep DEF Reaches
  <2> QED BY <1>1, <1>2, <2>1 DEF FindCompletion, GoOn
<1>3. ASSUME NEW u \in Student, CheckReview(r, u) PROVE StepOf(r)
  <2>1. Go(r, [pc |-> "review", user |-> u, subject |-> "course"])
    BY <1>3 DEF CheckReview, GoOn
  <2> QED BY <1>3, <2>1, GoStep DEF Reaches
<1>4. ASSUME NEW u \in Student, ListNotices(r, u) PROVE StepOf(r)
  <2>1. Go(r, [pc |-> "read", user |-> u, ids |-> Ids(Of(notices, u))])
    BY <1>4 DEF ListNotices
  <2> QED BY <1>4, <2>1, GoStep DEF Reaches
<1>5. ASSUME NEW u \in Student, GetProgressClass(r, u) \/ ListEnrollments(r, u) PROVE StepOf(r)
  <2>1. Go(r, [pc |-> "course", user |-> u])
    BY <1>5 DEF GetProgressClass, ListEnrollments
  <2> QED BY <2>1, GoStep DEF Reaches
<1>9. CASE CountSubjects(r)
  <2>1. CASE Go(r, [pc |-> "count", user |-> req[r].user, seen |-> Ids(subjects)])
    BY <1>9, <2>1, GoStep DEF Reaches
  <2> QED BY <1>1, <1>9, <2>1 DEF CountSubjects
<1>6. ASSUME NEW u \in Student, ListSubjects(r, u) PROVE StepOf(r)
  <2> DEFINE state == [pc |-> "list", user |-> u, left |-> Ids(subjects), completed |-> {},
                       had |-> {row.subject : row \in Of(completions, u)}]
  <2>1. Ids(subjects) \subseteq SubjectId
    BY DEF TypeOK, Ids
  <2>2. {row.subject : row \in Of(completions, u)} \subseteq SubjectId
    BY <2>1 DEF TypeOK, Of
  <2>3. state \in Listing /\ state.pc = "list"
    BY <2>1, <2>2 DEF Listing
  <2>4. Go(r, state)
    BY <1>6 DEF ListSubjects
  <2> HIDE DEF state
  <2> QED BY <1>6, <2>3, <2>4, GoStep DEF Reaches
<1>7. CASE CountCompletions(r)
  <2> DEFINE q == req[r]
             mine == Of(completions, q.user)
             state == [pc |-> "progress", user |-> q.user, total |-> Cardinality(q.seen),
                       marked |-> Cardinality(mine),
                       late |-> Cardinality({row \in mine : row.subject \notin q.seen})]
  <2>1. Go(r, state)
    BY <1>7 DEF CountCompletions
  <2>2. state.pc = "progress"
    OBVIOUS
  <2> HIDE DEF state
  <2> QED BY <1>7, <2>1, <2>2, GoStep DEF Reaches
<1>8. ASSUME NEW s \in SubjectId, IsCompleted(r, s) PROVE StepOf(r)
  <2> DEFINE some == {row.subject : row \in Of(completions, req[r].user)}
             state == [req[r] EXCEPT !.left = @ \ {s},
                                     !.completed = IF s \in some THEN @ \cup {s} ELSE @]
  <2>1. req[r] \in Listing
    BY <1>8 DEF IsCompleted, Ask, ReqInv
  <2>2. Go(r, state)
    BY <1>8 DEF IsCompleted, Ask, Go
  <2> HIDE DEF some
  <2>3. state \in Listing /\ state.pc = "list"
    BY <2>1 DEF Listing
  <2> HIDE DEF state
  <2> QED BY <1>8, <2>2, <2>3, GoStep DEF Reaches
<1>10. CASE CreateCompletion(r)
  <2>1. CASE Go(r, [pc |-> "answer", user |-> req[r].user, subject |-> req[r].subject])
    BY <1>10, <2>1, GoStep DEF Reaches
  <2> QED BY <1>1, <1>10, <2>1 DEF CreateCompletion
<1> QED BY <1>1, <1>2, <1>3, <1>4, <1>5, <1>6, <1>7, <1>8, <1>9, <1>10 DEF StudentStep, AnswerMarked,
        CreateReview, MarkAllAsRead, MarkAsRead

LEMMA StepsOf ==
  ASSUME TypeOK, ReqInv, NEW r \in Request, TeacherStep(r) \/ StudentStep(r)
  PROVE  StepOf(r) /\ ReqInv'
<1>1. StepOf(r)
  BY TeacherStepOf, StudentStepOf
<1> QED BY <1>1 DEF StepOf, Reaches, ReqInv, At

-----------------------------------------------------------------------------
(* Reviews. *)

Twice(u) == <<u, "course">> \in overlapped

\* Two requests that have both found no review, or one and a review that came in
\* meanwhile, overlapped.
ReviewInv ==
  /\ TypeOK /\ ReqInv /\ OneReviewEach
  /\ \A r \in Request : At(r, "review") => req[r].subject = "course"
  /\ \A r, x \in Request :
       At(r, "review") /\ At(x, "review") /\ r # x /\ req[r].user = req[x].user
         => Twice(req[r].user)
  /\ \A r \in Request, row \in reviews :
       At(r, "review") /\ req[r].user = row.user => Twice(row.user)

LEMMA QuietReviews ==
  ASSUME ReviewInv, NEW r \in Request, StepOf(r), TypeOK', ReqInv',
         ~At(r, "review")', reviews' \subseteq reviews, overlapped \subseteq overlapped'
  PROVE  ReviewInv'
  BY DEF ReviewInv, StepOf, At, OneReviewEach, Twice

LEMMA ReviewStep ==
  ASSUME ReviewInv, NEW r \in Request, TeacherStep(r) \/ StudentStep(r), TypeOK'
  PROVE  ReviewInv'
<1>1. StepOf(r) /\ ReqInv'
  BY StepsOf DEF ReviewInv
<1>2. ASSUME NEW u \in Student, CheckReview(r, u) PROVE ReviewInv'
  <2>1. req'[r] = [pc |-> "review", user |-> u, subject |-> "course"]
    BY <1>2 DEF CheckReview, GoOn, Go, ReviewInv, ReqInv
  <2>2. \A x \in Request \ {r} : req'[x] = req[x]
    BY <1>1 DEF StepOf
  <2>3. reviews' = reviews /\ \A row \in reviews : row.user # u
    BY <1>2 DEF CheckReview, rows, Of
  <2>4. overlapped \subseteq overlapped'
    BY <1>2 DEF CheckReview, GoOn
  <2>5. ASSUME NEW x \in Request \ {r}, At(x, "review"), req[x].user = u
        PROVE  Twice(u)'
    <3>1. x \in Pending("review", u, "course")
      BY <2>5 DEF Pending, ReviewInv
    <3> QED BY <1>2, <3>1 DEF CheckReview, GoOn, Twice
  <2> QED BY <1>1, <2>1, <2>2, <2>3, <2>4, <2>5 DEF ReviewInv, At, OneReviewEach, Twice
<1>3. CASE CreateReview(r)
  <2> DEFINE u == req[r].user
             new == [id |-> r, user |-> u]
  <2>1. ~At(r, "review")' /\ overlapped' = overlapped
    BY <1>3 DEF CreateReview, Go, Done, At, ReviewInv, ReqInv, history
  <2>2. \A row \in reviews' : row \in reviews \/ (row.user = u /\ row = new)
    BY <1>3 DEF CreateReview
  <2>3. \A row \in reviews : row.user = u => Twice(u)
    BY <1>3 DEF CreateReview, ReviewInv
  <2>4. \A x \in Request \ {r} : At(x, "review") /\ req[x].user = u => Twice(u)
    BY <1>3 DEF CreateReview, ReviewInv
  <2>5. \A x \in Request \ {r} : req'[x] = req[x]
    BY <1>1 DEF StepOf
  <2>6. OneReviewEach'
    BY <2>1, <2>2, <2>3 DEF ReviewInv, OneReviewEach, Twice
  <2> HIDE DEF u, new
  <2> QED BY <1>1, <2>1, <2>2, <2>4, <2>5, <2>6 DEF ReviewInv, At, Twice
<1>4. ASSUME ~CreateReview(r), \A u \in Student : ~CheckReview(r, u) PROVE ReviewInv'
  <2>1. ~At(r, "review")'
    BY <1>1, <1>4 DEF StepOf, Reaches, At
  <2>2. reviews' \subseteq reviews
    BY <1>4 DEF TeacherStep, StudentStep, CreateCurriculum, RemoveCurriculum, AddSubject,
       RemoveSubject, ReadEnrolled, SendNotification, Write, RemoveUser, EndCourse, RemoveCourse,
       DeleteReview, FindCompletion, GoOn, ListNotices, GetProgressClass, ListEnrollments,
       CountSubjects, ListSubjects, CountCompletions, IsCompleted, Ask, CreateCompletion,
       AnswerMarked, MarkAllAsRead, MarkAsRead, rows, Of
  <2>3. overlapped \subseteq overlapped'
    BY <1>4 DEF TeacherStep, StudentStep, CreateCurriculum, RemoveCurriculum, AddSubject,
       RemoveSubject, ReadEnrolled, SendNotification, Write, RemoveUser, EndCourse, RemoveCourse,
       DeleteReview, FindCompletion, GoOn, ListNotices, GetProgressClass, ListEnrollments,
       CountSubjects, ListSubjects, CountCompletions, IsCompleted, Ask, CreateCompletion,
       AnswerMarked, MarkAllAsRead, MarkAsRead, history
  <2> QED BY <1>1, <2>1, <2>2, <2>3, QuietReviews
<1> QED BY <1>2, <1>3, <1>4

LEMMA ReviewNext == ReviewInv /\ [Next]_vars => ReviewInv'
<1> SUFFICES ASSUME ReviewInv, [Next]_vars PROVE ReviewInv'
  OBVIOUS
<1>1. TypeOK'
  BY TypeNext DEF ReviewInv
<1>2. CASE UNCHANGED vars
  BY <1>1, <1>2 DEF vars, rows, history, ReviewInv, ReqInv, At, OneReviewEach, Twice
<1> QED BY <1>1, <1>2, ReviewStep DEF Next

\* A student whose requests do not overlap never has two reviews of the course, though
\* createReview looks several queries before it inserts and no key forbids a second.
THEOREM ReviewedOnce == Spec => []OneReviewEach
<1>1. Init => ReviewInv
  BY TypeInit DEF Init, ReviewInv, ReqInv, At, Fresh, OneReviewEach
<1>2. ReviewInv => OneReviewEach
  BY DEF ReviewInv
<1> QED BY <1>1, <1>2, ReviewNext, PTL DEF Spec

-----------------------------------------------------------------------------
(* Progress. *)

HasDone(u, s) == \E row \in completions : row.user = u /\ row.subject = s

\* What students were told to have completed, or are about to be.
Due == told \cup {<<req[r].user, req[r].subject>> : r \in {x \in Request : At(x, "answer")}}

DueIsKept ==
  \A p \in Due \ borrowed : p[1] \in students /\ p[2] \in Ids(subjects) => HasDone(p[1], p[2])

\* The id of a subject that is still to be made is in use nowhere.
NewIsUnused ==
  \A x \in Request : At(x, "new") =>
    /\ x \notin Ids(subjects)
    /\ \A p \in Due : p[2] # x
    /\ \A r \in Request : At(r, "list") => x \notin req[r].had

\* A list that is being made has shown, or will find, what had been completed.
ListKeeps(r) ==
  At(r, "list") /\ req[r].user \in students =>
    /\ \A s \in req[r].had \cap Ids(subjects) :
         s \in req[r].completed \/ (s \in req[r].left /\ HasDone(req[r].user, s))
    /\ \A s \in req[r].completed : <<req[r].user, s>> \in marked

ProgressInv ==
  /\ TypeOK /\ ReqInv /\ NewIsUnused /\ DueIsKept
  /\ \A row \in completions : <<row.user, row.subject>> \in marked
  /\ \A r \in Request : ListKeeps(r)

\* What a step of r may do to what students were told and have completed.
Progresses(r) ==
  /\ students' \subseteq students /\ marked \subseteq marked' /\ borrowed \subseteq borrowed'
  /\ \A s \in Ids(subjects') : s \in Ids(subjects) \/ (s = r /\ At(r, "new"))
  /\ \A u \in students', s \in Ids(subjects') : HasDone(u, s) => HasDone(u, s)'
  /\ \A p \in Due' \ Due : p[2] \in Ids(subjects) /\ (p \in borrowed' \/ HasDone(p[1], p[2])')
  /\ \A row \in completions' : <<row.user, row.subject>> \in marked'

\* An answer is due when its completion was written, or when it is given.
LEMMA DueGrows ==
  ASSUME NEW r \in Request, StepOf(r), ~CreateCompletion(r) PROVE Due' \subseteq Due \cup told'
  BY DEF StepOf, Reaches, Due, At

\* Steps that leave completions alone, but for those whose student or subject go.
LEMMA QuietProgresses ==
  ASSUME ProgressInv, NEW r \in Request, Due' \subseteq Due,
         students' \subseteq students, UNCHANGED <<borrowed, marked>>,
         \A s \in Ids(subjects') : s \in Ids(subjects) \/ (s = r /\ At(r, "new")),
         completions' \subseteq completions,
         \A row \in completions :
           row.user \in students' /\ row.subject \in Ids(subjects') => row \in completions'
  PROVE  Progresses(r)
  BY DEF Progresses, HasDone, ProgressInv

LEMMA TeacherProgresses ==
  ASSUME ProgressInv, NEW r \in Request, TeacherStep(r) PROVE Progresses(r)
<1>0. UNCHANGED <<told, borrowed, marked>> /\ students' \subseteq students /\ ~CreateCompletion(r)
  BY DEF TeacherStep, CreateCurriculum, RemoveCurriculum, AddSubject, RemoveSubject,
     ReadEnrolled, SendNotification, RemoveUser, EndCourse, RemoveCourse, DeleteReview,
     CreateCompletion, At, rows, history
<1>1. UNCHANGED <<borrowed, marked>> /\ students' \subseteq students /\ Due' \subseteq Due
  BY <1>0, TeacherStepOf, DueGrows DEF ProgressInv, Due
<1>2. CASE UNCHANGED <<subjects, completions>>
  BY <1>1, <1>2, QuietProgresses DEF Ids
<1>3. ASSUME NEW some \in SUBSET subjects, Keep(some) PROVE Progresses(r)
  <2>1. Ids(some) \subseteq Ids(subjects)
    BY DEF Ids
  <2> QED BY <1>1, <1>3, <2>1, QuietProgresses DEF Keep
<1>4. ASSUME NEW c \in curriculums, RemoveCurriculum(r, c) PROVE Progresses(r)
  BY <1>3, <1>4 DEF RemoveCurriculum
<1>5. ASSUME NEW s \in subjects, RemoveSubject(r, s) PROVE Progresses(r)
  BY <1>3, <1>5 DEF RemoveSubject
<1>6. ASSUME NEW c \in curriculums, AddSubject(r, c) PROVE Progresses(r)
  BY <1>1, <1>6, QuietProgresses DEF AddSubject, Ids
<1>7. ASSUME NEW u \in Student, RemoveUser(r, u) PROVE Progresses(r)
  BY <1>1, <1>7, QuietProgresses DEF RemoveUser, Of
<1>8. CASE RemoveCourse(r)
  BY <1>3, <1>8 DEF RemoveCourse
<1> QED BY <1>2, <1>4, <1>5, <1>6, <1>7, <1>8 DEF TeacherStep, CreateCurriculum, ReadEnrolled,
     SendNotification, Write, EndCourse, DeleteReview, rows

LEMMA StudentProgresses ==
  ASSUME ProgressInv, NEW r \in Request, StudentStep(r) PROVE Progresses(r)
<1>0. StepOf(r)
  BY StudentStepOf DEF ProgressInv
<1>1. ASSUME UNCHANGED <<borrowed, marked, students, subjects, completions>>, Due' \subseteq Due
      PROVE  Progresses(r)
  BY <1>1, QuietProgresses DEF Ids
<1>2. ASSUME UNCHANGED <<told, borrowed, marked, students, subjects, completions>>,
             ~CreateCompletion(r)
      PROVE  Progresses(r)
  BY <1>0, <1>1, <1>2, DueGrows DEF Due
<1>3. ASSUME NEW u \in Student, NEW s \in Ids(subjects), FindCompletion(r, u, s),
             told' = told \cup {<<u, s>>}
      PROVE  Progresses(r)
  <2>1. /\ UNCHANGED <<students, subjects, completions, marked>> /\ borrowed \subseteq borrowed'
        /\ ~CreateCompletion(r)
    BY <1>3 DEF FindCompletion, CreateCompletion, At, rows
  <2>2. Due' \ Due \subseteq {<<u, s>>} /\ <<u, s>>[1] = u /\ <<u, s>>[2] = s
    BY <1>0, <1>3, <2>1, DueGrows DEF Due
  <2>3. CASE <<u, s>> \in borrowed'
    BY <1>3, <2>1, <2>2, <2>3 DEF Progresses, HasDone, ProgressInv
  <2>4. CASE <<u, s>> \notin borrowed'
    <3>1. HasDone(u, s) \/ <<u, s>> \in told
      BY <1>3, <2>4 DEF FindCompletion, Of, HasDone
    <3>2. <<u, s>> \in Due \/ HasDone(u, s)
      BY <3>1 DEF Due
    <3> QED BY <1>3, <2>1, <2>2, <3>2 DEF Progresses, HasDone, ProgressInv
  <2> QED BY <2>3, <2>4
<1>4. CASE CreateCompletion(r)
  <2> DEFINE q == req[r]
             new == [id |-> r, user |-> q.user, subject |-> q.subject]
  <2>1. CASE q.user \in students /\ q.subject \in Ids(subjects)
    <3>1. /\ UNCHANGED <<students, subjects, borrowed, told>>
          /\ completions' = completions \cup {new} /\ marked' = marked \cup {<<q.user, q.subject>>}
          /\ Go(r, [pc |-> "answer", user |-> q.user, subject |-> q.subject])
      BY <1>4, <2>1 DEF CreateCompletion
    <3>2. new.user = q.user /\ new.subject = q.subject
      OBVIOUS
    <3>3. Due' \ Due \subseteq {<<q.user, q.subject>>}
      <4>1. req'[r].user = q.user /\ req'[r].subject = q.subject
        BY <3>1 DEF Go, ProgressInv, ReqInv
      <4>2. \A x \in Request \ {r} : req'[x] = req[x]
        BY <1>0 DEF StepOf
      <4> QED BY <3>1, <4>1, <4>2 DEF Due, At
    <3>4. <<q.user, q.subject>>[1] = q.user /\ <<q.user, q.subject>>[2] = q.subject
      OBVIOUS
    <3> HIDE DEF new
    <3>5. \A u, s : HasDone(u, s)' <=> HasDone(u, s) \/ (u = q.user /\ s = q.subject)
      <4> HIDE DEF q
      <4> QED BY <3>1, <3>2 DEF HasDone
    <3>6. \A row \in completions' : <<row.user, row.subject>> \in marked'
      <4> HIDE DEF q
      <4> QED BY <3>1, <3>2 DEF ProgressInv
    <3> HIDE DEF q
    <3> QED BY <2>1, <3>1, <3>3, <3>4, <3>5, <3>6 DEF Progresses, Ids
  <2>2. CASE ~(q.user \in students /\ q.subject \in Ids(subjects))
    <3>1. /\ UNCHANGED <<borrowed, marked, told, students, subjects, completions>>
          /\ Go(r, Done)
      BY <1>4, <2>2 DEF CreateCompletion
    <3>2. ~At(r, "answer")'
      BY <3>1 DEF Go, Done, At, ProgressInv, ReqInv
    <3>3. Due' \subseteq Due
      BY <1>0, <3>1, <3>2 DEF StepOf, Due, At
    <3> QED BY <1>1, <3>1, <3>3
  <2> QED BY <2>1, <2>2
<1>5. CASE AnswerMarked(r)
  <2>1. /\ UNCHANGED <<borrowed, marked, students, subjects, completions>>
        /\ At(r, "answer") /\ told' = told \cup {<<req[r].user, req[r].subject>>}
        /\ ~CreateCompletion(r)
    BY <1>5 DEF AnswerMarked, Tell, CreateCompletion, At, rows
  <2>2. Due' \subseteq Due
    BY <1>0, <2>1, DueGrows DEF Due
  <2> QED BY <1>1, <2>1, <2>2
<1>6. ASSUME NEW u \in Student, NEW s \in Ids(subjects), FindCompletion(r, u, s)
      PROVE  Progresses(r)
  <2>1. ~CreateCompletion(r)
    BY <1>6 DEF FindCompletion, CreateCompletion, At
  <2> QED BY <1>2, <1>3, <1>6, <2>1 DEF FindCompletion, Tell, rows
<1>7. ASSUME ~CreateCompletion(r), ~AnswerMarked(r),
             \A u \in Student : \A s \in Ids(subjects) : ~FindCompletion(r, u, s)
      PROVE  UNCHANGED <<told, borrowed, marked, students, subjects, completions>>
  BY <1>7 DEF StudentStep, CheckReview, GoOn, ListNotices, GetProgressClass,
     ListEnrollments, CountSubjects, ListSubjects, CountCompletions, IsCompleted, Ask,
     CreateReview, MarkAllAsRead, MarkAsRead, rows, history
<1> QED BY <1>2, <1>4, <1>5, <1>6, <1>7

LEMMA ListStepKeeps ==
  ASSUME ProgressInv, NEW r \in Request, StudentStep(r), Progresses(r), StepOf(r)
  PROVE  ListKeeps(r)'
<1>1. ASSUME NEW u \in Student, ListSubjects(r, u) PROVE ListKeeps(r)'
  <2>1. req'[r] = [pc |-> "list", user |-> u, left |-> Ids(subjects), completed |-> {},
                   had |-> {row.subject : row \in Of(completions, u)}]
    BY <1>1 DEF ListSubjects, Go, ProgressInv, ReqInv
  <2>2. UNCHANGED <<completions, subjects>>
    BY <1>1 DEF ListSubjects, rows
  <2>3. \A s \in req'[r].had : HasDone(u, s)'
    BY <2>1, <2>2 DEF HasDone, Of
  <2> QED BY <2>1, <2>2, <2>3 DEF ListKeeps
<1>2. ASSUME NEW s \in SubjectId, IsCompleted(r, s) PROVE ListKeeps(r)'
  <2> DEFINE some == {row.subject : row \in Of(completions, req[r].user)}
  <2>1. req[r] \in Listing /\ At(r, "list")
    BY <1>2 DEF IsCompleted, Ask, ProgressInv, ReqInv
  <2>2. /\ req'[r].user = req[r].user /\ req'[r].had = req[r].had
        /\ req'[r].left = req[r].left \ {s}
        /\ req'[r].completed = IF s \in some THEN req[r].completed \cup {s} ELSE req[r].completed
    BY <1>2, <2>1 DEF IsCompleted, Ask, Listing, ProgressInv, ReqInv
  <2>3. UNCHANGED <<students, completions, subjects, marked>>
    BY <1>2 DEF IsCompleted, Ask, rows, history
  <2>4. \A x \in SubjectId : x \in some <=> HasDone(req[r].user, x)
    BY DEF HasDone, Of
  <2>5. \A x \in some : <<req[r].user, x>> \in marked
    BY DEF Of, ProgressInv
  <2>6. \A x : HasDone(req[r].user, x)' <=> HasDone(req[r].user, x)
    BY <2>2, <2>3 DEF HasDone
  <2>7. ListKeeps(r)
    BY DEF ProgressInv
  <2> HIDE DEF some
  <2> QED BY <2>1, <2>2, <2>3, <2>4, <2>5, <2>6, <2>7 DEF ListKeeps
<1> QED BY <1>1, <1>2 DEF StepOf, Reaches, ListKeeps, At

LEMMA ProgressStep ==
  ASSUME ProgressInv, NEW r \in Request, TeacherStep(r) \/ StudentStep(r), TypeOK'
  PROVE  ProgressInv'
<1>1. StepOf(r) /\ ReqInv' /\ Progresses(r)
  BY StepsOf, TeacherProgresses, StudentProgresses DEF ProgressInv
<1>2. ~At(r, "new")' /\ \A x \in Request \ {r} : req'[x] = req[x]
  BY <1>1 DEF StepOf, Reaches, At
<1>3. At(r, "list")' => StudentStep(r)
  BY <1>1 DEF StepOf, Reaches, At, StudentStep
<1>4. At(r, "list")' => \/ req'[r].had \subseteq Ids(subjects)
                        \/ At(r, "list") /\ req'[r].had = req[r].had
  <2>1. ASSUME NEW u \in Student, ListSubjects(r, u) PROVE req'[r].had \subseteq Ids(subjects)
    BY <2>1 DEF ListSubjects, Go, ProgressInv, ReqInv, TypeOK, Of
  <2>2. ASSUME NEW s \in SubjectId, IsCompleted(r, s)
        PROVE  At(r, "list") /\ req'[r].had = req[r].had
    BY <2>2 DEF IsCompleted, Ask, Listing, ProgressInv, ReqInv
  <2> QED BY <1>1, <2>1, <2>2 DEF StepOf, Reaches, At
<1>5. NewIsUnused'
  <2> SUFFICES ASSUME NEW x \in Request, At(x, "new")'
               PROVE  /\ x \notin Ids(subjects)' /\ \A p \in Due' : p[2] # x
                      /\ \A y \in Request : At(y, "list")' => x \notin req'[y].had
    BY DEF NewIsUnused
  <2>1. x # r /\ At(x, "new")
    BY <1>2 DEF At
  <2>2. x \notin Ids(subjects) /\ x \notin Ids(subjects)' /\ \A p \in Due' : p[2] # x
    BY <1>1, <2>1 DEF ProgressInv, NewIsUnused, Progresses, Ids
  <2>3. ASSUME NEW y \in Request, At(y, "list")' PROVE x \notin req'[y].had
    BY <1>2, <1>4, <2>1, <2>2, <2>3 DEF ProgressInv, NewIsUnused, At
  <2> QED BY <2>2, <2>3
<1>6. \A s \in Ids(subjects)' : s \in Ids(subjects) \/ (s = r /\ At(r, "new"))
  BY <1>1 DEF Progresses, Ids
<1>7. DueIsKept'
  <2> SUFFICES ASSUME NEW p \in Due' \ borrowed', p[1] \in students', p[2] \in Ids(subjects)'
               PROVE  HasDone(p[1], p[2])'
    BY DEF DueIsKept
  <2>1. CASE p \in Due
    <3>1. p \notin borrowed /\ p[1] \in students /\ p[2] \in Ids(subjects)
      BY <1>1, <1>6, <2>1 DEF Progresses, ProgressInv, NewIsUnused
    <3> QED BY <1>1, <2>1, <3>1 DEF Progresses, ProgressInv, DueIsKept, Ids
  <2> QED BY <1>1, <2>1 DEF Progresses
<1>8. ASSUME NEW x \in Request \ {r}, At(x, "list")', req'[x].user \in students'
      PROVE  ListKeeps(x)'
  <2>1. At(x, "list") /\ req'[x] = req[x] /\ req[x].user \in students /\ ListKeeps(x)
    BY <1>1, <1>2, <1>8 DEF At, Progresses, ProgressInv
  <2>2. \A s \in req[x].had \cap Ids(subjects)' : s \in Ids(subjects)
    BY <1>6, <2>1 DEF ProgressInv, NewIsUnused
  <2>3. \A s \in Ids(subjects)' : HasDone(req[x].user, s) => HasDone(req[x].user, s)'
    BY <1>1, <1>8, <2>1 DEF Progresses, HasDone, Ids
  <2> QED BY <1>1, <2>1, <2>2, <2>3 DEF ListKeeps, Progresses
<1>9. \A x \in Request : ListKeeps(x)'
  BY <1>1, <1>3, <1>8, ListStepKeeps DEF ListKeeps
<1>10. \A row \in completions' : <<row.user, row.subject>> \in marked'
  BY <1>1 DEF Progresses
<1> QED BY <1>1, <1>5, <1>7, <1>9, <1>10 DEF ProgressInv

LEMMA ProgressInit == Init => ProgressInv
<1> SUFFICES ASSUME Init PROVE ProgressInv
  OBVIOUS
<1>1. TypeOK /\ ReqInv /\ \A r \in Request : ~At(r, "list")
  BY TypeInit DEF Init, ReqInv, At, Fresh
<1>2. Due = {} /\ completions = {} /\ \A r \in Request : r \notin Ids(subjects)
  BY NewIdsAreNew DEF Init, Due, At, Fresh
<1> QED BY <1>1, <1>2 DEF ProgressInv, NewIsUnused, DueIsKept, ListKeeps

LEMMA ProgressNext == ProgressInv /\ [Next]_vars => ProgressInv'
<1> SUFFICES ASSUME ProgressInv, [Next]_vars PROVE ProgressInv'
  OBVIOUS
<1>1. TypeOK'
  BY TypeNext DEF ProgressInv
<1>2. CASE UNCHANGED vars
  BY <1>1, <1>2 DEF vars, rows, history, ProgressInv, ReqInv, At, NewIsUnused, DueIsKept,
     Due, ListKeeps, HasDone, Ids
<1> QED BY <1>1, <1>2, ProgressStep DEF Next

LEMMA ProgressAlways == Spec => []ProgressInv
  BY ProgressInit, ProgressNext, PTL DEF Spec

\* What a student was told to have completed stays completed for as long as the subject
\* and the student are there, whatever else is removed, unless the answer was another
\* student's completion (markSubjectCompletedBySubjectUUID).
THEOREM CompletedStaysCompleted == Spec => []ProgressIsKept
<1>1. ProgressInv => ProgressIsKept
  BY DEF ProgressInv, DueIsKept, Due, ProgressIsKept, KeptUnless, HasDone
<1> QED BY <1>1, ProgressAlways, PTL

\* The list that findAllWithSubjects makes of one query for each subject misses nothing
\* its student had completed and shows nothing they have never completed.
THEOREM ListsAreOwn == Spec => []ListShowsOwnProgress
<1>1. ProgressInv => ListShowsOwnProgress
  BY DEF ProgressInv, ListShowsOwnProgress, ListKeeps
<1> QED BY <1>1, ProgressAlways, PTL

-----------------------------------------------------------------------------
(* The notices of a new subject. *)

HasNotice(r, u) == \E n \in notices : n.id = r /\ n.user = u

\* Whoever is still there of those a request tells has been told, or is left to tell.
TellingInv ==
  /\ TypeOK /\ ReqInv
  /\ \A r \in Request : At(r, "notify") =>
       \A u \in req[r].to \cap students :
         u \in req[r].left \cup req[r].failed \/ HasNotice(r, u)

\* A notice goes only with its user.
LEMMA NoticesStay ==
  ASSUME TypeOK, NEW r \in Request, TeacherStep(r) \/ StudentStep(r),
         NEW x \in Request, NEW u \in students', HasNotice(x, u)
  PROVE  HasNotice(x, u)'
<1>1. PICK n \in notices : n.id = x /\ n.user = u
  BY DEF HasNotice
<1>2. CASE n \in notices'
  BY <1>1, <1>2 DEF HasNotice
<1>3. ASSUME NEW m \in notices, MarkAsRead(r, m) PROVE HasNotice(x, u)'
  <2>1. [m EXCEPT !.read = TRUE].id = m.id /\ [m EXCEPT !.read = TRUE].user = m.user
    BY DEF TypeOK
  <2>2. CASE m = n
    BY <1>1, <1>3, <2>1, <2>2 DEF MarkAsRead, HasNotice
  <2> QED BY <1>2, <1>3, <2>2 DEF MarkAsRead
<1>4. CASE MarkAllAsRead(r)
  <2>1. [n EXCEPT !.read = TRUE].id = n.id /\ [n EXCEPT !.read = TRUE].user = n.user
    BY DEF TypeOK
  <2> DEFINE seen == IF n.user = req[r].user /\ n.id \in req[r].ids
                     THEN [n EXCEPT !.read = TRUE] ELSE n
  <2>2. seen \in notices'
    BY <1>4 DEF MarkAllAsRead
  <2> QED BY <1>1, <2>1, <2>2 DEF HasNotice
<1>5. ASSUME NEW v \in Student, RemoveUser(r, v) PROVE HasNotice(x, u)'
  BY <1>1, <1>2, <1>5 DEF RemoveUser, Of
<1>6. ASSUME notices \subseteq notices' PROVE HasNotice(x, u)'
  BY <1>2, <1>6
<1> QED BY <1>3, <1>4, <1>5, <1>6 DEF TeacherStep, StudentStep, CreateCurriculum,
     RemoveCurriculum, AddSubject, RemoveSubject, ReadEnrolled, SendNotification, Write, EndCourse,
     RemoveCourse, DeleteReview, FindCompletion, GoOn, CheckReview, ListNotices, GetProgressClass,
     ListEnrollments, CountSubjects, ListSubjects, CountCompletions, IsCompleted, Ask,
     CreateCompletion, AnswerMarked, CreateReview, rows

LEMMA StudentsOnlyLeave ==
  ASSUME NEW r \in Request, TeacherStep(r) \/ StudentStep(r) PROVE students' \subseteq students
  BY DEF TeacherStep, StudentStep, CreateCurriculum, RemoveCurriculum, AddSubject,
     RemoveSubject, ReadEnrolled, SendNotification, Write, RemoveUser, EndCourse, RemoveCourse,
     DeleteReview, FindCompletion, GoOn, CheckReview, ListNotices, GetProgressClass,
     ListEnrollments, CountSubjects, ListSubjects, CountCompletions, IsCompleted, Ask,
     CreateCompletion, AnswerMarked, CreateReview, MarkAllAsRead, MarkAsRead, rows

LEMMA TellingStep ==
  ASSUME TellingInv, NEW r \in Request, TeacherStep(r) \/ StudentStep(r), TypeOK'
  PROVE  TellingInv'
<1>1. StepOf(r) /\ ReqInv' /\ students' \subseteq students
  BY StepsOf, StudentsOnlyLeave DEF TellingInv
<1>2. ASSUME NEW x \in Request \ {r}, At(x, "notify")', NEW u \in req'[x].to \cap students'
      PROVE  u \in req'[x].left \cup req'[x].failed \/ HasNotice(x, u)'
  <2>1. req'[x] = req[x] /\ At(x, "notify") /\ u \in students
    BY <1>1, <1>2 DEF StepOf, At
  <2> QED BY <1>2, <2>1, NoticesStay DEF TellingInv
<1>3. ASSUME At(r, "notify")', NEW u \in req'[r].to \cap students'
      PROVE  u \in req'[r].left \cup req'[r].failed \/ HasNotice(r, u)'
  <2>1. CASE ReadEnrolled(r)
    BY <1>3, <2>1 DEF ReadEnrolled, Go, Done, At, TellingInv, ReqInv
  <2>2. ASSUME NEW v \in Student, SendNotification(r, v)
        PROVE  u \in req'[r].left \cup req'[r].failed \/ HasNotice(r, u)'
    <3>1. req[r] \in Notifying /\ At(r, "notify")
      BY <2>2 DEF SendNotification, TellingInv, ReqInv
    <3>2. /\ req'[r].to = req[r].to /\ req'[r].left = req[r].left \ {v}
          /\ req[r].failed \subseteq req'[r].failed
          /\ Write(r, v) \/ v \in req'[r].failed
      BY <2>2, <3>1 DEF SendNotification, Notifying, TellingInv, ReqInv
    <3>3. u \in students /\ (u \in req[r].left \cup req[r].failed \/ HasNotice(r, u))
      BY <1>1, <1>3, <3>1, <3>2 DEF TellingInv
    <3>4. CASE u = v /\ Write(r, v)
      <4>1. [id |-> r, user |-> u, read |-> FALSE] \in notices'
        BY <3>4 DEF Write
      <4> QED BY <4>1 DEF HasNotice
    <3>5. CASE u # v
      BY <1>3, <3>2, <3>3, <3>5, NoticesStay DEF TellingInv
    <3> QED BY <3>2, <3>4, <3>5
  <2> QED BY <1>1, <1>3, <2>1, <2>2 DEF StepOf, Reaches, At
<1> QED BY <1>1, <1>2, <1>3 DEF TellingInv

LEMMA TellingNext == TellingInv /\ [Next]_vars => TellingInv'
<1> SUFFICES ASSUME TellingInv, [Next]_vars PROVE TellingInv'
  OBVIOUS
<1>1. TypeOK'
  BY TypeNext DEF TellingInv
<1>2. CASE UNCHANGED vars
  BY <1>1, <1>2 DEF vars, rows, TellingInv, ReqInv, At, HasNotice
<1> QED BY <1>1, <1>2, TellingStep DEF Next

\* A notice for each of those who were enrolled goes out, though accounts are removed
\* while the others are written (sendNotification).
THEOREM AllAreTold == Spec => []EveryoneIsTold
<1>1. Init => TellingInv
  BY TypeInit DEF Init, TellingInv, ReqInv, At, Fresh
<1>2. TellingInv => EveryoneIsTold
  BY DEF TellingInv, EveryoneIsTold, HasNotice
<1> QED BY <1>1, <1>2, TellingNext, PTL DEF Spec

-----------------------------------------------------------------------------
(* The percentage. *)

\* No subject is completed twice by a student whose requests do not overlap.
Again(u, s) == <<u, s>> \in overlapped

OnceCompleted ==
  /\ \A a, b \in completions :
       a.user = b.user /\ a.subject = b.subject /\ a # b => Again(a.user, a.subject)
  /\ \A r, x \in Request :
       /\ At(r, "mark") /\ At(x, "mark") /\ r # x
       /\ req[r].user = req[x].user /\ req[r].subject = req[x].subject
       => Again(req[r].user, req[r].subject)
  /\ \A r \in Request, row \in completions :
       At(r, "mark") /\ row.user = req[r].user /\ row.subject = req[r].subject
         => Again(row.user, row.subject)

CountInv ==
  /\ TypeOK /\ ReqInv /\ OnceCompleted /\ ProgressWithinHundred
  /\ IsFiniteSet(subjects) /\ IsFiniteSet(completions)
  /\ \A r \in Request : At(r, "count") => IsFiniteSet(req[r].seen)

\* As many subjects were counted as there are completions of them, if each is
\* completed once.
LEMMA EarlyAtMostSeen ==
  ASSUME NEW early, NEW seen, IsFiniteSet(early), IsFiniteSet(seen),
         \A row \in early : row.subject \in seen,
         \A a, b \in early : a.subject = b.subject => a = b
  PROVE  Cardinality(early) <= Cardinality(seen)
<1> DEFINE f == [row \in early |-> row.subject]
<1>1. f \in [early -> seen]
  OBVIOUS
<1>2. \A x, y \in early : f[x] = f[y] => x = y
  OBVIOUS
<1>3. Cardinality(early) \in Nat /\ Cardinality(seen) \in Nat
  BY FS_CardinalityType
<1> HIDE DEF f
<1>4. ~(Cardinality(seen) < Cardinality(early))
  BY <1>1, <1>2, FS_PigeonHole
<1> QED BY <1>3, <1>4

LEMMA CountedWithinHundred ==
  ASSUME NEW mine, NEW seen, IsFiniteSet(mine), IsFiniteSet(seen),
         \A a, b \in mine : a.subject = b.subject => a = b
  PROVE  Cardinality(mine)
           <= Cardinality(seen) + Cardinality({row \in mine : row.subject \notin seen})
<1> DEFINE early == {row \in mine : row.subject \in seen}
           late == {row \in mine : row.subject \notin seen}
<1>1. late = mine \ early /\ mine \cap early = early /\ early \in SUBSET mine
  OBVIOUS
<1>2. IsFiniteSet(early)
  BY <1>1, FS_Subset
<1>3. Cardinality(late) = Cardinality(mine) - Cardinality(early)
  <2> HIDE DEF early, late
  <2>1. Cardinality(mine \ early) = Cardinality(mine) - Cardinality(mine \cap early)
    BY FS_Difference
  <2> QED BY <1>1, <2>1
<1>4. Cardinality(early) <= Cardinality(seen)
  BY <1>2, EarlyAtMostSeen
<1>5. /\ Cardinality(mine) \in Nat /\ Cardinality(seen) \in Nat
      /\ Cardinality(early) \in Nat
  BY <1>2, FS_CardinalityType
<1> HIDE DEF early
<1> QED BY <1>3, <1>4, <1>5

LEMMA FiniteIds ==
  ASSUME NEW some, IsFiniteSet(some) PROVE IsFiniteSet(Ids(some))
<1> DEFINE f == [row \in some |-> row.id]
<1>1. f \in Surjection(some, Ids(some))
  BY DEF Surjection, Ids
<1> QED BY <1>1, FS_Surjection

\* Subjects and completions come one at a time, and users are noted who overlap.
LEMMA RowsComeSingly ==
  ASSUME NEW r \in Request, TeacherStep(r) \/ StudentStep(r)
  PROVE  /\ overlapped \subseteq overlapped'
         /\ \E s : subjects' \subseteq subjects \cup {s}
         /\ CreateCompletion(r) \/ completions' \subseteq completions
<1>1. overlapped \subseteq overlapped'
  BY DEF TeacherStep, StudentStep, CreateCurriculum, RemoveCurriculum, AddSubject,
     RemoveSubject, ReadEnrolled, SendNotification, Write, RemoveUser, EndCourse, RemoveCourse,
     DeleteReview, FindCompletion, GoOn, CheckReview, ListNotices, GetProgressClass,
     ListEnrollments, CountSubjects, ListSubjects, CountCompletions, IsCompleted, Ask,
     CreateCompletion, AnswerMarked, CreateReview, MarkAllAsRead, MarkAsRead, history
<1>2. \E s : subjects' \subseteq subjects \cup {s}
  <2>1. ASSUME NEW c \in curriculums, AddSubject(r, c)
        PROVE  \E s : subjects' \subseteq subjects \cup {s}
    <3>1. subjects' = subjects \cup {[id |-> r, cur |-> c]}
      BY <2>1 DEF AddSubject
    <3> QED BY <3>1
  <2>2. ASSUME subjects' \subseteq subjects PROVE \E s : subjects' \subseteq subjects \cup {s}
    BY <2>2
  <2> QED BY <2>1, <2>2 DEF TeacherStep, StudentStep, CreateCurriculum, RemoveCurriculum,
       RemoveSubject, ReadEnrolled, SendNotification, Write, RemoveUser, EndCourse, RemoveCourse,
       DeleteReview, FindCompletion, GoOn, CheckReview, ListNotices, GetProgressClass,
       ListEnrollments, CountSubjects, ListSubjects, CountCompletions, IsCompleted, Ask,
       CreateCompletion, AnswerMarked, CreateReview, MarkAllAsRead, MarkAsRead, rows, Keep
<1>3. CreateCompletion(r) \/ completions' \subseteq completions
  BY DEF TeacherStep, StudentStep, CreateCurriculum, RemoveCurriculum, AddSubject,
     RemoveSubject, ReadEnrolled, SendNotification, Write, RemoveUser, EndCourse, RemoveCourse,
     DeleteReview, FindCompletion, GoOn, CheckReview, ListNotices, GetProgressClass,
     ListEnrollments, CountSubjects, ListSubjects, CountCompletions, IsCompleted, Ask,
     AnswerMarked, CreateReview, MarkAllAsRead, MarkAsRead, rows, Keep, Of
<1> QED BY <1>1, <1>2, <1>3

LEMMA OnceCompletedStep ==
  ASSUME CountInv, NEW r \in Request, TeacherStep(r) \/ StudentStep(r)
  PROVE  OnceCompleted'
<1>1. StepOf(r) /\ overlapped \subseteq overlapped'
  BY StepsOf, RowsComeSingly DEF CountInv
<1>2. \A x \in Request \ {r} : req'[x] = req[x]
  BY <1>1 DEF StepOf
<1>3. ASSUME NEW u \in Student, NEW s \in Ids(subjects), FindCompletion(r, u, s), At(r, "mark")'
      PROVE  OnceCompleted'
  <2>1. /\ Go(r, [pc |-> "mark", user |-> u, subject |-> s])
        /\ overlapped' = IF Pending("mark", u, s) # {} THEN overlapped \cup {<<u, s>>} ELSE overlapped
        /\ \A row \in completions : row.subject # s
    BY <1>3 DEF FindCompletion, GoOn, Go, Done, At, CountInv, ReqInv
  <2>2. completions' = completions
    BY <1>3 DEF FindCompletion, rows
  <2>3. req'[r] = [pc |-> "mark", user |-> u, subject |-> s]
    BY <2>1 DEF Go, CountInv, ReqInv
  <2>4. \A x \in Request \ {r} : At(x, "mark") /\ req[x].user = u /\ req[x].subject = s
          => Again(u, s)'
    BY <2>1 DEF Pending, Again
  <2> QED BY <1>1, <1>2, <2>1, <2>2, <2>3, <2>4 DEF OnceCompleted, CountInv, At, Again
<1>4. CASE CreateCompletion(r)
  <2> DEFINE q == req[r]
             new == [id |-> r, user |-> q.user, subject |-> q.subject]
  <2>1. completions' \subseteq completions \cup {new} /\ At(r, "mark")
    BY <1>4 DEF CreateCompletion
  <2>2. ~At(r, "mark")'
    BY <1>4 DEF CreateCompletion, Go, Done, At, CountInv, ReqInv
  <2>3. \A row \in completions :
          row.user = q.user /\ row.subject = q.subject => Again(row.user, row.subject)
    BY <2>1 DEF CountInv, OnceCompleted
  <2>4. \A x \in Request \ {r} :
          At(x, "mark") /\ q.user = req[x].user /\ q.subject = req[x].subject => Again(q.user, q.subject)
    BY <2>1 DEF CountInv, OnceCompleted
  <2>5. new.user = q.user /\ new.subject = q.subject
    OBVIOUS
  <2> HIDE DEF new, q
  <2> QED BY <1>1, <1>2, <2>1, <2>2, <2>3, <2>4, <2>5 DEF OnceCompleted, CountInv, At, Again
<1>5. ASSUME ~At(r, "mark")', completions' \subseteq completions PROVE OnceCompleted'
  BY <1>1, <1>2, <1>5 DEF OnceCompleted, CountInv, At, Again
<1>6. CreateCompletion(r) \/ completions' \subseteq completions
  BY RowsComeSingly
<1> QED BY <1>1, <1>3, <1>4, <1>5, <1>6 DEF StepOf, Reaches, At

LEMMA CountStep ==
  ASSUME CountInv, NEW r \in Request, TeacherStep(r) \/ StudentStep(r), TypeOK'
  PROVE  CountInv'
<1>1. StepOf(r) /\ ReqInv' /\ OnceCompleted' /\ overlapped \subseteq overlapped'
  BY StepsOf, RowsComeSingly, OnceCompletedStep DEF CountInv
<1>2. \A x \in Request \ {r} : req'[x] = req[x]
  BY <1>1 DEF StepOf
<1>3. IsFiniteSet(subjects')
  <2>1. PICK s : subjects' \subseteq subjects \cup {s}
    BY RowsComeSingly
  <2>2. IsFiniteSet(subjects \cup {s})
    BY FS_AddElement DEF CountInv
  <2> QED BY <2>1, <2>2, FS_Subset
<1>4. IsFiniteSet(completions')
  <2> DEFINE new == [id |-> r, user |-> req[r].user, subject |-> req[r].subject]
  <2>1. completions' \subseteq completions \cup {new}
    BY RowsComeSingly DEF CreateCompletion
  <2> HIDE DEF new
  <2>2. IsFiniteSet(completions \cup {new})
    BY FS_AddElement DEF CountInv
  <2> QED BY <2>1, <2>2, FS_Subset
<1>5. At(r, "count")' => IsFiniteSet(req'[r].seen)
  <2> SUFFICES ASSUME At(r, "count")' PROVE IsFiniteSet(req'[r].seen)
    OBVIOUS
  <2>1. CountSubjects(r)
    BY <1>1 DEF StepOf, Reaches, At
  <2>2. req'[r].seen = Ids(subjects)
    BY <2>1 DEF CountSubjects, Go, Done, At, CountInv, ReqInv
  <2> QED BY <2>2, FiniteIds DEF CountInv
<1>6. ASSUME At(r, "progress")', overlapped' \cap ({req'[r].user} \X SubjectId) = {}
      PROVE  req'[r].marked <= req'[r].total + req'[r].late
  <2>1. CountCompletions(r) /\ At(r, "count")
    BY <1>1, <1>6 DEF StepOf, Reaches, At, CountCompletions
  <2> DEFINE q == req[r]
             mine == Of(completions, q.user)
  <2>2. /\ req'[r].user = q.user /\ req'[r].total = Cardinality(q.seen)
        /\ req'[r].marked = Cardinality(mine)
        /\ req'[r].late = Cardinality({row \in mine : row.subject \notin q.seen})
    BY <2>1 DEF CountCompletions, Go, CountInv, ReqInv
  <2>3. \A s \in SubjectId : ~Again(q.user, s)
    BY <1>1, <1>6, <2>2 DEF Again
  <2>4. \A a, b \in mine : a.subject = b.subject => a = b
    BY <2>3 DEF Of, CountInv, OnceCompleted, TypeOK, Ids
  <2>5. IsFiniteSet(mine) /\ IsFiniteSet(q.seen)
    BY <2>1, FS_Subset DEF CountInv, Of
  <2> HIDE DEF mine
  <2> QED BY <2>2, <2>4, <2>5, CountedWithinHundred
<1>7. ProgressWithinHundred'
  BY <1>1, <1>2, <1>6 DEF ProgressWithinHundred, CountInv, At
<1>8. \A x \in Request : At(x, "count")' => IsFiniteSet(req'[x].seen)
  BY <1>2, <1>5 DEF CountInv, At
<1> QED BY <1>1, <1>3, <1>4, <1>7, <1>8 DEF CountInv

LEMMA CountNext == CountInv /\ [Next]_vars => CountInv'
<1> SUFFICES ASSUME CountInv, [Next]_vars PROVE CountInv'
  OBVIOUS
<1>1. TypeOK'
  BY TypeNext DEF CountInv
<1>2. CASE UNCHANGED vars
  BY <1>1, <1>2 DEF vars, rows, history, CountInv, ReqInv, At, OnceCompleted,
     Again, ProgressWithinHundred
<1> QED BY <1>1, <1>2, CountStep DEF Next

\* However subjects and completions come and go between the two counts, a student's
\* progress is at most 100 per cent, but for subjects added and completed between them
\* and for one subject marked twice at once (getProgressCourse).
THEOREM ProgressIsAPercentage == Spec => []ProgressWithinHundred
<1>1. Init => CountInv
  <2> SUFFICES ASSUME Init PROVE CountInv
    OBVIOUS
  <2>1. /\ TypeOK /\ ReqInv
        /\ \A r \in Request : ~At(r, "mark") /\ ~At(r, "count") /\ ~At(r, "progress")
    BY TypeInit DEF Init, ReqInv, At, Fresh
  <2>2. IsFiniteSet(subjects) /\ completions = {} /\ IsFiniteSet(completions)
    BY CourseIsFinite, FS_EmptySet DEF Init
  <2> QED BY <2>1, <2>2 DEF CountInv, OnceCompleted, ProgressWithinHundred
<1>2. CountInv => ProgressWithinHundred
  BY DEF CountInv
<1> QED BY <1>1, <1>2, CountNext, PTL DEF Spec
=============================================================================
