------------------------------ MODULE QuizBank -------------------------------
(***************************************************************************)
(* One quiz as its teachers keep it: its questions, the options they are   *)
(* drawn with, whether it is active (quizzes/quizzes.service.ts and        *)
(* quizzes/questions/questions.service.ts), and the draw that makes a      *)
(* student's exam (generateQuiz); and around it the questions of the       *)
(* course's other quizzes, which it imports, and the curriculums, which    *)
(* take their questions with them when they are removed.                   *)
(*                                                                         *)
(* A request is a process.  updateQuiz is a transaction: from its first    *)
(* statement it holds the quiz's row, which other updates and the deletion *)
(* wait for, and it reads the questions at that moment.  Questions have a  *)
(* title, a level and perhaps a curriculum; their options and right        *)
(* answers are left out, and so are the quiz's texts, dates and duration.  *)
(* The rows of a CSV are so many calls of createQuestion.                  *)
(***************************************************************************)
EXTENDS Integers, FiniteSets

CONSTANTS
  Request,     \* calls of the handlers below
  None,        \* no curriculum, no quiz, no request
  Curriculum,  \* curriculums of the course
  Title,       \* texts of questions
  Drafts,      \* what the teachers write: a title, a level, perhaps a curriculum
  Elsewhere,   \* questions the course's other quizzes start with
  Initially,   \* questions the quiz starts with, if it is there at the start
  Options      \* percentages and totals the teachers choose from

Level == {"easy", "medium", "hard"}
Option == [easy : Int, medium : Int, hard : Int, total : Int]

ASSUME NoneIsNothing == None \notin Request \cup Curriculum
ASSUME QuestionsAreFinite == IsFiniteSet(Elsewhere) /\ IsFiniteSet(Initially)
Stored(some) == [id : {row.id : row \in some}, title : Title, level : Level,
                 cur : Curriculum \cup {None}, imported : BOOLEAN]
ASSUME QuestionsAreRows ==
  /\ Elsewhere \subseteq Stored(Elsewhere) /\ Initially \subseteq Stored(Initially)
  /\ \A row \in Elsewhere \cup Initially : ~row.imported
\* An id is given once.  It is a pair, of the request that gave it and what it copies.
ASSUME IdsAreKeys ==
  /\ \A a, b \in Elsewhere \cup Initially : a.id = b.id => a = b
  /\ \A row \in Elsewhere \cup Initially : row.id[1] = None
  /\ Elsewhere \cap Initially = {}
ASSUME OptionsAreNumbers == Options \subseteq Option
ASSUME DraftsAreTyped ==
  Drafts \subseteq [title : Title, level : Level, cur : Curriculum \cup {None}]

VARIABLES
  quiz,       \* the quiz and its QuizOptionGenerated; None if there is none
  questions,  \* its Question rows
  elsewhere,  \* those of the course's other quizzes
  curriculums, \* the curriculums that are there
  lock,       \* the updateQuiz that holds the quiz's row
  req,        \* where each request is, and what it has read
  tampered,   \* history: what became of the questions since the quiz was validated
  meanwhile   \* history: the same, since the update in progress read them

history == <<tampered, meanwhile>>
course == <<elsewhere, curriculums>>
vars == <<quiz, questions, lock, req, course, history>>

NewQuiz(c, all, option) == [active |-> FALSE, cur |-> c, all |-> all, option |-> option]
Fresh == [pc |-> "new"]
Done == [pc |-> "done"]

Init ==
  /\ \/ quiz = None /\ questions = {}
     \/ \E c \in Curriculum, all \in BOOLEAN, o \in Options :
          quiz = NewQuiz(c, all, o) /\ questions = Initially
  /\ elsewhere = Elsewhere /\ curriculums = Curriculum
  /\ lock = None
  /\ req = [r \in Request |-> Fresh]
  /\ tampered = {} /\ meanwhile = {}

At(r, pc) == req[r].pc = pc
Go(r, state) == req' = [req EXCEPT ![r] = state]
Mark(what) == tampered' = tampered \cup what /\ meanwhile' = meanwhile \cup what

-----------------------------------------------------------------------------
(* The draw *)

\* Math.round(total * (percentage / 100))
Round(total, percentage) == (2 * total * percentage + 100) \div 200
Share(q, level) == Round(q.option.total, q.option[level])

\* The questions of a level; of the quiz's own curriculum, unless it takes all.
Pool(q, rows, level) == {row \in rows : row.level = level /\ (q.all \/ row.cur = q.cur)}

\* A share that is not positive draws nothing.
Wanted(q, level) == IF Share(q, level) > 0 THEN Share(q, level) ELSE 0

\* randomizeQuestions picks at random until it has enough different questions:
\* from too few it picks for ever.
Suffices(q, rows, level) == Share(q, level) <= Cardinality(Pool(q, rows, level))

\* validationQuiz
\* Mutant: the percentages are not added up.
Valid_AnySum(q, rows) ==
  /\ rows # {} /\ q.option.total >= 1
  /\ Cardinality(rows) >= 2 * q.option.total
  /\ \A level \in Level : Suffices(q, rows, level)

Unset(option) == \E level \in Level : option[level] = 0

Valid(q, rows) ==
  /\ rows # {} /\ q.option.total >= 1
  /\ Cardinality(rows) >= 2 * q.option.total
  /\ Unset(q.option) \/ q.option.easy + q.option.medium + q.option.hard = 100
  /\ \A level \in Level : Suffices(q, rows, level)

\* takeQuiz finds the quiz active ...
Take(r) ==
  /\ At(r, "new") /\ quiz # None /\ quiz.active
  /\ Go(r, [pc |-> "draw"])
  /\ UNCHANGED <<quiz, questions, lock, course, history>>

\* ... and generateQuiz reads it again, with its questions.  From an empty pool one
\* question can be "picked", which does not exist and fails the call.
Draws(easy, medium, hard) ==
  /\ Cardinality(easy) = Wanted(quiz, "easy")
  /\ Cardinality(medium) = Wanted(quiz, "medium")
  /\ Cardinality(hard) = Wanted(quiz, "hard")

Generate(r) ==
  LET pool(level) == Pool(quiz, questions, level)
      ends(level) == \/ Suffices(quiz, questions, level)
                     \/ pool(level) = {} /\ Share(quiz, level) = 1 IN
  /\ At(r, "draw")
  /\ \/ /\ quiz = None \/ questions = {}
        /\ Go(r, Done)
     \/ /\ quiz # None /\ questions # {}
        /\ \/ \E level \in Level : ~ends(level) /\ Go(r, [pc |-> "endless"])
           \/ /\ \A level \in Level : ends(level)
              /\ \E level \in Level : ~Suffices(quiz, questions, level)
              /\ Go(r, Done)
           \/ \E easy \in SUBSET pool("easy"), medium \in SUBSET pool("medium"),
                 hard \in SUBSET pool("hard") :
                /\ Draws(easy, medium, hard)
                /\ Go(r, [pc |-> "drawn", exam |-> easy \cup medium \cup hard,
                          quiz |-> quiz])
  /\ UNCHANGED <<quiz, questions, lock, course, history>>

-----------------------------------------------------------------------------
(* The quiz *)

\* Mutant: what the quiz has is not compared.
Lacking_Everything(rows) == elsewhere

\* The questions of the course's other quizzes that a quiz with these rows lacks:
\* of one title and curriculum, 'it's same question'.
Lacking(rows) ==
  {e \in elsewhere : \A row \in rows : <<row.title, row.cur>> # <<e.title, e.cur>>}
Copies(r, some) == {[e EXCEPT !.id = <<r, e.id>>, !.imported = TRUE] : e \in some}

\* The quiz is made once.  createQuiz with all_curriculum_questions copies every question of the course.
CreateQuiz(r, c, all, option) ==
  /\ quiz = None /\ c \in curriculums /\ \A other \in Request : At(other, "new")
  /\ quiz' = NewQuiz(c, all, option)
  /\ questions' = IF all THEN Copies(r, elsewhere) ELSE {}
  /\ tampered' = {} /\ Go(r, Done)
  /\ UNCHANGED <<lock, course, meanwhile>>

DeleteQuiz(r) ==
  /\ At(r, "new") /\ quiz # None /\ lock = None
  /\ quiz' = None /\ questions' = {} /\ Go(r, Done)
  /\ UNCHANGED <<lock, course, history>>

\* updateQuiz with a curriculum, is_active, and perhaps generated_questions.
UpdateRead(r, c, active, asked, all, option) ==
  /\ At(r, "new") /\ quiz # None /\ lock = None /\ c \in curriculums
  /\ lock' = r /\ meanwhile' = {}
  /\ Go(r, [pc |-> "update", rows |-> questions, asked |-> asked,
            quiz |-> [active |-> active, cur |-> c,
                      all |-> IF asked THEN all ELSE quiz.all,
                      option |-> IF asked THEN option ELSE quiz.option]])
  /\ UNCHANGED <<quiz, questions, course, tampered>>

\* A quiz that is active now must be valid with the questions read; the rest of
\* the update follows all the same: taking all curriculums, it imports what it
\* lacks, and else it drops every question that has a curriculum.
UpdateCommit(r) ==
  LET u == req[r]
      drops == u.asked /\ ~u.quiz.all IN
  /\ At(r, "update")
  /\ u.quiz.active => Valid(u.quiz, u.rows)
  /\ quiz' = u.quiz
  /\ questions' = IF drops THEN {row \in questions : row.cur = None}
                  ELSE IF u.asked THEN questions \cup Copies(r, Lacking(u.rows))
                  ELSE questions
  /\ tampered' = meanwhile \cup (IF drops THEN {"dropped"} ELSE {})
  /\ lock' = None /\ Go(r, Done)
  /\ UNCHANGED <<course, meanwhile>>

\* It fails if the quiz is not valid, and may for other reasons, such as its time limit.
UpdateRollback(r) ==
  /\ At(r, "update")
  /\ lock' = None /\ Go(r, Done)
  /\ UNCHANGED <<quiz, questions, course, history>>

-----------------------------------------------------------------------------
(* Its questions *)

Row(id, d) == [id |-> id, title |-> d.title, level |-> d.level, cur |-> d.cur,
               imported |-> FALSE]

\* A question is written into this quiz, another of the course, or one of another course.
Into == {"quiz", "course", "away"}
Put(into, place, row) == IF into = place THEN {row} ELSE {}

CreateQuestion(r, d, into) ==
  /\ At(r, "new") /\ (into = "quiz" => quiz # None) /\ d.cur \in curriculums \cup {None}
  /\ questions' = questions \cup Put(into, "quiz", Row(<<r, None>>, d))
  /\ elsewhere' = elsewhere \cup Put(into, "course", Row(<<r, None>>, d))
  /\ Go(r, Done)
  /\ UNCHANGED <<quiz, lock, curriculums, history>>

\* updateQuestion writes its fields, the curriculum too, and moves it to the quiz
\* the request names; whether either quiz is active is not asked.
Rewrite(r, row, d, into, kept) ==
  /\ At(r, "new") /\ (into = "quiz" => quiz # None) /\ d.cur \in curriculums
  /\ questions' = kept \cup Put(into, "quiz", Row(row.id, d))
  /\ elsewhere' = (elsewhere \ {row}) \cup Put(into, "course", Row(row.id, d))
  /\ Mark(IF row \in questions THEN {"edited"} ELSE {}) /\ Go(r, Done)
  /\ UNCHANGED <<quiz, lock, curriculums>>

\* Mutant: the question is created rather than updated.
UpdateQuestion_Creates(r, row, d, into) == Rewrite(r, row, d, into, questions)

UpdateQuestion(r, row, d, into) == Rewrite(r, row, d, into, questions \ {row})

\* removeQuestion: refused while the quiz is active, which is read first.
\* Mutant: it is not.
RemoveRead_Any(r, row) ==
  /\ At(r, "new") /\ row \in questions
  /\ Go(r, [pc |-> "remove", id |-> row.id, active |-> quiz.active])
  /\ UNCHANGED <<quiz, questions, lock, course, history>>

RemoveRead(r, row) ==
  /\ At(r, "new") /\ row \in questions /\ ~quiz.active
  /\ Go(r, [pc |-> "remove", id |-> row.id, active |-> quiz.active])
  /\ UNCHANGED <<quiz, questions, lock, course, history>>

RemoveDelete(r) ==
  /\ At(r, "remove")
  /\ questions' = {row \in questions : row.id # req[r].id}
  /\ Mark(IF req[r].active THEN {} ELSE {"raced"})
  /\ Go(r, Done)
  /\ UNCHANGED <<quiz, lock, course>>

-----------------------------------------------------------------------------
(* Around it *)

\* A question of another quiz is removed, or all those of a quiz.
RemoveElsewhere(r, some) ==
  /\ At(r, "new") /\ some \subseteq elsewhere
  /\ elsewhere' = elsewhere \ some /\ Go(r, Done)
  /\ UNCHANGED <<quiz, questions, lock, curriculums, history>>

\* A curriculum goes with its questions, whichever quiz they are in, and with its
\* quizzes and all of theirs; it waits for an update of such a quiz.
RemoveCurriculum(r, c) ==
  LET mine == quiz # None /\ quiz.cur = c
      left == {row \in questions : row.cur # c} IN
  /\ At(r, "new") /\ c \in curriculums
  /\ lock # None => ~mine /\ req[lock].quiz.cur # c
  /\ curriculums' = curriculums \ {c}
  /\ elsewhere' \in SUBSET {e \in elsewhere : e.cur # c}
  /\ IF mine THEN quiz' = None /\ questions' = {} ELSE quiz' = quiz /\ questions' = left
  /\ Mark(IF left = questions THEN {} ELSE {"cascaded"}) /\ Go(r, Done)
  /\ UNCHANGED lock

-----------------------------------------------------------------------------
QuizStep(r) ==
  \/ Take(r) \/ Generate(r) \/ DeleteQuiz(r) \/ UpdateCommit(r) \/ UpdateRollback(r)
  \/ \E c \in Curriculum, all \in BOOLEAN, o \in Options :
       \/ CreateQuiz(r, c, all, o)
       \/ \E active, asked \in BOOLEAN : UpdateRead(r, c, active, asked, all, o)

QuestionStep(r) ==
  \/ RemoveDelete(r)
  \/ \E row \in questions : RemoveRead(r, row)
  \/ \E d \in Drafts, into \in Into :
       \/ into # "away" /\ CreateQuestion(r, d, into)
       \/ \E row \in questions \cup elsewhere : UpdateQuestion(r, row, d, into)

CourseStep(r) ==
  \/ \E some \in SUBSET elsewhere : RemoveElsewhere(r, some)
  \/ \E c \in Curriculum : RemoveCurriculum(r, c)

Next == \E r \in Request : QuizStep(r) \/ QuestionStep(r) \/ CourseStep(r)

Spec == Init /\ [][Next]_vars

-----------------------------------------------------------------------------
(* Properties *)

Quiz == [active : BOOLEAN, cur : Curriculum, all : BOOLEAN, option : Options]

\* Every variable keeps its type, no two questions have one id, and who holds the
\* quiz's row is in its update.
TypeOK ==
  /\ quiz \in Quiz \cup {None} /\ curriculums \subseteq Curriculum
  /\ questions \subseteq Stored(questions) /\ elsewhere \subseteq Stored(elsewhere)
  /\ \A a, b \in questions \cup elsewhere : a.id = b.id => a = b
  /\ lock # None => lock \in Request /\ At(lock, "update")
  /\ tampered \cup meanwhile \subseteq {"edited", "raced", "dropped", "cascaded"}

\* Every level of an active quiz has the questions a draw needs, so that no student
\* makes the server pick for ever: nothing takes them away but an edit, a removal
\* that was allowed before the quiz became active, the update that drops them, or
\* the removal of a curriculum some of them belong to (validationQuiz,
\* removeQuestion, randomizeQuestions).
ActiveIsPlayable ==
  quiz # None /\ quiz.active /\ tampered = {}
    => \A level \in Level : Suffices(quiz, questions, level)

\* Whoever draws from an active quiz gets as many questions as it asks for, one more
\* or one less: the shares are rounded one by one, and only if none of them is 0 are
\* they known to be 100 together, and only if none is negative are they what is drawn
\* (generateQuiz, validationQuiz).
DrawIsWellSized ==
  \A r \in Request :
    At(r, "drawn") /\ req[r].quiz.active /\ (\A level \in Level : req[r].quiz.option[level] > 0)
      => Cardinality(req[r].exam) - req[r].quiz.option.total \in -1 .. 1

\* 'If Title is same, then it's same question': two questions of one title and
\* curriculum are not both imported, but by one update that found them in two quizzes,
\* however many updates run at once, and whatever becomes of the questions they were
\* copied from (updateQuiz reads the quiz's questions under the lock of its row).
ImportedOnce ==
  \A a, b \in questions :
    a.imported /\ b.imported /\ <<a.title, a.cur>> = <<b.title, b.cur>> => a.id[1] = b.id[1]
=============================================================================
