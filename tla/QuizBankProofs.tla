---------------------------- MODULE QuizBankProofs ----------------------------
(***************************************************************************)
(* Proofs about QuizBank: that no two questions have one id, that an       *)
(* active quiz can be drawn from, that a draw has the size it asks for,    *)
(* and that a text is imported once.                                       *)
(***************************************************************************)
EXTENDS QuizBank, FiniteSetTheorems, TLAPS

\* A row of the table.
IsRow(row) ==
  /\ row = [id |-> row.id, title |-> row.title, level |-> row.level, cur |-> row.cur,
            imported |-> row.imported]
  /\ row.title \in Title /\ row.level \in Level /\ row.cur \in Curriculum \cup {None}
  /\ row.imported \in BOOLEAN

\* A request has a place; an update holds finitely many questions and the quiz it will
\* write; and a question is removed by who read that the quiz was not active.
ReqInv ==
  /\ req = [r \in Request |-> req[r]]
  /\ IsFiniteSet(questions) /\ IsFiniteSet(elsewhere)
  /\ \A r \in Request :
       /\ At(r, "update") => /\ IsFiniteSet(req[r].rows) /\ req[r].quiz \in Quiz /\ lock = r
       /\ At(r, "remove") => ~req[r].active

\* The ids that a request gives are new while it runs.
IdInv ==
  \A row \in questions \cup elsewhere : row.id[1] \in Request => At(row.id[1], "done")

\* The update in progress has read every question that was imported.
ImportInv ==
  \A row \in questions : row.imported =>
    \A r \in Request : At(r, "update") => row \in req[r].rows

\* The update in progress has read only questions that are still there, unless they
\* were tampered with since.
ReadInv ==
  meanwhile = {} => \A r \in Request : At(r, "update") => req[r].rows \subseteq questions

\* An active quiz asks for a question at least, and its percentages add up, unless one
\* of them is 0.
ShareInv ==
  quiz # None /\ quiz.active =>
    /\ quiz.option.total >= 1
    /\ \/ Unset(quiz.option)
       \/ quiz.option.easy + quiz.option.medium + quiz.option.hard = 100

IInv ==
  /\ TypeOK /\ ReqInv /\ IdInv /\ ImportInv /\ ReadInv /\ ShareInv
  /\ ActiveIsPlayable /\ DrawIsWellSized /\ ImportedOnce
LEMMA StoredRows ==
  ASSUME NEW some
  PROVE  some \subseteq Stored(some) <=> \A row \in some : IsRow(row)
<1>1. ASSUME some \subseteq Stored(some), NEW row \in some PROVE IsRow(row)
  BY <1>1 DEF Stored, IsRow
<1>2. ASSUME NEW row \in some, IsRow(row) PROVE row \in Stored(some)
  BY <1>2 DEF Stored, IsRow
<1> QED BY <1>1, <1>2

-----------------------------------------------------------------------------
(* The draw *)

\* A pool only grows with the questions.
LEMMA MoreSuffices ==
  ASSUME NEW more, IsFiniteSet(more), NEW rows \in SUBSET more, NEW q \in Quiz,
         NEW level \in Level, Suffices(q, rows, level)
  PROVE  Suffices(q, more, level)
<1>1. /\ IsFiniteSet(Pool(q, more, level)) /\ IsFiniteSet(Pool(q, rows, level))
      /\ Cardinality(Pool(q, rows, level)) <= Cardinality(Pool(q, more, level))
  <2>1. Pool(q, more, level) \in SUBSET more
        /\ Pool(q, rows, level) \in SUBSET Pool(q, more, level)
    BY DEF Pool
  <2> QED BY <2>1, FS_Subset
<1>2. Cardinality(Pool(q, more, level)) \in Nat /\ Cardinality(Pool(q, rows, level)) \in Nat
  BY <1>1, FS_CardinalityType
<1>3. Share(q, level) \in Int
  <2>1. q.option \in Option /\ q.option.total \in Int /\ q.option[level] \in Int
    BY OptionsAreNumbers DEF Quiz, Option, Level
  <2>2. 2 * q.option.total * q.option[level] \in Int
    BY <2>1
  <2> QED BY <2>1, <2>2 DEF Share, Round
<1> QED BY <1>1, <1>2, <1>3 DEF Suffices

\* Three percentages of a total that are 100 together, rounded one by one, miss the
\* total by one at most, and none is less than nothing.
LEMMA RoundsMissByOne ==
  ASSUME NEW total \in Nat, NEW a \in Nat, NEW b \in Nat, NEW c \in Nat, a + b + c = 100
  PROVE  /\ Round(total, a) \in Int /\ Round(total, b) \in Int /\ Round(total, c) \in Int
         /\ Round(total, a) >= 0 /\ Round(total, b) >= 0 /\ Round(total, c) >= 0
         /\ Round(total, a) + Round(total, b) + Round(total, c) - total \in -1 .. 1
<1> DEFINE x == 2 * total * a
           y == 2 * total * b
           z == 2 * total * c
<1>1. x \in Nat /\ y \in Nat /\ z \in Nat
  OBVIOUS
<1>2. x + y + z = 200 * total
  <2>1. x + y + z = 2 * total * (a + b + c)
    OBVIOUS
  <2> QED BY <2>1
<1>3. Round(total, a) = (x + 100) \div 200 /\ Round(total, b) = (y + 100) \div 200
      /\ Round(total, c) = (z + 100) \div 200
  BY DEF Round
<1> HIDE DEF x, y, z
<1> QED BY <1>1, <1>2, <1>3

Shares(q) == Wanted(q, "easy") + Wanted(q, "medium") + Wanted(q, "hard")

LEMMA SharesMissByOne ==
  ASSUME NEW q \in Quiz, q.option.easy + q.option.medium + q.option.hard = 100,
         q.option.total >= 1, \A level \in Level : q.option[level] > 0
  PROVE  Shares(q) - q.option.total \in -1 .. 1
<1> DEFINE t == q.option.total
           a == q.option["easy"]
           b == q.option["medium"]
           c == q.option["hard"]
<1>1. q.option \in Option
  BY OptionsAreNumbers DEF Quiz
<1>2. t \in Nat /\ a \in Nat /\ b \in Nat /\ c \in Nat /\ a + b + c = 100
  BY <1>1 DEF Option, Level
<1>3. Share(q, "easy") = Round(t, a) /\ Share(q, "medium") = Round(t, b)
      /\ Share(q, "hard") = Round(t, c)
  BY DEF Share
<1> HIDE DEF t, a, b, c
<1>4. /\ Round(t, a) \in Int /\ Round(t, b) \in Int /\ Round(t, c) \in Int
      /\ Round(t, a) >= 0 /\ Round(t, b) >= 0 /\ Round(t, c) >= 0
      /\ Round(t, a) + Round(t, b) + Round(t, c) - t \in -1 .. 1
  BY <1>2, RoundsMissByOne
<1>5. Shares(q) = Round(t, a) + Round(t, b) + Round(t, c)
  BY <1>3, <1>4 DEF Shares, Wanted
<1> HIDE DEF Shares
<1>6. Shares(q) - t \in -1 .. 1
  BY <1>2, <1>4, <1>5
<1> QED BY <1>6 DEF t

\* An exam has as many questions as its three shares together: the pools are disjoint.
LEMMA ExamHasItsShares ==
  ASSUME IsFiniteSet(questions), NEW q,
         NEW easy \in SUBSET Pool(q, questions, "easy"),
         NEW medium \in SUBSET Pool(q, questions, "medium"),
         NEW hard \in SUBSET Pool(q, questions, "hard")
  PROVE  /\ Cardinality(easy \cup medium \cup hard)
              = Cardinality(easy) + Cardinality(medium) + Cardinality(hard)
         /\ Cardinality(easy) \in Nat /\ Cardinality(medium) \in Nat /\ Cardinality(hard) \in Nat
<1>1. IsFiniteSet(easy) /\ IsFiniteSet(medium) /\ IsFiniteSet(hard)
  <2>1. easy \in SUBSET questions /\ medium \in SUBSET questions /\ hard \in SUBSET questions
    BY DEF Pool
  <2> QED BY <2>1, FS_Subset
<1>2. easy \cap medium = {} /\ (easy \cup medium) \cap hard = {}
  BY DEF Pool
<1>3. /\ Cardinality(easy) \in Nat /\ Cardinality(medium) \in Nat /\ Cardinality(hard) \in Nat
      /\ Cardinality({}) = 0
  BY <1>1, FS_CardinalityType, FS_EmptySet
<1>4. /\ IsFiniteSet(easy \cup medium)
      /\ Cardinality(easy \cup medium) = Cardinality(easy) + Cardinality(medium)
  <2>1. /\ IsFiniteSet(easy \cup medium)
        /\ Cardinality(easy \cup medium)
              = Cardinality(easy) + Cardinality(medium) - Cardinality(easy \cap medium)
    BY <1>1, FS_Union
  <2>2. Cardinality(easy \cap medium) = 0
    BY <1>2, <1>3
  <2> QED BY <1>3, <2>1, <2>2
<1>5. Cardinality((easy \cup medium) \cup hard) = Cardinality(easy \cup medium) + Cardinality(hard)
  <2> DEFINE both == easy \cup medium
  <2>1. IsFiniteSet(both) /\ Cardinality(both \cap hard) = 0 /\ Cardinality(both) \in Nat
    BY <1>2, <1>3, <1>4, FS_CardinalityType
  <2> HIDE DEF both
  <2>2. Cardinality(both \cup hard)
          = Cardinality(both) + Cardinality(hard) - Cardinality(both \cap hard)
    BY <1>1, <2>1, FS_Union
  <2>3. Cardinality(both \cup hard) = Cardinality(both) + Cardinality(hard)
    BY <1>3, <2>1, <2>2
  <2> QED BY <2>3 DEF both
<1> QED BY <1>3, <1>4, <1>5

-----------------------------------------------------------------------------
(* Copies *)

LEMMA Copied ==
  ASSUME IInv, NEW r \in Request, NEW some \in SUBSET elsewhere, NEW c \in Copies(r, some)
  PROVE  /\ IsRow(c) /\ c.imported /\ c.id[1] = r
         /\ \E e \in some : c.id = <<r, e.id>> /\ c.title = e.title /\ c.cur = e.cur
<1>1. PICK e \in some : c = [e EXCEPT !.id = <<r, e.id>>, !.imported = TRUE]
  BY DEF Copies
<1>2. IsRow(e)
  BY StoredRows DEF IInv, TypeOK
<1>3. c = [id |-> <<r, e.id>>, title |-> e.title, level |-> e.level, cur |-> e.cur,
           imported |-> TRUE]
  BY <1>1, <1>2 DEF IsRow
<1> QED BY <1>2, <1>3 DEF IsRow

LEMMA CopiesAreApart ==
  ASSUME IInv, NEW r \in Request, NEW some \in SUBSET elsewhere,
         NEW c \in Copies(r, some), NEW d \in Copies(r, some), c # d
  PROVE  c.id # d.id
<1>1. PICK e \in some : c = [e EXCEPT !.id = <<r, e.id>>, !.imported = TRUE]
  BY DEF Copies
<1>2. PICK f \in some : d = [f EXCEPT !.id = <<r, f.id>>, !.imported = TRUE]
  BY DEF Copies
<1>3. e.id # f.id
  BY <1>1, <1>2 DEF IInv, TypeOK
<1>4. IsRow(e) /\ IsRow(f)
  BY StoredRows DEF IInv, TypeOK
<1>5. c.id = <<r, e.id>> /\ d.id = <<r, f.id>>
  BY <1>1, <1>2, <1>4 DEF IsRow
<1> QED BY <1>3, <1>5

LEMMA CopiesAreFinite ==
  ASSUME IInv, NEW r, NEW some \in SUBSET elsewhere
  PROVE  IsFiniteSet(Copies(r, some))
<1> DEFINE f == [e \in some |-> [e EXCEPT !.id = <<r, e.id>>, !.imported = TRUE]]
<1>1. f \in Surjection(some, Copies(r, some))
  BY DEF Surjection, Copies
<1> HIDE DEF f
<1>2. IsFiniteSet(some)
  BY FS_Subset DEF IInv, ReqInv
<1> QED BY <1>1, <1>2, FS_Surjection

-----------------------------------------------------------------------------
(* Steps *)

LEMMA NewQuizTyped ==
  ASSUME NEW c \in Curriculum, NEW all \in BOOLEAN, NEW o \in Options
  PROVE  NewQuiz(c, all, o) \in Quiz
BY DEF NewQuiz, Quiz

LEMMA InitInv == Init => IInv
<1> SUFFICES ASSUME Init PROVE IInv
  OBVIOUS
<1>1. \A r \in Request : req[r].pc = "new"
  BY DEF Init, Fresh
<1>2. questions = {} \/ questions = Initially
  BY DEF Init
<1>3. /\ questions \subseteq Stored(questions) /\ IsFiniteSet(questions)
      /\ elsewhere \subseteq Stored(elsewhere) /\ IsFiniteSet(elsewhere)
      /\ \A a, b \in questions \cup elsewhere : a.id = b.id => a = b
      /\ \A row \in questions \cup elsewhere : ~row.imported /\ row.id[1] = None
  <2>1. elsewhere = Elsewhere
    BY DEF Init
  <2>2. \A row \in Elsewhere \cup Initially : IsRow(row)
    BY StoredRows, QuestionsAreRows
  <2>3. questions \subseteq Stored(questions) /\ elsewhere \subseteq Stored(elsewhere)
    BY <1>2, <2>1, <2>2, StoredRows
  <2> QED BY <1>2, <2>1, <2>3, QuestionsAreRows, IdsAreKeys, QuestionsAreFinite, FS_EmptySet
<1>4. TypeOK
  <2>1. lock = None /\ tampered = {} /\ meanwhile = {} /\ curriculums = Curriculum
    BY DEF Init
  <2>2. \A c \in Curriculum, all \in BOOLEAN, o \in Options : NewQuiz(c, all, o) \in Quiz
    BY NewQuizTyped
  <2>3. quiz \in Quiz \cup {None}
    BY <2>2 DEF Init
  <2> QED BY <1>3, <2>1, <2>3 DEF TypeOK
<1>5. ReqInv
  BY <1>1, <1>3 DEF ReqInv, At, Init
<1>6. IdInv
  BY <1>3, NoneIsNothing DEF IdInv
<1>7. quiz # None => ~quiz.active
  BY DEF Init, NewQuiz
<1> QED BY <1>1, <1>3, <1>4, <1>5, <1>6, <1>7
     DEF IInv, ImportInv, ReadInv, ShareInv, ActiveIsPlayable, DrawIsWellSized, ImportedOnce, At

\* A step of one request leaves the others where they are.
LEMMA Moves ==
  ASSUME ReqInv, NEW r \in Request, NEW v, Go(r, v)
  PROVE  /\ req'[r] = v /\ \A x \in Request \ {r} : req'[x] = req[x]
         /\ req' = [x \in Request |-> req'[x]]
<1>1. req = [x \in Request |-> req[x]] /\ req' = [req EXCEPT ![r] = v]
  BY DEF ReqInv, Go
<1> QED BY <1>1

\* Steps that only read.
LEMMA ReadersKeep ==
  ASSUME IInv, NEW r \in Request, UNCHANGED <<quiz, questions, lock, course, history>>,
         ~At(r, "update"), ~At(r, "done"), NEW v, Go(r, v), v.pc # "update",
         v.pc = "remove" => ~v.active,
         v.pc = "drawn" /\ v.quiz.active /\ (\A level \in Level : v.quiz.option[level] > 0)
           => Cardinality(v.exam) - v.quiz.option.total \in -1 .. 1
  PROVE  IInv'
<1>1. /\ req'[r] = v /\ \A x \in Request \ {r} : req'[x] = req[x]
      /\ req' = [x \in Request |-> req'[x]]
  BY Moves DEF IInv
<1>2. UNCHANGED <<quiz, questions, lock, elsewhere, curriculums, tampered, meanwhile>>
  BY DEF course, history
<1>3. \A x \in Request : /\ At(x, "update")' => req'[x] = req[x] /\ At(x, "update")
                         /\ At(x, "update") => x # r /\ At(x, "update")'
                         /\ At(x, "done") => At(x, "done")'
                         /\ At(x, "remove")' => ~req'[x].active
  BY <1>1 DEF At, IInv, ReqInv
<1>4. TypeOK'
  <2>1. TypeOK
    BY DEF IInv
  <2> QED BY <1>2, <1>3, <2>1 DEF TypeOK
<1>5. ReqInv'
  BY <1>1, <1>2, <1>3 DEF IInv, ReqInv, At
<1>6. IdInv' /\ ImportInv' /\ ReadInv'
  BY <1>2, <1>3 DEF IInv, IdInv, ImportInv, ReadInv
<1>7. ShareInv' /\ ActiveIsPlayable' /\ ImportedOnce'
  BY <1>2 DEF IInv, ShareInv, ActiveIsPlayable, ImportedOnce
<1>8. DrawIsWellSized'
  BY <1>1 DEF IInv, DrawIsWellSized, At
<1> QED BY <1>4, <1>5, <1>6, <1>7, <1>8 DEF IInv

LEMMA TakeKeeps == ASSUME IInv, NEW r \in Request, Take(r) PROVE IInv'
<1>1. UNCHANGED <<quiz, questions, lock, course, history>> /\ Go(r, [pc |-> "draw"]) /\ req[r].pc = "new"
  BY DEF Take, At
<1> QED BY <1>1, ReadersKeep DEF At

LEMMA RemoveReadKeeps ==
  ASSUME IInv, NEW r \in Request, NEW row, RemoveRead(r, row) PROVE IInv'
<1>1. /\ UNCHANGED <<quiz, questions, lock, course, history>> /\ ~quiz.active /\ req[r].pc = "new"
      /\ Go(r, [pc |-> "remove", id |-> row.id, active |-> quiz.active])
  BY DEF RemoveRead, At
<1> QED BY <1>1, ReadersKeep DEF At

\* A draw gets its shares, which are the total but for one question.
LEMMA GenerateKeeps == ASSUME IInv, NEW r \in Request, Generate(r) PROVE IInv'
<1>0. UNCHANGED <<quiz, questions, lock, course, history>> /\ req[r].pc = "draw"
  BY DEF Generate, At
<1>1. CASE Go(r, Done)
  BY <1>0, <1>1, ReadersKeep DEF At, Done
<1>2. CASE Go(r, [pc |-> "endless"])
  BY <1>0, <1>2, ReadersKeep DEF At
<1>3. ASSUME quiz # None,
             NEW easy \in SUBSET Pool(quiz, questions, "easy"),
             NEW medium \in SUBSET Pool(quiz, questions, "medium"),
             NEW hard \in SUBSET Pool(quiz, questions, "hard"),
             Draws(easy, medium, hard),
             Go(r, [pc |-> "drawn", exam |-> easy \cup medium \cup hard, quiz |-> quiz])
      PROVE  IInv'
  <2>1. ASSUME quiz.active, \A level \in Level : quiz.option[level] > 0
        PROVE  Cardinality(easy \cup medium \cup hard) - quiz.option.total \in -1 .. 1
    <3>1. /\ quiz \in Quiz /\ quiz.option.total >= 1 /\ ~Unset(quiz.option)
          /\ quiz.option.easy + quiz.option.medium + quiz.option.hard = 100
      <4>1. quiz.option \in Option
        BY <1>3, OptionsAreNumbers DEF IInv, TypeOK, Quiz
      <4>2. ~Unset(quiz.option)
        BY <2>1, <4>1 DEF Unset, Option, Level
      <4> QED BY <1>3, <2>1, <4>2 DEF IInv, TypeOK, ShareInv
    <3>2. IsFiniteSet(questions)
      BY DEF IInv, ReqInv
    <3>3. Shares(quiz) - quiz.option.total \in -1 .. 1
      BY <2>1, <3>1, SharesMissByOne
    <3>4. Cardinality(easy \cup medium \cup hard) = Shares(quiz)
      BY <1>3, <3>2, ExamHasItsShares DEF Draws, Shares
    <3> QED BY <3>3, <3>4
  <2> DEFINE v == [pc |-> "drawn", exam |-> easy \cup medium \cup hard, quiz |-> quiz]
  <2>2. v.pc = "drawn" /\ v.exam = easy \cup medium \cup hard /\ v.quiz = quiz
    OBVIOUS
  <2>3. Go(r, v)
    BY <1>3
  <2> HIDE DEF v
  <2> QED BY <1>0, <2>1, <2>2, <2>3, ReadersKeep DEF At
<1> QED BY <1>1, <1>2, <1>3 DEF Generate

\* Steps that end a request and write questions, none of them an imported one.
LEMMA WritersKeep ==
  ASSUME IInv, NEW r \in Request, ~At(r, "update"), ~At(r, "done"), Go(r, Done),
         UNCHANGED <<quiz, lock>>, curriculums' \subseteq curriculums,
         IsFiniteSet(questions'), IsFiniteSet(elsewhere'),
         \A row \in questions' \cup elsewhere' :
           IsRow(row) /\ (row.id[1] = r \/ \E old \in questions \cup elsewhere : row.id = old.id),
         \A a, b \in questions' \cup elsewhere' : a.id = b.id => a = b,
         \A row \in questions' : row \in questions \/ ~row.imported,
         \/ questions \subseteq questions' /\ UNCHANGED <<tampered, meanwhile>>
         \/ /\ tampered' # {} /\ meanwhile' # {}
            /\ tampered' \cup meanwhile' \subseteq {"edited", "raced", "dropped", "cascaded"}
  PROVE  IInv'
<1>1. /\ req'[r] = Done /\ \A x \in Request \ {r} : req'[x] = req[x]
      /\ req' = [x \in Request |-> req'[x]]
  BY Moves DEF IInv
<1>2. \A x \in Request : /\ At(x, "update")' => req'[x] = req[x] /\ At(x, "update")
                         /\ At(x, "update") => x # r /\ At(x, "update")'
                         /\ At(x, "done") => At(x, "done")'
                         /\ At(x, "remove")' => req'[x] = req[x] /\ At(x, "remove")
                         /\ At(x, "drawn")' => req'[x] = req[x] /\ At(x, "drawn")
  BY <1>1 DEF At, Done
<1>3. At(r, "done")'
  BY <1>1 DEF At, Done
<1>4. TypeOK'
  <2>1. tampered' \cup meanwhile' \subseteq {"edited", "raced", "dropped", "cascaded"}
    BY DEF IInv, TypeOK
  <2>2. lock' # None => lock' \in Request /\ At(lock, "update")'
    BY <1>2 DEF IInv, TypeOK
  <2>3. questions' \subseteq Stored(questions') /\ elsewhere' \subseteq Stored(elsewhere')
    BY StoredRows
  <2>4. quiz' \in Quiz \cup {None} /\ curriculums' \subseteq Curriculum
    BY DEF IInv, TypeOK
  <2> QED BY <2>1, <2>2, <2>3, <2>4 DEF TypeOK, Stored
<1>5. ReqInv'
  BY <1>1, <1>2 DEF IInv, ReqInv
<1>6. IdInv'
  <2>1. ASSUME NEW row \in questions' \cup elsewhere', row.id[1] \in Request
        PROVE  At(row.id[1], "done")'
    <3>1. CASE \E old \in questions \cup elsewhere : row.id = old.id
      BY <1>2, <2>1, <3>1 DEF IInv, IdInv
    <3>2. CASE row.id[1] = r
      BY <1>3, <3>2
    <3> QED BY <3>1, <3>2
  <2> QED BY <2>1 DEF IdInv
<1>7. \A row \in questions' : row.imported => row \in questions
  OBVIOUS
<1>8. ImportInv'
  BY <1>2, <1>7 DEF IInv, ImportInv
<1>9. ReadInv'
  BY <1>2 DEF IInv, ReadInv
<1>10. ShareInv' /\ DrawIsWellSized'
  BY <1>2 DEF IInv, ShareInv, DrawIsWellSized
<1>11. ActiveIsPlayable'
  <2>1. SUFFICES ASSUME quiz # None, quiz.active, tampered' = {}, NEW level \in Level
                 PROVE  Suffices(quiz, questions', level)
    BY DEF ActiveIsPlayable, Suffices, Pool, Share
  <2>2. questions \subseteq questions' /\ tampered = {}
    BY <2>1
  <2>3. Suffices(quiz, questions, level) /\ quiz \in Quiz
    BY <2>1, <2>2 DEF IInv, ActiveIsPlayable, TypeOK
  <2> QED BY <2>2, <2>3, MoreSuffices
<1>12. ImportedOnce'
  BY <1>7 DEF IInv, ImportedOnce
<1> QED BY <1>4, <1>5, <1>6, <1>8, <1>9, <1>10, <1>11, <1>12 DEF IInv

\* Another text for a question.
LEMMA RowTyped ==
  ASSUME NEW id, NEW d \in Drafts
  PROVE  IsRow(Row(id, d)) /\ Row(id, d).id = id /\ ~Row(id, d).imported
BY DraftsAreTyped DEF Row, IsRow

LEMMA PutIsFinite ==
  ASSUME NEW some, IsFiniteSet(some), NEW into, NEW place, NEW row
  PROVE  IsFiniteSet(some \cup Put(into, place, row))
<1>1. Put(into, place, row) = {} \/ Put(into, place, row) = {row}
  BY DEF Put
<1>2. some \cup {} = some
  OBVIOUS
<1> QED BY <1>1, <1>2, FS_AddElement

\* A row is put into the quiz or into another, its old self being gone.
Puts(r, into, kept, others, n) ==
  /\ req[r].pc = "new" /\ Go(r, Done) /\ UNCHANGED <<quiz, lock, curriculums>>
  /\ kept \subseteq questions /\ others \subseteq elsewhere
  /\ IsRow(n) /\ ~n.imported /\ \A row \in kept \cup others : row.id # n.id
  /\ n.id[1] = r \/ \E old \in questions \cup elsewhere : n.id = old.id
  /\ questions' = kept \cup Put(into, "quiz", n)
  /\ elsewhere' = others \cup Put(into, "course", n)
  /\ \/ kept = questions /\ UNCHANGED <<tampered, meanwhile>>
     \/ Mark({"edited"})

LEMMA PutKeeps ==
  ASSUME IInv, NEW r \in Request, NEW into \in Into, NEW kept, NEW others, NEW n,
         Puts(r, into, kept, others, n)
  PROVE  IInv'
<1> USE DEF Puts
<1>1. IsFiniteSet(kept) /\ IsFiniteSet(others)
  BY FS_Subset DEF IInv, ReqInv
<1>2. IsFiniteSet(questions') /\ IsFiniteSet(elsewhere')
  BY <1>1, PutIsFinite
<1>3. /\ \A row \in questions' : row \in kept \/ (row = n /\ into = "quiz")
      /\ \A row \in elsewhere' : row \in others \/ (row = n /\ into = "course")
      /\ kept \subseteq questions'
  BY DEF Put
<1>4. \A row \in questions \cup elsewhere : IsRow(row)
  BY StoredRows DEF IInv, TypeOK
<1>5. \A a, b \in questions' \cup elsewhere' : a.id = b.id => a = b
  BY <1>3 DEF IInv, TypeOK
<1>6. \/ questions \subseteq questions' /\ UNCHANGED <<tampered, meanwhile>>
      \/ /\ tampered' # {} /\ meanwhile' # {}
         /\ tampered' \cup meanwhile' \subseteq {"edited", "raced", "dropped", "cascaded"}
  BY <1>3 DEF Mark, IInv, TypeOK
<1>7. \A row \in questions' \cup elsewhere' :
        IsRow(row) /\ (row.id[1] = r \/ \E old \in questions \cup elsewhere : row.id = old.id)
  BY <1>3, <1>4
<1>8. \A row \in questions' : row \in questions \/ ~row.imported
  BY <1>3
<1>9. ~At(r, "update") /\ ~At(r, "done") /\ curriculums' \subseteq curriculums
  BY DEF At
<1> QED BY <1>2, <1>5, <1>6, <1>7, <1>8, <1>9, WritersKeep

LEMMA CreateQuestionKeeps ==
  ASSUME IInv, NEW r \in Request, NEW d \in Drafts, NEW into \in Into, CreateQuestion(r, d, into)
  PROVE  IInv'
<1> DEFINE n == Row(<<r, None>>, d)
<1>1. IsRow(n) /\ n.id = <<r, None>> /\ ~n.imported
  BY RowTyped
<1>2. /\ req[r].pc = "new" /\ Go(r, Done)
      /\ UNCHANGED <<quiz, lock, curriculums, tampered, meanwhile>>
      /\ questions' = questions \cup Put(into, "quiz", n)
      /\ elsewhere' = elsewhere \cup Put(into, "course", n)
  BY DEF CreateQuestion, At, history
<1> HIDE DEF n
<1>3. \A row \in questions \cup elsewhere : row.id # n.id
  BY <1>1, <1>2 DEF IInv, IdInv, At
<1>4. n.id[1] = r
  BY <1>1
<1>5. Puts(r, into, questions, elsewhere, n)
  BY <1>1, <1>2, <1>3, <1>4 DEF Puts
<1> QED BY <1>5, PutKeeps

LEMMA UpdateQuestionKeeps ==
  ASSUME IInv, NEW r \in Request, NEW row \in questions \cup elsewhere, NEW d \in Drafts,
         NEW into \in Into, UpdateQuestion(r, row, d, into)
  PROVE  IInv'
<1> DEFINE n == Row(row.id, d)
<1>1. IsRow(n) /\ n.id = row.id /\ ~n.imported
  BY RowTyped
<1>2. /\ req[r].pc = "new" /\ Go(r, Done) /\ UNCHANGED <<quiz, lock, curriculums>>
      /\ questions' = (questions \ {row}) \cup Put(into, "quiz", n)
      /\ elsewhere' = (elsewhere \ {row}) \cup Put(into, "course", n)
      /\ Mark(IF row \in questions THEN {"edited"} ELSE {})
  BY DEF UpdateQuestion, Rewrite, At
<1> HIDE DEF n
<1>3. \A q \in (questions \ {row}) \cup (elsewhere \ {row}) : q.id # n.id
  BY <1>1 DEF IInv, TypeOK
<1>4. \/ questions \ {row} = questions /\ UNCHANGED <<tampered, meanwhile>>
      \/ Mark({"edited"})
  BY <1>2 DEF Mark
<1>5. \E old \in questions \cup elsewhere : n.id = old.id
  BY <1>1
<1>6. Puts(r, into, questions \ {row}, elsewhere \ {row}, n)
  BY <1>1, <1>2, <1>3, <1>4, <1>5 DEF Puts
<1> QED BY <1>6, PutKeeps

\* Questions that go.
LEMMA RemovalKeeps ==
  ASSUME IInv, NEW r \in Request, req[r].pc \in {"new", "remove"}, Go(r, Done),
         UNCHANGED <<quiz, lock>>, curriculums' \subseteq curriculums,
         questions' \subseteq questions, elsewhere' \subseteq elsewhere,
         \/ questions' = questions /\ UNCHANGED <<tampered, meanwhile>>
         \/ \E what \in {"edited", "raced", "cascaded"} : Mark({what})
  PROVE  IInv'
<1>1. /\ IsFiniteSet(questions') /\ IsFiniteSet(elsewhere')
      /\ \A a, b \in questions' \cup elsewhere' : a.id = b.id => a = b
  BY FS_Subset DEF IInv, TypeOK, ReqInv
<1>2. \A row \in questions \cup elsewhere : IsRow(row)
  BY StoredRows DEF IInv, TypeOK
<1>3. \/ questions \subseteq questions' /\ UNCHANGED <<tampered, meanwhile>>
      \/ /\ tampered' # {} /\ meanwhile' # {}
         /\ tampered' \cup meanwhile' \subseteq {"edited", "raced", "dropped", "cascaded"}
  BY DEF Mark, IInv, TypeOK
<1> QED BY <1>1, <1>2, <1>3, WritersKeep DEF At

LEMMA QuestionKeeps == ASSUME IInv, NEW r \in Request, QuestionStep(r) PROVE IInv'
<1>1. CASE RemoveDelete(r)
  <2>1. ~req[r].active /\ req[r].pc = "remove"
    BY <1>1 DEF RemoveDelete, At, IInv, ReqInv
  <2>2. /\ Mark({"raced"}) /\ Go(r, Done) /\ UNCHANGED <<quiz, lock, elsewhere, curriculums>>
        /\ questions' \subseteq questions
    BY <1>1, <2>1 DEF RemoveDelete, course
  <2> QED BY <2>1, <2>2, RemovalKeeps
<1> QED BY <1>1, RemoveReadKeeps, CreateQuestionKeeps, UpdateQuestionKeeps DEF QuestionStep

LEMMA CreateQuizKeeps ==
  ASSUME IInv, NEW r \in Request, NEW c \in Curriculum, NEW all \in BOOLEAN, NEW o \in Options,
         CreateQuiz(r, c, all, o)
  PROVE  IInv'
<1>1. /\ quiz' = NewQuiz(c, all, o) /\ Go(r, Done)
      /\ UNCHANGED <<lock, meanwhile, elsewhere, curriculums>>
      /\ tampered' = {} /\ \A x \in Request : req[x].pc = "new"
      /\ questions' = Copies(r, elsewhere) \/ questions' = {}
  BY DEF CreateQuiz, At, course
<1>2. quiz' \in Quiz /\ ~quiz'.active
  <2>1. NewQuiz(c, all, o).active = FALSE
    BY DEF NewQuiz
  <2> QED BY <1>1, <2>1, NewQuizTyped
<1>3. /\ req'[r] = Done /\ \A x \in Request \ {r} : req'[x] = req[x]
      /\ req' = [x \in Request |-> req'[x]]
  BY <1>1, Moves DEF IInv
<1>4. /\ At(r, "done")'
      /\ \A x \in Request : /\ ~At(x, "update")' /\ ~At(x, "remove")' /\ ~At(x, "drawn")'
                            /\ x # r => ~At(x, "done")'
  BY <1>1, <1>3 DEF At, Done
<1>5. \A row \in questions' : IsRow(row) /\ row.id[1] = r
  BY <1>1, Copied
<1>6. \A a, b \in questions' : a # b => a.id # b.id
  BY <1>1, CopiesAreApart
<1>7. IsFiniteSet(questions')
  BY <1>1, CopiesAreFinite, FS_EmptySet
<1>8. lock = None
  BY <1>1 DEF IInv, TypeOK, At
\* The other quizzes' questions have the ids of requests that are over.
<1>9. \A e \in elsewhere : e.id[1] # r /\ (e.id[1] \in Request => At(e.id[1], "done"))
  BY <1>1 DEF IInv, IdInv, At
<1>10. TypeOK'
  <2>1. tampered' \cup meanwhile' \subseteq {"edited", "raced", "dropped", "cascaded"}
    BY <1>1 DEF IInv, TypeOK
  <2>2. questions' \subseteq Stored(questions') /\ elsewhere' \subseteq Stored(elsewhere')
    BY <1>1, <1>5, StoredRows DEF IInv, TypeOK
  <2>3. \A a, b \in questions' \cup elsewhere' : a.id = b.id => a = b
    BY <1>1, <1>5, <1>6, <1>9 DEF IInv, TypeOK
  <2>4. quiz' \in Quiz \cup {None} /\ curriculums' \subseteq Curriculum /\ lock' = None
    BY <1>1, <1>2, <1>8 DEF IInv, TypeOK
  <2> QED BY <2>1, <2>2, <2>3, <2>4 DEF TypeOK, Stored
<1>11. ReqInv'
  BY <1>1, <1>3, <1>4, <1>7 DEF IInv, ReqInv
<1>12. IdInv'
  BY <1>1, <1>4, <1>5, <1>9 DEF IdInv, At
<1>13. ImportInv'
  BY <1>4 DEF ImportInv
<1>14. ReadInv' /\ ShareInv' /\ ActiveIsPlayable' /\ DrawIsWellSized' /\ ImportedOnce'
  BY <1>2, <1>4, <1>5 DEF ReadInv, ShareInv, ActiveIsPlayable, DrawIsWellSized, ImportedOnce
<1> QED BY <1>10, <1>11, <1>12, <1>13, <1>14 DEF IInv

\* The quiz goes with its questions, while nobody updates it.
LEMMA QuizGoes ==
  ASSUME IInv, NEW r \in Request, req[r].pc = "new", lock = None, quiz' = None, questions' = {},
         Go(r, Done), lock' = lock, elsewhere' \subseteq elsewhere, curriculums' \subseteq curriculums,
         tampered' \cup meanwhile' \subseteq {"edited", "raced", "dropped", "cascaded"}
  PROVE  IInv'
<1>2. /\ req'[r] = Done /\ \A x \in Request \ {r} : req'[x] = req[x]
      /\ req' = [x \in Request |-> req'[x]]
  BY Moves DEF IInv
<1>3. \A x \in Request : ~At(x, "update")
  BY NoneIsNothing DEF IInv, ReqInv
<1>4. \A x \in Request : /\ ~At(x, "update")'
                         /\ At(x, "done") => At(x, "done")'
                         /\ At(x, "remove")' => req'[x] = req[x] /\ At(x, "remove")
                         /\ At(x, "drawn")' => req'[x] = req[x] /\ At(x, "drawn")
  BY <1>2, <1>3 DEF At, Done
<1>5. TypeOK'
  <2>1. \A row \in elsewhere' : IsRow(row)
    BY StoredRows DEF IInv, TypeOK
  <2>2. elsewhere' \subseteq Stored(elsewhere')
    BY <2>1, StoredRows
  <2> QED BY <2>2 DEF IInv, TypeOK, Stored
<1>6. ReqInv'
  <2>1. IsFiniteSet(elsewhere') /\ IsFiniteSet(questions')
    BY FS_Subset, FS_EmptySet DEF IInv, ReqInv
  <2> QED BY <1>2, <1>4, <2>1 DEF IInv, ReqInv
<1>7. IdInv' /\ ImportInv' /\ ReadInv' /\ ShareInv' /\ ActiveIsPlayable' /\ ImportedOnce'
  BY <1>4 DEF IInv, IdInv, ImportInv, ReadInv, ShareInv, ActiveIsPlayable, ImportedOnce
<1>8. DrawIsWellSized'
  BY <1>4 DEF IInv, DrawIsWellSized
<1> QED BY <1>5, <1>6, <1>7, <1>8 DEF IInv

LEMMA DeleteQuizKeeps == ASSUME IInv, NEW r \in Request, DeleteQuiz(r) PROVE IInv'
<1>1. /\ req[r].pc = "new" /\ lock = None /\ quiz' = None /\ questions' = {} /\ Go(r, Done)
      /\ UNCHANGED <<lock, elsewhere, curriculums, tampered, meanwhile>>
  BY DEF DeleteQuiz, At, course, history
<1>2. tampered \cup meanwhile \subseteq {"edited", "raced", "dropped", "cascaded"}
  BY DEF IInv, TypeOK
<1> QED BY <1>1, <1>2, QuizGoes

\* A curriculum takes questions with it, or the quiz.
LEMMA CourseKeeps == ASSUME IInv, NEW r \in Request, CourseStep(r) PROVE IInv'
<1>1. ASSUME NEW some \in SUBSET elsewhere, RemoveElsewhere(r, some) PROVE IInv'
  <2>1. /\ req[r].pc = "new" /\ Go(r, Done) /\ elsewhere' \subseteq elsewhere
        /\ UNCHANGED <<quiz, questions, lock, curriculums, tampered, meanwhile>>
    BY <1>1 DEF RemoveElsewhere, At, history
  <2> QED BY <2>1, RemovalKeeps
<1>2. ASSUME NEW c \in Curriculum, RemoveCurriculum(r, c) PROVE IInv'
  <2> DEFINE mine == quiz # None /\ quiz.cur = c
             left == {row \in questions : row.cur # c}
  <2>1. /\ req[r].pc = "new" /\ Go(r, Done) /\ lock' = lock /\ (lock # None => ~mine)
        /\ elsewhere' \subseteq elsewhere /\ curriculums' \subseteq curriculums
        /\ IF mine THEN quiz' = None /\ questions' = {} ELSE quiz' = quiz /\ questions' = left
        /\ Mark(IF left = questions THEN {} ELSE {"cascaded"})
    BY <1>2 DEF RemoveCurriculum, At
  <2>2. CASE mine
    <3>1. tampered' \cup meanwhile' \subseteq {"edited", "raced", "dropped", "cascaded"}
      BY <2>1 DEF Mark, IInv, TypeOK
    <3> QED BY <2>1, <2>2, <3>1, QuizGoes
  <2>3. CASE ~mine
    <3>1. left \subseteq questions
      OBVIOUS
    <3> HIDE DEF left, mine
    <3>2. \/ questions' = questions /\ UNCHANGED <<tampered, meanwhile>>
          \/ Mark({"cascaded"})
      BY <2>1, <2>3 DEF Mark
    <3> QED BY <2>1, <2>3, <3>1, <3>2, RemovalKeeps
  <2> QED BY <2>2, <2>3
<1> QED BY <1>1, <1>2 DEF CourseStep

\* An update reads the questions while it holds the quiz's row.
LEMMA UpdateReadKeeps ==
  ASSUME IInv, NEW r \in Request, NEW c \in Curriculum, NEW active \in BOOLEAN,
         NEW asked \in BOOLEAN, NEW all \in BOOLEAN, NEW o \in Options,
         UpdateRead(r, c, active, asked, all, o)
  PROVE  IInv'
<1> DEFINE made == [active |-> active, cur |-> c, all |-> IF asked THEN all ELSE quiz.all,
                    option |-> IF asked THEN o ELSE quiz.option]
           v == [pc |-> "update", rows |-> questions, asked |-> asked, quiz |-> made]
<1>1. /\ req[r].pc = "new" /\ quiz # None /\ lock = None /\ lock' = r /\ meanwhile' = {}
      /\ Go(r, v) /\ UNCHANGED <<quiz, questions, elsewhere, curriculums, tampered>>
  BY DEF UpdateRead, At, course
<1>2. made \in Quiz
  <2>1. quiz \in Quiz
    BY <1>1 DEF IInv, TypeOK
  <2>2. /\ (IF asked THEN all ELSE quiz.all) \in BOOLEAN
        /\ (IF asked THEN o ELSE quiz.option) \in Options
    BY <2>1 DEF Quiz
  <2> QED BY <2>2 DEF Quiz
<1>3. v.pc = "update" /\ v.rows = questions /\ v.quiz = made
  OBVIOUS
<1> HIDE DEF made, v
<1>4. /\ req'[r] = v /\ \A x \in Request \ {r} : req'[x] = req[x]
      /\ req' = [x \in Request |-> req'[x]]
  BY <1>1, Moves DEF IInv
<1>5. \A x \in Request : ~At(x, "update")
  BY <1>1, NoneIsNothing DEF IInv, ReqInv
<1>6. \A x \in Request : /\ At(x, "update")' => x = r
                         /\ At(x, "done") => At(x, "done")'
                         /\ At(x, "remove")' => req'[x] = req[x] /\ At(x, "remove")
                         /\ At(x, "drawn")' => req'[x] = req[x] /\ At(x, "drawn")
  BY <1>1, <1>3, <1>4, <1>5 DEF At
<1>7. TypeOK'
  <2>1. lock' \in Request /\ At(lock, "update")'
    BY <1>1, <1>3, <1>4 DEF At
  <2> QED BY <1>1, <2>1 DEF IInv, TypeOK
<1>8. ReqInv'
  <2>1. IsFiniteSet(req'[r].rows) /\ req'[r].quiz \in Quiz /\ IsFiniteSet(questions')
    BY <1>1, <1>2, <1>3, <1>4 DEF IInv, TypeOK, ReqInv
  <2> QED BY <1>1, <1>4, <1>6, <2>1 DEF IInv, ReqInv
<1>9. IdInv' /\ ImportInv' /\ ReadInv'
  BY <1>1, <1>3, <1>4, <1>6 DEF IInv, IdInv, ImportInv, ReadInv
<1>10. ShareInv' /\ ActiveIsPlayable' /\ ImportedOnce'
  BY <1>1 DEF IInv, ShareInv, ActiveIsPlayable, ImportedOnce
<1>11. DrawIsWellSized'
  BY <1>6 DEF IInv, DrawIsWellSized
<1> QED BY <1>7, <1>8, <1>9, <1>10, <1>11 DEF IInv

LEMMA RollbackKeeps ==
  ASSUME IInv, NEW r \in Request, UpdateRollback(r)
  PROVE  IInv'
<1>1. /\ At(r, "update") /\ lock' = None /\ Go(r, Done)
      /\ UNCHANGED <<quiz, questions, elsewhere, curriculums, tampered, meanwhile>>
  BY DEF UpdateRollback, course, history
<1>2. /\ req'[r] = Done /\ \A x \in Request \ {r} : req'[x] = req[x]
      /\ req' = [x \in Request |-> req'[x]]
  BY <1>1, Moves DEF IInv
<1>3. \A x \in Request : At(x, "update") => x = r
  BY <1>1 DEF IInv, ReqInv
<1>4. \A x \in Request : /\ ~At(x, "update")'
                         /\ At(x, "done") => At(x, "done")'
                         /\ At(x, "remove")' => req'[x] = req[x] /\ At(x, "remove")
                         /\ At(x, "drawn")' => req'[x] = req[x] /\ At(x, "drawn")
  BY <1>1, <1>2, <1>3 DEF At, Done
<1>5. TypeOK'
  BY <1>1 DEF IInv, TypeOK
<1>6. ReqInv'
  BY <1>1, <1>2, <1>4 DEF IInv, ReqInv
<1>7. IdInv' /\ ImportInv' /\ ReadInv'
  BY <1>1, <1>4 DEF IInv, IdInv, ImportInv, ReadInv
<1>8. ShareInv' /\ ActiveIsPlayable' /\ ImportedOnce'
  BY <1>1 DEF IInv, ShareInv, ActiveIsPlayable, ImportedOnce
<1>9. DrawIsWellSized'
  BY <1>4 DEF IInv, DrawIsWellSized
<1> QED BY <1>5, <1>6, <1>7, <1>8, <1>9 DEF IInv

\* What an update imports is lacking in what it has read, so in the quiz.
LEMMA ImportsAreNew ==
  ASSUME IInv, NEW r \in Request, At(r, "update"),
         NEW c \in Copies(r, Lacking(req[r].rows))
  PROVE  /\ \A row \in questions \cup elsewhere : row.id # c.id
         /\ \A row \in questions : row.imported => <<row.title, row.cur>> # <<c.title, c.cur>>
<1>1. Lacking(req[r].rows) \in SUBSET elsewhere
  BY DEF Lacking
<1>2. PICK e \in Lacking(req[r].rows) : c.id = <<r, e.id>> /\ c.title = e.title /\ c.cur = e.cur
  BY <1>1, Copied
<1>3. \A row \in questions \cup elsewhere : row.id # <<r, e.id>>
  BY DEF IInv, IdInv, At
<1>4. \A row \in questions : row.imported => row \in req[r].rows
  BY DEF IInv, ImportInv
<1> QED BY <1>2, <1>3, <1>4 DEF Lacking

LEMMA CommitKeeps ==
  ASSUME IInv, NEW r \in Request, UpdateCommit(r)
  PROVE  IInv'
<1> DEFINE u == req[r]
           copies == Copies(r, Lacking(u.rows))
<1>1. /\ At(r, "update")
      /\ u.quiz.active => Valid(u.quiz, u.rows)
      /\ quiz' = u.quiz /\ lock' = None /\ Go(r, Done)
      /\ UNCHANGED <<elsewhere, curriculums, meanwhile>>
  BY DEF UpdateCommit, course
<1>2. /\ IsFiniteSet(u.rows) /\ u.quiz \in Quiz
      /\ meanwhile = {} => u.rows \subseteq questions
  BY <1>1 DEF IInv, ReqInv, ReadInv
<1>3. \/ questions' \subseteq questions /\ tampered' = meanwhile \cup {"dropped"}
      \/ questions' = questions /\ tampered' = meanwhile
      \/ questions' = questions \cup copies /\ tampered' = meanwhile
  BY DEF UpdateCommit
<1>4. /\ req'[r] = Done /\ \A x \in Request \ {r} : req'[x] = req[x]
      /\ req' = [x \in Request |-> req'[x]]
  BY <1>1, Moves DEF IInv
<1>5. \A x \in Request : At(x, "update") => x = r
  BY <1>1 DEF IInv, ReqInv
<1>6. \A x \in Request : /\ ~At(x, "update")'
                         /\ At(x, "done") => At(x, "done")'
                         /\ At(x, "remove")' => req'[x] = req[x] /\ At(x, "remove")
                         /\ At(x, "drawn")' => req'[x] = req[x] /\ At(x, "drawn")
  BY <1>1, <1>4, <1>5 DEF At, Done
<1>7. At(r, "done")'
  BY <1>4 DEF At, Done
<1>8. Lacking(u.rows) \in SUBSET elsewhere
  BY DEF Lacking
<1>9. \A c \in copies : IsRow(c) /\ c.id[1] = r
  BY <1>8, Copied
<1>10. \A c, d \in copies : c # d => c.id # d.id
  BY <1>8, CopiesAreApart
<1>11. \A c \in copies :
         /\ \A row \in questions \cup elsewhere : row.id # c.id
         /\ \A row \in questions : row.imported => <<row.title, row.cur>> # <<c.title, c.cur>>
  BY <1>1, ImportsAreNew
<1>12. IsFiniteSet(copies)
  BY <1>8, CopiesAreFinite
<1> HIDE DEF u, copies
<1>13. \A row \in questions' : row \in questions \/ row \in copies
  BY <1>3
<1>14. /\ questions' \subseteq Stored(questions') /\ elsewhere' \subseteq Stored(elsewhere')
       /\ \A a, b \in questions' \cup elsewhere' : a.id = b.id => a = b
  <2>1. \A row \in questions' : IsRow(row)
    BY <1>9, <1>13, StoredRows DEF IInv, TypeOK
  <2>2. questions' \subseteq Stored(questions') /\ elsewhere' \subseteq Stored(elsewhere')
    BY <1>1, <2>1, StoredRows DEF IInv, TypeOK
  <2>3. \A a, b \in questions' \cup elsewhere' : a.id = b.id => a = b
    BY <1>1, <1>10, <1>11, <1>13 DEF IInv, TypeOK
  <2> QED BY <2>2, <2>3
<1>15. TypeOK'
  <2>1. tampered' \cup meanwhile' \subseteq {"edited", "raced", "dropped", "cascaded"}
    BY <1>1, <1>3 DEF IInv, TypeOK
  <2>2. quiz' \in Quiz \cup {None} /\ curriculums' \subseteq Curriculum /\ lock' = None
    BY <1>1, <1>2 DEF IInv, TypeOK
  <2> QED BY <1>14, <2>1, <2>2 DEF TypeOK, Stored
<1>16. ReqInv'
  <2>1. IsFiniteSet(questions')
    <3>1. CASE questions' \subseteq questions
      BY <3>1, FS_Subset DEF IInv, ReqInv
    <3>2. CASE questions' = questions \cup copies
      BY <1>12, <3>2, FS_Union DEF IInv, ReqInv
    <3> QED BY <1>3, <3>1, <3>2
  <2> QED BY <1>1, <1>4, <1>6, <2>1 DEF IInv, ReqInv
<1>17. IdInv'
  <2>1. ASSUME NEW row \in questions' \cup elsewhere', row.id[1] \in Request
        PROVE  At(row.id[1], "done")'
    BY <1>1, <1>6, <1>7, <1>9, <1>13, <2>1 DEF IInv, IdInv
  <2> QED BY <2>1 DEF IdInv
<1>18. ImportInv'
  BY <1>6 DEF ImportInv
<1>19. ReadInv'
  BY <1>6 DEF ReadInv
<1>20. ShareInv'
  BY <1>1 DEF ShareInv, Valid
<1>21. ActiveIsPlayable'
  <2>1. SUFFICES ASSUME quiz'.active, tampered' = {}, NEW level \in Level
                 PROVE  Suffices(quiz', questions', level)
    BY DEF ActiveIsPlayable, Suffices, Pool, Share
  <2>2. u.rows \in SUBSET questions'
    BY <1>2, <1>3, <2>1
  <2>3. Suffices(u.quiz, u.rows, level)
    BY <1>1, <2>1 DEF Valid
  <2>4. IsFiniteSet(questions')
    BY <1>16 DEF ReqInv
  <2> QED BY <1>1, <1>2, <2>2, <2>3, <2>4, MoreSuffices
<1>22. DrawIsWellSized'
  BY <1>6 DEF IInv, DrawIsWellSized
<1>23. ImportedOnce'
  BY <1>9, <1>11, <1>13 DEF IInv, ImportedOnce
<1> QED BY <1>15, <1>16, <1>17, <1>18, <1>19, <1>20, <1>21, <1>22, <1>23 DEF IInv

LEMMA QuizKeeps == ASSUME IInv, NEW r \in Request, QuizStep(r) PROVE IInv'
BY TakeKeeps, GenerateKeeps, DeleteQuizKeeps, CommitKeeps, RollbackKeeps, CreateQuizKeeps,
   UpdateReadKeeps DEF QuizStep

LEMMA NextInv == IInv /\ [Next]_vars => IInv'
<1>1. ASSUME IInv, Next PROVE IInv'
  BY <1>1, QuizKeeps, QuestionKeeps, CourseKeeps DEF Next
<1>2. ASSUME IInv, UNCHANGED vars PROVE IInv'
  BY <1>2 DEF vars, course, history, IInv, TypeOK, Stored, ReqInv, IdInv, ImportInv, ReadInv, ShareInv,
              ActiveIsPlayable, DrawIsWellSized, ImportedOnce, At, Suffices, Pool, Share
<1> QED BY <1>1, <1>2

LEMMA Invariance == Spec => []IInv
BY InitInv, NextInv, PTL DEF Spec

-----------------------------------------------------------------------------
(* Theorems *)

\* Every variable keeps its type, no two questions have one id though requests copy, edit,
\* move and cascade them, and who holds the quiz's row is in its update
\* (quizzes.service.ts, questions.service.ts).
THEOREM QuestionsAreTyped == Spec => []TypeOK
<1>1. IInv => TypeOK
  BY DEF IInv
<1> QED BY <1>1, Invariance, PTL

\* However updates, edits, removals, cascades and imports interleave, a draw from an
\* active quiz ends, unless its questions were edited, removed by who read that it was not
\* active, dropped, or taken by a curriculum since it was validated (validationQuiz).
THEOREM ActiveQuizzesArePlayable == Spec => []ActiveIsPlayable
<1>1. IInv => ActiveIsPlayable
  BY DEF IInv
<1> QED BY <1>1, Invariance, PTL

\* A student's exam misses the total the quiz asks for by one question at most, whatever
\* numbers the total and the percentages are, if these are positive (generateQuiz).
THEOREM DrawsAreWellSized == Spec => []DrawIsWellSized
<1>1. IInv => DrawIsWellSized
  BY DEF IInv
<1> QED BY <1>1, Invariance, PTL

\* Two imported questions of one title and curriculum came with one update, whatever is
\* edited, moved or removed meanwhile, here and in the other quizzes (updateQuiz, createQuiz).
THEOREM QuestionsAreImportedOnce == Spec => []ImportedOnce
<1>1. IInv => ImportedOnce
  BY DEF IInv
<1> QED BY <1>1, Invariance, PTL
=============================================================================
