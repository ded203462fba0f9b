-------------------------- MODULE QuizSessionProofs --------------------------
(***************************************************************************)
(* Proofs about QuizSession: that timers and the registries that name them *)
(* cover every open session, that scores are percentages and those of the  *)
(* answers stored, and that a student has one session unless calls raced.  *)
(***************************************************************************)
EXTENDS QuizSession, FiniteSetTheorems, TLAPS

\* The rows, without the history of what crossed.
rowData == <<sess, createdAt, answers, overfull, score>>

\* What a call of takeQuiz has come to: it makes its session once and sets its timer
\* last, and keeps its server, session and duration from then on.
CallInv ==
  \A t \in Take :
    /\ take[t].pc # "new" => take[t].minutes \in Durations
    /\ take[t].pc \in {"new", "quiz", "generate"} => sess[t] = "none"
    /\ take[t].pc \in {"new", "quiz", "generate", "arm"} => take[t].session = t
    /\ take[t].pc \in {"arm", "resume"} => sess[take[t].session] # "none"
    /\ timer[t] # "none" => take[t].pc = "done" /\ sess[take[t].session] # "none"
    /\ \A d \in Durations : createdAt[t] + d <= MaxNow

\* A timer submits its own session, once it has fired.
TimerInv ==
  \A t \in Take :
    /\ timer[t] \in {"none", "pending"} => run[t] = Idle
    /\ run[t].pc \in {"read", "scored"} => run[t].session = take[t].session

\* A submission is of a session that was made.
RunInv ==
  \A p \in Run : run[p].pc \in {"read", "scored", "failed", "lost"}
    => sess[run[p].session] # "none"

\* A name leads to one timer, of the server that gave it and the session it names.
NameInv ==
  /\ \A e \in registry :
       /\ take[e[3]].server = e[1] /\ take[e[3]].session = e[2]
       /\ timer[e[3]] \in {"pending", "fired"}
  /\ \A sv \in Server, s \in Take : \A t, x \in Timers(sv, s) : t = x

\* Letters beyond the first are stored by an answer that was refused only.
AnswerInv ==
  /\ \A a \in Answer : ans[a].pc = "read" /\ ans[a].hits > 1 => ans[a].refused
  /\ \A s \in Take \ overfull : answers[s] \subseteq Question \X {1}
  /\ \A p \in Run : /\ run[p].pc \in {"read", "scored"} /\ run[p].session \notin overfull
                    => run[p].hits <= Total

\* A session, or a call that is about to make one.
Live(s) == s \in Rows \/ take[s].pc = "generate"

OneLive == ~raced => \A s, x \in Take : Live(s) /\ Live(x) => s = x

IInv ==
  /\ TypeOK /\ CallInv /\ TimerInv /\ RunInv /\ NameInv /\ AnswerInv /\ OneLive
  /\ TimerCoverage /\ ScoreWithinHundred

-----------------------------------------------------------------------------
(* What answers can earn. *)

LEMMA TotalIsPositive == Total \in Nat \ {0}
<1>1. IsFiniteSet(Question) /\ Question # {}
  BY QuestionsExist
<1> QED BY <1>1, FS_CardinalityType, FS_EmptySet DEF Total

LEMMA OneLetterEach ==
  ASSUME NEW i
  PROVE  IsFiniteSet(Question \X {i}) /\ Cardinality(Question \X {i}) <= Total
<1> DEFINE f == [q \in Question |-> <<q, i>>]
<1>1. f \in Surjection(Question, Question \X {i})
  BY DEF Surjection
<1> HIDE DEF f
<1> QED BY <1>1, QuestionsExist, FS_Surjection DEF Total

\* Answers earn two letters for each question at most, and one if each has one letter.
LEMMA LettersAreBounded ==
  ASSUME NEW some \in SUBSET (Question \X (1 .. 2))
  PROVE  /\ Cardinality(some) \in 0 .. 2 * Total
         /\ some \subseteq Question \X {1} => Cardinality(some) <= Total
<1> DEFINE A == Question \X {1}
           B == Question \X {2}
<1>1. IsFiniteSet(A) /\ IsFiniteSet(B) /\ Cardinality(A) <= Total /\ Cardinality(B) <= Total
  BY OneLetterEach
<1>2. some \in SUBSET (A \cup B)
  OBVIOUS
<1> HIDE DEF A, B
<1>3. /\ Cardinality(A) \in Nat /\ Cardinality(B) \in Nat
      /\ IsFiniteSet(A \cup B) /\ Cardinality(A \cup B) \in Nat
      /\ Cardinality(A \cap B) \in Nat
  BY <1>1, FS_Union, FS_Intersection, FS_CardinalityType
<1>4. Cardinality(A \cup B) = Cardinality(A) + Cardinality(B) - Cardinality(A \cap B)
  BY <1>1, FS_Union
<1>5. IsFiniteSet(some) /\ Cardinality(some) \in Nat /\ Cardinality(some) <= Cardinality(A \cup B)
  BY <1>2, <1>3, FS_Subset, FS_CardinalityType
<1>6. some \in SUBSET A => Cardinality(some) <= Cardinality(A)
  BY <1>1, FS_Subset
<1>7. some \subseteq A => Cardinality(some) <= Total
  BY <1>1, <1>3, <1>5, <1>6, TotalIsPositive
<1> QED BY <1>1, <1>3, <1>4, <1>5, <1>7, TotalIsPositive DEF A

\* A score is a percentage if no question earned more than one letter.
LEMMA ScoreIsPercentage ==
  ASSUME NEW total \in Nat \ {0}, NEW hits \in Nat, hits <= total
  PROVE  (100 * hits) \div total \in 0 .. 100
<1> DEFINE q == (100 * hits) \div total
<1>1. q \in Int /\ 100 * hits >= total * q /\ 100 * hits < total * q + total
  OBVIOUS
<1> HIDE DEF q
<1>2. CASE q >= 101
  <2>1. total * q >= total * 101
    BY <1>1, <1>2
  <2> QED BY <1>1, <2>1
<1>3. CASE q <= -1
  <2>1. total * q <= -total
    BY <1>1, <1>3
  <2> QED BY <1>1, <2>1
<1> QED BY <1>1, <1>2, <1>3 DEF q

-----------------------------------------------------------------------------
(* Types *)

LEMMA DurationsAreMinutes == Durations \subseteq 1 .. MaxNow /\ MaxNow \in Nat
  BY TimesAreBounded

LEMMA TypeInit == Init => TypeOK
<1> SUFFICES ASSUME Init PROVE TypeOK
  OBVIOUS
<1>1. PICK sv \in Server :
        take = [t \in Take |-> [pc |-> "new", server |-> sv, minutes |-> 0, session |-> t]]
  BY DEF Init
<1>2. take \in [Take -> Takes]
  BY <1>1 DEF Takes, TakePC
<1>3. run \in [Run -> Runs] /\ ans \in [Answer -> Answered]
  BY DEF Init, Runs, Answered
<1>4. /\ sess \in [Take -> {"none", "open", "ended", "deleted"}]
      /\ createdAt \in [Take -> 0 .. MaxNow] /\ due \in [Take -> 0 .. MaxNow]
      /\ score \in [Take -> Int] /\ now \in 0 .. MaxNow /\ crashes \in 0 .. MaxCrashes
  BY DurationsAreMinutes, CrashBound DEF Init, Ungraded
<1>5. answers \in [Take -> SUBSET (Question \X (1 .. 2))]
  BY DEF Init
<1> QED BY <1>2, <1>3, <1>4, <1>5 DEF Init, TypeOK

\* A call that moves on keeps its type.
LEMMA MovesOn ==
  ASSUME take \in [Take -> Takes], NEW t \in Take, NEW pc \in TakePC, NEW s \in Take,
         take' = [take EXCEPT ![t].pc = pc, ![t].session = s]
  PROVE  take' \in [Take -> Takes]
<1>1. [take[t] EXCEPT !.pc = pc] \in Takes
  BY DEF Takes
<1>2. [[take[t] EXCEPT !.pc = pc] EXCEPT !.session = s] \in Takes
  BY <1>1 DEF Takes
<1> QED BY <1>2

\* Steps of takeQuiz, which change the rows it makes, its own state and its timer.
LEMMA TakeTyped ==
  ASSUME TypeOK, CallInv, NEW t \in Take,
         (\E sv \in Server : ReadQuiz(t, sv)) \/ Serve(t)
  PROVE  TypeOK'
<1>0. take \in [Take -> Takes]
  BY DEF TypeOK
<1>1. ASSUME NEW sv \in Server, ReadQuiz(t, sv) PROVE TypeOK'
  <2>1. take' \in [Take -> Takes]
    <3>1. duration \in Durations
      BY DEF TypeOK
    <3>2. [take[t] EXCEPT !.pc = "quiz"] \in Takes
      BY <1>0 DEF Takes, TakePC
    <3>3. [[take[t] EXCEPT !.pc = "quiz"] EXCEPT !.server = sv] \in Takes
      BY <3>2 DEF Takes
    <3>4. [take[t] EXCEPT !.pc = "quiz", !.server = sv, !.minutes = duration] \in Takes
      BY <3>1, <3>3 DEF Takes
    <3> QED BY <1>0, <1>1, <3>4 DEF ReadQuiz
  <2> QED BY <1>1, <2>1 DEF ReadQuiz, TypeOK, quizVars, rowVars, rowData, timeVars
<1>2. CASE ReadSession(t)
  <2>1. take' \in [Take -> Takes]
    <3>1. \E pc \in TakePC, s \in Take :
             take' = [take EXCEPT ![t].pc = pc, ![t].session = s]
      BY <1>2 DEF ReadSession, FindSession, Rows, TakePC
    <3> QED BY <1>0, <3>1, MovesOn
  <2> QED BY <1>2, <2>1 DEF ReadSession, FindSession, TypeOK, quizVars, rowVars, rowData, timeVars
<1>3. CASE CreateSession(t)
  <2>1. take' \in [Take -> Takes]
    BY <1>0, <1>3 DEF CreateSession, Takes, TakePC
  <2> QED BY <1>3, <2>1 DEF CreateSession, TypeOK, quizVars, timeVars
<1>4. ASSUME Arm(t) PROVE TypeOK'
  <2>1. take' \in [Take -> Takes]
    BY <1>0, <1>4 DEF Arm, ArmAt, Takes, TakePC
  <2>2. take[t].session \in Take /\ take[t].server \in Server
        /\ take[t].minutes \in Durations \cup {0}
    BY <1>0 DEF Takes
  <2>3. FiresAt(t) \in 0 .. MaxNow
    <3> DEFINE s == take[t].session
               d == take[t].minutes
    <3>1. createdAt[s] \in 0 .. MaxNow /\ (d \in Durations => createdAt[s] + d <= MaxNow)
      BY <2>2 DEF CallInv, TypeOK
    <3>2. d = 0 \/ (d \in 1 .. MaxNow /\ d \in Durations)
      BY <2>2, DurationsAreMinutes
    <3>3. Deadline(s, d) \in 0 .. MaxNow
      BY <3>1, <3>2, DurationsAreMinutes DEF Deadline
    <3>4. now \in 0 .. MaxNow
      BY DEF TypeOK
    <3> QED BY <3>3, <3>4 DEF FiresAt
  <2>4. registry' \subseteq Server \X Take \X Take
    BY <1>4, <2>2 DEF Arm, ArmAt, TypeOK
  <2>5. due' \in [Take -> 0 .. MaxNow]
        /\ timer' \in [Take -> {"none", "pending", "fired", "cleared", "lost"}]
    BY <1>4, <2>3 DEF Arm, ArmAt, TypeOK
  <2> QED BY <1>4, <2>1, <2>4, <2>5 DEF Arm, ArmAt, TypeOK, quizVars, rowVars, rowData
<1>5. CASE Resume(t) /\ ~Arm(t)
  <2>1. take' \in [Take -> Takes]
    BY <1>0, <1>5 DEF Resume, Takes, TakePC
  <2> QED BY <1>5, <2>1 DEF Resume, TypeOK, quizVars, rowVars, rowData, timeVars
<1> QED BY <1>1, <1>2, <1>3, <1>4, <1>5 DEF Serve, ArmNew

LEMMA AnswerTyped ==
  ASSUME TypeOK, NEW a \in Answer, UpdateAnswer(a) \/ UpdateAnswers(a) \/ WriteAnswer(a)
  PROVE  TypeOK'
<1>0. ans \in [Answer -> Answered]
  BY DEF TypeOK
<1>1. ASSUME NEW q \in Question, NEW hits \in 0 .. 2, NEW refused \in BOOLEAN,
             Accept(a, q, hits, refused)
      PROVE  TypeOK'
  <2>1. ans' \in [Answer -> Answered]
    BY <1>0, <1>1 DEF Accept, AcceptFor, Answered
  <2> QED BY <1>1, <2>1 DEF Accept, AcceptFor, TypeOK, quizVars, rowVars, rowData, timeVars
<1>2. CASE WriteAnswer(a)
  <2>1. ans' \in [Answer -> Answered]
    BY <1>0, <1>2 DEF WriteAnswer, Answered
  <2>2. ans[a] \in [pc : {"read"}, session : Take, question : Question,
                    hits : 0 .. 2, refused : BOOLEAN]
    BY <1>0, <1>2 DEF WriteAnswer, Answered, Idle, Done
  <2>3. {ans[a].question} \X (1 .. ans[a].hits) \subseteq Question \X (1 .. 2)
    BY <2>2
  <2>4. answers' \in [Take -> SUBSET (Question \X (1 .. 2))] /\ overfull' \subseteq Take
    BY <1>2, <2>2, <2>3 DEF WriteAnswer, TypeOK
  <2> QED BY <1>2, <2>1, <2>4 DEF WriteAnswer, TypeOK, quizVars, timeVars
<1>3. CASE UpdateAnswer(a)
  <2>1. PICK q \in Question, hits \in 0 .. 1 : Accept(a, q, hits, FALSE)
    BY <1>3 DEF UpdateAnswer
  <2>2. hits \in 0 .. 2
    OBVIOUS
  <2> QED BY <1>1, <2>1, <2>2
<1>4. CASE UpdateAnswers(a)
  <2>1. PICK q \in Question : \E hits \in Hits(q) : Accept(a, q, hits, hits > 1)
    BY <1>4 DEF UpdateAnswers
  <2>2. PICK hits \in Hits(q) : Accept(a, q, hits, hits > 1)
    BY <2>1
  <2>3. hits \in 0 .. 2 /\ (hits > 1) \in BOOLEAN
    BY DEF Hits
  <2> QED BY <1>1, <2>2, <2>3
<1> QED BY <1>2, <1>3, <1>4

LEMMA SubmitReadTyped ==
  ASSUME TypeOK, NEW p \in Run, NEW s \in Take, NEW sv \in Server, SubmitRead(p, s, sv)
  PROVE  run' \in [Run -> Runs]
<1>1. Cardinality(answers[s]) \in 0 .. 2 * Total
  BY LettersAreBounded DEF TypeOK
<1>2. [pc |-> "read", session |-> s, server |-> sv, hits |-> Cardinality(answers[s])] \in Runs
  BY <1>1 DEF Runs
<1>3. Done \in Runs /\ run \in [Run -> Runs]
  BY DEF Runs, TypeOK
<1> QED BY <1>2, <1>3 DEF SubmitRead

LEMMA SubmitTyped ==
  ASSUME TypeOK,
         \/ \E t \in Take : FireTimer(t)
         \/ \E t \in Take, p \in Submit, sv \in Server : RequestSubmit(p, t, sv)
         \/ \E p \in Run : Grade(p)
  PROVE  TypeOK'
<1>0. run \in [Run -> Runs]
  BY DEF TypeOK
<1>1. ASSUME NEW t \in Take, FireTimer(t) PROVE TypeOK'
  <2>1. run' \in [Run -> Runs]
    <3>1. take[t].session \in Take /\ take[t].server \in Server /\ t \in Run
      BY DEF TypeOK, Takes, Run
    <3> QED BY <1>1, <3>1, SubmitReadTyped DEF FireTimer
  <2> QED BY <1>1, <2>1, <1>0 DEF FireTimer, SubmitRead, Takes, TypeOK, quizVars, rowVars, rowData
<1>2. ASSUME NEW t \in Take, NEW p \in Submit, NEW sv \in Server, RequestSubmit(p, t, sv)
      PROVE  TypeOK'
  <2>1. run' \in [Run -> Runs]
    BY <1>2, SubmitReadTyped DEF RequestSubmit, Run
  <2> QED BY <1>2, <2>1 DEF RequestSubmit, SubmitRead, TypeOK, quizVars, rowVars, rowData, timeVars
<1>3. ASSUME NEW p \in Run, SubmitScore(p) PROVE TypeOK'
  <2>1. run' \in [Run -> Runs]
    BY <1>0, <1>3 DEF SubmitScore, Runs, Idle, Done
  <2> QED BY <1>3, <2>1 DEF SubmitScore, TypeOK, quizVars, rowVars, rowData
<1>4. ASSUME NEW p \in Run, SubmitWrite(p) PROVE TypeOK'
  <2>1. run[p].session \in Take /\ run[p].hits \in Nat
    BY <1>0, <1>4, TotalIsPositive DEF SubmitWrite, Runs, Idle, Done
  <2>2. run' \in [Run -> Runs]
    BY <1>0, <1>4 DEF SubmitWrite, Runs, Idle, Done
  <2>3. (100 * run[p].hits) \div Total \in Int
    BY <2>1, TotalIsPositive
  <2>4. sess' \in [Take -> {"none", "open", "ended", "deleted"}] /\ score' \in [Take -> Int]
    BY <1>4, <2>1, <2>3 DEF SubmitWrite, TypeOK
  <2> QED BY <1>4, <2>2, <2>4 DEF SubmitWrite, TypeOK, quizVars, timeVars
<1> QED BY <1>1, <1>2, <1>3, <1>4 DEF Grade

LEMMA WorldTyped ==
  ASSUME TypeOK, \/ \E s \in Take : ResetQuizEnrolled(s)
                 \/ UpdateQuiz \/ Tick \/ \E sv \in Server : Crash(sv)
  PROVE  TypeOK'
<1>1. ASSUME NEW s \in Take, ResetQuizEnrolled(s) PROVE TypeOK'
  BY <1>1 DEF ResetQuizEnrolled, TypeOK, quizVars, timeVars
<1>2. CASE UpdateQuiz
  BY <1>2 DEF UpdateQuiz, TypeOK, rowVars, rowData, timeVars
<1>3. CASE Tick
  BY <1>3, DurationsAreMinutes DEF Tick, TypeOK, quizVars, rowVars, rowData, timeVars
<1>4. ASSUME NEW sv \in Server, Crash(sv) PROVE TypeOK'
  <2>1. take' \in [Take -> Takes]
    BY <1>4 DEF Crash, TypeOK, Takes, TakePC
  <2>2. run' \in [Run -> Runs]
    <3>1. run \in [Run -> Runs]
      BY DEF TypeOK
    <3> QED BY <1>4, <3>1 DEF Crash, Runs, Idle, Done
  <2>3. crashes' \in 0 .. MaxCrashes
    BY <1>4, CrashBound DEF Crash, TypeOK
  <2>4. timer' \in [Take -> {"none", "pending", "fired", "cleared", "lost"}]
        /\ registry' \subseteq Server \X Take \X Take
    BY <1>4 DEF Crash, TypeOK
  <2> QED BY <1>4, <2>1, <2>2, <2>3, <2>4 DEF Crash, TypeOK, quizVars, rowVars, rowData
<1> QED BY <1>1, <1>2, <1>3, <1>4

LEMMA TypeNext == TypeOK /\ CallInv /\ [Next]_vars => TypeOK'
<1> SUFFICES ASSUME TypeOK, CallInv, [Next]_vars PROVE TypeOK'
  OBVIOUS
<1>1. CASE UNCHANGED vars
  BY <1>1 DEF vars, quizVars, rowVars, rowData, timeVars, TypeOK
<1> QED BY <1>1, TakeTyped, AnswerTyped, SubmitTyped, WorldTyped DEF Next

-----------------------------------------------------------------------------
(* Every step keeps the parts of the invariant: first the steps of takeQuiz. *)

Parts ==
  /\ CallInv /\ TimerInv /\ RunInv /\ NameInv /\ AnswerInv /\ OneLive
  /\ TimerCoverage /\ ScoreWithinHundred

\* A call that has no timer moves on, and touches no row: what it leaves to prove is
\* what it has come to.
LEMMA CallMovesOn ==
  ASSUME TypeOK, Parts, NEW t \in Take,
         UNCHANGED <<now, sess, createdAt, answers, overfull, score, timeVars, run, ans>>,
         timer[t] = "none", take[t].pc \notin {"arm", "lost"},
         DOMAIN take' = Take, \A x \in Take \ {t} : take'[x] = take[x]
  PROVE  TimerInv' /\ RunInv' /\ NameInv' /\ AnswerInv' /\ TimerCoverage'
         /\ ScoreWithinHundred'
<1>1. run[t] = Idle /\ Idle.pc = "idle"
  BY DEF Parts, TimerInv, Idle
<1>2. TimerInv'
  BY <1>1 DEF Parts, TimerInv, timeVars
<1>3. RunInv' /\ ScoreWithinHundred'
  BY DEF Parts, RunInv, ScoreWithinHundred
<1>4. NameInv'
  <2>1. \A e \in registry : e[3] \in Take /\ e[3] # t
    BY DEF TypeOK, Parts, NameInv
  <2> QED BY <2>1 DEF Parts, NameInv, Timers, timeVars
<1>5. AnswerInv'
  BY DEF Parts, AnswerInv
<1>6. TimerCoverage'
  BY DEF Parts, TimerCoverage, timeVars
<1> QED BY <1>2, <1>3, <1>4, <1>5, <1>6

LEMMA ReadQuizKeeps ==
  ASSUME TypeOK, Parts, NEW t \in Take, NEW sv \in Server, ReadQuiz(t, sv)
  PROVE  Parts'
<1>1. /\ take'[t].pc = "quiz" /\ take'[t].minutes = duration
      /\ take'[t].session = take[t].session
      /\ DOMAIN take' = Take /\ \A x \in Take \ {t} : take'[x] = take[x]
  BY DEF ReadQuiz, TypeOK, Takes
<1>2. /\ take[t].pc = "new" /\ duration \in Durations /\ timer[t] = "none"
      /\ UNCHANGED <<now, sess, createdAt, answers, overfull, score, timeVars, run, ans, raced>>
  BY DEF ReadQuiz, TypeOK, Parts, CallInv, rowVars, rowData
<1>3. CallInv'
  BY <1>1, <1>2 DEF Parts, CallInv, timeVars
<1>4. OneLive'
  BY <1>1, <1>2 DEF Parts, OneLive, Live, Rows
<1> QED BY <1>1, <1>2, <1>3, <1>4, CallMovesOn DEF Parts

LEMMA ReadSessionKeeps ==
  ASSUME TypeOK, Parts, NEW t \in Take, ReadSession(t)
  PROVE  Parts'
<1>1. PICK pc \in {"generate", "resume", "done"}, s \in Take :
        /\ take' = [take EXCEPT ![t].pc = pc, ![t].session = s]
        /\ \/ /\ pc = "generate" /\ s = t /\ Rows = {}
              /\ raced' = (raced \/ \E x \in Take : take[x].pc = "generate")
           \/ pc # "generate" /\ s \in Rows /\ raced' = raced
  BY DEF ReadSession, FindSession, Rows
<1>2. /\ take'[t].pc = pc /\ take'[t].session = s /\ take'[t].minutes = take[t].minutes
      /\ DOMAIN take' = Take /\ \A x \in Take \ {t} : take'[x] = take[x]
  BY <1>1 DEF TypeOK, Takes
<1>3. /\ take[t].pc = "quiz" /\ sess[t] = "none" /\ timer[t] = "none"
      /\ UNCHANGED <<now, sess, createdAt, answers, overfull, score, timeVars, run, ans>>
  BY DEF ReadSession, FindSession, Parts, CallInv, rowVars, rowData
<1>4. CallInv'
  BY <1>1, <1>2, <1>3 DEF Parts, CallInv, Rows, timeVars
<1>5. OneLive'
  <2>1. CASE pc = "generate"
    <3>1. ASSUME NEW x \in Take, Live(x)', ~raced' PROVE x = t
      BY <1>1, <1>2, <1>3, <2>1, <3>1 DEF Live, Rows
    <3> QED BY <3>1 DEF OneLive
  <2>2. CASE pc # "generate"
    <3>1. ASSUME NEW x \in Take, Live(x)' PROVE Live(x)
      BY <1>1, <1>2, <1>3, <2>2, <3>1 DEF Live, Rows
    <3> QED BY <1>1, <2>2, <3>1 DEF Parts, OneLive
  <2> QED BY <2>1, <2>2
<1> QED BY <1>2, <1>3, <1>4, <1>5, CallMovesOn DEF Parts

LEMMA CreateSessionKeeps ==
  ASSUME TypeOK, Parts, NEW t \in Take, CreateSession(t)
  PROVE  Parts'
<1>1. /\ take[t].pc = "generate" /\ take[t].session = t /\ take[t].minutes \in Durations
      /\ sess[t] = "none" /\ timer[t] = "none" /\ \A d \in Durations : now + d <= MaxNow
      /\ UNCHANGED <<now, answers, overfull, score, timeVars, run, ans, raced>>
  BY DEF CreateSession, Parts, CallInv
<1>2. CASE /\ sess' = [sess EXCEPT ![t] = "open"]
           /\ createdAt' = [createdAt EXCEPT ![t] = now]
           /\ take' = [take EXCEPT ![t].pc = "arm"]
  <2>1. /\ take'[t].pc = "arm" /\ take'[t].session = t /\ take'[t].minutes = take[t].minutes
        /\ take'[t].server = take[t].server
        /\ \A x \in Take \ {t} : take'[x] = take[x]
        /\ sess'[t] = "open" /\ createdAt'[t] = now
        /\ \A x \in Take \ {t} : sess'[x] = sess[x] /\ createdAt'[x] = createdAt[x]
    BY <1>1, <1>2 DEF TypeOK, Takes
  <2>2. \A x \in Take : timer[x] # "none" => x # t /\ take[x].session \in Take \ {t}
    BY <1>1 DEF Parts, CallInv, TypeOK, Takes
  <2>3. CallInv'
    <3>1. ASSUME NEW x \in Take PROVE sess[take[x].session] # "none"
            => sess'[take[x].session] # "none"
      BY <2>1 DEF TypeOK, Takes
    <3> QED BY <1>1, <2>1, <3>1 DEF Parts, CallInv, timeVars
  <2>4. TimerInv'
    <3>1. run[t] = Idle /\ Idle.pc = "idle"
      BY <1>1 DEF Parts, TimerInv, Idle
    <3> QED BY <1>1, <2>1, <2>2, <3>1 DEF Parts, TimerInv, timeVars
  <2>5. RunInv'
    <3>1. ASSUME NEW p \in Run, run[p].pc \in {"read", "scored", "failed", "lost"}
          PROVE  run[p].session \in Take
      BY <3>1 DEF TypeOK, Runs, Idle, Done
    <3> QED BY <1>1, <2>1, <3>1 DEF Parts, RunInv
  <2>6. NameInv'
    <3>1. \A e \in registry : e[3] \in Take
      BY DEF TypeOK
    <3> QED BY <1>1, <2>1, <3>1 DEF Parts, NameInv, Timers, timeVars
  <2>7. AnswerInv' /\ ScoreWithinHundred'
    BY <1>1, <2>1 DEF Parts, AnswerInv, ScoreWithinHundred
  <2>8. OneLive'
    BY <1>1, <2>1 DEF Parts, OneLive, Live, Rows
  <2>9. TimerCoverage'
    BY <1>1, <2>1 DEF Parts, TimerCoverage, timeVars
  <2> QED BY <2>3, <2>4, <2>5, <2>6, <2>7, <2>8, <2>9 DEF Parts
<1>3. CASE take' = [take EXCEPT ![t].pc = "done"] /\ UNCHANGED <<sess, createdAt>>
  <2>1. /\ take'[t].pc = "done" /\ take'[t].session = t /\ take'[t].minutes = take[t].minutes
        /\ DOMAIN take' = Take /\ \A x \in Take \ {t} : take'[x] = take[x]
    BY <1>1, <1>3 DEF TypeOK, Takes
  <2>2. CallInv'
    BY <1>1, <1>3, <2>1 DEF Parts, CallInv, timeVars
  <2>3. OneLive'
    BY <1>1, <1>3, <2>1 DEF Parts, OneLive, Live, Rows
  <2> QED BY <1>1, <1>3, <2>1, <2>2, <2>3, CallMovesOn DEF Parts
<1> QED BY <1>2, <1>3 DEF CreateSession

LEMMA ArmKeeps ==
  ASSUME TypeOK, Parts, NEW t \in Take, take[t].pc \in {"arm", "resume"}, Arm(t)
  PROVE  Parts'
<1> DEFINE s  == take[t].session
           sv == take[t].server
<1>1. /\ s \in Take /\ sv \in Server /\ take[t].minutes \in Durations /\ sess[s] # "none"
      /\ (take[t].pc = "arm" => s = t) /\ timer[t] = "none" /\ run[t] = Idle /\ Idle.pc = "idle"
      /\ UNCHANGED <<now, sess, createdAt, answers, overfull, score, run, ans, raced>>
  BY DEF Arm, ArmAt, TypeOK, Takes, Parts, CallInv, TimerInv, Idle, rowVars, rowData
<1>2. /\ take'[t].pc = "done" /\ take'[t].session = s /\ take'[t].server = sv
      /\ take'[t].minutes = take[t].minutes
      /\ \A x \in Take \ {t} : take'[x] = take[x]
  BY DEF Arm, ArmAt, TypeOK, Takes
<1>3. /\ timer'[t] = "pending" /\ \A x \in Take \ {t} : timer'[x] = timer[x]
  BY DEF Arm, ArmAt, TypeOK
<1>4. CallInv'
  BY <1>1, <1>2, <1>3 DEF Parts, CallInv
<1>5. TimerInv'
  BY <1>1, <1>2, <1>3 DEF Parts, TimerInv
<1>6. RunInv' /\ AnswerInv' /\ ScoreWithinHundred'
  BY <1>1 DEF Parts, RunInv, AnswerInv, ScoreWithinHundred
<1>7. NameInv'
  <2>1. \A e \in registry : e[3] \in Take /\ e[3] # t
    BY <1>1 DEF TypeOK, Parts, NameInv
  <2>2. CASE registry' = registry
    BY <1>2, <1>3, <2>1, <2>2 DEF Parts, NameInv, Timers
  <2>3. CASE registry' = registry \cup {<<sv, s, t>>} /\ Timers(sv, s) = {}
    <3>1. \A e \in registry' : /\ take'[e[3]].server = e[1] /\ take'[e[3]].session = e[2]
                               /\ timer'[e[3]] \in {"pending", "fired"}
      BY <1>2, <1>3, <2>1, <2>3 DEF Parts, NameInv
    <3>2. ASSUME NEW v \in Server, NEW y \in Take, NEW a \in Timers(v, y)', NEW b \in Timers(v, y)'
          PROVE  a = b
      <4>1. CASE v = sv /\ y = s
        BY <2>3, <3>2, <4>1 DEF Timers
      <4>2. CASE ~(v = sv /\ y = s)
        <5>1. a \in Timers(v, y) /\ b \in Timers(v, y)
          BY <2>3, <3>2, <4>2 DEF Timers
        <5> QED BY <5>1 DEF Parts, NameInv
      <4> QED BY <4>1, <4>2
    <3> QED BY <3>1, <3>2 DEF NameInv
  <2> QED BY <2>2, <2>3 DEF Arm, ArmAt, HasName
<1>8. OneLive'
  BY <1>1, <1>2 DEF Parts, OneLive, Live, Rows
<1>9. TimerCoverage'
  <2> SUFFICES ASSUME NEW y \in Take, sess[y] = "open"
               PROVE  \/ take'[y].pc \in {"arm", "lost"}
                      \/ \E x \in Take : take'[x].session = y /\ timer'[x] \in {"pending", "lost"}
                      \/ \E p \in Run : /\ run[p].pc \in {"read", "scored", "failed", "lost"}
                                        /\ run[p].session = y
    BY <1>1 DEF TimerCoverage
  <2>1. CASE y = s
    BY <1>2, <1>3, <2>1
  <2>2. CASE y # s
    <3>1. take[y].pc \in {"arm", "lost"} => y # t
      BY <1>1, <2>2
    <3> QED BY <1>1, <1>2, <1>3, <3>1 DEF Parts, TimerCoverage
  <2> QED BY <2>1, <2>2
<1> QED BY <1>4, <1>5, <1>6, <1>7, <1>8, <1>9 DEF Parts

LEMMA ServeKeeps ==
  ASSUME TypeOK, Parts, NEW t \in Take, Serve(t)
  PROVE  Parts'
<1>1. CASE Resume(t) /\ ~Arm(t)
  <2>1. /\ take[t].pc = "resume" /\ timer[t] = "none"
        /\ UNCHANGED <<now, sess, createdAt, answers, overfull, score, timeVars, run, ans, raced>>
    BY <1>1 DEF Resume, Parts, CallInv, rowVars, rowData
  <2>2. /\ take'[t].pc = "done" /\ take'[t].session = take[t].session
        /\ take'[t].minutes = take[t].minutes
        /\ DOMAIN take' = Take /\ \A x \in Take \ {t} : take'[x] = take[x]
    BY <1>1 DEF Resume, TypeOK, Takes
  <2>3. CallInv'
    BY <2>1, <2>2 DEF Parts, CallInv, timeVars
  <2>4. OneLive'
    BY <2>1, <2>2 DEF Parts, OneLive, Live, Rows
  <2> QED BY <2>1, <2>2, <2>3, <2>4, CallMovesOn DEF Parts
<1>2. CASE ArmNew(t) \/ (Resume(t) /\ Arm(t))
  <2>1. take[t].pc \in {"arm", "resume"} /\ Arm(t)
    BY <1>2 DEF ArmNew, Resume
  <2> QED BY <2>1, ArmKeeps
<1> QED BY <1>1, <1>2, ReadSessionKeeps, CreateSessionKeeps DEF Serve

-----------------------------------------------------------------------------
(* The steps of answers and submissions. *)

LEMMA AcceptKeeps ==
  ASSUME TypeOK, Parts, NEW a \in Answer, NEW q \in Question, NEW hits \in 0 .. 2,
         NEW refused \in BOOLEAN, hits > 1 => refused, Accept(a, q, hits, refused)
  PROVE  Parts'
<1>1. /\ ans'[a].hits = hits /\ ans'[a].refused = refused
      /\ \A b \in Answer \ {a} : ans'[b] = ans[b]
      /\ UNCHANGED <<now, rowData, take, timeVars, run, raced>>
  BY DEF Accept, AcceptFor, TypeOK, rowVars, rowData, timeVars
<1>2. AnswerInv'
  BY <1>1 DEF Parts, AnswerInv, rowVars, rowData
<1>3. CallInv' /\ TimerInv' /\ RunInv' /\ NameInv'
  BY <1>1 DEF Parts, CallInv, TimerInv, RunInv, NameInv, Timers, Deadline, rowVars, rowData, timeVars
<1>4. OneLive' /\ TimerCoverage' /\ ScoreWithinHundred'
  BY <1>1 DEF Parts, OneLive, Live, Rows, TimerCoverage, ScoreWithinHundred, rowVars, rowData, timeVars
<1> QED BY <1>2, <1>3, <1>4 DEF Parts

LEMMA WriteAnswerKeeps ==
  ASSUME TypeOK, Parts, NEW a \in Answer, WriteAnswer(a)
  PROVE  Parts'
<1> DEFINE s == ans[a].session
<1>1. /\ s \in Take /\ ans[a].question \in Question /\ ans[a].hits \in 0 .. 2
      /\ ans[a].pc = "read" /\ (ans[a].hits > 1 => ans[a].refused)
  BY DEF WriteAnswer, TypeOK, Answered, Idle, Done, Parts, AnswerInv
<1>2. /\ ans'[a] = Done /\ Done.pc = "done" /\ \A b \in Answer \ {a} : ans'[b] = ans[b]
      /\ UNCHANGED <<now, sess, createdAt, score, take, timeVars, run, raced>>
  BY DEF WriteAnswer, TypeOK, Done
<1>3. overfull \subseteq overfull'
  BY DEF WriteAnswer
<1>4. \A x \in Take \ overfull' : answers'[x] \subseteq Question \X {1}
  <2>1. CASE UNCHANGED <<answers, overfull>>
    BY <2>1 DEF Parts, AnswerInv
  <2>2. CASE /\ answers' = [answers EXCEPT ![s] = {e \in @ : e[1] # ans[a].question}
                               \cup ({ans[a].question} \X (1 .. ans[a].hits))]
             /\ overfull' = IF ans[a].refused THEN overfull \cup {s} ELSE overfull
    <3>1. ASSUME NEW x \in Take \ overfull', x # s PROVE answers'[x] \subseteq Question \X {1}
      BY <1>3, <2>2, <3>1 DEF Parts, AnswerInv, TypeOK
    <3>2. CASE s \notin overfull'
      <4>1. s \notin overfull /\ ans[a].hits \in 0 .. 1
        BY <1>1, <2>2, <3>2
      <4>2. answers[s] \subseteq Question \X {1}
        BY <1>1, <4>1 DEF Parts, AnswerInv
      <4>3. {ans[a].question} \X (1 .. ans[a].hits) \subseteq Question \X {1}
        BY <1>1, <4>1
      <4>4. answers'[s] = {e \in answers[s] : e[1] # ans[a].question}
                            \cup ({ans[a].question} \X (1 .. ans[a].hits))
        BY <1>1, <2>2 DEF TypeOK
      <4> QED BY <3>1, <4>2, <4>3, <4>4
    <3> QED BY <3>1, <3>2
  <2> QED BY <2>1, <2>2 DEF WriteAnswer
<1>5. AnswerInv'
  BY <1>2, <1>3, <1>4 DEF Parts, AnswerInv
<1>6. CallInv' /\ TimerInv' /\ RunInv' /\ NameInv'
  BY <1>2 DEF Parts, CallInv, TimerInv, RunInv, NameInv, Timers, Deadline, timeVars
<1>7. OneLive' /\ TimerCoverage' /\ ScoreWithinHundred'
  BY <1>2, <1>3 DEF Parts, OneLive, Live, Rows, TimerCoverage, ScoreWithinHundred, timeVars
<1> QED BY <1>5, <1>6, <1>7 DEF Parts

LEMMA AnswerKeeps ==
  ASSUME TypeOK, Parts, NEW a \in Answer, UpdateAnswer(a) \/ UpdateAnswers(a) \/ WriteAnswer(a)
  PROVE  Parts'
<1>1. CASE UpdateAnswer(a)
  <2>1. PICK q \in Question, hits \in 0 .. 1 : Accept(a, q, hits, FALSE)
    BY <1>1 DEF UpdateAnswer
  <2>2. hits \in 0 .. 2 /\ ~(hits > 1)
    OBVIOUS
  <2> QED BY <2>1, <2>2, AcceptKeeps
<1>2. CASE UpdateAnswers(a)
  <2>1. PICK q \in Question : \E hits \in Hits(q) : Accept(a, q, hits, hits > 1)
    BY <1>2 DEF UpdateAnswers
  <2>2. PICK hits \in Hits(q) : Accept(a, q, hits, hits > 1)
    BY <2>1
  <2>3. hits \in 0 .. 2 /\ (hits > 1) \in BOOLEAN
    BY DEF Hits
  <2> QED BY <2>2, <2>3, AcceptKeeps
<1> QED BY <1>1, <1>2, WriteAnswerKeeps

\* Reading a session for a submission earns no more than its answers do.
LEMMA SubmitReadEarns ==
  ASSUME TypeOK, Parts, NEW p \in Run, NEW s \in Take, NEW sv \in Server, SubmitRead(p, s, sv)
  PROVE  /\ \A x \in Run \ {p} : run'[x] = run[x]
         /\ sess[s] = "open" => /\ run'[p].pc = "read" /\ run'[p].session = s
                                /\ s \notin overfull => run'[p].hits <= Total
         /\ sess[s] # "open" => run'[p].pc = "done"
<1>1. s \notin overfull => Cardinality(answers[s]) <= Total
  BY LettersAreBounded DEF TypeOK, Parts, AnswerInv
<1> QED BY <1>1 DEF SubmitRead, TypeOK, Done

LEMMA RequestSubmitKeeps ==
  ASSUME TypeOK, Parts, NEW t \in Take, NEW p \in Submit, NEW sv \in Server,
         RequestSubmit(p, t, sv)
  PROVE  Parts'
<1>1. /\ p \in Run /\ p \notin Take /\ run[p] = Idle /\ Idle.pc = "idle" /\ sess[t] = "open"
      /\ UNCHANGED <<now, rowData, take, timeVars, ans, raced>>
  BY ProcessesAreDistinct DEF RequestSubmit, SubmitRead, Run, Idle, rowVars, rowData, timeVars
<1>2. /\ \A x \in Run \ {p} : run'[x] = run[x]
      /\ run'[p].pc = "read" /\ run'[p].session = t
      /\ t \notin overfull => run'[p].hits <= Total
  BY <1>1, SubmitReadEarns DEF RequestSubmit
<1>3. TimerInv' /\ RunInv' /\ AnswerInv'
  BY <1>1, <1>2 DEF Parts, TimerInv, RunInv, AnswerInv, Deadline, Run, rowVars, rowData, timeVars
<1>4. TimerCoverage'
  BY <1>1, <1>2 DEF Parts, TimerCoverage, rowVars, rowData, timeVars
<1>5. CallInv' /\ NameInv' /\ OneLive' /\ ScoreWithinHundred'
  BY <1>1 DEF Parts, CallInv, NameInv, Timers, OneLive, Live, Rows, ScoreWithinHundred,
              rowVars, rowData, timeVars
<1> QED BY <1>3, <1>4, <1>5 DEF Parts

LEMMA FireTimerKeeps ==
  ASSUME TypeOK, Parts, NEW t \in Take, FireTimer(t)
  PROVE  Parts'
<1> DEFINE s == take[t].session
<1>1. /\ timer[t] = "pending" /\ now >= due[t] /\ run[t] = Idle /\ Idle.pc = "idle"
      /\ s \in Take /\ take[t].server \in Server /\ t \in Run /\ Take \subseteq Run
      /\ UNCHANGED <<now, rowData, take, due, registry, ans, raced>>
  BY DEF FireTimer, SubmitRead, rowVars, rowData, Parts, TimerInv, TypeOK, Takes, Run, Idle
<1>2. timer'[t] = "fired" /\ \A x \in Take \ {t} : timer'[x] = timer[x]
  BY DEF FireTimer, TypeOK
<1>3. /\ \A x \in Run \ {t} : run'[x] = run[x]
      /\ sess[s] = "open" => /\ run'[t].pc = "read" /\ run'[t].session = s
                             /\ s \notin overfull => run'[t].hits <= Total
      /\ sess[s] # "open" => run'[t].pc = "done"
  BY <1>1, SubmitReadEarns DEF FireTimer
<1>4. TimerInv'
  BY <1>1, <1>2, <1>3 DEF Parts, TimerInv, rowVars, rowData
<1>5. RunInv' /\ AnswerInv'
  BY <1>1, <1>3 DEF Parts, RunInv, AnswerInv, rowVars, rowData
<1>6. TimerCoverage'
  BY <1>1, <1>2, <1>3 DEF Parts, TimerCoverage, rowVars, rowData
<1>7. CallInv'
  BY <1>1, <1>2 DEF Parts, CallInv, rowVars, rowData
<1>8. NameInv'
  <2>1. \A e \in registry : e[3] \in Take
    BY DEF TypeOK
  <2> QED BY <1>1, <1>2, <2>1 DEF Parts, NameInv, Timers
<1>9. OneLive' /\ ScoreWithinHundred'
  BY <1>1 DEF Parts, OneLive, Live, Rows, ScoreWithinHundred, rowVars, rowData
<1> QED BY <1>4, <1>5, <1>6, <1>7, <1>8, <1>9 DEF Parts

LEMMA SubmitScoreKeeps ==
  ASSUME TypeOK, Parts, NEW p \in Run, SubmitScore(p)
  PROVE  Parts'
<1> DEFINE named == Timers(run[p].server, run[p].session)
<1>1. /\ run[p].pc = "read" /\ run[p].session \in Take /\ Take \subseteq Run
      /\ registry' = {e \in registry : ~(e[1] = run[p].server /\ e[2] = run[p].session)}
      /\ UNCHANGED <<now, rowData, take, due, ans, raced>>
  BY DEF SubmitScore, TypeOK, Runs, Idle, Done, Run, rowVars, rowData
<1>2. /\ run'[p].pc = "scored" /\ run'[p].session = run[p].session /\ run'[p].hits = run[p].hits
      /\ \A x \in Run \ {p} : run'[x] = run[x]
  BY DEF SubmitScore, TypeOK, Runs, Idle, Done
<1>3. /\ \A x \in Take : timer'[x] \in {timer[x], "cleared"}
      /\ \A x \in Take : timer[x] # "pending" => timer'[x] = timer[x]
      /\ \A x \in Take : timer'[x] # timer[x] => x \in named
  BY DEF SubmitScore
<1>4. \A e \in registry : e[3] \in Take /\ take[e[3]].server = e[1] /\ take[e[3]].session = e[2]
  BY DEF TypeOK, Parts, NameInv
<1>5. \A x \in named : take[x].session = run[p].session /\ take[x].server = run[p].server
  BY <1>4 DEF Timers
<1>6. \A e \in registry' : e \in registry /\ timer'[e[3]] = timer[e[3]]
  BY <1>1, <1>3, <1>4, <1>5
<1>7. NameInv'
  BY <1>1, <1>6 DEF Parts, NameInv, Timers
<1>8. TimerInv'
  <2>1. run[p] # Idle
    BY <1>1 DEF Idle
  <2> QED BY <1>1, <1>2, <1>3, <2>1 DEF Parts, TimerInv, rowVars, rowData
<1>9. RunInv' /\ AnswerInv'
  BY <1>1, <1>2 DEF Parts, RunInv, AnswerInv, rowVars, rowData
<1>10. CallInv'
  BY <1>1, <1>3 DEF Parts, CallInv, rowVars, rowData
<1>11. TimerCoverage'
  BY <1>1, <1>2, <1>3, <1>5 DEF Parts, TimerCoverage, rowVars, rowData
<1>12. OneLive' /\ ScoreWithinHundred'
  BY <1>1 DEF Parts, OneLive, Live, Rows, ScoreWithinHundred, rowVars, rowData
<1> QED BY <1>7, <1>8, <1>9, <1>10, <1>11, <1>12 DEF Parts

\* A session that ends, or is deleted, was made before: no call waits to make it.
LEMMA RowStaysMade ==
  ASSUME TypeOK, Parts, NEW s \in Take, sess[s] # "none", sess'[s] \in {"ended", "deleted"},
         s \in Rows \/ sess'[s] = "deleted",
         \A x \in Take \ {s} : sess'[x] = sess[x],
         UNCHANGED <<createdAt, take, timer, raced>>
  PROVE  CallInv' /\ OneLive'
<1>1. ASSUME NEW x \in Take PROVE take[x].session \in Take
  BY DEF TypeOK, Takes
<1>2. CallInv'
  BY <1>1 DEF Parts, CallInv
<1>3. ASSUME NEW x \in Take, Live(x)' PROVE Live(x)
  BY <1>3 DEF Live, Rows
<1> QED BY <1>2, <1>3 DEF Parts, OneLive

LEMMA SubmitWriteKeeps ==
  ASSUME TypeOK, Parts, NEW p \in Run, SubmitWrite(p)
  PROVE  Parts'
<1> DEFINE s == run[p].session
<1>1. /\ run[p].pc = "scored" /\ s \in Take /\ sess[s] # "none" /\ Take \subseteq Run
      /\ run[p].hits \in Nat /\ (s \notin overfull => run[p].hits <= Total)
      /\ UNCHANGED <<now, createdAt, answers, overfull, take, timeVars, ans, raced>>
  BY TotalIsPositive DEF SubmitWrite, TypeOK, Runs, Idle, Done, Run, Parts, RunInv, AnswerInv
<1>2. /\ run'[p].pc \in {"done", "failed"} /\ \A x \in Run \ {p} : run'[x] = run[x]
      /\ run'[p].pc = "failed" => run'[p].session = s
  BY DEF SubmitWrite, TypeOK, Runs, Idle, Done
<1>3. TimerInv'
  BY <1>1, <1>2 DEF Parts, TimerInv, timeVars, Idle
<1>4. AnswerInv'
  BY <1>1, <1>2 DEF Parts, AnswerInv
<1>5. NameInv'
  BY <1>1 DEF Parts, NameInv, Timers, timeVars
<1>6. CASE /\ sess[s] # "deleted"
           /\ sess' = [sess EXCEPT ![s] = "ended"]
           /\ score' = [score EXCEPT ![s] = (100 * run[p].hits) \div Total]
           /\ run' = [run EXCEPT ![p] = Done]
  <2>1. /\ sess'[s] = "ended" /\ score'[s] = (100 * run[p].hits) \div Total
        /\ \A x \in Take \ {s} : sess'[x] = sess[x] /\ score'[x] = score[x]
        /\ run'[p].pc = "done" /\ s \in Rows
    BY <1>1, <1>6 DEF TypeOK, Done, Rows
  <2>2. CallInv' /\ OneLive'
    BY <1>1, <2>1, RowStaysMade DEF timeVars
  <2>3. RunInv'
    <3>1. ASSUME NEW x \in Run, run[x].pc \in {"read", "scored", "failed", "lost"}
          PROVE  run[x].session \in Take
      BY <3>1 DEF TypeOK, Runs, Idle, Done
    <3> QED BY <1>2, <2>1, <3>1 DEF Parts, RunInv
  <2>4. ScoreWithinHundred'
    <3>1. s \notin overfull => score'[s] \in 0 .. 100
      BY <1>1, <2>1, TotalIsPositive, ScoreIsPercentage
    <3> QED BY <1>1, <2>1, <3>1 DEF Parts, ScoreWithinHundred
  <2>5. TimerCoverage'
    BY <1>1, <1>2, <2>1 DEF Parts, TimerCoverage, timeVars
  <2> QED BY <1>3, <1>4, <1>5, <2>2, <2>3, <2>4, <2>5 DEF Parts
<1>7. CASE run' = [run EXCEPT ![p].pc = "failed"] /\ UNCHANGED <<sess, score>>
  <2>1. run'[p].pc = "failed" /\ run'[p].session = s
    BY <1>1, <1>7 DEF TypeOK, Runs, Idle, Done
  <2>2. CallInv' /\ OneLive' /\ ScoreWithinHundred'
    BY <1>1, <1>7 DEF Parts, CallInv, OneLive, Live, Rows, ScoreWithinHundred, timeVars
  <2>3. RunInv'
    BY <1>1, <1>2, <1>7, <2>1 DEF Parts, RunInv
  <2>4. TimerCoverage'
    BY <1>1, <1>2, <1>7, <2>1 DEF Parts, TimerCoverage, timeVars
  <2> QED BY <1>3, <1>4, <1>5, <2>2, <2>3, <2>4 DEF Parts
<1> QED BY <1>6, <1>7 DEF SubmitWrite

-----------------------------------------------------------------------------
(* The steps of administrators, the clock and the servers. *)

LEMMA ResetKeeps ==
  ASSUME TypeOK, Parts, NEW s \in Take, ResetQuizEnrolled(s)
  PROVE  Parts'
<1>1. /\ sess[s] \in {"open", "ended"} /\ sess'[s] = "deleted"
      /\ \A x \in Take \ {s} : sess'[x] = sess[x]
      /\ UNCHANGED <<now, createdAt, answers, overfull, score, take, timeVars, run, ans, raced>>
  BY DEF ResetQuizEnrolled, TypeOK
<1>2. CallInv' /\ OneLive'
  BY <1>1, RowStaysMade DEF timeVars
<1>3. RunInv'
  <2>1. ASSUME NEW x \in Run, run[x].pc \in {"read", "scored", "failed", "lost"}
        PROVE  run[x].session \in Take
    BY <2>1 DEF TypeOK, Runs, Idle, Done
  <2> QED BY <1>1, <2>1 DEF Parts, RunInv
<1>4. TimerInv' /\ NameInv' /\ AnswerInv'
  BY <1>1 DEF Parts, TimerInv, NameInv, AnswerInv, Timers, Deadline, timeVars
<1>5. TimerCoverage' /\ ScoreWithinHundred'
  BY <1>1 DEF Parts, TimerCoverage, ScoreWithinHundred, timeVars
<1> QED BY <1>2, <1>3, <1>4, <1>5 DEF Parts

LEMMA UpdateQuizKeeps ==
  ASSUME TypeOK, Parts, UpdateQuiz
  PROVE  Parts'
<1>1. UNCHANGED <<now, rowData, take, timeVars, run, ans, raced>>
  BY DEF UpdateQuiz, rowVars, rowData
<1>2. CallInv' /\ TimerInv' /\ RunInv' /\ NameInv' /\ AnswerInv'
  BY <1>1 DEF Parts, CallInv, TimerInv, RunInv, NameInv, AnswerInv, Timers, Deadline,
              rowVars, rowData, timeVars
<1>3. OneLive' /\ TimerCoverage' /\ ScoreWithinHundred'
  BY <1>1 DEF Parts, OneLive, Live, Rows, TimerCoverage, ScoreWithinHundred, rowVars, rowData, timeVars
<1> QED BY <1>2, <1>3 DEF Parts

LEMMA TickKeeps ==
  ASSUME TypeOK, Parts, Tick
  PROVE  Parts'
<1>1. /\ now' = now + 1 /\ now \in Int
      /\ UNCHANGED <<rowData, take, timeVars, run, ans, raced>>
  BY DEF Tick, TypeOK, rowVars, rowData
<1>2. TimerInv'
  <2>1. \A t \in Take : due[t] \in Int
    BY DEF TypeOK
  <2> QED BY <1>1, <2>1 DEF Parts, TimerInv, rowVars, rowData, timeVars
<1>3. CallInv' /\ RunInv' /\ NameInv' /\ AnswerInv'
  BY <1>1 DEF Parts, CallInv, RunInv, NameInv, AnswerInv, Timers, rowVars, rowData, timeVars
<1>4. OneLive' /\ TimerCoverage' /\ ScoreWithinHundred'
  BY <1>1 DEF Parts, OneLive, Live, Rows, TimerCoverage, ScoreWithinHundred, rowVars, rowData, timeVars
<1> QED BY <1>2, <1>3, <1>4 DEF Parts

LEMMA CrashKeeps ==
  ASSUME TypeOK, Parts, NEW sv \in Server, Crash(sv)
  PROVE  Parts'
<1>1. /\ registry' = {e \in registry : e[1] # sv} /\ Take \subseteq Run
      /\ UNCHANGED <<now, rowData, due, ans, raced>>
  BY DEF Crash, Run, rowVars, rowData
<1>2. \A t \in Take :
        /\ take'[t].server = take[t].server /\ take'[t].session = take[t].session
        /\ take'[t].minutes = take[t].minutes
        /\ take'[t].pc = IF take[t].server = sv /\ take[t].pc \notin {"new", "done"}
                         THEN "lost" ELSE take[t].pc
        /\ timer'[t] = IF take[t].server = sv /\ timer[t] = "pending" THEN "lost" ELSE timer[t]
  BY DEF Crash, TypeOK, Takes
<1>3. \A p \in Run :
        \/ run'[p] = run[p]
        \/ /\ run[p].pc \in {"read", "scored"} /\ run'[p].pc = "lost"
           /\ run'[p].session = run[p].session
  <2>1. ASSUME NEW p \in Run, run[p].pc \in {"read", "scored"}
        PROVE  /\ [run[p] EXCEPT !.pc = "lost"].pc = "lost"
               /\ [run[p] EXCEPT !.pc = "lost"].session = run[p].session
    BY <2>1 DEF TypeOK, Runs, Idle, Done
  <2> QED BY <2>1 DEF Crash
<1>4. CallInv'
  BY <1>1, <1>2 DEF Parts, CallInv, rowVars, rowData
<1>5. TimerInv'
  BY <1>1, <1>2, <1>3 DEF Parts, TimerInv, Idle, rowVars, rowData
<1>6. RunInv' /\ AnswerInv'
  BY <1>1, <1>3 DEF Parts, RunInv, AnswerInv, rowVars, rowData
<1>7. NameInv'
  <2>1. \A e \in registry : e[3] \in Take
    BY DEF TypeOK
  <2> QED BY <1>1, <1>2, <2>1 DEF Parts, NameInv, Timers
<1>8. OneLive' /\ ScoreWithinHundred'
  BY <1>1, <1>2 DEF Parts, OneLive, Live, Rows, ScoreWithinHundred, rowVars, rowData
<1>9. TimerCoverage'
  BY <1>1, <1>2, <1>3 DEF Parts, TimerCoverage, rowVars, rowData
<1> QED BY <1>4, <1>5, <1>6, <1>7, <1>8, <1>9 DEF Parts

-----------------------------------------------------------------------------
(* The inductive invariant, and what follows from it. *)

LEMMA InvInit == Init => IInv
<1> SUFFICES ASSUME Init PROVE IInv
  OBVIOUS
<1>1. TypeOK
  BY TypeInit
<1>2. PICK sv \in Server :
        take = [t \in Take |-> [pc |-> "new", server |-> sv, minutes |-> 0, session |-> t]]
  BY DEF Init
<1>3. /\ \A t \in Take : take[t].pc = "new" /\ take[t].session = t
      /\ \A p \in Run : run[p] = Idle
      /\ \A a \in Answer : ans[a] = Idle
      /\ Idle.pc = "idle"
  BY <1>2 DEF Init, Idle
<1>4. CallInv
  <2>1. \A d \in Durations : d \in Int /\ d <= MaxNow
    BY DurationsAreMinutes
  <2> QED BY <1>3, <2>1 DEF Init, CallInv
<1>5. TimerInv /\ RunInv /\ NameInv /\ AnswerInv
  BY <1>3 DEF Init, TimerInv, RunInv, NameInv, AnswerInv, Timers, Run
<1>6. OneLive /\ TimerCoverage /\ ScoreWithinHundred
  BY <1>3 DEF Init, OneLive, Live, Rows, TimerCoverage, ScoreWithinHundred
<1> QED BY <1>1, <1>4, <1>5, <1>6 DEF IInv

LEMMA InvNext == IInv /\ [Next]_vars => IInv'
<1> SUFFICES ASSUME IInv, [Next]_vars PROVE IInv'
  OBVIOUS
<1>1. TypeOK /\ Parts
  BY DEF IInv, Parts
<1>2. TypeOK'
  BY <1>1, TypeNext DEF Parts
<1>3. ASSUME UNCHANGED vars PROVE Parts'
  <2>1. UNCHANGED <<now, rowData, take, timeVars, run, ans, raced>>
    BY <1>3 DEF vars, rowVars, rowData
  <2>2. CallInv' /\ TimerInv' /\ RunInv' /\ NameInv' /\ AnswerInv'
    BY <1>1, <2>1 DEF Parts, CallInv, TimerInv, RunInv, NameInv, AnswerInv, Timers, Deadline,
                      rowVars, rowData, timeVars
  <2>3. OneLive' /\ TimerCoverage' /\ ScoreWithinHundred'
    BY <1>1, <2>1 DEF Parts, OneLive, Live, Rows, TimerCoverage, ScoreWithinHundred,
                      rowVars, rowData, timeVars
  <2> QED BY <2>2, <2>3 DEF Parts
<1>4. ASSUME Next PROVE Parts'
  <2>1. CASE \E t \in Take : \/ \E sv \in Server : ReadQuiz(t, sv)
                             \/ Serve(t) \/ FireTimer(t) \/ ResetQuizEnrolled(t)
                             \/ \E p \in Submit, sv \in Server : RequestSubmit(p, t, sv)
    BY <1>1, <2>1, ReadQuizKeeps, ServeKeeps, FireTimerKeeps, ResetKeeps, RequestSubmitKeeps
  <2>2. CASE \E p \in Run : Grade(p)
    BY <1>1, <2>2, SubmitScoreKeeps, SubmitWriteKeeps DEF Grade
  <2>3. CASE \/ \E a \in Answer : UpdateAnswer(a) \/ UpdateAnswers(a) \/ WriteAnswer(a)
             \/ \E sv \in Server : Crash(sv)
             \/ UpdateQuiz \/ Tick
    BY <1>1, <2>3, AnswerKeeps, CrashKeeps, UpdateQuizKeeps, TickKeeps
  <2> QED BY <1>4, <2>1, <2>2, <2>3 DEF Next
<1> QED BY <1>2, <1>3, <1>4 DEF IInv, Parts

LEMMA InvHolds == Spec => []IInv
  BY InvInit, InvNext, PTL DEF Spec

\* Every variable of takeQuiz, its timers and submitQuiz keeps its type: among them, what
\* an answer earns stays within what the quiz has, and a deadline within the clock's reach.
THEOREM QuizSessionTyped == Spec => []TypeOK
  BY InvHolds, PTL DEF IInv

\* An open session is never forgotten by the timers of takeQuiz but through a dying
\* server or a score that the database refuses, however resumes and submissions overlap.
THEOREM OpenSessionsAreCovered == Spec => []TimerCoverage
  BY InvHolds, PTL DEF IInv

\* A name in a server's SchedulerRegistry leads to one timer, of that server and session,
\* so that addTimeout never meets a name that is taken.
THEOREM RegistriesAreSound == Spec => []RegistrySound
<1>1. IInv => RegistrySound
  <2> SUFFICES ASSUME IInv PROVE RegistrySound
    OBVIOUS
  <2>1. ASSUME NEW sv \in Server, NEW s \in Take PROVE Cardinality(Timers(sv, s)) <= 1
    <3>1. CASE Timers(sv, s) = {}
      BY <3>1, FS_EmptySet
    <3>2. ASSUME NEW t \in Timers(sv, s) PROVE Cardinality(Timers(sv, s)) <= 1
      <4>1. Timers(sv, s) = {t}
        BY <3>2 DEF IInv, NameInv
      <4> QED BY <4>1, FS_Singleton
    <3> QED BY <3>1, <3>2
  <2> QED BY <2>1 DEF IInv, NameInv, RegistrySound
<1> QED BY <1>1, InvHolds, PTL

\* The score that submitQuiz writes is a percentage, unless updateAnswers has stored an
\* answer that it refused.
THEOREM ScoresArePercentages == Spec => []ScoreWithinHundred
  BY InvHolds, PTL DEF IInv

\* A finished quiz shows the session that was submitted (findAllQuiz, getResultQuiz),
\* unless calls of takeQuiz raced.
THEOREM ResultsAreShown == Spec => []ResultIsShown
<1>1. IInv => ResultIsShown
  BY DEF IInv, OneLive, Live, Rows, ResultIsShown, Finished, Ongoing, ListedSession,
         ResultSession
<1> QED BY <1>1, InvHolds, PTL

-----------------------------------------------------------------------------
(* Scores and answers: what crosses a submission is remembered, and what does not finds *)
(* the answers as the submission has read them.                                         *)

Reads(p, s)  == run[p].pc \in {"read", "scored"} /\ run[p].session = s
Writes(a, s) == ans[a].pc = "read" /\ ans[a].session = s

\* A submission earns what its session's answers do; an answer that is under way with a
\* submission, or after the end, has crossed one.
MatchInv ==
  /\ ScoreMatchesAnswers
  /\ \A s \in Take \ crossed, p \in Run : Reads(p, s) => run[p].hits = Cardinality(answers[s])
  /\ \A s \in Take \ crossed, a \in Answer : Writes(a, s) =>
       sess[s] # "ended" /\ \A p \in Run : ~Reads(p, s)

LEMMA MatchInit == Init => MatchInv
<1> SUFFICES ASSUME Init PROVE MatchInv
  OBVIOUS
<1>1. /\ \A p \in Run : run[p].pc = "idle"
      /\ \A a \in Answer : ans[a].pc = "idle"
      /\ \A s \in Take : sess[s] = "none"
  BY DEF Init, Idle
<1> QED BY <1>1 DEF MatchInv, ScoreMatchesAnswers, Reads, Writes

\* Steps that leave answers, scores and runs in peace, and end no session.
LEMMA QuietMatch ==
  ASSUME MatchInv, UNCHANGED <<answers, crossed, score, ans>>,
         \A s \in Take : sess'[s] = "ended" => sess[s] = "ended",
         \A s \in Take, p \in Run : Reads(p, s)' => Reads(p, s) /\ run'[p].hits = run[p].hits
  PROVE  MatchInv'
<1>1. ScoreMatchesAnswers'
  BY DEF MatchInv, ScoreMatchesAnswers
<1>2. \A s \in Take, a \in Answer : Writes(a, s)' <=> Writes(a, s)
  BY DEF Writes
<1> QED BY <1>1, <1>2 DEF MatchInv

LEMMA TakeMatch ==
  ASSUME IInv, MatchInv, NEW t \in Take, (\E sv \in Server : ReadQuiz(t, sv)) \/ Serve(t)
  PROVE  MatchInv'
<1>1. UNCHANGED <<answers, crossed, score, run, ans>>
  BY DEF ReadQuiz, Serve, ReadSession, FindSession, CreateSession, ArmNew, Resume, Arm, ArmAt,
         rowVars
<1>2. \A s \in Take : sess'[s] = "ended" => sess[s] = "ended"
  BY DEF ReadQuiz, Serve, ReadSession, FindSession, CreateSession, ArmNew, Resume, Arm, ArmAt,
         rowVars, IInv, TypeOK
<1> QED BY <1>1, <1>2, QuietMatch DEF Reads

LEMMA AcceptMatch ==
  ASSUME IInv, MatchInv, NEW a \in Answer, NEW q, NEW hits, NEW refused,
         Accept(a, q, hits, refused)
  PROVE  MatchInv'
<1>1. PICK s \in Take : sess[s] = "open" /\ AcceptFor(s, a, q, hits, refused)
  BY DEF Accept
<1>2. /\ ans'[a].pc = "read" /\ ans'[a].session = s
      /\ \A b \in Answer \ {a} : ans'[b] = ans[b]
      /\ UNCHANGED <<sess, answers, score, run>>
      /\ crossed \subseteq crossed' /\ (Submitting(s) => s \in crossed')
  BY <1>1 DEF AcceptFor, IInv, TypeOK
<1>3. ScoreMatchesAnswers'
  BY <1>2 DEF MatchInv, ScoreMatchesAnswers
<1>4. \A x \in Take, p \in Run : Reads(p, x)' <=> Reads(p, x)
  BY <1>2 DEF Reads
<1>5. ASSUME NEW x \in Take \ crossed', NEW b \in Answer, Writes(b, x)'
      PROVE  sess[x] # "ended" /\ \A p \in Run : ~Reads(p, x)
  <2>1. CASE b = a
    <3>1. x = s
      BY <1>2, <1>5, <2>1 DEF Writes
    <3> QED BY <1>1, <1>2, <1>5, <3>1 DEF Submitting, Reads
  <2>2. CASE b # a
    BY <1>2, <1>5, <2>2 DEF Writes, MatchInv
  <2> QED BY <2>1, <2>2
<1> QED BY <1>2, <1>3, <1>4, <1>5 DEF MatchInv

\* What an answer writes to is not being submitted, and has not ended, unless it crossed.
LEMMA WriteMatch ==
  ASSUME IInv, MatchInv, NEW a \in Answer, WriteAnswer(a)
  PROVE  MatchInv'
<1> DEFINE s == ans[a].session
<1>1. /\ s \in Take /\ ans[a].pc = "read" /\ Writes(a, s)
      /\ ans'[a].pc = "done" /\ \A b \in Answer \ {a} : ans'[b] = ans[b]
      /\ \A x \in Take \ {s} : answers'[x] = answers[x]
      /\ UNCHANGED <<sess, crossed, score, run>>
  BY DEF WriteAnswer, IInv, TypeOK, Answered, Idle, Done, Writes
<1>2. s \notin crossed => sess[s] # "ended" /\ \A p \in Run : ~Reads(p, s)
  BY <1>1 DEF MatchInv
<1>3. ScoreMatchesAnswers'
  BY <1>1, <1>2 DEF MatchInv, ScoreMatchesAnswers
<1>4. /\ \A x \in Take, p \in Run : Reads(p, x)' <=> Reads(p, x)
      /\ \A x \in Take, b \in Answer : Writes(b, x)' => Writes(b, x)
  BY <1>1 DEF Reads, Writes
<1> QED BY <1>1, <1>2, <1>3, <1>4 DEF MatchInv

\* A submission reads the answers as they are, and notes those that are under way.
LEMMA ReadMatch ==
  ASSUME IInv, MatchInv, NEW p \in Run, NEW s \in Take, NEW sv \in Server, SubmitRead(p, s, sv)
  PROVE  MatchInv'
<1>1. /\ \A r \in Run \ {p} : run'[r] = run[r]
      /\ crossed \subseteq crossed'
      /\ UNCHANGED <<sess, answers, score, ans>>
      /\ \/ /\ run'[p].pc = "read" /\ run'[p].session = s
            /\ run'[p].hits = Cardinality(answers[s])
            /\ sess[s] = "open" /\ (Answering(s) => s \in crossed')
         \/ run'[p].pc = "done"
  BY DEF SubmitRead, IInv, TypeOK, Done
<1>2. ScoreMatchesAnswers'
  BY <1>1 DEF MatchInv, ScoreMatchesAnswers
<1>3. ASSUME NEW x \in Take \ crossed', NEW r \in Run, Reads(r, x)'
      PROVE  /\ run'[r].hits = Cardinality(answers[x])
             /\ \A a \in Answer : ~Writes(a, x)
  <2>1. CASE r = p
    BY <1>1, <1>3, <2>1 DEF Reads, Writes, Answering
  <2>2. CASE r # p
    BY <1>1, <1>3, <2>2 DEF Reads, MatchInv
  <2> QED BY <2>1, <2>2
<1>4. \A x \in Take, a \in Answer : Writes(a, x)' <=> Writes(a, x)
  BY <1>1 DEF Writes
<1> QED BY <1>1, <1>2, <1>3, <1>4 DEF MatchInv

LEMMA GradeMatch ==
  ASSUME IInv, MatchInv, NEW p \in Run, Grade(p)
  PROVE  MatchInv'
<1> DEFINE s == run[p].session
<1>1. CASE SubmitScore(p)
  <2>1. /\ UNCHANGED <<sess, answers, crossed, score, ans>>
        /\ run[p].pc = "read" /\ run' = [run EXCEPT ![p].pc = "scored"]
    BY <1>1 DEF SubmitScore, rowVars
  <2>2. run'[p].session = s /\ run'[p].hits = run[p].hits /\ \A r \in Run \ {p} : run'[r] = run[r]
    BY <2>1 DEF IInv, TypeOK, Runs, Idle, Done
  <2>3. \A x \in Take, r \in Run : Reads(r, x)' => Reads(r, x) /\ run'[r].hits = run[r].hits
    BY <2>1, <2>2 DEF Reads
  <2> QED BY <2>1, <2>3, QuietMatch
<1>2. CASE SubmitWrite(p)
  <2>1. /\ run[p].pc = "scored" /\ s \in Take /\ Reads(p, s)
        /\ \A r \in Run \ {p} : run'[r] = run[r]
        /\ run'[p].pc \in {"done", "failed"}
        /\ UNCHANGED <<answers, crossed, ans>>
    BY <1>2 DEF SubmitWrite, IInv, TypeOK, Runs, Idle, Done, Reads
  <2>2. \/ UNCHANGED <<sess, score>>
        \/ /\ sess'[s] = "ended" /\ score'[s] = (100 * run[p].hits) \div Total
           /\ \A x \in Take \ {s} : sess'[x] = sess[x] /\ score'[x] = score[x]
    BY <1>2, <2>1 DEF SubmitWrite, IInv, TypeOK
  <2>3. s \notin crossed => /\ run[p].hits = Cardinality(answers[s])
                            /\ \A a \in Answer : ~Writes(a, s)
    BY <2>1 DEF MatchInv
  <2>4. ScoreMatchesAnswers'
    BY <2>1, <2>2, <2>3 DEF MatchInv, ScoreMatchesAnswers
  <2>5. /\ \A x \in Take, r \in Run : Reads(r, x)' => Reads(r, x) /\ run'[r].hits = run[r].hits
        /\ \A x \in Take, a \in Answer : Writes(a, x)' <=> Writes(a, x)
    BY <2>1 DEF Reads, Writes
  <2> QED BY <2>1, <2>2, <2>3, <2>4, <2>5 DEF MatchInv
<1> QED BY <1>1, <1>2 DEF Grade

LEMMA WorldMatch ==
  ASSUME IInv, MatchInv,
         \/ \E s \in Take : ResetQuizEnrolled(s)
         \/ UpdateQuiz \/ Tick \/ (\E sv \in Server : Crash(sv)) \/ UNCHANGED vars
  PROVE  MatchInv'
<1>1. /\ UNCHANGED <<answers, crossed, score, ans>>
      /\ \A s \in Take : sess'[s] = "ended" => sess[s] = "ended"
  BY DEF ResetQuizEnrolled, UpdateQuiz, Tick, Crash, IInv, TypeOK, vars, rowVars
<1>2. \A r \in Run : run'[r] = run[r] \/ run'[r].pc = "lost"
  <2>1. ASSUME NEW r \in Run, run[r].pc \in {"read", "scored"}
        PROVE  [run[r] EXCEPT !.pc = "lost"].pc = "lost"
    BY <2>1 DEF IInv, TypeOK, Runs, Idle, Done
  <2> QED BY <2>1 DEF ResetQuizEnrolled, UpdateQuiz, Tick, Crash, vars
<1> QED BY <1>1, <1>2, QuietMatch DEF Reads

LEMMA MatchNext == IInv /\ MatchInv /\ [Next]_vars => MatchInv'
<1> SUFFICES ASSUME IInv, MatchInv, [Next]_vars PROVE MatchInv'
  OBVIOUS
<1>1. ASSUME NEW t \in Take, FireTimer(t) PROVE MatchInv'
  <2>1. t \in Run /\ take[t].session \in Take /\ take[t].server \in Server
    BY DEF IInv, TypeOK, Takes, Run
  <2> QED BY <1>1, <2>1, ReadMatch DEF FireTimer
<1>2. ASSUME NEW t \in Take, NEW p \in Submit, NEW sv \in Server, RequestSubmit(p, t, sv)
      PROVE  MatchInv'
  BY <1>2, ReadMatch DEF RequestSubmit, Run
<1>3. ASSUME NEW a \in Answer, UpdateAnswer(a) \/ UpdateAnswers(a) PROVE MatchInv'
  BY <1>3, AcceptMatch DEF UpdateAnswer, UpdateAnswers
<1> QED BY <1>1, <1>2, <1>3, TakeMatch, WriteMatch, GradeMatch, WorldMatch DEF Next

\* The score that submitQuiz writes is that of the answers the session is left with,
\* however submissions, timers and answers follow one another, unless an answer and a
\* submission were under way at once.
THEOREM ScoresMatchAnswers == Spec => []ScoreMatchesAnswers
<1>1. MatchInv => ScoreMatchesAnswers
  BY DEF MatchInv
<1> QED BY <1>1, InvHolds, MatchInit, MatchNext, PTL DEF Spec
=============================================================================
