----------------------------- MODULE QuizSession -----------------------------
(***************************************************************************)
(* One student and one quiz: taking it, resuming it, answering, submitting *)
(* (courses/quiz/quiz.service.ts), the timers that submit it when its time *)
(* is up, and what administrators do to it meanwhile                       *)
(* (quizzes/quizzes.service.ts).                                           *)
(*                                                                         *)
(* pm2 runs several server processes over one database.  Timers and the    *)
(* registry that names them live in the process that served the request,   *)
(* and die with it.  A call of takeQuiz creates at most one session and    *)
(* one submit timer, which are named after the call.  The reminder timers, *)
(* which touch nothing but notifications, are left out.                    *)
(***************************************************************************)
EXTENDS Integers, FiniteSets

CONSTANTS
  Take,          \* calls of takeQuiz
  Submit,        \* calls of submitQuiz by the student
  Answer,        \* answers sent through updateAnswer or updateAnswers
  Server,        \* server processes
  Question,      \* questions of the generated quiz
  SingleChoice,  \* those of type single_choice
  Durations,     \* values quiz.duration is given
  MaxDelay,      \* the longest delay of a timer: 2^31 - 1 ms, about 24 days
  MaxNow,        \* bound: the clock stops here
  MaxCrashes     \* bound: how often a server process is restarted

ASSUME ProcessesAreDistinct == Take \cap Submit = {}
ASSUME QuestionsExist == IsFiniteSet(Question) /\ Question # {} /\ SingleChoice \subseteq Question
ASSUME TimesAreBounded ==
  MaxNow \in Nat /\ MaxDelay \in Nat /\ Durations \subseteq 1 .. MaxNow /\ Durations # {}
ASSUME CrashBound == MaxCrashes \in Nat

VARIABLES
  now,         \* the clock
  quizOpen,    \* quiz is active, not ended, between its dates
  duration,    \* quiz.duration
  sess,        \* QuizSession rows: "none", "open", "ended" or "deleted"
  createdAt,   \* their created_at
  answers,     \* what their answers earn: questions, counted by right letters
  overfull,    \* history: sessions where updateAnswers stored what it refused
  crossed,     \* history: sessions with an answer and a submission under way at once
  score,       \* their score
  take,        \* where each takeQuiz call is, and what it has read
  timer,       \* the submit timer each takeQuiz call made
  due,         \* when that timer fires
  registry,    \* SchedulerRegistry: server, session and the timer so named
  run,         \* each run of submitQuiz: by the student, or by a take's timer
  ans,         \* each answer on its way to the database
  crashes,
  raced        \* history: a call found no session while another was making one

quizVars == <<quizOpen, duration>>
rowVars  == <<sess, createdAt, answers, overfull, crossed, score>>
timeVars == <<timer, due, registry>>
vars == <<now, quizVars, rowVars, take, timeVars, run, ans, crashes, raced>>

Run == Take \cup Submit
Total == Cardinality(Question)
Ungraded == -1
Deadline(s, minutes) == createdAt[s] + minutes
Idle == [pc |-> "idle"]
Done == [pc |-> "done"]
Timers(sv, s) == {t \in Take : <<sv, s, t>> \in registry}

TakePC == {"new", "quiz", "resume", "generate", "arm", "done", "lost"}

Init ==
  /\ now = 0 /\ quizOpen = TRUE /\ duration \in Durations
  /\ sess = [s \in Take |-> "none"] /\ createdAt = [s \in Take |-> 0]
  /\ answers = [s \in Take |-> {}] /\ overfull = {} /\ crossed = {}
  /\ score = [s \in Take |-> Ungraded]
  /\ \E sv \in Server :
       take = [t \in Take |-> [pc |-> "new", server |-> sv, minutes |-> 0,
                               session |-> t]]
  /\ run = [p \in Run |-> Idle]
  /\ timer = [t \in Take |-> "none"] /\ due = [t \in Take |-> 0]
  /\ registry = {}
  /\ ans = [a \in Answer |-> Idle]
  /\ crashes = 0 /\ raced = FALSE

-----------------------------------------------------------------------------
(* takeQuiz *)

\* The quiz is read, and refused unless it is open.
ReadQuiz(t, sv) ==
  /\ take[t].pc = "new" /\ quizOpen
  /\ take' = [take EXCEPT ![t] = [@ EXCEPT !.pc = "quiz", !.server = sv,
                                           !.minutes = duration]]
  /\ UNCHANGED <<now, quizVars, rowVars, timeVars, run, ans, crashes, raced>>

\* checkSession: any session of the student, or none.  A finished one ends the
\* call: 'Quiz telah selesai, tidak bisa diulang'.
FindSession(t, rows) ==
  LET Go(pc, s) == take' = [take EXCEPT ![t].pc = pc, ![t].session = s] IN
  /\ take[t].pc = "quiz"
  /\ \/ /\ rows = {} /\ Go("generate", t)
        /\ raced' = (raced \/ \E x \in Take : take[x].pc = "generate")
     \/ /\ \E s \in rows : Go(IF sess[s] = "open" THEN "resume" ELSE "done", s)
        /\ UNCHANGED raced
  /\ UNCHANGED <<now, quizVars, rowVars, timeVars, run, ans, crashes>>

\* Mutant: a finished session is not found.
ReadSession_OpenOnly(t) == FindSession(t, {s \in Take : sess[s] = "open"})

Rows == {s \in Take : sess[s] \in {"open", "ended"}}

ReadSession(t) == FindSession(t, Rows)

\* generateQuiz and quizSession.create; generating fails on an empty quiz.
CreateSession(t) ==
  /\ take[t].pc = "generate"
  /\ \A d \in Durations : now + d <= MaxNow    \* bound: every deadline is in sight
  /\ \/ /\ sess' = [sess EXCEPT ![t] = "open"]
        /\ createdAt' = [createdAt EXCEPT ![t] = now]
        /\ take' = [take EXCEPT ![t].pc = "arm"]
     \/ /\ take' = [take EXCEPT ![t].pc = "done"]
        /\ UNCHANGED <<sess, createdAt>>
  /\ UNCHANGED <<now, quizVars, answers, overfull, crossed, score, timeVars, run, ans, crashes,
                 raced>>

\* setTimeout, and addTimeout if the registry of this process does not have the
\* session's name; if it has, the new timer runs all the same, without a name.
ArmAt(t, at, nameless) ==
  LET s  == take[t].session
      sv == take[t].server IN
  /\ timer' = [timer EXCEPT ![t] = "pending"]
  /\ due' = [due EXCEPT ![t] = at]
  /\ registry' = IF nameless THEN registry ELSE registry \cup {<<sv, s, t>>}
  /\ take' = [take EXCEPT ![t].pc = "done"]
  /\ UNCHANGED <<now, quizVars, rowVars, run, ans, crashes, raced>>

HasName(t) == Timers(take[t].server, take[t].session) # {}

\* A delay that setTimeout cannot hold is replaced by the shortest.
FiresAt(t) ==
  LET at == Deadline(take[t].session, take[t].minutes) IN
  IF at - now > MaxDelay THEN now ELSE at

\* Mutant: the registry is not asked for the name first.
Arm_NoLookup(t) == ArmAt(t, FiresAt(t), FALSE)

Arm(t) == ArmAt(t, FiresAt(t), HasName(t))

ArmNew(t) == take[t].pc = "arm" /\ Arm(t)

\* A resumed session is refused once its time is over.
Resume(t) ==
  /\ take[t].pc = "resume"
  /\ IF now > Deadline(take[t].session, take[t].minutes)
     THEN /\ take' = [take EXCEPT ![t].pc = "done"]
          /\ UNCHANGED <<now, quizVars, rowVars, timeVars, run, ans, crashes, raced>>
     ELSE Arm(t)

-----------------------------------------------------------------------------
(* updateAnswer and updateAnswers: one process per question answered.      *)

Submitting(s) == \E p \in Run : run[p].pc \in {"read", "scored"} /\ run[p].session = s
Answering(s)  == \E a \in Answer : ans[a].pc = "read" /\ ans[a].session = s

AcceptFor(s, a, q, hits, refused) ==
  /\ ans[a].pc = "idle" /\ now <= Deadline(s, duration)
  /\ ans' = [ans EXCEPT ![a] = [pc |-> "read", session |-> s, question |-> q,
                                hits |-> hits, refused |-> refused]]
  /\ crossed' = IF Submitting(s) THEN crossed \cup {s} ELSE crossed
  /\ UNCHANGED <<now, quizVars, sess, createdAt, answers, overfull, score, take, timeVars,
                 run, crashes, raced>>

\* Mutant: an answer may be for a session that has ended.
Accept_Ended(a, q, hits, refused) ==
  \E s \in Take : sess[s] \in {"open", "ended"} /\ AcceptFor(s, a, q, hits, refused)

\* An answer is for a session that is open and in time, as read with its quiz.
Accept(a, q, hits, refused) ==
  \E s \in Take : sess[s] = "open" /\ AcceptFor(s, a, q, hits, refused)

\* Scoring a single choice adds its weight for every right letter of the answer
\* (bound: an answer has two letters at most).
Hits(q) == IF q \in SingleChoice THEN 0 .. 2 ELSE 0 .. 1

\* Mutant: the letters of a single choice are not counted.
UpdateAnswer_AnyLetters(a) ==
  \E q \in Question : \E hits \in Hits(q) : Accept(a, q, hits, FALSE)

\* updateAnswer insists on one letter for a single choice.
UpdateAnswer(a) == \E q \in Question, hits \in 0 .. 1 : Accept(a, q, hits, FALSE)

\* updateAnswers refuses a single choice of several letters, and stores it.
UpdateAnswers(a) ==
  \E q \in Question : \E hits \in Hits(q) : Accept(a, q, hits, hits > 1)

\* The write looks at neither; it fails only if the session has been deleted.
WriteAnswer(a) ==
  LET s == ans[a].session IN
  /\ ans[a].pc = "read"
  /\ IF sess[s] = "deleted" THEN UNCHANGED <<answers, overfull>>
     ELSE /\ answers' = [answers EXCEPT ![s] = {e \in @ : e[1] # ans[a].question}
                               \cup ({ans[a].question} \X (1 .. ans[a].hits))]
          /\ overfull' = IF ans[a].refused THEN overfull \cup {s} ELSE overfull
  /\ ans' = [ans EXCEPT ![a] = Done]
  /\ UNCHANGED <<now, quizVars, sess, createdAt, crossed, score, take, timeVars, run,
                 crashes, raced>>

-----------------------------------------------------------------------------
(* submitQuiz *)

\* The session is read with its answers and refused unless it is open.
SubmitRead(p, s, sv) ==
  /\ run' = [run EXCEPT ![p] =
               IF sess[s] = "open"
               THEN [pc |-> "read", session |-> s, server |-> sv,
                     hits |-> Cardinality(answers[s])]
               ELSE Done]
  /\ crossed' = IF sess[s] = "open" /\ Answering(s) THEN crossed \cup {s} ELSE crossed
  /\ UNCHANGED <<now, quizVars, sess, createdAt, answers, overfull, score, take, due, registry,
                 ans, crashes, raced>>

RequestSubmit(p, s, sv) ==
  /\ run[p] = Idle /\ sess[s] = "open"
  /\ SubmitRead(p, s, sv)
  /\ UNCHANGED timer

\* Mutant: the timer's submission is refused because time is up, like an answer.
FireTimer_RefusedLate(t) ==
  /\ timer[t] = "pending" /\ now >= due[t]
  /\ timer' = [timer EXCEPT ![t] = "fired"]
  /\ IF now >= Deadline(take[t].session, duration)
     THEN /\ run' = [run EXCEPT ![t] = Done]
          /\ UNCHANGED <<now, quizVars, rowVars, take, due, registry, ans, crashes, raced>>
     ELSE SubmitRead(t, take[t].session, take[t].server)

\* A timer fires at its time or late, keeps its name in the registry, and calls
\* submitQuiz; a refusal is a rejection nobody awaits.
FireTimer(t) ==
  /\ timer[t] = "pending" /\ now >= due[t]
  /\ timer' = [timer EXCEPT ![t] = "fired"]
  /\ SubmitRead(t, take[t].session, take[t].server)

\* The answers are scored and the timer that has the session's name in this
\* process is cleared: no other timer, and before anything is written.
SubmitScore(p) ==
  LET named == Timers(run[p].server, run[p].session) IN
  /\ run[p].pc = "read"
  /\ timer' = [t \in Take |-> IF t \in named /\ timer[t] = "pending"
                              THEN "cleared" ELSE timer[t]]
  /\ registry' = {e \in registry : ~(e[1] = run[p].server /\ e[2] = run[p].session)}
  /\ run' = [run EXCEPT ![p].pc = "scored"]
  /\ UNCHANGED <<now, quizVars, rowVars, take, due, ans, crashes, raced>>

\* The score column holds whole numbers.  100 / Total is added once for every hit, and
\* where it is no whole number itself a sum that should be one may miss it.
Whole(hits)   == 100 * hits % Total = 0
Exact(hits)   == 100 % Total = 0 \/ hits = 0

\* quizSession.update fails for such a score, and for a deleted session.  is_ended is
\* not looked at.
SubmitWrite(p) ==
  LET s == run[p].session
      hits == run[p].hits IN
  /\ run[p].pc = "scored"
  /\ \/ /\ sess[s] # "deleted" /\ Whole(hits)
        /\ sess' = [sess EXCEPT ![s] = "ended"]
        /\ score' = [score EXCEPT ![s] = (100 * hits) \div Total]
        /\ run' = [run EXCEPT ![p] = Done]
     \/ /\ sess[s] = "deleted" \/ ~Exact(hits)
        /\ run' = [run EXCEPT ![p].pc = "failed"]
        /\ UNCHANGED <<sess, score>>
  /\ UNCHANGED <<now, quizVars, createdAt, answers, overfull, crossed, take, timeVars, ans,
                 crashes, raced>>

-----------------------------------------------------------------------------
(* The administrator, the clock and the servers *)

ResetQuizEnrolled(s) ==
  /\ sess[s] \in {"open", "ended"}
  /\ sess' = [sess EXCEPT ![s] = "deleted"]
  /\ UNCHANGED <<now, quizVars, createdAt, answers, overfull, crossed, score, take, timeVars,
                 run, ans, crashes, raced>>

UpdateQuiz ==
  /\ quizOpen' \in BOOLEAN /\ duration' \in Durations
  /\ UNCHANGED <<now, rowVars, take, timeVars, run, ans, crashes, raced>>

Tick ==
  /\ now < MaxNow
  /\ now' = now + 1
  /\ UNCHANGED <<quizVars, rowVars, take, timeVars, run, ans, crashes, raced>>

\* A server process is restarted: its timers, its registry and what it was
\* serving are gone, and nothing re-creates them (handleTimeout is commented out).
Crash(sv) ==
  /\ crashes < MaxCrashes
  /\ crashes' = crashes + 1
  /\ timer' = [t \in Take |-> IF take[t].server = sv /\ timer[t] = "pending"
                              THEN "lost" ELSE timer[t]]
  /\ registry' = {e \in registry : e[1] # sv}
  /\ take' = [t \in Take |->
                IF take[t].server = sv /\ take[t].pc \notin {"new", "done"}
                THEN [take[t] EXCEPT !.pc = "lost"] ELSE take[t]]
  /\ run' = [p \in Run |->
               IF run[p].pc \in {"read", "scored"} /\ run[p].server = sv
               THEN [run[p] EXCEPT !.pc = "lost"] ELSE run[p]]
  /\ UNCHANGED <<now, quizVars, rowVars, due, ans, raced>>

-----------------------------------------------------------------------------
(* What the student is shown: findAllQuiz, getResultQuiz *)

\* The quiz is listed as ongoing: it is open, and so is a session of the student.
Ongoing == quizOpen /\ \E s \in Take : sess[s] = "open"

\* The quiz is listed as finished.
Finished == \E s \in Take : sess[s] = "ended"

\* The session whose score, and whether it is submitted, the list gives with the
\* quiz; and the one getResultQuiz answers with: any of the student's.
ListedSession == Rows
ResultSession == Rows

-----------------------------------------------------------------------------
Serve(t) == ReadSession(t) \/ CreateSession(t) \/ ArmNew(t) \/ Resume(t)

Grade(p) == SubmitScore(p) \/ SubmitWrite(p)

Next ==
  \/ \E t \in Take :
       \/ \E sv \in Server : ReadQuiz(t, sv)
       \/ Serve(t) \/ FireTimer(t) \/ ResetQuizEnrolled(t)
       \/ \E p \in Submit, sv \in Server : RequestSubmit(p, t, sv)
  \/ \E p \in Run : Grade(p)
  \/ \E a \in Answer : UpdateAnswer(a) \/ UpdateAnswers(a) \/ WriteAnswer(a)
  \/ \E sv \in Server : Crash(sv)
  \/ UpdateQuiz
  \/ Tick

Spec == Init /\ [][Next]_vars

\* Time goes on, timers fire, and what a server has begun it finishes.
Fairness ==
  /\ WF_vars(Tick)
  /\ \A t \in Take : WF_vars(Serve(t)) /\ WF_vars(FireTimer(t))
  /\ \A p \in Run : WF_vars(Grade(p))

FairSpec == Spec /\ Fairness

-----------------------------------------------------------------------------
(* Properties *)

Takes == [pc : TakePC, server : Server, minutes : Durations \cup {0}, session : Take]
Runs == {Idle, Done} \cup
        [pc : {"read", "scored", "failed", "lost"}, server : Server,
         session : Take, hits : 0 .. 2 * Total]
Answered == {Idle, Done} \cup
            [pc : {"read"}, session : Take, question : Question,
             hits : 0 .. 2, refused : BOOLEAN]

\* Every variable keeps its type; a timer and a session belong to the call that
\* made them.
TypeOK ==
  /\ now \in 0 .. MaxNow /\ quizOpen \in BOOLEAN /\ duration \in Durations
  /\ sess \in [Take -> {"none", "open", "ended", "deleted"}]
  /\ createdAt \in [Take -> 0 .. MaxNow]
  /\ answers \in [Take -> SUBSET (Question \X (1 .. 2))] /\ overfull \subseteq Take
  /\ crossed \subseteq Take
  /\ score \in [Take -> Int]
  /\ take \in [Take -> Takes]
  /\ timer \in [Take -> {"none", "pending", "fired", "cleared", "lost"}]
  /\ due \in [Take -> 0 .. MaxNow]
  /\ registry \subseteq Server \X Take \X Take
  /\ run \in [Run -> Runs] /\ ans \in [Answer -> Answered]
  /\ crashes \in 0 .. MaxCrashes /\ raced \in BOOLEAN

\* What keeps an open session from being forgotten: a timer is pending for it or
\* a submission is under way, or the takeQuiz that made it is about to arm one.
\* Only the death of a server, or a score the database refuses, leaves an open
\* session with none of these, however often it was resumed on however many
\* servers and though submitQuiz clears a timer before it writes.
TimerCoverage ==
  \A s \in Take : sess[s] = "open" =>
    \/ take[s].pc \in {"arm", "lost"}
    \/ \E t \in Take : take[t].session = s /\ timer[t] \in {"pending", "lost"}
    \/ \E p \in Run : /\ run[p].pc \in {"read", "scored", "failed", "lost"}
                      /\ run[p].session = s

\* A server has at most one timer under a session's name, so addTimeout never
\* throws; the name leads to a timer of that server and that session.
RegistrySound ==
  /\ \A e \in registry :
       /\ take[e[3]].server = e[1] /\ take[e[3]].session = e[2]
       /\ timer[e[3]] \in {"pending", "fired"}
  /\ \A sv \in Server, s \in Take : Cardinality(Timers(sv, s)) <= 1

\* The score of a session is a percentage, whoever submits it and whatever is
\* answered meanwhile.  Only updateAnswers can take it further, when it has stored an
\* answer that it refused: each of its letters scores.
ScoreWithinHundred ==
  \A s \in Take : sess[s] = "ended" /\ score[s] \notin 0 .. 100 => s \in overfull

\* The score of a session that has ended is that of the answers stored with it, though
\* answers, the student's submission and the timers' read the session and write later,
\* unless an answer and a submission of it were once under way together: two
\* submissions, one after the other or at once, never disagree.
ScoreMatchesAnswers ==
  \A s \in Take : sess[s] = "ended" /\ s \notin crossed
    => score[s] = (100 * Cardinality(answers[s])) \div Total

\* A quiz that is listed as finished is not ongoing as well, and the score that is
\* shown for it, in the list or as its result, is of the session that was submitted;
\* unless two calls of takeQuiz once found no session while the other was making one.
\* A reset, a resume or a late timer never leaves a student with two sessions.
ResultIsShown ==
  Finished /\ ~raced =>
    ~Ongoing /\ \A s \in ListedSession \cup ResultSession : sess[s] = "ended"

\* Every session is ended: by the student, by its timer, or by being reset; as long
\* as no server is restarted and its score is a whole number.
AutoSubmit == \A s \in Take : sess[s] = "open" ~> sess[s] # "open"
=============================================================================
