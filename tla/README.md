# TLA+ models of the PENS online classroom backend

This directory holds specifications of the NestJS backend in `src/`: a course
platform with paid and free enrolment, quizzes under a time limit, live classes,
progress, reviews and certificates. The code keeps its state in PostgreSQL through
Prisma, in Redis queues, on the disk of uploads, and in the memory of the server
processes (timers). `pm2.config.js` starts one process per core and restarts them
on every change, so every check that is separated by an `await` from the write that
relies on it can be overtaken by another request, in this process or in another one.

`PROJECT.json` lists components, runs, mutants, hazards, findings and theorems, and
names for every definition the lines it models.

## Inventory

| component | state | operations | what is hard | correct when | module |
|---|---|---|---|---|---|
| orders (`orders/`) | `Order`: status, amounts, `xendit_id` | `orderCourse`, `findOne`, `handleNotification` | an invoice made inside a transaction; a webhook that writes twice without one | nobody is enrolled unpaid; who pays is enrolled; an order tells what its invoice tells | Purchase |
| Xendit (`utils/library/xendit/`, external) | invoices | create, get, callback | callbacks repeated, late, concurrent | - | Purchase |
| courses (`courses/courses.service.ts`) | `Course`, `Enrollment` | `checkIsEnrollment`, `enrollCourse`, create, `update`, `endCourse`, `remove` | the course is judged by an old copy | enrolments are backed by a right to enrol; rows go with their course | Purchase, CoursePricing, Classroom, StoredFiles |
| course discounts (`course-discount/`) | `CourseDiscount`, one per course | create, update, remove | the check reads the price, the price is written elsewhere | a discount lies below the price it was judged by, as long as that is the price | CoursePricing |
| quiz sessions (`courses/quiz/`) | `QuizSession`, answers, timers and `SchedulerRegistry` in memory | `takeQuiz`, `updateAnswer(s)`, `submitQuiz` | timers per process, resumed elsewhere, lost on restart | every session ends, with the score of its answers, at most 100 | QuizSession |
| quiz administration (`quizzes/`) | `Quiz`, `Question`, options of the generator | create, update, delete, validate, `generateQuiz`, questions, `resetQuizEnrolled` | rounding, a loop that may not end, edits and removed curriculums under an activation | an active quiz can be drawn from, a draw has its size, a title is imported once | QuizBank, QuizSession |
| live classes (`streaming/`) | `LiveClass`, `UrlSignature`, participants and logs, `Recording`, `close-room-*` timers | open, close, join, verify, record, LiveKit's webhooks | one-use URLs checked and set in two queries; a timer that a return must cancel | a URL is used once; a room without a moderator closes; a recording has its own file | LiveClass, Attendance, StoredFiles |
| certificates (`certificates/`) | `Certificate`, a Bull queue | the queue job, `handleCertificateGenerated` | numbers from the latest row, repeated and concurrent jobs, a worker that dies between a row and its event | a certificate is earned, there is one, and it is printed | Certificates |
| authentication, users, profile | `User`, `SessionLogin`, `ForgotPassword` | register, login, refresh, logout, forgotten password, removal | rotation of a token used twice, a code replaced while it is verified | a logout is final; a reset was verified | Accounts |
| curriculums, subjects, progress, reviews, notifications | `Curriculum`, subjects, `SubjectCompletion`, `Review`, `Notification` | add, remove, mark, count, list, review, notify, read | a lookup without the user; counts in two queries; cascades | progress is one's own and at most 100; one review each; all are told | Classroom |
| departments, banners, logo, avatars, thumbnails, course files | rows and the uploads they name | create, update, remove; `StorageHelpers.deleteFile` | asynchronous deletions race updates, names that come in a body | a row's file is there | StoredFiles |
| vouchers | `Voucher`, `VoucherRedemption` | apply, cancel | every operation throws first | - | not modelled |
| dynamic configurations, mail, utilities, deployment | - | - | - | - | not modelled, or in part |

Interactions. `orderCourse` and `enrollCourse` share `checkIsEnrollment`; both and the
webhook meet in the primary key of `Enrollment` (Purchase). `CoursesService.update`
deletes discounts that `orderCourse` reads (CoursePricing). `takeQuiz` draws with the
generator (QuizBank), its timers call `submitQuiz`, and `resetQuizEnrolled` deletes the
session under both (QuizSession). Durations that LiveKit's webhooks and
`calculateDuration` write decide about certificates: `Certificates` extends
`Attendance`, and every step of the one interleaves with the other. Removal of users,
courses, curriculums and subjects cascades into completions, reviews, notices and
enrolments (Classroom), questions (QuizBank), sessions and codes (Accounts). All uploads share one
directory, and one `deleteFile` (StoredFiles).

## Modules

| module | models | relation |
|---|---|---|
| `EnrollmentLedger` | the contract of enrolment: entitled, then enrolled, then told once | abstract |
| `Purchase` | checkout, free enrolment, invoices, webhook, course operations, restarts | implements `EnrollmentLedger` |
| `CoursePricing` | price, discount and the amount of an order | - |
| `QuizSession` | sessions, timers, registries, grading, restarts | - |
| `QuizBank` | a quiz's questions and those of the course's other quizzes, curriculums, import, validation, activation, and the draw | - |
| `LiveClass` | a live class, its moderators, webhooks and close timers, one-use URLs, restarts | - |
| `Attendance` | participant logs and the durations computed from them | - |
| `Certificates` | the certificate jobs and the generator's answers | extends `Attendance` |
| `Accounts` | one account: sessions behind refresh tokens, a forgotten password | - |
| `Classroom` | a course as its students follow it | - |
| `StoredFiles` | rows that name files, deletions, recordings | - |
| `MC...` | the instances TLC checks | - |
| `PurchaseProofs`, `LiveClassProofs`, `StoredFilesProofs`, `ClassroomProofs`, `QuizSessionProofs`, `AccountsProofs`, `QuizBankProofs` | theorems about the module of that name | TLAPS |
| `CourseProofs` | theorems about `CoursePricing`, `Attendance` and `Certificates` | TLAPS |

In every module a request, a webhook call or a timer is a process, and a step is what
lies between two awaits at which something another step can see is read or written.
Its record holds where it is (`pc`) and what it has read, which is what it goes on
to act on. A step the code can fail at has a disjunct that fails. Reads that
decide nothing are left out, as are roles and owners: requests in the models are
those that pass the guards. Variables that a comment calls *history* are not in the
code; they remember what a property excuses or compares.

### Purchase

`rpc[r]` says at which await of its handler a request waits: `new`, `read` (course
read), `checked` (`checkIsEnrollment` passed), then for an order `ordered`,
`invoiced`, `linked`, `told` (inside the transaction) and `done`; for a free enrolment
`notify` and `done`. `job[r]` is what it asked for and the part of the course it
read. A transaction's writes become visible at `CommitOrder`; `AbortOrder` stands for
any exception or the 60 s limit and leaves the invoice behind, as the code does. A
request makes at most one order and one invoice, so its name serves for both.

The webhook is a set of handlers `h`, each at `found` (order looked up), `enroll`,
`notify` or `respond`. Callbacks need no channel: Xendit may deliver the callback of a
final invoice at any time, any number of times, to several handlers; `acked` records
only which were answered with success, on which redelivery depends. `Crash` kills any
set of requests and callbacks, which covers the death of one process and of all.

External assumptions about Xendit: an invoice is paid or expires, once; only somebody
who was given its page pays; it lives longer than a checkout's transaction; a callback
that was not answered with success is repeated.

Left out: amounts (see `CoursePricing`), removal of users, push delivery.

### CoursePricing

One course, as courses share nothing here. An administrator's request reads the course
in one step and writes in the next, as the handlers do, a removal too; any number of
administrators overlap. `update` decides whether to
drop the discount by the price it *read* and by whether its body repeats the price: a
body without a price counts as a change, as in the code (`undefined != course.price`). A price may be missing (`NotGiven`); null counts as 0 in
a comparison (`Amount`). `stale` (history) says that the discount the course has was
judged by a price that was no longer the price when it was written, or was kept by an
update that changed the price and had read another.
A discount's dates are reduced to the phase the clock is in; dates may be missing, in
which case the discount never counts. The specification's parts have prefixed names
(`PricingInit`, `PricingNext`, `PricingTypeOK`), so that one module of proofs can extend
it and `Certificates`.

### QuizSession and QuizBank

One student and one quiz. Each call of `takeQuiz` creates at most one session and at
most one submit timer, so sessions and timers are named after calls. The registry of
each server maps a session to a timer; a resumed session sets a *further* timer, which
stays nameless if the name is taken on that server. A call that finds no session while
another is making one is remembered in `raced` (history). `submitQuiz` is three steps:
read and check; score and clear the *named* timer of its own server; write. Answers are
counted, not spelled: `answers[s]` pairs a question with how many of its letters score;
`overfull` (history) holds the sessions where `updateAnswers` stored an answer it had
refused, `crossed` those of which an answer and a submission were under way at once. `Ongoing`, `Finished`, `ListedSession` and `ResultSession` are what
`findAllQuiz` and `getResultQuiz` show: with several sessions, any of them. A score is `100 * hits / Total`; the update is refused if
that is not a whole number, and may be if it is one but a sum of fractions, since a
JavaScript number may miss it (`Whole`, `Exact`). `FireTimer` may be late; a delay of
more than `MaxDelay` is replaced by the shortest, as `setTimeout` does (`FiresAt`). An exception in a timer's callback
is logged and does not stop the process.

`QuizBank` is the other side: the quiz's row, its questions (title, level, perhaps a
curriculum) and the options they are drawn with; around it `elsewhere`, the questions of
the course's other quizzes, and `curriculums`. `UpdateRead` takes the row's lock, as
`updateQuiz`'s first statement does, and reads the questions; `UpdateCommit` validates
with what was read, then imports what is lacking (by title and curriculum, as the code
compares them) or drops what has a curriculum. Operations on questions take no lock;
`UpdateQuestion` rewrites a row's title, level and curriculum and may move it into this
quiz or out of it, from any quiz of the course. `RemoveCurriculum` is the cascade of
`schema.prisma:409`: it takes the questions of that curriculum out of every quiz, and the
quizzes of that curriculum with all their questions. `Generate` rounds each share as
`Math.round` does and picks that many different questions of each level, none for a share
that is not positive; from a pool that is too small it goes to `endless`, as
`randomizeQuestions` does, save that one question drawn from an empty pool is a question
that does not exist and fails the call. Percentages are any integers, as the dto and the
columns allow. Shares are rounded exactly; a JavaScript number may let a half fall to the
other side, which moves one question from one level to another. The id of a question is a
pair, of the request that gave it and the id it was copied with, so that what one update
imported can be told from what another did.

### LiveClass, Attendance, Certificates

`LiveClass` has the row's `status`, and `closing`, the transaction of `closeStreaming`
that holds the row while LiveKit deletes the room. `Join` and `Leave` change the
external room and append to `webhooks[m]`, which keep the order of one participant;
`HandleJoined` and `HandleLeft` are `handleModeratorDisconnect` on some server, and may
leave the webhook to be delivered again. A leave *always* sets a timer; its name is
registered only if that is free on that server; a join clears only the timer that has
the name there. A timer's callback is two steps, the room (`TimerDelete`) and the row
(`TimerClose`); either may be refused (`TimerRefused`). The rejected promise does not end
the process, as `Sentry.init` (`main.ts:33`, default mode) handles it: the class stays
open, its name stays registered and nothing tries again. `Crash` loses a server's timers
and names. `missed` (history) says that a timer was lost or refused since the moderators
left. `verifyUrl` is `ReadUrl`, `MarkUrl`, `CheckExpiry`.

`Attendance` is `logParticipant`, whose handlers look a student's participant row up
(`FindParticipant`), make it if they found none (`CreateParticipant`) and append to its log
with the time of that moment (`CreateLog`). The schema keeps no two rows of a student
apart, so two handlers at once make two, and later ones log to either. `calculateDuration`
is folded over the log of a row by a recursive function; the updates it issues, one per
entry, are made in any order, and one that is not a whole number of seconds is refused by
the column. `Credit` is what the consumer reads: the sum over a student's rows.

`Certificates` extends it: a job waits in the queue with what it asks (whom, in a list that
may name a student twice, and minimums, of which one that is 0 or missing asks nothing and
a negative one is reached by everybody); a worker starts it, reads the course with the
rows' durations once, and works on all places of the list side by side. `grade` is a student's
averages, of quizzes whose scores only rise while jobs run (`ScoreRises`); `Competent`
compares them with the minimums as the consumer does. The number is one more than the last
id at the time it was read, the event carries that number, and `HandleGenerated` gives the
file to a certificate that has it. `Die` is the death of a worker at any step: Bull hands
its job to a worker once more, unless it has failed. `overlap`, `drawn` and `unsent`
(history) are the students two pieces of work were on at once, who has read which number,
and the certificates whose work ended before their event. `Listed` and `Download` are the
student's own list, of certificates with a file, and the file that is sent for one of them.

### Accounts

One address. A token is the second it was signed in, as `generateJwtToken` signs the
account and the second. `StoreRefresh` is `updateRefreshToken`'s upsert by the *old*
token: it moves the row, or makes a new one if the row is gone, or is refused if the
new token is another's. `UpsertCode` holds the code's row until `CommitCode`, which
follows the mail. `MarkVerified` marks the account's row, whichever code it has.

### Classroom

A course's curriculums and subjects (files, videos and live classes alike), its
students' completions, reviews and notices. `Keep` is the cascade of the schema.
`FindCompletion` looks for a completion of the subject *of anybody*, as the code does; a
completion is written (`CreateCompletion`) and then answered (`AnswerMarked`). An insert of a
notice fails when its user has gone, or for any other reason;
`CountSubjects` and `CountCompletions` are the two queries of `getProgressCourse`, which
`GetProgressClass` and `ListEnrollments` (`EnrollmentsService.findAll`) ask for; `ListSubjects` and `IsCompleted` those of `findAllWithSubjects`, one per subject.

### StoredFiles

`file` is the rows and the path each names; `disk` what lies under `public/uploads`. An
upload is on disk before its handler runs, under a name of its own; a logo's is then
renamed to its title. `DeleteFile` returns at once; `EraseOpen` and `EraseUnlink`
follow at any time. An update has the old file deleted, then writes; `NewName` is what
it writes: the upload, or for a banner the name it had read, or for the others what is
there; or, of a department or a course, whatever name the body gave (`WriteGiven`, as the
dto's field is spread into the row when there is no upload). `quoted` (history) holds
names that came so. Recordings are a sequence of rows; `FindLatest` and `MarkFailed` are the `catch`
of `startRecord` and `stopRecord`, which looks for the latest row anew.

## Runs

| run | instance | shows |
|---|---|---|
| `purchase_safety` | 2 users, 1 course, 2 requests, 2 webhook calls, 1 restart | the safety properties, `IInv`, refinement of the ledger |
| `purchase_live` | 1 user, 2 requests, 1 webhook call, 1 restart | a paid invoice ends in an enrolment; orders settle |
| `pricing` | 2 administrators, 1 buyer, 3 prices and none | a discount is below the price unless it is stale; an order overcharges only by a stale price or discount |
| `quiz_timers` | 2 takes, 2 servers, 1 submission, 2 durations, 1 restart | timers cover open sessions; registries sound; a finished quiz shows what was submitted |
| `quiz_live` | 2 takes, 2 servers, 1 submission, 1 answer, 1 question, no restart | every session ends; scores are what the answers earn, and within 100 but where `updateAnswers` stored what it refused |
| `quiz_bank` | 3 requests, 2 curriculums, 4 questions and 2 of one text elsewhere, 2 drafts, 4 options | an active quiz can be drawn from; draws have their size; a title is imported once |
| `live_class` | 2 moderators, 2 servers, 2 timers, 1 URL, 2 verifications, 1 restart | an abandoned class is watched, and closes; a URL is spent |
| `certificates` | 2 students, 2 jobs; a class that one attends, in up to 2 rows, or two jobs that meet, or one that lists a student twice; workers that die | nobody is over-credited; certificates are earned, single, printed, and listed with one's own file |
| `accounts` | 5 requests, 3 seconds, 2 accounts in a row | a logout is final; one session a login; a reset was verified |
| `classroom` | 2 students, 2 curriculums, 2 subjects, 4 requests | progress, lists, reviews and notices |
| `stored_files` | a row of each kind, 2 logos of one title, 3 requests | no picture is lost; a recording has its own file |

One run finds what the code's text says violated: `classroom_marked`. The endpoint
answers 'Successfully marked subject as completed' (`subjects.controller.ts:84`) to a
student for whom nothing was written, because the lookup at
`subjects.service.ts:282` does not ask whose completion it finds.

What the models show and no run repeats, because the code has no guard there and
nothing claims one:

- Two administrators can leave a discount above the price: the price is lowered between
  the check of a discount and its insert, or an update writes back the price it had read
  and so keeps a discount that was made for another. An order that mixes an old price
  with a fresh discount can be negative.
- A restart loses quiz timers, as `handleTimeout` is commented out: `AutoSubmit` fails
  with `MaxCrashes = 1`. It fails with three questions too, whose scores are fractions
  the column refuses after the timer was cleared. After `updateAnswers` a score can
  exceed 100, as it stores what it has just refused (`overfull`).
- Two first calls of `takeQuiz` create two sessions, and a quiz can then be finished and
  ongoing at once, with the score of either; of two overlapping submissions the
  later writes its score over the first, and an answer that crosses a submission is stored
  without being scored; a raised duration does not reach the timers that are set, and a
  duration of 25 days or more is submitted at once.
- A quiz can be activated by the very update that drops its questions, or while one is
  edited or removed, and the removal of another curriculum takes questions from an active
  quiz: the next draw never ends. Quizzes with a share of 0 are not required to add up to
  100, and a negative share passes: both draw fewer or more than asked for. A question
  whose title was changed is imported again beside its old copy.
- A class stays open for good when its close timer is lost to a restart, or when
  `deleteRoom` or the update is refused in it.
- A close timer that lost its name puts out moderators who have returned, or closes a
  class that was opened again. Verifications that overlap the first are let in too.
- Students of one job share a certificate number, and the file of one student goes to
  another's certificate, whose owner may download it. Two jobs at once, or one that lists
  a student twice, create two certificates. When a worker dies, or a score is refused,
  between a certificate and its event, the job that runs again emits a new number, which
  finds no certificate: that one is never printed.
- Two webhooks of a student at once make two participant rows, and the time since each was
  begun counts. A class that goes on while a job runs is credited as far as it had got.
- A refresh that holds a session brings it back after a logout; two refreshes at once
  fork it. A code requested while its predecessor is being verified is marked verified.
- Two marks of a subject at once are counted twice, two reviews at once are both kept.
- A banner's update without a file writes back the name of a file another update has
  deleted. Two logos of one title share a file, and a logo's update that keeps its title
  deletes its own upload. A department or a course can be given the name of a file that is
  not there, or another row's, which the next update then deletes. A course file's old upload stays on the disk. An error of
  `stopRecord` marks as failed a recording that was started meanwhile.
- The second order of a user for a course can be paid; its callback ends in an error at
  the enrolment's key, and is repeated.

Bounds. Two requests suffice for a user to order twice, for an order to race a free
enrolment and for two users to compete; two handlers for a callback to overlap its
repetition. One course, because no action relates two. One restart lands between any
two steps. Three prices, 0 among them, and none are the least with which a discount can lie under one
price and over another and be compared with nothing. Two takes are a take and a resume, or two takes at once; two servers
let the resume miss the registry that holds the first timer, and a moderator return
where the name is not known. Two timers let one be nameless beside a named one; a
moderator joins only while timers are left for every leave to come, so that running
out of timers is never what leaves a class unwatched. `MaxNow` bounds a clock just past
the last deadline; in `quiz_timers` one of the two durations is longer than `MaxDelay`. In
`certificates` a second has two ticks so that totals can be refused, and a point of score
two parts so that averages can be. Its three beginnings (`MCSpec`) keep the class and the
overlapping jobs apart; there `Early` is empty, so that a job starts when the webhooks
have arrived, while the theorems hold for every `Early`, that is, for jobs that start at any
moment of a class. `Given` is three names: a row's own first file, another row's and a
logo's. Three requests are two that race and one that comes between;
`accounts` takes five, a login, two refreshes of it and a logout or removal among them.
`Elsewhere` is two questions of one text, the least with which one import copies both; a
draft can then give a question there another title, level or quiz. Symmetry is
used in safety runs only, on sets whose members no property names; refinement of the
ledger and the action property of `pricing` are symmetric too.

Deadlock checking is on for `CoursePricing` and `LiveClass`. It is off for the
others, whose requests are used up and whose clocks stop.

Fairness. `Purchase`: a webhook call that was accepted runs on (weak, per handler: the
event loop serves it), an invoice that is not paid expires (weak), and Xendit repeats
an unacknowledged callback (strong, because a handler is not always free to take it
and the order must be found). Requests get none, nobody has to buy or pay, and
restarts are bounded, not fair. `QuizSession`: the clock advances, timers fire, a
server finishes what it began (weak). `LiveClass`: LiveKit's webhooks are delivered
(weak, per moderator; it retries), a timer fires (weak), a closing transaction ends
(weak: Prisma limits it), and the row's lock is granted to the timer that waits for it
(strong, because PostgreSQL queues those who wait). `Certificates`: a worker goes on
with its tasks unless it dies, for which a job has two lives, and the generator's answers
are handled (weak); the property says that again and again all certificates are settled,
as what is settled stays so and new ones are bounded only by `MaxDone`. Nobody has to open a
class, join, or start a job.

## Proofs

The theorems hold for all values of the constants that satisfy the modules' assumptions:
any number of users, requests, servers, timers, rows, log entries and restarts, any
clock. The assumptions say that names are apart (`NamesAreApart`, `NoneIsNothing`, `NobodyAttends`,
`NewIdsAreNew`: an id the database gives is not there yet), that questions are rows with
a key (`QuestionsAreRows`, `IdsAreKeys`), that some sets are not empty or are finite, and
that bounds are numbers.

Every invariant and every action property that a run checks is the statement of a
theorem. None of the invariants is inductive as it stands; what each module adds:

`PurchaseProofs`: `Invariance` (`Spec => []IInv`), from it `TypeCorrect`,
`NobodyEntersUnpaid`, `PaymentsAreRecoverable`, `OrdersTellTheTruth`,
`CongratulatedOnce`, and `Refinement` (`Spec => LedgerSpec`).
`EnrollmentBacked` needs to know that a handler about to enrol deals with
a paid invoice (`HookInv`) of a checkout (`InvoiceInv`), and that a request past the
check passed it (`RequestInv`). `PayableIsRecoverable` needs that a page is shown only
after the commit, and that an order disappears only with its course (`OrderInv`).
`OneSuccessNotice` needs that at most one process is about to congratulate a pair, and
none once it has been congratulated (`NoticeInv`): the enrolment's primary key is the
lock, released only by removing the course for good. There is one lemma per action, and
a step under it per conjunct the action can disturb.

`CourseProofs`, prices: `PricingTyped`, `DiscountsStayBelow` and `OverchargesAreStale`, for
any number of administrators. The invariant (`PricingInv`) adds that a discount which was
judged and is not written yet is below the price that was read (`OffersJudged`).

`CourseProofs`, attendance and certificates: `CertificatesInvariant`
(`Spec => []CertInv`), from it `CertificatesTyped`, `NobodyIsOverCredited`,
`CertificatesWereEarned`, `StudentsHaveOneCertificate`, `FilesAreOwn`. `NeverOverCredited`
needs that the entries of a row's log are in the order of their arrival, and that no update on
its way credits more than has passed (`LogInv`). That what `calculateDuration` sums up to an
entry is no more than the time between the first entry and that one (`TotalsAreCovered`)
is an induction over a log of any length. As no installed prover can instantiate an
induction rule, it is made of sets: the numbers of entries for which the claim holds
contain 0 and every successor (`EntryIsCovered`), and a set of numbers that left one out
would leave out a least one (`Least`, from the well-foundedness of the order of `Nat`;
`AllNumbers`). `TimesExist` shows in the same way that the recursive function of
`TimesOf` is defined. Sums over a
student's rows are compared in the same way (`TotalIsSummed`, `TotalGrows`).
`CertificatesAreEarned` needs that a job has read no more than was attended (`JobInv`, with
a class that may still go on) and that work about to make a certificate has judged it
(`WorkInv`); it stays true as time passes and scores rise (`Later`). `OneCertificate` needs
that work about to insert a row has seen none, unless another's is under way, which `overlap`
has noticed (`OverlapInv`), also when two places of one list are the same student's or the
job is in its second life. `OwnFile` needs that events and files bear a number that the
work they are of has read (`FileInv`). Every step of a job's work on one student is an
instance of `Moves`, and `MovesKeep` says once what has to be seen of it.

`QuizSessionProofs`: `QuizSessionTyped`, `OpenSessionsAreCovered`, `RegistriesAreSound`,
`ScoresArePercentages`,
`ScoresMatchAnswers`, `ResultsAreShown`. `TimerCoverage` needs that a
call makes its session once and sets its timer last (`CallInv`), that a timer which was
set submits its own session (`TimerInv`), and that a
name leads to one timer of the server that gave it (`NameInv`): a submission that clears
a named timer either ends the session or fails with what `TimerCoverage` excuses. Scores
need that answers beyond the first letter were stored by a refused call only
(`AnswerInv`), and that what was read for grading stays within the quiz's total.
That an ended session has the score of its answers needs that, unless it is `crossed`, what
a submission has read is what is stored, and no answer is on its way to an ended session
(`MatchInv`).
`ResultIsShown` needs that there is one session or one call about to make it, unless
`raced` (`OneLive`).

`AccountsProofs`: `AccountsTyped`, `LogoutsAreFinal`, `LoginsHaveOneSession`,
`ResetsWereVerified`. The hard part is the upsert of `updateRefreshToken`: a session that
a refresh has found is still there unless another refresh used it, or it was logged out,
or its account is gone (`FoundInv`); two refreshes of one login, or of one token, are
noticed when the second begins (`OverlapInv`); and a login's second session is the work
of such refreshes, also as seen by those that have found the first (`SecondInv`). A code
is marked only by who presented it, or was requested meanwhile (`CodeInv`).

`QuizBankProofs`: `QuestionsAreTyped`, `ActiveQuizzesArePlayable`, `DrawsAreWellSized`,
`QuestionsAreImportedOnce`. Playability needs that the update in progress has read
questions that are still there, unless they were changed since (`ReadInv`), and that
pools only grow with the questions, which `Mark` notes when they do not; the size of a draw, that the percentages of an active
quiz add up unless one is 0 (`ShareInv`), and that three rounded positive shares of a total
miss it by one at most. `ImportedOnce` needs that ids are new while their request runs
(`IdInv`) and that whoever holds the quiz's row has read every imported question
(`ImportInv`).

`LiveClassProofs`: `LiveClassTyped`, `AbandonedAreWatched`, `UsedUrlsAreSpent`. The first
property needs that a moderator who is out of the room has his leave as the last of his
webhooks (`LeaveIsLast`): a join that cancels the timer is then followed by the leave
that sets the next. The URL needs that whoever was let in has marked it (`UrlInv`).

`ClassroomProofs`: `RowsRefer` (the cascades leave no row without what it refers to),
`ReviewedOnce`, `CompletedStaysCompleted`, `ListsAreOwn`,
`AllAreTold`, `ProgressIsAPercentage`. A review needs that, unless an overlap is recorded,
whoever is about to insert one is alone and its student has none (`ReviewInv`). Progress
is kept because ids are never used again (`NewIsUnused`), and a list that is being made
has shown, or will find, what had been completed when it began (`ListKeeps`). That
progress is at most 100 compares cardinalities of two tables read at two times: the
completions of subjects that were counted are no more than these, by the pigeon-hole
principle (`EarlyAtMostSeen`), as long as each is completed once (`OnceCompleted`, which
speaks of calls about to insert a completion as well). A notice needs that whoever is
still there has been told or is left to tell (`TellingInv`).

`StoredFilesProofs`: `StoredFilesTyped`, `RecordingsHaveTheirFiles` and
`PicturesAreThere`. A recording needs that one which was stopped and waits to be stored
is not running, and is not started again (`RecInv`). A picture (`PicInv`) needs that no
other row names its file and no banner is about to write that name (`NamesAreUnique`),
but for names that came from a body (`Own`), that an upload is named only by a request that is done (`NamesAreMade`), and that
whoever gives up the file is replacing or removing that very row (`EraserOwnsRow`).

The type invariants of Purchase, CoursePricing, QuizSession, LiveClass, Certificates,
Classroom and StoredFiles are proved and in no run (`IInv` contains Purchase's).

Only model-checked: liveness (`PaidLeadsToEnrolled`, `OrderSettles`, `AutoSubmit`,
`AbandonedCloses`, `EveryCertificateIsPrinted`), since the prover has neither fairness
nor `ENABLED`; and the violation `MarkedIsCompleted`.

## Plan

1. Proofs: what the liveness properties rest on and is not temporal, as invariants of
   their own: that an order that has not settled always has a step of its callback to
   come, and that a certificate without a file has an event or a task to come.
2. Models: the reminder timers of `takeQuiz`; the composition of `LiveClass` with
   `Attendance`, whose webhooks are the same events.

## Not modelled

Vouchers: `updateVoucher`, `deleteVoucher`, `applyVoucher`, `cancelVoucher` and
`getRedemptions` call `getVoucherById` or `getVoucherByCode` without the user whose
role those read (`vouchers.service.ts:75`, `:98`), so each throws before it changes
anything; what is left creates a row, lists rows, and retires expired ones at midnight.
Dynamic configurations: one statement per operation. Mail: formatting and delivery, its
failure is a step of Accounts. The cache manager is wired and not used. Reminder timers
send a notification and change nothing else. The push queue's consumer hands a notice
to OneSignal. Endpoints that only read are left out unless several queries of theirs
must agree. Generated code, migrations, seeds, load tests and CI scripts are data.
A second session of one quiz in a student's averages, Bull taking a live worker for a
stalled one, and an event lost after it was emitted are not modelled. `StoreRecording`
takes the failure path for any refused answer; no property looks at the status. A refused
score needs at least three questions, which the quiz runs do not have: it is covered by
the proofs alone.
File descriptors are not modelled: `deleteFile` opens the file to see whether it is
there and never closes it. `PROJECT.json` gives the reason for each component, and for
each hazard no property covers.
