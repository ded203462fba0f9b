------------------------------ MODULE Purchase ------------------------------
(***************************************************************************)
(* How a student gets into a course: the paid checkout                     *)
(* (OrdersService.orderCourse), the free enrolment                         *)
(* (CoursesService.enrollCourse), the Xendit invoice that backs an order   *)
(* and the webhook that turns a paid invoice into an enrolment             *)
(* (OrdersService.handleNotification).                                     *)
(*                                                                         *)
(* Every HTTP request is a process that stops at each await of its         *)
(* handler, so other requests run between a check and the write that       *)
(* relies on it.  A request carries at most one order and one invoice, so  *)
(* its name also serves as the order's uuid and as the invoice's id.       *)
(* Prices are the subject of CoursePricing, not of this module.            *)
(***************************************************************************)
EXTENDS Naturals

CONSTANTS
  User,
  Course,
  Request,     \* the checkouts and free enrolments that will ever be asked for
  Handler,     \* webhook calls the server can be serving at one time
  MaxCrashes   \* bound: how often a server process is restarted

ASSUME CrashBound == MaxCrashes \in Nat

VARIABLES
  live,          \* rows of the Course table
  is_free,       \* the courses whose is_free is set
  is_open,       \* the courses that are active and have not started
  is_completed,  \* the courses ended by endCourse
  enrollments,   \* rows of the Enrollment table, primary key (user, course)
  orders,        \* committed rows of the Order table: their status, or "none"
  notices,       \* success notifications sent, per user and course
  job,           \* what each request asks for and what it read about the course
  rpc,           \* where each request is in its handler
  invoice,       \* Xendit: status of each invoice, or "none"
  shown,         \* invoices whose payment page the buyer has been given
  acked,         \* Xendit: invoices whose callback was answered with success
  hpc,           \* where each webhook call is in handleNotification
  hinv,          \* the invoice each webhook call is about
  crashes        \* restarts so far

courseVars == <<live, is_free, is_open, is_completed>>
reqVars    == <<job, rpc>>
xenditVars == <<invoice, shown, acked>>
hookVars   == <<hpc, hinv>>
vars == <<courseVars, enrollments, orders, notices, reqVars, xenditVars,
          hookVars, crashes>>

Pair      == User \X Course
NoJob     == [kind |-> "none"]
Jobs      == [kind : {"order", "enroll"}, user : User, course : Course,
              free : BOOLEAN, open : BOOLEAN]
Final     == {"paid", "expired"}
\* The awaits of orderCourse that lie inside its database transaction.
InTx      == {"ordered", "invoiced", "linked", "told"}
ReqPC     == {"new", "read", "checked", "notify", "done"} \cup InTx
HookPC    == {"idle", "found", "enroll", "notify", "respond"}

PairOf(r) == <<job[r].user, job[r].course>>
IsJob(r)  == job[r] # NoJob
\* Xendit sends a callback, and sends it again until it is acknowledged.
Outstanding(r) == invoice[r] \in Final /\ r \notin acked

Init ==
  /\ live = Course
  /\ is_free \in SUBSET Course
  /\ is_open = Course
  /\ is_completed = {}
  /\ enrollments = {}
  /\ orders  = [r \in Request |-> "none"]
  /\ notices = [p \in Pair |-> 0]
  /\ job     = [r \in Request |-> NoJob]
  /\ rpc     = [r \in Request |-> "new"]
  /\ invoice = [r \in Request |-> "none"]
  /\ shown   = {}
  /\ acked   = {}
  /\ hpc     = [h \in Handler |-> "idle"]
  /\ hinv \in [Handler -> Request]
  /\ crashes = 0

-----------------------------------------------------------------------------
(* Both handlers start with checkIsEnrollment: it reads the course, then,  *)
(* in a second query, the enrolment; the course is judged as first read.   *)

ReadCourse(r, u, c, kind) ==
  /\ rpc[r] = "new"
  /\ c \in live
  /\ job' = [job EXCEPT ![r] =
               [kind |-> kind, user |-> u, course |-> c,
                free |-> c \in is_free,
                open |-> c \in is_open /\ c \notin is_completed]]
  /\ rpc' = [rpc EXCEPT ![r] = "read"]
  /\ UNCHANGED <<courseVars, enrollments, orders, notices, xenditVars,
                 hookVars, crashes>>

\* Mutant: enrollCourse forgets to ask for a free course.
CheckIsEnrollment_NoFreeCheck(r) ==
  /\ rpc[r] = "read"
  /\ rpc' = [rpc EXCEPT ![r] =
               IF PairOf(r) \notin enrollments /\ job[r].open
               THEN "checked" ELSE "done"]
  /\ UNCHANGED <<courseVars, enrollments, orders, notices, job, xenditVars,
                 hookVars, crashes>>

\* The request goes on when the course was open, the user is not enrolled and
\* the course is free exactly if the request is for a free enrolment.
CheckIsEnrollment(r) ==
  /\ rpc[r] = "read"
  /\ rpc' = [rpc EXCEPT ![r] =
               IF /\ PairOf(r) \notin enrollments
                  /\ job[r].open
                  /\ job[r].free <=> job[r].kind = "enroll"
               THEN "checked" ELSE "done"]
  /\ UNCHANGED <<courseVars, enrollments, orders, notices, job, xenditVars,
                 hookVars, crashes>>

-----------------------------------------------------------------------------
(* enrollCourse *)

InsertFreeEnrollment(r) ==
  /\ rpc[r] = "checked" /\ job[r].kind = "enroll"
  /\ IF PairOf(r) \notin enrollments /\ job[r].course \in live
     THEN /\ enrollments' = enrollments \cup {PairOf(r)}
          /\ rpc' = [rpc EXCEPT ![r] = "notify"]
     ELSE /\ rpc' = [rpc EXCEPT ![r] = "done"]   \* duplicate or foreign key: 500
          /\ UNCHANGED enrollments
  /\ UNCHANGED <<courseVars, orders, notices, job, xenditVars, hookVars,
                 crashes>>

\* sendNotification writes the notification and then queues the push; it can
\* fail before or after the write.
NotifyFree(r) ==
  /\ rpc[r] = "notify"
  /\ \/ notices' = [notices EXCEPT ![PairOf(r)] = @ + 1]
     \/ UNCHANGED notices
  /\ rpc' = [rpc EXCEPT ![r] = "done"]
  /\ UNCHANGED <<courseVars, enrollments, orders, job, xenditVars, hookVars,
                 crashes>>

-----------------------------------------------------------------------------
(* orderCourse: the steps of its transaction.  Nothing it writes is        *)
(* visible to others before CommitOrder; what it asks of Xendit is.        *)

\* Mutant: the order is created outside the transaction.
CreateOrder_NoTx(r) ==
  /\ rpc[r] = "checked" /\ job[r].kind = "order" /\ job[r].course \in live
  /\ rpc' = [rpc EXCEPT ![r] = "ordered"]
  /\ orders' = [orders EXCEPT ![r] = "pending"]
  /\ UNCHANGED <<courseVars, enrollments, notices, job, xenditVars, hookVars,
                 crashes>>

CreateOrder(r) ==
  /\ rpc[r] = "checked" /\ job[r].kind = "order"
  /\ rpc' = [rpc EXCEPT ![r] =
               IF job[r].course \in live THEN "ordered" ELSE "done"]
  /\ UNCHANGED <<courseVars, enrollments, orders, notices, job, xenditVars,
                 hookVars, crashes>>

CreateSNAP(r) ==
  /\ rpc[r] = "ordered"
  /\ invoice' = [invoice EXCEPT ![r] = "pending"]
  /\ rpc' = [rpc EXCEPT ![r] = "invoiced"]
  /\ UNCHANGED <<courseVars, enrollments, orders, notices, job, shown, acked,
                 hookVars, crashes>>

LinkInvoice(r) ==
  /\ rpc[r] = "invoiced"
  /\ rpc' = [rpc EXCEPT ![r] = "linked"]
  /\ UNCHANGED <<courseVars, enrollments, orders, notices, job, xenditVars,
                 hookVars, crashes>>

\* Mutant: the notification already carries the payment page.
NotifyWaiting_WithPage(r) ==
  /\ rpc[r] = "linked"
  /\ rpc' = [rpc EXCEPT ![r] = "told"]
  /\ shown' = shown \cup {r}
  /\ UNCHANGED <<courseVars, enrollments, orders, notices, job, invoice, acked,
                 hookVars, crashes>>

\* The "waiting for payment" notification names the order, not the invoice.
NotifyWaiting(r) ==
  /\ rpc[r] = "linked"
  /\ rpc' = [rpc EXCEPT ![r] = "told"]
  /\ UNCHANGED <<courseVars, enrollments, orders, notices, job, xenditVars,
                 hookVars, crashes>>

\* The commit; the answer that follows it carries the payment page, unless the
\* connection is gone by then.
CommitOrder(r) ==
  /\ rpc[r] = "told"
  /\ orders' = [orders EXCEPT ![r] = "pending"]
  /\ shown' \in {shown, shown \cup {r}}
  /\ rpc' = [rpc EXCEPT ![r] = "done"]
  /\ UNCHANGED <<courseVars, enrollments, notices, job, invoice, acked,
                 hookVars, crashes>>

\* Any await of the transaction may throw: Xendit refuses or its answer is
\* lost, a notification fails, the 60 s run out.  The order is rolled back;
\* an invoice that was already created stays at Xendit.
AbortOrder(r) ==
  /\ rpc[r] \in InTx
  /\ rpc' = [rpc EXCEPT ![r] = "done"]
  /\ UNCHANGED <<courseVars, enrollments, orders, notices, job, xenditVars,
                 hookVars, crashes>>

\* The owner opens a pending order: findOne fetches the invoice's page.
FindOne(r) ==
  /\ orders[r] = "pending" /\ r \notin shown
  /\ shown' = shown \cup {r}
  /\ UNCHANGED <<courseVars, enrollments, orders, notices, reqVars, invoice,
                 acked, hookVars, crashes>>

-----------------------------------------------------------------------------
(* Xendit.  An invoice is paid by whoever has its page, or expires after a *)
(* day, when the checkout's 60 s transaction is long over.                 *)

Pay(r) ==
  /\ invoice[r] = "pending" /\ r \in shown
  /\ invoice' = [invoice EXCEPT ![r] = "paid"]
  /\ UNCHANGED <<courseVars, enrollments, orders, notices, reqVars, shown,
                 acked, hookVars, crashes>>

Expire(r) ==
  /\ invoice[r] = "pending" /\ rpc[r] \notin InTx
  /\ invoice' = [invoice EXCEPT ![r] = "expired"]
  /\ UNCHANGED <<courseVars, enrollments, orders, notices, reqVars, shown,
                 acked, hookVars, crashes>>

-----------------------------------------------------------------------------
(* handleNotification.  The callback of a final invoice is delivered any   *)
(* number of times, concurrently too.  A callback for which no order is    *)
(* found is answered 404 and changes nothing, so it is not a step.         *)

Receive(h, r) ==
  /\ hpc[h] = "idle"
  /\ invoice[r] \in Final
  /\ orders[r] # "none"
  /\ hpc'  = [hpc  EXCEPT ![h] = "found"]
  /\ hinv' = [hinv EXCEPT ![h] = r]
  /\ UNCHANGED <<courseVars, enrollments, orders, notices, reqVars,
                 xenditVars, crashes>>

\* order.update to the given status; the order may have been removed since it
\* was found, which is answered 500.
WriteStatus(h, status, next) ==
  /\ hpc[h] = "found"
  /\ IF orders[hinv[h]] = "none"
     THEN /\ hpc' = [hpc EXCEPT ![h] = "idle"]
          /\ UNCHANGED orders
     ELSE /\ orders' = [orders EXCEPT ![hinv[h]] = status]
          /\ hpc' = [hpc EXCEPT ![h] = next]
  /\ UNCHANGED <<courseVars, enrollments, notices, reqVars, xenditVars, hinv,
                 crashes>>

AfterStatus(h) == IF invoice[hinv[h]] = "paid" THEN "enroll" ELSE "respond"

\* Mutant: every callback enrols, not only PAID.
UpdateStatus_AnyFinal(h) == WriteStatus(h, invoice[hinv[h]], "enroll")

\* Mutant: every callback is taken for a payment.
UpdateStatus_AlwaysPaid(h) == WriteStatus(h, "paid", AfterStatus(h))

\* Mutant: only PAID callbacks are stored.
UpdateStatus_PaidOnly(h) ==
  WriteStatus(h, IF invoice[hinv[h]] = "paid" THEN "paid" ELSE orders[hinv[h]],
              AfterStatus(h))

\* Mutant: a callback for an order that is paid already is answered at once.
UpdateStatus_SkipIfPaid(h) ==
  WriteStatus(h, invoice[hinv[h]],
              IF orders[hinv[h]] = "paid" THEN "respond" ELSE AfterStatus(h))

UpdateStatus(h) == WriteStatus(h, invoice[hinv[h]], AfterStatus(h))

\* Mutant: the enrolment is upserted, so a repeated callback passes.
CreateEnrollment_Upsert(h) ==
  /\ hpc[h] = "enroll" /\ job[hinv[h]].course \in live
  /\ enrollments' = enrollments \cup {PairOf(hinv[h])}
  /\ hpc' = [hpc EXCEPT ![h] = "notify"]
  /\ UNCHANGED <<courseVars, orders, notices, reqVars, xenditVars, hinv,
                 crashes>>

\* enrollment.create: the primary key refuses a second row for the pair.
CreateEnrollment(h) ==
  LET r == hinv[h] IN
  /\ hpc[h] = "enroll"
  /\ IF PairOf(r) \notin enrollments /\ job[r].course \in live
     THEN /\ enrollments' = enrollments \cup {PairOf(r)}
          /\ hpc' = [hpc EXCEPT ![h] = "notify"]
     ELSE /\ hpc' = [hpc EXCEPT ![h] = "idle"]  \* duplicate or foreign key: 500
          /\ UNCHANGED enrollments
  /\ UNCHANGED <<courseVars, orders, notices, reqVars, xenditVars, hinv,
                 crashes>>

NotifyPaid(h) ==
  LET p == PairOf(hinv[h]) IN
  /\ hpc[h] = "notify"
  /\ \/ /\ notices' = [notices EXCEPT ![p] = @ + 1]
        /\ hpc' = [hpc EXCEPT ![h] = "respond"]
     \/ /\ notices' = [notices EXCEPT ![p] = @ + 1]   \* the push queue fails: 500
        /\ hpc' = [hpc EXCEPT ![h] = "idle"]
     \/ /\ UNCHANGED notices                          \* the database fails: 500
        /\ hpc' = [hpc EXCEPT ![h] = "idle"]
  /\ UNCHANGED <<courseVars, enrollments, orders, reqVars, xenditVars, hinv,
                 crashes>>

\* The 'OK' reaches Xendit, or is lost.
Respond(h) ==
  /\ hpc[h] = "respond"
  /\ \/ acked' = acked \cup {hinv[h]}
     \/ UNCHANGED acked
  /\ hpc' = [hpc EXCEPT ![h] = "idle"]
  /\ UNCHANGED <<courseVars, enrollments, orders, notices, reqVars, invoice,
                 shown, hinv, crashes>>

-----------------------------------------------------------------------------
(* The owner's and the administrator's operations on the course. *)

UpdateCourse(c) ==
  /\ c \in live
  /\ \E free, open \in BOOLEAN :
       /\ is_free' = IF free THEN is_free \cup {c} ELSE is_free \ {c}
       /\ is_open' = IF open THEN is_open \cup {c} ELSE is_open \ {c}
  /\ UNCHANGED <<live, is_completed, enrollments, orders, notices, reqVars,
                 xenditVars, hookVars, crashes>>

EndCourse(c) ==
  /\ c \in live
  /\ is_completed' = is_completed \cup {c}
  /\ UNCHANGED <<live, is_free, is_open, enrollments, orders, notices,
                 reqVars, xenditVars, hookVars, crashes>>

\* The foreign keys cascade to orders and enrolments; an open transaction that
\* has inserted an order holds the course's row, and the delete waits for it.
RemoveCourse(c) ==
  /\ c \in live
  /\ \A r \in Request : rpc[r] \in InTx => job[r].course # c
  /\ live' = live \ {c}
  /\ enrollments' = {p \in enrollments : p[2] # c}
  /\ orders' = [r \in Request |->
                  IF IsJob(r) /\ job[r].course = c THEN "none" ELSE orders[r]]
  /\ UNCHANGED <<is_free, is_open, is_completed, notices, reqVars, xenditVars,
                 hookVars, crashes>>

\* A server process dies or is restarted (pm2 runs several): the requests and
\* callbacks it was serving vanish, their open transactions are rolled back,
\* their callbacks stay unacknowledged.
Crash ==
  /\ crashes < MaxCrashes
  /\ crashes' = crashes + 1
  /\ \E R \in SUBSET {r \in Request : rpc[r] # "new"}, H \in SUBSET Handler :
       /\ rpc' = [r \in Request |-> IF r \in R THEN "done" ELSE rpc[r]]
       /\ hpc' = [h \in Handler |-> IF h \in H THEN "idle" ELSE hpc[h]]
  /\ UNCHANGED <<courseVars, enrollments, orders, notices, job, xenditVars,
                 hinv>>

-----------------------------------------------------------------------------
Step(r) ==
  \/ CheckIsEnrollment(r)
  \/ InsertFreeEnrollment(r) \/ NotifyFree(r)
  \/ CreateOrder(r) \/ CreateSNAP(r) \/ LinkInvoice(r) \/ NotifyWaiting(r)
  \/ CommitOrder(r) \/ AbortOrder(r)

Hook(h) ==
  \/ UpdateStatus(h) \/ CreateEnrollment(h) \/ NotifyPaid(h) \/ Respond(h)

Next ==
  \/ \E r \in Request :
       \/ \E u \in User, c \in Course, kind \in {"order", "enroll"} :
            ReadCourse(r, u, c, kind)
       \/ Step(r)
       \/ FindOne(r) \/ Pay(r) \/ Expire(r)
       \/ \E h \in Handler : Receive(h, r)
  \/ \E h \in Handler : Hook(h)
  \/ \E c \in Course : UpdateCourse(c) \/ EndCourse(c) \/ RemoveCourse(c)
  \/ Crash

Spec == Init /\ [][Next]_vars

\* A served callback runs to its end, Xendit repeats a callback that was not
\* acknowledged, and an unpaid invoice expires.  Nothing obliges anyone to buy,
\* to pay or to touch the course.
Redeliver(r) == Outstanding(r) /\ \E h \in Handler : Receive(h, r)

Fairness ==
  /\ \A h \in Handler : WF_vars(Hook(h))
  /\ \A r \in Request : SF_vars(Redeliver(r)) /\ WF_vars(Expire(r))

FairSpec == Spec /\ Fairness

-----------------------------------------------------------------------------
(* Properties *)

TypeOK ==
  /\ live \in SUBSET Course /\ is_free \in SUBSET Course
  /\ is_open \in SUBSET Course /\ is_completed \in SUBSET Course
  /\ enrollments \in SUBSET Pair
  /\ orders  \in [Request -> {"none", "pending"} \cup Final]
  /\ notices \in [Pair -> Nat]
  /\ job     \in [Request -> Jobs \cup {NoJob}]
  /\ rpc     \in [Request -> ReqPC]
  /\ invoice \in [Request -> {"none", "pending"} \cup Final]
  /\ shown \in SUBSET Request /\ acked \in SUBSET Request
  /\ hpc     \in [Handler -> HookPC]
  /\ hinv    \in [Handler -> Request]
  /\ crashes \in Nat

\* What entitles a user to a course: an invoice of theirs that was paid, or an
\* enrolment request that read the course as free and open.
Entitles(r, p) ==
  /\ IsJob(r) /\ PairOf(r) = p
  /\ \/ job[r].kind = "order" /\ invoice[r] = "paid"
     \/ job[r].kind = "enroll" /\ job[r].free /\ job[r].open

Entitled(p) == \E r \in Request : Entitles(r, p)

\* The pair is enrolled, or the course is gone.
Closed(p) == p \in enrollments \/ p[2] \notin live

\* Nobody is enrolled without having paid or having been let in for free,
\* however checkouts, callbacks, course updates and restarts interleave.
EnrollmentBacked == \A p \in enrollments : Entitled(p)

\* Whoever holds a payment page holds one the webhook can honour: its order is
\* in the database as long as the course is, although the invoice was created
\* before the order was committed and survives a rollback.
PayableIsRecoverable ==
  \A r \in shown : orders[r] # "none" \/ job[r].course \notin live

\* An order says pending or what Xendit says of its invoice: late, repeated and
\* concurrent callbacks never leave it with another outcome.
StatusIsTruthful ==
  \A r \in Request : orders[r] \in {"none", "pending", invoice[r]}

\* A user is congratulated at most once per course, although callbacks are
\* redelivered, a course may be ordered twice and every handler may die between
\* the enrolment and the notification.
OneSuccessNotice == \A p \in Pair : notices[p] <= 1

\* A paid invoice ends in an enrolment unless the course is removed, also when
\* the process dies between the order's update and the enrolment's insert.
PaidLeadsToEnrolled ==
  \A r \in Request :
    invoice[r] = "paid" ~> IsJob(r) /\ Closed(PairOf(r))

\* No order stays pending: payment or expiry reaches it, restarts and lost
\* answers notwithstanding.
OrderSettles ==
  \A r \in Request : orders[r] = "pending" ~> orders[r] # "pending"

-----------------------------------------------------------------------------
(* The inductive invariant behind the safety properties. *)

\* Which request can be where: the checks passed, the kind of request, and that
\* an open transaction keeps its course from being removed.
RequestInv ==
  \A r \in Request :
    /\ rpc[r] = "new" <=> ~IsJob(r)
    /\ rpc[r] = "checked" =>
         job[r].open /\ (job[r].free <=> job[r].kind = "enroll")
    /\ rpc[r] \in InTx => job[r].kind = "order" /\ job[r].course \in live
    /\ rpc[r] = "notify" => job[r].kind = "enroll"

\* An invoice belongs to a checkout that got as far as createSNAP, cannot change
\* before the checkout's transaction is over, and is paid only by its page.
InvoiceInv ==
  \A r \in Request :
    /\ invoice[r] # "none" =>
         /\ IsJob(r) /\ job[r].kind = "order"
         /\ rpc[r] \in {"invoiced", "linked", "told", "done"}
    /\ rpc[r] = "ordered" => invoice[r] = "none"
    /\ rpc[r] \in InTx \ {"ordered"} => invoice[r] = "pending"
    /\ invoice[r] = "paid" => r \in shown
    /\ r \in shown => rpc[r] = "done" /\ invoice[r] # "none"

\* A row of the Order table belongs to a finished checkout with an invoice.
OrderInv ==
  \A r \in Request :
    orders[r] # "none" =>
      /\ IsJob(r) /\ job[r].course \in live
      /\ rpc[r] = "done" /\ invoice[r] # "none"

\* A callback is about a final invoice, and past the update only about a paid one.
HookInv ==
  \A h \in Handler :
    /\ hpc[h] # "idle" => IsJob(hinv[h]) /\ invoice[hinv[h]] \in Final
    /\ hpc[h] \in {"enroll", "notify"} => invoice[hinv[h]] = "paid"

\* At most one handler is about to congratulate a user, and only the first time.
NoticeInv ==
  /\ OneSuccessNotice
  /\ \A p \in Pair : notices[p] # 0 => Closed(p)
  /\ \A r \in Request :
       rpc[r] = "notify" => notices[PairOf(r)] = 0 /\ Closed(PairOf(r))
  /\ \A h \in Handler :
       hpc[h] = "notify" =>
         notices[PairOf(hinv[h])] = 0 /\ Closed(PairOf(hinv[h]))
  /\ \A r, s \in Request :
       rpc[r] = "notify" /\ rpc[s] = "notify" /\ PairOf(r) = PairOf(s) => r = s
  /\ \A h, g \in Handler :
       /\ hpc[h] = "notify" /\ hpc[g] = "notify"
       /\ PairOf(hinv[h]) = PairOf(hinv[g])
       => h = g
  /\ \A h \in Handler, r \in Request :
       ~ (/\ hpc[h] = "notify" /\ rpc[r] = "notify"
          /\ PairOf(hinv[h]) = PairOf(r))

IInv ==
  /\ TypeOK /\ RequestInv /\ InvoiceInv /\ OrderInv /\ HookInv /\ NoticeInv
  /\ EnrollmentBacked /\ PayableIsRecoverable /\ StatusIsTruthful

-----------------------------------------------------------------------------
(* The contract a student sees, implemented by all of the above. *)

Ledger == INSTANCE EnrollmentLedger
            WITH offered  <- live,
                 entitled <- {p \in Pair : Entitled(p)},
                 enrolled <- enrollments,
                 noticed  <- notices

\* Purchase implements the ledger: entitlements are never withdrawn, they come
\* before enrolments, enrolments disappear only with their course, and each
\* is announced once.
LedgerSpec == Ledger!Spec
=============================================================================
