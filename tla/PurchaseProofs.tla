--------------------------- MODULE PurchaseProofs ---------------------------
(***************************************************************************)
(* Theorems about Purchase for any set of users, courses, requests and     *)
(* webhook handlers and any number of restarts.                            *)
(***************************************************************************)
EXTENDS Purchase, TLAPS

\* A job of a request is never mistaken for the absence of one.
LEMMA JobsAreJobs ==
  ASSUME NEW j \in Jobs
  PROVE  j # NoJob /\ j.user \in User /\ j.course \in Course
BY DEF Jobs, NoJob

\* The pair a request is about is a user and a course.
LEMMA PairOfType ==
  ASSUME TypeOK, NEW r \in Request, IsJob(r)
  PROVE  /\ PairOf(r) \in Pair /\ PairOf(r)[2] = job[r].course
         /\ job[r] \in Jobs
<1>1. job[r] \in Jobs BY DEF TypeOK, IsJob
<1> QED BY <1>1, JobsAreJobs DEF PairOf, Pair

\* Nothing a step does to the jobs and the invoices takes an entitlement away.
LEMMA EntitledStable ==
  ASSUME NEW p,
         \A r \in Request : IsJob(r) => job'[r] = job[r],
         \A r \in Request : invoice[r] = "paid" => invoice'[r] = "paid",
         Entitled(p)
  PROVE  Entitled(p)'
BY DEF Entitled, Entitles, IsJob, PairOf

\* Purchase starts in the invariant.
LEMMA InitIInv == Init => IInv
<1> SUFFICES ASSUME Init PROVE IInv
  OBVIOUS
<1>1. TypeOK
  BY DEF Init, TypeOK, Pair, Final, ReqPC, HookPC
<1>2. RequestInv
  BY DEF Init, RequestInv, IsJob, InTx
<1> QED
  BY <1>1, <1>2, CrashBound DEF Init, IInv, InvoiceInv, OrderInv, HookInv, NoticeInv,
     OneSuccessNotice, EnrollmentBacked, PayableIsRecoverable,
     StatusIsTruthful, InTx

-----------------------------------------------------------------------------
(* The request's steps *)

\* A request that reads its course keeps the inductive invariant.
LEMMA ReadCourseIInv ==
  ASSUME IInv, NEW r \in Request, NEW u \in User, NEW c \in Course,
         NEW kind \in {"order", "enroll"}, ReadCourse(r, u, c, kind)
  PROVE  IInv'
<1> DEFINE j == [kind |-> kind, user |-> u, course |-> c, free |-> c \in is_free,
                 open |-> c \in is_open /\ c \notin is_completed]
<1>1. j \in Jobs /\ j # NoJob
  <2>1. (c \in is_free) \in BOOLEAN
    OBVIOUS
  <2>2. (c \in is_open /\ c \notin is_completed) \in BOOLEAN
    OBVIOUS
  <2> HIDE DEF j
  <2>3. \A f, o \in BOOLEAN :
          [kind |-> kind, user |-> u, course |-> c, free |-> f, open |-> o] \in Jobs
    BY DEF Jobs
  <2>4. j \in Jobs
    BY <2>1, <2>2, <2>3 DEF j
  <2> QED BY <2>4, JobsAreJobs
<1>2. /\ job' = [job EXCEPT ![r] = j] /\ rpc' = [rpc EXCEPT ![r] = "read"]
      /\ rpc[r] = "new" /\ ~IsJob(r)
      /\ UNCHANGED <<courseVars, enrollments, orders, notices, xenditVars,
                     hookVars, crashes>>
  BY DEF ReadCourse, IInv, RequestInv
<1> HIDE DEF j
<1> USE DEF courseVars, xenditVars, hookVars
<1>3. TypeOK'
  BY <1>1, <1>2 DEF IInv, TypeOK, ReqPC
<1>4. \A s \in Request : s # r => job'[s] = job[s] /\ rpc'[s] = rpc[s]
  BY <1>2 DEF IInv, TypeOK
<1>5. job'[r] = j /\ rpc'[r] = "read"
  BY <1>2 DEF IInv, TypeOK
<1>6. RequestInv'
  BY <1>1, <1>4, <1>5, <1>2 DEF IInv, RequestInv, IsJob, InTx
<1>7. InvoiceInv'
  BY <1>1, <1>4, <1>5, <1>2 DEF IInv, InvoiceInv, IsJob, InTx
<1>8. OrderInv' /\ HookInv' /\ PayableIsRecoverable' /\ StatusIsTruthful'
  BY <1>1, <1>2, <1>4, <1>5 DEF IInv, OrderInv, HookInv, IsJob, PayableIsRecoverable,
     StatusIsTruthful, InvoiceInv, TypeOK
<1>9. NoticeInv'
  BY <1>1, <1>2, <1>4, <1>5 DEF IInv, NoticeInv, OneSuccessNotice, Closed, PairOf, IsJob,
     HookInv, TypeOK
<1>10. EnrollmentBacked'
  BY <1>2, <1>4, EntitledStable DEF IInv, EnrollmentBacked
<1> QED
  BY <1>3, <1>6, <1>7, <1>8, <1>9, <1>10 DEF IInv

\* The enrolment check of either handler keeps the inductive invariant.
LEMMA CheckIsEnrollmentIInv ==
  ASSUME IInv, NEW r \in Request, CheckIsEnrollment(r)
  PROVE  IInv'
<1> USE DEF CheckIsEnrollment, courseVars, reqVars, xenditVars, hookVars
<1>1. TypeOK'
  BY PairOfType DEF IInv, TypeOK, RequestInv, HookInv, ReqPC, InTx, HookPC, Final
<1>2. RequestInv' /\ InvoiceInv' /\ OrderInv' /\ HookInv'
  BY DEF IInv, TypeOK, RequestInv, InvoiceInv, OrderInv, HookInv, InTx, IsJob, Final
<1>3. NoticeInv'
  BY PairOfType DEF IInv, TypeOK, NoticeInv, OneSuccessNotice, Closed, PairOf, IsJob,
     HookInv, RequestInv
<1>4. EnrollmentBacked'
  BY EntitledStable DEF IInv, TypeOK, EnrollmentBacked
<1>5. PayableIsRecoverable' /\ StatusIsTruthful'
  BY DEF IInv, TypeOK, PayableIsRecoverable, StatusIsTruthful, InvoiceInv, OrderInv, InTx
<1> QED
  BY <1>1, <1>2, <1>3, <1>4, <1>5 DEF IInv

\* A free enrolment keeps the inductive invariant.
LEMMA InsertFreeEnrollmentIInv ==
  ASSUME IInv, NEW r \in Request, InsertFreeEnrollment(r)
  PROVE  IInv'
<1> USE DEF InsertFreeEnrollment, courseVars, reqVars, xenditVars, hookVars
<1>1. TypeOK'
  BY PairOfType DEF IInv, TypeOK, RequestInv, HookInv, ReqPC, InTx, HookPC, Final
<1>2. RequestInv' /\ InvoiceInv' /\ OrderInv' /\ HookInv'
  BY DEF IInv, TypeOK, RequestInv, InvoiceInv, OrderInv, HookInv, InTx, IsJob, Final
<1>3. NoticeInv'
  BY PairOfType DEF IInv, TypeOK, NoticeInv, OneSuccessNotice, Closed, PairOf, IsJob,
     HookInv, RequestInv
<1>4. EnrollmentBacked'
  <2>1. PICK p \in Pair : p = PairOf(r)
    BY PairOfType DEF IInv, RequestInv, IsJob
  <2>2. Entitles(r, p)
    BY <2>1 DEF IInv, RequestInv, IsJob, Entitles
  <2>3. Entitled(p)'
    BY <2>2, EntitledStable DEF Entitled
  <2>4. \A q \in enrollments : Entitled(q)'
    BY EntitledStable DEF IInv, EnrollmentBacked
  <2>5. enrollments' \subseteq enrollments \cup {p}
    BY <2>1
  <2> QED BY <2>3, <2>4, <2>5 DEF EnrollmentBacked
<1>5. PayableIsRecoverable' /\ StatusIsTruthful'
  BY DEF IInv, TypeOK, PayableIsRecoverable, StatusIsTruthful, InvoiceInv, OrderInv, InTx
<1> QED
  BY <1>1, <1>2, <1>3, <1>4, <1>5 DEF IInv

\* The notification of a free enrolment keeps the inductive invariant.
LEMMA NotifyFreeIInv ==
  ASSUME IInv, NEW r \in Request, NotifyFree(r)
  PROVE  IInv'
<1> USE DEF NotifyFree, courseVars, reqVars, xenditVars, hookVars
<1>1. TypeOK'
  BY PairOfType DEF IInv, TypeOK, RequestInv, HookInv, ReqPC, InTx, HookPC, Final
<1>2. RequestInv' /\ InvoiceInv' /\ OrderInv' /\ HookInv'
  BY DEF IInv, TypeOK, RequestInv, InvoiceInv, OrderInv, HookInv, InTx, IsJob, Final
<1>3. NoticeInv'
  BY PairOfType DEF IInv, TypeOK, NoticeInv, OneSuccessNotice, Closed, PairOf, IsJob,
     HookInv, RequestInv
<1>4. EnrollmentBacked'
  BY EntitledStable DEF IInv, TypeOK, EnrollmentBacked
<1>5. PayableIsRecoverable' /\ StatusIsTruthful'
  BY DEF IInv, TypeOK, PayableIsRecoverable, StatusIsTruthful, InvoiceInv, OrderInv, InTx
<1> QED
  BY <1>1, <1>2, <1>3, <1>4, <1>5 DEF IInv

\* The order's insert inside its transaction keeps the inductive invariant.
LEMMA CreateOrderIInv ==
  ASSUME IInv, NEW r \in Request, CreateOrder(r)
  PROVE  IInv'
<1> USE DEF CreateOrder, courseVars, reqVars, xenditVars, hookVars
<1>1. TypeOK'
  BY PairOfType DEF IInv, TypeOK, RequestInv, HookInv, ReqPC, InTx, HookPC, Final
<1>2. RequestInv' /\ InvoiceInv' /\ OrderInv' /\ HookInv'
  BY DEF IInv, TypeOK, RequestInv, InvoiceInv, OrderInv, HookInv, InTx, IsJob, Final
<1>3. NoticeInv'
  BY PairOfType DEF IInv, TypeOK, NoticeInv, OneSuccessNotice, Closed, PairOf, IsJob,
     HookInv, RequestInv
<1>4. EnrollmentBacked'
  BY EntitledStable DEF IInv, TypeOK, EnrollmentBacked
<1>5. PayableIsRecoverable' /\ StatusIsTruthful'
  BY DEF IInv, TypeOK, PayableIsRecoverable, StatusIsTruthful, InvoiceInv, OrderInv, InTx
<1> QED
  BY <1>1, <1>2, <1>3, <1>4, <1>5 DEF IInv

\* The creation of an invoice, which no rollback undoes, keeps the inductive invariant.
LEMMA CreateSNAPIInv ==
  ASSUME IInv, NEW r \in Request, CreateSNAP(r)
  PROVE  IInv'
<1> USE DEF CreateSNAP, courseVars, reqVars, xenditVars, hookVars
<1>1. TypeOK'
  BY PairOfType DEF IInv, TypeOK, RequestInv, HookInv, ReqPC, InTx, HookPC, Final
<1>2. RequestInv' /\ InvoiceInv' /\ OrderInv' /\ HookInv'
  BY DEF IInv, TypeOK, RequestInv, InvoiceInv, OrderInv, HookInv, InTx, IsJob, Final
<1>3. NoticeInv'
  BY PairOfType DEF IInv, TypeOK, NoticeInv, OneSuccessNotice, Closed, PairOf, IsJob,
     HookInv, RequestInv
<1>4. EnrollmentBacked'
  <2>1. \A s \in Request : invoice[s] = "paid" => invoice'[s] = "paid"
    BY DEF IInv, TypeOK, InvoiceInv
  <2> QED BY <2>1, EntitledStable DEF IInv, EnrollmentBacked
<1>5. PayableIsRecoverable' /\ StatusIsTruthful'
  BY DEF IInv, TypeOK, PayableIsRecoverable, StatusIsTruthful, InvoiceInv, OrderInv, InTx
<1> QED
  BY <1>1, <1>2, <1>3, <1>4, <1>5 DEF IInv

\* The update that stores the invoice's id in the order keeps the inductive invariant.
LEMMA LinkInvoiceIInv ==
  ASSUME IInv, NEW r \in Request, LinkInvoice(r)
  PROVE  IInv'
<1> USE DEF LinkInvoice, courseVars, reqVars, xenditVars, hookVars
<1>1. TypeOK'
  BY PairOfType DEF IInv, TypeOK, RequestInv, HookInv, ReqPC, InTx, HookPC, Final
<1>2. RequestInv' /\ InvoiceInv' /\ OrderInv' /\ HookInv'
  BY DEF IInv, TypeOK, RequestInv, InvoiceInv, OrderInv, HookInv, InTx, IsJob, Final
<1>3. NoticeInv'
  BY PairOfType DEF IInv, TypeOK, NoticeInv, OneSuccessNotice, Closed, PairOf, IsJob,
     HookInv, RequestInv
<1>4. EnrollmentBacked'
  BY EntitledStable DEF IInv, TypeOK, EnrollmentBacked
<1>5. PayableIsRecoverable' /\ StatusIsTruthful'
  BY DEF IInv, TypeOK, PayableIsRecoverable, StatusIsTruthful, InvoiceInv, OrderInv, InTx
<1> QED
  BY <1>1, <1>2, <1>3, <1>4, <1>5 DEF IInv

\* The notification sent before the commit keeps the inductive invariant.
LEMMA NotifyWaitingIInv ==
  ASSUME IInv, NEW r \in Request, NotifyWaiting(r)
  PROVE  IInv'
<1> USE DEF NotifyWaiting, courseVars, reqVars, xenditVars, hookVars
<1>1. TypeOK'
  BY PairOfType DEF IInv, TypeOK, RequestInv, HookInv, ReqPC, InTx, HookPC, Final
<1>2. RequestInv' /\ InvoiceInv' /\ OrderInv' /\ HookInv'
  BY DEF IInv, TypeOK, RequestInv, InvoiceInv, OrderInv, HookInv, InTx, IsJob, Final
<1>3. NoticeInv'
  BY PairOfType DEF IInv, TypeOK, NoticeInv, OneSuccessNotice, Closed, PairOf, IsJob,
     HookInv, RequestInv
<1>4. EnrollmentBacked'
  BY EntitledStable DEF IInv, TypeOK, EnrollmentBacked
<1>5. PayableIsRecoverable' /\ StatusIsTruthful'
  BY DEF IInv, TypeOK, PayableIsRecoverable, StatusIsTruthful, InvoiceInv, OrderInv, InTx
<1> QED
  BY <1>1, <1>2, <1>3, <1>4, <1>5 DEF IInv

\* The commit that makes the order visible and hands out its page keeps the inductive invariant.
LEMMA CommitOrderIInv ==
  ASSUME IInv, NEW r \in Request, CommitOrder(r)
  PROVE  IInv'
<1> USE DEF CommitOrder, courseVars, reqVars, xenditVars, hookVars
<1>1. TypeOK'
  BY PairOfType DEF IInv, TypeOK, RequestInv, HookInv, ReqPC, InTx, HookPC, Final
<1>2. RequestInv' /\ InvoiceInv' /\ OrderInv' /\ HookInv'
  BY DEF IInv, TypeOK, RequestInv, InvoiceInv, OrderInv, HookInv, InTx, IsJob, Final
<1>3. NoticeInv'
  BY PairOfType DEF IInv, TypeOK, NoticeInv, OneSuccessNotice, Closed, PairOf, IsJob,
     HookInv, RequestInv
<1>4. EnrollmentBacked'
  BY EntitledStable DEF IInv, TypeOK, EnrollmentBacked
<1>5. PayableIsRecoverable' /\ StatusIsTruthful'
  BY DEF IInv, TypeOK, PayableIsRecoverable, StatusIsTruthful, InvoiceInv, OrderInv, InTx
<1> QED
  BY <1>1, <1>2, <1>3, <1>4, <1>5 DEF IInv

\* A rollback that leaves its invoice behind keeps the inductive invariant.
LEMMA AbortOrderIInv ==
  ASSUME IInv, NEW r \in Request, AbortOrder(r)
  PROVE  IInv'
<1> USE DEF AbortOrder, courseVars, reqVars, xenditVars, hookVars
<1>1. TypeOK'
  BY PairOfType DEF IInv, TypeOK, RequestInv, HookInv, ReqPC, InTx, HookPC, Final
<1>2. RequestInv' /\ InvoiceInv' /\ OrderInv' /\ HookInv'
  BY DEF IInv, TypeOK, RequestInv, InvoiceInv, OrderInv, HookInv, InTx, IsJob, Final
<1>3. NoticeInv'
  BY PairOfType DEF IInv, TypeOK, NoticeInv, OneSuccessNotice, Closed, PairOf, IsJob,
     HookInv, RequestInv
<1>4. EnrollmentBacked'
  BY EntitledStable DEF IInv, TypeOK, EnrollmentBacked
<1>5. PayableIsRecoverable' /\ StatusIsTruthful'
  BY DEF IInv, TypeOK, PayableIsRecoverable, StatusIsTruthful, InvoiceInv, OrderInv, InTx
<1> QED
  BY <1>1, <1>2, <1>3, <1>4, <1>5 DEF IInv

\* A look at a pending order's payment page keeps the inductive invariant.
LEMMA FindOneIInv ==
  ASSUME IInv, NEW r \in Request, FindOne(r)
  PROVE  IInv'
<1> USE DEF FindOne, courseVars, reqVars, xenditVars, hookVars
<1>1. TypeOK'
  BY PairOfType DEF IInv, TypeOK, RequestInv, HookInv, ReqPC, InTx, HookPC, Final
<1>2. RequestInv' /\ InvoiceInv' /\ OrderInv' /\ HookInv'
  BY DEF IInv, TypeOK, RequestInv, InvoiceInv, OrderInv, HookInv, InTx, IsJob, Final
<1>3. NoticeInv'
  BY PairOfType DEF IInv, TypeOK, NoticeInv, OneSuccessNotice, Closed, PairOf, IsJob,
     HookInv, RequestInv
<1>4. EnrollmentBacked'
  BY EntitledStable DEF IInv, TypeOK, EnrollmentBacked
<1>5. PayableIsRecoverable' /\ StatusIsTruthful'
  BY DEF IInv, TypeOK, PayableIsRecoverable, StatusIsTruthful, InvoiceInv, OrderInv, InTx
<1> QED
  BY <1>1, <1>2, <1>3, <1>4, <1>5 DEF IInv

-----------------------------------------------------------------------------
(* Xendit *)

\* A payment keeps the inductive invariant.
LEMMA PayIInv ==
  ASSUME IInv, NEW r \in Request, Pay(r)
  PROVE  IInv'
<1> USE DEF Pay, courseVars, reqVars, xenditVars, hookVars
<1>1. TypeOK'
  BY PairOfType DEF IInv, TypeOK, RequestInv, HookInv, ReqPC, InTx, HookPC, Final
<1>2. RequestInv' /\ InvoiceInv' /\ OrderInv' /\ HookInv'
  BY DEF IInv, TypeOK, RequestInv, InvoiceInv, OrderInv, HookInv, InTx, IsJob, Final
<1>3. NoticeInv'
  BY PairOfType DEF IInv, TypeOK, NoticeInv, OneSuccessNotice, Closed, PairOf, IsJob,
     HookInv, RequestInv
<1>4. EnrollmentBacked'
  BY EntitledStable DEF IInv, TypeOK, EnrollmentBacked
<1>5. PayableIsRecoverable' /\ StatusIsTruthful'
  BY DEF IInv, TypeOK, PayableIsRecoverable, StatusIsTruthful, InvoiceInv, OrderInv, InTx
<1> QED
  BY <1>1, <1>2, <1>3, <1>4, <1>5 DEF IInv

\* An invoice's expiry keeps the inductive invariant.
LEMMA ExpireIInv ==
  ASSUME IInv, NEW r \in Request, Expire(r)
  PROVE  IInv'
<1> USE DEF Expire, courseVars, reqVars, xenditVars, hookVars
<1>1. TypeOK'
  BY PairOfType DEF IInv, TypeOK, RequestInv, HookInv, ReqPC, InTx, HookPC, Final
<1>2. RequestInv' /\ InvoiceInv' /\ OrderInv' /\ HookInv'
  BY DEF IInv, TypeOK, RequestInv, InvoiceInv, OrderInv, HookInv, InTx, IsJob, Final
<1>3. NoticeInv'
  BY PairOfType DEF IInv, TypeOK, NoticeInv, OneSuccessNotice, Closed, PairOf, IsJob,
     HookInv, RequestInv
<1>4. EnrollmentBacked'
  BY EntitledStable DEF IInv, TypeOK, EnrollmentBacked
<1>5. PayableIsRecoverable' /\ StatusIsTruthful'
  BY DEF IInv, TypeOK, PayableIsRecoverable, StatusIsTruthful, InvoiceInv, OrderInv, InTx
<1> QED
  BY <1>1, <1>2, <1>3, <1>4, <1>5 DEF IInv

-----------------------------------------------------------------------------
(* The webhook *)

\* A callback that finds its order keeps the inductive invariant.
LEMMA ReceiveIInv ==
  ASSUME IInv, NEW h \in Handler, NEW r \in Request, Receive(h, r)
  PROVE  IInv'
<1> USE DEF Receive, courseVars, reqVars, xenditVars, hookVars
<1>1. TypeOK'
  BY PairOfType DEF IInv, TypeOK, RequestInv, HookInv, ReqPC, InTx, HookPC, Final
<1>2. RequestInv' /\ InvoiceInv' /\ OrderInv' /\ HookInv'
  BY DEF IInv, TypeOK, RequestInv, InvoiceInv, OrderInv, HookInv, InTx, IsJob, Final
<1>3. NoticeInv'
  BY PairOfType DEF IInv, TypeOK, NoticeInv, OneSuccessNotice, Closed, PairOf, IsJob,
     HookInv, RequestInv
<1>4. EnrollmentBacked'
  BY EntitledStable DEF IInv, TypeOK, EnrollmentBacked
<1>5. PayableIsRecoverable' /\ StatusIsTruthful'
  BY DEF IInv, TypeOK, PayableIsRecoverable, StatusIsTruthful, InvoiceInv, OrderInv, InTx
<1> QED
  BY <1>1, <1>2, <1>3, <1>4, <1>5 DEF IInv

\* The update of an order's status by a callback keeps the inductive invariant.
LEMMA UpdateStatusIInv ==
  ASSUME IInv, NEW h \in Handler, UpdateStatus(h)
  PROVE  IInv'
<1> USE DEF UpdateStatus, WriteStatus, AfterStatus, courseVars, reqVars, xenditVars, hookVars
<1>1. TypeOK'
  BY PairOfType DEF IInv, TypeOK, RequestInv, HookInv, ReqPC, InTx, HookPC, Final
<1>2. RequestInv' /\ InvoiceInv' /\ OrderInv' /\ HookInv'
  BY DEF IInv, TypeOK, RequestInv, InvoiceInv, OrderInv, HookInv, InTx, IsJob, Final
<1>3. NoticeInv'
  BY PairOfType DEF IInv, TypeOK, NoticeInv, OneSuccessNotice, Closed, PairOf, IsJob,
     HookInv, RequestInv
<1>4. EnrollmentBacked'
  BY EntitledStable DEF IInv, TypeOK, EnrollmentBacked
<1>5. PayableIsRecoverable' /\ StatusIsTruthful'
  BY DEF IInv, TypeOK, PayableIsRecoverable, StatusIsTruthful, InvoiceInv, OrderInv, InTx
<1> QED
  BY <1>1, <1>2, <1>3, <1>4, <1>5 DEF IInv

\* The enrolment of a buyer by a callback, first or repeated, keeps the inductive invariant.
LEMMA CreateEnrollmentIInv ==
  ASSUME IInv, NEW h \in Handler, CreateEnrollment(h)
  PROVE  IInv'
<1> USE DEF CreateEnrollment, courseVars, reqVars, xenditVars, hookVars
<1>1. TypeOK'
  BY PairOfType DEF IInv, TypeOK, RequestInv, HookInv, ReqPC, InTx, HookPC, Final
<1>2. RequestInv' /\ InvoiceInv' /\ OrderInv' /\ HookInv'
  BY DEF IInv, TypeOK, RequestInv, InvoiceInv, OrderInv, HookInv, InTx, IsJob, Final
<1>3. NoticeInv'
  BY PairOfType DEF IInv, TypeOK, NoticeInv, OneSuccessNotice, Closed, PairOf, IsJob,
     HookInv, RequestInv
<1>4. EnrollmentBacked'
  <2> DEFINE r == hinv[h]
  <2>1. r \in Request /\ IsJob(r) /\ invoice[r] = "paid" /\ job[r].kind = "order"
    BY DEF IInv, TypeOK, HookInv, InvoiceInv, Final
  <2>2. PICK p \in Pair : p = PairOf(r)
    BY <2>1, PairOfType DEF IInv
  <2>3. Entitled(p)
    BY <2>1, <2>2 DEF Entitled, Entitles
  <2>4. Entitled(p)'
    BY <2>3, EntitledStable
  <2>5. \A q \in enrollments : Entitled(q)'
    BY EntitledStable DEF IInv, EnrollmentBacked
  <2>6. enrollments' \subseteq enrollments \cup {p}
    BY <2>2
  <2> QED BY <2>4, <2>5, <2>6 DEF EnrollmentBacked
<1>5. PayableIsRecoverable' /\ StatusIsTruthful'
  BY DEF IInv, TypeOK, PayableIsRecoverable, StatusIsTruthful, InvoiceInv, OrderInv, InTx
<1> QED
  BY <1>1, <1>2, <1>3, <1>4, <1>5 DEF IInv

\* The notification of a paid enrolment keeps the inductive invariant.
LEMMA NotifyPaidIInv ==
  ASSUME IInv, NEW h \in Handler, NotifyPaid(h)
  PROVE  IInv'
<1> USE DEF NotifyPaid, courseVars, reqVars, xenditVars, hookVars
<1>1. TypeOK'
  BY PairOfType DEF IInv, TypeOK, RequestInv, HookInv, ReqPC, InTx, HookPC, Final
<1>2. RequestInv' /\ InvoiceInv' /\ OrderInv' /\ HookInv'
  BY DEF IInv, TypeOK, RequestInv, InvoiceInv, OrderInv, HookInv, InTx, IsJob, Final
<1>3. NoticeInv'
  <2> DEFINE p == PairOf(hinv[h])
  <2>1. p \in Pair /\ hinv[h] \in Request /\ notices[p] = 0 /\ Closed(p)
    BY PairOfType DEF IInv, TypeOK, HookInv, NoticeInv
  <2>2. \A q \in Pair : notices'[q] = notices[q] \/ (q = p /\ notices'[q] = 1)
    BY <2>1 DEF IInv, TypeOK
  <2>3. \A q : Closed(q)' <=> Closed(q)
    BY DEF Closed
  <2>4. \A s \in Request : PairOf(s)' = PairOf(s) /\ rpc'[s] = rpc[s]
    BY DEF PairOf
  <2>5. \A g \in Handler : hpc'[g] = "notify" => g # h /\ hpc[g] = "notify"
    BY DEF IInv, TypeOK
  <2>6. \A s \in Request : rpc[s] = "notify" => PairOf(s) # p /\ PairOf(s) \in Pair
    BY PairOfType DEF IInv, TypeOK, NoticeInv, RequestInv
  <2>7. \A g \in Handler :
          hpc'[g] = "notify" =>
            hinv'[g] = hinv[g] /\ PairOf(hinv[g]) # p /\ PairOf(hinv[g]) \in Pair
    BY <2>5, PairOfType DEF IInv, TypeOK, NoticeInv, HookInv
  <2>8. \A g \in Handler : hinv[g] \in Request /\ PairOf(hinv[g])' = PairOf(hinv[g])
    BY DEF PairOf, IInv, TypeOK
  <2>9. OneSuccessNotice'
    BY <2>2 DEF IInv, NoticeInv, OneSuccessNotice
  <2> HIDE DEF p
  <2>10. \A q \in Pair : notices'[q] # 0 => Closed(q)'
    BY <2>1, <2>2, <2>3 DEF IInv, NoticeInv
  <2>11. \A s \in Request :
           rpc'[s] = "notify" => (notices[PairOf(s)] = 0 /\ Closed(PairOf(s)))'
    <3>1. \A s \in Request :
             rpc[s] = "notify" =>
               /\ notices[PairOf(s)] = 0 /\ Closed(PairOf(s))
               /\ notices'[PairOf(s)] = notices[PairOf(s)]
      BY <2>2, <2>6 DEF IInv, NoticeInv
    <3>2. \A s \in Request : (notices[PairOf(s)])' = notices'[PairOf(s)]
      BY <2>4
    <3>3. \A s \in Request : Closed(PairOf(s)) => Closed(PairOf(s))'
      BY <2>4 DEF Closed
    <3> QED BY <3>1, <3>2, <3>3, <2>4
  <2>12. \A g \in Handler :
           hpc'[g] = "notify" =>
             (notices[PairOf(hinv[g])] = 0 /\ Closed(PairOf(hinv[g])))'
    BY <2>2, <2>3, <2>5, <2>7, <2>8 DEF IInv, NoticeInv
  <2> QED
    BY <2>4, <2>5, <2>7, <2>8, <2>9, <2>10, <2>11, <2>12 DEF IInv, NoticeInv
<1>4. EnrollmentBacked'
  BY EntitledStable DEF IInv, TypeOK, EnrollmentBacked
<1>5. PayableIsRecoverable' /\ StatusIsTruthful'
  BY DEF IInv, TypeOK, PayableIsRecoverable, StatusIsTruthful, InvoiceInv, OrderInv, InTx
<1> QED
  BY <1>1, <1>2, <1>3, <1>4, <1>5 DEF IInv

\* The answer to a callback, delivered or lost, keeps the inductive invariant.
LEMMA RespondIInv ==
  ASSUME IInv, NEW h \in Handler, Respond(h)
  PROVE  IInv'
<1> USE DEF Respond, courseVars, reqVars, xenditVars, hookVars
<1>1. TypeOK'
  BY PairOfType DEF IInv, TypeOK, RequestInv, HookInv, ReqPC, InTx, HookPC, Final
<1>2. RequestInv' /\ InvoiceInv' /\ OrderInv' /\ HookInv'
  BY DEF IInv, TypeOK, RequestInv, InvoiceInv, OrderInv, HookInv, InTx, IsJob, Final
<1>3. NoticeInv'
  BY PairOfType DEF IInv, TypeOK, NoticeInv, OneSuccessNotice, Closed, PairOf, IsJob,
     HookInv, RequestInv
<1>4. EnrollmentBacked'
  BY EntitledStable DEF IInv, TypeOK, EnrollmentBacked
<1>5. PayableIsRecoverable' /\ StatusIsTruthful'
  BY DEF IInv, TypeOK, PayableIsRecoverable, StatusIsTruthful, InvoiceInv, OrderInv, InTx
<1> QED
  BY <1>1, <1>2, <1>3, <1>4, <1>5 DEF IInv

-----------------------------------------------------------------------------
(* The course, and the death of a process *)

\* An update of the course under open requests keeps the inductive invariant.
LEMMA UpdateCourseIInv ==
  ASSUME IInv, NEW c \in Course, UpdateCourse(c)
  PROVE  IInv'
<1> USE DEF UpdateCourse, courseVars, reqVars, xenditVars, hookVars
<1>1. TypeOK'
  BY PairOfType DEF IInv, TypeOK, RequestInv, HookInv, ReqPC, InTx, HookPC, Final
<1>2. RequestInv' /\ InvoiceInv' /\ OrderInv' /\ HookInv'
  BY DEF IInv, TypeOK, RequestInv, InvoiceInv, OrderInv, HookInv, InTx, IsJob, Final
<1>3. NoticeInv'
  BY PairOfType DEF IInv, TypeOK, NoticeInv, OneSuccessNotice, Closed, PairOf, IsJob,
     HookInv, RequestInv
<1>4. EnrollmentBacked'
  BY EntitledStable DEF IInv, TypeOK, EnrollmentBacked
<1>5. PayableIsRecoverable' /\ StatusIsTruthful'
  BY DEF IInv, TypeOK, PayableIsRecoverable, StatusIsTruthful, InvoiceInv, OrderInv, InTx
<1> QED
  BY <1>1, <1>2, <1>3, <1>4, <1>5 DEF IInv

\* The end of a course under open requests keeps the inductive invariant.
LEMMA EndCourseIInv ==
  ASSUME IInv, NEW c \in Course, EndCourse(c)
  PROVE  IInv'
<1> USE DEF EndCourse, courseVars, reqVars, xenditVars, hookVars
<1>1. TypeOK'
  BY PairOfType DEF IInv, TypeOK, RequestInv, HookInv, ReqPC, InTx, HookPC, Final
<1>2. RequestInv' /\ InvoiceInv' /\ OrderInv' /\ HookInv'
  BY DEF IInv, TypeOK, RequestInv, InvoiceInv, OrderInv, HookInv, InTx, IsJob, Final
<1>3. NoticeInv'
  BY PairOfType DEF IInv, TypeOK, NoticeInv, OneSuccessNotice, Closed, PairOf, IsJob,
     HookInv, RequestInv
<1>4. EnrollmentBacked'
  BY EntitledStable DEF IInv, TypeOK, EnrollmentBacked
<1>5. PayableIsRecoverable' /\ StatusIsTruthful'
  BY DEF IInv, TypeOK, PayableIsRecoverable, StatusIsTruthful, InvoiceInv, OrderInv, InTx
<1> QED
  BY <1>1, <1>2, <1>3, <1>4, <1>5 DEF IInv

\* The removal of a course with its orders and enrolments keeps the inductive invariant.
LEMMA RemoveCourseIInv ==
  ASSUME IInv, NEW c \in Course, RemoveCourse(c)
  PROVE  IInv'
<1> USE DEF RemoveCourse, courseVars, reqVars, xenditVars, hookVars
<1>1. TypeOK'
  BY PairOfType DEF IInv, TypeOK, RequestInv, HookInv, ReqPC, InTx, HookPC, Final
<1>2. RequestInv' /\ InvoiceInv' /\ OrderInv' /\ HookInv'
  BY DEF IInv, TypeOK, RequestInv, InvoiceInv, OrderInv, HookInv, InTx, IsJob, Final
<1>3. NoticeInv'
  BY PairOfType DEF IInv, TypeOK, NoticeInv, OneSuccessNotice, Closed, PairOf, IsJob,
     HookInv, RequestInv
<1>4. EnrollmentBacked'
  BY EntitledStable DEF IInv, TypeOK, EnrollmentBacked
<1>5. PayableIsRecoverable' /\ StatusIsTruthful'
  BY DEF IInv, TypeOK, PayableIsRecoverable, StatusIsTruthful, InvoiceInv, OrderInv, InTx
<1> QED
  BY <1>1, <1>2, <1>3, <1>4, <1>5 DEF IInv

\* The death of any of the requests and callbacks being served keeps the inductive invariant.
LEMMA CrashIInv ==
  ASSUME IInv, Crash
  PROVE  IInv'
<1> USE DEF Crash, courseVars, reqVars, xenditVars, hookVars
<1>1. TypeOK'
  BY PairOfType DEF IInv, TypeOK, RequestInv, HookInv, ReqPC, InTx, HookPC, Final
<1>2. RequestInv' /\ InvoiceInv' /\ OrderInv' /\ HookInv'
  BY DEF IInv, TypeOK, RequestInv, InvoiceInv, OrderInv, HookInv, InTx, IsJob, Final
<1>3. NoticeInv'
  BY PairOfType DEF IInv, TypeOK, NoticeInv, OneSuccessNotice, Closed, PairOf, IsJob,
     HookInv, RequestInv
<1>4. EnrollmentBacked'
  BY EntitledStable DEF IInv, TypeOK, EnrollmentBacked
<1>5. PayableIsRecoverable' /\ StatusIsTruthful'
  BY DEF IInv, TypeOK, PayableIsRecoverable, StatusIsTruthful, InvoiceInv, OrderInv, InTx
<1> QED
  BY <1>1, <1>2, <1>3, <1>4, <1>5 DEF IInv

-----------------------------------------------------------------------------
(* The invariants *)

\* Every step of the system, the stuttering step included, keeps the inductive invariant.
LEMMA NextIInv ==
  ASSUME IInv, [Next]_vars
  PROVE  IInv'
<1>1. CASE UNCHANGED vars
  <2> USE <1>1 DEF vars, courseVars, reqVars, xenditVars, hookVars
  <2>1. TypeOK' /\ RequestInv' /\ InvoiceInv' /\ OrderInv' /\ HookInv'
    BY DEF IInv, TypeOK, RequestInv, InvoiceInv, OrderInv, HookInv, IsJob
  <2>2. NoticeInv'
    BY DEF IInv, NoticeInv, OneSuccessNotice, Closed, PairOf
  <2>3. EnrollmentBacked' /\ PayableIsRecoverable' /\ StatusIsTruthful'
    BY EntitledStable DEF IInv, EnrollmentBacked, PayableIsRecoverable,
       StatusIsTruthful
  <2> QED BY <2>1, <2>2, <2>3 DEF IInv
<1>2. ASSUME NEW r \in Request, NEW u \in User, NEW c \in Course,
             NEW kind \in {"order", "enroll"}, ReadCourse(r, u, c, kind)
      PROVE  IInv'
  BY <1>2, ReadCourseIInv
<1>3. ASSUME NEW r \in Request, Step(r)
      PROVE  IInv'
  BY <1>3, CheckIsEnrollmentIInv, InsertFreeEnrollmentIInv, NotifyFreeIInv,
     CreateOrderIInv, CreateSNAPIInv, LinkInvoiceIInv, NotifyWaitingIInv,
     CommitOrderIInv, AbortOrderIInv DEF Step
<1>4. ASSUME NEW r \in Request, FindOne(r) \/ Pay(r) \/ Expire(r)
      PROVE  IInv'
  BY <1>4, FindOneIInv, PayIInv, ExpireIInv
<1>5. ASSUME NEW h \in Handler, NEW r \in Request, Receive(h, r)
      PROVE  IInv'
  BY <1>5, ReceiveIInv
<1>6. ASSUME NEW h \in Handler, Hook(h)
      PROVE  IInv'
  BY <1>6, UpdateStatusIInv, CreateEnrollmentIInv, NotifyPaidIInv, RespondIInv
     DEF Hook
<1>7. ASSUME NEW c \in Course, UpdateCourse(c) \/ EndCourse(c) \/ RemoveCourse(c)
      PROVE  IInv'
  BY <1>7, UpdateCourseIInv, EndCourseIInv, RemoveCourseIInv
<1>8. CASE Crash
  BY <1>8, CrashIInv
<1> QED
  BY <1>1, <1>2, <1>3, <1>4, <1>5, <1>6, <1>7, <1>8 DEF Next

\* The conjunction of everything below is an invariant, and an inductive one.
THEOREM Invariance == Spec => []IInv
<1>1. IInv /\ [Next]_vars => IInv'
  BY NextIInv
<1> QED
  BY <1>1, InitIInv, PTL DEF Spec

\* Every variable keeps the type the schema gives the data behind it.
THEOREM TypeCorrect == Spec => []TypeOK
<1>1. IInv => TypeOK BY DEF IInv
<1> QED BY <1>1, Invariance, PTL

\* However requests, callbacks and restarts interleave, nobody is enrolled who
\* has neither paid an invoice nor been read into a free, open course.
THEOREM NobodyEntersUnpaid == Spec => []EnrollmentBacked
<1>1. IInv => EnrollmentBacked BY DEF IInv
<1> QED BY <1>1, Invariance, PTL

\* A payment page in a buyer's hands always belongs to an order the webhook can
\* find, as long as the course exists.
THEOREM PaymentsAreRecoverable == Spec => []PayableIsRecoverable
<1>1. IInv => PayableIsRecoverable BY DEF IInv
<1> QED BY <1>1, Invariance, PTL

\* An order never records an outcome other than its invoice's.
THEOREM OrdersTellTheTruth == Spec => []StatusIsTruthful
<1>1. IInv => StatusIsTruthful BY DEF IInv
<1> QED BY <1>1, Invariance, PTL

\* Redelivered and concurrent callbacks congratulate a user once per course.
THEOREM CongratulatedOnce == Spec => []OneSuccessNotice
<1>1. IInv => OneSuccessNotice BY DEF IInv, NoticeInv
<1> QED BY <1>1, Invariance, PTL

-----------------------------------------------------------------------------
(* Purchase implements EnrollmentLedger *)

Rights == {p \in Pair : Entitled(p)}

\* Rights depend on the jobs and on which invoices are paid, and on nothing else.
LEMMA RightsKept ==
  ASSUME job' = job,
         \A r \in Request : invoice'[r] = "paid" <=> invoice[r] = "paid"
  PROVE  Rights' = Rights
BY DEF Rights, Entitled, Entitles, IsJob, PairOf

\* An empty enrolment table and no notifications start the ledger.
LEMMA InitRefines == Init => Ledger!Init
<1> SUFFICES ASSUME Init PROVE Ledger!Init
  OBVIOUS
<1>1. {p \in Pair : Entitled(p)} = {}
  BY DEF Init, Entitled, Entitles, IsJob
<1> QED BY <1>1 DEF Init, Ledger!Init, Pair

\* A request that reads the course, or a payment, entitles at most one pair.
LEMMA EntitleRefines ==
  ASSUME NEW r \in Request, NEW p \in Pair,
         UNCHANGED <<live, enrollments, notices>>,
         \A q \in Pair : Entitled(q) => Entitled(q)',
         \A q \in Pair : Entitled(q)' => Entitled(q) \/ q = p
  PROVE  [Ledger!Next]_(Ledger!ledger)
<1>1. CASE Entitled(p)' /\ ~Entitled(p)
  <2>1. Rights' = Rights \cup {p} /\ p \notin Rights
    BY <1>1 DEF Rights, Pair
  <2> QED BY <2>1 DEF Rights, Ledger!Next, Ledger!Entitle, Pair
<1>2. CASE ~(Entitled(p)' /\ ~Entitled(p))
  <2>1. Rights' = Rights
    BY <1>2 DEF Rights, Pair
  <2> QED BY <2>1 DEF Rights, Ledger!ledger
<1> QED BY <1>1, <1>2

\* Every step of the system is a step of the ledger or leaves it alone.
LEMMA NextRefines ==
  ASSUME IInv, IInv', [Next]_vars
  PROVE  [Ledger!Next]_(Ledger!ledger)
<1> USE DEF courseVars, reqVars, xenditVars, hookVars
<1>0. ASSUME UNCHANGED <<live, enrollments, notices, job>>,
             \A r \in Request : invoice'[r] = "paid" <=> invoice[r] = "paid"
      PROVE  UNCHANGED Ledger!ledger
  BY <1>0, RightsKept DEF Rights, Ledger!ledger
<1>1. ASSUME NEW r \in Request, NEW u \in User, NEW c \in Course,
             NEW kind \in {"order", "enroll"}, ReadCourse(r, u, c, kind)
      PROVE  [Ledger!Next]_(Ledger!ledger)
  <2>1. ~IsJob(r) /\ \A s \in Request : s # r => job'[s] = job[s]
    BY <1>1 DEF ReadCourse, IInv, TypeOK, RequestInv
  <2>2. job'[r].user = u /\ job'[r].course = c
    BY <1>1 DEF ReadCourse, IInv, TypeOK
  <2>3. \A q \in Pair : Entitled(q) => Entitled(q)'
    BY <1>1, <2>1, EntitledStable DEF ReadCourse
  <2>4. PICK p \in Pair : p = <<u, c>>
    BY DEF Pair
  <2>5. \A q \in Pair : Entitled(q)' => Entitled(q) \/ q = p
    BY <1>1, <2>1, <2>2, <2>4 DEF ReadCourse, Entitled, Entitles, IsJob, PairOf
  <2>6. UNCHANGED <<live, enrollments, notices>>
    BY <1>1 DEF ReadCourse
  <2> QED BY <2>3, <2>5, <2>6, EntitleRefines
<1>2. ASSUME NEW r \in Request, Pay(r)
      PROVE  [Ledger!Next]_(Ledger!ledger)
  <2>1. IsJob(r)
    BY <1>2 DEF Pay, IInv, InvoiceInv
  <2>2. PICK p \in Pair : p = PairOf(r)
    BY <2>1, PairOfType DEF IInv
  <2>3. \A s \in Request : s # r => invoice'[s] = invoice[s]
    BY <1>2 DEF Pay, IInv, TypeOK
  <2>4. \A q \in Pair : Entitled(q) => Entitled(q)'
    BY <1>2, EntitledStable DEF Pay, IInv, TypeOK
  <2>5. \A q \in Pair : Entitled(q)' => Entitled(q) \/ q = p
    BY <1>2, <2>2, <2>3 DEF Pay, Entitled, Entitles, IsJob, PairOf
  <2> QED BY <1>2, <2>4, <2>5, EntitleRefines DEF Pay
<1>3. ASSUME NEW r \in Request, NEW p \in Pair, p = PairOf(r), Entitled(p),
             p \notin enrollments, job[r].course \in live,
             enrollments' = enrollments \cup {p},
             UNCHANGED <<live, notices, job, invoice>>
      PROVE  Ledger!Next
  <2>1. p[2] \in live
    BY <1>3 DEF PairOf
  <2>2. Rights' = Rights /\ p \in Rights
    BY <1>3, RightsKept DEF Rights
  <2> QED BY <1>3, <2>1, <2>2 DEF Rights, Ledger!Next, Ledger!Enroll, Pair
<1>4. ASSUME NEW p \in Pair, Closed(p), notices[p] = 0,
             notices' = [notices EXCEPT ![p] = @ + 1],
             UNCHANGED <<live, enrollments, job, invoice>>
      PROVE  Ledger!Next
  <2>1. notices' = [notices EXCEPT ![p] = 1]
    BY <1>4
  <2>2. Rights' = Rights
    BY <1>4, RightsKept
  <2> QED BY <1>4, <2>1, <2>2 DEF Rights, Closed, Ledger!Next, Ledger!Announce, Pair
<1>5. ASSUME NEW r \in Request, Step(r)
      PROVE  [Ledger!Next]_(Ledger!ledger)
  <2>1. CASE CreateSNAP(r)
    BY <1>0, <2>1 DEF CreateSNAP, IInv, TypeOK, InvoiceInv
  <2>2. CASE \/ CheckIsEnrollment(r) \/ CreateOrder(r) \/ LinkInvoice(r)
             \/ NotifyWaiting(r) \/ CommitOrder(r) \/ AbortOrder(r)
    BY <1>0, <2>2 DEF CheckIsEnrollment, CreateOrder, LinkInvoice,
       NotifyWaiting, CommitOrder, AbortOrder
  <2>3. CASE InsertFreeEnrollment(r)
    <3>1. PICK p \in Pair : p = PairOf(r)
      BY <2>3, PairOfType DEF InsertFreeEnrollment, IInv, RequestInv
    <3>2. Entitled(p)
      BY <2>3, <3>1 DEF InsertFreeEnrollment, IInv, RequestInv, IsJob, Entitled,
         Entitles
    <3> QED BY <2>3, <3>1, <3>2, <1>0, <1>3 DEF InsertFreeEnrollment
  <2>4. CASE NotifyFree(r)
    <3>1. PICK p \in Pair : p = PairOf(r)
      BY <2>4, PairOfType DEF NotifyFree, IInv, RequestInv
    <3>2. Closed(p) /\ notices[p] = 0
      BY <2>4, <3>1 DEF NotifyFree, IInv, NoticeInv
    <3> QED BY <2>4, <3>1, <3>2, <1>0, <1>4 DEF NotifyFree
  <2> QED BY <1>5, <2>1, <2>2, <2>3, <2>4 DEF Step
<1>6. ASSUME NEW h \in Handler, Hook(h)
      PROVE  [Ledger!Next]_(Ledger!ledger)
  <2> DEFINE r == hinv[h]
  <2>1. CASE UpdateStatus(h) \/ Respond(h)
    BY <1>0, <2>1 DEF UpdateStatus, WriteStatus, Respond
  <2>2. CASE CreateEnrollment(h)
    <3>1. r \in Request /\ IsJob(r) /\ job[r].kind = "order" /\ invoice[r] = "paid"
      BY <2>2 DEF CreateEnrollment, IInv, TypeOK, HookInv, InvoiceInv
    <3>2. PICK p \in Pair : p = PairOf(r)
      BY <3>1, PairOfType DEF IInv
    <3>3. Entitled(p)
      BY <3>1, <3>2 DEF Entitled, Entitles
    <3> QED BY <2>2, <3>1, <3>2, <3>3, <1>0, <1>3 DEF CreateEnrollment
  <2>3. CASE NotifyPaid(h)
    <3>1. PICK p \in Pair : p = PairOf(r)
      BY <2>3, PairOfType DEF NotifyPaid, IInv, TypeOK, HookInv
    <3>2. Closed(p) /\ notices[p] = 0
      BY <2>3, <3>1 DEF NotifyPaid, IInv, NoticeInv
    <3> QED BY <2>3, <3>1, <3>2, <1>0, <1>4 DEF NotifyPaid
  <2> QED BY <1>6, <2>1, <2>2, <2>3 DEF Hook
<1>7. ASSUME NEW c \in Course, RemoveCourse(c)
      PROVE  [Ledger!Next]_(Ledger!ledger)
  <2>1. Rights' = Rights
    BY <1>7, RightsKept DEF RemoveCourse
  <2>2. Ledger!Withdraw(c)
    BY <1>7, <2>1 DEF RemoveCourse, Ledger!Withdraw, Rights
  <2> QED BY <2>2 DEF Ledger!Next
<1>8. ASSUME \/ UNCHANGED vars \/ Crash
             \/ \E r \in Request : FindOne(r) \/ Expire(r)
             \/ \E h \in Handler, r \in Request : Receive(h, r)
             \/ \E c \in Course : UpdateCourse(c) \/ EndCourse(c)
      PROVE  [Ledger!Next]_(Ledger!ledger)
  BY <1>0, <1>8 DEF vars, Crash, FindOne, Expire, Receive, UpdateCourse,
     EndCourse, IInv, TypeOK
<1> QED
  BY <1>1, <1>2, <1>5, <1>6, <1>7, <1>8 DEF Next

\* The checkout, the webhook and Xendit together implement the ledger: rights
\* are never taken back, enrolments need one and vanish only with their course,
\* and each is announced once.
THEOREM Refinement == Spec => LedgerSpec
<1>1. IInv /\ IInv' /\ [Next]_vars => [Ledger!Next]_(Ledger!ledger)
  BY NextRefines
<1> QED
  BY <1>1, InitRefines, Invariance, PTL DEF Spec, LedgerSpec, Ledger!Spec
=============================================================================
