---------------------------- MODULE CourseProofs -----------------------------
(***************************************************************************)
(* Proofs about what a course charges and what it grants.                  *)
(*                                                                         *)
(* CoursePricing: its type invariant, that a discount stays below the      *)
(* price unless it was judged, or kept, by one that had changed, and what  *)
(* follows for orders.  DiscountBelowPrice alone is not inductive: an      *)
(* offer between its read and its write must be below the price it has     *)
(* read (OffersJudged).                                                    *)
(*                                                                         *)
(* Certificates: every invariant its run checks, from CertInv, and the     *)
(* invariant of the attendance it is granted for.  What calculateDuration  *)
(* sums up to an entry of a log is at most the time between the first      *)
(* entry and that one, by induction over the entries: a number for which   *)
(* it fails would have a least one before it (Least, AllNumbers); and so   *)
(* for the sums over a student's rows.                                     *)
(***************************************************************************)
EXTENDS CoursePricing, Certificates, FiniteSetTheorems, NaturalsInduction,
        WellFoundedInduction, TLAPS

-----------------------------------------------------------------------------
(* Prices and discounts *)

LEMMA AmountsAreIntegers == \A p \in Prices : Amount(p) \in Int
  BY PricesAreNumbers DEF Prices, Amount

LEMMA PricingTypeInit == PricingInit => PricingTypeOK
  BY DEF PricingInit, PricingTypeOK, Idle, NoOrder

LEMMA PricingTypeNext == PricingTypeOK /\ [PricingNext]_pricingVars => PricingTypeOK'
<1> SUFFICES ASSUME PricingTypeOK, [PricingNext]_pricingVars PROVE PricingTypeOK'
  OBVIOUS
<1> USE DEF PricingTypeOK
<1>1. ASSUME NEW a \in Admin, ReadForUpdate(a) PROVE PricingTypeOK'
  <2>1. discount.price \in Prices
    BY DEF Discounts, NoDiscount, Prices
  <2> QED BY <1>1, <2>1 DEF ReadForUpdate, Updates
<1>2. ASSUME NEW a \in Admin, UpdateCourse(a) PROVE PricingTypeOK'
  <2>1. op[a] \in Updates
    BY <1>2 DEF UpdateCourse, Idle, Removal, Offers
  <2>2. stale' \in BOOLEAN
    BY <1>2 DEF UpdateCourse
  <2> QED BY <1>2, <2>1, <2>2 DEF UpdateCourse, Updates
<1>3. ASSUME NEW a \in Admin, ReadForCreate(a) \/ ReadForChange(a) PROVE PricingTypeOK'
  BY <1>3 DEF ReadForCreate, ReadForChange, Judge, Offers
<1>4. ASSUME NEW a \in Admin, WriteDiscount(a) PROVE PricingTypeOK'
  <2>1. op[a] \in Offers
    BY <1>4 DEF WriteDiscount, Idle, Removal, Updates
  <2> QED BY <1>4, <2>1 DEF WriteDiscount, Offers
<1>5. ASSUME NEW a \in Admin, ReadForRemoval(a) \/ RemoveDiscount(a) PROVE PricingTypeOK'
  BY <1>5 DEF ReadForRemoval, RemoveDiscount
<1>6. ASSUME NEW b \in Buyer, ReadForOrder(b) PROVE PricingTypeOK'
  BY <1>6 DEF ReadForOrder, Reading
<1>7. ASSUME NEW b \in Buyer, CreateOrder(b) PROVE PricingTypeOK'
  <2>1. order[b] \in Reading
    BY <1>7 DEF CreateOrder, NoOrder, Charged
  <2> DEFINE cut == Amount(order[b].price) - discount.price
  <2>2. IsDiscountValid => discount.price \in Price /\ cut \in Int
    <3>1. IsDiscountValid => discount.price \in Price
      BY DEF IsDiscountValid, Discounts, NoDiscount
    <3>2. Amount(order[b].price) \in Int
      BY <2>1, AmountsAreIntegers DEF Reading
    <3>3. \A p \in Price : p \in Int
      BY PricesAreNumbers
    <3> QED BY <3>1, <3>2, <3>3
  <2>3. order' = [order EXCEPT ![b] =
          IF IsDiscountValid THEN [pc |-> "charged", total |-> discount.price, cut |-> cut]
          ELSE IF order[b].price = NotGiven THEN NoOrder
          ELSE [pc |-> "charged", total |-> order[b].price, cut |-> 0]]
    BY <1>7 DEF CreateOrder
  <2> HIDE DEF cut
  <2>4. order'[b] \in {NoOrder} \cup Charged
    BY <2>1, <2>2, <2>3 DEF Charged, Reading, Prices
  <2> QED BY <1>7, <2>3, <2>4 DEF CreateOrder
<1>8. ASSUME TimePasses PROVE PricingTypeOK'
  BY <1>8 DEF TimePasses, HasDiscount, Discounts, Phase
<1>9. ASSUME UNCHANGED pricingVars PROVE PricingTypeOK'
  BY <1>9 DEF pricingVars
<1> QED BY <1>1, <1>2, <1>3, <1>4, <1>5, <1>6, <1>7, <1>8, <1>9 DEF PricingNext

\* Every variable of CoursePricing keeps its type, whoever and however many the
\* administrators are (CoursesService.update, CourseDiscountService, orderCourse).
THEOREM PricingTyped == PricingSpec => []PricingTypeOK
  BY PricingTypeInit, PricingTypeNext, PTL DEF PricingSpec

-----------------------------------------------------------------------------
\* An offer that is on its way lies below the price it was judged by.
OffersJudged ==
  \A a \in Admin : op[a].kind \in {"create", "change"} =>
    op[a].row.price < Amount(op[a].seenPrice)

PricingInv == PricingTypeOK /\ OffersJudged /\ DiscountBelowPrice

LEMMA PricingInvInit == PricingInit => PricingInv
  BY PricingTypeInit DEF PricingInit, PricingInv, OffersJudged, DiscountBelowPrice, HasDiscount, Idle

LEMMA PricingInvNext ==
  ASSUME PricingInv, [PricingNext]_pricingVars PROVE PricingInv'
<1>0. PricingTypeOK /\ PricingTypeOK'
  BY PricingTypeNext DEF PricingInv
<1> USE DEF PricingInv
<1>1. ASSUME NEW a \in Admin, ReadForUpdate(a) \/ ReadForRemoval(a) PROVE PricingInv'
  BY <1>0, <1>1 DEF ReadForUpdate, ReadForRemoval, Removal, OffersJudged, DiscountBelowPrice,
     HasDiscount, PricingTypeOK
<1>2. ASSUME NEW a \in Admin, UpdateCourse(a) PROVE PricingInv'
  <2>1. OffersJudged'
    BY <1>0, <1>2 DEF UpdateCourse, OffersJudged, Idle, PricingTypeOK
  <2>2. ASSUME HasDiscount', ~stale' PROVE HasDiscount /\ ~stale /\ UNCHANGED <<price, discount>>
    <3>1. ~DropsDiscount(op[a]) /\ HasDiscount /\ discount' = discount
      BY <1>2, <2>2 DEF UpdateCourse, HasDiscount
    <3>2. ~stale /\ (price' = price \/ op[a].seenPrice = price)
      BY <1>2, <2>2, <3>1 DEF UpdateCourse
    <3>3. op[a].price = op[a].seenPrice
      BY <3>1 DEF DropsDiscount
    <3> QED BY <1>2, <3>1, <3>2, <3>3 DEF UpdateCourse
  <2> QED BY <1>0, <2>1, <2>2 DEF DiscountBelowPrice
<1>3. ASSUME NEW a \in Admin, ReadForCreate(a) \/ ReadForChange(a) PROVE PricingInv'
  <2>1. PICK kind \in {"create", "change"} : Judge(a, kind)
    BY <1>3 DEF ReadForCreate, ReadForChange
  <2>2. OffersJudged'
    BY <1>0, <2>1 DEF Judge, OffersJudged, PricingTypeOK
  <2> QED BY <1>0, <2>1, <2>2 DEF Judge, DiscountBelowPrice, HasDiscount
<1>4. ASSUME NEW a \in Admin, WriteDiscount(a) PROVE PricingInv'
  <2>1. OffersJudged'
    BY <1>0, <1>4 DEF WriteDiscount, OffersJudged, Idle, PricingTypeOK
  <2> QED BY <1>0, <1>4, <2>1 DEF WriteDiscount, OffersJudged, DiscountBelowPrice, HasDiscount
<1>5. ASSUME NEW a \in Admin, RemoveDiscount(a) PROVE PricingInv'
  BY <1>0, <1>5 DEF RemoveDiscount, OffersJudged, Idle, DiscountBelowPrice, HasDiscount, PricingTypeOK
<1>6. ASSUME NEW b \in Buyer, ReadForOrder(b) \/ CreateOrder(b) PROVE PricingInv'
  BY <1>0, <1>6 DEF ReadForOrder, CreateOrder, OffersJudged, DiscountBelowPrice, HasDiscount
<1>7. ASSUME TimePasses PROVE PricingInv'
  <2>1. discount'.price = discount.price
    BY <1>0, <1>7 DEF TimePasses, PricingTypeOK, HasDiscount, Discounts
  <2> QED BY <1>0, <1>7, <2>1 DEF TimePasses, OffersJudged, DiscountBelowPrice, HasDiscount
<1>8. ASSUME UNCHANGED pricingVars PROVE PricingInv'
  BY <1>0, <1>8 DEF pricingVars, OffersJudged, DiscountBelowPrice, HasDiscount
<1> QED BY <1>1, <1>2, <1>3, <1>4, <1>5, <1>6, <1>7, <1>8 DEF PricingNext

\* However many administrators there are, and however prices, discounts and the clock
\* move, a discount is below the price unless it was written after the price it was
\* judged by had changed, or kept by an update that had read another price than the
\* one it replaced (CoursesService.update, CourseDiscountService).
THEOREM DiscountsStayBelow == PricingSpec => []DiscountBelowPrice
<1>1. PricingInv => DiscountBelowPrice
  BY DEF PricingInv
<1> QED BY <1>1, PricingInvInit, PricingInvNext, PTL DEF PricingSpec

\* And an order charges more than the price it has read only if that price is no
\* longer the course's, or the discount is such a one (orderCourse).
THEOREM OverchargesAreStale == PricingSpec => OverchargeIsStale
<1>1. PricingInv /\ [PricingNext]_pricingVars =>
        [\A b \in Buyer : order[b].pc = "read" /\ order'[b].pc = "charged"
           => order'[b].cut >= 0 \/ order[b].price # price \/ stale]_pricingVars
  <2> SUFFICES ASSUME PricingInv, [PricingNext]_pricingVars,
                      NEW b \in Buyer, order[b].pc = "read", order'[b].pc = "charged",
                      order[b].price = price, ~stale
               PROVE  order'[b].cut >= 0
    BY Zenon
  <2> USE DEF PricingInv, PricingTypeOK
  <2>1. order' # order
    BY Zenon
  <2>2. PICK c \in Buyer : ReadForOrder(c) \/ CreateOrder(c)
    BY <2>1 DEF PricingNext, pricingVars, ReadForUpdate, UpdateCourse, ReadForCreate, ReadForChange,
                Judge, WriteDiscount, ReadForRemoval, RemoveDiscount, TimePasses
  <2>3. CreateOrder(b)
    BY <2>2 DEF ReadForOrder, CreateOrder, NoOrder
  <2>4. IsDiscountValid => discount.price \in Int /\ discount.price < Amount(price)
    <3>1. IsDiscountValid => HasDiscount /\ discount.price \in Price
      BY DEF IsDiscountValid, Discounts, NoDiscount, HasDiscount
    <3>2. \A p \in Price : p \in Int
      BY PricesAreNumbers
    <3> QED BY <3>1, <3>2 DEF DiscountBelowPrice
  <2>5. Amount(price) \in Int
    BY AmountsAreIntegers
  <2> DEFINE cut == Amount(order[b].price) - discount.price
  <2>6. order'[b].cut = IF IsDiscountValid THEN cut ELSE 0
    <3>1. order' = [order EXCEPT ![b] =
            IF IsDiscountValid THEN [pc |-> "charged", total |-> discount.price, cut |-> cut]
            ELSE IF order[b].price = NotGiven THEN NoOrder
            ELSE [pc |-> "charged", total |-> order[b].price, cut |-> 0]]
      BY <2>3 DEF CreateOrder
    <3> HIDE DEF cut
    <3> QED BY <3>1 DEF NoOrder
  <2> QED BY <2>4, <2>5, <2>6
<1> QED BY <1>1, PricingInvInit, PricingInvNext, PTL DEF PricingSpec, OverchargeIsStale

-----------------------------------------------------------------------------
(* The inductive invariant of Certificates *)

\* Entries of a log are in the order of their arrival, a row that is not made has none,
\* a handler writes to its own student's row, and no update that is on its way credits
\* more than has passed.
LogInv ==
  /\ \A r \in Row : \A i, k \in 1 .. Len(log[r]) :
       /\ log[r][i].at <= now
       /\ i <= k => log[r][i].at <= log[r][k].at
  /\ \A r \in Row : owner[r] = Nobody => log[r] = <<>>
  /\ \A u \in Student, c \in Call : call[u][c].pc = "log" => owner[call[u][c].row] = u
  /\ \A w \in writes : w.total <= Elapsed(w.row)

LogsTyped == AttendanceTypeOK /\ LogInv /\ NeverOverCredited

Work == [pc : {"off", "number", "findC", "create", "scores", "emitC", "findP", "createP",
               "emitP", "done", "failed"},
         user : Student \cup {Nobody}, average : [QuizType -> Average],
         number : Nat, id : Nat, made : BOOLEAN]
Certificate ==
  [user : Student, no : {"C", "P"} \X Nat, file : Student \cup {"none"},
   scores : SUBSET QuizType, asked : Request]

WorkTyped ==
  /\ task \in [Job -> [Place -> Work]]
  /\ job \in [Job -> [waits : BOOLEAN, runs : Nat, credit : [Student -> Int]]]
  /\ \A j \in Job : asked[j] \in Request
  /\ grade \in [Student -> [QuizType -> Average]]

\* A certificate's number is at most its id, and it was earned.
CertificatesInv ==
  /\ cert \in Seq(Certificate)
  /\ \A i \in 1 .. Len(cert) : cert[i].no \in {"C", "P"} \X (1 .. i)
  /\ \A i \in 1 .. Len(cert), u \in Student :
       cert[i].user = u => Earned(cert[i], grade[u], Attended(u))

\* A job has read credit for no more than has passed.
JobInv == \A j \in Job, u \in Student : job[j].credit[u] <= Attended(u)

\* Work that is about to find or make a certificate has seen that it is earned, and
\* work that makes one that there was none, unless other work was under way.
WorkFine(j, p) ==
  LET t == task[j][p] IN
  /\ t.pc # "off" => t.user \in Student
  /\ t.id <= Len(cert)
  /\ t.pc \notin {"off", "number"} =>
       t.number \in 1 .. Len(cert) + 1 /\ <<t.user, t.number>> \in drawn
  /\ t.pc \in {"findC", "create"} => Competent(grade[t.user], asked[j])
  /\ t.pc \in {"findP", "createP"} => Participated(j, t.user)
  /\ t.pc \in {"create", "createP"} => CertificatesOf(t.user) = {} \/ t.user \in overlap

WorkInv == \A j \in Job, p \in Place : WorkFine(j, p)

\* Two tasks that work on one student are noticed.
OverlapInv ==
  \A j, k \in Job, p, o \in Place, u \in Student :
    (j # k \/ p # o) /\ WorksOn(j, p, u) /\ WorksOn(k, o, u) => u \in overlap

\* An event, and a file, is of work that has read the number it bears.
FileInv ==
  /\ \A e \in sent : e.user \in Student /\ <<e.user, e.no[2]>> \in drawn
  /\ \A i \in 1 .. Len(cert) : cert[i].file # "none" => <<cert[i].file, cert[i].no[2]>> \in drawn

CertInv ==
  /\ LogsTyped /\ WorkTyped /\ CertificatesInv
  /\ JobInv /\ WorkInv /\ OverlapInv /\ FileInv /\ OneCertificate

-----------------------------------------------------------------------------
(* Induction over the entries of a log *)

LEMMA Least ==
  ASSUME NEW some \in SUBSET Nat, some # {}
  PROVE  \E m \in some : \A k \in some : m <= k
<1> DEFINE less == OpToRel(<, Nat)
<1>1. IsWellFoundedOn(less, Nat)
  BY NatLessThanWellFounded
<1>2. \A x, y \in Nat : x < y => <<x, y>> \in less
  BY DEF OpToRel
<1> HIDE DEF less
<1>3. \E x \in some : \A y \in some : ~ (<<y, x>> \in less)
  BY <1>1, WFMin
<1>4. PICK x \in some : \A y \in some : ~ (<<y, x>> \in less)
  BY <1>3
<1>5. ASSUME NEW k \in some PROVE x <= k
  <2>1. ~ (k < x)
    BY <1>2, <1>4
  <2> QED BY <2>1
<1> QED BY <1>5

LEMMA AllNumbers ==
  ASSUME NEW some \in SUBSET Nat, 0 \in some, \A n \in some : n + 1 \in some
  PROVE  some = Nat
<1>1. SUFFICES ASSUME Nat \ some # {} PROVE FALSE
  OBVIOUS
<1>2. PICK m \in Nat \ some : \A k \in Nat \ some : m <= k
  BY <1>1, Least
<1>3. m # 0 /\ m - 1 \in Nat /\ m - 1 \in some
  BY <1>2
<1>4. (m - 1) + 1 = m
  BY <1>2
<1> QED BY <1>2, <1>3, <1>4

\* What calculateDuration knows after its first entries, as a function.
Known(times, entries, last) ==
  times = [n \in 0 .. last |-> IF n = 0 THEN NoTimes
                               ELSE Counted(Noted(times[n - 1], entries[n]))]

LEMMA TimesExist ==
  ASSUME NEW entries, NEW last \in Nat
  PROVE  \E times : Known(times, entries, last)
<1> DEFINE some == {n \in Nat : \E times : Known(times, entries, n)}
<1>1. 0 \in some
  <2> DEFINE times == [n \in 0 .. 0 |-> NoTimes]
  <2>1. Known(times, entries, 0)
    BY DEF Known
  <2> QED BY <2>1
<1>2. ASSUME NEW n \in some PROVE n + 1 \in some
  <2>1. PICK times : Known(times, entries, n)
    BY <1>2
  <2> DEFINE more == [k \in 0 .. n + 1 |->
                        IF k = n + 1 THEN Counted(Noted(times[n], entries[n + 1])) ELSE times[k]]
  <2>2. n \in Nat
    OBVIOUS
  <2>3. ASSUME NEW k \in 0 .. n + 1
        PROVE  more[k] = IF k = 0 THEN NoTimes ELSE Counted(Noted(more[k - 1], entries[k]))
    <3>1. CASE k = n + 1
      <4>1. k - 1 = n /\ more[n] = times[n] /\ k # 0
        BY <2>2, <3>1
      <4> QED BY <3>1, <4>1
    <3>2. CASE k # n + 1
      <4>1. k \in 0 .. n /\ more[k] = times[k] /\ (k # 0 => more[k - 1] = times[k - 1])
        BY <2>2, <3>2
      <4>2. times[k] = IF k = 0 THEN NoTimes ELSE Counted(Noted(times[k - 1], entries[k]))
        BY <2>1, <4>1 DEF Known
      <4> QED BY <4>1, <4>2
    <3> QED BY <3>1, <3>2
  <2>4. more = [k \in 0 .. n + 1 |-> more[k]]
    OBVIOUS
  <2> HIDE DEF more
  <2>5. Known(more, entries, n + 1)
    BY <2>3, <2>4 DEF Known
  <2> QED BY <2>2, <2>5
<1> HIDE DEF some
<1>3. some = Nat
  <2>1. some \in SUBSET Nat
    BY DEF some
  <2> QED BY <1>1, <1>2, <2>1, AllNumbers
<1> QED BY <1>3 DEF some

LEMMA TimesAreKnown ==
  ASSUME NEW entries \in Seq(Entry)
  PROVE  /\ TimesOf(entries)[0] = NoTimes
         /\ \A n \in 1 .. Len(entries) :
              TimesOf(entries)[n] = Counted(Noted(TimesOf(entries)[n - 1], entries[n]))
<1>1. TimesOf(entries) = CHOOSE times : Known(times, entries, Len(entries))
  BY DEF TimesOf, Known
<1>2. Len(entries) \in Nat
  OBVIOUS
<1>3. Known(TimesOf(entries), entries, Len(entries))
  BY <1>1, <1>2, TimesExist
<1>4. ASSUME NEW n \in 0 .. Len(entries)
      PROVE  TimesOf(entries)[n] = IF n = 0 THEN NoTimes
                                   ELSE Counted(Noted(TimesOf(entries)[n - 1], entries[n]))
  BY <1>3, <1>4 DEF Known
<1> QED BY <1>2, <1>4

\* No more is counted than has passed; of an interval that is open, no more than had
\* passed when it was opened.
Covers(times, since, until) ==
  /\ times \in [join : Int, disconnect : Int, total : Int]
  /\ times.total <= until - since
  /\ times.join # Never => /\ times.disconnect = Never
                           /\ times.join <= until /\ times.total <= times.join - since
  /\ times.disconnect # Never => times.disconnect <= until

LEMMA EntryIsCovered ==
  ASSUME NEW times, NEW since \in Int, NEW until \in Int, Covers(times, since, until),
         NEW e \in Entry, until <= e.at
  PROVE  Covers(Counted(Noted(times, e)), since, e.at)
<1>1. e.at \in Nat /\ e.at # Never /\ e.kind \in {"join", "disconnect"}
  BY AttendanceBounds DEF Entry, Event, Never
<1>2. times \in [join : Int, disconnect : Int, total : Int] /\ Never \in Int
  BY DEF Covers, Never
<1>3. CASE e.kind = "join" /\ times.disconnect = Never
  <2>1. Counted(Noted(times, e)) = [times EXCEPT !.join = e.at]
    BY <1>2, <1>3 DEF Counted, Noted
  <2> QED BY <1>1, <1>2, <1>3, <2>1 DEF Covers
<1>4. CASE e.kind = "join" /\ times.disconnect # Never
  <2>1. Counted(Noted(times, e)) = [join |-> Never, disconnect |-> Never,
                                    total |-> times.total + (times.disconnect - e.at)]
    BY <1>1, <1>2, <1>4 DEF Counted, Noted, NoTimes
  <2> QED BY <1>1, <1>2, <1>4, <2>1 DEF Covers
<1>5. CASE e.kind = "disconnect" /\ times.join = Never
  <2>1. Counted(Noted(times, e)) = [times EXCEPT !.disconnect = e.at]
    BY <1>2, <1>5 DEF Counted, Noted
  <2> QED BY <1>1, <1>2, <1>5, <2>1 DEF Covers
<1>6. CASE e.kind = "disconnect" /\ times.join # Never
  <2>1. Counted(Noted(times, e)) = [join |-> Never, disconnect |-> Never,
                                    total |-> times.total + (e.at - times.join)]
    BY <1>1, <1>2, <1>6 DEF Counted, Noted, NoTimes
  <2> QED BY <1>1, <1>2, <1>6, <2>1 DEF Covers
<1> QED BY <1>1, <1>3, <1>4, <1>5, <1>6

\* Running totals of a log in order of arrival are covered by its first entry and the
\* entry that they follow.
LEMMA TotalsAreCovered ==
  ASSUME NEW entries \in Seq(Entry), NEW last \in 1 .. Len(entries),
         \A i, k \in 1 .. Len(entries) : i <= k => entries[i].at <= entries[k].at
  PROVE  /\ RunningTotal(entries)[last] \in Int
         /\ RunningTotal(entries)[last] <= entries[last].at - entries[1].at
<1> DEFINE since == entries[1].at
           some == {n \in Nat : n + 1 <= Len(entries) =>
                      Covers(TimesOf(entries)[n + 1], since, entries[n + 1].at)}
<1>0. /\ Len(entries) \in Nat
      /\ \A n \in 1 .. Len(entries) : entries[n] \in Entry /\ entries[n].at \in Int
  <2>1. \A e \in Entry : e.at \in Int
    BY AttendanceBounds DEF Entry
  <2>2. \A n \in 1 .. Len(entries) : entries[n] \in Entry
    OBVIOUS
  <2> QED BY <2>1, <2>2
<1>1. 0 \in some
  <2>1. 1 \in 1 .. Len(entries)
    BY <1>0
  <2>2. since \in Int /\ entries[1] \in Entry
    BY <1>0, <2>1
  <2>3. Covers(NoTimes, since, since)
    BY <2>2 DEF Covers, NoTimes, Never
  <2>4. TimesOf(entries)[1] = Counted(Noted(NoTimes, entries[1]))
    <3>1. TimesOf(entries)[1] = Counted(Noted(TimesOf(entries)[1 - 1], entries[1]))
      BY <2>1, TimesAreKnown
    <3> QED BY <3>1, TimesAreKnown
  <2>5. Covers(TimesOf(entries)[1], since, entries[1].at)
    BY <2>2, <2>3, <2>4, EntryIsCovered
  <2> QED BY <2>5
<1>2. ASSUME NEW n \in some PROVE n + 1 \in some
  <2>1. n \in Nat
    OBVIOUS
  <2>2. ASSUME (n + 1) + 1 <= Len(entries)
        PROVE  Covers(TimesOf(entries)[(n + 1) + 1], since, entries[(n + 1) + 1].at)
    <3>1. n + 1 \in 1 .. Len(entries) /\ (n + 1) + 1 \in 1 .. Len(entries) /\ 1 \in 1 .. Len(entries)
          /\ ((n + 1) + 1) - 1 = n + 1
      BY <1>0, <2>1, <2>2
    <3>2. Covers(TimesOf(entries)[n + 1], since, entries[n + 1].at)
      BY <1>0, <2>1, <3>1
    <3>3. entries[n + 1].at <= entries[(n + 1) + 1].at
      BY <1>0, <2>1, <3>1
    <3>4. TimesOf(entries)[(n + 1) + 1]
            = Counted(Noted(TimesOf(entries)[n + 1], entries[(n + 1) + 1]))
      BY <3>1, TimesAreKnown
    <3>5. since \in Int /\ entries[n + 1].at \in Int /\ entries[(n + 1) + 1] \in Entry
      BY <1>0, <3>1
    <3> HIDE DEF since
    <3> QED BY <3>2, <3>3, <3>4, <3>5, EntryIsCovered
  <2> QED BY <2>1, <2>2
<1> HIDE DEF some
<1>3. last - 1 \in some
  <2>1. some = Nat
    <3>1. some \in SUBSET Nat
      BY DEF some
    <3> QED BY <1>1, <1>2, <3>1, AllNumbers
  <2> QED BY <1>0, <2>1
<1>4. Covers(TimesOf(entries)[last], since, entries[last].at)
  <2>1. (last - 1) + 1 = last /\ last <= Len(entries)
    BY <1>0
  <2> QED BY <1>3, <2>1 DEF some
<1>5. RunningTotal(entries)[last] = TimesOf(entries)[last].total
  BY <1>0 DEF RunningTotal
<1> QED BY <1>4, <1>5 DEF Covers

\* A sum over the rows, as a function.
Summed(sum, weight, last) ==
  sum = [n \in 0 .. last |-> IF n = 0 THEN 0 ELSE sum[n - 1] + weight[n]]

LEMMA SumExists ==
  ASSUME NEW weight, NEW last \in Nat
  PROVE  \E sum : Summed(sum, weight, last)
<1> DEFINE some == {n \in Nat : \E sum : Summed(sum, weight, n)}
<1>1. 0 \in some
  <2> DEFINE sum == [n \in 0 .. 0 |-> 0]
  <2>1. Summed(sum, weight, 0)
    BY DEF Summed
  <2> QED BY <2>1
<1>2. ASSUME NEW n \in some PROVE n + 1 \in some
  <2>1. PICK sum : Summed(sum, weight, n)
    BY <1>2
  <2> DEFINE more == [k \in 0 .. n + 1 |->
                        IF k = n + 1 THEN sum[n] + weight[n + 1] ELSE sum[k]]
  <2>2. n \in Nat
    OBVIOUS
  <2>3. ASSUME NEW k \in 0 .. n + 1
        PROVE  more[k] = IF k = 0 THEN 0 ELSE more[k - 1] + weight[k]
    <3>1. CASE k = n + 1
      <4>1. k - 1 = n /\ more[n] = sum[n] /\ k # 0
        BY <2>2, <3>1
      <4> QED BY <3>1, <4>1
    <3>2. CASE k # n + 1
      <4>1. k \in 0 .. n /\ more[k] = sum[k] /\ (k # 0 => more[k - 1] = sum[k - 1])
        BY <2>2, <3>2
      <4>2. sum[k] = IF k = 0 THEN 0 ELSE sum[k - 1] + weight[k]
        BY <2>1, <4>1 DEF Summed
      <4> QED BY <4>1, <4>2
    <3> QED BY <3>1, <3>2
  <2>4. more = [k \in 0 .. n + 1 |-> more[k]]
    OBVIOUS
  <2> HIDE DEF more
  <2>5. Summed(more, weight, n + 1)
    BY <2>3, <2>4 DEF Summed
  <2> QED BY <2>2, <2>5
<1> HIDE DEF some
<1>3. some = Nat
  <2>1. some \in SUBSET Nat
    BY DEF some
  <2> QED BY <1>1, <1>2, <2>1, AllNumbers
<1> QED BY <1>3 DEF some

LEMMA TotalIsSummed ==
  ASSUME NEW weight
  PROVE  \E sum : Summed(sum, weight, MaxRows) /\ Total(weight) = sum[MaxRows]
<1>1. Total(weight) = (CHOOSE sum : Summed(sum, weight, MaxRows))[MaxRows]
  BY DEF Total, Summed
<1>2. Summed(CHOOSE sum : Summed(sum, weight, MaxRows), weight, MaxRows)
  BY SumExists, AttendanceBounds
<1> QED BY <1>1, <1>2

\* A sum grows with what is summed.
LEMMA TotalGrows ==
  ASSUME NEW less, NEW more,
         \A r \in Row : less[r] \in Int /\ more[r] \in Int /\ less[r] <= more[r]
  PROVE  Total(less) \in Int /\ Total(more) \in Int /\ Total(less) <= Total(more)
<1>1. PICK s : Summed(s, less, MaxRows) /\ Total(less) = s[MaxRows]
  BY TotalIsSummed
<1>2. PICK t : Summed(t, more, MaxRows) /\ Total(more) = t[MaxRows]
  BY TotalIsSummed
<1> DEFINE some == {n \in Nat : n <= MaxRows =>
                      s[n] \in Int /\ t[n] \in Int /\ s[n] <= t[n]}
<1>3. \A n \in 0 .. MaxRows :
        /\ s[n] = IF n = 0 THEN 0 ELSE s[n - 1] + less[n]
        /\ t[n] = IF n = 0 THEN 0 ELSE t[n - 1] + more[n]
  <2>1. ASSUME NEW n \in 0 .. MaxRows
        PROVE  s[n] = IF n = 0 THEN 0 ELSE s[n - 1] + less[n]
    BY <1>1 DEF Summed
  <2>2. ASSUME NEW n \in 0 .. MaxRows
        PROVE  t[n] = IF n = 0 THEN 0 ELSE t[n - 1] + more[n]
    BY <1>2 DEF Summed
  <2> QED BY <2>1, <2>2
<1>4. 0 \in some
  BY <1>3, AttendanceBounds
<1>5. ASSUME NEW n \in some PROVE n + 1 \in some
  <2>1. n \in Nat
    OBVIOUS
  <2>2. ASSUME n + 1 <= MaxRows
        PROVE  s[n + 1] \in Int /\ t[n + 1] \in Int /\ s[n + 1] <= t[n + 1]
    <3>1. n <= MaxRows /\ n + 1 \in 0 .. MaxRows /\ n + 1 \in Row /\ n + 1 # 0 /\ (n + 1) - 1 = n
      BY <2>1, <2>2, AttendanceBounds DEF Row
    <3>2. s[n] \in Int /\ t[n] \in Int /\ s[n] <= t[n]
      BY <3>1
    <3>3. s[n + 1] = s[n] + less[n + 1] /\ t[n + 1] = t[n] + more[n + 1]
      BY <1>3, <3>1
    <3>4. less[n + 1] \in Int /\ more[n + 1] \in Int /\ less[n + 1] <= more[n + 1]
      BY <3>1
    <3> QED BY <3>2, <3>3, <3>4
  <2> QED BY <2>1, <2>2
<1> HIDE DEF some
<1>6. MaxRows \in some
  <2>1. some \in SUBSET Nat
    BY DEF some
  <2> QED BY <1>4, <1>5, <2>1, AllNumbers, AttendanceBounds
<1> QED BY <1>1, <1>2, <1>6 DEF some

LEMMA TotalIsNatural ==
  ASSUME NEW weight, \A r \in Row : weight[r] \in Nat PROVE Total(weight) \in Nat
<1>1. PICK s : Summed(s, weight, MaxRows) /\ Total(weight) = s[MaxRows]
  BY TotalIsSummed
<1> DEFINE some == {n \in Nat : n <= MaxRows => s[n] \in Nat}
<1>2. ASSUME NEW n \in 0 .. MaxRows
      PROVE  s[n] = IF n = 0 THEN 0 ELSE s[n - 1] + weight[n]
  BY <1>1 DEF Summed
<1>3. 0 \in some
  BY <1>2, AttendanceBounds
<1>4. ASSUME NEW n \in some PROVE n + 1 \in some
  <2>1. n \in Nat
    OBVIOUS
  <2>2. ASSUME n + 1 <= MaxRows PROVE s[n + 1] \in Nat
    <3>1. n <= MaxRows /\ n + 1 \in 0 .. MaxRows /\ n + 1 \in Row /\ n + 1 # 0 /\ (n + 1) - 1 = n
      BY <2>1, <2>2, AttendanceBounds DEF Row
    <3>2. s[n] \in Nat
      BY <3>1
    <3>3. s[n + 1] = s[n] + weight[n + 1] /\ weight[n + 1] \in Nat
      BY <1>2, <3>1
    <3> QED BY <3>2, <3>3
  <2> QED BY <2>1, <2>2
<1> HIDE DEF some
<1>5. MaxRows \in some
  <2>1. some \in SUBSET Nat
    BY DEF some
  <2> QED BY <1>3, <1>4, <2>1, AllNumbers, AttendanceBounds
<1> QED BY <1>1, <1>5 DEF some

-----------------------------------------------------------------------------
(* Attendance *)

LEMMA EntriesAreTimed == \A e \in Entry : e.at \in Int
BY AttendanceBounds DEF Entry

LEMMA ElapsedTyped ==
  ASSUME AttendanceTypeOK, LogInv, NEW r \in Row
  PROVE  Elapsed(r) \in Nat
<1>1. now \in Int /\ log[r] \in Seq(Entry) /\ \A e \in Entry : e.at \in Int
  BY AttendanceBounds, EntriesAreTimed DEF AttendanceTypeOK
<1>2. CASE log[r] = <<>>
  BY <1>2 DEF Elapsed
<1>3. CASE log[r] # <<>>
  <2>1. 1 \in 1 .. Len(log[r])
    BY <1>1, <1>3
  <2>2. log[r][1].at \in Int /\ log[r][1].at <= now
    BY <1>1, <2>1 DEF LogInv
  <2> QED BY <1>1, <1>3, <2>2 DEF Elapsed
<1> QED BY <1>2, <1>3

LEMMA LogsInit == AttendanceInit => LogsTyped
<1> SUFFICES ASSUME AttendanceInit PROVE LogsTyped
  OBVIOUS
<1>1. /\ now = 0 /\ present = {} /\ writes = {} /\ attends \subseteq Student
      /\ \A r \in Row : log[r] = <<>> /\ duration[r] = 0
      /\ \A u \in Student, c \in Call : call[u][c] = Resting
  BY DEF AttendanceInit
<1>2. Resting \in [pc : {"off", "create", "log"}, kind : Event, row : 0 .. MaxRows]
      /\ Resting.pc = "off"
  BY AttendanceBounds DEF Resting, Event
<1>3. AttendanceTypeOK
  BY <1>1, <1>2, AttendanceBounds DEF AttendanceTypeOK, AttendanceInit
<1>4. LogInv /\ NeverOverCredited
  BY <1>1, <1>2 DEF LogInv, NeverOverCredited, Elapsed
<1> QED BY <1>3, <1>4 DEF LogsTyped

\* A step of the class takes no row from a student, and nobody's time runs back.
Later == \A r \in Row : /\ Elapsed(r)' \in Nat /\ Elapsed(r)' >= Elapsed(r)
                        /\ owner[r] = Nobody \/ owner'[r] = owner[r]

LEMMA TickLogs == ASSUME LogsTyped, Tick PROVE LogsTyped' /\ Later
<1>1. /\ now \in 0 .. MaxNow /\ now < MaxNow /\ now' = now + 1
      /\ UNCHANGED <<attends, present, hooks, call, owner, log, duration, summed, writes>>
  BY DEF Tick, LogsTyped, AttendanceTypeOK
<1>2. AttendanceTypeOK'
  BY <1>1, AttendanceBounds DEF LogsTyped, AttendanceTypeOK
<1>3. \A r \in Row : \A i \in 1 .. Len(log[r]) : log[r][i].at \in Int
  <2>1. \A r \in Row : log[r] \in Seq(Entry)
    BY DEF LogsTyped, AttendanceTypeOK
  <2>2. \A r \in Row : \A i \in 1 .. Len(log[r]) : log[r][i] \in Entry
    BY <2>1
  <2> QED BY <2>2, EntriesAreTimed
<1>4. \A r \in Row : \A i \in 1 .. Len(log[r]) : log[r][i].at <= now'
  BY <1>1, <1>3, AttendanceBounds DEF LogsTyped, LogInv
<1>5. ASSUME NEW r \in Row PROVE Elapsed(r)' >= Elapsed(r) /\ Elapsed(r)' \in Nat /\ Elapsed(r) \in Nat
  <2>0. Elapsed(r) \in Nat
    BY ElapsedTyped DEF LogsTyped
  <2>1. CASE log[r] = <<>>
    BY <1>1, <2>0, <2>1 DEF Elapsed
  <2>2. CASE log[r] # <<>>
    <3>1. 1 \in 1 .. Len(log[r])
      BY <2>2 DEF LogsTyped, AttendanceTypeOK
    <3>2. Elapsed(r) = now - log[r][1].at /\ Elapsed(r)' = now' - log[r][1].at
      BY <1>1, <2>2 DEF Elapsed
    <3> QED BY <1>1, <1>3, <2>0, <3>1, <3>2, AttendanceBounds
  <2> QED BY <2>1, <2>2
<1>6. LogInv'
  <2>1. ASSUME NEW w \in writes PROVE w.total <= Elapsed(w.row)'
    <3>1. w.row \in Row /\ w.total \in Int /\ w.total <= Elapsed(w.row)
      BY DEF LogsTyped, AttendanceTypeOK, LogInv
    <3> QED BY <1>5, <3>1
  <2>2. \A w \in writes' : w.total <= Elapsed(w.row)'
    BY <1>1, <2>1
  <2> QED BY <1>1, <1>4, <2>2 DEF LogInv, LogsTyped
<1>7. NeverOverCredited'
  <2>1. ASSUME NEW r \in Row PROVE duration[r] <= Elapsed(r)'
    BY <1>5 DEF LogsTyped, NeverOverCredited, AttendanceTypeOK
  <2> QED BY <1>1, <2>1 DEF NeverOverCredited
<1> QED BY <1>1, <1>2, <1>5, <1>6, <1>7 DEF LogsTyped, Later

\* Steps that leave the clock, the logs and what is computed from them alone.
LEMMA HandlersLogs ==
  ASSUME LogsTyped, AttendanceTypeOK', UNCHANGED <<now, log, duration, writes>>,
         \A r \in Row : (owner[r] = Nobody \/ owner'[r] = owner[r])
                         /\ (owner'[r] = Nobody => owner[r] = Nobody),
         \A u \in Student, c \in Call :
           call'[u][c].pc = "log" => owner'[call'[u][c].row] = u
  PROVE  LogsTyped' /\ Later
<1>1. \A r \in Row : UNCHANGED Elapsed(r)
  BY DEF Elapsed
<1>2. LogInv'
  <2>1. \A w \in writes : w.row \in Row
    BY DEF LogsTyped, AttendanceTypeOK
  <2>2. \A w \in writes' : w.total <= Elapsed(w.row)'
    BY <1>1, <2>1 DEF LogsTyped, LogInv
  <2>3. \A r \in Row : owner'[r] = Nobody => log'[r] = <<>>
    BY DEF LogsTyped, LogInv
  <2>4. \A r \in Row : \A i, k \in 1 .. Len(log'[r]) :
          log'[r][i].at <= now' /\ (i <= k => log'[r][i].at <= log'[r][k].at)
    BY DEF LogsTyped, LogInv
  <2> QED BY <2>2, <2>3, <2>4 DEF LogInv
<1>3. NeverOverCredited'
  BY <1>1 DEF LogsTyped, NeverOverCredited
<1>4. Later
  <2>1. \A r \in Row : Elapsed(r) \in Nat
    BY ElapsedTyped DEF LogsTyped
  <2> QED BY <1>1, <2>1 DEF Later
<1> QED BY <1>2, <1>3, <1>4 DEF LogsTyped

LEMMA MoveLogs ==
  ASSUME LogsTyped, NEW u \in Student, Move(u) PROVE LogsTyped' /\ Later
<1>1. UNCHANGED <<attends, now, call, owner, log, duration, summed, writes>>
  BY DEF Move
<1>2. hooks' \in [Student -> Seq(Event)] /\ present' \subseteq Student
  <2>1. PICK n \in 1 .. 2, event \in Event :
          /\ hooks' = [hooks EXCEPT ![u] = @ \o [i \in 1 .. n |-> event]]
          /\ present' \subseteq present \cup {u}
    BY DEF Move, Event
  <2> DEFINE new == [i \in 1 .. n |-> event]
  <2>2. new \in Seq(Event)
    OBVIOUS
  <2>3. hooks[u] \in Seq(Event) /\ hooks \in [Student -> Seq(Event)]
    BY DEF LogsTyped, AttendanceTypeOK
  <2>4. hooks' = [hooks EXCEPT ![u] = hooks[u] \o new]
    BY <2>1
  <2> HIDE DEF new
  <2>5. hooks[u] \o new \in Seq(Event)
    BY <2>2, <2>3
  <2>6. present \subseteq Student
    BY DEF LogsTyped, AttendanceTypeOK
  <2> QED BY <2>1, <2>3, <2>4, <2>5, <2>6
<1>3. AttendanceTypeOK'
  BY <1>1, <1>2 DEF LogsTyped, AttendanceTypeOK
<1> QED BY <1>1, <1>3, HandlersLogs DEF LogsTyped, LogInv

LEMMA FindParticipantLogs ==
  ASSUME LogsTyped, NEW u \in Student, NEW c \in Call, FindParticipant(u, c)
  PROVE  LogsTyped' /\ Later
<1>1. /\ UNCHANGED <<attends, now, present, owner, log, duration, summed, writes>>
      /\ hooks[u] # <<>> /\ hooks' = [hooks EXCEPT ![u] = Tail(@)]
  BY DEF FindParticipant
<1>2. hooks[u] \in Seq(Event) /\ Tail(hooks[u]) \in Seq(Event) /\ Head(hooks[u]) \in Event
  BY <1>1 DEF LogsTyped, AttendanceTypeOK
<1>3. PICK new \in [pc : {"off", "create", "log"}, kind : Event, row : 0 .. MaxRows] :
        /\ call' = [call EXCEPT ![u] = [call[u] EXCEPT ![c] = new]]
        /\ new.pc = "log" => new.row \in Row /\ owner[new.row] = u
  <2>1. CASE call' = [call EXCEPT ![u][c] = [pc |-> "create", kind |-> Head(hooks[u]), row |-> 0]]
    <3>1. [pc |-> "create", kind |-> Head(hooks[u]), row |-> 0]
            \in [pc : {"off", "create", "log"}, kind : Event, row : 0 .. MaxRows]
      BY <1>2, AttendanceBounds
    <3> QED BY <2>1, <3>1
  <2>2. ASSUME NEW r \in RowsOf(u),
               call' = [call EXCEPT ![u][c] = [pc |-> "log", kind |-> Head(hooks[u]), row |-> r]]
        PROVE  \E new \in [pc : {"off", "create", "log"}, kind : Event, row : 0 .. MaxRows] :
                 /\ call' = [call EXCEPT ![u] = [call[u] EXCEPT ![c] = new]]
                 /\ new.pc = "log" => new.row \in Row /\ owner[new.row] = u
    <3>1. r \in Row /\ owner[r] = u /\ r \in 0 .. MaxRows
      BY AttendanceBounds DEF RowsOf, Row
    <3>2. [pc |-> "log", kind |-> Head(hooks[u]), row |-> r]
            \in [pc : {"off", "create", "log"}, kind : Event, row : 0 .. MaxRows]
      BY <1>2, <3>1
    <3> QED BY <2>2, <3>1, <3>2
  <2> QED BY <2>1, <2>2 DEF FindParticipant
<1>4. /\ hooks' \in [Student -> Seq(Event)]
      /\ call' \in [Student -> [Call ->
           [pc : {"off", "create", "log"}, kind : Event, row : 0 .. MaxRows]]]
      /\ call'[u][c] = new
      /\ \A v \in Student, d \in Call : v # u \/ d # c => call'[v][d] = call[v][d]
  BY <1>1, <1>2, <1>3 DEF LogsTyped, AttendanceTypeOK
<1>5. \A v \in Student, d \in Call :
        call'[v][d].pc = "log" => call'[v][d].row \in Row /\ owner'[call'[v][d].row] = v
  BY <1>1, <1>3, <1>4 DEF LogsTyped, AttendanceTypeOK, LogInv
<1>6. AttendanceTypeOK'
  BY <1>1, <1>4, <1>5 DEF LogsTyped, AttendanceTypeOK
<1> QED BY <1>1, <1>5, <1>6, HandlersLogs

\* A row that is made was nobody's, so it has no entries yet.
LEMMA CreateParticipantLogs ==
  ASSUME LogsTyped, NEW u \in Student, NEW c \in Call, CreateParticipant(u, c)
  PROVE  LogsTyped' /\ Later
<1>1. PICK r \in Row :
        /\ owner[r] = Nobody /\ owner' = [owner EXCEPT ![r] = u]
        /\ call' = [call EXCEPT ![u][c].pc = "log", ![u][c].row = r]
  BY DEF CreateParticipant
<1>2. UNCHANGED <<attends, now, present, hooks, log, duration, summed, writes>>
  BY DEF CreateParticipant
<1> DEFINE Handler == [pc : {"off", "create", "log"}, kind : Event, row : 0 .. MaxRows]
           new == [[call[u][c] EXCEPT !.pc = "log"] EXCEPT !.row = r]
<1>3. call \in [Student -> [Call -> Handler]] /\ r \in 0 .. MaxRows
  BY AttendanceBounds DEF LogsTyped, AttendanceTypeOK, Row
<1>4. new \in Handler /\ new.row = r
  <2>1. [call[u][c] EXCEPT !.pc = "log"] \in Handler
    BY <1>3
  <2> QED BY <1>3, <2>1
<1>5. call' = [call EXCEPT ![u] = [call[u] EXCEPT ![c] = new]]
  BY <1>1, <1>3
<1> HIDE DEF new
<1>6. /\ call' \in [Student -> [Call -> Handler]] /\ call'[u][c] = new
      /\ \A v \in Student, d \in Call : v # u \/ d # c => call'[v][d] = call[v][d]
  BY <1>3, <1>4, <1>5
<1>7. /\ owner' \in [Row -> Student \cup {Nobody}] /\ owner'[r] = u
      /\ \A s \in Row : s # r => owner'[s] = owner[s]
  BY <1>1 DEF LogsTyped, AttendanceTypeOK
<1>8. ASSUME NEW v \in Student, NEW d \in Call, call'[v][d].pc = "log"
      PROVE  call'[v][d].row \in Row /\ owner'[call'[v][d].row] = v
  <2>1. CASE v = u /\ d = c
    BY <1>4, <1>6, <1>7, <2>1
  <2>2. CASE v # u \/ d # c
    <3>1. call[v][d].row \in Row /\ owner[call[v][d].row] = v
      BY <1>6, <1>8, <2>2 DEF LogsTyped, AttendanceTypeOK, LogInv
    <3>2. call[v][d].row # r
      BY <1>1, <3>1, NobodyAttends
    <3> QED BY <1>6, <1>7, <2>2, <3>1, <3>2
  <2> QED BY <2>1, <2>2
<1>9. AttendanceTypeOK'
  BY <1>2, <1>6, <1>7, <1>8 DEF LogsTyped, AttendanceTypeOK
<1>10. \A s \in Row : (owner[s] = Nobody \/ owner'[s] = owner[s])
                       /\ (owner'[s] = Nobody => owner[s] = Nobody)
  BY <1>1, <1>7
<1> QED BY <1>2, <1>8, <1>9, <1>10, HandlersLogs

LEMMA CreateLogLogs ==
  ASSUME LogsTyped, NEW u \in Student, NEW c \in Call, CreateLog(u, c)
  PROVE  LogsTyped' /\ Later
<1> DEFINE r == call[u][c].row
           e == [kind |-> call[u][c].kind, at |-> now]
           Handler == [pc : {"off", "create", "log"}, kind : Event, row : 0 .. MaxRows]
<1>1. /\ UNCHANGED <<attends, now, present, hooks, owner, duration, summed, writes>>
      /\ call[u][c].pc = "log" /\ log' = [log EXCEPT ![r] = Append(@, e)]
      /\ call' = [call EXCEPT ![u] = [call[u] EXCEPT ![c] = Resting]]
  BY DEF CreateLog
<1>2. r \in Row /\ owner[r] = u /\ call \in [Student -> [Call -> Handler]]
  BY <1>1 DEF LogsTyped, AttendanceTypeOK, LogInv
<1>3. e \in Entry /\ e.at = now
  BY <1>2 DEF Entry, LogsTyped, AttendanceTypeOK
<1> HIDE DEF e, r
<1>4. /\ log' \in [Row -> Seq(Entry)]
      /\ log'[r] = Append(log[r], e) /\ \A x \in Row \ {r} : log'[x] = log[x]
  BY <1>1, <1>2, <1>3 DEF LogsTyped, AttendanceTypeOK
<1>5. /\ call' \in [Student -> [Call -> Handler]]
      /\ \A v \in Student, d \in Call : call'[v][d].pc = "log" => call'[v][d] = call[v][d]
  <2>1. Resting \in Handler /\ Resting.pc = "off"
    BY AttendanceBounds DEF Resting, Event
  <2> QED BY <1>1, <1>2, <2>1
<1>6. AttendanceTypeOK'
  BY <1>1, <1>4, <1>5 DEF LogsTyped, AttendanceTypeOK
<1>7. log[r] \in Seq(Entry) /\ Len(log[r]) \in Nat /\ now \in Int
  BY <1>2, AttendanceBounds DEF LogsTyped, AttendanceTypeOK
<1>8. /\ Len(log'[r]) = Len(log[r]) + 1 /\ log'[r][Len(log[r]) + 1] = e
      /\ \A i \in 1 .. Len(log[r]) : log'[r][i] = log[r][i]
  BY <1>3, <1>4, <1>7
<1>9. \A x \in Row : UNCHANGED Elapsed(x)
  <2>0. log'[r] # <<>> /\ (log[r] = <<>> => log'[r][1] = e)
         /\ (log[r] # <<>> => log'[r][1] = log[r][1])
    BY <1>7, <1>8
  <2>1. ASSUME NEW x \in Row PROVE Elapsed(x)' = Elapsed(x)
    <3>1. CASE x # r
      BY <1>1, <1>4, <3>1 DEF Elapsed
    <3>2. CASE x = r /\ log[x] # <<>>
      BY <1>1, <2>0, <3>2 DEF Elapsed
    <3>3. CASE x = r /\ log[x] = <<>>
      <4>1. Elapsed(x) = 0 /\ Elapsed(x)' = now' - log'[x][1].at
        BY <2>0, <3>3 DEF Elapsed
      <4>2. log'[x][1].at = now
        BY <1>3, <2>0, <3>3
      <4> QED BY <1>1, <1>7, <4>1, <4>2
    <3> QED BY <3>1, <3>2, <3>3
  <2> QED BY <2>1
<1>10. LogInv'
  <2>1. ASSUME NEW i \in 1 .. Len(log'[r]), NEW k \in 1 .. Len(log'[r])
        PROVE  log'[r][i].at <= now /\ (i <= k => log'[r][i].at <= log'[r][k].at)
    <3>1. \A n \in 1 .. Len(log[r]) : log[r][n].at <= now
      BY <1>2 DEF LogsTyped, LogInv
    <3>2. CASE i \in 1 .. Len(log[r])
      <4>1. log'[r][i] = log[r][i] /\ log[r][i].at <= now
        BY <1>8, <3>1, <3>2
      <4>2. CASE k \in 1 .. Len(log[r])
        BY <1>2, <1>8, <3>2, <4>1, <4>2 DEF LogsTyped, LogInv
      <4>3. CASE k = Len(log[r]) + 1
        BY <1>3, <1>8, <4>1, <4>3
      <4> QED BY <1>7, <1>8, <4>2, <4>3
    <3>3. CASE i = Len(log[r]) + 1
      BY <1>3, <1>7, <1>8, <3>3
    <3> QED BY <1>7, <1>8, <3>2, <3>3
  <2>2. \A w \in writes : w.row \in Row
    BY DEF LogsTyped, AttendanceTypeOK
  <2>3. \A w \in writes' : w.total <= Elapsed(w.row)'
    BY <1>1, <1>9, <2>2 DEF LogsTyped, LogInv
  <2>4. ASSUME NEW x \in Row
        PROVE  /\ \A i, k \in 1 .. Len(log'[x]) :
                    log'[x][i].at <= now' /\ (i <= k => log'[x][i].at <= log'[x][k].at)
               /\ owner'[x] = Nobody => log'[x] = <<>>
    <3>1. CASE x = r
      <4>1. owner'[x] # Nobody
        BY <1>1, <1>2, <3>1, NobodyAttends
      <4> QED BY <1>1, <2>1, <3>1, <4>1
    <3>2. CASE x # r
      BY <1>1, <1>4, <3>2 DEF LogsTyped, LogInv
    <3> QED BY <3>1, <3>2
  <2>5. \A v \in Student, d \in Call : call'[v][d].pc = "log" => owner'[call'[v][d].row] = v
    BY <1>1, <1>5 DEF LogsTyped, LogInv
  <2> QED BY <2>3, <2>4, <2>5 DEF LogInv
<1>11. NeverOverCredited'
  BY <1>1, <1>9 DEF LogsTyped, NeverOverCredited
<1>12. Later
  <2>1. \A x \in Row : Elapsed(x) \in Nat
    BY ElapsedTyped DEF LogsTyped
  <2> QED BY <1>1, <1>9, <2>1 DEF Later
<1> QED BY <1>6, <1>10, <1>11, <1>12 DEF LogsTyped

\* The updates that are issued are covered by the log they are computed from.
LEMMA ReadLogsLogs ==
  ASSUME LogsTyped, NEW f \in Finish, ReadLogs(f) PROVE LogsTyped' /\ Later
<1>1. UNCHANGED <<attends, now, present, hooks, call, owner, log, duration>>
  BY DEF ReadLogs
<1>2. \A x \in Row : UNCHANGED Elapsed(x)
  BY <1>1 DEF Elapsed
<1>3. ASSUME NEW w \in writes'
      PROVE  w.row \in Row /\ w.total \in Int /\ w.total <= Elapsed(w.row)
  <2>1. CASE w \in writes
    BY <2>1 DEF LogsTyped, AttendanceTypeOK, LogInv
  <2>2. CASE w \notin writes
    <3>1. PICK x \in Row, n \in 1 .. MaxEntries :
            /\ n <= Len(log[x]) /\ w.row = x /\ w.total = RunningTotal(log[x])[n]
      <4>1. PICK p \in {q \in Row \X (1 .. MaxEntries) : q[2] <= Len(log[q[1]])} :
              w = [finish |-> f, row |-> p[1], entry |-> p[2],
                   total |-> RunningTotal(log[p[1]])[p[2]]]
        BY <2>2 DEF ReadLogs
      <4>2. p[1] \in Row /\ p[2] \in 1 .. MaxEntries /\ p[2] <= Len(log[p[1]])
        BY <4>1
      <4> QED BY <4>1, <4>2
    <3>2. log[x] \in Seq(Entry) /\ Len(log[x]) \in Nat /\ now \in Int
          /\ \A e \in Entry : e.at \in Int
      BY AttendanceBounds, EntriesAreTimed DEF LogsTyped, AttendanceTypeOK
    <3>3. n \in 1 .. Len(log[x]) /\ 1 \in 1 .. Len(log[x]) /\ log[x] # <<>>
      BY <3>1, <3>2, AttendanceBounds
    <3>4. /\ RunningTotal(log[x])[n] \in Int
          /\ RunningTotal(log[x])[n] <= log[x][n].at - log[x][1].at
      BY <3>2, <3>3, TotalsAreCovered DEF LogsTyped, LogInv
    <3>5. log[x][n].at <= now /\ log[x][n].at \in Int /\ log[x][1].at \in Int
      BY <3>2, <3>3 DEF LogsTyped, LogInv
    <3>6. Elapsed(x) = now - log[x][1].at
      BY <3>3 DEF Elapsed
    <3> QED BY <3>1, <3>2, <3>4, <3>5, <3>6
  <2> QED BY <2>1, <2>2
<1>4. AttendanceTypeOK'
  BY <1>1, <1>3 DEF LogsTyped, AttendanceTypeOK
<1>5. LogInv'
  BY <1>1, <1>2, <1>3 DEF LogsTyped, LogInv
<1>6. NeverOverCredited'
  BY <1>1, <1>2 DEF LogsTyped, NeverOverCredited
<1>7. Later
  <2>1. \A x \in Row : Elapsed(x) \in Nat
    BY ElapsedTyped DEF LogsTyped
  <2> QED BY <1>1, <1>2, <2>1 DEF Later
<1> QED BY <1>4, <1>5, <1>6, <1>7 DEF LogsTyped

LEMMA WriteDurationLogs ==
  ASSUME LogsTyped, NEW w \in writes, WriteDuration(w) PROVE LogsTyped' /\ Later
<1>1. /\ UNCHANGED <<attends, now, present, hooks, call, owner, log, summed>>
      /\ writes' \subseteq writes
      /\ duration' = duration \/ duration' = [duration EXCEPT ![w.row] = w.total]
  BY DEF WriteDuration
<1>2. \A x \in Row : UNCHANGED Elapsed(x)
  BY <1>1 DEF Elapsed
<1>3. w.row \in Row /\ w.total \in Int /\ w.total <= Elapsed(w.row)
  BY DEF LogsTyped, AttendanceTypeOK, LogInv
<1>4. duration' \in [Row -> Int] /\ \A x \in Row : duration'[x] <= Elapsed(x)
  BY <1>1, <1>3 DEF LogsTyped, AttendanceTypeOK, NeverOverCredited
<1>5. AttendanceTypeOK'
  BY <1>1, <1>4 DEF LogsTyped, AttendanceTypeOK
<1>6. LogInv'
  <2>1. \A v \in writes : v.row \in Row
    BY DEF LogsTyped, AttendanceTypeOK
  <2> QED BY <1>1, <1>2, <2>1 DEF LogsTyped, LogInv
<1>7. NeverOverCredited'
  BY <1>2, <1>4 DEF NeverOverCredited
<1>8. Later
  <2>1. \A x \in Row : Elapsed(x) \in Nat
    BY ElapsedTyped DEF LogsTyped
  <2> QED BY <1>1, <1>2, <2>1 DEF Later
<1> QED BY <1>5, <1>6, <1>7, <1>8 DEF LogsTyped

LEMMA AttendanceLogs == ASSUME LogsTyped, AttendanceNext PROVE LogsTyped' /\ Later
BY TickLogs, MoveLogs, FindParticipantLogs, CreateParticipantLogs, CreateLogLogs, ReadLogsLogs,
   WriteDurationLogs DEF AttendanceNext, LogParticipant

\* What a student is credited with is at most what has passed.
LEMMA CreditIsCovered ==
  ASSUME LogsTyped, NEW u \in Student
  PROVE  Credit(u) \in Int /\ Attended(u) \in Int /\ Credit(u) <= Attended(u)
<1> DEFINE less == [r \in Row |-> IF owner[r] = u THEN duration[r] ELSE 0]
           more == [r \in Row |-> IF owner[r] = u THEN Elapsed(r) ELSE 0]
<1>1. ASSUME NEW r \in Row PROVE less[r] \in Int /\ more[r] \in Int /\ less[r] <= more[r]
  <2>1. Elapsed(r) \in Nat /\ duration[r] \in Int /\ duration[r] <= Elapsed(r)
    BY ElapsedTyped DEF LogsTyped, AttendanceTypeOK, NeverOverCredited
  <2> QED BY <2>1
<1>2. Credit(u) = Total(less) /\ Attended(u) = Total(more)
  BY DEF Credit, Attended
<1> HIDE DEF less, more
<1> QED BY <1>1, <1>2, TotalGrows

LEMMA AttendedLater ==
  ASSUME LogsTyped, Later, NEW u \in Student
  PROVE  Attended(u) \in Int /\ Attended(u)' \in Int /\ Attended(u) <= Attended(u)'
<1> DEFINE less == [r \in Row |-> IF owner[r] = u THEN Elapsed(r) ELSE 0]
           more == [r \in Row |-> IF owner'[r] = u THEN Elapsed(r)' ELSE 0]
<1>1. ASSUME NEW r \in Row PROVE less[r] \in Int /\ more[r] \in Int /\ less[r] <= more[r]
  <2>1. /\ Elapsed(r) \in Nat /\ Elapsed(r)' \in Nat /\ Elapsed(r) <= Elapsed(r)'
        /\ owner[r] = Nobody \/ owner'[r] = owner[r]
    BY ElapsedTyped DEF LogsTyped, Later
  <2> QED BY <2>1, NobodyAttends
<1>2. Attended(u) = Total(less) /\ Attended(u)' = Total(more)
  BY DEF Attended
<1> HIDE DEF less, more
<1> QED BY <1>1, <1>2, TotalGrows

-----------------------------------------------------------------------------
(* Certificates *)

\* What was earned stays so while averages and the time that has passed grow.
LEMMA ReachedLater ==
  ASSUME NEW r \in Request, NEW less \in [QuizType -> Average], NEW more \in [QuizType -> Average],
         \A q \in QuizType : less[q] <= more[q], NEW q \in MinimumsOf(r), Reaches(less, r, q)
  PROVE  Reaches(more, r, q)
<1>1. q \in QuizType /\ r.score[q] \in Int /\ NoQuiz = -1
  BY DEF MinimumsOf, Request, NoQuiz
<1>2. less[q] \in Int /\ less[q] >= -1 /\ more[q] \in Int /\ less[q] <= more[q]
  BY <1>1 DEF Average
<1> QED BY <1>1, <1>2 DEF Reaches

LEMMA CompetentLater ==
  ASSUME NEW r \in Request, NEW less \in [QuizType -> Average], NEW more \in [QuizType -> Average],
         \A q \in QuizType : less[q] <= more[q], Competent(less, r)
  PROVE  Competent(more, r)
BY ReachedLater DEF Competent

LEMMA EarnedLater ==
  ASSUME NEW c \in Certificate,
         NEW less \in [QuizType -> Average], NEW more \in [QuizType -> Average],
         \A q \in QuizType : less[q] <= more[q],
         NEW m \in Int, NEW n \in Int, m <= n, Earned(c, less, m)
  PROVE  Earned(c, more, n)
<1>1. c.asked \in Request /\ c.asked.attended \in Int
  BY DEF Certificate, Request
<1>2. CASE c.no[1] = "P" /\ c.asked.attended # 0 /\ m >= c.asked.attended
  BY <1>1, <1>2 DEF Earned
<1>3. CASE /\ c.no[1] = "C" /\ MinimumsOf(c.asked) # {}
           /\ \A q \in MinimumsOf(c.asked) : Reaches(less, c.asked, q)
  BY <1>1, <1>3, ReachedLater DEF Earned
<1> QED BY <1>2, <1>3 DEF Earned

LEMMA NoWorkIsWork == NoWork \in Work /\ NoWork.pc = "off" /\ NoWork.id = 0
<1>1. [q \in QuizType |-> NoQuiz] \in [QuizType -> Average]
  BY DEF NoQuiz, Average
<1> QED BY <1>1 DEF NoWork, Work, None

LEMMA CertInit == Init => CertInv
<1> SUFFICES ASSUME Init PROVE CertInv
  OBVIOUS
<1>1. /\ AttendanceInit /\ cert = <<>> /\ sent = {} /\ overlap = {}
      /\ task = [j \in Job |-> [p \in Place |-> NoWork]]
  BY DEF Init
<1>2. LogsTyped
  BY <1>1, LogsInit
<1>3. /\ job \in [Job -> [waits : BOOLEAN, runs : Nat, credit : [Student -> Int]]]
      /\ \A j \in Job, u \in Student : job[j].credit[u] = 0
  <2>1. job \in [Job -> [waits : BOOLEAN, runs : {0}, credit : {[u \in Student |-> 0]}]]
    BY DEF Init
  <2>2. [u \in Student |-> 0] \in [Student -> Int]
    OBVIOUS
  <2>3. \A j \in Job : job[j].credit = [u \in Student |-> 0]
    BY <2>1
  <2> QED BY <2>1, <2>2, <2>3
<1>4. WorkTyped
  <2>1. task \in [Job -> [Place -> Work]]
    BY <1>1, NoWorkIsWork
  <2>2. job \in [Job -> [waits : BOOLEAN, runs : Nat, credit : [Student -> Int]]]
    BY <1>3
  <2>3. \A j \in Job : asked[j] \in Request
    BY RequestsAreJobs DEF Init
  <2>4. grade \in [Student -> [QuizType -> Average]]
    <3>1. \A u \in Student, q \in QuizType : grade[u][q] \in Average
      BY AveragesAreAverages DEF Init
    <3>2. grade \in [Student -> [QuizType ->
                       UNION {Averages[u][q] : u \in Student, q \in QuizType}]]
      BY DEF Init
    <3> QED BY <3>1, <3>2
  <2> QED BY <2>1, <2>2, <2>3, <2>4 DEF WorkTyped
<1>5. Len(cert) = 0 /\ cert \in Seq(Certificate)
  BY <1>1
<1>6. CertificatesInv /\ FileInv
  BY <1>1, <1>5 DEF CertificatesInv, FileInv
<1>7. JobInv
  <2>1. ASSUME NEW u \in Student PROVE Attended(u) \in Nat
    <3> DEFINE weight == [r \in Row |-> IF owner[r] = u THEN Elapsed(r) ELSE 0]
    <3>1. \A r \in Row : weight[r] \in Nat
      BY <1>2, ElapsedTyped DEF LogsTyped
    <3>2. Attended(u) = Total(weight)
      BY DEF Attended
    <3> HIDE DEF weight
    <3> QED BY <3>1, <3>2, TotalIsNatural
  <2>2. \A j \in Job, u \in Student : job[j].credit[u] = 0
    BY <1>3
  <2> QED BY <2>1, <2>2 DEF JobInv
<1>8. WorkInv /\ OverlapInv
  <2>1. \A j \in Job, p \in Place : task[j][p] = NoWork
    BY <1>1
  <2> QED BY <1>5, <2>1, NoWorkIsWork DEF WorkInv, WorkFine, OverlapInv, WorksOn, Active
<1>9. OneCertificate
  <2>1. \A u \in Student : CertificatesOf(u) = {}
    BY <1>1 DEF CertificatesOf
  <2>2. Cardinality({}) = 0
    BY FS_EmptySet
  <2> QED BY <2>1, <2>2 DEF OneCertificate
<1> QED BY <1>2, <1>4, <1>6, <1>7, <1>8, <1>9 DEF CertInv

\* The class goes on.
LEMMA AttendanceKeeps ==
  ASSUME CertInv, AttendanceNext, UNCHANGED certVars PROVE CertInv'
<1>1. LogsTyped' /\ Later /\ LogsTyped
  BY AttendanceLogs DEF CertInv
<1>2. UNCHANGED <<grade, asked, job, task, cert, sent, overlap, drawn>>
  BY DEF certVars
<1>3. \A u \in Student : /\ Attended(u) \in Int /\ Attended(u)' \in Int
                         /\ Attended(u) <= Attended(u)'
  BY <1>1, AttendedLater
<1>4. JobInv'
  <2>1. ASSUME NEW j \in Job, NEW u \in Student PROVE job[j].credit[u] <= Attended(u)'
    <3>1. job[j].credit[u] \in Int /\ job[j].credit[u] <= Attended(u)
      BY DEF CertInv, WorkTyped, JobInv
    <3> QED BY <1>3, <3>1
  <2> QED BY <1>2, <2>1 DEF JobInv
<1>5. CertificatesInv'
  <2>1. ASSUME NEW i \in 1 .. Len(cert), NEW u \in Student, cert[i].user = u
        PROVE  Earned(cert[i], grade[u], Attended(u)')
    <3>1. Earned(cert[i], grade[u], Attended(u)) /\ cert[i] \in Certificate
      BY <2>1 DEF CertInv, CertificatesInv
    <3>2. /\ grade[u] \in [QuizType -> Average]
          /\ \A q \in QuizType : grade[u][q] <= grade[u][q]
      BY DEF CertInv, WorkTyped, Average
    <3> QED BY <1>3, <3>1, <3>2, EarnedLater
  <2> QED BY <1>2, <2>1 DEF CertInv, CertificatesInv
<1>6. WorkTyped' /\ FileInv' /\ OneCertificate'
  BY <1>2 DEF CertInv, WorkTyped, FileInv, OneCertificate, CertificatesOf
<1>7. WorkInv' /\ OverlapInv'
  BY <1>2 DEF CertInv, WorkInv, WorkFine, OverlapInv, CertificatesOf, Participated, Competent,
              MinimumsOf, Reaches, WorksOn, Active
<1> QED BY <1>1, <1>4, <1>5, <1>6, <1>7 DEF CertInv

\* Steps of the certificates leave the class alone.
LEMMA ClassRests ==
  ASSUME LogsTyped, UNCHANGED attendanceVars
  PROVE  /\ LogsTyped'
         /\ \A u \in Student : UNCHANGED Attended(u) /\ Attended(u) \in Int
<1>1. UNCHANGED <<attends, now, present, hooks, call, owner, log, duration, summed, writes>>
  BY DEF attendanceVars
<1>2. \A r \in Row : UNCHANGED Elapsed(r)
  BY <1>1 DEF Elapsed
<1>3. LogInv'
  <2>1. \A w \in writes : w.row \in Row
    BY DEF LogsTyped, AttendanceTypeOK
  <2>2. \A w \in writes' : w.total <= Elapsed(w.row)'
    BY <1>1, <1>2, <2>1 DEF LogsTyped, LogInv
  <2> QED BY <1>1, <2>2 DEF LogsTyped, LogInv
<1>4. AttendanceTypeOK' /\ NeverOverCredited'
  BY <1>1, <1>2 DEF LogsTyped, AttendanceTypeOK, NeverOverCredited
<1>5. ASSUME NEW u \in Student PROVE Attended(u)' = Attended(u) /\ Attended(u) \in Int
  <2> DEFINE weight == [r \in Row |-> IF owner[r] = u THEN Elapsed(r) ELSE 0]
             later == [r \in Row |-> IF owner'[r] = u THEN Elapsed(r)' ELSE 0]
  <2>1. later = weight
    BY <1>1, <1>2
  <2>2. Attended(u) = Total(weight) /\ Attended(u)' = Total(later)
    BY DEF Attended
  <2> HIDE DEF weight, later
  <2> QED BY <2>1, <2>2, CreditIsCovered
<1> QED BY <1>3, <1>4, <1>5 DEF LogsTyped

\* An average rises.
LEMMA ScoreRisesKeeps ==
  ASSUME CertInv, NEW u \in Student, NEW q \in QuizType, ScoreRises(u, q) PROVE CertInv'
<1>1. PICK a \in Averages[u][q] : a > grade[u][q] /\ grade' = [grade EXCEPT ![u][q] = a]
  BY DEF ScoreRises
<1>2. UNCHANGED <<attendanceVars, asked, job, task, cert, sent, overlap, drawn>>
  BY DEF ScoreRises
<1>3. grade \in [Student -> [QuizType -> Average]] /\ a \in Average
  BY AveragesAreAverages DEF CertInv, WorkTyped
<1>4. /\ grade' \in [Student -> [QuizType -> Average]]
      /\ \A v \in Student, k \in QuizType : grade[v][k] <= grade'[v][k]
  BY <1>1, <1>3 DEF Average
<1>5. LogsTyped' /\ \A v \in Student : UNCHANGED Attended(v) /\ Attended(v) \in Int
  BY <1>2, ClassRests DEF CertInv
<1>6. CertificatesInv'
  <2>1. ASSUME NEW i \in 1 .. Len(cert), NEW v \in Student, cert[i].user = v
        PROVE  Earned(cert[i], grade'[v], Attended(v))
    <3>1. Earned(cert[i], grade[v], Attended(v)) /\ cert[i] \in Certificate
      BY <2>1 DEF CertInv, CertificatesInv
    <3>2. /\ grade[v] \in [QuizType -> Average] /\ grade'[v] \in [QuizType -> Average]
          /\ \A k \in QuizType : grade[v][k] <= grade'[v][k]
          /\ Attended(v) \in Int /\ Attended(v) <= Attended(v)
      BY <1>3, <1>4, <1>5
    <3> QED BY <3>1, <3>2, EarnedLater
  <2> QED BY <1>2, <1>5, <2>1 DEF CertInv, CertificatesInv
<1>7. WorkInv'
  <2>1. ASSUME NEW j \in Job, NEW p \in Place PROVE WorkFine(j, p)'
    <3> DEFINE v == task[j][p].user
    <3>1. WorkFine(j, p) /\ UNCHANGED CertificatesOf(v)
      BY <1>2 DEF CertInv, WorkInv, CertificatesOf
    <3>2. ASSUME task[j][p].pc \in {"findC", "create"}
          PROVE  Competent(grade'[v], asked[j])
      <4>1. v \in Student /\ Competent(grade[v], asked[j])
        BY <3>1, <3>2 DEF WorkFine
      <4>2. asked[j] \in Request
        BY DEF CertInv, WorkTyped
      <4> HIDE DEF v
      <4>3. /\ grade[v] \in [QuizType -> Average] /\ grade'[v] \in [QuizType -> Average]
            /\ \A k \in QuizType : grade[v][k] <= grade'[v][k]
        BY <1>3, <1>4, <4>1
      <4> QED BY <4>1, <4>2, <4>3, CompetentLater
    <3> QED BY <1>2, <3>1, <3>2 DEF WorkFine, Participated
  <2> QED BY <2>1 DEF WorkInv
<1>8. WorkTyped' /\ JobInv' /\ OverlapInv' /\ FileInv' /\ OneCertificate'
  BY <1>2, <1>4, <1>5 DEF CertInv, WorkTyped, JobInv, OverlapInv, WorksOn, Active, FileInv,
                          OneCertificate, CertificatesOf
<1> QED BY <1>5, <1>6, <1>7, <1>8 DEF CertInv

\* A job reads the course, and its work begins.
LEMMA StartKeeps == ASSUME CertInv, NEW j \in Job, StartJob(j) PROVE CertInv'
<1> DEFINE who == asked[j].who
           begun(p) == IF p \in DOMAIN who THEN [NoWork EXCEPT !.pc = "number", !.user = who[p]]
                       ELSE NoWork
           both == {u \in Student : \E p \in DOMAIN who : who[p] = u /\
                      \/ \E o \in DOMAIN who \ {p} : who[o] = u
                      \/ \E k \in Job \ {j}, o \in Place : WorksOn(k, o, u)}
<1>1. /\ UNCHANGED <<attendanceVars, grade, asked, cert, sent, drawn>>
      /\ task' = [task EXCEPT ![j] = [p \in Place |-> begun(p)]]
      /\ overlap' = overlap \cup both
      /\ job' = [job EXCEPT ![j] = [waits |-> FALSE, runs |-> @.runs + 1,
                                    credit |-> [u \in Student |-> Credit(u)]]]
  BY DEF StartJob
<1>2. who \in Seq(Student)
  BY DEF CertInv, WorkTyped, Request
<1>3. ASSUME NEW p \in Place
      PROVE  /\ begun(p) \in Work /\ begun(p).id = 0 /\ begun(p).pc \in {"off", "number"}
             /\ begun(p).pc = "number" =>
                  p \in DOMAIN who /\ begun(p).user = who[p] /\ begun(p).user \in Student
  <2>1. CASE p \in DOMAIN who
    <3>1. who[p] \in Student
      BY <1>2, <2>1
    <3> DEFINE w == [[NoWork EXCEPT !.pc = "number"] EXCEPT !.user = who[p]]
    <3>2. w \in Work /\ w.id = NoWork.id /\ w.pc = "number" /\ w.user = who[p]
      <4>1. [NoWork EXCEPT !.pc = "number"] \in Work
        BY NoWorkIsWork DEF Work
      <4> QED BY <3>1, <4>1, NoWorkIsWork DEF Work
    <3>3. begun(p) = w
      BY <2>1, NoWorkIsWork DEF Work
    <3> HIDE DEF w, begun, who
    <3> QED BY <2>1, <3>1, <3>2, <3>3, NoWorkIsWork
  <2>2. CASE p \notin DOMAIN who
    BY <2>2, NoWorkIsWork
  <2> QED BY <2>1, <2>2
<1>4. task \in [Job -> [Place -> Work]]
      /\ job \in [Job -> [waits : BOOLEAN, runs : Nat, credit : [Student -> Int]]]
  BY DEF CertInv, WorkTyped
<1> DEFINE first == [p \in Place |-> begun(p)]
<1>5. first \in [Place -> Work] /\ \A p \in Place : first[p] = begun(p)
  BY <1>3
<1>6. task' = [task EXCEPT ![j] = first]
  BY <1>1
<1> HIDE DEF begun, first
<1>7. /\ task' \in [Job -> [Place -> Work]]
      /\ \A p \in Place : task'[j][p] = begun(p)
      /\ \A k \in Job \ {j} : task'[k] = task[k]
  BY <1>4, <1>5, <1>6
<1>8. /\ job' \in [Job -> [waits : BOOLEAN, runs : Nat, credit : [Student -> Int]]]
      /\ \A u \in Student : job'[j].credit[u] = Credit(u)
      /\ \A k \in Job \ {j} : job'[k] = job[k]
  <2> DEFINE read == [waits |-> FALSE, runs |-> job[j].runs + 1,
                      credit |-> [u \in Student |-> Credit(u)]]
  <2>1. \A u \in Student : Credit(u) \in Int
    BY CreditIsCovered DEF CertInv
  <2>2. read \in [waits : BOOLEAN, runs : Nat, credit : [Student -> Int]]
    BY <1>4, <2>1
  <2>3. \A u \in Student : read.credit[u] = Credit(u)
    OBVIOUS
  <2>4. job' = [job EXCEPT ![j] = read]
    BY <1>1
  <2> HIDE DEF read
  <2> QED BY <1>4, <2>2, <2>3, <2>4
<1>9. LogsTyped' /\ \A u \in Student : UNCHANGED Attended(u) /\ Attended(u) \in Int
  BY <1>1, ClassRests DEF CertInv
<1>10. WorkTyped'
  BY <1>1, <1>7, <1>8 DEF CertInv, WorkTyped
<1>11. CertificatesInv' /\ OneCertificate' /\ FileInv'
  BY <1>1, <1>9 DEF CertInv, CertificatesInv, OneCertificate, CertificatesOf, FileInv
<1>12. JobInv'
  <2>1. ASSUME NEW k \in Job, NEW u \in Student PROVE job'[k].credit[u] <= Attended(u)
    <3>1. CASE k = j
      BY <1>8, <3>1, CreditIsCovered DEF CertInv
    <3>2. CASE k # j
      BY <1>8, <3>2 DEF CertInv, JobInv
    <3> QED BY <3>1, <3>2
  <2> QED BY <1>9, <2>1 DEF JobInv
<1>13. WorkInv'
  <2>0. Len(cert) \in Nat
    BY DEF CertInv, CertificatesInv
  <2>1. ASSUME NEW k \in Job, NEW p \in Place PROVE WorkFine(k, p)'
    <3>1. CASE k = j
      <4>1. /\ task'[k][p].pc \in {"off", "number"} /\ task'[k][p].id = 0
            /\ task'[k][p].pc = "number" => task'[k][p].user \in Student
        BY <1>3, <1>7, <3>1
      <4> QED BY <1>1, <2>0, <4>1 DEF WorkFine
    <3>2. CASE k # j
      <4>1. /\ WorkFine(k, p) /\ task'[k][p] = task[k][p] /\ job'[k] = job[k]
            /\ overlap \subseteq overlap'
        BY <1>1, <1>7, <1>8, <3>2 DEF CertInv, WorkInv
      <4>2. CertificatesOf(task[k][p].user)' = CertificatesOf(task[k][p].user)
            \/ task'[k][p] # task[k][p]
        BY <1>1, <4>1 DEF CertificatesOf
      <4> QED BY <1>1, <4>1, <4>2 DEF WorkFine, Participated, CertificatesOf
    <3> QED BY <3>1, <3>2
  <2> QED BY <2>1 DEF WorkInv
<1>14. OverlapInv'
  <2>1. ASSUME NEW k \in Job, NEW i \in Job, NEW p \in Place, NEW o \in Place, NEW u \in Student,
               k # i \/ p # o, WorksOn(k, p, u)', WorksOn(i, o, u)'
        PROVE  u \in overlap'
    <3>1. ASSUME NEW x \in Place, WorksOn(j, x, u)' PROVE x \in DOMAIN who /\ who[x] = u
      BY <1>3, <1>7, <3>1 DEF WorksOn, Active
    <3>2. ASSUME NEW y \in Job \ {j}, NEW x \in Place, WorksOn(y, x, u)' PROVE WorksOn(y, x, u)
      BY <1>7, <3>2 DEF WorksOn, Active
    <3>3. CASE k # j /\ i # j
      BY <1>1, <2>1, <3>2, <3>3 DEF CertInv, OverlapInv
    <3>4. CASE k = j /\ i = j
      <4>1. p \in DOMAIN who /\ who[p] = u /\ o \in DOMAIN who \ {p} /\ who[o] = u
        BY <2>1, <3>1, <3>4
      <4> HIDE DEF who
      <4> QED BY <1>1, <4>1
    <3>5. CASE k = j /\ i # j
      <4>1. p \in DOMAIN who /\ who[p] = u /\ WorksOn(i, o, u)
        BY <2>1, <3>1, <3>2, <3>5
      <4> HIDE DEF who
      <4> QED BY <1>1, <3>5, <4>1
    <3>6. CASE k # j /\ i = j
      <4>1. o \in DOMAIN who /\ who[o] = u /\ WorksOn(k, p, u)
        BY <2>1, <3>1, <3>2, <3>6
      <4> HIDE DEF who
      <4> QED BY <1>1, <3>6, <4>1
    <3> QED BY <3>3, <3>4, <3>5, <3>6
  <2> QED BY <2>1 DEF OverlapInv
<1> QED BY <1>9, <1>10, <1>11, <1>12, <1>13, <1>14 DEF CertInv

\* A worker dies, and its work is forgotten.
LEMMA DieKeeps == ASSUME CertInv, NEW j \in Job, Die(j) PROVE CertInv'
<1> DEFINE again == job[j].runs = 1 /\ \A p \in Place : task[j][p].pc # "failed"
<1>1. /\ UNCHANGED <<attendanceVars, grade, asked, cert, sent, overlap, drawn>>
      /\ task' = [task EXCEPT ![j] = [p \in Place |-> NoWork]]
      /\ job' = [job EXCEPT ![j] = [job[j] EXCEPT !.waits = again]]
  BY DEF Die
<1>2. task \in [Job -> [Place -> Work]]
      /\ job \in [Job -> [waits : BOOLEAN, runs : Nat, credit : [Student -> Int]]]
  BY DEF CertInv, WorkTyped
<1>3. again \in BOOLEAN
  OBVIOUS
<1> HIDE DEF again
<1>4. /\ task' \in [Job -> [Place -> Work]]
      /\ \A p \in Place : task'[j][p] = NoWork
      /\ \A k \in Job \ {j} : task'[k] = task[k]
  BY <1>1, <1>2, NoWorkIsWork
<1>5. /\ job' \in [Job -> [waits : BOOLEAN, runs : Nat, credit : [Student -> Int]]]
      /\ \A k \in Job : job'[k].credit = job[k].credit
  BY <1>1, <1>2, <1>3
<1>6. LogsTyped' /\ \A u \in Student : UNCHANGED Attended(u) /\ Attended(u) \in Int
  BY <1>1, ClassRests DEF CertInv
<1>7. WorkTyped'
  BY <1>1, <1>4, <1>5 DEF CertInv, WorkTyped
<1>8. CertificatesInv' /\ OneCertificate' /\ FileInv' /\ JobInv'
  BY <1>1, <1>5, <1>6 DEF CertInv, CertificatesInv, OneCertificate, CertificatesOf, FileInv, JobInv
<1>9. WorkInv'
  <2>0. Len(cert) \in Nat
    BY DEF CertInv, CertificatesInv
  <2>1. ASSUME NEW k \in Job, NEW p \in Place PROVE WorkFine(k, p)'
    <3>1. CASE k = j
      <4>1. task'[k][p].pc = "off" /\ task'[k][p].id = 0
        BY <1>4, <3>1, NoWorkIsWork
      <4> QED BY <1>1, <2>0, <4>1 DEF WorkFine
    <3>2. CASE k # j
      <4>1. /\ WorkFine(k, p) /\ task'[k][p] = task[k][p]
            /\ job'[k].credit = job[k].credit
        BY <1>4, <1>5, <3>2 DEF CertInv, WorkInv
      <4>2. CertificatesOf(task[k][p].user)' = CertificatesOf(task[k][p].user)
            \/ task'[k][p] # task[k][p]
        BY <1>1, <4>1 DEF CertificatesOf
      <4> QED BY <1>1, <4>1, <4>2 DEF WorkFine, Participated, CertificatesOf
    <3> QED BY <3>1, <3>2
  <2> QED BY <2>1 DEF WorkInv
<1>10. OverlapInv'
  <2>1. ASSUME NEW k \in Job, NEW p \in Place, NEW u \in Student, WorksOn(k, p, u)'
        PROVE  WorksOn(k, p, u)
    <3>1. k # j
      BY <1>4, <2>1, NoWorkIsWork DEF WorksOn, Active
    <3> QED BY <1>4, <2>1, <3>1 DEF WorksOn, Active
  <2> QED BY <1>1, <2>1 DEF CertInv, OverlapInv
<1> QED BY <1>6, <1>7, <1>8, <1>9, <1>10 DEF CertInv

\* The work of a job at one place moves on, for the same student.
Moves(j, p) ==
  /\ UNCHANGED <<attendanceVars, grade, asked, job, overlap>>
  /\ drawn \subseteq drawn'
  /\ task' \in [Job -> [Place -> Work]]
  /\ \A k \in Job, o \in Place : k # j \/ o # p => task'[k][o] = task[k][o]
  /\ Active(j, p) /\ task'[j][p].user = task[j][p].user

Works(j, p) ==
  /\ CertInv /\ Active(j, p) /\ UNCHANGED <<attendanceVars, grade, asked, job, overlap>>
  /\ drawn \subseteq drawn'

LEMMA WorkChanges ==
  ASSUME NEW j \in Job, NEW p \in Place, Works(j, p), NEW t \in Work, t.user = task[j][p].user,
         task' = [task EXCEPT ![j] = [task[j] EXCEPT ![p] = t]]
  PROVE  Moves(j, p) /\ task'[j][p] = t
<1>1. task \in [Job -> [Place -> Work]]
  BY DEF Works, CertInv, WorkTyped
<1>2. [task[j] EXCEPT ![p] = t] \in [Place -> Work]
  BY <1>1
<1> QED BY <1>1, <1>2 DEF Moves, Works

\* A student whose work is under way.
LEMMA Worker ==
  ASSUME CertInv, NEW j \in Job, NEW p \in Place, Active(j, p)
  PROVE  /\ task[j][p] \in Work /\ task[j][p].user \in Student /\ task[j][p].id <= Len(cert)
         /\ WorkFine(j, p) /\ Len(cert) \in Nat /\ cert \in Seq(Certificate)
         /\ asked[j] \in Request
<1>1. task[j][p] \in Work /\ asked[j] \in Request
  BY DEF CertInv, WorkTyped
<1>2. WorkFine(j, p) /\ Len(cert) \in Nat /\ cert \in Seq(Certificate)
  BY DEF CertInv, WorkInv, CertificatesInv
<1>3. task[j][p].pc # "off"
  BY DEF Active
<1>4. task[j][p].user \in Student /\ task[j][p].id <= Len(cert)
  BY <1>2, <1>3 DEF WorkFine
<1> QED BY <1>1, <1>2, <1>4

Steps(j, p, pc, id, made) ==
  task' = [task EXCEPT ![j][p] = [@ EXCEPT !.pc = pc, !.id = id, !.made = made]]

LEMMA StepMoves ==
  ASSUME NEW j \in Job, NEW p \in Place, Works(j, p),
         NEW pc \in {"findC", "create", "scores", "emitC", "findP", "createP", "emitP",
                     "done", "failed"},
         NEW id \in Nat, NEW made \in BOOLEAN, Steps(j, p, pc, id, made)
  PROVE  /\ Moves(j, p) /\ task'[j][p].pc = pc /\ task'[j][p].id = id
         /\ task'[j][p].user = task[j][p].user /\ task'[j][p].number = task[j][p].number
<1> DEFINE w == task[j][p]
           t == [w EXCEPT !.pc = pc, !.id = id, !.made = made]
<1>1. w \in Work
  BY Worker DEF Works
<1>2. t \in Work /\ t.pc = pc /\ t.number = w.number /\ t.user = w.user /\ t.id = id
  <2>1. [w EXCEPT !.pc = pc] \in Work
    BY <1>1 DEF Work
  <2>2. [[w EXCEPT !.pc = pc] EXCEPT !.id = id] \in Work
    BY <2>1 DEF Work
  <2>3. [[[w EXCEPT !.pc = pc] EXCEPT !.id = id] EXCEPT !.made = made] \in Work
    BY <2>2 DEF Work
  <2>4. t.pc = pc /\ t.number = w.number /\ t.user = w.user /\ t.id = id
    BY <1>1 DEF Work
  <2> QED BY <2>3, <2>4
<1>3. task' = [task EXCEPT ![j] = [task[j] EXCEPT ![p] = t]]
  BY DEF Steps, Works, CertInv, WorkTyped
<1>4. t.user = task[j][p].user /\ w = task[j][p]
  BY <1>2
<1> HIDE DEF t, w
<1>5. Moves(j, p) /\ task'[j][p] = t
  BY <1>2, <1>3, <1>4, WorkChanges
<1> QED BY <1>2, <1>4, <1>5

\* The steps that change fewer fields.
Finds(j, p, pc, id) == task' = [task EXCEPT ![j][p] = [@ EXCEPT !.pc = pc, !.id = id]]
Leaves(j, p, pc, made) == task' = [task EXCEPT ![j][p] = [@ EXCEPT !.pc = pc, !.made = made]]

LEMMA StepsAreSteps ==
  ASSUME CertInv, NEW j \in Job, NEW p \in Place, NEW pc, NEW id, NEW made
  PROVE  /\ Step(j, p, pc) => Steps(j, p, pc, task[j][p].id, task[j][p].made)
         /\ Finds(j, p, pc, id) => Steps(j, p, pc, id, task[j][p].made)
         /\ Leaves(j, p, pc, made) => Steps(j, p, pc, task[j][p].id, made)
<1> DEFINE w == task[j][p]
           a == [w EXCEPT !.pc = pc]
           b == [a EXCEPT !.id = id]
<1>1. task \in [Job -> [Place -> Work]] /\ w \in Work
  BY DEF CertInv, WorkTyped
<1>2. a = [[a EXCEPT !.id = w.id] EXCEPT !.made = w.made]
  BY <1>1 DEF Work
<1>3. b = [b EXCEPT !.made = w.made]
  BY <1>1 DEF Work
<1>4. [a EXCEPT !.made = made] = [[a EXCEPT !.id = w.id] EXCEPT !.made = made]
  BY <1>1 DEF Work
<1>5. Step(j, p, pc) => Steps(j, p, pc, w.id, w.made)
  <2>1. Step(j, p, pc) => task' = [task EXCEPT ![j] = [task[j] EXCEPT ![p] = a]]
    BY <1>1 DEF Step
  <2>2. (task' = [task EXCEPT ![j] = [task[j] EXCEPT ![p] =
                    [[a EXCEPT !.id = w.id] EXCEPT !.made = w.made]]])
          => Steps(j, p, pc, w.id, w.made)
    BY <1>1 DEF Steps
  <2> QED BY <1>2, <2>1, <2>2
<1>6. Finds(j, p, pc, id) => Steps(j, p, pc, id, w.made)
  <2>1. Finds(j, p, pc, id) => task' = [task EXCEPT ![j] = [task[j] EXCEPT ![p] = b]]
    BY <1>1 DEF Finds
  <2>2. (task' = [task EXCEPT ![j] = [task[j] EXCEPT ![p] = [b EXCEPT !.made = w.made]]])
          => Steps(j, p, pc, id, w.made)
    BY <1>1 DEF Steps
  <2> QED BY <1>3, <2>1, <2>2
<1>7. Leaves(j, p, pc, made) => Steps(j, p, pc, w.id, made)
  <2>1. Leaves(j, p, pc, made) =>
          task' = [task EXCEPT ![j] = [task[j] EXCEPT ![p] = [a EXCEPT !.made = made]]]
    BY <1>1 DEF Leaves
  <2>2. (task' = [task EXCEPT ![j] = [task[j] EXCEPT ![p] =
                    [[a EXCEPT !.id = w.id] EXCEPT !.made = made]]])
          => Steps(j, p, pc, w.id, made)
    BY <1>1 DEF Steps
  <2> QED BY <1>4, <2>1, <2>2
<1> QED BY <1>5, <1>6, <1>7

\* What has to be seen of a step of a job's work at one place.
LEMMA MovesKeep ==
  ASSUME CertInv, NEW j \in Job, NEW p \in Place, Moves(j, p), WorkFine(j, p)',
         CertificatesInv', OneCertificate', FileInv', Len(cert') >= Len(cert),
         \A v \in Student : \/ UNCHANGED CertificatesOf(v)
                            \/ v = task[j][p].user /\ task[j][p].pc \in {"create", "createP"}
  PROVE  CertInv'
<1>1. UNCHANGED <<attendanceVars, grade, asked, job, overlap>>
  BY DEF Moves
<1>2. LogsTyped' /\ \A v \in Student : UNCHANGED Attended(v)
  BY <1>1, ClassRests DEF CertInv
<1>3. WorkTyped' /\ JobInv'
  BY <1>1, <1>2 DEF CertInv, WorkTyped, JobInv, Moves
<1>4. \A k \in Job, o \in Place, v \in Student : WorksOn(k, o, v)' => WorksOn(k, o, v)
  BY DEF WorksOn, Active, Moves
<1>5. OverlapInv'
  BY <1>1, <1>4 DEF CertInv, OverlapInv
<1>6. WorkInv'
  <2>1. ASSUME NEW k \in Job, NEW o \in Place PROVE WorkFine(k, o)'
    <3>1. CASE k = j /\ o = p
      BY <3>1
    <3>2. CASE ~(k = j /\ o = p)
      <4>1. task'[k][o] = task[k][o] /\ WorkFine(k, o) /\ drawn \subseteq drawn'
        BY <3>2 DEF Moves, CertInv, WorkInv
      <4>2. /\ Len(cert) \in Nat /\ Len(cert') \in Nat
            /\ task[k][o].id \in Nat /\ task[k][o].number \in Nat
        BY DEF CertInv, CertificatesInv, WorkTyped, Work
      <4>3. /\ task[k][o].pc \notin {"off", "number"} =>
                 /\ task[k][o].number \in 1 .. Len(cert') + 1
                 /\ <<task[k][o].user, task[k][o].number>> \in drawn'
            /\ task[k][o].id <= Len(cert')
        <5>1. task[k][o].pc \notin {"off", "number"} =>
                 /\ task[k][o].number \in 1 .. Len(cert) + 1
                 /\ <<task[k][o].user, task[k][o].number>> \in drawn
          BY <4>1 DEF WorkFine
        <5>2. task[k][o].id <= Len(cert)
          BY <4>1 DEF WorkFine
        <5> QED BY <4>1, <4>2, <5>1, <5>2
      <4>4. ASSUME task[k][o].pc \in {"create", "createP"}
            PROVE  CertificatesOf(task[k][o].user)' = {} \/ task[k][o].user \in overlap
        <5>1. /\ task[k][o].user \in Student
              /\ CertificatesOf(task[k][o].user) = {} \/ task[k][o].user \in overlap
          BY <4>1, <4>4 DEF WorkFine
        <5> DEFINE v == task[k][o].user
        <5>2. CASE CertificatesOf(v)' = CertificatesOf(v)
          BY <5>1, <5>2
        <5>3. CASE v = task[j][p].user /\ task[j][p].pc \in {"create", "createP"}
          <6>1. WorksOn(k, o, v) /\ WorksOn(j, p, v)
            BY <4>4, <5>3 DEF WorksOn, Active
          <6> QED BY <3>2, <5>1, <6>1 DEF CertInv, OverlapInv
        <5> QED BY <4>1, <5>1, <5>2, <5>3
      <4>5. /\ task[k][o].pc # "off" => task[k][o].user \in Student
            /\ task[k][o].pc \in {"findC", "create"} => Competent(grade[task[k][o].user], asked[k])
            /\ task[k][o].pc \in {"findP", "createP"} => Participated(k, task[k][o].user)
        BY <4>1 DEF WorkFine
      <4>6. (task[k][o].pc \in {"findP", "createP"} => Participated(k, task[k][o].user))'
        BY <1>1, <4>1, <4>5 DEF Participated
      <4>7. (task[k][o].pc \in {"create", "createP"} =>
               CertificatesOf(task[k][o].user) = {} \/ task[k][o].user \in overlap)'
        <5>1. ASSUME task'[k][o].pc \in {"create", "createP"}
              PROVE  CertificatesOf(task[k][o].user)' = {} \/ task'[k][o].user \in overlap'
          BY <1>1, <4>1, <4>4, <5>1
        <5> QED BY <5>1
      <4> QED BY <1>1, <4>1, <4>3, <4>5, <4>6, <4>7 DEF WorkFine
    <3> QED BY <3>1, <3>2
  <2> QED BY <2>1 DEF WorkInv
<1> QED BY <1>2, <1>3, <1>5, <1>6 DEF CertInv

\* Steps that leave the certificates and the events alone.
LEMMA RestKeeps ==
  ASSUME CertInv, UNCHANGED <<attendanceVars, grade, cert, overlap>>
  PROVE  /\ CertificatesInv' /\ OneCertificate' /\ Len(cert') >= Len(cert)
         /\ \A v \in Student : UNCHANGED CertificatesOf(v)
         /\ UNCHANGED sent /\ drawn \subseteq drawn' => FileInv'
<1>1. \A v \in Student : UNCHANGED Attended(v)
  BY ClassRests DEF CertInv
<1>2. \A v \in Student : UNCHANGED CertificatesOf(v)
  BY DEF CertificatesOf
<1>3. Len(cert) \in Nat
  BY DEF CertInv, CertificatesInv
<1>4. UNCHANGED sent /\ drawn \subseteq drawn' => FileInv'
  BY DEF CertInv, FileInv
<1> QED BY <1>1, <1>2, <1>3, <1>4 DEF CertInv, CertificatesInv, OneCertificate

LEMMA ReadNumberKeeps ==
  ASSUME CertInv, NEW j \in Job, NEW p \in Place, ReadNumber(j, p) PROVE CertInv'
<1> DEFINE u == task[j][p].user
           pc == IF Competent(grade[u], asked[j]) THEN "findC" ELSE AfterCompetence(j, p)
           w == task[j][p]
           a == [w EXCEPT !.number = NextNumber]
           b == [a EXCEPT !.average = grade[u]]
           t == [b EXCEPT !.pc = pc]
<1>1. /\ task[j][p].pc = "number" /\ drawn' = drawn \cup {<<u, Len(cert) + 1>>}
      /\ UNCHANGED <<attendanceVars, grade, asked, job, cert, sent, overlap>>
  BY DEF ReadNumber, At, NextNumber
<1>2. Active(j, p)
  BY <1>1 DEF Active
<1>3. /\ w \in Work /\ u \in Student /\ w.id <= Len(cert) /\ Len(cert) \in Nat
  BY <1>2, Worker
<1>4. /\ pc \in {"findC", "findP", "done"}
      /\ pc = "findC" => Competent(grade[u], asked[j])
      /\ pc = "findP" => Participated(j, u)
  BY DEF AfterCompetence
<1>5. grade[u] \in [QuizType -> Average] /\ task \in [Job -> [Place -> Work]]
  BY <1>3 DEF CertInv, WorkTyped
<1>6. task' = [task EXCEPT ![j] = [task[j] EXCEPT ![p] = t]]
  BY <1>5 DEF ReadNumber
<1> HIDE DEF pc, u, w
<1>7. t \in Work /\ t.pc = pc /\ t.user = w.user /\ t.id = w.id /\ t.number = Len(cert) + 1
  <2>1. a \in Work /\ a.user = w.user /\ a.id = w.id /\ a.number = Len(cert) + 1
    BY <1>3 DEF Work, NextNumber
  <2> HIDE DEF a
  <2>2. b \in Work /\ b.user = w.user /\ b.id = w.id /\ b.number = Len(cert) + 1
    BY <1>5, <2>1 DEF Work
  <2> HIDE DEF b
  <2> QED BY <1>4, <2>2 DEF Work
<1> HIDE DEF t
<1>8. Works(j, p)
  BY <1>1, <1>2 DEF Works
<1>9. Moves(j, p) /\ task'[j][p] = t
  BY <1>6, <1>7, <1>8, WorkChanges DEF w
<1>10. /\ CertificatesInv' /\ OneCertificate' /\ Len(cert') >= Len(cert) /\ FileInv'
       /\ \A v \in Student : UNCHANGED CertificatesOf(v)
  BY <1>1, <1>8, RestKeeps DEF Works
<1>11. WorkFine(j, p)'
  <2>1. /\ task'[j][p].user = u /\ task'[j][p].pc = pc /\ task'[j][p].id = w.id
        /\ task'[j][p].number = Len(cert) + 1
    BY <1>7, <1>9 DEF u, w
  <2>2. (task[j][p].pc \in {"findP", "createP"} => Participated(j, task[j][p].user))'
    <3>1. task'[j][p].pc \in {"findP", "createP"} => Participated(j, u)
      BY <1>4, <2>1
    <3>2. Participated(j, u) => asked[j].attended # 0 /\ job[j].credit[u] >= asked[j].attended
      BY DEF Participated
    <3> QED BY <1>1, <2>1, <3>1, <3>2 DEF Participated
  <2>3. /\ task'[j][p].pc \in {"findC", "create"} => Competent(grade'[u], asked'[j])
        /\ task'[j][p].pc \notin {"create", "createP"}
    BY <1>1, <1>4, <2>1
  <2>4. <<u, Len(cert) + 1>> \in drawn' /\ Len(cert') = Len(cert)
    BY <1>1
  <2> QED BY <1>3, <2>1, <2>2, <2>3, <2>4 DEF WorkFine
<1> QED BY <1>9, <1>10, <1>11, MovesKeep

\* What a step that only goes on has to show of its own work.
LEMMA GoesOn ==
  ASSUME NEW j \in Job, NEW p \in Place, Works(j, p), task[j][p].pc # "number",
         NEW pc \in {"findC", "create", "scores", "emitC", "findP", "createP", "emitP",
                     "done", "failed"},
         NEW id \in Nat, NEW made \in BOOLEAN, Steps(j, p, pc, id, made),
         id <= Len(cert'), Len(cert') \in Nat, Len(cert) <= Len(cert'),
         pc \in {"findC", "create"} => Competent(grade[task[j][p].user], asked[j]),
         pc \in {"findP", "createP"} => Participated(j, task[j][p].user),
         pc \in {"create", "createP"} =>
           CertificatesOf(task[j][p].user) = {} /\ UNCHANGED cert
  PROVE  Moves(j, p) /\ WorkFine(j, p)'
<1> DEFINE u == task[j][p].user
<1>1. /\ Moves(j, p) /\ task'[j][p].pc = pc /\ task'[j][p].id = id
      /\ task'[j][p].user = u /\ task'[j][p].number = task[j][p].number
  BY StepMoves
<1>2. /\ WorkFine(j, p) /\ u \in Student /\ Len(cert) \in Nat /\ task[j][p].number \in Nat
      /\ task[j][p].pc \notin {"off", "number"} /\ drawn \subseteq drawn'
      /\ UNCHANGED <<attendanceVars, grade, asked, job, overlap>>
  BY Worker DEF Works, Active, Work
<1>3. task[j][p].number \in 1 .. Len(cert) + 1 /\ <<u, task[j][p].number>> \in drawn
  BY <1>2 DEF WorkFine
<1>4. task'[j][p].number \in 1 .. Len(cert') + 1 /\ <<task'[j][p].user, task'[j][p].number>> \in drawn'
  BY <1>1, <1>2, <1>3
<1> HIDE DEF u
<1>5. (task[j][p].pc \in {"findP", "createP"} => Participated(j, task[j][p].user))'
  <2>1. pc \in {"findP", "createP"} =>
          asked[j].attended # 0 /\ job[j].credit[u] >= asked[j].attended
    BY DEF Participated, u
  <2> QED BY <1>1, <1>2, <2>1 DEF Participated
<1>6. task'[j][p].pc \in {"findC", "create"} => Competent(grade'[u], asked'[j])
  BY <1>1, <1>2 DEF u
<1>7. (task[j][p].pc \in {"create", "createP"} => CertificatesOf(task[j][p].user) = {})'
  <2>1. pc \in {"create", "createP"} => CertificatesOf(u) = {} /\ UNCHANGED cert
    BY DEF u
  <2> QED BY <1>1, <2>1 DEF CertificatesOf
<1> QED BY <1>1, <1>2, <1>4, <1>5, <1>6, <1>7 DEF WorkFine

\* A certificate is looked for, of either kind.
LEMMA FindKeeps ==
  ASSUME CertInv, NEW j \in Job, NEW p \in Place,
         NEW found \in {"scores", "emitP"}, NEW missing \in {"create", "createP"},
         task[j][p].pc \in {"findC", "findP"},
         missing = "create" => task[j][p].pc = "findC",
         missing = "createP" => task[j][p].pc = "findP",
         UNCHANGED <<attendanceVars, grade, asked, job, cert, sent, overlap, drawn>>,
         FindCertificate(j, p, found, missing)
  PROVE  CertInv'
<1>1. /\ CertificatesInv' /\ OneCertificate' /\ Len(cert') >= Len(cert) /\ FileInv'
      /\ \A v \in Student : UNCHANGED CertificatesOf(v)
  BY RestKeeps
<1>2. /\ Works(j, p) /\ task[j][p].pc # "number" /\ task[j][p] \in Work
      /\ Len(cert) \in Nat /\ WorkFine(j, p) /\ task[j][p].id <= Len(cert)
      /\ Len(cert') = Len(cert) /\ DOMAIN cert = 1 .. Len(cert)
  BY Worker DEF Works, Active
<1>3. task[j][p].id \in Nat /\ task[j][p].made \in BOOLEAN
  BY <1>2 DEF Work
<1>4. CASE CertificatesOf(task[j][p].user) = {} /\ Step(j, p, missing)
  <2>1. Steps(j, p, missing, task[j][p].id, task[j][p].made)
    BY <1>4, StepsAreSteps
  <2>2. /\ missing \in {"findC", "create"} => Competent(grade[task[j][p].user], asked[j])
        /\ missing \in {"findP", "createP"} => Participated(j, task[j][p].user)
    BY <1>2 DEF WorkFine
  <2>3. Moves(j, p) /\ WorkFine(j, p)'
    BY <1>2, <1>3, <1>4, <2>1, <2>2, GoesOn
  <2> QED BY <1>1, <2>3, MovesKeep
<1>5. ASSUME NEW i \in CertificatesOf(task[j][p].user), Finds(j, p, found, i)
      PROVE  CertInv'
  <2>1. i \in 1 .. Len(cert) /\ i \in Nat
    BY <1>2 DEF CertificatesOf
  <2>2. Steps(j, p, found, i, task[j][p].made)
    BY <1>5, StepsAreSteps
  <2>3. Moves(j, p) /\ WorkFine(j, p)'
    BY <1>2, <1>3, <2>1, <2>2, GoesOn
  <2> QED BY <1>1, <2>3, MovesKeep
<1> QED BY <1>4, <1>5 DEF FindCertificate, Finds

LEMMA FindCompetenceKeeps ==
  ASSUME CertInv, NEW j \in Job, NEW p \in Place, FindCompetence(j, p) PROVE CertInv'
<1>1. /\ task[j][p].pc = "findC" /\ FindCertificate(j, p, "scores", "create")
      /\ UNCHANGED <<attendanceVars, grade, asked, job, cert, sent, overlap, drawn>>
  BY DEF FindCompetence, At
<1> QED BY <1>1, FindKeeps

LEMMA FindParticipationKeeps ==
  ASSUME CertInv, NEW j \in Job, NEW p \in Place, FindParticipation(j, p) PROVE CertInv'
<1>1. /\ task[j][p].pc = "findP" /\ FindCertificate(j, p, "emitP", "createP")
      /\ UNCHANGED <<attendanceVars, grade, asked, job, cert, sent, overlap, drawn>>
  BY DEF FindParticipation, At
<1> QED BY <1>1, FindKeeps

\* A certificate is made by work that found none, so it is the student's first unless
\* other work has made one meanwhile, and its number is one more than the last id at most.
LEMMA CreateKeeps ==
  ASSUME CertInv, NEW j \in Job, NEW p \in Place, NEW kind \in {"C", "P"},
         NEW next \in {"scores", "emitP"},
         task[j][p].pc = IF kind = "C" THEN "create" ELSE "createP", Create(j, p, kind, next)
  PROVE  CertInv'
<1> DEFINE u == task[j][p].user
           n == [user |-> u, no |-> <<kind, task[j][p].number>>, file |-> "none",
                 scores |-> {}, asked |-> asked[j]]
<1>1. /\ cert' = Append(cert, n)
      /\ UNCHANGED <<attendanceVars, grade, asked, job, sent, overlap, drawn>>
  BY DEF Create
<1>2. /\ Works(j, p) /\ task[j][p].pc # "number" /\ u \in Student /\ asked[j] \in Request
      /\ cert \in Seq(Certificate) /\ Len(cert) \in Nat /\ WorkFine(j, p)
  BY <1>1, Worker DEF Works, Active
<1>3. /\ task[j][p].number \in 1 .. Len(cert) + 1
      /\ CertificatesOf(u) = {} \/ u \in overlap
      /\ kind = "C" => Competent(grade[u], asked[j])
      /\ kind = "P" => Participated(j, u)
  BY <1>2 DEF WorkFine
<1>4. /\ n.user = u /\ n.no = <<kind, task[j][p].number>> /\ n.file = "none"
      /\ n.asked = asked[j] /\ n.no[1] = kind
  OBVIOUS
<1>5. n \in Certificate
  <2>1. <<kind, task[j][p].number>> \in {"C", "P"} \X Nat
    BY <1>2, <1>3
  <2> QED BY <1>2, <2>1 DEF Certificate
<1>6. Earned(n, grade[u], Attended(u))
  <2>1. CASE kind = "C"
    BY <1>3, <1>4, <2>1 DEF Competent, Earned
  <2>2. CASE kind = "P"
    <3>1. asked[j].attended # 0 /\ job[j].credit[u] >= asked[j].attended
      BY <1>3, <2>2 DEF Participated
    <3>2. /\ job[j].credit[u] <= Attended(u) /\ job[j].credit[u] \in Int
          /\ asked[j].attended \in Int /\ Attended(u) \in Int
      BY <1>2, CreditIsCovered DEF CertInv, JobInv, WorkTyped, Request
    <3> QED BY <1>4, <2>2, <3>1, <3>2 DEF Earned
  <2> QED BY <2>1, <2>2
<1>7. Steps(j, p, next, Len(cert) + 1, TRUE)
  BY DEF Create, Steps
<1> HIDE DEF n, u
<1>8. /\ cert' \in Seq(Certificate) /\ Len(cert') = Len(cert) + 1
      /\ cert'[Len(cert) + 1] = n
      /\ \A i \in 1 .. Len(cert) : cert'[i] = cert[i]
      /\ DOMAIN cert = 1 .. Len(cert) /\ DOMAIN cert' = 1 .. Len(cert) + 1
  BY <1>1, <1>2, <1>5
<1>9. \A v \in Student : UNCHANGED Attended(v)
  BY <1>1, ClassRests DEF CertInv
<1>10. CertificatesInv'
  <2>1. ASSUME NEW i \in 1 .. Len(cert')
        PROVE  /\ cert'[i].no \in {"C", "P"} \X (1 .. i)
               /\ \A v \in Student : cert'[i].user = v => Earned(cert'[i], grade[v], Attended(v))
    <3>1. CASE i \in 1 .. Len(cert)
      BY <1>8, <3>1 DEF CertInv, CertificatesInv
    <3>2. CASE i = Len(cert) + 1
      <4>1. cert'[i] = n /\ n.no \in {"C", "P"} \X (1 .. i)
        BY <1>2, <1>3, <1>4, <1>8, <3>2
      <4> QED BY <1>4, <1>6, <4>1
    <3> QED BY <1>2, <1>8, <3>1, <3>2
  <2>2. \A i \in 1 .. Len(cert'), v \in Student :
          cert'[i].user = v => Earned(cert'[i], grade[v], Attended(v)')
    BY <1>9, <2>1
  <2> QED BY <1>1, <1>8, <2>1, <2>2 DEF CertificatesInv
<1>11. \A v \in Student \ {u} : UNCHANGED CertificatesOf(v)
  <2>1. ASSUME NEW v \in Student \ {u} PROVE CertificatesOf(v)' = CertificatesOf(v)
    <3>1. \A i : i \in CertificatesOf(v)' <=> i \in CertificatesOf(v)
      BY <1>2, <1>4, <1>8 DEF CertificatesOf
    <3> QED BY <3>1
  <2> QED BY <2>1
<1>12. OneCertificate'
  <2>1. CASE u \in overlap
    BY <1>1, <1>11, <2>1 DEF CertInv, OneCertificate
  <2>2. CASE CertificatesOf(u) = {}
    <3>1. \A i : i \in DOMAIN cert' /\ cert'[i].user = u <=> i = Len(cert) + 1
      BY <1>2, <1>4, <1>8, <2>2 DEF CertificatesOf
    <3>2. ASSUME NEW v \in Student, v = u PROVE Cardinality(CertificatesOf(v)') = 1
      <4>1. CertificatesOf(v)' = {Len(cert) + 1}
        BY <3>1, <3>2 DEF CertificatesOf
      <4> QED BY <4>1, FS_Singleton
    <3> QED BY <1>1, <1>11, <3>2 DEF CertInv, OneCertificate
  <2> QED BY <1>3, <2>1, <2>2
<1>13. FileInv'
  <2>1. ASSUME NEW i \in 1 .. Len(cert'), cert'[i].file # "none"
        PROVE  <<cert'[i].file, cert'[i].no[2]>> \in drawn
    <3>1. i \in 1 .. Len(cert)
      BY <1>2, <1>4, <1>8, <2>1
    <3> QED BY <1>8, <2>1, <3>1 DEF CertInv, FileInv
  <2> QED BY <1>1, <2>1 DEF CertInv, FileInv
<1>14. Moves(j, p) /\ WorkFine(j, p)'
  <2>1. /\ Len(cert) + 1 \in Nat /\ Len(cert) + 1 <= Len(cert') /\ Len(cert') \in Nat
        /\ Len(cert) <= Len(cert') /\ TRUE \in BOOLEAN
    BY <1>2, <1>8
  <2>2. \A made \in BOOLEAN : Steps(j, p, next, Len(cert) + 1, made) =>
          Moves(j, p) /\ WorkFine(j, p)'
    BY <1>2, <2>1, GoesOn
  <2> QED BY <1>7, <2>2
<1> QED BY <1>2, <1>8, <1>10, <1>11, <1>12, <1>13, <1>14, MovesKeep DEF u

\* A row is changed, and stays whose it is.
LEMMA RowKeeps ==
  ASSUME CertInv, UNCHANGED <<attendanceVars, grade, overlap>>,
         NEW i \in 1 .. Len(cert), NEW row \in Certificate,
         row.user = cert[i].user, row.no = cert[i].no, row.asked = cert[i].asked,
         cert' = [cert EXCEPT ![i] = row]
  PROVE  /\ CertificatesInv' /\ OneCertificate' /\ Len(cert') = Len(cert)
         /\ \A v \in Student : UNCHANGED CertificatesOf(v)
<1>1. cert \in Seq(Certificate) /\ Len(cert) \in Nat
  BY DEF CertInv, CertificatesInv
<1>2. /\ cert' \in Seq(Certificate) /\ Len(cert') = Len(cert) /\ DOMAIN cert' = DOMAIN cert
      /\ DOMAIN cert = 1 .. Len(cert)
      /\ cert'[i] = row /\ \A k \in 1 .. Len(cert) : k # i => cert'[k] = cert[k]
  BY <1>1
<1>3. \A k \in 1 .. Len(cert) :
        cert'[k].user = cert[k].user /\ cert'[k].no = cert[k].no /\ cert'[k].asked = cert[k].asked
  BY <1>2
<1>4. \A v \in Student : UNCHANGED CertificatesOf(v)
  BY <1>2, <1>3 DEF CertificatesOf
<1>5. \A v \in Student : UNCHANGED Attended(v)
  BY ClassRests DEF CertInv
<1>6. CertificatesInv'
  <2>1. ASSUME NEW k \in 1 .. Len(cert), NEW v \in Student, cert'[k].user = v
        PROVE  Earned(cert'[k], grade[v], Attended(v))
    <3>1. Earned(cert[k], grade[v], Attended(v))
      BY <1>3, <2>1 DEF CertInv, CertificatesInv
    <3> QED BY <1>3, <3>1 DEF Earned
  <2>2. \A k \in 1 .. Len(cert), v \in Student :
          cert'[k].user = v => Earned(cert'[k], grade[v], Attended(v)')
    BY <1>5, <2>1
  <2> QED BY <1>2, <1>3, <2>2 DEF CertInv, CertificatesInv
<1> QED BY <1>2, <1>4, <1>6 DEF CertInv, OneCertificate

LEMMA StoreScoresKeeps ==
  ASSUME CertInv, NEW j \in Job, NEW p \in Place, StoreScores(j, p) PROVE CertInv'
<1> DEFINE t == task[j][p]
           stored == {q \in QuizType : t.average[q] \notin {0, NoQuiz}}
           failing == {q \in stored : t.average[q] % Point # 0
                                       \/ (~t.made /\ q \notin cert[t.id].scores)}
           more == IF "daily" \in failing THEN {} ELSE stored \ failing
           row == [cert[t.id] EXCEPT !.scores = @ \cup more]
           pc == IF failing = {} THEN "emitC" ELSE "failed"
           made == IF failing = {} THEN t.made ELSE FALSE
<1>1. /\ t.pc = "scores" /\ cert' = [cert EXCEPT ![t.id].scores = @ \cup more]
      /\ UNCHANGED <<attendanceVars, grade, asked, job, sent, overlap, drawn>>
      /\ IF failing = {} THEN Step(j, p, "emitC") ELSE Leaves(j, p, "failed", FALSE)
  BY DEF StoreScores, At, Leaves
<1>2. more \subseteq QuizType /\ pc \in {"emitC", "failed"}
  OBVIOUS
<1>3. /\ Works(j, p) /\ t.pc # "number" /\ t \in Work /\ t.id <= Len(cert)
      /\ Len(cert) \in Nat /\ cert \in Seq(Certificate)
  BY <1>1, Worker DEF Works, Active
<1>4. t.id \in Nat /\ t.made \in BOOLEAN /\ made \in BOOLEAN
  BY <1>3 DEF Work
<1>5. Steps(j, p, pc, t.id, made)
  BY <1>1, StepsAreSteps
<1> HIDE DEF more, pc, made
<1>6. /\ CertificatesInv' /\ OneCertificate' /\ Len(cert') = Len(cert)
      /\ \A v \in Student : UNCHANGED CertificatesOf(v)
      /\ \A i \in 1 .. Len(cert) : cert'[i].file = cert[i].file /\ cert'[i].no = cert[i].no
  <2>1. CASE t.id \in 1 .. Len(cert)
    <3>1. cert[t.id] \in Certificate
      BY <1>3, <2>1
    <3>2. /\ row \in Certificate /\ row.user = cert[t.id].user /\ row.no = cert[t.id].no
          /\ row.asked = cert[t.id].asked /\ row.file = cert[t.id].file
      BY <1>2, <3>1 DEF Certificate
    <3>3. cert' = [cert EXCEPT ![t.id] = row]
      BY <1>1
    <3> HIDE DEF row, t
    <3>4. /\ CertificatesInv' /\ OneCertificate' /\ Len(cert') = Len(cert)
          /\ \A v \in Student : UNCHANGED CertificatesOf(v)
      BY <1>1, <2>1, <3>2, <3>3, RowKeeps
    <3>5. \A i \in 1 .. Len(cert) : cert'[i].file = cert[i].file /\ cert'[i].no = cert[i].no
      BY <1>3, <2>1, <3>2, <3>3
    <3> QED BY <3>4, <3>5
  <2>2. CASE t.id \notin 1 .. Len(cert)
    <3>1. cert' = cert
      BY <1>1, <1>3, <2>2
    <3> QED BY <1>1, <3>1, RestKeeps
  <2> QED BY <2>1, <2>2
<1>7. FileInv'
  <2>1. ASSUME NEW i \in 1 .. Len(cert), cert'[i].file # "none"
        PROVE  <<cert'[i].file, cert'[i].no[2]>> \in drawn
    BY <1>6, <2>1 DEF CertInv, FileInv
  <2> QED BY <1>1, <1>6, <2>1 DEF CertInv, FileInv
<1>8. Moves(j, p) /\ WorkFine(j, p)'
  <2>1. t.id <= Len(cert') /\ Len(cert') \in Nat /\ Len(cert) <= Len(cert')
    BY <1>3, <1>6
  <2> QED BY <1>2, <1>3, <1>4, <1>5, <2>1, GoesOn
<1> QED BY <1>3, <1>6, <1>7, <1>8, MovesKeep

\* An event bears the number that its work has read.
LEMMA EmitKeeps ==
  ASSUME CertInv, NEW j \in Job, NEW p \in Place, NEW kind \in {"C", "P"},
         NEW next \in {"findP", "done"}, task[j][p].pc \in {"emitC", "emitP"},
         next = "findP" => Participated(j, task[j][p].user),
         Emit(j, p, kind, next)
  PROVE  CertInv'
<1>1. /\ sent' = sent \cup {[no |-> <<kind, task[j][p].number>>, user |-> task[j][p].user]}
      /\ UNCHANGED <<attendanceVars, grade, asked, job, cert, overlap, drawn>>
      /\ Leaves(j, p, next, FALSE)
  BY DEF Emit, Leaves
<1>2. /\ Works(j, p) /\ task[j][p].pc # "number" /\ task[j][p] \in Work
      /\ task[j][p].user \in Student /\ task[j][p].id <= Len(cert) /\ Len(cert) \in Nat
      /\ WorkFine(j, p)
  BY <1>1, Worker DEF Works, Active
<1>3. <<task[j][p].user, task[j][p].number>> \in drawn
  BY <1>2 DEF WorkFine
<1>4. /\ CertificatesInv' /\ OneCertificate' /\ Len(cert') >= Len(cert)
      /\ \A v \in Student : UNCHANGED CertificatesOf(v)
  BY <1>1, RestKeeps
<1>5. FileInv'
  <2>1. ASSUME NEW e \in sent' PROVE e.user \in Student /\ <<e.user, e.no[2]>> \in drawn
    BY <1>1, <1>2, <1>3, <2>1 DEF CertInv, FileInv
  <2>2. \A i \in 1 .. Len(cert') :
          cert'[i].file # "none" => <<cert'[i].file, cert'[i].no[2]>> \in drawn
    BY <1>1 DEF CertInv, FileInv
  <2> QED BY <1>1, <2>1, <2>2 DEF FileInv
<1>6. Moves(j, p) /\ WorkFine(j, p)'
  <2>1. /\ task[j][p].id \in Nat /\ task[j][p].id <= Len(cert') /\ Len(cert') \in Nat
        /\ Len(cert) <= Len(cert')
    BY <1>1, <1>2 DEF Work
  <2>2. Steps(j, p, next, task[j][p].id, FALSE)
    BY <1>1, StepsAreSteps
  <2>3. \A made \in BOOLEAN : Steps(j, p, next, task[j][p].id, made) =>
          Moves(j, p) /\ WorkFine(j, p)'
    BY <1>2, <2>1, GoesOn
  <2> QED BY <2>2, <2>3
<1> QED BY <1>4, <1>5, <1>6, MovesKeep

LEMMA TaskKeeps ==
  ASSUME CertInv, NEW j \in Job, NEW p \in Place, Task(j, p) PROVE CertInv'
<1>1. CASE EmitCompetence(j, p)
  <2>1. /\ AfterCompetence(j, p) \in {"findP", "done"} /\ task[j][p].pc = "emitC"
        /\ AfterCompetence(j, p) = "findP" => Participated(j, task[j][p].user)
        /\ Emit(j, p, "C", AfterCompetence(j, p))
    BY <1>1 DEF AfterCompetence, EmitCompetence, At
  <2> QED BY <2>1, EmitKeeps
<1>2. CASE EmitParticipation(j, p)
  <2>1. task[j][p].pc = "emitP" /\ Emit(j, p, "P", "done")
    BY <1>2 DEF EmitParticipation, At
  <2> QED BY <2>1, EmitKeeps
<1>3. CASE CreateCompetence(j, p)
  <2>1. task[j][p].pc = "create" /\ Create(j, p, "C", "scores")
    BY <1>3 DEF CreateCompetence, At
  <2> QED BY <2>1, CreateKeeps
<1>4. CASE CreateParticipation(j, p)
  <2>1. task[j][p].pc = "createP" /\ Create(j, p, "P", "emitP")
    BY <1>4 DEF CreateParticipation, At
  <2> QED BY <2>1, CreateKeeps
<1> QED BY <1>1, <1>2, <1>3, <1>4, ReadNumberKeeps, FindCompetenceKeeps, StoreScoresKeeps,
           FindParticipationKeeps DEF Task

\* The generator's answer changes the file of one certificate.
LEMMA HandleKeeps == ASSUME CertInv, NEW e \in sent, HandleGenerated(e) PROVE CertInv'
<1>1. /\ sent' \subseteq sent
      /\ UNCHANGED <<attendanceVars, grade, asked, job, task, overlap, drawn>>
      /\ \/ UNCHANGED cert
         \/ \E i \in DOMAIN cert : /\ cert[i].no = e.no
                                   /\ cert' = [cert EXCEPT ![i].file = e.user]
  BY DEF HandleGenerated
<1>2. /\ e.user \in Student /\ <<e.user, e.no[2]>> \in drawn
      /\ cert \in Seq(Certificate) /\ DOMAIN cert = 1 .. Len(cert) /\ Len(cert) \in Nat
  BY DEF CertInv, FileInv, CertificatesInv
<1>3. /\ CertificatesInv' /\ OneCertificate' /\ Len(cert') = Len(cert)
      /\ \A v \in Student : UNCHANGED CertificatesOf(v)
      /\ \A k \in 1 .. Len(cert) :
           /\ cert'[k].no = cert[k].no
           /\ \/ cert'[k].file = cert[k].file
              \/ cert'[k].file = e.user /\ cert[k].no[2] = e.no[2]
  <2> UNCHANGED <<attendanceVars, grade, overlap>>
    BY <1>1
  <2>1. CASE UNCHANGED cert
    <3>1. /\ CertificatesInv' /\ OneCertificate'
          /\ \A v \in Student : UNCHANGED CertificatesOf(v)
      BY <2>1, RestKeeps
    <3>2. Len(cert') = Len(cert) /\ \A k \in 1 .. Len(cert) : cert'[k] = cert[k]
      BY <2>1
    <3> QED BY <3>1, <3>2
  <2>2. ASSUME NEW i \in DOMAIN cert, cert[i].no = e.no,
               cert' = [cert EXCEPT ![i].file = e.user]
        PROVE  /\ CertificatesInv' /\ OneCertificate' /\ Len(cert') = Len(cert)
               /\ \A v \in Student : UNCHANGED CertificatesOf(v)
               /\ \A k \in 1 .. Len(cert) :
                    /\ cert'[k].no = cert[k].no
                    /\ \/ cert'[k].file = cert[k].file
                       \/ cert'[k].file = e.user /\ cert[k].no[2] = e.no[2]
    <3> DEFINE row == [cert[i] EXCEPT !.file = e.user]
    <3>1. i \in 1 .. Len(cert) /\ cert[i] \in Certificate
      BY <1>2
    <3>2. /\ row \in Certificate /\ row.user = cert[i].user /\ row.no = cert[i].no
          /\ row.asked = cert[i].asked /\ row.file = e.user
      BY <1>2, <3>1 DEF Certificate
    <3>3. cert' = [cert EXCEPT ![i] = row]
      BY <2>2
    <3> HIDE DEF row
    <3>4. /\ CertificatesInv' /\ OneCertificate' /\ Len(cert') = Len(cert)
          /\ \A v \in Student : UNCHANGED CertificatesOf(v)
      BY <1>1, <3>1, <3>2, <3>3, RowKeeps
    <3>5. cert'[i] = row /\ \A k \in 1 .. Len(cert) : k # i => cert'[k] = cert[k]
      BY <1>2, <3>1, <3>3
    <3>6. row.no = cert[i].no /\ row.file = e.user /\ cert[i].no[2] = e.no[2]
      BY <2>2, <3>2
    <3>7. ASSUME NEW k \in 1 .. Len(cert)
          PROVE  /\ cert'[k].no = cert[k].no
                 /\ \/ cert'[k].file = cert[k].file
                    \/ cert'[k].file = e.user /\ cert[k].no[2] = e.no[2]
      <4>1. CASE k = i
        BY <3>5, <3>6, <4>1
      <4>2. CASE k # i
        BY <3>5, <4>2
      <4> QED BY <4>1, <4>2
    <3> QED BY <3>4, <3>7
  <2> QED BY <1>1, <2>1, <2>2
<1>4. LogsTyped' /\ \A v \in Student : UNCHANGED Attended(v)
  BY <1>1, ClassRests DEF CertInv
<1>5. WorkTyped' /\ JobInv' /\ OverlapInv'
  BY <1>1, <1>4 DEF CertInv, WorkTyped, JobInv, OverlapInv, WorksOn, Active
<1>6. FileInv'
  <2>1. ASSUME NEW i \in 1 .. Len(cert'), cert'[i].file # "none"
        PROVE  <<cert'[i].file, cert'[i].no[2]>> \in drawn
    BY <1>2, <1>3, <2>1 DEF CertInv, FileInv
  <2> QED BY <1>1, <2>1 DEF CertInv, FileInv
<1>7. WorkInv'
  <2>1. ASSUME NEW j \in Job, NEW p \in Place PROVE WorkFine(j, p)'
    <3>1. WorkFine(j, p)
      BY DEF CertInv, WorkInv
    <3>2. ASSUME task[j][p].pc \in {"create", "createP"}
          PROVE  CertificatesOf(task[j][p].user)' = {} \/ task[j][p].user \in overlap
      <4>1. task[j][p].user \in Student
        BY <3>1, <3>2 DEF WorkFine
      <4>2. ASSUME NEW v \in Student, v = task[j][p].user
            PROVE  CertificatesOf(task[j][p].user)' = CertificatesOf(task[j][p].user)
        <5>1. CertificatesOf(v)' = CertificatesOf(v) /\ v = task'[j][p].user
          BY <1>1, <1>3, <4>2
        <5> QED BY <1>1, <4>2, <5>1 DEF CertificatesOf
      <4> QED BY <3>1, <3>2, <4>1, <4>2 DEF WorkFine
    <3>3. (task[j][p].pc \in {"create", "createP"} =>
             CertificatesOf(task[j][p].user) = {} \/ task[j][p].user \in overlap)'
      BY <1>1, <3>2
    <3>4. (task[j][p].pc \in {"findP", "createP"} => Participated(j, task[j][p].user))'
      BY <1>1, <3>1 DEF WorkFine, Participated
    <3> QED BY <1>1, <1>3, <3>1, <3>3, <3>4 DEF WorkFine
  <2> QED BY <2>1 DEF WorkInv
<1> QED BY <1>3, <1>4, <1>5, <1>6, <1>7 DEF CertInv

LEMMA CertNext == CertInv /\ [Next]_vars => CertInv'
<1> SUFFICES ASSUME CertInv, [Next]_vars PROVE CertInv'
  OBVIOUS
<1>1. CASE AttendanceNext /\ UNCHANGED certVars
  BY <1>1, AttendanceKeeps
<1>2. CASE CertificateNext
  BY <1>2, ScoreRisesKeeps, StartKeeps, DieKeeps, TaskKeeps, HandleKeeps DEF CertificateNext
<1>3. CASE UNCHANGED vars
  <2>1. UNCHANGED <<attendanceVars, grade, asked, job, task, cert, sent, overlap, drawn>>
    BY <1>3 DEF vars, certVars
  <2>2. LogsTyped' /\ \A v \in Student : UNCHANGED Attended(v)
    BY <2>1, ClassRests DEF CertInv
  <2>3. CertificatesInv' /\ OneCertificate' /\ FileInv'
    BY <2>1, RestKeeps
  <2>4. WorkTyped' /\ JobInv' /\ OverlapInv'
    BY <2>1, <2>2 DEF CertInv, WorkTyped, JobInv, OverlapInv, WorksOn, Active
  <2>5. WorkInv'
    BY <2>1 DEF CertInv, WorkInv, WorkFine, CertificatesOf, Participated, Competent, MinimumsOf,
                Reaches
  <2> QED BY <2>2, <2>3, <2>4, <2>5 DEF CertInv
<1> QED BY <1>1, <1>2, <1>3 DEF Next

\* Every reachable state satisfies the inductive invariant.
THEOREM CertificatesInvariant == Spec => []CertInv
BY CertInit, CertNext, PTL DEF Spec

-----------------------------------------------------------------------------
(* What follows from it *)

\* Every variable of the consumer keeps its type, and a certificate's number, read from
\* the last id before its row was inserted, is never above its own id.
THEOREM CertificatesTyped == Spec => []TypeOK
<1>1. CertInv => TypeOK
  <2> SUFFICES ASSUME CertInv PROVE TypeOK
    OBVIOUS
  <2>1. DOMAIN cert = 1 .. Len(cert) /\ Len(cert) \in Nat
    BY DEF CertInv, CertificatesInv
  <2>2. ASSUME NEW i \in DOMAIN cert
        PROVE  /\ cert[i].user \in Student /\ cert[i].no \in {"C", "P"} \X (1 .. i)
               /\ cert[i].file \in Student \cup {"none"} /\ cert[i].scores \subseteq QuizType
    <3>1. cert[i] \in Certificate /\ cert[i].no \in {"C", "P"} \X (1 .. i)
      BY <2>1 DEF CertInv, CertificatesInv
    <3> QED BY <3>1 DEF Certificate
  <2>3. \A j \in Job, p \in Place : task[j][p].id \in 0 .. Len(cert)
    <3>1. \A j \in Job, p \in Place : task[j][p].id \in Nat
      BY DEF CertInv, WorkTyped, Work
    <3>2. \A j \in Job, p \in Place : task[j][p].id <= Len(cert)
      BY DEF CertInv, WorkInv, WorkFine
    <3> QED BY <2>1, <3>1, <3>2
  <2>4. AttendanceTypeOK /\ grade \in [Student -> [QuizType -> Average]]
    BY DEF CertInv, LogsTyped, WorkTyped
  <2> QED BY <2>2, <2>3, <2>4 DEF TypeOK
<1> QED BY <1>1, CertificatesInvariant, PTL

\* However late a webhook comes, however many rows one student gets, however the finish
\* handlers overlap and in whatever order their updates are applied, a row's duration is
\* never more than the time that has passed since its first entry (logParticipant,
\* calculateDuration).
THEOREM NobodyIsOverCredited == Spec => []NeverOverCredited
<1>1. CertInv => NeverOverCredited
  BY DEF CertInv, LogsTyped
<1> QED BY <1>1, CertificatesInvariant, PTL

\* A certificate of the consumer was earned by its own student: by averages that reach
\* every minimum its job gave, or by time that really passed, once for each of the
\* student's rows, although the course was read once, at the job's start, whatever the
\* minimums are and although a worker may die (generatorCertificate).
THEOREM CertificatesWereEarned == Spec => []CertificatesAreEarned
<1>1. CertInv => CertificatesAreEarned
  <2> SUFFICES ASSUME CertInv, NEW i \in DOMAIN cert
               PROVE  Earned(cert[i], grade[cert[i].user], Attended(cert[i].user))
    BY DEF CertificatesAreEarned
  <2>1. i \in 1 .. Len(cert) /\ cert[i] \in Certificate
    BY DEF CertInv, CertificatesInv
  <2>2. cert[i].user \in Student
    BY <2>1 DEF Certificate
  <2> QED BY <2>1, <2>2 DEF CertInv, CertificatesInv
<1> QED BY <1>1, CertificatesInvariant, PTL

\* A second certificate of a student was made only if two pieces of work were once under
\* way on him or her, of two jobs or of one whose list names the student twice: the
\* consumer looks for a row, and inserts one later, in no transaction.  A job that is run
\* again after its worker died makes no second one.
THEOREM StudentsHaveOneCertificate == Spec => []OneCertificate
<1>1. CertInv => OneCertificate
  BY DEF CertInv
<1> QED BY <1>1, CertificatesInvariant, PTL

\* The file a student's list offers is the student's own, unless work on the one it
\* belongs to has read the same number (handleCertificateGenerated finds by number).
THEOREM FilesAreOwn == Spec => []OwnFile
<1>1. CertInv => OwnFile
  <2> SUFFICES ASSUME CertInv, NEW u \in Student, NEW i \in Listed(u)
               PROVE  <<Download(u, i), cert[i].no[2]>> \in drawn
    BY DEF OwnFile
  <2>1. i \in 1 .. Len(cert) /\ i \in CertificatesOf(u) /\ cert[i].file # "none"
    BY DEF CertInv, CertificatesInv, Listed, CertificatesOf
  <2>2. Download(u, i) = cert[i].file
    BY <2>1 DEF Download
  <2> QED BY <2>1, <2>2 DEF CertInv, FileInv
<1> QED BY <1>1, CertificatesInvariant, PTL

=============================================================================
