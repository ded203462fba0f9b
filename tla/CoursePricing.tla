--------------------------- MODULE CoursePricing ---------------------------
(***************************************************************************)
(* What a course costs: its price and is_free (CoursesService.update), the *)
(* discount on it (CourseDiscountService) and the amount an order records  *)
(* (OrdersService.orderCourse).  Courses share nothing here, so there is   *)
(* one.  Every handler reads the course, decides, and writes later; the    *)
(* writes of other handlers fall in between.                               *)
(***************************************************************************)
EXTENDS Integers

CONSTANTS
  Admin,   \* administrators and lecturers, each with one operation at a time
  Buyer,   \* students, each with at most one order
  Price,   \* the prices in use, discounted or not
  NotGiven \* a price that is null, or left out of a body: the code does not tell
           \* null from undefined

ASSUME PricesAreNumbers == Price \subseteq Int /\ NotGiven \notin Price

VARIABLES
  price, is_free,   \* the Course row
  discount,         \* its CourseDiscount row, if it has one
  op,               \* what each administrator's request has read and wants
  order,            \* what each student's request has read or been charged
  stale             \* history: the discount was judged by a price that had changed
                    \* when it was written, or survived a change of the price by an
                    \* update that had read another

pricingVars == <<price, is_free, discount, op, order, stale>>

Prices == Price \cup {NotGiven}
\* null counts as 0 in a sum or a comparison.
Amount(p) == IF p = NotGiven THEN 0 ELSE p

\* A discount counts from its start to its end date while it is active; without
\* those dates, or inactive, never: moment(null) is before and after nothing.
Phase == {"never", "before", "within", "after"}
NoDiscount == [price |-> NotGiven, phase |-> "never"]
Discounts  == [price : {p \in Price : p > 0}, phase : Phase]
HasDiscount == discount # NoDiscount
IsDiscountValid == discount.phase = "within"

Idle == [kind |-> "idle"]
Updates == [kind : {"update"}, price : Prices, free : {"keep", "yes", "no"},
            seenPrice : Prices, seenDiscount : Prices]
Offers  == [kind : {"create", "change"}, row : Discounts, seenPrice : Prices]
Removal == [kind |-> "remove"]

NoOrder == [pc |-> "none"]
Reading == [pc : {"read"}, price : Prices]
Charged == [pc : {"charged"}, total : Price, cut : Int]

PricingInit ==
  /\ price \in Prices /\ is_free \in BOOLEAN
  /\ discount = NoDiscount /\ stale = FALSE
  /\ op = [a \in Admin |-> Idle]
  /\ order = [b \in Buyer |-> NoOrder]

-----------------------------------------------------------------------------
(* CoursesService.update *)

ReadForUpdate(a) ==
  /\ op[a] = Idle
  /\ \E newPrice \in Prices, free \in {"keep", "yes", "no"} :
       op' = [op EXCEPT ![a] =
                [kind |-> "update", price |-> newPrice, free |-> free,
                 seenPrice |-> price, seenDiscount |-> discount.price]]
  /\ UNCHANGED <<price, is_free, discount, order, stale>>

\* Mutant: only a higher price does away with the discount.
DropsDiscount_WhenRaised(u) == Amount(u.price) > Amount(u.seenPrice)

\* The condition on which the transaction deletes the discount; an update that
\* leaves the price out counts as one that changes it, unless there was none.
DropsDiscount(u) == u.price # u.seenPrice \/ u.seenDiscount = u.seenPrice

\* course.update, and the deletion of the discount in the same transaction.
UpdateCourse(a) ==
  LET u == op[a] IN
  /\ u.kind = "update"
  /\ price' = IF u.price = NotGiven THEN price ELSE u.price
  /\ is_free' = (u.free = "yes" \/ (u.free = "keep" /\ is_free))
  /\ discount' = IF DropsDiscount(u) THEN NoDiscount ELSE discount
  /\ stale' = (~DropsDiscount(u) /\ (stale \/ (HasDiscount /\ price' # price /\ u.seenPrice # price)))
  /\ op' = [op EXCEPT ![a] = Idle]
  /\ UNCHANGED order

-----------------------------------------------------------------------------
(* CourseDiscountService *)

\* Mutant: a discount up to the price is accepted.
Judge_UpToPrice(a, kind) ==
  /\ op[a] = Idle /\ ~is_free
  /\ \E row \in Discounts :
       /\ row.price <= Amount(price)
       /\ op' = [op EXCEPT ![a] = [kind |-> kind, row |-> row, seenPrice |-> price]]
  /\ UNCHANGED <<price, is_free, discount, order, stale>>

\* The new row is judged by the course as read; a request that fails the test
\* changes nothing.
Judge(a, kind) ==
  /\ op[a] = Idle /\ ~is_free
  /\ \E row \in Discounts :
       /\ row.price < Amount(price)
       /\ op' = [op EXCEPT ![a] = [kind |-> kind, row |-> row, seenPrice |-> price]]
  /\ UNCHANGED <<price, is_free, discount, order, stale>>

ReadForCreate(a) == Judge(a, "create")

\* An update, like a removal, begins with findOne: 'Diskon tidak ditemukan'.
ReadForChange(a) == HasDiscount /\ Judge(a, "change")

\* A course has at most one discount: a second create, and an update of a row that
\* is gone by now, are refused by the database.
WriteDiscount(a) ==
  /\ op[a].kind \in {"create", "change"}
  /\ IF HasDiscount <=> op[a].kind = "change"
     THEN discount' = op[a].row /\ stale' = (op[a].seenPrice # price)
     ELSE UNCHANGED <<discount, stale>>
  /\ op' = [op EXCEPT ![a] = Idle]
  /\ UNCHANGED <<price, is_free, order>>

ReadForRemoval(a) ==
  /\ op[a] = Idle /\ HasDiscount
  /\ op' = [op EXCEPT ![a] = Removal]
  /\ UNCHANGED <<price, is_free, discount, order, stale>>

\* Whatever discount the course has by now; if it has none, nothing is deleted.
RemoveDiscount(a) ==
  /\ op[a] = Removal
  /\ discount' = NoDiscount /\ stale' = FALSE
  /\ op' = [op EXCEPT ![a] = Idle]
  /\ UNCHANGED <<price, is_free, order>>

\* The clock passes the start or the end of the discount.
TimePasses ==
  /\ HasDiscount /\ discount.phase \in {"before", "within"}
  /\ discount' = [discount EXCEPT !.phase =
                    IF @ = "before" THEN "within" ELSE "after"]
  /\ UNCHANGED <<price, is_free, op, order, stale>>

-----------------------------------------------------------------------------
(* OrdersService.orderCourse *)

\* checkIsEnrollment returns the course as it is now.
ReadForOrder(b) ==
  /\ order[b] = NoOrder /\ ~is_free
  /\ order' = [order EXCEPT ![b] = [pc |-> "read", price |-> price]]
  /\ UNCHANGED <<price, is_free, discount, op, stale>>

\* The transaction reads the discount afresh and combines it with that course; an
\* order needs a price.
CreateOrder(b) ==
  /\ order[b].pc = "read"
  /\ LET listed == order[b].price IN
     order' = [order EXCEPT ![b] =
       IF IsDiscountValid
       THEN [pc |-> "charged", total |-> discount.price, cut |-> Amount(listed) - discount.price]
       ELSE IF listed = NotGiven THEN NoOrder
       ELSE [pc |-> "charged", total |-> listed, cut |-> 0]]
  /\ UNCHANGED <<price, is_free, discount, op, stale>>

-----------------------------------------------------------------------------
PricingNext ==
  \/ \E a \in Admin :
       \/ ReadForUpdate(a) \/ UpdateCourse(a)
       \/ ReadForCreate(a) \/ ReadForChange(a) \/ WriteDiscount(a)
       \/ ReadForRemoval(a) \/ RemoveDiscount(a)
  \/ \E b \in Buyer : ReadForOrder(b) \/ CreateOrder(b)
  \/ TimePasses

PricingSpec == PricingInit /\ [][PricingNext]_pricingVars

-----------------------------------------------------------------------------
(* Properties *)

PricingTypeOK ==
  /\ price \in Prices /\ is_free \in BOOLEAN
  /\ discount \in Discounts \cup {NoDiscount}
  /\ op \in [Admin -> {Idle, Removal} \cup Updates \cup Offers]
  /\ order \in [Buyer -> {NoOrder} \cup Reading \cup Charged]
  /\ stale \in BOOLEAN

\* The discount stays below the price, though the check and the price live in
\* different handlers, unless two of them overlapped: a discount was written after
\* the price it was judged by had changed, or an update that puts back the price it
\* had read, and so keeps the discount, undid another's.  One administrator at a
\* time never breaks it.
DiscountBelowPrice == HasDiscount /\ ~stale => discount.price < Amount(price)

\* An order charges more than the price it read only if that is no longer the
\* price, or the discount is stale: it takes the price from before its transaction
\* and the discount from inside it, and a dearer course with a new discount may
\* come in between.
OverchargeIsStale ==
  [][\A b \in Buyer : order[b].pc = "read" /\ order'[b].pc = "charged"
       => order'[b].cut >= 0 \/ order[b].price # price \/ stale]_pricingVars
=============================================================================
