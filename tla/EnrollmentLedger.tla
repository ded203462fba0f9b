--------------------------- MODULE EnrollmentLedger ---------------------------
(***************************************************************************)
(* What enrolling promises, whatever the checkout and the payment provider *)
(* do: a user is entitled to a course, then enrolled in it, then told so   *)
(* once.  Purchase implements this specification.                          *)
(***************************************************************************)
EXTENDS Naturals

CONSTANTS User, Course

VARIABLES
  offered,    \* the courses that exist
  entitled,   \* pairs of a user and a course the user may join
  enrolled,   \* pairs of a user and a course the user has joined
  noticed     \* how often each pair's success was announced

ledger == <<offered, entitled, enrolled, noticed>>

Init ==
  /\ offered = Course
  /\ entitled = {} /\ enrolled = {}
  /\ noticed = [p \in User \X Course |-> 0]

Entitle(p) ==
  /\ p \notin entitled
  /\ entitled' = entitled \cup {p}
  /\ UNCHANGED <<offered, enrolled, noticed>>

Enroll(p) ==
  /\ p \in entitled /\ p \notin enrolled /\ p[2] \in offered
  /\ enrolled' = enrolled \cup {p}
  /\ UNCHANGED <<offered, entitled, noticed>>

\* The announcement follows the enrolment; the course may be gone by then.
Announce(p) ==
  /\ p \in enrolled \/ p[2] \notin offered
  /\ noticed[p] = 0
  /\ noticed' = [noticed EXCEPT ![p] = 1]
  /\ UNCHANGED <<offered, entitled, enrolled>>

Withdraw(c) ==
  /\ c \in offered
  /\ offered' = offered \ {c}
  /\ enrolled' = {p \in enrolled : p[2] # c}
  /\ UNCHANGED <<entitled, noticed>>

Next ==
  \/ \E p \in User \X Course : Entitle(p) \/ Enroll(p) \/ Announce(p)
  \/ \E c \in Course : Withdraw(c)

Spec == Init /\ [][Next]_ledger
=============================================================================
