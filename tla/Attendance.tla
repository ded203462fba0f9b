----------------------------- MODULE Attendance ------------------------------
(***************************************************************************)
(* How long students attended a live class (streaming/streaming.service.ts, *)
(* logParticipant and calculateDuration).                                  *)
(*                                                                         *)
(* A webhook of LiveKit appends to the log of a student's participant row, *)
(* with the time at which that is written; webhooks of one student arrive  *)
(* in order, perhaps late, perhaps more than once, and two may be handled  *)
(* at once.  The row is looked up and made in two queries and nothing in   *)
(* the schema keeps it single.  room_finished adds every log up, and       *)
(* writes the running total after every entry, all writes at once.         *)
(***************************************************************************)
EXTENDS Integers, FiniteSets, Sequences

CONSTANTS
  Student,
  Call,          \* handlers of one student's webhooks; one that fails stays where it is
  Finish,        \* room_finished webhooks that are handled
  Second,        \* ticks of the clock in a second; the column holds whole ones
  MaxRows,       \* bound: ParticipantLiveClass rows
  MaxEntries,    \* bound: entries of a student's logs, and webhooks on their way
  MaxNow,        \* bound: the clock stops here
  Nobody         \* owner of a row that is not made yet

ASSUME NobodyAttends == Nobody \notin Student
ASSUME SecondsHaveTicks == Second \in Nat \ {0}
ASSUME AttendanceBounds == MaxRows \in Nat /\ MaxEntries \in Nat /\ MaxNow \in Nat

VARIABLES
  attends,     \* students who come to the class
  now,         \* the clock, in ticks
  present,     \* students in the room
  hooks,       \* each student's events, on their way
  call,        \* handlers of each student's webhooks
  owner,       \* ParticipantLiveClass.user_id, of each row
  log,         \* the row's ParticipantLog, by created_at
  duration,    \* ParticipantLiveClass.duration, in ticks
  summed,      \* room_finished webhooks that have read the logs
  writes       \* updates they have issued and the database has not made

attendanceVars == <<attends, now, present, hooks, call, owner, log, duration, summed, writes>>

Row == 1 .. MaxRows
Event == {"join", "disconnect"}
Entry == [kind : Event, at : 0 .. MaxNow]
Never == -1
Resting == [pc |-> "off", kind |-> "join", row |-> 0]
RowsOf(u) == {r \in Row : owner[r] = u}

AttendanceInit ==
  /\ attends \in SUBSET Student /\ now = 0 /\ present = {}
  /\ hooks = [u \in Student |-> <<>>]
  /\ call = [u \in Student |-> [c \in Call |-> Resting]]
  /\ owner = [r \in Row |-> Nobody] /\ log = [r \in Row |-> <<>>]
  /\ duration = [r \in Row |-> 0]
  /\ summed = {} /\ writes = {}

Tick ==
  /\ now < MaxNow /\ now' = now + 1
  /\ UNCHANGED <<attends, present, hooks, call, owner, log, duration, summed, writes>>

\* Entries of the student's logs.
Entries(u) == Cardinality(UNION {{<<r, n>> : n \in 1 .. Len(log[r])} : r \in RowsOf(u)})

\* A student enters or leaves, and LiveKit says so, once or twice.
Move(u) ==
  /\ u \in attends
  /\ now < MaxNow                              \* bound: so that the end is seen
  /\ LET enters == u \notin present
         event == IF enters THEN "join" ELSE "disconnect" IN
     /\ present' = IF enters THEN present \cup {u} ELSE present \ {u}
     /\ \E n \in 1 .. 2 :
          /\ Entries(u) + Len(hooks[u]) + n <= MaxEntries   \* bound
          /\ hooks' = [hooks EXCEPT ![u] = @ \o [i \in 1 .. n |-> event]]
  /\ UNCHANGED <<attends, now, call, owner, log, duration, summed, writes>>

-----------------------------------------------------------------------------
(* logParticipant *)

\* A webhook is delivered, and the student's row is looked up.
FindParticipant(u, c) ==
  /\ call[u][c].pc = "off" /\ hooks[u] # <<>>
  /\ hooks' = [hooks EXCEPT ![u] = Tail(@)]
  /\ LET kind == Head(hooks[u]) IN
     \/ /\ RowsOf(u) = {}
        /\ call' = [call EXCEPT ![u][c] = [pc |-> "create", kind |-> kind, row |-> 0]]
     \/ \E r \in RowsOf(u) :
          call' = [call EXCEPT ![u][c] = [pc |-> "log", kind |-> kind, row |-> r]]
  /\ UNCHANGED <<attends, now, present, owner, log, duration, summed, writes>>

CreateParticipant(u, c) ==
  /\ call[u][c].pc = "create"
  /\ \E r \in Row :
       /\ owner[r] = Nobody /\ \A s \in Row : s < r => owner[s] # Nobody
       /\ owner' = [owner EXCEPT ![r] = u]
       /\ call' = [call EXCEPT ![u][c].pc = "log", ![u][c].row = r]
  /\ UNCHANGED <<attends, now, present, hooks, log, duration, summed, writes>>

CreateLog(u, c) ==
  /\ call[u][c].pc = "log" /\ Entries(u) < MaxEntries
  /\ log' = [log EXCEPT ![call[u][c].row] = Append(@, [kind |-> call[u][c].kind, at |-> now])]
  /\ call' = [call EXCEPT ![u][c] = Resting]
  /\ UNCHANGED <<attends, now, present, hooks, owner, duration, summed, writes>>

LogParticipant(u, c) ==
  \/ FindParticipant(u, c) \/ CreateParticipant(u, c) \/ CreateLog(u, c)

-----------------------------------------------------------------------------
(* calculateDuration *)

NoTimes == [join |-> Never, disconnect |-> Never, total |-> 0]

Noted(times, e) ==
  IF e.kind = "join" THEN [times EXCEPT !.join = e.at]
                     ELSE [times EXCEPT !.disconnect = e.at]

\* An interval counts when both its ends are known, in whichever order they came.
\* Mutant: the ends are kept after they were counted.
Counted_KeepsEnds(times) ==
  IF times.join # Never /\ times.disconnect # Never
  THEN [times EXCEPT !.total = @ + (times.disconnect - times.join)]
  ELSE times

Counted(times) ==
  IF times.join # Never /\ times.disconnect # Never
  THEN [NoTimes EXCEPT !.total = times.total + (times.disconnect - times.join)]
  ELSE times

\* What is known after each entry of a log.
TimesOf(entries) ==
  LET times[n \in 0 .. Len(entries)] ==
        IF n = 0 THEN NoTimes ELSE Counted(Noted(times[n - 1], entries[n]))
  IN times

\* The running totals of a log: the n-th counts its first n entries.
RunningTotal(entries) == [n \in 1 .. Len(entries) |-> TimesOf(entries)[n].total]

\* The logs are read, and one update issued for every entry of them.
ReadLogs(f) ==
  /\ f \notin summed /\ summed' = summed \cup {f}
  /\ writes' = writes \cup
       {[finish |-> f, row |-> p[1], entry |-> p[2], total |-> RunningTotal(log[p[1]])[p[2]]] :
          p \in {x \in Row \X (1 .. MaxEntries) : x[2] <= Len(log[x[1]])}}
  /\ UNCHANGED <<attends, now, present, hooks, call, owner, log, duration>>

\* The updates are made in any order; a total that is not a whole number of
\* seconds is refused, and those beside it are made all the same.
WriteDuration(w) ==
  /\ writes' = writes \ {w}
  /\ duration' = IF w.total % Second = 0
                 THEN [duration EXCEPT ![w.row] = w.total] ELSE duration
  /\ UNCHANGED <<attends, now, present, hooks, call, owner, log, summed>>

AttendanceNext ==
  \/ Tick
  \/ \E u \in Student : Move(u)
  \/ \E u \in Student, c \in Call : LogParticipant(u, c)
  \/ \E f \in Finish : ReadLogs(f)
  \/ \E w \in writes : WriteDuration(w)

-----------------------------------------------------------------------------
(* What the class says of a student *)

\* What the rows weigh together.
Total(weight) ==
  LET sum[n \in 0 .. MaxRows] == IF n = 0 THEN 0 ELSE sum[n - 1] + weight[n]
  IN sum[MaxRows]

\* What the student's rows hold.
Credit(u) == Total([r \in Row |-> IF owner[r] = u THEN duration[r] ELSE 0])

\* Ticks since the first entry of a row was made.
Elapsed(r) == IF log[r] = <<>> THEN 0 ELSE now - log[r][1].at

\* The time that has passed since the student came, once for each of his or her rows.
Attended(u) == Total([r \in Row |-> IF owner[r] = u THEN Elapsed(r) ELSE 0])

-----------------------------------------------------------------------------
(* Properties *)

\* Every variable keeps its type.
AttendanceTypeOK ==
  /\ attends \subseteq Student /\ now \in 0 .. MaxNow /\ present \subseteq Student
  /\ hooks \in [Student -> Seq(Event)]
  /\ call \in [Student -> [Call ->
       [pc : {"off", "create", "log"}, kind : Event, row : 0 .. MaxRows]]]
  /\ \A u \in Student, c \in Call : call[u][c].pc = "log" => call[u][c].row \in Row
  /\ owner \in [Row -> Student \cup {Nobody}]
  /\ log \in [Row -> Seq(Entry)]
  /\ duration \in [Row -> Int]
  /\ \A w \in writes : w.row \in Row /\ w.total \in Int

\* No row credits a student with more time than has passed since its first entry,
\* whatever is repeated, late or lost, and whichever of the concurrent updates of
\* calculateDuration is made last.
NeverOverCredited == \A r \in Row : duration[r] <= Elapsed(r)
=============================================================================
