-------------------------- MODULE LiveClassProofs --------------------------
(***************************************************************************)
(* Proofs about LiveClass: its type invariant, that a class its moderators *)
(* abandoned is watched, and that a used URL lets in nobody who comes      *)
(* later.                                                                  *)
(*                                                                         *)
(* AbandonedIsWatched is not inductive: a join reported late clears the    *)
(* timer that watches the class.  It is kept by the order in which LiveKit *)
(* reports: whoever is not in the room has a leave as the last event under *)
(* way, so another timer is to come (LeaveIsLast).                         *)
(***************************************************************************)
EXTENDS LiveClass, TLAPS

Event == {"joined", "left"}

LEMMA TypeInit == Init => TypeOK
<1> SUFFICES ASSUME Init PROVE TypeOK
  OBVIOUS
<1>1. home \in [Timer -> Server]
  <2> DEFINE first == CHOOSE s \in Server : TRUE
  <2>1. first \in Server
    BY SomeServer
  <2>2. home \in [Timer -> {first}]
    BY DEF Init
  <2> HIDE DEF first
  <2> QED BY <2>1, <2>2
<1>2. webhooks \in [Moderator -> Seq({"joined", "left"})]
  BY DEF Init
<1>3. verify \in [Verify -> [pc : {"new", "mark", "check", "granted", "refused"},
                            url : Url \cup {None}, late : BOOLEAN]]
  BY DEF Init
<1>4. crashes \in 0 .. MaxCrashes
  BY CrashBound DEF Init
<1>5. registry \in [Server -> Timer \cup {None}] /\ abandoned \in BOOLEAN /\ missed \in BOOLEAN
  BY DEF Init
<1>6. /\ url \in [Url -> {"none", "reading", "fresh", "used"}] /\ expired \subseteq Url
      /\ timer \in [Timer -> {"unused", "pending", "cleared", "deleted", "done", "lost",
                         "refused"}]
      /\ status \in {"pending", "ongoing", "ended"}
      /\ closing \in {"none", "updated", "deleted"}
      /\ inRoom \subseteq Moderator
  BY DEF Init
<1> QED BY <1>1, <1>2, <1>3, <1>4, <1>5, <1>6 DEF TypeOK

\* The parts of TypeOK that each kind of step is about.
RoomTyped ==
  /\ inRoom \subseteq Moderator
  /\ webhooks \in [Moderator -> Seq({"joined", "left"})]
TimersTyped ==
  /\ timer \in [Timer -> {"unused", "pending", "cleared", "deleted", "done", "lost",
                         "refused"}]
  /\ home \in [Timer -> Server]
  /\ registry \in [Server -> Timer \cup {None}]

LEMMA DeleteRoomTyped ==
  ASSUME TypeOK, DeleteRoom PROVE RoomTyped' /\ abandoned' \in BOOLEAN /\ missed' = missed
  BY DEF TypeOK, DeleteRoom, RoomTyped, Open

LEMMA AnswerTyped ==
  ASSUME TypeOK, NEW m \in Moderator, webhooks[m] # <<>>, Answer(m)
  PROVE  webhooks' \in [Moderator -> Seq({"joined", "left"})]
<1>1. Tail(webhooks[m]) \in Seq({"joined", "left"})
  BY DEF TypeOK
<1> QED BY <1>1 DEF TypeOK, Answer

LEMMA TypeNext == TypeOK /\ [Next]_vars => TypeOK'
<1> SUFFICES ASSUME TypeOK, [Next]_vars PROVE TypeOK'
  OBVIOUS
<1> USE DEF roomVars, timerVars, abandonVars, urlVars
<1>1. ASSUME Class PROVE TypeOK'
  <2>1. CASE CloseDelete
    BY <2>1, DeleteRoomTyped DEF CloseDelete, TypeOK, RoomTyped
  <2> QED BY <1>1, <2>1 DEF Class, OpenStreaming, CloseUpdate, CloseCommit, CloseRollback,
                            SetEnded, Attended, TypeOK
<1>2. ASSUME NEW m \in Moderator, Join(m) \/ Leave(m) PROVE TypeOK'
  <2>1. /\ Append(webhooks[m], "joined") \in Seq({"joined", "left"})
        /\ Append(webhooks[m], "left") \in Seq({"joined", "left"})
    BY DEF TypeOK
  <2>2. RoomTyped' /\ abandoned' \in BOOLEAN /\ missed' \in BOOLEAN
    BY <1>2, <2>1 DEF Join, Leave, Attended, TypeOK, RoomTyped, Open
  <2> QED BY <1>2, <2>2 DEF Join, Leave, TypeOK, RoomTyped
<1>3. ASSUME NEW m \in Moderator, NEW s \in Server, HandleJoined(m, s) PROVE TypeOK'
  BY <1>3, AnswerTyped DEF HandleJoined, CancelClosing, TypeOK
<1>4. ASSUME NEW m \in Moderator, NEW s \in Server, HandleLeft(m, s) PROVE TypeOK'
  <2> DEFINE t == CHOOSE x \in Unused : TRUE
  <2>1. t \in Timer
    BY <1>4 DEF HandleLeft, Unused
  <2>2. StartTimer(s, t, registry[s] = None)
    BY <1>4 DEF HandleLeft, StartClosing
  <2> HIDE DEF t
  <2>3. TimersTyped'
    BY <2>1, <2>2 DEF StartTimer, TypeOK, TimersTyped
  <2> QED BY <1>4, <2>3, AnswerTyped DEF HandleLeft, TypeOK, TimersTyped
<1>5. ASSUME NEW t \in Timer, TimerDelete(t) PROVE TypeOK'
  BY <1>5, DeleteRoomTyped DEF TimerDelete, TypeOK, RoomTyped
<1>6. ASSUME NEW t \in Timer, TimerClose(t) \/ TimerRefused(t) PROVE TypeOK'
  BY <1>6 DEF TimerClose, TimerRefused, SetEnded, Attended, TypeOK
<1>7. ASSUME NEW s \in Server, Crash(s) PROVE TypeOK'
  BY <1>7, CrashBound DEF Crash, TypeOK
<1>8. ASSUME NEW u \in Url, ReadForUrl(u) \/ CreateUrl(u) \/ Expire(u) PROVE TypeOK'
  BY <1>8 DEF ReadForUrl, CreateUrl, Expire, TypeOK
<1>9. ASSUME NEW v \in Verify, NEW u \in Url, ReadUrl(v, u) PROVE TypeOK'
  <2> DEFINE read == [pc |-> IF url[u] = "used" THEN "refused" ELSE "mark",
                      url |-> u, late |-> Admitted(u)]
  <2>1. Admitted(u) \in BOOLEAN
    BY DEF Admitted
  <2>2. read \in [pc : {"new", "mark", "check", "granted", "refused"},
                  url : Url \cup {None}, late : BOOLEAN]
    BY <2>1
  <2>3. verify' = [verify EXCEPT ![v] = read]
    BY <1>9 DEF ReadUrl
  <2> HIDE DEF read
  <2> QED BY <1>9, <2>2, <2>3 DEF ReadUrl, TypeOK
<1>10. ASSUME NEW v \in Verify, MarkUrl(v) \/ CheckExpiry(v) PROVE TypeOK'
  <2> DEFINE Step(pc) == [verify EXCEPT ![v].pc = pc]
  <2>1. \A pc \in {"check", "refused", "granted"} :
          Step(pc) \in [Verify -> [pc : {"new", "mark", "check", "granted", "refused"},
                                  url : Url \cup {None}, late : BOOLEAN]]
    BY DEF TypeOK
  <2>2. \E pc \in {"check", "refused", "granted"} : verify' = Step(pc)
    BY <1>10 DEF MarkUrl, CheckExpiry, StepVerify
  <2> HIDE DEF Step
  <2>3. url' \in [Url -> {"none", "reading", "fresh", "used"}]
    BY <1>10 DEF MarkUrl, CheckExpiry, TypeOK
  <2> QED BY <1>10, <2>1, <2>2, <2>3 DEF MarkUrl, CheckExpiry, TypeOK
<1>11. ASSUME UNCHANGED vars PROVE TypeOK'
  BY <1>11 DEF vars, TypeOK
<1> QED BY <1>1, <1>2, <1>3, <1>4, <1>5, <1>6, <1>7, <1>8, <1>9, <1>10, <1>11
        DEF Next, Room, Urls

\* Every variable of LiveClass keeps its type (streaming.service.ts).
THEOREM LiveClassTyped == Spec => []TypeOK
  BY TypeInit, TypeNext, PTL DEF Spec

-----------------------------------------------------------------------------
(* Abandoned classes. *)

LEMMA TailFacts ==
  ASSUME NEW q \in Seq(Event), q # <<>>
  PROVE  /\ Len(q) \in Nat \ {0} /\ Head(q) = q[1]
         /\ Tail(q) \in Seq(Event) /\ Len(Tail(q)) = Len(q) - 1
         /\ \A i \in 1 .. Len(q) - 1 : Tail(q)[i] = q[i + 1]
  OBVIOUS

LEMMA AppendFacts ==
  ASSUME NEW q \in Seq(Event), NEW e \in Event
  PROVE  /\ Append(q, e) # <<>> /\ Len(q) \in Nat /\ Len(Append(q, e)) = Len(q) + 1
         /\ Append(q, e)[Len(q) + 1] = e
         /\ \A i \in 1 .. Len(q) : Append(q, e)[i] = q[i]
  BY DEF Event

HasLeft(q) == \E i \in 1 .. Len(q) : q[i] = "left"
EndsWithLeft(q) == Len(q) > 0 => q[Len(q)] = "left"

LEMMA TailKeepsEnd ==
  ASSUME NEW q \in Seq(Event), q # <<>>, EndsWithLeft(q)
  PROVE  EndsWithLeft(Tail(q))
  BY TailFacts DEF EndsWithLeft

\* What is behind a join that is reported although its moderator is not there.
LEMMA TailKeepsLeft ==
  ASSUME NEW q \in Seq(Event), q # <<>>, Head(q) = "joined"
  PROVE  /\ HasLeft(q) => HasLeft(Tail(q))
         /\ EndsWithLeft(q) => HasLeft(Tail(q))
<1>1. ASSUME NEW i \in 1 .. Len(q), q[i] = "left" PROVE HasLeft(Tail(q))
  <2>1. i # 1
    BY <1>1, TailFacts
  <2>2. i - 1 \in 1 .. Len(q) - 1 /\ Tail(q)[i - 1] = q[i]
    BY <1>1, <2>1, TailFacts
  <2> QED BY <1>1, <2>2, TailFacts DEF HasLeft
<1>2. EndsWithLeft(q) => HasLeft(Tail(q))
  BY <1>1, TailFacts DEF EndsWithLeft
<1> QED BY <1>1, <1>2 DEF HasLeft

LEMMA AppendedLeft ==
  ASSUME NEW q \in Seq(Event) PROVE HasLeft(Append(q, "left")) /\ EndsWithLeft(Append(q, "left"))
<1> DEFINE p == Append(q, "left")
<1>1. p # <<>> /\ Len(q) \in Nat /\ Len(p) = Len(q) + 1 /\ p[Len(q) + 1] = "left"
  BY AppendFacts DEF Event
<1> HIDE DEF p
<1>2. Len(p) \in 1 .. Len(p) /\ p[Len(p)] = "left"
  BY <1>1
<1> QED BY <1>2 DEF HasLeft, EndsWithLeft, p

\* Whoever is not in the room has a leave as the last event under way, if any.
LeaveIsLast == \A m \in Moderator \ inRoom : EndsWithLeft(webhooks[m])

Watched == (\E m \in Moderator : HasLeft(webhooks[m])) \/ Running # {}

WatchInv ==
  /\ TypeOK /\ LeaveIsLast
  /\ abandoned => inRoom = {}
  /\ abandoned /\ ~missed => Watched

LEMMA WatchInit == Init => WatchInv
  BY TypeInit DEF Init, WatchInv, LeaveIsLast, EndsWithLeft

LEMMA WatchImplies == WatchInv => AbandonedIsWatched
  BY DEF WatchInv, Watched, HasLeft, AbandonedIsWatched, LeftPending

\* Putting everybody out is reported, and keeps what was reported before.
LEMMA DeleteRoomWatched ==
  ASSUME WatchInv, DeleteRoom, Running \subseteq Running'
  PROVE  LeaveIsLast' /\ inRoom' = {} /\ (abandoned' /\ ~missed' => Watched')
<1> USE DEF WatchInv
<1>1. ASSUME NEW m \in Moderator
      PROVE  /\ m \in inRoom => /\ EndsWithLeft(webhooks'[m]) /\ HasLeft(webhooks'[m])
             /\ m \notin inRoom => webhooks'[m] = webhooks[m]
  <2>1. webhooks[m] \in Seq(Event)
    BY DEF TypeOK, Event
  <2>2. webhooks'[m] = IF m \in inRoom THEN Append(webhooks[m], "left") ELSE webhooks[m]
    BY DEF DeleteRoom
  <2> QED BY <2>1, <2>2, AppendedLeft
<1>2. LeaveIsLast'
  BY <1>1 DEF LeaveIsLast
<1>3. inRoom' = {}
  BY DEF DeleteRoom
<1>4. ASSUME abandoned', ~missed' PROVE Watched'
  <2>1. CASE abandoned
    <3>1. \A m \in Moderator : webhooks'[m] = webhooks[m]
      BY <2>1, <1>1
    <3>2. Watched
      BY <1>4, <2>1 DEF DeleteRoom
    <3> QED BY <3>1, <3>2 DEF Watched
  <2>2. CASE inRoom # {}
    BY <2>2, <1>1 DEF Watched, TypeOK
  <2> QED BY <1>4, <2>1, <2>2 DEF DeleteRoom
<1> QED BY <1>2, <1>3, <1>4

LEMMA WatchNext == WatchInv /\ [Next]_vars => WatchInv'
<1> SUFFICES ASSUME WatchInv, [Next]_vars PROVE WatchInv'
  OBVIOUS
<1>0. TypeOK /\ TypeOK'
  BY TypeNext DEF WatchInv
<1> USE DEF roomVars, timerVars, abandonVars, urlVars
<1>1. ASSUME Class PROVE WatchInv'
  <2>1. CASE CloseDelete
    <3>1. Running' = Running
      BY <2>1 DEF CloseDelete, Running
    <3> QED BY <1>0, <2>1, <3>1, DeleteRoomWatched DEF CloseDelete, WatchInv
  <2> QED BY <1>0, <1>1, <2>1 DEF Class, OpenStreaming, CloseUpdate, CloseCommit, CloseRollback,
                            SetEnded, Attended, WatchInv, LeaveIsLast, Watched, Running
<1>2. ASSUME NEW m \in Moderator, Join(m) PROVE WatchInv'
  <2>1. LeaveIsLast'
    BY <1>0, <1>2 DEF Join, WatchInv, LeaveIsLast, TypeOK
  <2> QED BY <1>0, <1>2, <2>1 DEF Join, Attended, WatchInv
<1>3. ASSUME NEW m \in Moderator, Leave(m) PROVE WatchInv'
  <2>1. webhooks[m] \in Seq(Event)
    BY <1>0 DEF TypeOK, Event
  <2>2. webhooks'[m] = Append(webhooks[m], "left")
        /\ \A n \in Moderator \ {m} : webhooks'[n] = webhooks[n]
    BY <1>0, <1>3 DEF Leave, TypeOK
  <2>3. HasLeft(webhooks'[m]) /\ EndsWithLeft(webhooks'[m])
    BY <2>1, <2>2, AppendedLeft
  <2>4. LeaveIsLast'
    BY <1>3, <2>2, <2>3 DEF Leave, WatchInv, LeaveIsLast
  <2>5. abandoned' => inRoom' = {}
    BY <1>3 DEF Leave, WatchInv
  <2>6. Watched'
    BY <2>3 DEF Watched
  <2> QED BY <1>0, <2>4, <2>5, <2>6 DEF WatchInv
<1>4. ASSUME NEW m \in Moderator, NEW s \in Server, HandleJoined(m, s) PROVE WatchInv'
  <2> DEFINE q == webhooks[m]
  <2>1. q \in Seq(Event) /\ q # <<>> /\ Head(q) = "joined"
    BY <1>0, <1>4 DEF HandleJoined, TypeOK, Event
  <2>2. webhooks'[m] \in {q, Tail(q)} /\ \A n \in Moderator \ {m} : webhooks'[n] = webhooks[n]
    BY <1>0, <1>4 DEF HandleJoined, Answer, TypeOK
  <2>3. inRoom' = inRoom /\ abandoned' = abandoned /\ missed' = missed
    BY <1>4 DEF HandleJoined
  <2> HIDE DEF q
  <2>4. EndsWithLeft(q) => EndsWithLeft(webhooks'[m]) /\ HasLeft(webhooks'[m])
    <3>1. EndsWithLeft(q) => HasLeft(q)
      BY <2>1, TailFacts DEF EndsWithLeft, HasLeft
    <3> QED BY <2>1, <2>2, <3>1, TailKeepsLeft, TailKeepsEnd
  <2>5. LeaveIsLast'
    BY <2>2, <2>3, <2>4 DEF WatchInv, LeaveIsLast, q
  <2>6. ASSUME abandoned', ~missed' PROVE Watched'
    <3>1. m \notin inRoom /\ EndsWithLeft(q)
      BY <2>3, <2>6 DEF WatchInv, LeaveIsLast, q
    <3> QED BY <2>4, <3>1 DEF Watched
  <2> QED BY <1>0, <2>3, <2>5, <2>6 DEF WatchInv
<1>5. ASSUME NEW m \in Moderator, NEW s \in Server, HandleLeft(m, s) PROVE WatchInv'
  <2> DEFINE q == webhooks[m]
             t == CHOOSE x \in Unused : TRUE
  <2>1. q \in Seq(Event) /\ q # <<>>
    BY <1>0, <1>5 DEF HandleLeft, TypeOK, Event
  <2>2. webhooks'[m] \in {q, Tail(q)} /\ \A n \in Moderator \ {m} : webhooks'[n] = webhooks[n]
    BY <1>0, <1>5 DEF HandleLeft, Answer, TypeOK
  <2>3. inRoom' = inRoom /\ abandoned' = abandoned /\ missed' = missed
    BY <1>5 DEF HandleLeft
  <2>4. t \in Timer /\ StartTimer(s, t, registry[s] = None)
    BY <1>5 DEF HandleLeft, StartClosing, Unused
  <2> HIDE DEF q, t
  <2>5. Running' # {}
    BY <1>0, <2>4 DEF StartTimer, TypeOK, Running
  <2>6. LeaveIsLast'
    BY <2>1, <2>2, <2>3, TailKeepsEnd DEF WatchInv, LeaveIsLast, q
  <2> QED BY <1>0, <2>3, <2>5, <2>6 DEF WatchInv, Watched
<1>6. ASSUME NEW t \in Timer, TimerDelete(t) PROVE WatchInv'
  <2>1. Running \subseteq Running'
    BY <1>0, <1>6 DEF TimerDelete, TypeOK, Running
  <2> QED BY <1>0, <1>6, <2>1, DeleteRoomWatched DEF TimerDelete, WatchInv
<1>7. ASSUME NEW t \in Timer, TimerClose(t) \/ TimerRefused(t) PROVE WatchInv'
  <2>1. /\ UNCHANGED <<inRoom, webhooks>>
        /\ ~abandoned' \/ (abandoned /\ missed')
    BY <1>0, <1>7 DEF TimerClose, TimerRefused, SetEnded, Attended, TypeOK
  <2> QED BY <1>0, <2>1 DEF WatchInv, LeaveIsLast
<1>8. ASSUME NEW s \in Server, Crash(s) PROVE WatchInv'
  <2>1. ASSUME abandoned', ~missed' PROVE Watched'
    <3>1. abandoned /\ ~missed /\ timer' = timer /\ webhooks' = webhooks
      BY <1>8, <2>1 DEF Crash
    <3> QED BY <3>1 DEF WatchInv, Watched, Running
  <2> QED BY <1>0, <1>8, <2>1 DEF Crash, WatchInv, LeaveIsLast
<1>9. ASSUME Urls \/ UNCHANGED vars PROVE WatchInv'
  <2>1. UNCHANGED <<roomVars, timerVars, abandonVars>>
    BY <1>9 DEF Urls, vars, ReadForUrl, CreateUrl, Expire, ReadUrl, MarkUrl, CheckExpiry
  <2> QED BY <1>0, <2>1 DEF WatchInv, LeaveIsLast, Watched, Running
<1> QED BY <1>1, <1>2, <1>3, <1>4, <1>5, <1>6, <1>7, <1>8, <1>9 DEF Next, Room

\* Whatever moderators, servers, timers and restarts there are, an open class that
\* its moderators left has a leave to be reported or a timer that will close it,
\* unless a restart or a refusal took a timer since (handleModeratorDisconnect).
THEOREM AbandonedAreWatched == Spec => []AbandonedIsWatched
  BY WatchInit, WatchNext, WatchImplies, PTL DEF Spec

-----------------------------------------------------------------------------
(* One-use URLs. *)

\* A URL that somebody was let in with, or is about to, is marked, for good; who
\* comes after that is refused.
UrlInv ==
  /\ TypeOK
  /\ \A v \in Verify :
       /\ verify[v].pc \in {"check", "granted"} =>
            verify[v].url \in Url /\ url[verify[v].url] = "used"
       /\ verify[v].pc = "mark" => verify[v].url \in Url
       /\ verify[v].late => verify[v].pc = "refused"

LEMMA UrlNext == UrlInv /\ [Next]_vars => UrlInv'
<1> SUFFICES ASSUME UrlInv, [Next]_vars PROVE UrlInv'
  OBVIOUS
<1>0. TypeOK /\ TypeOK'
  BY TypeNext DEF UrlInv
<1> USE DEF roomVars, timerVars, urlVars, UrlInv
<1>1. ASSUME NEW u \in Url, ReadForUrl(u) \/ CreateUrl(u) \/ Expire(u) PROVE UrlInv'
  <2>1. verify' = verify /\ \A x \in Url : url[x] = "used" => url'[x] = "used"
    BY <1>0, <1>1 DEF ReadForUrl, CreateUrl, Expire, TypeOK
  <2> QED BY <1>0, <2>1
<1>2. ASSUME NEW v \in Verify, NEW u \in Url, ReadUrl(v, u) PROVE UrlInv'
  <2>1. url' = url /\ \A w \in Verify \ {v} : verify'[w] = verify[w]
    BY <1>0, <1>2 DEF ReadUrl, TypeOK
  <2>2. verify'[v] = [pc |-> IF url[u] = "used" THEN "refused" ELSE "mark",
                      url |-> u, late |-> Admitted(u)]
    BY <1>0, <1>2 DEF ReadUrl, TypeOK
  <2>3. Admitted(u) => url[u] = "used"
    BY DEF Admitted
  <2> QED BY <1>0, <2>1, <2>2, <2>3
<1>3. ASSUME NEW v \in Verify, MarkUrl(v) \/ CheckExpiry(v) PROVE UrlInv'
  <2>1. \A w \in Verify \ {v} : verify'[w] = verify[w]
    BY <1>0, <1>3 DEF MarkUrl, CheckExpiry, StepVerify, TypeOK
  <2>2. /\ verify'[v].url = verify[v].url /\ verify'[v].late = verify[v].late
        /\ verify'[v].pc \in {"check", "granted", "refused"}
    BY <1>0, <1>3 DEF MarkUrl, CheckExpiry, StepVerify, TypeOK
  <2>3. \A x \in Url : url[x] = "used" => url'[x] = "used"
    BY <1>0, <1>3 DEF MarkUrl, CheckExpiry, TypeOK
  <2>4. verify[v].url \in Url /\ url'[verify[v].url] = "used" /\ ~verify[v].late
    BY <1>0, <1>3 DEF MarkUrl, CheckExpiry, TypeOK
  <2> QED BY <1>0, <2>1, <2>2, <2>3, <2>4
<1>4. ASSUME Class \/ Room \/ UNCHANGED vars PROVE UrlInv'
  <2>1. UNCHANGED <<url, verify>>
    BY <1>4 DEF Class, Room, vars, OpenStreaming, CloseUpdate, CloseDelete, CloseCommit,
       CloseRollback, Join, Leave, HandleJoined, HandleLeft, TimerDelete, TimerClose, TimerRefused, Crash
  <2> QED BY <1>0, <2>1
<1> QED BY <1>1, <1>2, <1>3, <1>4 DEF Next, Urls

\* Whoever comes with a URL after somebody was let in with it is refused, however
\* many callers there are and however their queries interleave (verifyUrl).
THEOREM UsedUrlsAreSpent == Spec => []UsedUrlIsSpent
<1>1. Init => UrlInv
  BY TypeInit DEF Init, UrlInv
<1>2. UrlInv => UsedUrlIsSpent
  BY DEF UrlInv, UsedUrlIsSpent
<1> QED BY <1>1, <1>2, UrlNext, PTL DEF Spec
=============================================================================
