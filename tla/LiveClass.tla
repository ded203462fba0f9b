------------------------------ MODULE LiveClass ------------------------------
(***************************************************************************)
(* One live class (streaming/streaming.service.ts): opening and closing    *)
(* it, the moderators who come and go in its LiveKit room, the five-minute *)
(* timers that close it when they leave, and the one-use URLs that let     *)
(* people in.                                                              *)
(*                                                                         *)
(* LiveKit reports joins and leaves by webhook, those of one participant   *)
(* in order, to any of the server processes; a webhook may be delivered    *)
(* again.  Timers and the registry that names them live in the process     *)
(* that handled the webhook.  Five minutes, and the minute a URL lives,    *)
(* are any time: a timer may fire, and a URL expire, whenever they exist.  *)
(***************************************************************************)
EXTENDS Integers, FiniteSets, Sequences

CONSTANTS
  Moderator,     \* lecturers and administrators who enter the room
  Server,        \* server processes
  Timer,         \* close-room timers, as many as are ever made
  Url,           \* calls of generateJoinUrl by students; each makes one URL
  Verify,        \* calls of verifyUrl
  None,          \* no timer, no URL
  MaxCrashes     \* bound: how often a server process is restarted

ASSUME NoneIsNothing == None \notin Timer \cup Url
ASSUME TimersAreFinite == IsFiniteSet(Timer)
ASSUME ModeratorsAreFinite == IsFiniteSet(Moderator)
ASSUME CrashBound == MaxCrashes \in Nat
ASSUME SomeServer == Server # {}

VARIABLES
  status,      \* LiveClass.status; is_open is written with it and means "ongoing"
  closing,     \* the transaction of closeStreaming that holds the row's lock
  inRoom,      \* moderators in the LiveKit room
  webhooks,    \* each moderator's events, on their way to the servers
  timer,       \* each timer's state
  home,        \* the server it lives in
  registry,    \* each server's SchedulerRegistry: the timer named close-room-<slug>
  abandoned,   \* history: the last moderator left the class while it was open ...
  missed,      \* ... and since then a timer was lost or refused
  url,         \* UrlSignature rows, or how far the call that makes one is
  expired,     \* URLs whose minute is over
  verify,      \* where each verifyUrl call is, its URL, and whether it came after
               \* another had been let in with it
  crashes

roomVars == <<inRoom, webhooks>>
timerVars == <<timer, home, registry>>
abandonVars == <<abandoned, missed>>
urlVars == <<url, expired, verify>>
vars == <<status, closing, roomVars, timerVars, abandonVars, urlVars, crashes>>

Open == status = "ongoing"
Free == closing = "none"                       \* nobody holds the row's lock
LeftPending(m) == \E i \in 1 .. Len(webhooks[m]) : webhooks[m][i] = "left"
Running == {t \in Timer : timer[t] \in {"pending", "deleted"}}

Init ==
  /\ status = "pending" /\ closing = "none"
  /\ inRoom = {} /\ webhooks = [m \in Moderator |-> <<>>]
  /\ timer = [t \in Timer |-> "unused"] /\ registry = [s \in Server |-> None]
  /\ home \in [Timer -> {CHOOSE s \in Server : TRUE}]
  /\ abandoned = FALSE /\ missed = FALSE
  /\ url = [u \in Url |-> "none"] /\ expired = {}
  /\ verify = [v \in Verify |-> [pc |-> "new", url |-> None, late |-> FALSE]]
  /\ crashes = 0

-----------------------------------------------------------------------------
(* Opening and closing. *)

\* openStreaming: the update is not made by the transaction it stands in, so
\* nothing can undo it; if the notification fails it is not reached.
OpenStreaming ==
  /\ Free
  /\ status' = "ongoing"
  /\ UNCHANGED <<closing, roomVars, timerVars, abandonVars, urlVars, crashes>>

\* closeStreaming updates the row, which locks it, notifies, and has LiveKit
\* delete the room; only then does it commit.
CloseUpdate ==
  /\ Free
  /\ closing' = "updated"
  /\ UNCHANGED <<status, roomVars, timerVars, abandonVars, urlVars, crashes>>

\* LiveKit's deleteRoom puts everybody out, and reports it.
DeleteRoom ==
  /\ inRoom' = {}
  /\ webhooks' = [m \in Moderator |->
       IF m \in inRoom THEN Append(webhooks[m], "left") ELSE webhooks[m]]
  /\ abandoned' = (abandoned \/ (Open /\ inRoom # {}))
  /\ UNCHANGED missed

CloseDelete ==
  /\ closing = "updated" /\ closing' = "deleted"
  /\ DeleteRoom
  /\ UNCHANGED <<status, timerVars, urlVars, crashes>>

Attended == abandoned' = FALSE /\ missed' = FALSE

SetEnded == status' = "ended" /\ Attended

CloseCommit ==
  /\ closing = "deleted" /\ closing' = "none"
  /\ SetEnded
  /\ UNCHANGED <<roomVars, timerVars, urlVars, crashes>>

\* The notification or LiveKit fails, the transaction runs out of time, or the
\* process dies: the row is as it was, the room may be gone.
CloseRollback ==
  /\ ~Free /\ closing' = "none"
  /\ UNCHANGED <<status, roomVars, timerVars, abandonVars, urlVars, crashes>>

-----------------------------------------------------------------------------
(* Moderators, and what the servers hear of them. *)

Unused == {t \in Timer : timer[t] = "unused"}
LeavesToCome == Cardinality(inRoom)
  + Cardinality({e \in Moderator \X (1 .. 2 * Cardinality(Timer)) :
                   e[2] <= Len(webhooks[e[1]]) /\ webhooks[e[1]][e[2]] = "left"})
TimersSuffice == Cardinality(Unused) > LeavesToCome

Join(m) ==
  /\ m \notin inRoom
  /\ TimersSuffice                              \* bound: timers ever made
  /\ inRoom' = inRoom \cup {m}
  /\ webhooks' = [webhooks EXCEPT ![m] = Append(@, "joined")]
  /\ Attended
  /\ UNCHANGED <<status, closing, timerVars, urlVars, crashes>>

Leave(m) ==
  /\ m \in inRoom
  /\ inRoom' = inRoom \ {m}
  /\ webhooks' = [webhooks EXCEPT ![m] = Append(@, "left")]
  /\ abandoned' = (abandoned \/ (Open /\ inRoom = {m}))
  /\ UNCHANGED <<status, closing, timerVars, missed, urlVars, crashes>>

\* The webhook is answered, or delivered once more (it failed, or its answer
\* was lost).
Answer(m) ==
  webhooks' \in {[webhooks EXCEPT ![m] = Tail(@)]}
                \cup (IF TimersSuffice THEN {webhooks} ELSE {})  \* bound: timers ever made

\* handleModeratorDisconnect, participant_left: setTimeout, then addTimeout,
\* which throws when the name is taken; the timer runs all the same.
StartTimer(s, t, named) ==
  /\ timer' = [timer EXCEPT ![t] = "pending"]
  /\ home' = [home EXCEPT ![t] = s]
  /\ registry' = IF named THEN [registry EXCEPT ![s] = t] ELSE registry

\* Mutant: the name is asked for first, and no timer set when it is taken.
StartClosing_UnlessNamed(s, t) ==
  IF registry[s] = None THEN StartTimer(s, t, TRUE) ELSE UNCHANGED timerVars

StartClosing(s, t) == StartTimer(s, t, registry[s] = None)

HandleLeft(m, s) ==
  /\ webhooks[m] # <<>> /\ Head(webhooks[m]) = "left"
  /\ Unused # {}
  /\ StartClosing(s, CHOOSE t \in Unused : TRUE)
  /\ Answer(m)
  /\ UNCHANGED <<status, closing, inRoom, abandonVars, urlVars, crashes>>

\* participant_joined: getTimeout throws when the name is unknown; otherwise the
\* timer is cleared (if it has not fired yet) and its name forgotten.
CancelClosing(s) ==
  /\ timer' = [t \in Timer |->
       IF t = registry[s] /\ timer[t] = "pending" THEN "cleared" ELSE timer[t]]
  /\ registry' = [registry EXCEPT ![s] = None]

HandleJoined(m, s) ==
  /\ webhooks[m] # <<>> /\ Head(webhooks[m]) = "joined"
  /\ CancelClosing(s)
  /\ Answer(m)
  /\ UNCHANGED <<status, closing, inRoom, home, abandonVars, urlVars, crashes>>

Deliver(m) == \E s \in Server :
  (HandleJoined(m, s) \/ HandleLeft(m, s)) /\ webhooks' # webhooks

\* The timer's callback: LiveKit deletes the room, then the row is updated.  The
\* registry keeps the name.
TimerDelete(t) ==
  /\ timer[t] = "pending"
  /\ timer' = [timer EXCEPT ![t] = "deleted"]
  /\ DeleteRoom
  /\ UNCHANGED <<status, closing, home, registry, urlVars, crashes>>

\* Mutant: the callback forgets the row.
TimerClose_RoomOnly(t) ==
  /\ timer[t] = "deleted" /\ Free
  /\ timer' = [timer EXCEPT ![t] = "done"]
  /\ UNCHANGED <<status, closing, abandonVars, roomVars, home, registry, urlVars, crashes>>

TimerClose(t) ==
  /\ timer[t] = "deleted" /\ Free
  /\ timer' = [timer EXCEPT ![t] = "done"]
  /\ SetEnded
  /\ UNCHANGED <<closing, roomVars, home, registry, urlVars, crashes>>

\* LiveKit refuses the deletion (the room is gone, or its answer is lost), or the
\* database the update.  Sentry takes the rejected promise, so the process goes on:
\* the class stays as it is, and nothing tries again.
TimerRefused(t) ==
  /\ t \in Running
  /\ timer' = [timer EXCEPT ![t] = "refused"]
  /\ missed' = (missed \/ abandoned)
  /\ UNCHANGED <<status, closing, roomVars, home, registry, abandoned, urlVars, crashes>>

\* A process dies with its timers.
Crash(s) ==
  /\ crashes < MaxCrashes
  /\ crashes' = crashes + 1
  /\ timer' = [t \in Timer |->
       IF t \in Running /\ home[t] = s THEN "lost" ELSE timer[t]]
  /\ registry' = [registry EXCEPT ![s] = None]
  /\ missed' = (missed \/ (abandoned /\ timer' # timer))
  /\ UNCHANGED <<status, closing, roomVars, home, abandoned, urlVars>>

-----------------------------------------------------------------------------
(* One-use URLs. *)

\* generateJoinUrl: a student needs an open class (and an enrolment) ...
ReadForUrl(u) ==
  /\ url[u] = "none" /\ Open
  /\ url' = [url EXCEPT ![u] = "reading"]
  /\ UNCHANGED <<status, closing, roomVars, timerVars, abandonVars, expired, verify, crashes>>

\* ... and is given a URL after it was looked up, open or not by then.
CreateUrl(u) ==
  /\ url[u] = "reading"
  /\ url' = [url EXCEPT ![u] = "fresh"]
  /\ UNCHANGED <<status, closing, roomVars, timerVars, abandonVars, expired, verify, crashes>>

Expire(u) ==
  /\ url[u] \in {"fresh", "used"}
  /\ expired' = expired \cup {u}
  /\ UNCHANGED <<status, closing, roomVars, timerVars, abandonVars, url, verify, crashes>>

StepVerify(v, pc) == verify' = [verify EXCEPT ![v].pc = pc]

Admitted(u) == \E w \in Verify : verify[w].url = u /\ verify[w].pc = "granted"

\* verifyUrl: the row is read ...
ReadUrl(v, u) ==
  /\ verify[v].pc = "new" /\ url[u] \in {"fresh", "used"}
  /\ verify' = [verify EXCEPT ![v] =
       [pc |-> IF url[u] = "used" THEN "refused" ELSE "mark",
        url |-> u, late |-> Admitted(u)]]
  /\ UNCHANGED <<status, closing, roomVars, timerVars, abandonVars, url, expired, crashes>>

\* ... marked as used, also when it has expired, ...
\* Mutant: the mark is left to whoever finds the URL expired.
MarkUrl_Expired(v) ==
  /\ verify[v].pc = "mark"
  /\ url' = IF verify[v].url \in expired
            THEN [url EXCEPT ![verify[v].url] = "used"] ELSE url
  /\ StepVerify(v, "check")
  /\ UNCHANGED <<status, closing, roomVars, timerVars, abandonVars, expired, crashes>>

MarkUrl(v) ==
  /\ verify[v].pc = "mark"
  /\ url' = [url EXCEPT ![verify[v].url] = "used"]
  /\ StepVerify(v, "check")
  /\ UNCHANGED <<status, closing, roomVars, timerVars, abandonVars, expired, crashes>>

\* ... and the caller let in unless it has expired.
CheckExpiry(v) ==
  /\ verify[v].pc = "check"
  /\ StepVerify(v, IF verify[v].url \in expired THEN "refused" ELSE "granted")
  /\ UNCHANGED <<status, closing, roomVars, timerVars, abandonVars, url, expired, crashes>>

-----------------------------------------------------------------------------
Class == OpenStreaming \/ CloseUpdate \/ CloseDelete \/ CloseCommit \/ CloseRollback

Room ==
  \/ \E m \in Moderator : Join(m) \/ Leave(m)
  \/ \E m \in Moderator, s \in Server : HandleJoined(m, s) \/ HandleLeft(m, s)
  \/ \E t \in Timer : TimerDelete(t) \/ TimerClose(t) \/ TimerRefused(t)
  \/ \E s \in Server : Crash(s)

Urls ==
  \/ \E u \in Url : ReadForUrl(u) \/ CreateUrl(u) \/ Expire(u)
  \/ \E v \in Verify, u \in Url : ReadUrl(v, u)
  \/ \E v \in Verify : MarkUrl(v) \/ CheckExpiry(v)

Next == Class \/ Room \/ Urls

Spec == Init /\ [][Next]_vars

\* LiveKit's webhooks arrive (again, if they must), timers fire and finish, a
\* closing transaction ends.  The row's lock is granted in order: a timer that
\* waits for it gets it however often others close the class.
Fairness ==
  /\ \A m \in Moderator : WF_vars(Deliver(m))
  /\ \A t \in Timer : WF_vars(TimerDelete(t)) /\ SF_vars(TimerClose(t))
  /\ WF_vars(CloseCommit \/ CloseRollback)

FairSpec == Spec /\ Fairness

-----------------------------------------------------------------------------
(* Properties *)

\* Every variable keeps its type; what has no name in a registry is no timer.
TypeOK ==
  /\ status \in {"pending", "ongoing", "ended"}
  /\ closing \in {"none", "updated", "deleted"}
  /\ inRoom \subseteq Moderator
  /\ webhooks \in [Moderator -> Seq({"joined", "left"})]
  /\ timer \in [Timer -> {"unused", "pending", "cleared", "deleted", "done", "lost",
                       "refused"}]
  /\ home \in [Timer -> Server]
  /\ registry \in [Server -> Timer \cup {None}]
  /\ abandoned \in BOOLEAN /\ missed \in BOOLEAN
  /\ url \in [Url -> {"none", "reading", "fresh", "used"}]
  /\ expired \subseteq Url
  /\ verify \in [Verify -> [pc : {"new", "mark", "check", "granted", "refused"},
                            url : Url \cup {None}, late : BOOLEAN]]
  /\ crashes \in 0 .. MaxCrashes

\* An open class that its moderators left is watched: the last leave is still on
\* its way to a server, or a timer is going to close the class, unless a restart or
\* a refusal took a timer since they left.  Moderators who return on one server
\* while others leave through another, names that are taken or were never known,
\* and timers lost before, leave no gap (handleModeratorDisconnect).
AbandonedIsWatched ==
  abandoned /\ ~missed => (\E m \in Moderator : LeftPending(m)) \/ Running # {}

\* Once somebody was let in with a URL, whoever comes later with it is refused,
\* even though reading and marking it are two queries (verifyUrl): only calls that
\* overlap the first can be let in too.
UsedUrlIsSpent ==
  \A v \in Verify : verify[v].pc = "granted" => ~verify[v].late

\* Once its moderators have left, a class is closed, unless one of them returns, or
\* a restart or a refusal takes a timer meanwhile.
AbandonedCloses == abandoned ~> (~abandoned \/ missed)
=============================================================================
