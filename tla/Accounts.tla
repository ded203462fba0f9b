------------------------------ MODULE Accounts -------------------------------
(***************************************************************************)
(* One person's account: the sessions behind refresh tokens, and the reset *)
(* of a forgotten password (authentication/authentication.service.ts, with *)
(* the parts of users/users.service.ts and profile/profile.service.ts that *)
(* make, change and remove an account).                                    *)
(*                                                                         *)
(* Every request is a process that runs one handler, one query a step.  A  *)
(* refresh token is signed from the account and the second, so a second    *)
(* has one token.  A code lives five minutes, which are any time.          *)
(***************************************************************************)
EXTENDS Integers, FiniteSets

CONSTANTS
  Request,       \* calls of the handlers below
  None,          \* no code
  MaxNow,        \* bound: the clock, in seconds
  MaxUsers       \* bound: accounts made for the person's address

ASSUME NoneIsNoRequest == None \notin Request
ASSUME AccountBounds == MaxNow \in Nat /\ MaxUsers \in Nat \ {0}

VARIABLES
  now,
  user,        \* id of the account with the person's address; 0 if there is none
  users,       \* accounts made so far
  linked,      \* accounts that have a google_id
  password,    \* the request that set the account's password; None at first
  sessions,    \* SessionLogin rows: id, token, and the login they began with
  ids,         \* session ids used so far
  otp,         \* the ForgotPassword row: its code, verified, expired; None if none
  lock,        \* the forgotPasswordRequest whose transaction holds that row
  req,         \* where each request is, and what it has read
  ended,       \* history: logins whose session a logout deleted
  escaped,     \* history: those of them that a refresh was using at that moment
  overlapped,  \* history: logins whose session two refreshes used at once
  presented,   \* history: codes given to forgotPasswordVerify and found right
  hurried      \* history: codes requested while another was being verified

accountVars == <<user, users, linked, password>>
sessionVars == <<sessions, ids, ended, escaped, overlapped>>
codeVars == <<otp, lock, presented, hurried>>
vars == <<now, accountVars, sessionVars, codeVars, req>>

Time == 0 .. MaxNow
NoSession == [id |-> 0, token |-> 0, login |-> None]
Fresh == [pc |-> "new", user |-> 0, old |-> NoSession, token |-> 0, code |-> None]

Init ==
  /\ now = 0
  /\ user = 1 /\ users = 1 /\ linked = {} /\ password = None
  /\ sessions = {} /\ ids = 0 /\ ended = {} /\ escaped = {} /\ overlapped = {}
  /\ otp = None /\ lock = None /\ presented = {} /\ hurried = {}
  /\ req = [r \in Request |-> Fresh]

At(r, pc) == req[r].pc = pc
Go(r, pc) == req' = [req EXCEPT ![r].pc = pc]
Refuse(r) == Go(r, "done")
Calls(pc) == {r \in Request : req[r].pc = pc}

Tick == now < MaxNow /\ now' = now + 1 /\ UNCHANGED <<accountVars, sessionVars, codeVars, req>>

-----------------------------------------------------------------------------
(* Accounts *)

\* registerUser: the address is looked up, and taken or not when the row is made.
\* bound: accounts ever made.
CheckEmail(r) ==
  /\ At(r, "new") /\ user = 0 /\ users < MaxUsers
  /\ Go(r, "register")
  /\ UNCHANGED <<now, accountVars, sessionVars, codeVars>>

CreateUser(r) ==
  /\ At(r, "register")
  /\ IF user # 0 \/ users = MaxUsers THEN Refuse(r) /\ UNCHANGED accountVars
     ELSE /\ user' = users + 1 /\ users' = users + 1 /\ password' = r
          /\ UNCHANGED linked
          /\ req' = [req EXCEPT ![r].pc = "sign", ![r].user = users + 1]
  /\ UNCHANGED <<now, sessionVars, codeVars>>

\* UsersService.remove: the row, with the sessions and the code that hang on it.
\* The row of a request in progress is locked: the removal waits.
RemoveUser(r) ==
  /\ At(r, "new") /\ user # 0 /\ lock = None
  /\ user' = 0 /\ sessions' = {} /\ otp' = None
  /\ Refuse(r)
  /\ UNCHANGED <<now, users, linked, password, ids, ended, escaped, overlapped, lock, presented, hurried>>

\* changePassword, by who has an access token and knows the password: it is
\* compared, then hashed and stored.
ComparePassword(r) ==
  /\ At(r, "new") /\ user # 0
  /\ req' = [req EXCEPT ![r].pc = "change", ![r].user = user]
  /\ UNCHANGED <<now, accountVars, sessionVars, codeVars>>

UpdatePassword(r) ==
  /\ At(r, "change")
  /\ password' = IF user = req[r].user THEN r ELSE password
  /\ Refuse(r)
  /\ UNCHANGED <<now, user, users, linked, sessionVars, codeVars>>

-----------------------------------------------------------------------------
(* Sessions *)

\* loginWithGoogleAccessToken links the account with the address, or makes one with
\* a password nobody knows, ...
UpsertGoogle(r) ==
  /\ At(r, "new") /\ (user = 0 => users < MaxUsers)    \* bound: accounts ever made
  /\ IF user = 0
     THEN user' = users + 1 /\ users' = users + 1 /\ password' = r
     ELSE UNCHANGED <<user, users, password>>
  /\ linked' = linked \cup {user'} /\ Go(r, "google")
  /\ UNCHANGED <<now, sessionVars, codeVars>>

\* ... and loginWithGoogleID looks for the account that is linked.
FindGoogle(r) ==
  /\ At(r, "google")
  /\ IF user \in linked THEN req' = [req EXCEPT ![r].pc = "sign", ![r].user = user]
     ELSE Refuse(r)
  /\ UNCHANGED <<now, accountVars, sessionVars, codeVars>>

\* loginUser
Login(r) ==
  /\ At(r, "new") /\ user # 0
  /\ req' = [req EXCEPT ![r].pc = "sign", ![r].user = user]
  /\ UNCHANGED <<now, accountVars, sessionVars, codeVars>>

\* generateJwtToken
Sign(r, pc, next) ==
  /\ At(r, pc)
  /\ req' = [req EXCEPT ![r].pc = next, ![r].token = now]
  /\ UNCHANGED <<now, accountVars, sessionVars, codeVars>>

Row(token) == {s \in sessions : s.token = token}

\* Mutant: the session is made without looking for one.
StoreLogin_Creates(r) ==
  /\ At(r, "store")
  /\ IF user = req[r].user
     THEN /\ sessions' = sessions \cup {[id |-> ids + 1, token |-> req[r].token, login |-> r]}
          /\ ids' = ids + 1
     ELSE UNCHANGED <<sessions, ids>>
  /\ Refuse(r)
  /\ UNCHANGED <<now, accountVars, codeVars, ended, escaped, overlapped>>

\* updateRefreshToken of a login: the second's session is taken over if there is
\* one already.  An account that is gone cannot have a session.
StoreLogin(r) ==
  /\ At(r, "store")
  /\ IF user = req[r].user /\ Row(req[r].token) = {}
     THEN /\ sessions' = sessions \cup {[id |-> ids + 1, token |-> req[r].token, login |-> r]}
          /\ ids' = ids + 1
     ELSE UNCHANGED <<sessions, ids>>
  /\ Refuse(r)
  /\ UNCHANGED <<now, accountVars, codeVars, ended, escaped, overlapped>>

\* Refreshes that have found a session and not finished with it, or with another
\* that had its token.
Refreshing(s) == {r \in Calls("resign") \cup Calls("restore") :
                    req[r].old.login = s.login \/ req[r].old.token = s.token}

FindSession(r, s, pc) ==
  /\ At(r, "new") /\ s \in sessions
  /\ req' = [req EXCEPT ![r].pc = pc, ![r].old = s, ![r].user = user]
  /\ UNCHANGED <<now, accountVars, codeVars, sessions, ids, ended, escaped>>

\* refreshToken: the session is found by its token ...
FindForRefresh(r, s) ==
  /\ FindSession(r, s, "resign")
  /\ overlapped' = IF Refreshing(s) # {} THEN overlapped \cup {s.login} ELSE overlapped

\* ... and updateRefreshToken gives the row of that token the new one; without
\* such a row a new session is made.  A token that another session has is refused.
\* Mutant: the session is not looked for, every refresh makes one.
StoreRefresh_Creates(r) ==
  /\ At(r, "restore")
  /\ IF user = req[r].user /\ Row(req[r].token) = {}
     THEN /\ sessions' = sessions \cup
               {[id |-> ids + 1, token |-> req[r].token, login |-> req[r].old.login]}
          /\ ids' = ids + 1
     ELSE UNCHANGED <<sessions, ids>>
  /\ Refuse(r)
  /\ UNCHANGED <<now, accountVars, codeVars, ended, escaped, overlapped>>

StoreRefresh(r) ==
  LET q == req[r]
      mine == Row(q.old.token)
      taken == Row(q.token) \ mine # {} IN
  /\ At(r, "restore")
  /\ IF user # q.user \/ taken THEN UNCHANGED <<sessions, ids>>
     ELSE IF mine # {}
     THEN /\ sessions' = (sessions \ mine) \cup {[s EXCEPT !.token = q.token] : s \in mine}
          /\ UNCHANGED ids
     ELSE /\ sessions' = sessions \cup
               {[id |-> ids + 1, token |-> q.token, login |-> q.old.login]}
          /\ ids' = ids + 1
  /\ Refuse(r)
  /\ UNCHANGED <<now, accountVars, codeVars, ended, escaped, overlapped>>

\* logOut: the session is found by its token and deleted by its id.
FindForLogout(r, s) == FindSession(r, s, "delete") /\ UNCHANGED overlapped

Forget(r, gone) ==
  LET old == req[r].old IN
  /\ At(r, "delete")
  /\ sessions' = sessions \ gone
  /\ ended' = ended \cup {old.login}
  /\ escaped' = IF Refreshing(old) # {} THEN escaped \cup {old.login} ELSE escaped
  /\ Refuse(r)
  /\ UNCHANGED <<now, accountVars, codeVars, ids, overlapped>>

\* Mutant: it is deleted by the token, which a refresh may have replaced.
DeleteSession_ByToken(r) == Forget(r, Row(req[r].old.token))

DeleteSession(r) == Forget(r, {s \in sessions : s.id = req[r].old.id})

-----------------------------------------------------------------------------
(* A forgotten password *)

\* forgotPasswordRequest writes the new code, which locks the row, mails it, and
\* commits; if the mail or the commit fails, nothing was written.
UpsertCode(r) ==
  /\ At(r, "new") /\ user # 0 /\ lock = None
  /\ lock' = r /\ Go(r, "mail")
  /\ UNCHANGED <<now, accountVars, sessionVars, otp, presented, hurried>>

CommitCode(r) ==
  /\ At(r, "mail")
  /\ otp' = [code |-> r, verified |-> FALSE, expired |-> FALSE] /\ lock' = None
  /\ hurried' = IF Calls("mark") # {} THEN hurried \cup {r} ELSE hurried
  /\ Refuse(r)
  /\ UNCHANGED <<now, accountVars, sessionVars, presented>>

RollbackCode(r) ==
  /\ At(r, "mail")
  /\ lock' = None /\ Refuse(r)
  /\ UNCHANGED <<now, accountVars, sessionVars, otp, presented, hurried>>

ExpireCode ==
  /\ otp # None /\ ~otp.expired
  /\ otp' = [otp EXCEPT !.expired = TRUE]
  /\ UNCHANGED <<now, accountVars, sessionVars, lock, presented, hurried, req>>

\* forgotPasswordVerify: the code is right, not verified yet, and not too old ...
ReadForVerify(r) ==
  /\ At(r, "new") /\ otp # None /\ ~otp.verified /\ ~otp.expired
  /\ presented' = presented \cup {otp.code}
  /\ req' = [req EXCEPT ![r].pc = "mark", ![r].user = user, ![r].code = otp.code]
  /\ UNCHANGED <<now, accountVars, sessionVars, otp, lock, hurried>>

\* ... and the account's row, whichever code it has by now, is marked.
MarkVerified(r) ==
  /\ At(r, "mark") /\ lock = None
  /\ otp' = IF otp # None /\ user = req[r].user THEN [otp EXCEPT !.verified = TRUE] ELSE otp
  /\ Refuse(r)
  /\ UNCHANGED <<now, accountVars, sessionVars, lock, presented, hurried>>

\* forgotPasswordReset: the code is right, verified, and not too old.
\* Mutant: whether it was verified is not asked.
ReadForReset_Unverified(r) ==
  /\ At(r, "new") /\ otp # None /\ ~otp.expired
  /\ req' = [req EXCEPT ![r].pc = "reset", ![r].user = user, ![r].code = otp.code]
  /\ UNCHANGED <<now, accountVars, sessionVars, codeVars>>

ReadForReset(r) ==
  /\ At(r, "new") /\ otp # None /\ otp.verified /\ ~otp.expired
  /\ req' = [req EXCEPT ![r].pc = "reset", ![r].user = user, ![r].code = otp.code]
  /\ UNCHANGED <<now, accountVars, sessionVars, codeVars>>

\* The code stays as it is, and so do the sessions.
ResetPassword(r) ==
  /\ At(r, "reset")
  /\ password' = IF user = req[r].user THEN r ELSE password
  /\ Refuse(r)
  /\ UNCHANGED <<now, user, users, linked, sessionVars, codeVars>>

-----------------------------------------------------------------------------
AccountStep(r) ==
  CheckEmail(r) \/ CreateUser(r) \/ RemoveUser(r) \/ ComparePassword(r) \/ UpdatePassword(r)

SessionStep(r) ==
  \/ Login(r) \/ UpsertGoogle(r) \/ FindGoogle(r) \/ Sign(r, "sign", "store") \/ StoreLogin(r)
  \/ \E s \in sessions : FindForRefresh(r, s) \/ FindForLogout(r, s)
  \/ Sign(r, "resign", "restore") \/ StoreRefresh(r) \/ DeleteSession(r)

CodeStep(r) ==
  \/ UpsertCode(r) \/ CommitCode(r) \/ RollbackCode(r)
  \/ ReadForVerify(r) \/ MarkVerified(r) \/ ReadForReset(r) \/ ResetPassword(r)

Next ==
  \/ Tick \/ ExpireCode
  \/ \E r \in Request : AccountStep(r) \/ SessionStep(r) \/ CodeStep(r)

Spec == Init /\ [][Next]_vars

-----------------------------------------------------------------------------
(* Properties *)

Code == [code : Request, verified : BOOLEAN, expired : BOOLEAN]
PC == {"new", "done", "register", "google", "change", "sign", "store", "resign", "restore",
       "delete", "mail", "mark", "reset"}

\* Every variable keeps its type, and no two sessions have one id or one token.
TypeOK ==
  /\ now \in Time /\ user \in 0 .. users /\ users \in 1 .. MaxUsers
  /\ linked \subseteq 1 .. users /\ password \in Request \cup {None} /\ ids \in Nat
  /\ sessions \subseteq [id : 1 .. ids, token : Time, login : Request]
  /\ \A s, t \in sessions : s = t \/ (s.id # t.id /\ s.token # t.token)
  /\ otp \in Code \cup {None} /\ lock \in Request \cup {None}
  /\ \A r \in Request : req[r].pc \in PC

\* A session that was logged out is over, even if it was refreshed while logOut was
\* between its two queries: only a refresh that still holds it can bring it back,
\* or has forked it before (refreshToken, logOut).
LogoutIsFinal ==
  \A s \in sessions : s.login \in ended => s.login \in escaped \cup overlapped

\* Refreshing moves a login's one session from token to token; it gets a second
\* one only when two refreshes used the session at once (updateRefreshToken).
OneSessionPerLogin ==
  \A s, t \in sessions : s.login = t.login /\ s # t => s.login \in overlapped

\* A password is reset only with a code that was presented and verified, unless
\* the code was requested while its predecessor was being verified
\* (forgotPasswordVerify marks the account's row, not the code it read).
ResetWasVerified ==
  \A r \in Calls("reset") : req[r].code \in presented \cup hurried
=============================================================================
