---------------------------- MODULE AccountsProofs ----------------------------
(***************************************************************************)
(* Proofs about Accounts: that a logged out session is over, that a login  *)
(* has one session unless refreshes overlapped, and that a password is     *)
(* reset with a code that was verified unless the code was hurried.        *)
(***************************************************************************)
EXTENDS Accounts, TLAPS

Session == [id : 1 .. ids, token : Time, login : Request]
Held == [id : 0 .. ids, token : Time, login : Request \cup {None}]
State == [pc : PC, user : 0 .. users, old : Held, token : Time, code : Request \cup {None}]

ReqTyped == req \in [Request -> State]

Refreshers == Calls("resign") \cup Calls("restore")
Holders == Refreshers \cup Calls("delete")
Gone(s) == \A t \in sessions : t.id # s.id

\* A session is of a login that is over, and of an account; so is one that a refresh
\* or a logout has found, which still leads to its login by its id.
HeldInv ==
  /\ \A s \in sessions : At(s.login, "done")
  /\ \A l \in ended : l \in Request /\ At(l, "done")
  /\ \A r \in Holders :
       /\ req[r].old \in Session /\ At(req[r].old.login, "done") /\ req[r].user # 0
       /\ \A s \in sessions : s.id = req[r].old.id => s.login = req[r].old.login
  /\ sessions # {} => user # 0
  /\ \A r \in Calls("sign") \cup Calls("store") : req[r].user # 0

\* A session that a refresh has found is still there, unless another refresh used it
\* too, or it was logged out meanwhile, or its account is gone.
FoundInv ==
  \A r \in Refreshers :
    LET s == req[r].old IN
    \/ s \in sessions
    \/ s.login \in overlapped
    \/ Gone(s) /\ (s.login \in escaped \/ user # req[r].user)

\* Two refreshes that use one login's session, or one token, at once are noticed.
OverlapInv ==
  \A r, q \in Refreshers :
    LET s == req[r].old
        t == req[q].old IN
    r # q /\ (s.login = t.login \/ (s.token = t.token /\ s \in sessions))
      => s.login \in overlapped

\* A login's second session is the work of overlapping refreshes, also as seen by
\* those that have found the first.
SecondInv ==
  /\ \A r \in Refreshers : \A s \in sessions :
       s.login = req[r].old.login /\ s # req[r].old => s.login \in overlapped
  /\ \A r \in Calls("delete") : \A s \in sessions :
       s.login = req[r].old.login /\ s.id # req[r].old.id => s.login \in escaped \cup overlapped

\* A code is marked only by who presented it, or was requested meanwhile.
CodeInv ==
  /\ \A r \in Calls("mark") :
       /\ req[r].code \in presented
       /\ otp # None => otp.code = req[r].code \/ otp.code \in hurried
  /\ otp # None /\ otp.verified => otp.code \in presented \cup hurried

IInv ==
  /\ TypeOK /\ ReqTyped
  /\ HeldInv /\ FoundInv /\ OverlapInv /\ SecondInv /\ CodeInv
  /\ LogoutIsFinal /\ OneSessionPerLogin /\ ResetWasVerified

-----------------------------------------------------------------------------
(* Types *)

LEMMA TypeInit == Init => TypeOK /\ ReqTyped
<1> SUFFICES ASSUME Init PROVE TypeOK /\ ReqTyped
  OBVIOUS
<1>1. 0 \in Time /\ 1 \in 1 .. MaxUsers
  BY AccountBounds DEF Time
<1>2. Fresh \in State /\ Fresh.pc = "new"
  BY <1>1 DEF Init, Fresh, State, PC, Held, NoSession
<1>3. ReqTyped
  BY <1>2 DEF Init, ReqTyped
<1>4. TypeOK
  BY <1>1, <1>2 DEF Init, TypeOK, PC
<1> QED BY <1>3, <1>4

\* What a request holds keeps its type while accounts and session ids are made.
LEMMA StatesGrow ==
  ASSUME users \in Nat, ids \in Nat, users' \in Nat, ids' \in Nat,
         users' >= users, ids' >= ids
  PROVE  State \subseteq State'
<1>1. 0 .. users \subseteq 0 .. users' /\ 0 .. ids \subseteq 0 .. ids'
  OBVIOUS
<1>2. Held \subseteq Held'
  BY <1>1 DEF Held
<1> QED BY <1>1, <1>2 DEF State

\* A request that moves on, with an account, a code, a token or a session, keeps its type.
LEMMA Moves ==
  ASSUME ReqTyped, State \subseteq State', NEW r \in Request, NEW pc \in PC
  PROVE  /\ [req[r] EXCEPT !.pc = pc] \in State'
         /\ Go(r, pc) => ReqTyped'
<1>1. [req[r] EXCEPT !.pc = pc] \in State'
  BY DEF ReqTyped, State
<1> QED BY <1>1 DEF ReqTyped, Go

LEMMA MovesWithUser ==
  ASSUME ReqTyped, State \subseteq State', NEW r \in Request, NEW pc \in PC,
         NEW u \in 0 .. users', req' = [req EXCEPT ![r].pc = pc, ![r].user = u]
  PROVE  ReqTyped'
<1>1. [req[r] EXCEPT !.pc = pc] \in State'
  BY Moves
<1>2. [[req[r] EXCEPT !.pc = pc] EXCEPT !.user = u] \in State'
  BY <1>1 DEF State
<1> QED BY <1>2 DEF ReqTyped

LEMMA MovesWithCode ==
  ASSUME ReqTyped, State \subseteq State', NEW r \in Request, NEW pc \in PC,
         NEW u \in 0 .. users', NEW c \in Request,
         req' = [req EXCEPT ![r].pc = pc, ![r].user = u, ![r].code = c]
  PROVE  ReqTyped'
<1>1. [req[r] EXCEPT !.pc = pc] \in State'
  BY Moves
<1>2. [[req[r] EXCEPT !.pc = pc] EXCEPT !.user = u] \in State'
  BY <1>1 DEF State
<1>3. [[[req[r] EXCEPT !.pc = pc] EXCEPT !.user = u] EXCEPT !.code = c] \in State'
  BY <1>2 DEF State
<1> QED BY <1>3 DEF ReqTyped

LEMMA MovesWithSession ==
  ASSUME ReqTyped, State \subseteq State', NEW r \in Request, NEW pc \in PC,
         NEW u \in 0 .. users', NEW o \in Held',
         req' = [req EXCEPT ![r].pc = pc, ![r].old = o, ![r].user = u]
  PROVE  ReqTyped'
<1>1. [req[r] EXCEPT !.pc = pc] \in State'
  BY Moves
<1>2. [[req[r] EXCEPT !.pc = pc] EXCEPT !.old = o] \in State'
  BY <1>1 DEF State
<1>3. [[[req[r] EXCEPT !.pc = pc] EXCEPT !.old = o] EXCEPT !.user = u] \in State'
  BY <1>2 DEF State
<1> QED BY <1>3 DEF ReqTyped

LEMMA MovesWithToken ==
  ASSUME ReqTyped, State \subseteq State', NEW r \in Request, NEW pc \in PC,
         NEW k \in Time, req' = [req EXCEPT ![r].pc = pc, ![r].token = k]
  PROVE  ReqTyped'
<1>1. [req[r] EXCEPT !.pc = pc] \in State'
  BY Moves
<1>2. [[req[r] EXCEPT !.pc = pc] EXCEPT !.token = k] \in State'
  BY <1>1 DEF State
<1> QED BY <1>2 DEF ReqTyped

LEMMA AccountTyped ==
  ASSUME TypeOK, ReqTyped, NEW r \in Request, AccountStep(r)
  PROVE  TypeOK' /\ ReqTyped'
<1>0. user \in 0 .. users /\ users \in Nat /\ ids \in Nat /\ req[r] \in State
  BY AccountBounds DEF TypeOK, ReqTyped
<1>1. ReqTyped'
  <2>0. State \subseteq State'
    <3>1. users' \in Nat /\ users' >= users /\ ids' = ids
      BY <1>0 DEF AccountStep, CheckEmail, CreateUser, RemoveUser, ComparePassword,
                  UpdatePassword, accountVars, sessionVars
    <3> QED BY <1>0, <3>1, StatesGrow
  <2>1. CASE CreateUser(r) /\ user = 0 /\ users # MaxUsers
    <3>1. users' = users + 1 /\ users + 1 \in 0 .. users'
          /\ req' = [req EXCEPT ![r].pc = "sign", ![r].user = users + 1]
      BY <1>0, <2>1 DEF CreateUser
    <3> QED BY <2>0, <3>1, MovesWithUser DEF PC
  <2>2. CASE ComparePassword(r)
    <3>1. req' = [req EXCEPT ![r].pc = "change", ![r].user = user] /\ user \in 0 .. users'
      BY <1>0, <2>2 DEF ComparePassword, accountVars
    <3> QED BY <2>0, <3>1, MovesWithUser DEF PC
  <2>3. CASE \/ CheckEmail(r) \/ RemoveUser(r) \/ UpdatePassword(r)
             \/ CreateUser(r) /\ ~(user = 0 /\ users # MaxUsers)
    <3>1. Go(r, "register") \/ Go(r, "done")
      BY <2>3 DEF CheckEmail, RemoveUser, UpdatePassword, CreateUser, Refuse
    <3> QED BY <2>0, <3>1, Moves DEF PC
  <2> QED BY <2>1, <2>2, <2>3 DEF AccountStep
<1>2. \A x \in Request : req'[x].pc \in PC
  BY <1>1 DEF ReqTyped, State
<1>3. CASE CheckEmail(r) \/ ComparePassword(r) \/ UpdatePassword(r)
  <2>1. UNCHANGED <<now, user, users, linked, sessions, ids, otp, lock>>
        /\ password' \in {password, r}
    BY <1>3 DEF CheckEmail, ComparePassword, UpdatePassword, accountVars, sessionVars, codeVars
  <2> QED BY <1>1, <1>2, <2>1 DEF TypeOK
<1>4. CASE CreateUser(r)
  <2>1. UNCHANGED <<now, linked, sessions, ids, otp, lock>> /\ password' \in {password, r}
        /\ user' \in 0 .. users' /\ users' \in 1 .. MaxUsers /\ users' >= users
    BY <1>0, <1>4, AccountBounds DEF CreateUser, TypeOK, accountVars, sessionVars, codeVars
  <2>2. linked' \subseteq 1 .. users'
    BY <1>0, <2>1 DEF TypeOK
  <2> QED BY <1>1, <1>2, <2>1, <2>2 DEF TypeOK
<1>5. CASE RemoveUser(r)
  <2>1. /\ UNCHANGED <<now, users, linked, password, ids, lock>>
        /\ user' = 0 /\ sessions' = {} /\ otp' = None
    BY <1>5 DEF RemoveUser
  <2> QED BY <1>0, <1>1, <1>2, <2>1 DEF TypeOK
<1> QED BY <1>1, <1>3, <1>4, <1>5 DEF AccountStep

\* A session that is made, or gets another token, keeps ids and tokens apart.
LEMMA SessionMade ==
  ASSUME TypeOK, NEW k \in Time, Row(k) = {}, NEW l \in Request
  PROVE  LET more == sessions \cup {[id |-> ids + 1, token |-> k, login |-> l]} IN
         /\ more \subseteq [id : 1 .. ids + 1, token : Time, login : Request]
         /\ \A s, t \in more : s = t \/ (s.id # t.id /\ s.token # t.token)
<1>1. ids \in Nat /\ \A s \in sessions : s.id \in 1 .. ids /\ s.id # ids + 1 /\ s.token # k
  BY DEF TypeOK, Row
<1> QED BY <1>1 DEF TypeOK

LEMMA SessionRenewed ==
  ASSUME TypeOK, NEW m \in sessions, NEW k \in Time, Row(k) \ {m} = {}
  PROVE  LET renewed == (sessions \ {m}) \cup {[m EXCEPT !.token = k]} IN
         /\ renewed \subseteq [id : 1 .. ids, token : Time, login : Request]
         /\ \A s, t \in renewed : s = t \/ (s.id # t.id /\ s.token # t.token)
         /\ [m EXCEPT !.token = k].id = m.id /\ [m EXCEPT !.token = k].login = m.login
<1> DEFINE n == [m EXCEPT !.token = k]
<1>1. n.id = m.id /\ n.login = m.login /\ n.token = k
      /\ n \in [id : 1 .. ids, token : Time, login : Request]
  BY DEF TypeOK
<1>2. \A s \in sessions \ {m} : s.id # n.id /\ s.token # n.token
  BY <1>1 DEF TypeOK, Row
<1> HIDE DEF n
<1>3. /\ (sessions \ {m}) \cup {n} \subseteq [id : 1 .. ids, token : Time, login : Request]
      /\ \A s, t \in (sessions \ {m}) \cup {n} : s = t \/ (s.id # t.id /\ s.token # t.token)
  BY <1>1, <1>2 DEF TypeOK
<1> QED BY <1>1, <1>3 DEF n

\* The row of a token is one at most.
LEMMA OneRow ==
  ASSUME TypeOK, NEW k, Row(k) # {}
  PROVE  \E m \in sessions : m.token = k /\ Row(k) = {m}
BY DEF TypeOK, Row

\* How a refresh is stored.
LEMMA RefreshStored ==
  ASSUME TypeOK, NEW r \in Request, StoreRefresh(r)
  PROVE  LET q == req[r] IN
         \/ UNCHANGED <<sessions, ids>>
         \/ /\ user = q.user /\ UNCHANGED ids
            /\ \E m \in sessions :
                 /\ m.token = q.old.token /\ Row(q.token) \ {m} = {}
                 /\ sessions' = (sessions \ {m}) \cup {[m EXCEPT !.token = q.token]}
         \/ /\ user = q.user /\ Row(q.old.token) = {} /\ Row(q.token) = {}
            /\ sessions' = sessions \cup
                 {[id |-> ids + 1, token |-> q.token, login |-> q.old.login]}
            /\ ids' = ids + 1
<1>1. CASE Row(req[r].old.token) = {}
  BY <1>1 DEF StoreRefresh
<1>2. CASE Row(req[r].old.token) # {}
  <2>1. PICK m \in sessions : m.token = req[r].old.token /\ Row(req[r].old.token) = {m}
    BY <1>2, OneRow
  <2>2. {[s EXCEPT !.token = req[r].token] : s \in {m}} = {[m EXCEPT !.token = req[r].token]}
    OBVIOUS
  <2> QED BY <2>1, <2>2 DEF StoreRefresh
<1> QED BY <1>1, <1>2

LEMMA LoginTyped ==
  ASSUME TypeOK, ReqTyped, NEW r \in Request,
         Login(r) \/ UpsertGoogle(r) \/ FindGoogle(r) \/ Sign(r, "sign", "store") \/ StoreLogin(r)
  PROVE  TypeOK' /\ ReqTyped'
<1>0. user \in 0 .. users /\ users \in Nat /\ ids \in Nat /\ req[r] \in State /\ now \in Time
  BY AccountBounds DEF TypeOK, ReqTyped
<1>1. CASE Login(r) \/ FindGoogle(r)
  <2>1. /\ \/ req' = [req EXCEPT ![r].pc = "sign", ![r].user = user]
           \/ Go(r, "done")
        /\ UNCHANGED <<now, accountVars, sessionVars, codeVars>>
    BY <1>1 DEF Login, FindGoogle, Refuse
  <2>2. State \subseteq State' /\ user \in 0 .. users'
    BY <1>0, <2>1, StatesGrow DEF accountVars, sessionVars
  <2>3. ReqTyped'
    BY <2>1, <2>2, Moves, MovesWithUser DEF PC
  <2>4. \A x \in Request : req'[x].pc \in PC
    BY <2>3 DEF ReqTyped, State
  <2> QED BY <2>1, <2>3, <2>4 DEF TypeOK, accountVars, sessionVars, codeVars
<1>2. CASE UpsertGoogle(r)
  <2>1. /\ Go(r, "google") /\ UNCHANGED <<now, sessions, ids, otp, lock>>
        /\ password' \in {password, r} /\ linked' = linked \cup {user'}
        /\ user' \in 1 .. users' /\ users' \in 1 .. MaxUsers /\ users' >= users
    BY <1>0, <1>2, AccountBounds DEF UpsertGoogle, TypeOK, sessionVars, codeVars
  <2>2. State \subseteq State'
    BY <1>0, <2>1, StatesGrow
  <2>3. ReqTyped'
    BY <2>1, <2>2, Moves DEF PC
  <2>4. \A x \in Request : req'[x].pc \in PC
    BY <2>3 DEF ReqTyped, State
  <2>5. linked' \subseteq 1 .. users' /\ user' \in 0 .. users'
    BY <1>0, <2>1 DEF TypeOK
  <2> QED BY <2>1, <2>3, <2>4, <2>5 DEF TypeOK
<1>3. CASE Sign(r, "sign", "store")
  <2>1. /\ req' = [req EXCEPT ![r].pc = "store", ![r].token = now]
        /\ UNCHANGED <<now, accountVars, sessionVars, codeVars>>
    BY <1>3 DEF Sign
  <2>2. State \subseteq State'
    BY <1>0, <2>1, StatesGrow DEF accountVars, sessionVars
  <2>3. ReqTyped'
    BY <1>0, <2>1, <2>2, MovesWithToken DEF PC
  <2>4. \A x \in Request : req'[x].pc \in PC
    BY <2>3 DEF ReqTyped, State
  <2> QED BY <2>1, <2>3, <2>4 DEF TypeOK, accountVars, sessionVars, codeVars
<1>4. CASE StoreLogin(r)
  <2>1. Go(r, "done") /\ UNCHANGED <<now, user, users, linked, password, otp, lock>>
    BY <1>4 DEF StoreLogin, Refuse, accountVars, codeVars
  <2>2. \/ UNCHANGED <<sessions, ids>>
        \/ /\ Row(req[r].token) = {} /\ ids' = ids + 1
           /\ sessions' = sessions \cup {[id |-> ids + 1, token |-> req[r].token, login |-> r]}
    BY <1>4 DEF StoreLogin
  <2>3. State \subseteq State'
    BY <1>0, <2>1, <2>2, StatesGrow
  <2>4. ReqTyped'
    BY <2>1, <2>3, Moves DEF PC
  <2>5. \A x \in Request : req'[x].pc \in PC
    BY <2>4 DEF ReqTyped, State
  <2>6. /\ sessions' \subseteq [id : 1 .. ids', token : Time, login : Request] /\ ids' \in Nat
        /\ \A s, t \in sessions' : s = t \/ (s.id # t.id /\ s.token # t.token)
    <3>1. req[r].token \in Time
      BY <1>0 DEF State
    <3>2. CASE UNCHANGED <<sessions, ids>>
      BY <3>2 DEF TypeOK
    <3>3. CASE ~UNCHANGED <<sessions, ids>>
      BY <1>0, <2>2, <3>1, <3>3, SessionMade
    <3> QED BY <3>2, <3>3
  <2> QED BY <2>1, <2>4, <2>5, <2>6 DEF TypeOK
<1> QED BY <1>1, <1>2, <1>3, <1>4

LEMMA RefreshTyped ==
  ASSUME TypeOK, ReqTyped, HeldInv, NEW r \in Request,
         \/ \E s \in sessions : FindForRefresh(r, s) \/ FindForLogout(r, s)
         \/ Sign(r, "resign", "restore") \/ StoreRefresh(r) \/ DeleteSession(r)
  PROVE  TypeOK' /\ ReqTyped'
<1>0. user \in 0 .. users /\ users \in Nat /\ ids \in Nat /\ req[r] \in State /\ now \in Time
  BY AccountBounds DEF TypeOK, ReqTyped
<1>1. ASSUME NEW s \in sessions, FindForRefresh(r, s) \/ FindForLogout(r, s)
      PROVE  TypeOK' /\ ReqTyped'
  <2>1. PICK pc \in {"resign", "delete"} : FindSession(r, s, pc)
    BY <1>1 DEF FindForRefresh, FindForLogout
  <2>2. /\ req' = [req EXCEPT ![r].pc = pc, ![r].old = s, ![r].user = user]
        /\ UNCHANGED <<now, accountVars, codeVars, sessions, ids>>
    BY <2>1 DEF FindSession
  <2>3. State \subseteq State' /\ user \in 0 .. users'
    BY <1>0, <2>2, StatesGrow DEF accountVars
  <2>4. s \in Held'
    BY <1>0, <2>2 DEF Held, TypeOK
  <2>5. ReqTyped'
    BY <2>2, <2>3, <2>4, MovesWithSession DEF PC
  <2>6. \A x \in Request : req'[x].pc \in PC
    BY <2>5 DEF ReqTyped, State
  <2> QED BY <2>2, <2>5, <2>6 DEF TypeOK, accountVars, codeVars
<1>2. CASE Sign(r, "resign", "restore")
  <2>1. /\ req' = [req EXCEPT ![r].pc = "restore", ![r].token = now]
        /\ UNCHANGED <<now, accountVars, sessionVars, codeVars>>
    BY <1>2 DEF Sign
  <2>2. State \subseteq State'
    BY <1>0, <2>1, StatesGrow DEF accountVars, sessionVars
  <2>3. ReqTyped'
    BY <1>0, <2>1, <2>2, MovesWithToken DEF PC
  <2>4. \A x \in Request : req'[x].pc \in PC
    BY <2>3 DEF ReqTyped, State
  <2> QED BY <2>1, <2>3, <2>4 DEF TypeOK, accountVars, sessionVars, codeVars
<1>3. CASE StoreRefresh(r) \/ DeleteSession(r)
  <2>1. Go(r, "done") /\ UNCHANGED <<now, user, users, linked, password, otp, lock>>
    BY <1>3 DEF StoreRefresh, DeleteSession, Forget, Refuse, accountVars, codeVars
  <2>2. /\ sessions' \subseteq [id : 1 .. ids', token : Time, login : Request]
        /\ ids' \in Nat /\ ids' >= ids
        /\ \A s, t \in sessions' : s = t \/ (s.id # t.id /\ s.token # t.token)
    <3>1. CASE DeleteSession(r)
      BY <1>0, <3>1 DEF DeleteSession, Forget, TypeOK
    <3>2. CASE StoreRefresh(r)
      <4>0. req[r].token \in Time /\ req[r].old.login \in Request
        BY <1>0, <3>2 DEF StoreRefresh, At, State, HeldInv, Holders, Refreshers, Calls, Session
      <4>1. CASE UNCHANGED <<sessions, ids>>
        BY <1>0, <4>1 DEF TypeOK
      <4>2. ASSUME NEW m \in sessions, Row(req[r].token) \ {m} = {}, UNCHANGED ids,
                   sessions' = (sessions \ {m}) \cup {[m EXCEPT !.token = req[r].token]}
            PROVE  <2>2!1 /\ <2>2!2 /\ <2>2!3
        BY <1>0, <4>0, <4>2, SessionRenewed
      <4>3. CASE /\ Row(req[r].token) = {} /\ ids' = ids + 1
                 /\ sessions' = sessions \cup
                      {[id |-> ids + 1, token |-> req[r].token, login |-> req[r].old.login]}
        BY <1>0, <4>0, <4>3, SessionMade
      <4> QED BY <3>2, <4>1, <4>2, <4>3, RefreshStored
    <3> QED BY <1>3, <3>1, <3>2
  <2>3. State \subseteq State'
    BY <1>0, <2>1, <2>2, StatesGrow
  <2>4. ReqTyped'
    BY <2>1, <2>3, Moves DEF PC
  <2>5. \A x \in Request : req'[x].pc \in PC
    BY <2>4 DEF ReqTyped, State
  <2> QED BY <2>1, <2>2, <2>4, <2>5 DEF TypeOK
<1> QED BY <1>1, <1>2, <1>3

LEMMA CodeTyped ==
  ASSUME TypeOK, ReqTyped, NEW r \in Request, CodeStep(r)
  PROVE  TypeOK' /\ ReqTyped'
<1>0. user \in 0 .. users /\ users \in Nat /\ ids \in Nat /\ req[r] \in State
  BY AccountBounds DEF TypeOK, ReqTyped
<1>1. UNCHANGED <<now, user, users, linked, sessions, ids>> /\ password' \in {password, r}
  BY DEF CodeStep, UpsertCode, CommitCode, RollbackCode, ReadForVerify, MarkVerified,
         ReadForReset, ResetPassword, accountVars, sessionVars
<1>2. State \subseteq State' /\ user \in 0 .. users'
  BY <1>0, <1>1, StatesGrow
<1>3. ReqTyped'
  <2>1. CASE ReadForVerify(r) \/ ReadForReset(r)
    <3>1. otp.code \in Request
      BY <2>1 DEF ReadForVerify, ReadForReset, TypeOK, Code
    <3>2. PICK pc \in {"mark", "reset"} :
            req' = [req EXCEPT ![r].pc = pc, ![r].user = user, ![r].code = otp.code]
      BY <2>1 DEF ReadForVerify, ReadForReset
    <3> QED BY <1>2, <3>1, <3>2, MovesWithCode DEF PC
  <2>2. CASE UpsertCode(r) \/ CommitCode(r) \/ RollbackCode(r) \/ MarkVerified(r)
             \/ ResetPassword(r)
    <3>1. Go(r, "mail") \/ Go(r, "done")
      BY <2>2 DEF UpsertCode, CommitCode, RollbackCode, MarkVerified, ResetPassword, Refuse
    <3> QED BY <1>2, <3>1, Moves DEF PC
  <2> QED BY <2>1, <2>2 DEF CodeStep
<1>4. \A x \in Request : req'[x].pc \in PC
  BY <1>3 DEF ReqTyped, State
<1>5. otp' \in Code \cup {None} /\ lock' \in Request \cup {None}
  <2>1. [code |-> r, verified |-> FALSE, expired |-> FALSE] \in Code
    BY DEF Code
  <2>2. otp # None => [otp EXCEPT !.verified = TRUE] \in Code
    BY DEF TypeOK, Code
  <2> QED BY <2>1, <2>2 DEF CodeStep, UpsertCode, CommitCode, RollbackCode, ReadForVerify,
             MarkVerified, ReadForReset, ResetPassword, codeVars, TypeOK
<1> QED BY <1>1, <1>3, <1>4, <1>5 DEF TypeOK

LEMMA TypeNext == TypeOK /\ ReqTyped /\ HeldInv /\ [Next]_vars => TypeOK' /\ ReqTyped'
<1> SUFFICES ASSUME TypeOK, ReqTyped, HeldInv, [Next]_vars PROVE TypeOK' /\ ReqTyped'
  OBVIOUS
<1>1. ASSUME UNCHANGED <<accountVars, sessionVars, lock, req>>, otp' \in Code \cup {None},
             now' \in Time
      PROVE  TypeOK' /\ ReqTyped'
  <2>1. State' = State
    BY <1>1 DEF State, Held, accountVars, sessionVars
  <2> QED BY <1>1, <2>1 DEF TypeOK, ReqTyped, accountVars, sessionVars
<1>2. CASE UNCHANGED vars
  BY <1>1, <1>2 DEF vars, codeVars, TypeOK
<1>3. CASE Tick
  BY <1>1, <1>3, AccountBounds DEF Tick, codeVars, TypeOK, Time
<1>4. CASE ExpireCode
  <2>1. [otp EXCEPT !.expired = TRUE] \in Code
    BY <1>4 DEF ExpireCode, TypeOK, Code
  <2> QED BY <1>1, <1>4, <2>1 DEF ExpireCode, TypeOK
<1>5. ASSUME NEW r \in Request, AccountStep(r) \/ SessionStep(r) \/ CodeStep(r)
      PROVE  TypeOK' /\ ReqTyped'
  BY <1>5, AccountTyped, LoginTyped, RefreshTyped, CodeTyped DEF SessionStep
<1> QED BY <1>2, <1>3, <1>4, <1>5 DEF Next

-----------------------------------------------------------------------------
(* Sessions *)

SessionInv ==
  HeldInv /\ FoundInv /\ OverlapInv /\ SecondInv /\ LogoutIsFinal /\ OneSessionPerLogin

\* A step of a request that holds no session, and of nobody else, that leaves the
\* sessions alone; it may make the account.
LEMMA OtherStep ==
  ASSUME TypeOK, ReqTyped, SessionInv, NEW r \in Request,
         UNCHANGED <<sessions, ids, ended, escaped, overlapped>>,
         user' = user \/ (user = 0 /\ user' = users + 1),
         req[r].pc \notin {"done", "resign", "restore", "delete"},
         req'[r].pc \notin {"resign", "restore", "delete"},
         req'[r].pc \in {"sign", "store"} => req'[r].user # 0,
         \A x \in Request \ {r} : req'[x] = req[x]
  PROVE  SessionInv'
<1>1. /\ Refreshers' = Refreshers /\ Holders' = Holders /\ Calls("delete")' = Calls("delete")
      /\ r \notin Holders /\ \A x \in Holders : x \in Request /\ req'[x] = req[x]
  BY DEF Refreshers, Holders, Calls
<1>2. \A x \in Request : req[x].user \in 0 .. users
  BY DEF ReqTyped, State
<1>3. HeldInv'
  <2>1. \A l \in Request : At(l, "done") => At(l, "done")'
    BY DEF At
  <2>2. \A s \in sessions : s.login \in Request
    BY DEF TypeOK
  <2>3. \A x \in Holders : x \in Holders' /\ req'[x].old.login \in Request
    BY <1>1 DEF SessionInv, HeldInv, Session
  <2>4. users \in Nat
    BY AccountBounds DEF TypeOK
  <2>5. ASSUME NEW x \in Holders
        PROVE  (/\ req[x].old \in Session /\ At(req[x].old.login, "done")
                /\ req[x].user # 0
                /\ \A s \in sessions : s.id = req[x].old.id => s.login = req[x].old.login)'
    <3>1. /\ req[x].old \in Session /\ At(req[x].old.login, "done") /\ req[x].user # 0
          /\ \A s \in sessions : s.id = req[x].old.id => s.login = req[x].old.login
      BY DEF SessionInv, HeldInv
    <3>2. req'[x] = req[x] /\ Session' = Session /\ req[x].old.login \in Request
      BY <1>1, <2>3 DEF Session
    <3> QED BY <2>1, <3>1, <3>2 DEF At
  <2>6. \A x \in Calls("sign")' \cup Calls("store")' : req'[x].user # 0
    BY DEF SessionInv, HeldInv, Calls
  <2>7. sessions' # {} => user' # 0
    BY <2>4 DEF SessionInv, HeldInv
  <2>8. /\ \A s \in sessions' : At(s.login, "done")'
        /\ \A l \in ended' : l \in Request /\ At(l, "done")'
    BY <2>1, <2>2 DEF SessionInv, HeldInv
  <2> QED BY <1>1, <2>5, <2>6, <2>7, <2>8 DEF HeldInv
<1>4. FoundInv'
  <2>1. \A x \in Refreshers : x \in Request /\ (user # req[x].user => user' # req[x].user)
    BY <1>1, <1>2, AccountBounds DEF Holders, TypeOK, SessionInv, HeldInv
  <2> QED BY <1>1, <2>1 DEF SessionInv, FoundInv, Holders, Gone
<1>5. OverlapInv' /\ SecondInv'
  BY <1>1 DEF SessionInv, OverlapInv, SecondInv, Holders
<1>6. LogoutIsFinal' /\ OneSessionPerLogin'
  BY DEF SessionInv, LogoutIsFinal, OneSessionPerLogin
<1> QED BY <1>3, <1>4, <1>5, <1>6 DEF SessionInv

LEMMA OtherKeeps ==
  ASSUME TypeOK, ReqTyped, SessionInv, NEW r \in Request,
         \/ AccountStep(r) /\ ~RemoveUser(r)
         \/ Login(r) \/ UpsertGoogle(r) \/ FindGoogle(r) \/ Sign(r, "sign", "store")
         \/ CodeStep(r)
  PROVE  SessionInv'
<1>0. user \in 0 .. users /\ users \in Nat /\ req[r] \in State
  BY AccountBounds DEF TypeOK, ReqTyped
<1>1. CASE \/ CheckEmail(r) \/ CreateUser(r) \/ ComparePassword(r) \/ UpdatePassword(r)
  <2>1. /\ UNCHANGED <<sessions, ids, ended, escaped, overlapped>>
        /\ user' = user \/ (user = 0 /\ user' = users + 1)
        /\ req[r].pc \in {"new", "register", "change"}
        /\ \A x \in Request \ {r} : req'[x] = req[x]
    BY <1>1 DEF CheckEmail, CreateUser, ComparePassword, UpdatePassword, accountVars, sessionVars,
                At, Go, Refuse, ReqTyped
  <2>2. req'[r].pc \in {"register", "done", "change"}
        \/ (req'[r].pc = "sign" /\ req'[r].user = users + 1)
    BY <1>0, <1>1 DEF CheckEmail, CreateUser, ComparePassword, UpdatePassword, Go, Refuse,
                      ReqTyped, State
  <2> QED BY <1>0, <2>1, <2>2, OtherStep
<1>2. CASE Login(r) \/ UpsertGoogle(r) \/ FindGoogle(r) \/ Sign(r, "sign", "store")
  <2>1. /\ UNCHANGED <<sessions, ids, ended, escaped, overlapped>>
        /\ user' = user \/ (user = 0 /\ user' = users + 1)
        /\ req[r].pc \in {"new", "google", "sign"}
        /\ \A x \in Request \ {r} : req'[x] = req[x]
    BY <1>2 DEF Login, UpsertGoogle, FindGoogle, Sign, accountVars, sessionVars,
                At, Go, Refuse, ReqTyped
  <2>2. \/ req'[r].pc \in {"google", "done"}
        \/ req'[r].pc = "sign" /\ req'[r].user = user /\ user # 0
        \/ req'[r].pc = "store" /\ req'[r].user = req[r].user /\ req[r].pc = "sign"
    <3>1. user \in linked => user # 0
      BY <1>0 DEF TypeOK
    <3> QED BY <1>0, <1>2, <3>1 DEF Login, UpsertGoogle, FindGoogle, Sign, At, Go, Refuse,
                                    ReqTyped, State
  <2>3. req[r].pc = "sign" => req[r].user # 0
    BY DEF SessionInv, HeldInv, Calls
  <2> QED BY <2>1, <2>2, <2>3, OtherStep
<1>3. CASE CodeStep(r)
  <2>1. /\ UNCHANGED <<sessions, ids, ended, escaped, overlapped>> /\ user' = user
        /\ req[r].pc \in {"new", "mail", "mark", "reset"}
        /\ \A x \in Request \ {r} : req'[x] = req[x]
    BY <1>3 DEF CodeStep, UpsertCode, CommitCode, RollbackCode, ReadForVerify, MarkVerified,
                ReadForReset, ResetPassword, accountVars, sessionVars, At, Go, Refuse, ReqTyped
  <2>2. req'[r].pc \in {"mail", "done", "mark", "reset"}
    BY <1>0, <1>3 DEF CodeStep, UpsertCode, CommitCode, RollbackCode, ReadForVerify,
                      MarkVerified, ReadForReset, ResetPassword, Go, Refuse, ReqTyped, State
  <2> QED BY <2>1, <2>2, OtherStep
<1> QED BY <1>1, <1>2, <1>3 DEF AccountStep

\* Those who are done stay so when a request moves.
LEMMA DoneStays ==
  ASSUME NEW r \in Request, req[r].pc # "done", \A x \in Request \ {r} : req'[x] = req[x]
  PROVE  \A l \in Request : At(l, "done") => At(l, "done")'
BY DEF At

LEMMA SignAgainKeeps ==
  ASSUME TypeOK, ReqTyped, SessionInv, NEW r \in Request, Sign(r, "resign", "restore")
  PROVE  SessionInv'
<1>1. /\ req[r].pc = "resign" /\ req'[r].pc = "restore" /\ req'[r].old = req[r].old
      /\ req'[r].user = req[r].user
      /\ UNCHANGED <<user, sessions, ids, ended, escaped, overlapped>>
      /\ \A x \in Request \ {r} : req'[x] = req[x]
  BY DEF Sign, At, ReqTyped, State, accountVars, sessionVars
<1>2. /\ Refreshers' = Refreshers /\ Holders' = Holders /\ Calls("delete")' = Calls("delete")
      /\ Calls("sign")' = Calls("sign") /\ Calls("store")' = Calls("store")
      /\ \A x \in Request : req'[x].old = req[x].old /\ req'[x].user = req[x].user
      /\ Holders \subseteq Request /\ Refreshers \subseteq Request
      /\ Calls("delete") \subseteq Request
  BY <1>1 DEF Refreshers, Holders, Calls
<1>3. HeldInv'
  <2>1. \A l \in Request : At(l, "done") => At(l, "done")'
    BY <1>1, DoneStays
  <2>2. \A s \in sessions : s.login \in Request
    BY DEF TypeOK
  <2>3. \A x \in Holders : req[x].old.login \in Request
    BY DEF SessionInv, HeldInv, Session
  <2>4. (\A x \in Holders :
           /\ req[x].old \in Session /\ At(req[x].old.login, "done") /\ req[x].user # 0
           /\ \A s \in sessions : s.id = req[x].old.id => s.login = req[x].old.login)'
    <3>1. Session' = Session
      BY <1>1 DEF Session
    <3>2. ASSUME NEW x \in Holders
          PROVE  At(req[x].old.login, "done")'
      BY <1>2, <2>1, <2>3, <3>2 DEF SessionInv, HeldInv, At
    <3> QED BY <1>1, <1>2, <3>1, <3>2 DEF SessionInv, HeldInv
  <2>5. \A x \in Calls("sign")' \cup Calls("store")' : req'[x].user # 0
    BY <1>2 DEF SessionInv, HeldInv, Calls
  <2>6. /\ (\A s \in sessions : At(s.login, "done"))'
        /\ (\A l \in ended : l \in Request /\ At(l, "done"))' /\ (sessions # {} => user # 0)'
    BY <1>1, <2>1, <2>2 DEF SessionInv, HeldInv
  <2> QED BY <2>4, <2>5, <2>6 DEF HeldInv
<1>4. FoundInv' /\ OverlapInv'
  BY <1>1, <1>2 DEF SessionInv, FoundInv, OverlapInv, Gone
<1>5. SecondInv' /\ LogoutIsFinal' /\ OneSessionPerLogin'
  BY <1>1, <1>2 DEF SessionInv, SecondInv, LogoutIsFinal, OneSessionPerLogin
<1> QED BY <1>3, <1>4, <1>5 DEF SessionInv

\* What is left of HeldInv when a request that is not done ends, or finds a session,
\* and the sessions change.
LEMMA HeldStays ==
  ASSUME TypeOK, ReqTyped, SessionInv, NEW r \in Request, req[r].pc # "done",
         ids \in Nat, ids' \in Nat, ids' >= ids,
         \A x \in Request \ {r} : req'[x] = req[x],
         req'[r].pc = "done" \/ (req'[r].pc \in {"resign", "delete"} /\ req'[r].user # 0
                                 /\ req'[r].old \in sessions /\ sessions' = sessions),
         \A s \in sessions' :
           \/ \E t \in sessions : s.id = t.id /\ s.login = t.login
           \/ s.id = ids + 1 /\ s.login \in Request /\ At(s.login, "done")',
         \A l \in ended' \ ended : l \in Request /\ At(l, "done"),
         sessions' # {} => user' # 0
  PROVE  HeldInv'
<1>1. \A l \in Request : At(l, "done") => At(l, "done")'
  BY DoneStays
<1>2. \A t \in sessions : t \in Session /\ At(t.login, "done")
  BY DEF TypeOK, Session, SessionInv, HeldInv
<1>3. Session \subseteq Session'
  <2>1. 1 .. ids \subseteq 1 .. ids'
    OBVIOUS
  <2> QED BY <2>1 DEF Session
<1>4. (\A s \in sessions : At(s.login, "done"))'
  <2>1. ASSUME NEW s \in sessions' PROVE At(s.login, "done")'
    BY <1>1, <1>2 DEF Session
  <2> QED BY <2>1
<1>5. (\A l \in ended : l \in Request /\ At(l, "done"))'
  BY <1>1 DEF SessionInv, HeldInv
<1>6. ASSUME NEW x \in Holders'
      PROVE  (/\ req[x].old \in Session /\ At(req[x].old.login, "done") /\ req[x].user # 0
              /\ \A s \in sessions : s.id = req[x].old.id => s.login = req[x].old.login)'
  <2>1. CASE x # r
    <3>1. x \in Holders /\ req'[x] = req[x]
      BY <2>1 DEF Holders, Refreshers, Calls
    <3>2. /\ req[x].old \in Session /\ At(req[x].old.login, "done") /\ req[x].user # 0
          /\ \A s \in sessions : s.id = req[x].old.id => s.login = req[x].old.login
      BY <3>1 DEF SessionInv, HeldInv
    <3>3. req[x].old.login \in Request /\ req[x].old.id # ids + 1
      BY <3>2 DEF Session
    <3>4. At(req[x].old.login, "done")'
      BY <1>1, <3>1, <3>2, <3>3 DEF At
    <3> QED BY <1>3, <3>1, <3>2, <3>3, <3>4
  <2>2. CASE x = r
    <3>1. /\ req'[r].user # 0 /\ req'[r].old \in sessions /\ sessions' = sessions
      BY <2>2 DEF Holders, Refreshers, Calls
    <3>2. At(req[r].old.login, "done")'
      BY <1>1, <1>2, <3>1 DEF At, Session
    <3>3. \A s \in sessions : s.id = req'[r].old.id => s = req'[r].old
      BY <3>1 DEF TypeOK
    <3> QED BY <1>2, <1>3, <2>2, <3>1, <3>2, <3>3
  <2> QED BY <2>1, <2>2
<1>7. \A x \in Calls("sign")' \cup Calls("store")' : req'[x].user # 0
  BY DEF SessionInv, HeldInv, Calls
<1> QED BY <1>4, <1>5, <1>6, <1>7 DEF HeldInv

\* A request that ends with its step, and held no session, leaves the others.
LEMMA EndsAlone ==
  ASSUME NEW r \in Request, r \notin Holders, req'[r].pc = "done",
         \A x \in Request \ {r} : req'[x] = req[x]
  PROVE  /\ Refreshers' = Refreshers /\ Calls("delete")' = Calls("delete")
         /\ \A x \in Refreshers : x \in Request /\ req'[x] = req[x]
         /\ \A x \in Calls("delete") : x \in Request /\ req'[x] = req[x]
BY DEF Refreshers, Holders, Calls

LEMMA RemoveUserKeeps ==
  ASSUME TypeOK, ReqTyped, SessionInv, NEW r \in Request, RemoveUser(r)
  PROVE  SessionInv'
<1>1. /\ req[r].pc = "new" /\ req'[r].pc = "done" /\ sessions' = {} /\ user' = 0
      /\ UNCHANGED <<ids, ended, escaped, overlapped>> /\ ids \in Nat
      /\ \A x \in Request \ {r} : req'[x] = req[x]
  BY DEF RemoveUser, At, Go, Refuse, ReqTyped, State, TypeOK
<1>2. r \notin Holders
  BY <1>1 DEF Holders, Refreshers, Calls
<1>3. HeldInv'
  BY <1>1, HeldStays
<1>4. FoundInv'
  BY <1>1, <1>2, EndsAlone DEF SessionInv, HeldInv, FoundInv, Holders, Gone
<1>5. OverlapInv' /\ SecondInv'
  BY <1>1, <1>2, EndsAlone DEF SessionInv, OverlapInv, SecondInv
<1> QED BY <1>1, <1>3, <1>4, <1>5 DEF SessionInv, LogoutIsFinal, OneSessionPerLogin

LEMMA StoreLoginKeeps ==
  ASSUME TypeOK, ReqTyped, SessionInv, NEW r \in Request, StoreLogin(r)
  PROVE  SessionInv'
<1> DEFINE n == [id |-> ids + 1, token |-> req[r].token, login |-> r]
<1>1. /\ req[r].pc = "store" /\ req'[r].pc = "done" /\ req[r].user # 0
      /\ UNCHANGED <<user, ended, escaped, overlapped>> /\ ids \in Nat
      /\ \A x \in Request \ {r} : req'[x] = req[x]
  BY DEF StoreLogin, At, Go, Refuse, ReqTyped, State, accountVars, TypeOK, SessionInv, HeldInv,
         Calls
<1>2. r \notin Holders /\ \A x \in Holders : x \in Request
  BY <1>1 DEF Holders, Refreshers, Calls
<1>3. \/ UNCHANGED <<sessions, ids>>
      \/ sessions' = sessions \cup {n} /\ ids' = ids + 1 /\ user # 0
  BY <1>1 DEF StoreLogin
<1>4. n.id = ids + 1 /\ n.login = r
  OBVIOUS
<1>5. \A s \in sessions : s.id # ids + 1 /\ s.login # r
  BY <1>1 DEF TypeOK, SessionInv, HeldInv, At
<1>6. \A x \in Holders : req[x].old.id # ids + 1 /\ req[x].old.login # r
  BY <1>1 DEF SessionInv, HeldInv, At, Session
<1> HIDE DEF n
<1>7. HeldInv'
  <2>1. At(r, "done")'
    BY <1>1 DEF At
  <2>2. sessions' # {} => user' # 0
    BY <1>1, <1>3 DEF SessionInv, HeldInv
  <2>3. ids' \in Nat /\ ids' >= ids
    BY <1>1, <1>3
  <2>4. \A s \in sessions' : \/ \E t \in sessions : s.id = t.id /\ s.login = t.login
                             \/ s.id = ids + 1 /\ s.login \in Request /\ At(s.login, "done")'
    BY <1>3, <1>4, <2>1
  <2> QED BY <1>1, <2>2, <2>3, <2>4, HeldStays
<1>8. FoundInv'
  <2>1. \A x \in Refreshers : req[x].old.id # ids + 1 /\ req[x].old.login # r
    BY <1>6 DEF Holders
  <2> QED BY <1>1, <1>2, <1>3, <1>4, <2>1, EndsAlone DEF SessionInv, FoundInv, Gone
<1>9. OverlapInv' /\ SecondInv'
  <2>1. \A x \in Refreshers \cup Calls("delete") :
          req[x].old.id # ids + 1 /\ req[x].old.login # r
    BY <1>6 DEF Holders
  <2> QED BY <1>1, <1>2, <1>3, <1>4, <2>1, EndsAlone DEF SessionInv, OverlapInv, SecondInv
<1>10. LogoutIsFinal'
  <2>1. r \notin ended
    BY <1>1 DEF SessionInv, HeldInv, At
  <2> QED BY <1>1, <1>3, <1>4, <2>1 DEF SessionInv, LogoutIsFinal
<1>11. OneSessionPerLogin'
  BY <1>1, <1>3, <1>4, <1>5 DEF SessionInv, OneSessionPerLogin
<1> QED BY <1>7, <1>8, <1>9, <1>10, <1>11 DEF SessionInv

LEMMA FindForRefreshKeeps ==
  ASSUME TypeOK, ReqTyped, SessionInv, NEW r \in Request, NEW s \in sessions,
         FindForRefresh(r, s)
  PROVE  SessionInv'
<1>1. /\ req[r].pc = "new" /\ req'[r].pc = "resign" /\ req'[r].old = s /\ req'[r].user = user
      /\ UNCHANGED <<user, sessions, ids, ended, escaped>> /\ ids \in Nat
      /\ \A x \in Request \ {r} : req'[x] = req[x]
  BY DEF FindForRefresh, FindSession, At, ReqTyped, State, accountVars, TypeOK
<1>2. /\ overlapped \subseteq overlapped'
      /\ Refreshing(s) # {} => s.login \in overlapped'
  BY DEF FindForRefresh
<1>3. /\ Refreshers' = Refreshers \cup {r} /\ Calls("delete")' = Calls("delete")
      /\ r \notin Refreshers /\ r \notin Calls("delete")
      /\ \A x \in Refreshers : x \in Request /\ req'[x] = req[x]
      /\ \A x \in Calls("delete") : x \in Request /\ req'[x] = req[x]
  BY <1>1 DEF Refreshers, Holders, Calls
<1>4. HeldInv'
  <2>1. user # 0
    BY DEF SessionInv, HeldInv
  <2> QED BY <1>1, <2>1, HeldStays
<1>5. FoundInv'
  BY <1>1, <1>2, <1>3 DEF SessionInv, FoundInv, Gone
<1>6. OverlapInv'
  <2>1. ASSUME NEW q \in Refreshers,
               \/ req[q].old.login = s.login
               \/ req[q].old.token = s.token
        PROVE  s.login \in overlapped'
    BY <1>2, <2>1 DEF Refreshing, Refreshers
  <2>2. \A t \in sessions : t.token = s.token => t = s
    BY DEF TypeOK
  <2> QED BY <1>1, <1>2, <1>3, <2>1, <2>2 DEF SessionInv, OverlapInv
<1>7. SecondInv'
  BY <1>1, <1>2, <1>3 DEF SessionInv, SecondInv, OneSessionPerLogin
<1>8. LogoutIsFinal' /\ OneSessionPerLogin'
  BY <1>1, <1>2 DEF SessionInv, LogoutIsFinal, OneSessionPerLogin
<1> QED BY <1>4, <1>5, <1>6, <1>7, <1>8 DEF SessionInv

LEMMA FindForLogoutKeeps ==
  ASSUME TypeOK, ReqTyped, SessionInv, NEW r \in Request, NEW s \in sessions,
         FindForLogout(r, s)
  PROVE  SessionInv'
<1>1. /\ req[r].pc = "new" /\ req'[r].pc = "delete" /\ req'[r].old = s /\ req'[r].user = user
      /\ UNCHANGED <<user, sessions, ids, ended, escaped, overlapped>> /\ ids \in Nat
      /\ \A x \in Request \ {r} : req'[x] = req[x]
  BY DEF FindForLogout, FindSession, At, ReqTyped, State, accountVars, TypeOK
<1>2. /\ Refreshers' = Refreshers /\ Calls("delete")' = Calls("delete") \cup {r}
      /\ \A x \in Refreshers : x \in Request /\ req'[x] = req[x]
      /\ \A x \in Calls("delete") : x \in Request /\ req'[x] = req[x]
  BY <1>1 DEF Refreshers, Holders, Calls
<1>3. HeldInv'
  <2>1. user # 0
    BY DEF SessionInv, HeldInv
  <2> QED BY <1>1, <2>1, HeldStays
<1>4. FoundInv' /\ OverlapInv'
  BY <1>1, <1>2 DEF SessionInv, FoundInv, OverlapInv, Gone
<1>5. SecondInv'
  BY <1>1, <1>2 DEF SessionInv, SecondInv, OneSessionPerLogin
<1>6. LogoutIsFinal' /\ OneSessionPerLogin'
  BY <1>1 DEF SessionInv, LogoutIsFinal, OneSessionPerLogin
<1> QED BY <1>3, <1>4, <1>5, <1>6 DEF SessionInv

LEMMA StoreRefreshKeeps ==
  ASSUME TypeOK, ReqTyped, SessionInv, NEW r \in Request, StoreRefresh(r)
  PROVE  SessionInv'
<1> DEFINE old == req[r].old
           n == [id |-> ids + 1, token |-> req[r].token, login |-> old.login]
<1>1. /\ req[r].pc = "restore" /\ req'[r].pc = "done"
      /\ UNCHANGED <<user, ended, escaped, overlapped>> /\ ids \in Nat
      /\ \A x \in Request \ {r} : req'[x] = req[x]
  BY DEF StoreRefresh, At, Go, Refuse, ReqTyped, State, accountVars, TypeOK
<1>2. /\ r \in Refreshers /\ r \in Holders /\ Refreshers' = Refreshers \ {r}
      /\ Calls("delete")' = Calls("delete")
      /\ \A x \in Refreshers' : x \in Refreshers /\ x \in Holders /\ x # r /\ req'[x] = req[x]
      /\ \A x \in Calls("delete") : x \in Holders /\ x # r /\ req'[x] = req[x]
  BY <1>1 DEF Refreshers, Holders, Calls
<1>3. old \in Session /\ old.login \in Request /\ At(old.login, "done")
  BY <1>2 DEF SessionInv, HeldInv, Session
<1>4. \A x \in Holders : req[x].old.id # ids + 1
  BY <1>1 DEF SessionInv, HeldInv, Session
<1>5. sessions' # {} => user' # 0
  BY <1>1, <1>2 DEF StoreRefresh, SessionInv, HeldInv
<1>6. CASE UNCHANGED <<sessions, ids>>
  <2>1. HeldInv'
    BY <1>1, <1>5, <1>6, HeldStays
  <2>2. FoundInv' /\ OverlapInv'
    BY <1>1, <1>2, <1>6 DEF SessionInv, FoundInv, OverlapInv, Gone
  <2>3. SecondInv' /\ LogoutIsFinal' /\ OneSessionPerLogin'
    BY <1>1, <1>2, <1>6 DEF SessionInv, SecondInv, LogoutIsFinal, OneSessionPerLogin
  <2> QED BY <2>1, <2>2, <2>3 DEF SessionInv
<1>7. ASSUME NEW m \in sessions, m.token = old.token, UNCHANGED ids,
             sessions' = (sessions \ {m}) \cup {[m EXCEPT !.token = req[r].token]}
      PROVE  SessionInv'
  <2> DEFINE e == [m EXCEPT !.token = req[r].token]
  <2>1. e.id = m.id /\ e.login = m.login /\ sessions' = (sessions \ {m}) \cup {e}
    BY <1>7 DEF TypeOK
  <2> HIDE DEF e
  <2>2. \A q \in Refreshers : q # r /\ req[q].old = m => m.login \in overlapped
    BY <1>2, <1>7 DEF SessionInv, OverlapInv
  <2>3. HeldInv'
    <3>1. \A s \in sessions' : \E t \in sessions : s.id = t.id /\ s.login = t.login
      BY <2>1
    <3> QED BY <1>1, <1>5, <1>7, <3>1, HeldStays
  <2>4. FoundInv'
    BY <1>1, <1>2, <2>1, <2>2 DEF SessionInv, FoundInv, Gone
  <2>5. OverlapInv'
    <3>1. ASSUME NEW q \in Refreshers, req[q].old \in sessions', req[q].old \notin sessions
          PROVE  req[q].old.login \in overlapped
      <4>1. req[q].old.id = m.id
        BY <2>1, <3>1
      <4> QED BY <3>1, <4>1 DEF SessionInv, FoundInv, Gone
    <3> QED BY <1>1, <1>2, <3>1 DEF SessionInv, OverlapInv
  <2>6. SecondInv'
    <3>1. ASSUME NEW q \in Refreshers', NEW s \in sessions',
                 s.login = req[q].old.login, s # req[q].old
          PROVE  s.login \in overlapped
      <4>1. CASE s \in sessions
        BY <1>2, <3>1, <4>1 DEF SessionInv, SecondInv
      <4>2. CASE s = e
        BY <1>2, <2>1, <2>2, <3>1, <4>2 DEF SessionInv, SecondInv
      <4> QED BY <2>1, <4>1, <4>2
    <3>2. ASSUME NEW q \in Calls("delete"), NEW s \in sessions',
                 s.login = req[q].old.login, s.id # req[q].old.id
          PROVE  s.login \in escaped \cup overlapped
      BY <2>1, <3>2 DEF SessionInv, SecondInv
    <3> QED BY <1>1, <1>2, <3>1, <3>2 DEF SecondInv
  <2>7. LogoutIsFinal'
    BY <1>1, <2>1 DEF SessionInv, LogoutIsFinal
  <2>8. OneSessionPerLogin'
    BY <1>1, <2>1 DEF SessionInv, OneSessionPerLogin
  <2> QED BY <2>3, <2>4, <2>5, <2>6, <2>7, <2>8 DEF SessionInv
<1>8. CASE /\ user = req[r].user /\ Row(old.token) = {}
           /\ sessions' = sessions \cup {n} /\ ids' = ids + 1
  <2>1. n.id = ids + 1 /\ n.login = old.login
    OBVIOUS
  <2> HIDE DEF n
  <2>2. old \notin sessions
    BY <1>8 DEF Row
  <2>3. old.login \in escaped \cup overlapped
    BY <1>2, <1>8, <2>2 DEF SessionInv, FoundInv
  <2>4. HeldInv'
    <3>1. \A l \in Request : l = old.login => At(l, "done")'
      BY <1>1, <1>3, DoneStays
    <3>2. \A s \in sessions' : \/ \E t \in sessions : s.id = t.id /\ s.login = t.login
                               \/ s.id = ids + 1 /\ s.login \in Request /\ At(s.login, "done")'
      BY <1>3, <1>8, <2>1, <3>1
    <3> QED BY <1>1, <1>5, <1>8, <3>2, HeldStays
  <2>5. FoundInv'
    BY <1>1, <1>2, <1>4, <1>8, <2>1 DEF SessionInv, FoundInv, Gone
  <2>6. OverlapInv'
    BY <1>1, <1>2, <1>4, <1>8, <2>1 DEF SessionInv, OverlapInv
  <2>7. SecondInv'
    <3>1. \A q \in Refreshers' : req[q].old.login = old.login => old.login \in overlapped
      BY <1>2 DEF SessionInv, OverlapInv
    <3> QED BY <1>1, <1>2, <1>8, <2>1, <2>3, <3>1 DEF SessionInv, SecondInv
  <2>8. LogoutIsFinal'
    BY <1>1, <1>8, <2>1, <2>3 DEF SessionInv, LogoutIsFinal
  <2>9. OneSessionPerLogin'
    <3>1. \A t \in sessions : t.login = old.login => old.login \in overlapped
      BY <1>2, <2>2 DEF SessionInv, SecondInv
    <3> QED BY <1>1, <1>8, <2>1, <3>1 DEF SessionInv, OneSessionPerLogin
  <2> QED BY <2>4, <2>5, <2>6, <2>7, <2>8, <2>9 DEF SessionInv
<1> QED BY <1>6, <1>7, <1>8, RefreshStored

LEMMA DeleteSessionKeeps ==
  ASSUME TypeOK, ReqTyped, SessionInv, NEW r \in Request, DeleteSession(r)
  PROVE  SessionInv'
<1> DEFINE old == req[r].old
<1>1. /\ req[r].pc = "delete" /\ req'[r].pc = "done"
      /\ UNCHANGED <<user, ids, overlapped>> /\ ids \in Nat
      /\ sessions' = {s \in sessions : s.id # old.id} /\ ended' = ended \cup {old.login}
      /\ escaped \subseteq escaped' /\ (Refreshing(old) # {} => old.login \in escaped')
      /\ \A x \in Request \ {r} : req'[x] = req[x]
  BY DEF DeleteSession, Forget, At, Go, Refuse, ReqTyped, State, accountVars, TypeOK
<1>2. /\ r \in Calls("delete") /\ r \in Holders /\ Refreshers' = Refreshers
      /\ Calls("delete")' = Calls("delete") \ {r}
      /\ \A x \in Refreshers : x \in Holders /\ req'[x] = req[x]
      /\ \A x \in Calls("delete")' : x \in Calls("delete") /\ req'[x] = req[x]
  BY <1>1 DEF Refreshers, Holders, Calls
<1>3. old.login \in Request /\ At(old.login, "done")
      /\ \A s \in sessions : s.id = old.id => s.login = old.login
  BY <1>2 DEF SessionInv, HeldInv, Session
<1>4. HeldInv'
  <2>1. sessions' # {} => user' # 0
    BY <1>1 DEF SessionInv, HeldInv
  <2>2. \A s \in sessions' : \E t \in sessions : s.id = t.id /\ s.login = t.login
    BY <1>1
  <2> QED BY <1>1, <1>3, <2>1, <2>2, HeldStays
<1>5. FoundInv'
  <2> SUFFICES ASSUME NEW q \in Refreshers
               PROVE  LET s == req[q].old IN
                      \/ s \in sessions' \/ s.login \in overlapped
                      \/ /\ \A t \in sessions' : t.id # s.id
                         /\ s.login \in escaped' \/ user # req[q].user
    BY <1>1, <1>2 DEF FoundInv, Gone
  <2>1. CASE req[q].old \in sessions /\ req[q].old.id = old.id
    <3>1. q \in Refreshing(old)
      BY <1>3, <2>1 DEF Refreshing, Refreshers
    <3> QED BY <1>1, <1>3, <2>1, <3>1
  <2>2. CASE ~(req[q].old \in sessions /\ req[q].old.id = old.id)
    BY <1>1, <2>2 DEF SessionInv, FoundInv, Gone
  <2> QED BY <2>1, <2>2
<1>6. OverlapInv' /\ SecondInv'
  BY <1>1, <1>2 DEF SessionInv, OverlapInv, SecondInv
<1>7. LogoutIsFinal'
  BY <1>1, <1>2 DEF SessionInv, LogoutIsFinal, SecondInv
<1>8. OneSessionPerLogin'
  BY <1>1 DEF SessionInv, OneSessionPerLogin
<1> QED BY <1>4, <1>5, <1>6, <1>7, <1>8 DEF SessionInv

LEMMA SessionNext ==
  ASSUME TypeOK, ReqTyped, SessionInv, [Next]_vars
  PROVE  SessionInv'
<1>1. ASSUME UNCHANGED <<user, sessionVars, req>> PROVE SessionInv'
  <2>1. HeldInv'
    BY <1>1 DEF SessionInv, HeldInv, Holders, Refreshers, Calls, At, Session, sessionVars
  <2>2. FoundInv' /\ OverlapInv' /\ SecondInv' /\ LogoutIsFinal' /\ OneSessionPerLogin'
    BY <1>1 DEF SessionInv, FoundInv, OverlapInv, SecondInv, LogoutIsFinal, OneSessionPerLogin,
                Gone, Refreshers, Calls, sessionVars
  <2> QED BY <2>1, <2>2 DEF SessionInv
<1>2. CASE UNCHANGED vars \/ Tick \/ ExpireCode
  BY <1>1, <1>2 DEF vars, Tick, ExpireCode, accountVars
<1>3. ASSUME NEW r \in Request, AccountStep(r) \/ CodeStep(r) PROVE SessionInv'
  BY <1>3, OtherKeeps, RemoveUserKeeps
<1>4. ASSUME NEW r \in Request, SessionStep(r) PROVE SessionInv'
  BY <1>4, OtherKeeps, StoreLoginKeeps, FindForRefreshKeeps, FindForLogoutKeeps, SignAgainKeeps,
     StoreRefreshKeeps, DeleteSessionKeeps DEF SessionStep
<1> QED BY <1>2, <1>3, <1>4 DEF Next

-----------------------------------------------------------------------------
(* Codes *)

LEMMA CodeNext ==
  ASSUME TypeOK, ReqTyped, CodeInv, ResetWasVerified, [Next]_vars
  PROVE  CodeInv' /\ ResetWasVerified'
<1>1. ASSUME NEW r \in Request, otp' \in {otp, None}, UNCHANGED <<presented, hurried>>,
             \A x \in Request \ {r} : req'[x] = req[x],
             req'[r] = req[r] \/ req'[r].pc \notin {"mark", "reset"}
      PROVE  CodeInv' /\ ResetWasVerified'
  BY <1>1 DEF CodeInv, ResetWasVerified, Calls
<1>2. CASE UNCHANGED vars \/ Tick \/ ExpireCode
  <2>1. UNCHANGED <<presented, hurried, req>>
        /\ (otp' = otp \/ (otp # None /\ otp'.code = otp.code /\ otp'.verified = otp.verified))
    <3>1. CASE ExpireCode
      <4>1. otp # None /\ otp \in Code /\ otp' = [otp EXCEPT !.expired = TRUE]
        BY <3>1 DEF ExpireCode, TypeOK
      <4>2. otp'.code = otp.code /\ otp'.verified = otp.verified
        BY <4>1 DEF Code
      <4> QED BY <3>1, <4>1, <4>2 DEF ExpireCode
    <3>2. CASE UNCHANGED vars \/ Tick
      BY <3>2 DEF vars, Tick, codeVars
    <3> QED BY <1>2, <3>1, <3>2
  <2> QED BY <2>1 DEF CodeInv, ResetWasVerified, Calls
<1>3. ASSUME NEW r \in Request, AccountStep(r) PROVE CodeInv' /\ ResetWasVerified'
  <2>1. /\ otp' \in {otp, None} /\ UNCHANGED <<presented, hurried>>
        /\ \A x \in Request \ {r} : req'[x] = req[x]
        /\ req'[r].pc \in {"register", "sign", "change", "done"}
    BY <1>3 DEF AccountStep, CheckEmail, CreateUser, RemoveUser, ComparePassword, UpdatePassword,
                codeVars, Go, Refuse, ReqTyped, State
  <2> QED BY <1>1, <2>1
<1>4. ASSUME NEW r \in Request, SessionStep(r) PROVE CodeInv' /\ ResetWasVerified'
  <2>1. /\ UNCHANGED <<otp, presented, hurried>>
        /\ \A x \in Request \ {r} : req'[x] = req[x]
        /\ req'[r].pc \in {"google", "sign", "store", "resign", "restore", "delete", "done"}
    <3>0. req[r] \in State
      BY DEF ReqTyped
    <3>1. CASE Login(r) \/ UpsertGoogle(r) \/ FindGoogle(r)
      BY <3>0, <3>1 DEF Login, UpsertGoogle, FindGoogle, codeVars, Go, Refuse, ReqTyped, State
    <3>2. CASE Sign(r, "sign", "store") \/ Sign(r, "resign", "restore")
      BY <3>0, <3>2 DEF Sign, codeVars, ReqTyped, State
    <3>3. CASE StoreLogin(r) \/ StoreRefresh(r) \/ DeleteSession(r)
      BY <3>0, <3>3 DEF StoreLogin, StoreRefresh, DeleteSession, Forget, codeVars, Go, Refuse,
                        ReqTyped, State
    <3>4. ASSUME NEW s \in sessions, NEW pc \in {"resign", "delete"}, FindSession(r, s, pc)
          PROVE  <2>1!1 /\ <2>1!2 /\ <2>1!3
      BY <3>0, <3>4 DEF FindSession, codeVars, ReqTyped, State
    <3> QED BY <1>4, <3>1, <3>2, <3>3, <3>4 DEF SessionStep, FindForRefresh, FindForLogout
  <2> QED BY <1>1, <2>1
<1>5. ASSUME NEW r \in Request, UpsertCode(r) \/ RollbackCode(r) \/ ResetPassword(r)
      PROVE  CodeInv' /\ ResetWasVerified'
  <2>1. /\ UNCHANGED <<otp, presented, hurried>>
        /\ \A x \in Request \ {r} : req'[x] = req[x]
        /\ req'[r].pc \in {"mail", "done"}
    BY <1>5 DEF UpsertCode, RollbackCode, ResetPassword, codeVars, Go, Refuse, ReqTyped, State
  <2> QED BY <1>1, <2>1
<1>6. ASSUME NEW r \in Request, CommitCode(r) PROVE CodeInv' /\ ResetWasVerified'
  <2>1. /\ otp'.code = r /\ otp'.verified = FALSE /\ presented' = presented
        /\ hurried \subseteq hurried' /\ (Calls("mark") # {} => r \in hurried')
        /\ \A x \in Request \ {r} : req'[x] = req[x]
        /\ req'[r].pc = "done"
    BY <1>6 DEF CommitCode, Go, Refuse, ReqTyped, State
  <2>2. CodeInv'
    BY <2>1 DEF CodeInv, Calls
  <2>3. ResetWasVerified'
    BY <2>1 DEF ResetWasVerified, Calls
  <2> QED BY <2>2, <2>3
<1>7. ASSUME NEW r \in Request, ReadForVerify(r) PROVE CodeInv' /\ ResetWasVerified'
  <2>1. /\ otp' = otp /\ presented' = presented \cup {otp.code} /\ hurried' = hurried
        /\ \A x \in Request \ {r} : req'[x] = req[x]
        /\ req'[r].pc = "mark" /\ req'[r].code = otp.code
    BY <1>7 DEF ReadForVerify, ReqTyped, State
  <2>2. CodeInv'
    BY <2>1 DEF CodeInv, Calls
  <2>3. ResetWasVerified'
    BY <2>1 DEF ResetWasVerified, Calls
  <2> QED BY <2>2, <2>3
<1>8. ASSUME NEW r \in Request, MarkVerified(r) PROVE CodeInv' /\ ResetWasVerified'
  <2>1. /\ UNCHANGED <<presented, hurried>> /\ r \in Calls("mark")
        /\ \A x \in Request \ {r} : req'[x] = req[x]
        /\ req'[r].pc = "done"
        /\ otp' = otp \/ (otp # None /\ otp'.code = otp.code)
    <3>1. otp # None => [otp EXCEPT !.verified = TRUE].code = otp.code
      BY DEF TypeOK, Code
    <3> QED BY <1>8, <3>1 DEF MarkVerified, At, Calls, Go, Refuse, ReqTyped, State
  <2>2. otp # None => otp.code \in presented \cup hurried
    BY <2>1 DEF CodeInv
  <2>3. CodeInv'
    BY <2>1, <2>2 DEF CodeInv, Calls
  <2>4. ResetWasVerified'
    BY <2>1 DEF ResetWasVerified, Calls
  <2> QED BY <2>3, <2>4
<1>9. ASSUME NEW r \in Request, ReadForReset(r) PROVE CodeInv' /\ ResetWasVerified'
  <2>1. /\ UNCHANGED <<otp, presented, hurried>> /\ otp # None /\ otp.verified
        /\ \A x \in Request \ {r} : req'[x] = req[x]
        /\ req'[r].pc = "reset" /\ req'[r].code = otp.code
    BY <1>9 DEF ReadForReset, codeVars, ReqTyped, State
  <2>2. CodeInv'
    BY <2>1 DEF CodeInv, Calls
  <2>3. ResetWasVerified'
    BY <2>1 DEF ResetWasVerified, CodeInv, Calls
  <2> QED BY <2>2, <2>3
<1> QED BY <1>2, <1>3, <1>4, <1>5, <1>6, <1>7, <1>8, <1>9 DEF Next, CodeStep

-----------------------------------------------------------------------------
(* The inductive invariant, and what follows from it. *)

LEMMA InvInit == Init => IInv
<1> SUFFICES ASSUME Init PROVE IInv
  OBVIOUS
<1>1. /\ \A r \in Request : req[r].pc = "new"
      /\ sessions = {} /\ ended = {} /\ otp = None
  BY DEF Init, Fresh
<1>2. Refreshers = {} /\ Holders = {} /\ \A pc \in PC \ {"new"} : Calls(pc) = {}
  BY <1>1 DEF Refreshers, Holders, Calls, PC
<1>3. HeldInv /\ FoundInv /\ OverlapInv /\ SecondInv
  BY <1>1, <1>2 DEF HeldInv, FoundInv, OverlapInv, SecondInv, PC
<1>4. CodeInv /\ LogoutIsFinal /\ OneSessionPerLogin /\ ResetWasVerified
  BY <1>1, <1>2 DEF CodeInv, LogoutIsFinal, OneSessionPerLogin, ResetWasVerified, PC
<1> QED BY <1>3, <1>4, TypeInit DEF IInv

LEMMA InvNext == IInv /\ [Next]_vars => IInv'
<1> SUFFICES ASSUME IInv, [Next]_vars PROVE IInv'
  OBVIOUS
<1>1. TypeOK /\ ReqTyped /\ SessionInv /\ HeldInv /\ CodeInv /\ ResetWasVerified
  BY DEF IInv, SessionInv
<1>2. TypeOK' /\ ReqTyped'
  BY <1>1, TypeNext
<1>3. SessionInv'
  BY <1>1, SessionNext
<1>4. CodeInv' /\ ResetWasVerified'
  BY <1>1, CodeNext
<1> QED BY <1>2, <1>3, <1>4 DEF IInv, SessionInv

LEMMA InvHolds == Spec => []IInv
  BY InvInit, InvNext, PTL DEF Spec

\* Every variable keeps its type, and no two sessions have one id or one token, whatever
\* logins, refreshes and logouts overlap.
THEOREM AccountsTyped == Spec => []TypeOK
  BY InvHolds, PTL DEF IInv

\* A session that logout deleted comes back only by a refresh that was using it
\* (updateRefreshToken upserts by the token it replaces).
THEOREM LogoutsAreFinal == Spec => []LogoutIsFinal
  BY InvHolds, PTL DEF IInv

\* A login has one session, however often it is refreshed, unless two refreshes used it
\* at once (refreshToken).
THEOREM LoginsHaveOneSession == Spec => []OneSessionPerLogin
  BY InvHolds, PTL DEF IInv

\* A password is reset with a code that was presented, unless the code was requested
\* while its predecessor was being verified (forgotPasswordVerify, resetPassword).
THEOREM ResetsWereVerified == Spec => []ResetWasVerified
  BY InvHolds, PTL DEF IInv
=============================================================================
