----------------------------- MODULE AuthProofs -----------------------------
(***************************************************************************)
(* Safety of the codes, the account and its sessions, for any number of    *)
(* requests and codes and any limits.                                      *)
(***************************************************************************)
EXTENDS Auth, TLAPS

USE AuthAssumption DEF AuthAssumption

-----------------------------------------------------------------------------
(* Types *)

TypedTask(t) ==
    /\ t \in Task
    /\ t.pc \in {"count", "mark"} => t.code \in Code

LEMMA TypeOKByTask ==
  TypeOK <=> /\ code \in [Code -> CodeRow]
             /\ token \subseteq Purpose
             /\ accepted \subseteq Purpose
             /\ given \subseteq 0..MaxPins
             /\ account \in Account
             /\ task \in [Request -> Task]
             /\ \A r \in Request : TypedTask(task[r])
  BY DEF TypeOK, TypedTask, At

LEMMA IdleTyped == TypedTask(Idle)
  BY DEF TypedTask, Idle, Task, Pc, Purpose, Origin

LEMMA NoAccountTyped == NoAccount \in Account
  BY DEF NoAccount, NoSession, Account, Session, Origin

LEMMA NoSessionTyped == NoSession \in Session /\ 1 \in 0..MaxPins
  BY DEF NoSession, Session, Origin

LEMMA GoneTyped == Gone \in CodeRow /\ Unmade \in CodeRow
  BY DEF Gone, Unmade, CodeRow, Purpose

LEMMA TypeInit == Init => TypeOK
  BY TypeOKByTask, IdleTyped, NoAccountTyped, GoneTyped DEF Init, TypedTask

\* A step that runs r with a typed task and leaves the account and the codes typed.
LEMMA RunTyped ==
  ASSUME TypeOK, NEW r \in Request, NEW t, TypedTask(t), Run(r, t),
         code' \in [Code -> CodeRow], account' \in Account,
         token' \subseteq Purpose, accepted' \subseteq Purpose, given' \subseteq 0..MaxPins
  PROVE  TypeOK'
  <1>1. task' \in [Request -> Task]
    BY TypeOKByTask DEF Run, TypedTask
  <1>2. \A s \in Request : TypedTask(task'[s])
    BY TypeOKByTask DEF Run
  <1>3. \A s \in Request : At(s, "count")' \/ At(s, "mark")' => task'[s].code \in Code
    BY <1>2 DEF At, TypedTask
  <1> QED
    BY <1>1, <1>3 DEF TypeOK

LEMMA OvertakeTyped ==
  ASSUME NEW t \in [Request -> Task], \A r \in Request : TypedTask(t[r]),
         task' = Overtake(t),
         code' \in [Code -> CodeRow], account' \in Account,
         token' \subseteq Purpose, accepted' \subseteq Purpose, given' \subseteq 0..MaxPins
  PROVE  TypeOK'
  <1>1. ASSUME NEW u \in Task, TypedTask(u), u.pc = "session"
        PROVE  TypedTask([u EXCEPT !.origin = "overtaken"])
    BY <1>1 DEF TypedTask, Task, Origin
  <1>2. \A s \in Request : TypedTask(task'[s])
    BY <1>1 DEF Overtake
  <1>3. task' \in [Request -> Task]
    BY <1>2 DEF Overtake, TypedTask
  <1>4. \A s \in Request : At(s, "count")' \/ At(s, "mark")' => task'[s].code \in Code
    BY <1>2 DEF At, TypedTask
  <1> QED
    BY <1>3, <1>4 DEF TypeOK

LEMMA TypeStep ==
  ASSUME TypeOK, [Next]_vars
  PROVE  TypeOK'
  <1> USE DEF TypeOK
  <1>1. ASSUME NEW r \in Request, NEW p \in Purpose, SendOTP(r, p)  PROVE TypeOK'
    <2>1. TypedTask([Idle EXCEPT !.pc = "drop", !.purpose = p])
      BY IdleTyped DEF TypedTask, Idle, Task, Pc
    <2> QED
      BY <1>1, <2>1, RunTyped DEF SendOTP
  <1>2. ASSUME NEW r \in Request, DropCodes(r)  PROVE TypeOK'
    <2>1. TypedTask([task[r] EXCEPT !.pc = "store"])
      BY DEF TypedTask, Task, Pc
    <2>2. code' \in [Code -> CodeRow]
      BY <1>2, GoneTyped DEF DropCodes
    <2> QED
      BY <1>2, <2>1, <2>2, RunTyped DEF DropCodes
  <1>3. ASSUME NEW r \in Request, NEW x \in Code, StoreCode(r, x)  PROVE TypeOK'
    <2>1. code' \in [Code -> CodeRow]
      BY <1>3 DEF StoreCode, CodeRow, Task
    <2> QED
      BY <1>3, <2>1, IdleTyped, RunTyped DEF StoreCode, Finish
  <1>4. ASSUME NEW r \in Request, NEW p \in Purpose, FindCode(r, p)  PROVE TypeOK'
    <2>1. PICK x \in Code : Run(r, [Idle EXCEPT !.pc = "mark", !.purpose = p, !.code = x])
      BY <1>4 DEF FindCode, ValidCodes
    <2>2. TypedTask([Idle EXCEPT !.pc = "mark", !.purpose = p, !.code = x])
      BY IdleTyped DEF TypedTask, Task, Pc
    <2> QED
      BY <1>4, <2>1, <2>2, RunTyped DEF FindCode
  <1>5. ASSUME NEW r \in Request, NEW p \in Purpose, MissCode(r, p)  PROVE TypeOK'
    <2>1. TypedTask([Idle EXCEPT !.pc = "any", !.purpose = p])
      BY IdleTyped DEF TypedTask, Task, Pc
    <2> QED
      BY <1>5, <2>1, RunTyped DEF MissCode
  <1>6. ASSUME NEW r \in Request, FindAnyCode(r)  PROVE TypeOK'
    <2>1. ASSUME NEW x \in Code, Run(r, [task[r] EXCEPT !.pc = "count", !.code = x])
          PROVE  TypeOK'
      <3>1. TypedTask([task[r] EXCEPT !.pc = "count", !.code = x])
        BY DEF TypedTask, Task, Pc
      <3> QED
        BY <1>6, <2>1, <3>1, RunTyped DEF FindAnyCode
    <2>2. CASE Finish(r)
      BY <1>6, <2>2, IdleTyped, RunTyped DEF FindAnyCode, Finish
    <2> QED
      BY <1>6, <2>1, <2>2 DEF FindAnyCode
  <1>7. ASSUME NEW r \in Request, IncrementAttempt(r)  PROVE TypeOK'
    <2>1. code' \in [Code -> CodeRow]
      BY <1>7 DEF IncrementAttempt, CodeRow
    <2> QED
      BY <1>7, <2>1, IdleTyped, RunTyped DEF IncrementAttempt, Finish
  <1>8. ASSUME NEW r \in Request, MarkUsed(r)  PROVE TypeOK'
    <2>1. code' \in [Code -> CodeRow]
      BY <1>8 DEF MarkUsed, CodeRow
    <2>2. task[r].purpose \in Purpose
      BY DEF Task
    <2> QED
      BY <1>8, <2>1, <2>2, IdleTyped, RunTyped DEF MarkUsed, Finish
  <1>9. ASSUME NEW x \in Code, ExpireCode(x)  PROVE TypeOK'
    BY <1>9, GoneTyped DEF ExpireCode, At
  <1>10. ASSUME NEW p \in Purpose, ExpireToken(p)  PROVE TypeOK'
    BY <1>10 DEF ExpireToken, At
  <1>11. ASSUME NEW r \in Request, CompleteRegistration(r)  PROVE TypeOK'
    <2>1. TypedTask([Idle EXCEPT !.pc = "insert"])
      BY IdleTyped DEF TypedTask, Task, Pc, Purpose
    <2> QED
      BY <1>11, <2>1, RunTyped DEF CompleteRegistration
  <1>12. ASSUME NEW r \in Request, InsertUser(r)  PROVE TypeOK'
    <2>1. CASE Finish(r) /\ UNCHANGED account
      BY <1>12, <2>1, IdleTyped, RunTyped DEF InsertUser, Finish
    <2>2. CASE /\ account' = [exists |-> TRUE, isActive |-> TRUE, pin |-> 1,
                              session |-> NoSession]
               /\ Run(r, [Idle EXCEPT !.pc = "session", !.pin = 1])
      <3>1. TypedTask([Idle EXCEPT !.pc = "session", !.pin = 1])
        BY IdleTyped, NoSessionTyped DEF TypedTask, Task, Pc
      <3>2. account' \in Account
        BY <2>2, NoSessionTyped DEF Account
      <3> QED
        BY <1>12, <2>2, <3>1, <3>2, RunTyped DEF InsertUser
    <2> QED
      BY <1>12, <2>1, <2>2 DEF InsertUser
  <1>13. ASSUME NEW r \in Request, LoginWithPin(r)  PROVE TypeOK'
    <2>1. TypedTask([Idle EXCEPT !.pc = "session", !.pin = account.pin])
      BY IdleTyped DEF TypedTask, Task, Pc, Purpose, Account
    <2> QED
      BY <1>13, <2>1, RunTyped DEF LoginWithPin
  <1>14. ASSUME NEW r \in Request, RefreshAccessToken(r)  PROVE TypeOK'
    <2>1. TypedTask([Idle EXCEPT !.pc = "session", !.pin = account.session.pin,
                        !.refreshing = TRUE, !.origin = account.session.origin])
      BY IdleTyped DEF TypedTask, Task, Pc, Purpose, Account, Session
    <2> QED
      BY <1>14, <2>1, RunTyped DEF RefreshAccessToken
  <1>15. ASSUME NEW r \in Request, UpdateRefreshToken(r)  PROVE TypeOK'
    <2>1. account' \in Account /\ given' \subseteq 0..MaxPins
      BY <1>15 DEF UpdateRefreshToken, Account, Session, Task
    <2> QED
      BY <1>15, <2>1, IdleTyped, RunTyped DEF UpdateRefreshToken, Finish
  <1>16. ASSUME NEW r \in Request, ResetPin(r)  PROVE TypeOK'
    <2>1. TypedTask([Idle EXCEPT !.pc = "save"])
      BY IdleTyped DEF TypedTask, Task, Pc, Purpose
    <2> QED
      BY <1>16, <2>1, RunTyped DEF ResetPin
  <1>17. ASSUME NEW r \in Request, SavePin(r)  PROVE TypeOK'
    <2>0. account.pin + 1 \in 0..MaxPins
      BY <1>17 DEF SavePin, Account
    <2>1. account' \in Account
      BY <1>17, <2>0, NoSessionTyped DEF SavePin, Account
    <2>2. /\ [task EXCEPT ![r] = Idle] \in [Request -> Task]
          /\ \A s \in Request : TypedTask([task EXCEPT ![r] = Idle][s])
      BY IdleTyped, TypeOKByTask DEF TypedTask
    <2>3. task' = Overtake([task EXCEPT ![r] = Idle]) /\ UNCHANGED <<code, token, accepted, given>>
      BY <1>17 DEF SavePin
    <2> QED
      BY <2>1, <2>2, <2>3, OvertakeTyped
  <1>18. CASE Logout
    <2>1. account' \in Account
      BY <1>18, NoSessionTyped DEF Logout, Account
    <2> QED
      BY <1>18, <2>1, TypeOKByTask, OvertakeTyped DEF Logout
  <1>19. ASSUME NEW active \in BOOLEAN, SetActive(active)  PROVE TypeOK'
    <2>1. account' \in Account
      BY <1>19 DEF SetActive, Account
    <2> QED
      BY <1>19, <2>1 DEF SetActive, At
  <1>20. ASSUME NEW r \in Request, Abort(r)  PROVE TypeOK'
    BY <1>20, IdleTyped, RunTyped DEF Abort, Finish
  <1>21. CASE UpdateProfile
    <2>1. PICK active \in BOOLEAN, session \in {account.session, NoSession} \cup Chosen :
             /\ account' = [account EXCEPT !.isActive = active, !.session = session]
             /\ task' = IF session.live THEN task ELSE Overtake(task)
      BY <1>21 DEF UpdateProfile
    <2>2. session \in Session
      <3>1. account.session \in Session
        BY DEF Account
      <3>2. ASSUME NEW n \in given
            PROVE  [live |-> TRUE, pin |-> n, origin |-> "chosen"] \in Session
        BY <3>2 DEF Session, Origin
      <3> QED
        BY <2>1, <3>1, <3>2, NoSessionTyped DEF Chosen
    <2>3. account' \in Account /\ UNCHANGED <<code, token, accepted, given>>
      BY <1>21, <2>1, <2>2 DEF UpdateProfile, Account
    <2>4. CASE task' = task
      BY <2>3, <2>4 DEF At
    <2>5. CASE task' = Overtake(task)
      BY <2>3, <2>5, TypeOKByTask, OvertakeTyped
    <2> QED
      BY <2>1, <2>4, <2>5
  <1>22. CASE UNCHANGED vars
    BY <1>22 DEF vars, At
  <1> QED
    BY <1>1, <1>2, <1>3, <1>4, <1>5, <1>6, <1>7, <1>8, <1>9, <1>10, <1>11, <1>12, <1>13,
       <1>14, <1>15, <1>16, <1>17, <1>18, <1>19, <1>20, <1>21, <1>22
    DEF Next, SendRegistrationOTP, SendForgotPinOTP, VerifyRegistrationPhone,
        VerifyForgotPinOTP, DeactivateUser, ActivateUser, Purpose

\* The documents and tasks keep their shape, and no failure is booked on a code that was not
\* found, whichever requests interleave.
THEOREM AuthTypeOKHolds == Spec => []TypeOK
  BY TypeInit, TypeStep, PTL DEF Spec

-----------------------------------------------------------------------------
(* Codes.  Between its two operations createOTP has removed every code of  *)
(* its purpose, those of other requests may come back, its own does not.   *)

NoneOfOwn ==
    \A r \in Request, x \in Code :
        At(r, "store") /\ Stored(x) /\ code[x].purpose = task[r].purpose => code[x].by # r

CodesInv == OneCodePerRequest /\ NoneOfOwn

\* A step that stores no code and brings no request between the two operations.
NoCodeStored ==
    /\ \A x \in Code : code'[x].state \in {"live", "used"} =>
          /\ Stored(x)
          /\ code'[x].purpose = code[x].purpose
          /\ code'[x].by = code[x].by
    /\ \A r \in Request : task'[r].pc = "store" =>
          /\ At(r, "store")
          /\ task'[r].purpose = task[r].purpose

LEMMA CodesFrame ==
  ASSUME CodesInv, NoCodeStored
  PROVE  CodesInv'
  BY DEF CodesInv, NoCodeStored, OneCodePerRequest, NoneOfOwn, Stored, At

LEMMA RunNotStore ==
  ASSUME TypeOK, NEW r \in Request, NEW t, Run(r, t), t.pc # "store", UNCHANGED code
  PROVE  NoCodeStored
  BY DEF TypeOK, NoCodeStored, Run, At, Stored

LEMMA CodesInit == Init => CodesInv
  BY DEF Init, CodesInv, OneCodePerRequest, NoneOfOwn, Stored, At, Unmade, Idle

LEMMA CodesStep ==
  ASSUME TypeOK, CodesInv, [Next]_vars
  PROVE  CodesInv'
  <1>0. Idle.pc = "idle"
    BY DEF Idle
  <1>1. ASSUME NEW r \in Request, NEW p \in Purpose, SendOTP(r, p)  PROVE CodesInv'
    BY <1>0, <1>1, RunNotStore, CodesFrame, IdleTyped DEF SendOTP, TypedTask, Task
  <1>2. ASSUME NEW r \in Request, DropCodes(r)  PROVE CodesInv'
    <2>1. \A x \in Code : Stored(x)' => /\ Stored(x)
                                        /\ code'[x] = code[x]
                                        /\ code[x].purpose # task[r].purpose
      BY <1>2 DEF DropCodes, Stored, Gone
    <2>2. /\ task'[r].purpose = task[r].purpose
          /\ \A s \in Request : s # r => task'[s] = task[s]
      BY <1>2 DEF DropCodes, Run, TypeOK, Task
    <2>3. OneCodePerRequest'
      BY <2>1 DEF CodesInv, OneCodePerRequest
    <2>4. ASSUME NEW s \in Request, NEW x \in Code, At(s, "store")', Stored(x)',
                 code'[x].purpose = task'[s].purpose
          PROVE  code'[x].by # s
      <3>1. s # r
        BY <2>1, <2>2, <2>4
      <3> QED
        BY <2>1, <2>2, <2>4, <3>1 DEF CodesInv, NoneOfOwn, At
    <2> QED
      BY <2>3, <2>4 DEF CodesInv, NoneOfOwn
  <1>3. ASSUME NEW r \in Request, NEW x \in Code, StoreCode(r, x)  PROVE CodesInv'
    <2>1. /\ At(r, "store")
          /\ code'[x].by = r
          /\ code'[x].purpose = task[r].purpose
          /\ \A y \in Code : y # x => code'[y] = code[y]
      BY <1>3 DEF StoreCode, TypeOK
    <2>2. /\ ~At(r, "store")'
          /\ \A s \in Request : s # r => task'[s] = task[s]
      BY <1>0, <1>3 DEF StoreCode, Finish, Run, TypeOK, At
    <2>3. \A y \in Code : y # x /\ Stored(y)' => Stored(y)
      BY <2>1 DEF Stored
    <2>4. ASSUME NEW y \in Code, NEW z \in Code, Stored(y)', Stored(z)',
                 code'[y].purpose = code'[z].purpose, code'[y].by = code'[z].by
          PROVE  y = z
      <3>1. CASE y # x /\ z # x
        BY <2>1, <2>3, <2>4, <3>1 DEF CodesInv, OneCodePerRequest
      <3>2. CASE y = x /\ z # x
        BY <2>1, <2>3, <2>4, <3>2 DEF CodesInv, NoneOfOwn
      <3>3. CASE y # x /\ z = x
        BY <2>1, <2>3, <2>4, <3>3 DEF CodesInv, NoneOfOwn
      <3> QED
        BY <3>1, <3>2, <3>3
    <2>5. ASSUME NEW s \in Request, NEW y \in Code, At(s, "store")', Stored(y)',
                 code'[y].purpose = task'[s].purpose
          PROVE  code'[y].by # s
      <3>1. s # r /\ At(s, "store") /\ task'[s] = task[s]
        BY <2>2, <2>5 DEF At
      <3>2. CASE y = x
        BY <2>1, <3>1, <3>2
      <3>3. CASE y # x
        BY <2>1, <2>3, <2>5, <3>1, <3>3 DEF CodesInv, NoneOfOwn
      <3> QED
        BY <3>2, <3>3
    <2> QED
      BY <2>4, <2>5 DEF CodesInv, OneCodePerRequest, NoneOfOwn
  <1>4. ASSUME NEW r \in Request, NEW p \in Purpose, FindCode(r, p)  PROVE CodesInv'
    <2>1. PICK x \in Code : Run(r, [Idle EXCEPT !.pc = "mark", !.purpose = p, !.code = x])
      BY <1>4 DEF FindCode, ValidCodes
    <2> QED
      BY <1>4, <2>1, RunNotStore, CodesFrame, IdleTyped DEF FindCode, TypedTask, Task
  <1>5. ASSUME NEW r \in Request, NEW p \in Purpose, MissCode(r, p)  PROVE CodesInv'
    BY <1>5, RunNotStore, CodesFrame, IdleTyped DEF MissCode, TypedTask, Task
  <1>6. ASSUME NEW r \in Request, FindAnyCode(r)  PROVE CodesInv'
    <2>1. ASSUME NEW x \in Code, Run(r, [task[r] EXCEPT !.pc = "count", !.code = x])
          PROVE  CodesInv'
      BY <1>6, <2>1, RunNotStore, CodesFrame DEF FindAnyCode, TypeOK, Task
    <2>2. CASE Finish(r)
      BY <1>0, <1>6, <2>2, RunNotStore, CodesFrame DEF FindAnyCode, Finish
    <2> QED
      BY <1>6, <2>1, <2>2 DEF FindAnyCode
  <1>7. ASSUME NEW r \in Request, IncrementAttempt(r)  PROVE CodesInv'
    <2>1. NoCodeStored
      BY <1>0, <1>7 DEF IncrementAttempt, Finish, Run, NoCodeStored, Stored, At, TypeOK, CodeRow
    <2> QED
      BY <2>1, CodesFrame
  <1>8. ASSUME NEW r \in Request, MarkUsed(r)  PROVE CodesInv'
    <2>1. NoCodeStored
      BY <1>0, <1>8 DEF MarkUsed, Finish, Run, NoCodeStored, Stored, At, TypeOK, CodeRow
    <2> QED
      BY <2>1, CodesFrame
  <1>9. ASSUME NEW x \in Code, ExpireCode(x)  PROVE CodesInv'
    <2>1. NoCodeStored
      BY <1>9 DEF ExpireCode, NoCodeStored, Stored, At, TypeOK, CodeRow, Gone
    <2> QED
      BY <2>1, CodesFrame
  <1>10. ASSUME UNCHANGED <<code, task>>  PROVE CodesInv'
    BY <1>10 DEF CodesInv, OneCodePerRequest, NoneOfOwn, Stored, At
  <1>11. ASSUME NEW r \in Request, CompleteRegistration(r)  PROVE CodesInv'
    BY <1>11, RunNotStore, CodesFrame, IdleTyped DEF CompleteRegistration, TypedTask, Task
  <1>12. ASSUME NEW r \in Request, InsertUser(r)  PROVE CodesInv'
    <2>1. CASE Finish(r)
      BY <1>0, <1>12, <2>1, RunNotStore, CodesFrame DEF InsertUser, Finish
    <2>2. CASE Run(r, [Idle EXCEPT !.pc = "session", !.pin = 1])
      BY <1>12, <2>2, RunNotStore, CodesFrame, IdleTyped DEF InsertUser, TypedTask, Task
    <2> QED
      BY <1>12, <2>1, <2>2 DEF InsertUser
  <1>13. ASSUME NEW r \in Request, LoginWithPin(r)  PROVE CodesInv'
    BY <1>13, RunNotStore, CodesFrame, IdleTyped DEF LoginWithPin, TypedTask, Task
  <1>14. ASSUME NEW r \in Request, RefreshAccessToken(r)  PROVE CodesInv'
    BY <1>14, RunNotStore, CodesFrame, IdleTyped DEF RefreshAccessToken, TypedTask, Task
  <1>15. ASSUME NEW r \in Request, UpdateRefreshToken(r)  PROVE CodesInv'
    BY <1>0, <1>15, RunNotStore, CodesFrame DEF UpdateRefreshToken, Finish
  <1>16. ASSUME NEW r \in Request, ResetPin(r)  PROVE CodesInv'
    BY <1>16, RunNotStore, CodesFrame, IdleTyped DEF ResetPin, TypedTask, Task
  <1>17. ASSUME NEW r \in Request, SavePin(r)  PROVE CodesInv'
    <2>1. NoCodeStored
      BY <1>0, <1>17 DEF SavePin, Overtake, NoCodeStored, Stored, At, TypeOK, Task
    <2> QED
      BY <2>1, CodesFrame
  <1>18. CASE Logout
    <2>1. NoCodeStored
      BY <1>18 DEF Logout, Overtake, NoCodeStored, Stored, At, TypeOK, Task
    <2> QED
      BY <2>1, CodesFrame
  <1>19. ASSUME NEW r \in Request, Abort(r)  PROVE CodesInv'
    BY <1>0, <1>19, RunNotStore, CodesFrame DEF Abort, Finish
  <1>20. CASE UpdateProfile
    <2>1. UNCHANGED code /\ (task' = task \/ task' = Overtake(task))
      BY <1>20 DEF UpdateProfile
    <2>2. NoCodeStored
      BY <2>1 DEF Overtake, NoCodeStored, Stored, At, TypeOK, Task
    <2> QED
      BY <2>2, CodesFrame
  <1> QED
    BY <1>1, <1>2, <1>3, <1>4, <1>5, <1>6, <1>7, <1>8, <1>9, <1>10, <1>11, <1>12, <1>13,
       <1>14, <1>15, <1>16, <1>17, <1>18, <1>19, <1>20
    DEF Next, vars, SendRegistrationOTP, SendForgotPinOTP, VerifyRegistrationPhone,
        VerifyForgotPinOTP, DeactivateUser, ActivateUser, SetActive, ExpireToken, Purpose

\* Two live or used codes of one purpose were made by requests that overlapped: each code
\* made alone replaces those before it, for any number of requests and codes.
THEOREM OneCodePerRequestHolds == Spec => []OneCodePerRequest
  <1>1. CodesInv => OneCodePerRequest
    BY DEF CodesInv
  <1> QED
    BY <1>1, TypeInit, TypeStep, CodesInit, CodesStep, PTL DEF Spec

-----------------------------------------------------------------------------
(* Evidence.  What a request is about to write was allowed by a token when *)
(* it began, and a token by a code that was accepted.                      *)

Backed(t, purposes, exists) ==
    /\ t.pc = "insert" => "registration" \in purposes
    /\ t.pc = "save" => "reset_pin" \in purposes
    /\ t.pc = "session" => exists /\ (t.pin > 1 => "reset_pin" \in purposes)

\* The tokens clients were given are of an account that exists, and of PINs it has had.
Handed ==
    /\ given # {} => account.exists
    /\ \A n \in given : n > 1 => "reset_pin" \in accepted

EvidenceInv ==
    /\ PinsVerified
    /\ Handed
    /\ token \subseteq accepted
    /\ \A r \in Request : Backed(task[r], accepted, account.exists)

\* A step that takes back no evidence and runs r with a task that has its own.
LEMMA RunBacked ==
  ASSUME TypeOK, EvidenceInv, NEW r \in Request, NEW t, Run(r, t),
         Backed(t, accepted', account'.exists),
         accepted \subseteq accepted', token' \subseteq accepted',
         account.exists => account'.exists, PinsVerified', UNCHANGED given \/ Handed'
  PROVE  EvidenceInv'
  <1>1. \A s \in Request : Backed(task'[s], accepted', account'.exists)
    BY DEF EvidenceInv, Backed, Run, TypeOK
  <1>2. Handed'
    BY DEF EvidenceInv, Handed
  <1> QED
    BY <1>1, <1>2 DEF EvidenceInv, Backed

LEMMA IdleBacked == \A P, e : Backed(Idle, P, e)
  BY DEF Backed, Idle

\* Overtaking a task leaves it its evidence.
LEMMA OvertakeBacked ==
  ASSUME TypeOK, NEW u \in [Request -> Task],
         \A r \in Request : Backed(u[r], accepted, account.exists),
         task' = Overtake(u), UNCHANGED <<token, accepted, given>>, Handed,
         token \subseteq accepted, account'.exists = account.exists, PinsVerified'
  PROVE  EvidenceInv'
  <1>1. \A r \in Request : task'[r].pc = u[r].pc /\ task'[r].pin = u[r].pin
    BY DEF Overtake, Task
  <1>2. \A r \in Request : Backed(task'[r], accepted', account'.exists)
    BY <1>1 DEF Backed
  <1>3. Handed'
    BY DEF Handed
  <1> QED
    BY <1>2, <1>3 DEF EvidenceInv, Backed

LEMMA EvidenceInit == Init => EvidenceInv
  <1> SUFFICES ASSUME Init PROVE EvidenceInv
    OBVIOUS
  <1>1. PinsVerified /\ Handed /\ token \subseteq accepted
    BY DEF Init, PinsVerified, Handed, NoAccount, NoSession
  <1>2. \A r \in Request : task[r] = Idle
    BY DEF Init
  <1> QED
    BY <1>1, <1>2, IdleBacked DEF EvidenceInv

LEMMA EvidenceStep ==
  ASSUME TypeOK, EvidenceInv, [Next]_vars
  PROVE  EvidenceInv'
  <1>0. /\ Idle.pc = "idle"
        /\ token \subseteq accepted
        /\ PinsVerified
        /\ Handed
    BY DEF Idle, EvidenceInv
  <1>a. UNCHANGED <<accepted, account>> => PinsVerified'
    BY <1>0 DEF PinsVerified
  <1>1. ASSUME NEW r \in Request, NEW p \in Purpose, SendOTP(r, p)  PROVE EvidenceInv'
    <2>1. Backed([Idle EXCEPT !.pc = "drop", !.purpose = p], accepted', account'.exists)
      BY IdleTyped DEF Backed, TypedTask, Task
    <2> QED
      BY <1>0, <1>a, <1>1, <2>1, RunBacked DEF SendOTP
  <1>2. ASSUME NEW r \in Request, DropCodes(r)  PROVE EvidenceInv'
    <2>1. Backed([task[r] EXCEPT !.pc = "store"], accepted', account'.exists)
      BY DEF Backed, TypeOK, Task
    <2> QED
      BY <1>0, <1>a, <1>2, <2>1, RunBacked DEF DropCodes
  <1>3. ASSUME NEW r \in Request, NEW x \in Code, StoreCode(r, x)  PROVE EvidenceInv'
    BY <1>0, <1>a, <1>3, IdleBacked, RunBacked DEF StoreCode, Finish
  <1>4. ASSUME NEW r \in Request, NEW p \in Purpose, FindCode(r, p)  PROVE EvidenceInv'
    <2>1. PICK x \in Code : Run(r, [Idle EXCEPT !.pc = "mark", !.purpose = p, !.code = x])
      BY <1>4 DEF FindCode, ValidCodes
    <2>2. Backed([Idle EXCEPT !.pc = "mark", !.purpose = p, !.code = x],
                 accepted', account'.exists)
      BY IdleTyped DEF Backed, TypedTask, Task
    <2> QED
      BY <1>0, <1>a, <1>4, <2>1, <2>2, RunBacked DEF FindCode
  <1>5. ASSUME NEW r \in Request, NEW p \in Purpose, MissCode(r, p)  PROVE EvidenceInv'
    <2>1. Backed([Idle EXCEPT !.pc = "any", !.purpose = p], accepted', account'.exists)
      BY IdleTyped DEF Backed, TypedTask, Task
    <2> QED
      BY <1>0, <1>a, <1>5, <2>1, RunBacked DEF MissCode
  <1>6. ASSUME NEW r \in Request, FindAnyCode(r)  PROVE EvidenceInv'
    <2>1. ASSUME NEW x \in Code, Run(r, [task[r] EXCEPT !.pc = "count", !.code = x])
          PROVE  EvidenceInv'
      <3>1. Backed([task[r] EXCEPT !.pc = "count", !.code = x], accepted', account'.exists)
        BY DEF Backed, TypeOK, Task
      <3> QED
        BY <1>0, <1>a, <1>6, <2>1, <3>1, RunBacked DEF FindAnyCode
    <2>2. CASE Finish(r)
      BY <1>0, <1>a, <1>6, <2>2, IdleBacked, RunBacked DEF FindAnyCode, Finish
    <2> QED
      BY <1>6, <2>1, <2>2 DEF FindAnyCode
  <1>7. ASSUME NEW r \in Request, IncrementAttempt(r)  PROVE EvidenceInv'
    BY <1>0, <1>a, <1>7, IdleBacked, RunBacked DEF IncrementAttempt, Finish
  <1>8. ASSUME NEW r \in Request, MarkUsed(r)  PROVE EvidenceInv'
    <2>1. PinsVerified'
      BY <1>0, <1>8 DEF MarkUsed, PinsVerified
    <2> QED
      BY <1>0, <1>8, <2>1, IdleBacked, RunBacked DEF MarkUsed, Finish
  <1>9. ASSUME NEW p \in Purpose, ExpireToken(p)  PROVE EvidenceInv'
    BY <1>0, <1>a, <1>9 DEF ExpireToken, EvidenceInv, Handed
  <1>10. ASSUME NEW r \in Request, CompleteRegistration(r)  PROVE EvidenceInv'
    <2>1. Backed([Idle EXCEPT !.pc = "insert"], accepted', account'.exists)
      BY <1>0, <1>10, IdleTyped DEF CompleteRegistration, Backed, TypedTask, Task
    <2> QED
      BY <1>0, <1>a, <1>10, <2>1, RunBacked DEF CompleteRegistration
  <1>11. ASSUME NEW r \in Request, InsertUser(r)  PROVE EvidenceInv'
    <2>1. CASE Finish(r) /\ UNCHANGED account
      BY <1>0, <1>a, <1>11, <2>1, IdleBacked, RunBacked DEF InsertUser, Finish
    <2>2. CASE /\ account' = [exists |-> TRUE, isActive |-> TRUE, pin |-> 1,
                              session |-> NoSession]
               /\ Run(r, [Idle EXCEPT !.pc = "session", !.pin = 1])
      <3>1. Backed([Idle EXCEPT !.pc = "session", !.pin = 1], accepted', account'.exists)
        BY <2>2, IdleTyped DEF Backed, TypedTask, Task
      <3>2. "registration" \in accepted'
        BY <1>11 DEF InsertUser, EvidenceInv, Backed, At
      <3>3. PinsVerified'
        BY <2>2, <3>2 DEF PinsVerified, NoSession
      <3> QED
        BY <1>0, <1>11, <2>2, <3>1, <3>3, RunBacked DEF InsertUser
    <2> QED
      BY <1>11, <2>1, <2>2 DEF InsertUser
  <1>12. ASSUME NEW r \in Request, LoginWithPin(r)  PROVE EvidenceInv'
    <2>1. Backed([Idle EXCEPT !.pc = "session", !.pin = account.pin], accepted', account'.exists)
      BY <1>0, <1>12, IdleTyped DEF LoginWithPin, PinsVerified, Backed, TypedTask, Task
    <2> QED
      BY <1>0, <1>a, <1>12, <2>1, RunBacked DEF LoginWithPin
  <1>13. ASSUME NEW r \in Request, RefreshAccessToken(r)  PROVE EvidenceInv'
    <2>1. Backed([Idle EXCEPT !.pc = "session", !.pin = account.session.pin,
                      !.refreshing = TRUE, !.origin = account.session.origin],
                 accepted', account'.exists)
      BY <1>0, <1>13, IdleTyped DEF RefreshAccessToken, PinsVerified, Backed, TypedTask, Task
    <2> QED
      BY <1>0, <1>a, <1>13, <2>1, RunBacked DEF RefreshAccessToken
  <1>14. ASSUME NEW r \in Request, UpdateRefreshToken(r)  PROVE EvidenceInv'
    <2>1. /\ account'.exists = account.exists
          /\ account'.pin = account.pin
          /\ account'.session.pin = task[r].pin
      BY <1>14 DEF UpdateRefreshToken, TypeOK, Account
    <2>2. account.exists /\ (task[r].pin > 1 => "reset_pin" \in accepted)
      BY <1>14 DEF UpdateRefreshToken, EvidenceInv, Backed, At
    <2>3. PinsVerified'
      BY <1>0, <1>14, <2>1, <2>2 DEF UpdateRefreshToken, PinsVerified
    <2>4. Handed'
      BY <1>0, <1>14, <2>1, <2>2 DEF UpdateRefreshToken, Handed
    <2> QED
      BY <1>0, <1>14, <2>1, <2>3, <2>4, IdleBacked, RunBacked DEF UpdateRefreshToken, Finish
  <1>15. ASSUME NEW r \in Request, ResetPin(r)  PROVE EvidenceInv'
    <2>1. Backed([Idle EXCEPT !.pc = "save"], accepted', account'.exists)
      BY <1>0, <1>15, IdleTyped DEF ResetPin, Backed, TypedTask, Task
    <2> QED
      BY <1>0, <1>a, <1>15, <2>1, RunBacked DEF ResetPin
  <1>16. ASSUME NEW r \in Request, SavePin(r)  PROVE EvidenceInv'
    <2>1. "reset_pin" \in accepted'
      BY <1>16 DEF SavePin, EvidenceInv, Backed, At
    <2>2. account'.exists = account.exists /\ account'.session = NoSession
      BY <1>16 DEF SavePin, TypeOK, Account
    <2>3. PinsVerified'
      BY <1>0, <1>16, <2>1, <2>2 DEF SavePin, PinsVerified, NoSession
    <2>4. /\ [task EXCEPT ![r] = Idle] \in [Request -> Task]
          /\ \A s \in Request : Backed([task EXCEPT ![r] = Idle][s], accepted, account.exists)
      BY IdleTyped, IdleBacked DEF TypedTask, TypeOK, EvidenceInv
    <2>5. task' = Overtake([task EXCEPT ![r] = Idle]) /\ UNCHANGED <<token, accepted, given>>
      BY <1>16 DEF SavePin
    <2> QED
      BY <1>0, <2>2, <2>3, <2>4, <2>5, OvertakeBacked
  <1>17. CASE Logout
    <2>1. /\ account'.exists = account.exists
          /\ account'.pin = account.pin
          /\ account'.session = NoSession
      BY <1>17 DEF Logout, TypeOK, Account
    <2>2. PinsVerified'
      BY <1>0, <1>17, <2>1 DEF Logout, PinsVerified, NoSession
    <2>3. task \in [Request -> Task] /\ \A s \in Request : Backed(task[s], accepted, account.exists)
      BY DEF TypeOK, EvidenceInv
    <2>4. task' = Overtake(task) /\ UNCHANGED <<token, accepted, given>>
      BY <1>17 DEF Logout
    <2> QED
      BY <1>0, <2>1, <2>2, <2>3, <2>4, OvertakeBacked
  <1>18. ASSUME NEW active \in BOOLEAN, SetActive(active)  PROVE EvidenceInv'
    <2>1. /\ account'.exists = account.exists
          /\ account'.pin = account.pin
          /\ account'.session = account.session
      BY <1>18 DEF SetActive, TypeOK, Account
    <2> QED
      BY <1>18, <2>1 DEF SetActive, EvidenceInv, PinsVerified, Handed
  <1>19. ASSUME NEW r \in Request, Abort(r)  PROVE EvidenceInv'
    BY <1>0, <1>a, <1>19, IdleBacked, RunBacked DEF Abort, Finish
  <1>20. CASE UpdateProfile
    <2>1. PICK active \in BOOLEAN, session \in {account.session, NoSession} \cup Chosen :
             /\ account' = [account EXCEPT !.isActive = active, !.session = session]
             /\ task' = IF session.live THEN task ELSE Overtake(task)
      BY <1>20 DEF UpdateProfile
    <2>2. /\ account'.exists = account.exists
          /\ account'.pin = account.pin
          /\ account'.session = session
          /\ UNCHANGED <<token, accepted, given>>
      BY <1>20, <2>1 DEF UpdateProfile, TypeOK, Account
    <2>3. account.exists
      BY <1>0, <1>20 DEF UpdateProfile, Handed
    <2>4. session.pin > 1 => "reset_pin" \in accepted
      BY <1>0 DEF Chosen, NoSession, PinsVerified, Handed
    <2>5. PinsVerified'
      BY <1>0, <2>2, <2>3, <2>4 DEF PinsVerified
    <2>6. CASE task' = task
      BY <2>2, <2>5, <2>6 DEF EvidenceInv, Handed
    <2>7. CASE task' = Overtake(task)
      <3>1. /\ task \in [Request -> Task]
            /\ \A s \in Request : Backed(task[s], accepted, account.exists)
        BY DEF TypeOK, EvidenceInv
      <3> QED
        BY <1>0, <2>2, <2>5, <2>7, <3>1, OvertakeBacked
    <2> QED
      BY <2>1, <2>6, <2>7
  <1>21. CASE UNCHANGED <<token, accepted, given, account, task>>
    BY <1>21 DEF EvidenceInv, PinsVerified, Handed
  <1> QED
    BY <1>1, <1>2, <1>3, <1>4, <1>5, <1>6, <1>7, <1>8, <1>9, <1>10, <1>11, <1>12, <1>13,
       <1>14, <1>15, <1>16, <1>17, <1>18, <1>19, <1>20, <1>21
    DEF Next, vars, SendRegistrationOTP, SendForgotPinOTP, VerifyRegistrationPhone,
        VerifyForgotPinOTP, DeactivateUser, ActivateUser, ExpireCode, Purpose

\* No account without an accepted code, no second PIN and no session under one without a code
\* accepted for a reset, however many requests race and fail.
THEOREM PinsVerifiedHolds == Spec => []PinsVerified
  <1>1. EvidenceInv => PinsVerified
    BY DEF EvidenceInv
  <1> QED
    BY <1>1, TypeInit, TypeStep, EvidenceInit, EvidenceStep, PTL DEF Spec

-----------------------------------------------------------------------------
(* Sessions.  A request about to store a session has the PIN of today, or  *)
(* its token was chosen, and if it refreshes the session is still there,   *)
(* unless it was overtaken.                                                *)

Current(t, acc) ==
    t.pc = "session" /\ t.origin # "overtaken" =>
        /\ t.origin # "chosen" => t.pin = acc.pin
        /\ t.refreshing => acc.session.live

SessionInv ==
    /\ OldSessionExplained
    /\ \A r \in Request : Current(task[r], account)

\* Whatever is current of one account is of another with its PIN and with its session.
LEMMA CurrentKept ==
  ASSUME NEW t, NEW a, NEW b, Current(t, a), b.pin = a.pin, a.session.live => b.session.live
  PROVE  Current(t, b)
  BY DEF Current

LEMMA RunCurrent ==
  ASSUME TypeOK, SessionInv, NEW r \in Request, NEW t, Run(r, t), Current(t, account'),
         account'.pin = account.pin, account.session.live => account'.session.live,
         OldSessionExplained'
  PROVE  SessionInv'
  <1>1. \A s \in Request : Current(task'[s], account')
    BY CurrentKept DEF SessionInv, Run, TypeOK
  <1> QED
    BY <1>1 DEF SessionInv, Current

\* Once all that were about to store a session are overtaken, the account may be anything.
LEMMA OvertakeCurrent ==
  ASSUME NEW u \in [Request -> Task], task' = Overtake(u), ~account'.session.live
  PROVE  SessionInv'
  <1>1. \A r \in Request : task'[r].pc = "session" => task'[r].origin = "overtaken"
    BY DEF Overtake, Task
  <1>2. OldSessionExplained'
    BY DEF OldSessionExplained
  <1> QED
    BY <1>1, <1>2 DEF SessionInv, Current

LEMMA RunElsewhere ==
  ASSUME TypeOK, SessionInv, NEW r \in Request, NEW t, Run(r, t), t.pc # "session",
         UNCHANGED account
  PROVE  SessionInv'
  BY RunCurrent DEF Current, SessionInv, OldSessionExplained

LEMMA SessionInit == Init => SessionInv
  <1> SUFFICES ASSUME Init PROVE SessionInv
    OBVIOUS
  <1>1. OldSessionExplained
    BY DEF Init, OldSessionExplained, NoAccount, NoSession
  <1>2. \A r \in Request : task[r].pc = "idle"
    BY DEF Init, Idle
  <1> QED
    BY <1>1, <1>2 DEF SessionInv, Current

LEMMA SessionStep ==
  ASSUME TypeOK, EvidenceInv, SessionInv, [Next]_vars
  PROVE  SessionInv'
  <1>0. Idle.pc = "idle"
    BY DEF Idle
  <1>1. ASSUME NEW r \in Request, NEW p \in Purpose, SendOTP(r, p)  PROVE SessionInv'
    BY <1>1, RunElsewhere, IdleTyped DEF SendOTP, TypedTask, Task
  <1>2. ASSUME NEW r \in Request, DropCodes(r)  PROVE SessionInv'
    BY <1>2, RunElsewhere DEF DropCodes, TypeOK, Task
  <1>3. ASSUME NEW r \in Request, NEW x \in Code, StoreCode(r, x)  PROVE SessionInv'
    BY <1>0, <1>3, RunElsewhere DEF StoreCode, Finish
  <1>4. ASSUME NEW r \in Request, NEW p \in Purpose, FindCode(r, p)  PROVE SessionInv'
    <2>1. PICK x \in Code : Run(r, [Idle EXCEPT !.pc = "mark", !.purpose = p, !.code = x])
      BY <1>4 DEF FindCode, ValidCodes
    <2> QED
      BY <1>4, <2>1, RunElsewhere, IdleTyped DEF FindCode, TypedTask, Task
  <1>5. ASSUME NEW r \in Request, NEW p \in Purpose, MissCode(r, p)  PROVE SessionInv'
    BY <1>5, RunElsewhere, IdleTyped DEF MissCode, TypedTask, Task
  <1>6. ASSUME NEW r \in Request, FindAnyCode(r)  PROVE SessionInv'
    <2>1. ASSUME NEW x \in Code, Run(r, [task[r] EXCEPT !.pc = "count", !.code = x])
          PROVE  SessionInv'
      BY <1>6, <2>1, RunElsewhere DEF FindAnyCode, TypeOK, Task
    <2>2. CASE Finish(r)
      BY <1>0, <1>6, <2>2, RunElsewhere DEF FindAnyCode, Finish
    <2> QED
      BY <1>6, <2>1, <2>2 DEF FindAnyCode
  <1>7. ASSUME NEW r \in Request, IncrementAttempt(r)  PROVE SessionInv'
    BY <1>0, <1>7, RunElsewhere DEF IncrementAttempt, Finish
  <1>8. ASSUME NEW r \in Request, MarkUsed(r)  PROVE SessionInv'
    BY <1>0, <1>8, RunElsewhere DEF MarkUsed, Finish
  <1>9. ASSUME NEW r \in Request, CompleteRegistration(r)  PROVE SessionInv'
    BY <1>9, RunElsewhere, IdleTyped DEF CompleteRegistration, TypedTask, Task
  <1>10. ASSUME NEW r \in Request, InsertUser(r)  PROVE SessionInv'
    <2>1. CASE Finish(r) /\ UNCHANGED account
      BY <1>0, <2>1, RunElsewhere DEF Finish
    <2>2. CASE /\ account' = [exists |-> TRUE, isActive |-> TRUE, pin |-> 1,
                              session |-> NoSession]
               /\ ~account.exists
               /\ Run(r, [Idle EXCEPT !.pc = "session", !.pin = 1])
      <3>1. account'.pin = 1 /\ ~account'.session.live
        BY <2>2 DEF NoSession
      <3>2. \A s \in Request : ~At(s, "session")
        BY <2>2 DEF EvidenceInv, Backed, At
      <3>3. \A s \in Request : s # r => task'[s] = task[s]
        BY <2>2 DEF Run, TypeOK
      <3>4. task'[r].pin = 1 /\ ~task'[r].refreshing
        BY <2>2 DEF Run, TypeOK, Idle
      <3>5. \A s \in Request : Current(task'[s], account')
        BY <3>1, <3>2, <3>3, <3>4 DEF Current, At
      <3> QED
        BY <3>1, <3>5 DEF SessionInv, OldSessionExplained, Current
    <2> QED
      BY <1>10, <2>1, <2>2 DEF InsertUser
  <1>11. ASSUME NEW r \in Request, LoginWithPin(r)  PROVE SessionInv'
    <2>1. Current([Idle EXCEPT !.pc = "session", !.pin = account.pin], account')
      BY <1>11 DEF LoginWithPin, Current, Idle
    <2> QED
      BY <1>11, <2>1, RunCurrent DEF LoginWithPin, SessionInv, OldSessionExplained
  <1>12. ASSUME NEW r \in Request, RefreshAccessToken(r)  PROVE SessionInv'
    <2>1. Current([Idle EXCEPT !.pc = "session", !.pin = account.session.pin,
                      !.refreshing = TRUE, !.origin = account.session.origin], account')
      BY <1>12, IdleTyped
      DEF RefreshAccessToken, Current, SessionInv, OldSessionExplained, TypedTask, Task, TypeOK,
          Account, Session, Origin
    <2> QED
      BY <1>12, <2>1, RunCurrent DEF RefreshAccessToken, SessionInv, OldSessionExplained
  <1>13. ASSUME NEW r \in Request, UpdateRefreshToken(r)  PROVE SessionInv'
    <2>1. /\ account'.pin = account.pin
          /\ account'.session = [live |-> TRUE, pin |-> task[r].pin,
                                 origin |-> task[r].origin]
      BY <1>13 DEF UpdateRefreshToken, TypeOK, Account
    <2>2. task[r].origin \notin {"overtaken", "chosen"} => task[r].pin = account.pin
      BY <1>13 DEF UpdateRefreshToken, SessionInv, Current, At
    <2>3. OldSessionExplained'
      BY <2>1, <2>2 DEF OldSessionExplained
    <2> QED
      BY <1>0, <1>13, <2>1, <2>3, RunCurrent DEF UpdateRefreshToken, Finish, Current
  <1>14. ASSUME NEW r \in Request, ResetPin(r)  PROVE SessionInv'
    BY <1>14, RunElsewhere, IdleTyped DEF ResetPin, TypedTask, Task
  <1>15. ASSUME NEW r \in Request, SavePin(r)  PROVE SessionInv'
    <2>1. ~account'.session.live
      BY <1>15 DEF SavePin, TypeOK, Account, NoSession
    <2>2. [task EXCEPT ![r] = Idle] \in [Request -> Task]
      BY IdleTyped DEF TypedTask, TypeOK
    <2>3. task' = Overtake([task EXCEPT ![r] = Idle])
      BY <1>15 DEF SavePin
    <2> QED
      BY <2>1, <2>2, <2>3, OvertakeCurrent
  <1>16. CASE Logout
    <2>1. ~account'.session.live
      BY <1>16 DEF Logout, TypeOK, Account, NoSession
    <2>2. task \in [Request -> Task] /\ task' = Overtake(task)
      BY <1>16 DEF Logout, TypeOK
    <2> QED
      BY <2>1, <2>2, OvertakeCurrent
  <1>17. ASSUME NEW active \in BOOLEAN, SetActive(active)  PROVE SessionInv'
    <2>1. account'.pin = account.pin /\ account'.session = account.session
      BY <1>17 DEF SetActive, TypeOK, Account
    <2> QED
      BY <1>17, <2>1 DEF SetActive, SessionInv, OldSessionExplained, Current
  <1>18. ASSUME NEW r \in Request, Abort(r)  PROVE SessionInv'
    BY <1>0, <1>18, RunElsewhere DEF Abort, Finish
  <1>19. CASE UpdateProfile
    <2>1. PICK active \in BOOLEAN, session \in {account.session, NoSession} \cup Chosen :
             /\ account' = [account EXCEPT !.isActive = active, !.session = session]
             /\ task' = IF session.live THEN task ELSE Overtake(task)
      BY <1>19 DEF UpdateProfile
    <2>2. account'.pin = account.pin /\ account'.session = session
      BY <2>1 DEF TypeOK, Account
    <2>3. CASE session.live
      <3>1. session = account.session \/ session.origin = "chosen"
        BY <2>3 DEF NoSession, Chosen
      <3>2. OldSessionExplained'
        BY <2>2, <3>1 DEF SessionInv, OldSessionExplained
      <3>3. \A r \in Request : Current(task'[r], account')
        <4>1. task' = task /\ account'.session.live
          BY <2>1, <2>2, <2>3
        <4> QED
          BY <2>2, <4>1, CurrentKept DEF SessionInv
      <3> QED
        BY <3>2, <3>3 DEF SessionInv, Current
    <2>4. CASE ~session.live
      BY <2>1, <2>2, <2>4, OvertakeCurrent DEF TypeOK
    <2> QED
      BY <2>3, <2>4
  <1>20. CASE UNCHANGED <<account, task>>
    BY <1>20 DEF SessionInv, OldSessionExplained, Current
  <1> QED
    BY <1>1, <1>2, <1>3, <1>4, <1>5, <1>6, <1>7, <1>8, <1>9, <1>10, <1>11, <1>12, <1>13,
       <1>14, <1>15, <1>16, <1>17, <1>18, <1>19, <1>20
    DEF Next, vars, SendRegistrationOTP, SendForgotPinOTP, VerifyRegistrationPhone,
        VerifyForgotPinOTP, DeactivateUser, ActivateUser, ExpireCode, ExpireToken, Purpose

\* Only a request that was under way when a PIN was reset, a client that stores an old token in
\* its profile, or a session descended from these, can leave a session under an earlier PIN.
THEOREM OldSessionExplainedHolds == Spec => []OldSessionExplained
  <1>1. SessionInv => OldSessionExplained
    BY DEF SessionInv
  <1> QED
    BY <1>1, TypeInit, TypeStep, EvidenceInit, EvidenceStep, SessionInit, SessionStep, PTL DEF Spec

-----------------------------------------------------------------------------
(* What a step may do to the account *)

\* The steps that change it.
AccountStep ==
    \/ \E r \in Request : InsertUser(r) \/ UpdateRefreshToken(r) \/ SavePin(r)
    \/ Logout
    \/ UpdateProfile
    \/ \E active \in BOOLEAN : SetActive(active)

LEMMA AccountChanges ==
  ASSUME [Next]_vars
  PROVE  AccountStep \/ UNCHANGED account
  <1>1. CASE UNCHANGED vars
    BY <1>1 DEF vars
  <1>2. ASSUME NEW r \in Request,
               \/ SendRegistrationOTP(r)
               \/ SendForgotPinOTP(r)
               \/ DropCodes(r)
               \/ \E x \in Code : StoreCode(r, x)
               \/ VerifyRegistrationPhone(r)
               \/ VerifyForgotPinOTP(r)
               \/ FindAnyCode(r)
               \/ IncrementAttempt(r)
               \/ MarkUsed(r)
               \/ CompleteRegistration(r)
               \/ LoginWithPin(r)
               \/ RefreshAccessToken(r)
               \/ ResetPin(r)
               \/ Abort(r)
        PROVE  UNCHANGED account
    BY <1>2 DEF SendRegistrationOTP, SendForgotPinOTP, SendOTP, DropCodes, StoreCode,
                VerifyRegistrationPhone, VerifyForgotPinOTP, FindCode, MissCode, FindAnyCode,
                IncrementAttempt, MarkUsed, CompleteRegistration, LoginWithPin,
                RefreshAccessToken, ResetPin, Abort
  <1>3. ASSUME (\E x \in Code : ExpireCode(x)) \/ (\E p \in Purpose : ExpireToken(p))
        PROVE  UNCHANGED account
    BY <1>3 DEF ExpireCode, ExpireToken
  <1> QED
    BY <1>1, <1>2, <1>3 DEF Next, AccountStep, DeactivateUser, ActivateUser

Reopened ==
    \/ \E r \in Request : At(r, "session") /\ (task[r].refreshing => task[r].origin = "overtaken")
    \/ account'.session \in Chosen

LEMMA SessionRestored ==
  ASSUME TypeOK, SessionInv, AccountStep, ~account.session.live, account'.session.live
  PROVE  Reopened
  <1>1. ASSUME NEW r \in Request, InsertUser(r)  PROVE FALSE
    BY <1>1 DEF InsertUser, NoSession
  <1>2. ASSUME NEW r \in Request, UpdateRefreshToken(r)
        PROVE  At(r, "session") /\ (task[r].refreshing => task[r].origin = "overtaken")
    BY <1>2 DEF UpdateRefreshToken, SessionInv, Current, At
  <1>3. ASSUME NEW r \in Request, SavePin(r)  PROVE FALSE
    BY <1>3 DEF SavePin, NoSession, TypeOK, Account
  <1>4. CASE Logout
    BY <1>4 DEF Logout, NoSession, TypeOK, Account
  <1>5. ASSUME NEW active \in BOOLEAN, SetActive(active)  PROVE FALSE
    BY <1>5 DEF SetActive, TypeOK, Account
  <1>6. CASE UpdateProfile
    <2>1. PICK active \in BOOLEAN, session \in {account.session, NoSession} \cup Chosen :
             account' = [account EXCEPT !.isActive = active, !.session = session]
      BY <1>6 DEF UpdateProfile
    <2>2. account'.session = session
      BY <2>1 DEF TypeOK, Account
    <2> QED
      BY <2>2 DEF NoSession, Reopened
  <1> QED
    BY <1>1, <1>2, <1>3, <1>4, <1>5, <1>6 DEF AccountStep, Reopened

\* A refresh that compares its token after the session was ended does not restore it, and a
\* profile update only with a token that was handed out before.
THEOREM SessionsStayEndedHolds == Spec => SessionsStayEnded
  <1>1. ASSUME TypeOK, SessionInv, [Next]_vars
        PROVE  [~account.session.live /\ account'.session.live => Reopened]_vars
    BY <1>1, AccountChanges, SessionRestored
  <1> QED
    BY <1>1, TypeInit, TypeStep, EvidenceInit, EvidenceStep, SessionInit, SessionStep, PTL
    DEF Spec, SessionsStayEnded, Reopened

LEMMA PinChanged ==
  ASSUME TypeOK, AccountStep, account.exists, account'.pin # account.pin
  PROVE  \E r \in Request : At(r, "save")
  <1>1. ASSUME NEW r \in Request, InsertUser(r)  PROVE FALSE
    BY <1>1 DEF InsertUser
  <1>2. ASSUME NEW r \in Request, UpdateRefreshToken(r)  PROVE FALSE
    BY <1>2 DEF UpdateRefreshToken, TypeOK, Account
  <1>3. ASSUME NEW r \in Request, SavePin(r)  PROVE At(r, "save")
    BY <1>3 DEF SavePin
  <1>4. CASE Logout
    BY <1>4 DEF Logout, TypeOK, Account
  <1>5. ASSUME NEW active \in BOOLEAN, SetActive(active)  PROVE FALSE
    BY <1>5 DEF SetActive, TypeOK, Account
  <1>6. CASE UpdateProfile
    BY <1>6 DEF UpdateProfile, TypeOK, Account
  <1> QED
    BY <1>1, <1>2, <1>3, <1>4, <1>5, <1>6 DEF AccountStep

\* However many registrations of the phone were let in before the first was stored, none but
\* a reset changes the PIN of its account.
THEOREM PinOnlyByResetHolds == Spec => PinOnlyByReset
  <1>1. ASSUME TypeOK, [Next]_vars
        PROVE  [account.exists /\ account'.pin # account.pin
                => \E r \in Request : At(r, "save")]_vars
    BY <1>1, AccountChanges, PinChanged
  <1> QED
    BY <1>1, TypeInit, TypeStep, PTL DEF Spec, PinOnlyByReset

=============================================================================
