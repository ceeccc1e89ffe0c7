-------------------------------- MODULE Auth --------------------------------
(***************************************************************************)
(* auth.service.ts for one phone number: one-time passwords, registration, *)
(* login, PIN reset and the refresh-token session, and the profile update  *)
(* of user.service.ts, which may store a token too.  A request is a task   *)
(* that runs from one awaited database operation to the next; between two  *)
(* of its operations any other request may run.  The codes are documents   *)
(* of the otps collection, the account is the document of the user.  The   *)
(* texting of a code is left to JobQueue.                                  *)
(***************************************************************************)
EXTENDS Integers

CONSTANTS
    Request,        \* the slots for requests in flight
    Code,           \* identities of one-time passwords; bounds how many are made
    MaxAttempts,    \* failed tries after which a code is locked: 5 in the code
    MaxPins,        \* bound: how many PINs the account has in turn
    Faults,         \* whether an operation may fail, or its process die
    None

ASSUME AuthAssumption ==
    /\ MaxAttempts \in Nat \ {0}
    /\ MaxPins \in Nat \ {0}
    /\ Faults \in BOOLEAN
    /\ None \notin Code

Purpose == {"registration", "reset_pin"}

VARIABLES
    code,       \* code[x]: the document of the code x
    token,      \* the purposes for which an unexpired token is out
    accepted,   \* ghost: the purposes for which a code has ever been accepted
    given,      \* the PINs under which tokens were handed out to given
    account,    \* the user document of this phone
    task        \* task[r]: the operation r has issued and what it uses after it

vars == <<code, token, accepted, given, account, task>>

-----------------------------------------------------------------------------
(* Rows.  A failed try past the limit changes nothing the code asks about, *)
(* so failures stops there.  by is a ghost: the slot that stored the code. *)
(* The PINs are numbered; a session carries the number its request read,   *)
(* and its origin, a ghost: whether that request was overtaken by the end  *)
(* of the session, or the client chose the token, in a profile update.     *)

CodeRow == [state    : {"unmade", "live", "used", "gone"},
            purpose  : Purpose,
            failures : 0..MaxAttempts,
            by       : Request \cup {None}]

Unmade == [state |-> "unmade", purpose |-> "registration", failures |-> 0, by |-> None]
Gone   == [Unmade EXCEPT !.state = "gone"]

Origin == {"regular", "overtaken", "chosen"}

Session == [live : BOOLEAN, pin : 0..MaxPins, origin : Origin]
NoSession == [live |-> FALSE, pin |-> 0, origin |-> "regular"]

\* The phone is the key of the unique index: there is one account or none.
Account == [exists : BOOLEAN, isActive : BOOLEAN, pin : 0..MaxPins, session : Session]
NoAccount == [exists |-> FALSE, isActive |-> FALSE, pin |-> 0, session |-> NoSession]

Pc == {"idle", "drop", "store", "any", "count", "mark", "insert", "session", "save"}

Task == [pc : Pc, purpose : Purpose, code : Code \cup {None}, pin : 0..MaxPins,
         refreshing : BOOLEAN, origin : Origin]
Idle == [pc |-> "idle", purpose |-> "registration", code |-> None, pin |-> 0,
         refreshing |-> FALSE, origin |-> "regular"]

Init ==
    /\ code = [x \in Code |-> Unmade]
    /\ token = {}
    /\ accepted = {}
    /\ given = {}
    /\ account = NoAccount
    /\ task = [r \in Request |-> Idle]

At(r, l) == task[r].pc = l
Run(r, t) == task' = [task EXCEPT ![r] = t]
Finish(r) == Run(r, Idle)

Stored(x) == code[x].state \in {"live", "used"}

-----------------------------------------------------------------------------
(* One-time passwords *)

\* The user is looked up: registering needs a phone without account, a reset one with.
SendOTP(r, p) ==
    /\ At(r, "idle")
    /\ account.exists = (p = "reset_pin")
    /\ Run(r, [Idle EXCEPT !.pc = "drop", !.purpose = p])
    /\ UNCHANGED <<code, token, accepted, given, account>>

\* Mutant: used codes only are thrown away.
DropCodesUsed(r) ==
    /\ At(r, "drop")
    /\ code' = [x \in Code |-> IF code[x].state = "used" /\ code[x].purpose = task[r].purpose
                               THEN Gone ELSE code[x]]
    /\ Run(r, [task[r] EXCEPT !.pc = "store"])
    /\ UNCHANGED <<token, accepted, given, account>>

\* createOTP first throws away the codes of this purpose ...
DropCodes(r) ==
    /\ At(r, "drop")
    /\ code' = [x \in Code |-> IF Stored(x) /\ code[x].purpose = task[r].purpose
                               THEN Gone ELSE code[x]]
    /\ Run(r, [task[r] EXCEPT !.pc = "store"])
    /\ UNCHANGED <<token, accepted, given, account>>

\* ... and then stores the new one, in a second operation.
StoreCode(r, x) ==
    /\ At(r, "store")
    /\ code[x].state = "unmade"
    /\ code' = [code EXCEPT ![x] = [state |-> "live", purpose |-> task[r].purpose,
                                    failures |-> 0, by |-> r]]
    /\ Finish(r)
    /\ UNCHANGED <<token, accepted, given, account>>

\* What findValidOTP finds when it is given the right code.
ValidCodes(p) ==
    {x \in Code : /\ code[x].state = "live"
                  /\ code[x].purpose = p
                  /\ code[x].failures < MaxAttempts}

\* Verification starts with that query: it finds the code ...
FindCode(r, p) ==
    /\ At(r, "idle")
    /\ \E x \in ValidCodes(p) :
           Run(r, [Idle EXCEPT !.pc = "mark", !.purpose = p, !.code = x])
    /\ UNCHANGED <<code, token, accepted, given, account>>

\* ... or, given another one, nothing.
MissCode(r, p) ==
    /\ At(r, "idle")
    /\ Run(r, [Idle EXCEPT !.pc = "any", !.purpose = p])
    /\ UNCHANGED <<code, token, accepted, given, account>>

\* Mutant: it is not asked whether there is a code to book the failure on.
FindAnyCodeUnasked(r) ==
    /\ At(r, "any")
    /\ LET unused == {x \in Code : code[x].state = "live" /\ code[x].purpose = task[r].purpose}
       IN  \/ \E x \in unused : Run(r, [task[r] EXCEPT !.pc = "count", !.code = x])
           \/ unused = {} /\ Run(r, [task[r] EXCEPT !.pc = "count"])
    /\ UNCHANGED <<code, token, accepted, given, account>>

\* Then the failure is booked on some unused code of the purpose, if there is one.
FindAnyCode(r) ==
    /\ At(r, "any")
    /\ LET unused == {x \in Code : code[x].state = "live" /\ code[x].purpose = task[r].purpose}
       IN  \/ \E x \in unused : Run(r, [task[r] EXCEPT !.pc = "count", !.code = x])
           \/ unused = {} /\ Finish(r)
    /\ UNCHANGED <<code, token, accepted, given, account>>

\* $inc on the document, if it is still there.
IncrementAttempt(r) ==
    /\ At(r, "count")
    /\ LET x == task[r].code
       IN  code' = IF Stored(x) /\ code[x].failures < MaxAttempts
                   THEN [code EXCEPT ![x].failures = @ + 1] ELSE code
    /\ Finish(r)
    /\ UNCHANGED <<token, accepted, given, account>>

\* The code found is marked by its id, whatever has become of it, and a token is signed.
MarkUsed(r) ==
    /\ At(r, "mark")
    /\ LET x == task[r].code
       IN  code' = IF Stored(x) THEN [code EXCEPT ![x].state = "used"] ELSE code
    /\ token' = token \cup {task[r].purpose}
    /\ accepted' = accepted \cup {task[r].purpose}
    /\ Finish(r)
    /\ UNCHANGED <<given, account>>

\* The TTL index removes a code, and the queries ignore it from that moment on.
ExpireCode(x) ==
    /\ Stored(x)
    /\ code' = [code EXCEPT ![x] = Gone]
    /\ UNCHANGED <<token, accepted, given, account, task>>

ExpireToken(p) ==
    /\ p \in token
    /\ token' = token \ {p}
    /\ UNCHANGED <<code, accepted, given, account, task>>

SendRegistrationOTP(r) == SendOTP(r, "registration")
SendForgotPinOTP(r) == SendOTP(r, "reset_pin")
VerifyRegistrationPhone(r) == FindCode(r, "registration") \/ MissCode(r, "registration")
VerifyForgotPinOTP(r) == FindCode(r, "reset_pin") \/ MissCode(r, "reset_pin")

-----------------------------------------------------------------------------
(* The account *)

\* The token names the phone; it must not have an account yet.  Which role the registry
\* of officials gives it is left out: nothing below depends on the role.
CompleteRegistration(r) ==
    /\ At(r, "idle")
    /\ "registration" \in token
    /\ ~account.exists
    /\ Run(r, [Idle EXCEPT !.pc = "insert"])
    /\ UNCHANGED <<code, token, accepted, given, account>>

\* Mutant: without the unique index the later registration becomes the account.
InsertUserAgain(r) ==
    /\ At(r, "insert")
    /\ account' = [exists |-> TRUE, isActive |-> TRUE, pin |-> 1, session |-> NoSession]
    /\ Run(r, [Idle EXCEPT !.pc = "session", !.pin = 1])
    /\ UNCHANGED <<code, token, accepted, given>>

\* The insert is refused by the unique index if the phone has got an account by now.
InsertUser(r) ==
    /\ At(r, "insert")
    /\ IF account.exists
       THEN Finish(r) /\ UNCHANGED account
       ELSE /\ account' = [exists |-> TRUE, isActive |-> TRUE, pin |-> 1, session |-> NoSession]
            /\ Run(r, [Idle EXCEPT !.pc = "session", !.pin = 1])
    /\ UNCHANGED <<code, token, accepted, given>>

\* The account is read with its PIN; the comparison with the PIN given takes its time.
LoginWithPin(r) ==
    /\ At(r, "idle")
    /\ account.exists /\ account.isActive
    /\ Run(r, [Idle EXCEPT !.pc = "session", !.pin = account.pin])
    /\ UNCHANGED <<code, token, accepted, given, account>>

\* Mutant: the token presented is not compared with the one stored.
RefreshAccessTokenUncompared(r) ==
    /\ At(r, "idle")
    /\ account.exists
    /\ Run(r, [Idle EXCEPT !.pc = "session", !.pin = account.pin, !.refreshing = TRUE])
    /\ UNCHANGED <<code, token, accepted, given, account>>

\* The token presented must be the one stored, so there is one.  The new session is
\* derived from the one it replaces, and keeps its PIN and its origin.
RefreshAccessToken(r) ==
    /\ At(r, "idle")
    /\ account.session.live
    /\ Run(r, [Idle EXCEPT !.pc = "session", !.pin = account.session.pin, !.refreshing = TRUE,
                           !.origin = account.session.origin])
    /\ UNCHANGED <<code, token, accepted, given, account>>

\* Registration, login and refresh end by storing their token, whatever happened since.  The
\* client gets it, and an access token that holds until it expires: nothing takes it back.
UpdateRefreshToken(r) ==
    /\ At(r, "session")
    /\ account' = [account EXCEPT !.session = [live |-> TRUE, pin |-> task[r].pin,
                                               origin |-> task[r].origin]]
    /\ given' = given \cup {task[r].pin}
    /\ Finish(r)
    /\ UNCHANGED <<code, token, accepted>>

\* The tasks about to store a token when the session is ended are overtaken.
Overtake(t) == [r \in Request |-> IF t[r].pc = "session" THEN [t[r] EXCEPT !.origin = "overtaken"]
                                  ELSE t[r]]

\* Mutant: a registration token is good for a reset too.
ResetPinByAnyToken(r) ==
    /\ At(r, "idle")
    /\ token # {}
    /\ account.exists
    /\ account.pin < MaxPins
    /\ Run(r, [Idle EXCEPT !.pc = "save"])
    /\ UNCHANGED <<code, token, accepted, given, account>>

\* A token holds as long as it is not expired: it may reset the PIN more than once.
ResetPin(r) ==
    /\ At(r, "idle")
    /\ "reset_pin" \in token
    /\ account.exists
    /\ account.pin < MaxPins
    /\ Run(r, [Idle EXCEPT !.pc = "save"])
    /\ UNCHANGED <<code, token, accepted, given, account>>

\* Mutant: the session survives the new PIN.
SavePinOnly(r) ==
    /\ At(r, "save")
    /\ account.pin < MaxPins
    /\ account' = [account EXCEPT !.pin = @ + 1]
    /\ task' = Overtake([task EXCEPT ![r] = Idle])
    /\ UNCHANGED <<code, token, accepted, given>>

\* After the new PIN is hashed, one update stores it and removes the session.
SavePin(r) ==
    /\ At(r, "save")
    /\ account.pin < MaxPins
    /\ account' = [account EXCEPT !.pin = @ + 1, !.session = NoSession]
    /\ task' = Overtake([task EXCEPT ![r] = Idle])
    /\ UNCHANGED <<code, token, accepted, given>>

\* Logging out is one update by the id of the access token.
Logout ==
    /\ given # {}
    /\ account' = [account EXCEPT !.session = NoSession]
    /\ task' = Overtake(task)
    /\ UNCHANGED <<code, token, accepted, given>>

\* The session after a profile update: the same, or that of a token handed out before, or none
\* if the token stored is not one the server signed for this user.
Chosen == {[live |-> TRUE, pin |-> n, origin |-> "chosen"] : n \in given}

\* The update stores whatever fields the body has, but for role, phone and PIN: among them
\* whether the account is active, and the refresh token.
UpdateProfile ==
    /\ given # {}
    /\ \E active \in BOOLEAN, session \in {account.session, NoSession} \cup Chosen :
          /\ account' = [account EXCEPT !.isActive = active, !.session = session]
          /\ task' = IF session.live THEN task ELSE Overtake(task)
    /\ UNCHANGED <<code, token, accepted, given>>

\* An administrator switches the account off or on; its session is left alone.
SetActive(active) ==
    /\ account.exists
    /\ account.isActive # active
    /\ account' = [account EXCEPT !.isActive = active]
    /\ UNCHANGED <<code, token, accepted, given, task>>

DeactivateUser == SetActive(FALSE)
ActivateUser == SetActive(TRUE)

\* An operation fails, or the process of the request dies: nothing is undone.
Abort(r) ==
    /\ Faults
    /\ ~At(r, "idle")
    /\ Finish(r)
    /\ UNCHANGED <<code, token, accepted, given, account>>

Next ==
    \/ \E r \in Request :
          \/ SendRegistrationOTP(r)
          \/ SendForgotPinOTP(r)
          \/ DropCodes(r)
          \/ \E x \in Code : StoreCode(r, x)
          \/ VerifyRegistrationPhone(r)
          \/ VerifyForgotPinOTP(r)
          \/ FindAnyCode(r)
          \/ IncrementAttempt(r)
          \/ MarkUsed(r)
          \/ CompleteRegistration(r)
          \/ InsertUser(r)
          \/ LoginWithPin(r)
          \/ RefreshAccessToken(r)
          \/ UpdateRefreshToken(r)
          \/ ResetPin(r)
          \/ SavePin(r)
          \/ Abort(r)
    \/ \E x \in Code : ExpireCode(x)
    \/ \E p \in Purpose : ExpireToken(p)
    \/ Logout
    \/ UpdateProfile
    \/ DeactivateUser
    \/ ActivateUser

Spec == Init /\ [][Next]_vars

-----------------------------------------------------------------------------

\* The documents and tasks have the shape of their schemas, and a request about to change a
\* code has found one.
TypeOK ==
    /\ code \in [Code -> CodeRow]
    /\ token \subseteq Purpose
    /\ accepted \subseteq Purpose
    /\ given \subseteq 0..MaxPins
    /\ account \in Account
    /\ task \in [Request -> Task]
    /\ \A r \in Request : At(r, "count") \/ At(r, "mark") => task[r].code \in Code

\* createOTP removes the codes there are before it stores its own, so two codes of one
\* purpose are live only if the requests that made them overlapped: there are never more
\* than requests run at once, none of them two of the same.
OneCodePerRequest ==
    \A x, y \in Code :
        /\ Stored(x) /\ Stored(y)
        /\ code[x].purpose = code[y].purpose
        /\ code[x].by = code[y].by
        => x = y

\* There is an account only after a code for its phone was accepted, and a PIN other than
\* the first, or a session under it, only after a code for a reset was accepted; tokens,
\* failures and concurrent requests notwithstanding.
PinsVerified ==
    /\ account.exists => "registration" \in accepted
    /\ account.pin > 1 \/ account.session.pin > 1 => "reset_pin" \in accepted
    /\ account.session.live => account.exists

\* resetPin removes the session "to force re-login": a session that was started under an
\* earlier PIN is there only if its token was stored by a request under way at the time, or was
\* chosen by the client in a profile update, or comes from one that was.
OldSessionExplained ==
    account.session.live /\ account.session.pin # account.pin
    => account.session.origin \in {"overtaken", "chosen"}

\* A session that was ended comes back only by a login or registration, by a refresh that had
\* compared the token before the session was ended, or by a profile update with a refresh
\* token that was handed out before.
SessionsStayEnded ==
    [][~account.session.live /\ account'.session.live
       => \/ \E r \in Request : At(r, "session") /\ (task[r].refreshing => task[r].origin = "overtaken")
          \/ account'.session \in Chosen]_vars

\* A PIN is changed by a reset only: a second registration of the phone, checked before the
\* first was stored, does not replace its account.
PinOnlyByReset ==
    [][account.exists /\ account'.pin # account.pin => \E r \in Request : At(r, "save")]_vars

=============================================================================
