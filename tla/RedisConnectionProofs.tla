----------------------- MODULE RedisConnectionProofs -----------------------
(***************************************************************************)
(* Safety of the connection manager for any number of calls and clients    *)
(* and any bound of the retries.                                           *)
(***************************************************************************)
EXTENDS RedisConnection, TLAPS

USE ConnectionAssumption DEF ConnectionAssumption

-----------------------------------------------------------------------------
(* Types.  That tries stays within its bound needs to know that a client   *)
(* waits for its next attempt only if it has one left.                     *)

Retrying == \A x \in Clients : link[x] = "down" => tries[x] < MaxRetries

TypeInv == TypeOK /\ Retrying

LEMMA TypeInit == Init => TypeInv
  <1> SUFFICES ASSUME Init PROVE TypeInv
    OBVIOUS
  <1>1. isConnected \in BOOLEAN /\ isConnecting \in BOOLEAN
    BY Zenon DEF Init
  <1>2. call \in [Callers -> [pc  : {"idle", "waiting", "attempt", "quit"},
                             own : Clients \cup {None}]]
    BY DEF Init, Idle
  <1>3. client = None /\ held = None
    BY DEF Init
  <1>4. link \in [Clients -> Link] /\ \A x \in Clients : link[x] # "down"
    BY DEF Init, Link
  <1>5. tries \in [Clients -> 0..MaxRetries]
    BY DEF Init
  <1> QED
    BY <1>1, <1>2, <1>3, <1>4, <1>5 DEF TypeInv, TypeOK, Retrying

LEMMA TypeStep ==
  ASSUME TypeInv, [Next]_vars
  PROVE  TypeInv'
  <1> USE DEF TypeInv, TypeOK, Retrying, Link
  <1>1. ASSUME NEW c \in Callers, ConnectAtOnce(c)  PROVE TypeInv'
    BY <1>1 DEF ConnectAtOnce, Connected, Called
  <1>2. ASSUME NEW c \in Callers, ConnectByWaiting(c)  PROVE TypeInv'
    BY <1>2 DEF ConnectByWaiting
  <1>3. ASSUME NEW c \in Callers, NEW x \in Clients, Attempt(c, x)  PROVE TypeInv'
    BY <1>3 DEF Attempt
  <1>4. ASSUME NEW c \in Callers, Disconnect(c)  PROVE TypeInv'
    BY <1>4 DEF Disconnect
  <1>5. ASSUME NEW c \in Callers, AttemptTimesOut(c)  PROVE TypeInv'
    BY <1>5 DEF AttemptTimesOut, GiveUp, Finish, Idle
  <1>6. ASSUME NEW c \in Callers, Poll(c)  PROVE TypeInv'
    BY <1>6 DEF Poll, Finish, Idle
  <1>7. ASSUME NEW c \in Callers, WaitTimesOut(c)  PROVE TypeInv'
    BY <1>7 DEF WaitTimesOut, Finish, Idle
  <1>8. ASSUME NEW c \in Callers, QuitAnswered(c)  PROVE TypeInv'
    BY <1>8 DEF QuitAnswered, Finish, Idle
  <1>9. ASSUME NEW c \in Callers, QuitFails(c)  PROVE TypeInv'
    BY <1>9 DEF QuitFails, Finish, Idle
  <1>10. ASSUME NEW x \in Clients, Opened(x)  PROVE TypeInv'
    <2>1. /\ link' \in [Clients -> Link]
          /\ tries' \in [Clients -> 0..MaxRetries]
          /\ Retrying'
      BY <1>10 DEF Opened
    <2>2. isConnected' = TRUE /\ client' = client
      BY <1>10 DEF Opened
    <2>3. CASE UNCHANGED <<isConnecting, held, call>>
      BY <2>1, <2>2, <2>3
    <2>4. ASSUME NEW c \in Callers,
                 isConnecting' = FALSE /\ held' = client /\ Finish(c)
          PROVE  TypeInv'
      BY <2>1, <2>2, <2>4 DEF Finish, Idle
    <2> QED
      BY <1>10, <2>3, <2>4 DEF Opened
  <1>11. ASSUME NEW x \in Clients, Failed(x)  PROVE TypeInv'
    <2>1. /\ link' \in [Clients -> Link]
          /\ tries' = tries
          /\ Retrying'
      BY <1>11 DEF Failed, Retries
    <2>2. isConnected' = FALSE
      BY <1>11 DEF Failed
    <2>3. CASE UNCHANGED <<client, isConnecting, held, call>>
      BY <2>1, <2>2, <2>3
    <2>4. ASSUME NEW c \in Callers, GiveUp(c)
          PROVE  TypeInv'
      BY <2>1, <2>2, <2>4 DEF GiveUp, Finish, Idle
    <2> QED
      BY <1>11, <2>3, <2>4 DEF Failed
  <1>12. ASSUME NEW x \in Clients, Reconnecting(x)  PROVE TypeInv'
    BY <1>12 DEF Reconnecting
  <1>13. ASSUME NEW x \in Clients, Dropped(x)  PROVE TypeInv'
    BY <1>13 DEF Dropped, Retries
  <1>14. ASSUME NEW x \in Clients, Closed(x)  PROVE TypeInv'
    BY <1>14 DEF Closed
  <1>15. CASE UNCHANGED vars
    BY <1>15 DEF vars
  <1> QED
    BY <1>1, <1>2, <1>3, <1>4, <1>5, <1>6, <1>7, <1>8, <1>9, <1>10, <1>11, <1>12,
       <1>13, <1>14, <1>15 DEF Next, Answer

\* Every field has its type, and no client retries more often than retryStrategy allows.
THEOREM RedisTypeCorrect == Spec => []TypeInv
  BY TypeInit, TypeStep, PTL DEF Spec

THEOREM RedisTypeOKHolds == Spec => []TypeOK
  <1>1. TypeInv => TypeOK
    BY DEF TypeInv
  <1> QED
    BY <1>1, RedisTypeCorrect, PTL

-----------------------------------------------------------------------------
(* One attempt at a time *)

LEMMA AttemptInit == Init => OneAttempt
  BY DEF Init, OneAttempt, At, Idle

LEMMA AttemptStep ==
  ASSUME TypeInv, OneAttempt, [Next]_vars
  PROVE  OneAttempt'
  <1> USE DEF TypeInv, TypeOK, OneAttempt, At
  \* The steps that begin or end no attempt.
  <1>1. ASSUME isConnecting' = isConnecting,
               \A c \in Callers : At(c, "attempt")' <=> At(c, "attempt")
        PROVE  OneAttempt'
    BY <1>1
  \* The steps that end one.
  <1>2. ASSUME NEW c \in Callers, At(c, "attempt"), isConnecting' = FALSE, Finish(c)
        PROVE  OneAttempt'
    <2>1. \A d \in Callers : ~At(d, "attempt")'
      BY <1>2 DEF Finish, Idle
    <2> QED
      BY <1>2, <2>1
  <1>3. ASSUME NEW c \in Callers, ConnectAtOnce(c)  PROVE OneAttempt'
    BY <1>3 DEF ConnectAtOnce
  <1>4. ASSUME NEW c \in Callers, ConnectByWaiting(c)  PROVE OneAttempt'
    BY <1>4 DEF ConnectByWaiting, Called
  <1>5. ASSUME NEW c \in Callers, NEW x \in Clients, Attempt(c, x)  PROVE OneAttempt'
    BY <1>5 DEF Attempt
  <1>6. ASSUME NEW c \in Callers, Disconnect(c)  PROVE OneAttempt'
    BY <1>6 DEF Disconnect
  <1>7. ASSUME NEW c \in Callers, AttemptTimesOut(c)  PROVE OneAttempt'
    BY <1>2, <1>7 DEF AttemptTimesOut, GiveUp
  <1>8. ASSUME NEW c \in Callers, Poll(c) \/ WaitTimesOut(c)  PROVE OneAttempt'
    BY <1>8 DEF Poll, WaitTimesOut, Finish, Idle
  <1>9. ASSUME NEW c \in Callers, QuitAnswered(c) \/ QuitFails(c)  PROVE OneAttempt'
    BY <1>9 DEF QuitAnswered, QuitFails, Finish, Idle
  <1>10. ASSUME NEW x \in Clients, Opened(x)  PROVE OneAttempt'
    <2>1. CASE UNCHANGED <<isConnecting, held, call>>
      BY <1>1, <2>1
    <2>2. ASSUME NEW c \in Callers, call[c] = [pc |-> "attempt", own |-> x],
                 isConnecting' = FALSE, Finish(c)
          PROVE  OneAttempt'
      <3>1. At(c, "attempt")
        BY <2>2
      <3> QED
        BY <1>2, <2>2, <3>1, Zenon
    <2> QED
      BY <1>10, <2>1, <2>2 DEF Opened
  <1>11. ASSUME NEW x \in Clients, Failed(x)  PROVE OneAttempt'
    <2>1. CASE UNCHANGED <<client, isConnecting, held, call>>
      BY <1>1, <2>1
    <2>2. ASSUME NEW c \in Callers, call[c] = [pc |-> "attempt", own |-> x], GiveUp(c)
          PROVE  OneAttempt'
      <3>1. At(c, "attempt")
        BY <2>2
      <3>2. isConnecting' = FALSE /\ Finish(c)
        BY <2>2 DEF GiveUp
      <3> QED
        BY <1>2, <3>1, <3>2, Zenon
    <2> QED
      BY <1>11, <2>1, <2>2 DEF Failed
  <1>12. ASSUME NEW x \in Clients, Reconnecting(x) \/ Dropped(x) \/ Closed(x)
         PROVE  OneAttempt'
    BY <1>12 DEF Reconnecting, Dropped, Closed
  <1>13. CASE UNCHANGED vars
    BY <1>13 DEF vars
  <1> QED
    BY <1>3, <1>4, <1>5, <1>6, <1>7, <1>8, <1>9, <1>10, <1>11, <1>12, <1>13
       DEF Next, Answer

\* Any number of calls of connect open one client at a time, and a failed or late attempt
\* leaves the way free for the next.
THEOREM OneAttemptHolds == Spec => []OneAttempt
  BY RedisTypeCorrect, AttemptInit, AttemptStep, PTL DEF Spec

-----------------------------------------------------------------------------
(* The flag isConnected *)

LEMMA ConnectedStep ==
  ASSUME TypeInv, ConnectedMeansSomeUp, [Next]_vars
  PROVE  ConnectedMeansSomeUp'
  <1> USE DEF TypeInv, TypeOK, ConnectedMeansSomeUp, UpClients
  \* No step raises the flag without a client that is up ...
  <1>1. ASSUME NEW x \in Clients, Opened(x)  PROVE ConnectedMeansSomeUp'
    <2>1. link'[x] = "up"
      BY <1>1 DEF Opened
    <2> QED
      BY <2>1
  \* ... and the steps that take a client down lower it.
  <1>2. ASSUME isConnected' = FALSE  PROVE ConnectedMeansSomeUp'
    BY <1>2
  <1>3. ASSUME isConnected' = isConnected,
               \A x \in Clients : link[x] = "up" => link'[x] = "up"
        PROVE  ConnectedMeansSomeUp'
    BY <1>3
  <1>4. ASSUME NEW c \in Callers,
               \/ ConnectAtOnce(c) \/ ConnectByWaiting(c) \/ Disconnect(c)
               \/ Poll(c) \/ WaitTimesOut(c) \/ QuitFails(c)
        PROVE  ConnectedMeansSomeUp'
    BY <1>3, <1>4 DEF ConnectAtOnce, ConnectByWaiting, Disconnect, Poll, WaitTimesOut,
                      QuitFails
  <1>5. ASSUME NEW c \in Callers, NEW x \in Clients, Attempt(c, x)
        PROVE  ConnectedMeansSomeUp'
    BY <1>3, <1>5 DEF Attempt, Unused
  <1>6. ASSUME NEW c \in Callers, AttemptTimesOut(c) \/ QuitAnswered(c)
        PROVE  ConnectedMeansSomeUp'
    BY <1>2, <1>6 DEF AttemptTimesOut, GiveUp, QuitAnswered
  <1>7. ASSUME NEW x \in Clients, Failed(x) \/ Dropped(x) \/ Closed(x)
        PROVE  ConnectedMeansSomeUp'
    BY <1>2, <1>7 DEF Failed, Dropped, Closed
  <1>8. ASSUME NEW x \in Clients, Reconnecting(x)  PROVE ConnectedMeansSomeUp'
    BY <1>3, <1>8 DEF Reconnecting
  <1>9. CASE UNCHANGED vars
    BY <1>3, <1>9 DEF vars
  <1> QED
    BY <1>1, <1>4, <1>5, <1>6, <1>7, <1>8, <1>9 DEF Next, Answer

\* The flag that clients still in use and clients given up both set and clear is raised
\* only while some client is connected.
THEOREM ConnectedMeansSomeUpHolds == Spec => []ConnectedMeansSomeUp
  <1>1. Init => ConnectedMeansSomeUp
    BY DEF Init, ConnectedMeansSomeUp
  <1> QED
    BY <1>1, RedisTypeCorrect, ConnectedStep, PTL DEF Spec

=============================================================================
