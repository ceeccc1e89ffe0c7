-------------------------- MODULE RedisConnection --------------------------
(***************************************************************************)
(* The RedisConnectionManager of connection.ts in one process, and the     *)
(* CacheService that asks it for a client.  Many calls of connect run at   *)
(* the same time; ioredis clients reconnect on their own, and their events *)
(* set isConnected of the manager even when it has let go of them.         *)
(*                                                                         *)
(* An event handler and the continuation of the promise it settles run     *)
(* before any other event, so together they are one step.                  *)
(***************************************************************************)
EXTENDS Naturals, FiniteSets

CONSTANTS
    Callers,        \* calls of connect or disconnect at the same time
    Clients,        \* ioredis clients; one that has ended is used again as a new one
    MaxRetries,     \* bound of retryStrategy
    None

ASSUME ConnectionAssumption ==
    /\ None \notin Clients
    /\ MaxRetries \in Nat

VARIABLES
    client,         \* this.client of the manager
    isConnected,    \* its flags
    isConnecting,
    held,           \* this.client of CacheService
    link,           \* what each ioredis client is doing
    tries,          \* its attempts to reconnect since it was last up
    call            \* the calls in flight, and the client each is about

vars == <<client, isConnected, isConnecting, held, link, tries, call>>

Idle == [pc |-> "idle", own |-> None]

Init ==
    /\ client = None
    /\ isConnected = FALSE
    /\ isConnecting = FALSE
    /\ held = None
    /\ link = [x \in Clients |-> "ended"]
    /\ tries = [x \in Clients |-> 0]
    /\ call = [c \in Callers |-> Idle]

UpClients == {x \in Clients : link[x] = "up"}

At(c, l) == call[c].pc = l

Finish(c) == call' = [call EXCEPT ![c] = Idle]

\* A client nobody refers to stands for one that is not created yet.
Unused(x) ==
    /\ link[x] = "ended"
    /\ x \notin {client, held}
    /\ \A c \in Callers : call[c].own # x

-----------------------------------------------------------------------------
(* connect, called by ensureConnected when the client it holds does not answer *)

Connected == isConnected /\ client # None

Called(c) ==
    /\ At(c, "idle")
    /\ held \notin UpClients

ConnectAtOnce(c) ==
    /\ Called(c)
    /\ Connected
    /\ held' = client
    /\ UNCHANGED <<client, isConnected, isConnecting, link, tries, call>>

ConnectByWaiting(c) ==
    /\ Called(c)
    /\ ~Connected
    /\ isConnecting
    /\ call' = [call EXCEPT ![c].pc = "waiting"]
    /\ UNCHANGED <<client, isConnected, isConnecting, held, link, tries>>

\* A new client replaces the one there was, which is not told.
Attempt(c, x) ==
    /\ Called(c)
    /\ ~Connected
    /\ ~isConnecting
    /\ Unused(x)
    /\ isConnecting' = TRUE
    /\ client' = x
    /\ link' = [link EXCEPT ![x] = "connecting"]
    /\ tries' = [tries EXCEPT ![x] = 0]
    /\ call' = [call EXCEPT ![c] = [pc |-> "attempt", own |-> x]]
    /\ UNCHANGED <<isConnected, held>>

\* The catch and finally of connect: null for the caller.
GiveUp(c) ==
    /\ client' = None
    /\ isConnected' = FALSE
    /\ isConnecting' = FALSE
    /\ held' = None
    /\ Finish(c)

\* Mutant: isConnecting is reset only by a connection that succeeds.
AttemptTimesOutConnecting(c) ==
    /\ At(c, "attempt")
    /\ client' = None
    /\ isConnected' = FALSE
    /\ held' = None
    /\ Finish(c)
    /\ UNCHANGED <<isConnecting, link, tries>>

\* Ten seconds without an event.  The client goes on trying.
AttemptTimesOut(c) ==
    /\ At(c, "attempt")
    /\ GiveUp(c)
    /\ UNCHANGED <<link, tries>>

\* The interval finds any client connected ...
Poll(c) ==
    /\ At(c, "waiting")
    /\ Connected
    /\ held' = client
    /\ Finish(c)
    /\ UNCHANGED <<client, isConnected, isConnecting, link, tries>>

\* Mutant: the timeout of a waiting call is cleared with its interval.
WaitTimesOutConnected(c) ==
    /\ At(c, "waiting")
    /\ Connected
    /\ held' = None
    /\ Finish(c)
    /\ UNCHANGED <<client, isConnected, isConnecting, link, tries>>

\* ... or thirty seconds pass.
WaitTimesOut(c) ==
    /\ At(c, "waiting")
    /\ held' = None
    /\ Finish(c)
    /\ UNCHANGED <<client, isConnected, isConnecting, link, tries>>

-----------------------------------------------------------------------------
(* disconnect *)

Disconnect(c) ==
    /\ At(c, "idle")
    /\ client # None
    /\ call' = [call EXCEPT ![c] = [pc |-> "quit", own |-> client]]
    /\ UNCHANGED <<client, isConnected, isConnecting, held, link, tries>>

\* Whichever client the manager has by then is dropped.
QuitAnswered(c) ==
    /\ At(c, "quit")
    /\ link[call[c].own] = "up"
    /\ link' = [link EXCEPT ![call[c].own] = "closing"]
    /\ client' = None
    /\ isConnected' = FALSE
    /\ Finish(c)
    /\ UNCHANGED <<isConnecting, held, tries>>

QuitFails(c) ==
    /\ At(c, "quit")
    /\ link[call[c].own] # "up"
    /\ Finish(c)
    /\ UNCHANGED <<client, isConnected, isConnecting, held, link, tries>>

-----------------------------------------------------------------------------
(* Events of an ioredis client *)

\* "connect".  connect returns this.client, which need not be x any more.
Opened(x) ==
    /\ link[x] = "connecting"
    /\ link' = [link EXCEPT ![x] = "up"]
    /\ tries' = [tries EXCEPT ![x] = 0]
    /\ isConnected' = TRUE
    /\ \/ \E c \in Callers :
             /\ call[c] = [pc |-> "attempt", own |-> x]
             /\ isConnecting' = FALSE
             /\ held' = client
             /\ Finish(c)
       \/ /\ \A c \in Callers : call[c] # [pc |-> "attempt", own |-> x]
          /\ UNCHANGED <<isConnecting, held, call>>
    /\ UNCHANGED client

\* Mutant: retryStrategy allows one attempt too many.
RetriesOnce(x) == IF tries[x] <= MaxRetries THEN "down" ELSE "ended"

\* retryStrategy: reconnect later, or not any more.
Retries(x) == IF tries[x] < MaxRetries THEN "down" ELSE "ended"

\* "error" and "close" of a client that could not connect.
Failed(x) ==
    /\ link[x] = "connecting"
    /\ link' = [link EXCEPT ![x] = Retries(x)]
    /\ isConnected' = FALSE
    /\ \/ \E c \in Callers : call[c] = [pc |-> "attempt", own |-> x] /\ GiveUp(c)
       \/ /\ \A c \in Callers : call[c] # [pc |-> "attempt", own |-> x]
          /\ UNCHANGED <<client, isConnecting, held, call>>
    /\ UNCHANGED tries

Reconnecting(x) ==
    /\ link[x] = "down"
    /\ link' = [link EXCEPT ![x] = "connecting"]
    /\ tries' = [tries EXCEPT ![x] = @ + 1]
    /\ UNCHANGED <<client, isConnected, isConnecting, held, call>>

\* Mutant: "close" is not listened to.
DroppedUnheard(x) ==
    /\ link[x] = "up"
    /\ link' = [link EXCEPT ![x] = Retries(x)]
    /\ UNCHANGED <<client, isConnected, isConnecting, held, tries, call>>

\* "close": the connection is lost, of the manager's client or of another.
Dropped(x) ==
    /\ link[x] = "up"
    /\ link' = [link EXCEPT ![x] = Retries(x)]
    /\ isConnected' = FALSE
    /\ UNCHANGED <<client, isConnecting, held, tries, call>>

\* "close" and "end" after quit.
Closed(x) ==
    /\ link[x] = "closing"
    /\ link' = [link EXCEPT ![x] = "ended"]
    /\ isConnected' = FALSE
    /\ UNCHANGED <<client, isConnecting, held, tries, call>>

-----------------------------------------------------------------------------

\* What ends the wait of a call.
Answer(c) ==
    \/ AttemptTimesOut(c)
    \/ Poll(c)
    \/ WaitTimesOut(c)
    \/ QuitAnswered(c)
    \/ QuitFails(c)

Next ==
    \/ \E c \in Callers :
          \/ ConnectAtOnce(c)
          \/ ConnectByWaiting(c)
          \/ \E x \in Clients : Attempt(c, x)
          \/ Disconnect(c)
          \/ Answer(c)
    \/ \E x \in Clients :
          \/ Opened(x)
          \/ Failed(x)
          \/ Reconnecting(x)
          \/ Dropped(x)
          \/ Closed(x)

\* Timers fire and replies come; nothing is assumed of Redis.
Spec == Init /\ [][Next]_vars /\ \A c \in Callers : WF_vars(Answer(c))

-----------------------------------------------------------------------------

Link == {"connecting", "up", "down", "closing", "ended"}

\* No client retries more often than retryStrategy allows.
TypeOK ==
    /\ {client, held} \subseteq Clients \cup {None}
    /\ {isConnected, isConnecting} \subseteq BOOLEAN
    /\ link \in [Clients -> Link]
    /\ tries \in [Clients -> 0..MaxRetries]
    /\ call \in [Callers -> [pc  : {"idle", "waiting", "attempt", "quit"},
                             own : Clients \cup {None}]]

\* However many calls of connect overlap, fail and time out, at most one of them opens a
\* client, and isConnecting says whether one does: a failed attempt blocks no later one.
OneAttempt ==
    /\ isConnecting <=> \E c \in Callers : At(c, "attempt")
    /\ \A c, d \in Callers : At(c, "attempt") /\ At(d, "attempt") => c = d

\* The manager does not take Redis for connected while no client is, although clients
\* it has let go of go on setting its flag.
ConnectedMeansSomeUp == isConnected => UpClients # {}

\* Every call of connect and disconnect ends, so a request falls back to the database
\* instead of hanging ("Ensures Redis failures don't crash the application").
CallersAnswered == \A c \in Callers : ~At(c, "idle") ~> At(c, "idle")

=============================================================================
