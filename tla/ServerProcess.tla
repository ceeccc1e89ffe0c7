--------------------------- MODULE ServerProcess ---------------------------
(***************************************************************************)
(* The processes PM2 runs of app.ts: how each starts, serves requests and  *)
(* sockets, is told to stop and exits.  Nothing a process holds survives   *)
(* it: requests under way, sockets, and what the modules above add to it.  *)
(***************************************************************************)
EXTENDS Integers, FiniteSets, Sequences

CONSTANTS
    Process,        \* the processes of the cluster
    Request,        \* the requests that arrive, one of each kind: each is what it asks for
    User,           \* the users with an open page, which holds one socket
    MaxDeaths,      \* bound: how often a process exits, all together
    Faults,         \* whether operations fail and processes die unasked
    None

ASSUME ServerAssumption ==
    /\ IsFiniteSet(Process)
    /\ MaxDeaths \in Nat
    /\ Faults \in BOOLEAN
    /\ None \notin Process

VARIABLES
    proc,           \* proc[p]: where p is in its start and in its shutdown
    request,        \* request[q]: which process has q, and what became of it
    socket,         \* socket[u]: the process that holds the socket of u, or None
    deaths          \* number of exits so far

serverVars == <<proc, request, socket, deaths>>

\* A process that starts awaits Redis and then MongoDB; stop is where the callback of
\* server.close stands; quitting says that the connection to MongoDB is being closed, and
\* early, a ghost, that a signal came before the server listened.
Proc == [phase     : {"down", "starting", "up"},
         listening : BOOLEAN,
         stop      : {"no", "closing", "disconnecting"},
         quitting  : BOOLEAN,
         early     : BOOLEAN]
Down == [phase |-> "down", listening |-> FALSE, stop |-> "no", quitting |-> FALSE, early |-> FALSE]

\* A request is dropped when its process exits under it; open says that its client is still
\* connected.
Req == [pc   : {"new", "handling", "answered", "dropped"},
        at   : Process \cup {None},
        open : BOOLEAN]
NewReq == [pc |-> "new", at |-> None, open |-> FALSE]

ServerInit ==
    /\ proc = [p \in Process |-> Down]
    /\ request = [q \in Request |-> NewReq]
    /\ socket = [u \in User |-> None]
    /\ deaths = 0

Up(p) == proc[p].phase = "up"
HandledAt(q, p) == request[q].pc = "handling" /\ request[q].at = p
WaitsOn(q, p) == HandledAt(q, p) /\ request[q].open

-----------------------------------------------------------------------------
(* Start *)

\* PM2 starts a process, and starts it again whenever it has exited.
Spawn(p) ==
    /\ proc[p].phase = "down"
    /\ proc' = [proc EXCEPT ![p].phase = "starting"]
    /\ UNCHANGED <<request, socket, deaths>>

\* Redis was tried, with or without success, and MongoDB is connected: sockets, subscribers,
\* engine and workers are set up and the server listens, without another await in between;
\* whether a signal to stop has come is not asked.
Listen(p) ==
    /\ proc[p].phase = "starting"
    /\ proc' = [proc EXCEPT ![p].phase = "up", ![p].listening = TRUE]
    /\ UNCHANGED <<request, socket, deaths>>

-----------------------------------------------------------------------------
(* Service *)

\* A request comes to one of the processes that listen.
Arrive(q, p) ==
    /\ request[q].pc = "new"
    /\ proc[p].listening
    /\ request' = [request EXCEPT ![q] = [pc |-> "handling", at |-> p, open |-> TRUE]]
    /\ UNCHANGED <<proc, socket, deaths>>

\* It is answered, or has failed and is answered with an error; the connection ends with that.
Answer(q) == request' = [request EXCEPT ![q].pc = "answered", ![q].open = FALSE]

\* The client hangs up; the request goes on without it, and is not told.
HangUp(q) ==
    /\ request[q].pc = "handling"
    /\ request[q].open
    /\ request' = [request EXCEPT ![q].open = FALSE]
    /\ UNCHANGED <<proc, socket, deaths>>

\* A socket is accepted with an access token; it joins the room of its user.
ConnectSocket(u, p) ==
    /\ socket[u] = None
    /\ proc[p].listening
    /\ socket' = [socket EXCEPT ![u] = p]
    /\ UNCHANGED <<proc, request, deaths>>

DisconnectSocket(u) ==
    /\ socket[u] # None
    /\ socket' = [socket EXCEPT ![u] = None]
    /\ UNCHANGED <<proc, request, deaths>>

-----------------------------------------------------------------------------
(* Shutdown *)

\* The bound leaves each process that is told to stop its exit.
MayStop(p) ==
    \/ proc[p].stop # "no"
    \/ deaths + Cardinality({o \in Process : proc[o].stop # "no"}) < MaxDeaths

\* server.close: no new connections, and a callback once the last has ended, or at once when
\* the server does not listen yet.  A second signal starts nothing that is not under way.
CloseServer(p) ==
    [proc[p] EXCEPT !.listening = FALSE,
                    !.early = @ \/ ~Up(p),
                    !.stop = IF @ # "no" THEN @
                             ELSE IF Up(p) THEN "closing" ELSE "disconnecting"]

SigTerm(p) ==
    /\ proc[p].phase # "down"
    /\ MayStop(p)
    /\ proc' = [proc EXCEPT ![p] = CloseServer(p)]
    /\ UNCHANGED <<request, socket, deaths>>

\* SIGINT, which PM2 sends, is also heard by the handler that connectDB has registered: it
\* closes the connection to MongoDB and exits, without waiting for anything else.
SigInt(p) ==
    /\ proc[p].phase # "down"
    /\ MayStop(p)
    /\ proc' = [proc EXCEPT ![p] = [CloseServer(p) EXCEPT !.quitting = @ \/ Up(p)]]
    /\ UNCHANGED <<request, socket, deaths>>

\* Mutant: the process does not wait for its connections to end.
ServerClosedAtOnce(p) ==
    /\ proc[p].stop = "closing"
    /\ proc' = [proc EXCEPT ![p].stop = "disconnecting"]
    /\ UNCHANGED <<request, socket, deaths>>

\* The server is closed when its connections have ended, those of the requests that clients
\* wait for and the sockets of pages; Redis comes next.
ServerClosed(p) ==
    /\ proc[p].stop = "closing"
    /\ \A q \in Request : ~WaitsOn(q, p)
    /\ \A u \in User : socket[u] # p
    /\ proc' = [proc EXCEPT ![p].stop = "disconnecting"]
    /\ UNCHANGED <<request, socket, deaths>>

Die(p) ==
    /\ MayStop(p)
    /\ deaths' = deaths + 1
    /\ proc' = [proc EXCEPT ![p] = Down]
    /\ request' = [q \in Request |-> IF HandledAt(q, p) THEN [request[q] EXCEPT !.pc = "dropped", !.open = FALSE]
                                     ELSE request[q]]
    /\ socket' = [u \in User |-> IF socket[u] = p THEN None ELSE socket[u]]

\* Redis is disconnected, or could not be.
ExitClean(p) ==
    /\ proc[p].stop = "disconnecting"
    /\ Die(p)

ExitWithMongo(p) ==
    /\ proc[p].quitting
    /\ Die(p)

\* Mutant: no timer.
ForceExitNever(p) == FALSE /\ Die(p)

\* The timer of 30 seconds that each signal sets.
ForceExit(p) ==
    /\ proc[p].stop # "no"
    /\ Die(p)

\* MongoDB cannot be reached at the start.
StartFails(p) ==
    /\ proc[p].phase = "starting"
    /\ Faults
    /\ Die(p)

\* An uncaught exception, the memory limit, or the kill that follows PM2's patience.
Crash(p) ==
    /\ proc[p].phase # "down"
    /\ Faults
    /\ Die(p)

Exits(p) ==
    \/ ExitClean(p)
    \/ ExitWithMongo(p)
    \/ ForceExit(p)
    \/ StartFails(p)
    \/ Crash(p)

\* What a process does besides its exits and its requests.
ServerStep ==
    \/ \E p \in Process :
          \/ Spawn(p)
          \/ Listen(p)
          \/ SigTerm(p)
          \/ SigInt(p)
          \/ ServerClosed(p)
          \/ \E u \in User : ConnectSocket(u, p)
          \/ \E q \in Request : Arrive(q, p)
    \/ \E q \in Request : HangUp(q)
    \/ \E u \in User : DisconnectSocket(u)

ServerTypeOK ==
    /\ proc \in [Process -> Proc]
    /\ request \in [Request -> Req]
    /\ socket \in [User -> Process \cup {None}]
    /\ deaths \in 0..MaxDeaths

\* "Shutting down gracefully": once the server of a process has closed, no client waits for it
\* any more and none comes, so that the exit it goes on to drops only requests whose client has
\* hung up.  A process told to stop before it listened is not such a process: it listens
\* nevertheless, and exits under those it serves.
NoOneWaitsOnClosed ==
    \A p \in Process : proc[p].stop = "disconnecting" /\ ~proc[p].early =>
        /\ \A q \in Request : ~WaitsOn(q, p)
        /\ \A u \in User : socket[u] # p

\* A process told to stop exits, though sockets keep its server open: the timer sees to it.
ShutdownEnds == \A p \in Process : proc[p].stop # "no" ~> proc[p].phase = "down"

=============================================================================
