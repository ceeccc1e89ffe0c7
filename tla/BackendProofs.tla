--------------------------- MODULE BackendProofs ---------------------------
(***************************************************************************)
(* Safety of the cluster, for any number of processes, requests and users, *)
(* and for any bound of their exits.                                       *)
(***************************************************************************)
EXTENDS Backend, FiniteSetTheorems, TLAPS

USE ServerAssumption DEF ServerAssumption

-----------------------------------------------------------------------------
(* Processes and requests.  A process that was told to stop while it       *)
(* served does not listen: nobody comes once its server has closed.        *)

Stopping == {o \in Process : proc[o].stop # "no"}

Graceful(p) == proc[p].stop # "no" /\ ~proc[p].early

ServerInv ==
    /\ ServerTypeOK
    /\ deaths + Cardinality(Stopping) <= MaxDeaths
    /\ \A p \in Process : Graceful(p) => Up(p) /\ ~proc[p].listening
    /\ NoOneWaitsOnClosed

LEMMA StoppingFinite ==
  ASSUME ServerTypeOK
  PROVE  /\ Stopping \subseteq Process
         /\ IsFiniteSet(Stopping)
         /\ Cardinality(Stopping) \in Nat
         /\ deaths \in Nat
  <1>1. Stopping \subseteq Process
    BY DEF Stopping
  <1>2. IsFiniteSet(Stopping)
    BY <1>1, FS_Subset
  <1> QED
    BY <1>1, <1>2, FS_CardinalityType DEF ServerTypeOK

LEMMA ServerInitInv == ServerInit => ServerInv
  <1> SUFFICES ASSUME ServerInit  PROVE ServerInv
    OBVIOUS
  <1>1. ServerTypeOK
    BY DEF ServerInit, ServerTypeOK, Proc, Down, Req, NewReq
  <1>2. Stopping = {}
    BY DEF ServerInit, Stopping, Down
  <1>3. deaths + Cardinality(Stopping) <= MaxDeaths
    BY <1>2, FS_EmptySet DEF ServerInit
  <1> QED
    BY <1>1, <1>3 DEF ServerInit, ServerInv, Graceful, Down, NoOneWaitsOnClosed

LEMMA CloseServerIs ==
  ASSUME NEW p \in Process, proc[p] \in Proc
  PROVE  /\ CloseServer(p) \in Proc
         /\ CloseServer(p).stop # "no"
         /\ CloseServer(p).phase = proc[p].phase
         /\ CloseServer(p).quitting = proc[p].quitting
         /\ CloseServer(p).early = (proc[p].early \/ ~Up(p))
         /\ CloseServer(p).listening = FALSE
         /\ Up(p) /\ proc[p].stop = "no" => CloseServer(p).stop = "closing"
         /\ proc[p].stop # "no" => CloseServer(p).stop = proc[p].stop
  <1>1. CASE proc[p].stop # "no"
    BY <1>1 DEF Proc, CloseServer, Up
  <1>2. CASE proc[p].stop = "no" /\ Up(p)
    BY <1>2 DEF Proc, CloseServer, Up
  <1>3. CASE proc[p].stop = "no" /\ ~Up(p)
    BY <1>3 DEF Proc, CloseServer, Up
  <1> QED
    BY <1>1, <1>2, <1>3

\* A signal, the first of which makes one more process stop.
LEMMA SignalKeeps ==
  ASSUME ServerInv, NEW p \in Process, proc[p].phase # "down", MayStop(p), NEW quits \in BOOLEAN,
         proc' = [proc EXCEPT ![p] = [CloseServer(p) EXCEPT !.quitting = quits]],
         UNCHANGED <<request, socket, deaths>>
  PROVE  ServerInv'
  <1>1. /\ CloseServer(p) \in Proc
        /\ CloseServer(p).stop # "no"
        /\ CloseServer(p).phase = proc[p].phase
        /\ CloseServer(p).early = (proc[p].early \/ ~Up(p))
        /\ CloseServer(p).listening = FALSE
        /\ Up(p) /\ proc[p].stop = "no" => CloseServer(p).stop = "closing"
        /\ proc[p].stop # "no" => CloseServer(p).stop = proc[p].stop
    BY CloseServerIs DEF ServerInv, ServerTypeOK
  <1>2. [CloseServer(p) EXCEPT !.quitting = quits] \in Proc
    BY <1>1 DEF Proc
  <1>3. ServerTypeOK'
    BY <1>2 DEF ServerInv, ServerTypeOK
  <1>4. /\ proc'[p].stop = CloseServer(p).stop
        /\ proc'[p].phase = proc[p].phase
        /\ proc'[p].early = CloseServer(p).early
        /\ proc'[p].listening = FALSE
        /\ \A o \in Process : o # p => proc'[o] = proc[o]
    BY <1>1 DEF ServerInv, ServerTypeOK, Proc
  <1>5. Stopping' = Stopping \cup {p}
    BY <1>1, <1>4 DEF Stopping
  <1>6. (deaths + Cardinality(Stopping) <= MaxDeaths)'
    <2>1. Cardinality(Stopping)' = Cardinality(Stopping \cup {p})
      BY <1>5
    <2>2. CASE proc[p].stop # "no"
      <3>1. Stopping \cup {p} = Stopping
        BY <2>2 DEF Stopping
      <3> QED
        BY <2>1, <3>1 DEF ServerInv
    <2>3. CASE proc[p].stop = "no"
      <3>1. Cardinality(Stopping \cup {p}) = Cardinality(Stopping) + 1
        BY <2>3, StoppingFinite, FS_AddElement DEF ServerInv, Stopping
      <3>2. deaths + Cardinality(Stopping) < MaxDeaths
        BY <2>3 DEF MayStop, Stopping
      <3> QED
        BY <2>1, <3>1, <3>2, StoppingFinite DEF ServerInv
    <2> QED
      BY <2>2, <2>3
  <1>7. \A o \in Process : Graceful(o)' => Up(o)' /\ ~proc'[o].listening
    BY <1>1, <1>4 DEF ServerInv, Graceful, Up
  <1>8. NoOneWaitsOnClosed'
    <2>1. ASSUME proc'[p].stop = "disconnecting", ~proc'[p].early
          PROVE  proc[p].stop = "disconnecting" /\ ~proc[p].early
      BY <1>1, <1>4, <2>1
    <2> QED
      BY <1>4, <2>1 DEF ServerInv, NoOneWaitsOnClosed, WaitsOn, HandledAt
  <1> QED
    BY <1>3, <1>6, <1>7, <1>8 DEF ServerInv

LEMMA ServerStepKeeps == ServerInv /\ ServerStep => ServerInv'
  <1> SUFFICES ASSUME ServerInv, ServerStep  PROVE ServerInv'
    OBVIOUS
  <1> USE DEF Proc, Req
  <1>1. ASSUME NEW p \in Process, Spawn(p) \/ Listen(p)  PROVE ServerInv'
    <2>1. ServerTypeOK'
      BY <1>1 DEF ServerInv, ServerTypeOK, Spawn, Listen
    <2>2. /\ \A o \in Process : proc'[o].stop = proc[o].stop /\ proc'[o].early = proc[o].early
          /\ \A o \in Process : o # p => proc'[o] = proc[o]
          /\ ~Up(p)
      BY <1>1 DEF ServerInv, ServerTypeOK, Spawn, Listen, Up
    <2>3. Stopping' = Stopping
      BY <2>2 DEF Stopping
    <2>4. UNCHANGED <<request, socket, deaths>>
      BY <1>1 DEF Spawn, Listen
    <2> QED
      BY <2>1, <2>2, <2>3, <2>4
      DEF ServerInv, Graceful, Up, WaitsOn, HandledAt, NoOneWaitsOnClosed
  <1>2. ASSUME NEW p \in Process, SigTerm(p)  PROVE ServerInv'
    <2>1. CloseServer(p) = [CloseServer(p) EXCEPT !.quitting = proc[p].quitting]
      BY CloseServerIs DEF ServerInv, ServerTypeOK
    <2> QED
      BY <1>2, <2>1, SignalKeeps DEF SigTerm, ServerInv, ServerTypeOK
  <1>3. ASSUME NEW p \in Process, SigInt(p)  PROVE ServerInv'
    <2>1. CloseServer(p).quitting \in BOOLEAN
      BY CloseServerIs DEF ServerInv, ServerTypeOK
    <2>2. [CloseServer(p) EXCEPT !.quitting = @ \/ Up(p)]
            = [CloseServer(p) EXCEPT !.quitting = CloseServer(p).quitting \/ Up(p)]
      OBVIOUS
    <2> QED
      BY <1>3, <2>1, <2>2, SignalKeeps DEF SigInt, Up
  <1>4. ASSUME NEW p \in Process, ServerClosed(p)  PROVE ServerInv'
    <2>1. ServerTypeOK'
      BY <1>4 DEF ServerInv, ServerTypeOK, ServerClosed
    <2>2. /\ \A o \in Process : o # p => proc'[o] = proc[o]
          /\ proc'[p] = [proc[p] EXCEPT !.stop = "disconnecting"]
          /\ proc[p].stop # "no"
          /\ \A q \in Request : ~WaitsOn(q, p)
          /\ \A u \in User : socket[u] # p
          /\ UNCHANGED <<request, socket, deaths>>
      BY <1>4 DEF ServerInv, ServerTypeOK, ServerClosed
    <2>3. Stopping' = Stopping
      BY <2>1, <2>2 DEF Stopping, ServerInv, ServerTypeOK
    <2> QED
      BY <2>1, <2>2, <2>3
      DEF ServerInv, ServerTypeOK, Graceful, Up, WaitsOn, HandledAt, NoOneWaitsOnClosed
  <1>5. ASSUME NEW q \in Request, NEW p \in Process, Arrive(q, p)  PROVE ServerInv'
    <2>1. ServerTypeOK'
      BY <1>5 DEF ServerInv, ServerTypeOK, Arrive
    <2>2. Stopping' = Stopping
      BY <1>5 DEF Stopping, Arrive
    <2>3. /\ request'[q].pc = "handling" /\ request'[q].at = p
          /\ \A o \in Request : o # q => request'[o] = request[o]
      BY <1>5 DEF ServerInv, ServerTypeOK, Arrive
    <2>4. ASSUME NEW o \in Process, proc[o].stop = "disconnecting", ~proc[o].early
          PROVE  ~proc[o].listening
      BY <2>4 DEF ServerInv, Graceful
    <2>5. NoOneWaitsOnClosed'
      BY <1>5, <2>3, <2>4 DEF ServerInv, WaitsOn, HandledAt, NoOneWaitsOnClosed, Arrive
    <2> QED
      BY <1>5, <2>1, <2>2, <2>5 DEF ServerInv, Graceful, Up, Arrive
  <1>6. ASSUME NEW u \in User, DisconnectSocket(u) \/ \E p \in Process : ConnectSocket(u, p)
        PROVE  ServerInv'
    <2>1. ServerTypeOK' /\ UNCHANGED <<proc, request, deaths>>
      BY <1>6 DEF ServerInv, ServerTypeOK, DisconnectSocket, ConnectSocket
    <2>2. ASSUME NEW o \in Process, proc[o].stop = "disconnecting", ~proc[o].early
          PROVE  ~proc[o].listening
      BY <2>2 DEF ServerInv, Graceful
    <2>3. \A v \in User : socket'[v] \in {socket[v], None} \/ proc[socket'[v]].listening
      BY <1>6 DEF ServerInv, ServerTypeOK, DisconnectSocket, ConnectSocket
    <2>4. NoOneWaitsOnClosed'
      BY <2>1, <2>2, <2>3 DEF ServerInv, WaitsOn, HandledAt, NoOneWaitsOnClosed
    <2> QED
      BY <2>1, <2>4 DEF ServerInv, Stopping, Graceful, Up
  <1>7. ASSUME NEW q \in Request, HangUp(q)  PROVE ServerInv'
    <2>1. ServerTypeOK' /\ UNCHANGED <<proc, socket, deaths>>
      BY <1>7 DEF ServerInv, ServerTypeOK, HangUp
    <2>2. \A o \in Request, p \in Process : WaitsOn(o, p)' => WaitsOn(o, p)
      BY <1>7 DEF ServerInv, ServerTypeOK, HangUp, WaitsOn, HandledAt
    <2> QED
      BY <2>1, <2>2 DEF ServerInv, Stopping, Graceful, Up, NoOneWaitsOnClosed
  <1> QED
    BY <1>1, <1>2, <1>3, <1>4, <1>5, <1>6, <1>7 DEF ServerStep

LEMMA AnswerKeeps ==
  ASSUME ServerInv, NEW q \in Request, Answer(q), UNCHANGED <<proc, socket, deaths>>
  PROVE  ServerInv'
  <1>1. ServerTypeOK' /\ Stopping' = Stopping
    BY DEF ServerInv, ServerTypeOK, Answer, Stopping, Req
  <1>2. /\ request'[q].pc = "answered"
        /\ \A o \in Request : o # q => request'[o] = request[o]
    BY DEF ServerInv, ServerTypeOK, Answer, Req
  <1> QED
    BY <1>1, <1>2 DEF ServerInv, Graceful, Up, WaitsOn, HandledAt, NoOneWaitsOnClosed

LEMMA ExitKeeps ==
  ASSUME ServerInv, NEW p \in Process, Exits(p)
  PROVE  ServerInv'
  <1>0. deaths \in Nat /\ Cardinality(Stopping) \in Nat
    BY StoppingFinite DEF ServerInv
  <1>1. Die(p)
    BY DEF Exits, ExitClean, ExitWithMongo, ForceExit, StartFails, Crash
  <1>2. /\ \A q \in Request, o \in Process : WaitsOn(q, o)' => WaitsOn(q, o)
        /\ \A u \in User, o \in Process : socket'[u] = o => socket[u] = o
    BY <1>1 DEF Die, ServerInv, ServerTypeOK, WaitsOn, HandledAt, Req
  <1>3. Stopping' = Stopping \ {p}
    BY <1>1 DEF Die, Stopping, ServerInv, ServerTypeOK, Down
  <1>4. (deaths + Cardinality(Stopping) <= MaxDeaths)'
    <2>1. Cardinality(Stopping)' = Cardinality(Stopping \ {p}) /\ deaths' = deaths + 1
      BY <1>1, <1>3 DEF Die
    <2>2. CASE proc[p].stop # "no"
      <3>1. Cardinality(Stopping \ {p}) = Cardinality(Stopping) - 1
        BY <2>2, StoppingFinite, FS_RemoveElement DEF ServerInv, Stopping
      <3> QED
        BY <2>1, <3>1, StoppingFinite DEF ServerInv
    <2>3. CASE proc[p].stop = "no"
      <3>1. Stopping \ {p} = Stopping
        BY <2>3 DEF Stopping
      <3>2. deaths + Cardinality(Stopping) < MaxDeaths
        BY <1>1, <2>3 DEF Die, MayStop, Stopping
      <3> QED
        BY <1>3, <2>1, <3>1, <3>2, <1>0
    <2> QED
      BY <2>2, <2>3
  <1>5. ServerTypeOK'
    <2>1. proc' \in [Process -> Proc]
      BY <1>1 DEF Die, ServerInv, ServerTypeOK, Down, Proc
    <2>2. request' \in [Request -> Req]
      BY <1>1 DEF Die, ServerInv, ServerTypeOK, Req
    <2>3. socket' \in [User -> Process \cup {None}]
      BY <1>1 DEF Die, ServerInv, ServerTypeOK
    <2>4. deaths' \in Nat
      <3>1. deaths' = deaths + 1
        BY <1>1 DEF Die
      <3> QED
        BY <1>0, <3>1
    <2>5. Cardinality(Stopping \ {p}) \in Nat
      BY StoppingFinite, FS_RemoveElement, FS_CardinalityType DEF ServerInv
    <2>6. deaths' <= MaxDeaths
      BY <1>3, <1>4, <2>4, <2>5
    <2> QED
      BY <2>1, <2>2, <2>3, <2>4, <2>6 DEF ServerTypeOK
  <1>6. \A o \in Process : Graceful(o)' => o # p /\ proc'[o] = proc[o]
    BY <1>1 DEF Die, Graceful, Down, ServerInv, ServerTypeOK
  <1>7. \A o \in Process : proc'[o].stop = "disconnecting" => proc'[o] = proc[o]
    BY <1>1 DEF Die, Down, ServerInv, ServerTypeOK
  <1>8. NoOneWaitsOnClosed'
    BY <1>2, <1>7 DEF ServerInv, NoOneWaitsOnClosed
  <1> QED
    BY <1>4, <1>5, <1>6, <1>8 DEF ServerInv, Graceful, Up

-----------------------------------------------------------------------------
(* Jobs.  A code that was texted belongs to a job that is past its text.   *)

JobInv ==
    /\ JobTypeOK
    /\ \A q \in Request :
          /\ texts[q] <= 1
          /\ job[q].pc \in {"none", "waiting", "active"} => texts[q] = 0

LEMMA AddJobKeeps ==
  ASSUME JobInv, NEW q \in Request, job[q].pc = "none", AddJob(q)
  PROVE  JobInv'
  BY DEF JobInv, JobTypeOK, Job, AddJob

LEMMA JobStepKeeps == JobInv /\ JobStep => JobInv'
  <1> SUFFICES ASSUME JobInv, JobStep  PROVE JobInv'
    OBVIOUS
  <1> USE DEF JobInv, JobTypeOK, Job
  <1>1. ASSUME NEW q \in Request, NEW p \in Process, TakeJob(q, p)  PROVE JobInv'
    BY <1>1 DEF TakeJob
  <1>2. ASSUME NEW q \in Request, SendText(q)  PROVE JobInv'
    <2>1. CASE texts' = texts
      BY <1>2, <2>1 DEF SendText
    <2>2. CASE texts' = [texts EXCEPT ![q] = @ + 1]
      BY <1>2, <2>2 DEF SendText
    <2> QED
      BY <1>2, <2>1, <2>2 DEF SendText
  <1>3. ASSUME NEW q \in Request, CompleteJob(q)  PROVE JobInv'
    BY <1>3 DEF CompleteJob
  <1> QED
    BY <1>1, <1>2, <1>3 DEF JobStep

LEMMA JobsStallKeeps ==
  ASSUME JobInv, NEW p \in Process, JobsStall(p)
  PROVE  JobInv'
  BY DEF JobInv, JobTypeOK, Job, JobsStall

-----------------------------------------------------------------------------
(* Handlers.  A handler that is about to push has stored what it pushes.   *)

NoticeInv ==
    /\ NotifierTypeOK
    /\ PushedAreStored
    /\ \A q \in Request, e \in Event :
          /\ handler[q][e].turn \in 1..Len(Recipients(e))
          /\ handler[q][e].pc = "push" => NextNotice(q, e) \in stored

LEMMA RecipientsKnown ==
  ASSUME NEW e \in Event
  PROVE  /\ Len(Recipients(e)) \in 1..2
         /\ \A n \in 1..Len(Recipients(e)) : Recipients(e)[n] \in {"citizen", "officer", "councillor"}
  <1>1. CASE e = "ASSIGNMENT_CREATED"
    BY <1>1 DEF Recipients
  <1>2. CASE e = "COMPLAINT_STATUS_CHANGED"
    BY <1>2 DEF Recipients
  <1>3. CASE e = "COMPLAINT_RESOLVED"
    BY <1>3 DEF Recipients
  <1>4. CASE e = "ESCALATION_TRIGGERED"
    BY <1>4 DEF Recipients
  <1> QED
    BY <1>1, <1>2, <1>3, <1>4 DEF Event

LEMMA NoticeTyped ==
  ASSUME NoticeInv, NEW q \in Request, NEW e \in Event
  PROVE  NextNotice(q, e) \in Notice
  BY RecipientsKnown DEF NoticeInv, NextNotice, NoticeTo, Notice

LEMMA EmitKeeps ==
  ASSUME NoticeInv, NEW q \in Request, Emit(q)
  PROVE  NoticeInv'
  <1>1. /\ \A o \in Request : o # q => handler'[o] = handler[o]
        /\ \A e \in Event : /\ handler'[q][e] \in Handler
                            /\ handler'[q][e].turn = 1
                            /\ handler'[q][e].pc # "push"
        /\ UNCHANGED <<stored, pushed, missed>>
    BY DEF Emit, NoticeInv, NotifierTypeOK, NoHandler, Handler, HandlerPc
  <1>2. handler' \in [Request -> [Event -> Handler]]
    BY DEF Emit, NoticeInv, NotifierTypeOK, NoHandler, Handler, HandlerPc
  <1>3. \A o \in Request, e \in Event :
           /\ handler'[o][e].turn \in 1..Len(Recipients(e))
           /\ handler'[o][e].pc = "push" => NextNotice(o, e)' \in stored
    BY <1>1, RecipientsKnown DEF NoticeInv, NextNotice
  <1> QED
    BY <1>1, <1>2, <1>3 DEF NoticeInv, NotifierTypeOK, PushedAreStored

\* A handler goes to another await, and leaves the other handlers alone.
LEMMA HandlerGoes ==
  ASSUME NoticeInv, NEW q \in Request, NEW e \in Event, NEW h \in Handler,
         h.turn \in 1..Len(Recipients(e)),
         h.pc = "push" => NoticeTo(q, e, Recipients(e)[h.turn]) \in stored',
         handler' = [handler EXCEPT ![q][e] = h],
         stored \subseteq stored', stored' \subseteq Notice, pushed' \subseteq stored',
         missed' \subseteq Notice
  PROVE  NoticeInv'
  <1>1. handler' \in [Request -> [Event -> Handler]]
    BY DEF NoticeInv, NotifierTypeOK
  <1>2. /\ handler'[q][e] = h
        /\ \A o \in Request, f \in Event : ~(o = q /\ f = e) => handler'[o][f] = handler[o][f]
    BY DEF NoticeInv, NotifierTypeOK
  <1>3. ASSUME NEW o \in Request, NEW f \in Event
        PROVE  /\ handler'[o][f].turn \in 1..Len(Recipients(f))
               /\ handler'[o][f].pc = "push" => NextNotice(o, f)' \in stored'
    <2>1. CASE o = q /\ f = e
      BY <1>2, <2>1 DEF NextNotice
    <2>2. CASE ~(o = q /\ f = e)
      BY <1>2, <2>2 DEF NextNotice, NoticeInv
    <2> QED
      BY <2>1, <2>2
  <1> QED
    BY <1>1, <1>3 DEF NoticeInv, NotifierTypeOK, PushedAreStored

LEMMA GotoKeeps ==
  ASSUME NoticeInv, NEW q \in Request, NEW e \in Event, NEW l \in HandlerPc, Goto(q, e, l),
         l = "push" => NextNotice(q, e) \in stored',
         stored \subseteq stored', stored' \subseteq Notice, pushed' \subseteq stored',
         missed' \subseteq Notice
  PROVE  NoticeInv'
  <1> DEFINE h == [handler[q][e] EXCEPT !.pc = l]
  <1>1. /\ h \in Handler /\ h.pc = l /\ h.turn = handler[q][e].turn
        /\ handler' = [handler EXCEPT ![q][e] = h]
    BY DEF NoticeInv, NotifierTypeOK, Handler, Goto
  <1>2. h.turn \in 1..Len(Recipients(e))
    BY <1>1 DEF NoticeInv
  <1>3. h.pc = "push" => NoticeTo(q, e, Recipients(e)[h.turn]) \in stored'
    BY <1>1 DEF NextNotice
  <1> HIDE DEF h
  <1> QED
    BY <1>1, <1>2, <1>3, HandlerGoes

LEMMA ContinueKeeps ==
  ASSUME NoticeInv, NEW q \in Request, NEW e \in Event, Continue(q, e),
         UNCHANGED stored, pushed' \subseteq stored', missed' \subseteq Notice
  PROVE  NoticeInv'
  <1> DEFINE old == handler[q][e]
             h == IF old.turn < Len(Recipients(e)) THEN [pc |-> "lookup", turn |-> old.turn + 1]
                  ELSE [old EXCEPT !.pc = "done"]
  <1>1. old \in Handler /\ old.turn \in 1..Len(Recipients(e)) /\ stored \subseteq Notice
    BY DEF NoticeInv, NotifierTypeOK
  <1>2. handler' = [handler EXCEPT ![q][e] = h]
    BY DEF Continue
  <1>3. h \in Handler /\ h.turn \in 1..Len(Recipients(e)) /\ h.pc # "push"
    <2>1. CASE old.turn < Len(Recipients(e))
      <3>1. old.turn + 1 \in 1..Len(Recipients(e)) /\ old.turn + 1 \in 1..2
        <4>1. /\ old.turn \in 1..Len(Recipients(e))
              /\ Len(Recipients(e)) \in 1..2
          BY <1>1, RecipientsKnown
        <4>2. ASSUME NEW n \in 1..2, NEW k \in 1..n, k < n  PROVE k + 1 \in 1..n /\ k + 1 \in 1..2
          BY <4>2
        <4> HIDE DEF old
        <4> QED
          BY <2>1, <4>1, <4>2
      <3> QED
        BY <2>1, <3>1 DEF Handler, HandlerPc
    <2>2. CASE ~(old.turn < Len(Recipients(e)))
      BY <1>1, <2>2 DEF Handler, HandlerPc
    <2> QED
      BY <2>1, <2>2
  <1> HIDE DEF h
  <1> QED
    BY <1>1, <1>2, <1>3, HandlerGoes

LEMMA HandlerStepKeeps ==
  ASSUME NoticeInv, NEW q \in Request, NEW e \in Event, HandlerStep(q, e)
  PROVE  NoticeInv'
  <1>1. /\ NextNotice(q, e) \in Notice
        /\ stored \subseteq Notice /\ pushed \subseteq stored /\ missed \subseteq Notice
    BY NoticeTyped DEF NoticeInv, NotifierTypeOK, PushedAreStored
  <1>2. CASE FindCouncillor(q, e)
    BY <1>1, <1>2, GotoKeeps DEF FindCouncillor, HandlerPc
  <1>3. CASE FindNoCouncillor(q, e)
    BY <1>1, <1>3, GotoKeeps DEF FindNoCouncillor, HandlerPc
  <1>4. CASE StoreNotice(q, e)
    BY <1>1, <1>4, GotoKeeps DEF StoreNotice, HandlerPc
  <1>5. CASE RefuseNotice(q, e)
    BY <1>1, <1>5, ContinueKeeps DEF RefuseNotice
  <1>6. CASE PushNotice(q, e)
    BY <1>1, <1>6, ContinueKeeps DEF PushNotice, NoticeInv
  <1> QED
    BY <1>2, <1>3, <1>4, <1>5, <1>6 DEF HandlerStep

LEMMA HandlersDieKeeps ==
  ASSUME NoticeInv, NEW p \in Process, HandlersDie(p)
  PROVE  NoticeInv'
  <1>1. handler' \in [Request -> [Event -> Handler]]
    <2>1. ASSUME NEW h \in Handler  PROVE [h EXCEPT !.pc = "lost"] \in Handler
      BY DEF Handler, HandlerPc
    <2>2. \A q \in Request, e \in Event : handler[q][e] \in Handler
      BY DEF NoticeInv, NotifierTypeOK
    <2> QED
      BY <2>1, <2>2 DEF HandlersDie
  <1>2. \A q \in Request, e \in Event :
           /\ handler'[q][e].turn = handler[q][e].turn
           /\ handler'[q][e].pc \in {handler[q][e].pc, "lost"}
    BY DEF HandlersDie, NoticeInv, NotifierTypeOK, Handler
  <1> QED
    BY <1>1, <1>2 DEF HandlersDie, NoticeInv, NotifierTypeOK, PushedAreStored, NextNotice

-----------------------------------------------------------------------------
(* The parts together.  Nothing is held by a process that is down, for     *)
(* which it matters that such a process does not listen.                   *)

Held ==
    \A p \in Process : proc[p].phase = "down" =>
        /\ ~proc[p].listening
        /\ \A q \in Request : ~HandledAt(q, p) /\ job[q].at # p
        /\ \A u \in User : socket[u] # p
        /\ \A q \in Request, e \in Event : Running(q, e) => request[q].at # p

Inv == ServerInv /\ JobInv /\ NoticeInv /\ Held

\* A step of the processes in which none exits.
LEMMA ServerStepHeld ==
  ASSUME Inv, ServerStep, UNCHANGED <<jobVars, noticeVars>>
  PROVE  Held'
  <1>1. proc \in [Process -> Proc] /\ socket \in [User -> Process \cup {None}]
        /\ request \in [Request -> Req]
    BY DEF Inv, ServerInv, ServerTypeOK
  <1>2. \A q \in Request, e \in Event : Running(q, e)' <=> Running(q, e)
    BY DEF noticeVars, Running
  <1> USE DEF Proc, Held, Inv, jobVars
  <1>3. ASSUME NEW p \in Process, Spawn(p) \/ Listen(p) \/ ServerClosed(p)  PROVE Held'
    <2>1. /\ \A o \in Process : proc'[o].phase = "down" =>
                 proc[o].phase = "down" /\ proc'[o].listening = proc[o].listening
          /\ UNCHANGED <<request, socket>>
      BY <1>1, <1>3 DEF Spawn, Listen, ServerClosed
    <2> QED
      BY <1>2, <2>1 DEF HandledAt
  <1>4. ASSUME NEW p \in Process, SigTerm(p) \/ SigInt(p)  PROVE Held'
    <2>1. CloseServer(p).phase = proc[p].phase /\ CloseServer(p) \in Proc
      BY <1>1, CloseServerIs
    <2>2. /\ proc'[p].phase # "down"
          /\ \A o \in Process : o # p => proc'[o] = proc[o]
          /\ UNCHANGED <<request, socket>>
      BY <1>1, <1>4, <2>1 DEF SigTerm, SigInt
    <2> QED
      BY <1>2, <2>2 DEF HandledAt
  <1>5. ASSUME NEW q \in Request, NEW p \in Process, Arrive(q, p)  PROVE Held'
    BY <1>1, <1>2, <1>5 DEF Arrive, HandledAt, Req
  <1>6. ASSUME NEW u \in User, NEW p \in Process, ConnectSocket(u, p)  PROVE Held'
    BY <1>1, <1>2, <1>6 DEF ConnectSocket, HandledAt
  <1>7. ASSUME NEW u \in User, DisconnectSocket(u)  PROVE Held'
    BY <1>1, <1>2, <1>7 DEF DisconnectSocket, HandledAt
  <1>8. ASSUME NEW q \in Request, HangUp(q)  PROVE Held'
    <2>1. /\ \A o \in Request : /\ request'[o].pc = request[o].pc
                                /\ request'[o].at = request[o].at
          /\ UNCHANGED <<proc, socket>>
      BY <1>1, <1>8 DEF HangUp, Req
    <2> QED
      BY <1>2, <2>1 DEF HandledAt
  <1> QED
    BY <1>3, <1>4, <1>5, <1>6, <1>7, <1>8 DEF ServerStep

LEMMA JobStepHeld ==
  ASSUME Inv, JobStep, UNCHANGED <<serverVars, noticeVars>>
  PROVE  Held'
  <1>1. \A q \in Request : \/ job'[q].at \in {job[q].at, None}
                           \/ \E p \in Process : job'[q].at = p /\ proc[p].phase # "down"
    BY DEF JobStep, TakeJob, SendText, CompleteJob, Inv, JobInv, JobTypeOK, Job
  <1> QED
    BY <1>1 DEF Inv, Held, serverVars, noticeVars, HandledAt, Running

\* A handler that runs has run before, or is started by a request that is handled.
LEMMA ServeKeeps ==
  ASSUME Inv, NEW q \in Request, Serve(q)
  PROVE  Inv'
  <1>1. CASE CommitSend(q)
    <2>1. ServerInv' /\ NoticeInv'
      BY <1>1 DEF CommitSend, Inv, serverVars, noticeVars, ServerInv, ServerTypeOK, Stopping,
         Graceful, Up, WaitsOn, HandledAt, NoOneWaitsOnClosed, NoticeInv, NotifierTypeOK,
         PushedAreStored, NextNotice
    <2>2. JobInv'
      BY <1>1, AddJobKeeps DEF CommitSend, Committed, Inv
    <2>3. Held'
      BY <1>1 DEF CommitSend, AddJob, Inv, JobInv, JobTypeOK, Job, Held, HandledAt, Running,
         serverVars, noticeVars
    <2> QED
      BY <2>1, <2>2, <2>3 DEF Inv
  <1>2. CASE CommitChange(q)
    <2>1. ServerInv' /\ JobInv'
      BY <1>2 DEF CommitChange, Inv, serverVars, jobVars, ServerInv, ServerTypeOK, Stopping,
         Graceful, Up, WaitsOn, HandledAt, NoOneWaitsOnClosed, JobInv, JobTypeOK
    <2>2. NoticeInv'
      BY <1>2, EmitKeeps DEF CommitChange, Inv
    <2>3. \A o \in Request, e \in Event : Running(o, e)' => Running(o, e) \/ o = q
      BY <1>2 DEF CommitChange, Emit, Running, Inv, NoticeInv, NotifierTypeOK
    <2>4. Held'
      BY <1>2, <2>3 DEF CommitChange, Inv, Held, HandledAt, serverVars, jobVars
    <2> QED
      BY <2>1, <2>2, <2>4 DEF Inv
  <1>3. CASE Respond(q)
    <2>1. ServerInv'
      BY <1>3, AnswerKeeps DEF Respond, Inv
    <2>2. JobInv' /\ NoticeInv'
      BY <1>3 DEF Respond, Inv, jobVars, noticeVars, JobInv, JobTypeOK, NoticeInv,
         NotifierTypeOK, PushedAreStored, NextNotice
    <2>3. \A o \in Request : /\ request'[o].at = request[o].at
                             /\ request'[o].pc = "handling" => request[o].pc = "handling"
      BY <1>3 DEF Respond, Answer, Inv, ServerInv, ServerTypeOK, Req
    <2>4. Held'
      BY <1>3, <2>3 DEF Respond, Inv, Held, HandledAt, Running, jobVars, noticeVars
    <2> QED
      BY <2>1, <2>2, <2>4 DEF Inv
  <1> QED
    BY <1>1, <1>2, <1>3 DEF Serve

LEMMA HandlerStepHeld ==
  ASSUME Inv, NEW q \in Request, NEW e \in Event, HandlerStep(q, e),
         UNCHANGED <<serverVars, jobVars>>
  PROVE  Held'
  <1>1. \A o \in Request, f \in Event : Running(o, f)' => Running(o, f)
    <2>1. Running(q, e)
      BY DEF HandlerStep, FindCouncillor, FindNoCouncillor, StoreNotice, RefuseNotice,
         PushNotice, Running
    <2>2. \A o \in Request, f \in Event : ~(o = q /\ f = e) => handler'[o][f] = handler[o][f]
      BY DEF HandlerStep, FindCouncillor, FindNoCouncillor, StoreNotice, RefuseNotice,
         PushNotice, Goto, Continue, Inv, NoticeInv, NotifierTypeOK
    <2> QED
      BY <2>1, <2>2 DEF Running
  <1> QED
    BY <1>1 DEF Inv, Held, HandledAt, serverVars, jobVars

\* An exit leaves nothing behind that its process held.
LEMMA ProcessExitsHeld ==
  ASSUME Inv, NEW p \in Process, ProcessExits(p)
  PROVE  Held'
  <1>1. Die(p)
    BY DEF ProcessExits, Exits, ExitClean, ExitWithMongo, ForceExit, StartFails, Crash
  <1>2. /\ proc'[p].listening = FALSE
        /\ \A o \in Process : o # p => proc'[o] = proc[o]
    BY <1>1 DEF Die, Down, Inv, ServerInv, ServerTypeOK
  <1>3. \A q \in Request, o \in Process :
           /\ request'[q].at = request[q].at
           /\ HandledAt(q, o)' => HandledAt(q, o) /\ o # p
    BY <1>1 DEF Die, HandledAt, Inv, ServerInv, ServerTypeOK, Req
  <1>4. \A u \in User : socket'[u] # p /\ socket'[u] \in {socket[u], None}
    BY <1>1 DEF Die, Inv, ServerInv, ServerTypeOK
  <1>5. \A q \in Request : job'[q].at # p /\ job'[q].at \in {job[q].at, None}
    BY DEF ProcessExits, JobsStall, Inv, JobInv, JobTypeOK
  <1>6. \A q \in Request, e \in Event : Running(q, e)' => Running(q, e) /\ request[q].at # p
    BY DEF ProcessExits, HandlersDie, Running, Inv, NoticeInv, NotifierTypeOK, Handler
  <1> QED
    BY <1>2, <1>3, <1>4, <1>5, <1>6 DEF Inv, Held

LEMMA InvInit == Init => Inv
  <1> SUFFICES ASSUME Init  PROVE Inv
    OBVIOUS
  <1> USE DEF Init, ServerInit, JobInit, NotifierInit
  <1>1. ServerInv
    BY ServerInitInv
  <1>2. JobInv
    BY DEF JobInv, JobTypeOK, Job, NoJob
  <1>3. NoticeInv
    <2>1. NoHandler \in Handler /\ NoHandler.turn = 1 /\ NoHandler.pc # "push"
      BY DEF Handler, HandlerPc, NoHandler
    <2>2. \A e \in Event : 1 \in 1..Len(Recipients(e))
      <3>1. ASSUME NEW n \in 1..2  PROVE 1 \in 1..n
        BY <3>1
      <3>2. \A e \in Event : Len(Recipients(e)) \in 1..2
        BY RecipientsKnown
      <3> QED
        BY <3>1, <3>2
    <2> HIDE DEF Init, NotifierInit
    <2>3. /\ handler = [q \in Request |-> [e \in Event |-> NoHandler]]
          /\ stored = {} /\ pushed = {} /\ missed = {}
      BY DEF Init, NotifierInit
    <2> QED
      BY <2>1, <2>2, <2>3 DEF NoticeInv, NotifierTypeOK, PushedAreStored
  <1>4. Held
    BY DEF Held, Down, NewReq, NoJob, NoHandler, HandledAt, Running
  <1> QED
    BY <1>1, <1>2, <1>3, <1>4 DEF Inv

LEMMA InvStep == Inv /\ [Next]_vars => Inv'
  <1> SUFFICES ASSUME Inv, [Next]_vars  PROVE Inv'
    OBVIOUS
  <1>1. CASE UNCHANGED vars
    BY <1>1 DEF vars, serverVars, jobVars, noticeVars, Inv, ServerInv, ServerTypeOK, Stopping,
       Graceful, Up, WaitsOn, HandledAt, NoOneWaitsOnClosed, JobInv, JobTypeOK, NoticeInv,
       NotifierTypeOK, PushedAreStored, NextNotice, Held, Running
  <1>2. CASE ServerStep /\ UNCHANGED <<jobVars, noticeVars>>
    <2>1. JobInv' /\ NoticeInv'
      BY <1>2 DEF Inv, jobVars, noticeVars, JobInv, JobTypeOK, NoticeInv, NotifierTypeOK,
         PushedAreStored, NextNotice
    <2> QED
      BY <1>2, <2>1, ServerStepKeeps, ServerStepHeld DEF Inv
  <1>3. CASE JobStep /\ UNCHANGED <<serverVars, noticeVars>>
    <2>1. ServerInv' /\ NoticeInv'
      BY <1>3 DEF Inv, serverVars, noticeVars, ServerInv, ServerTypeOK, Stopping, Graceful, Up,
         WaitsOn, HandledAt, NoOneWaitsOnClosed, NoticeInv, NotifierTypeOK, PushedAreStored, NextNotice
    <2> QED
      BY <1>3, <2>1, JobStepKeeps, JobStepHeld DEF Inv
  <1>4. ASSUME NEW q \in Request, Serve(q)  PROVE Inv'
    BY <1>4, ServeKeeps
  <1>5. ASSUME NEW q \in Request, NEW e \in Emits(q),
               HandlerStep(q, e), UNCHANGED <<serverVars, jobVars>>
        PROVE  Inv'
    <2>1. e \in Event
      BY DEF Emits, Event
    <2>2. ServerInv' /\ JobInv'
      BY <1>5 DEF Inv, serverVars, jobVars, ServerInv, ServerTypeOK, Stopping, Graceful, Up,
         WaitsOn, HandledAt, NoOneWaitsOnClosed, JobInv, JobTypeOK
    <2> QED
      BY <1>5, <2>1, <2>2, HandlerStepKeeps, HandlerStepHeld DEF Inv
  <1>6. ASSUME NEW p \in Process, ProcessExits(p)  PROVE Inv'
    BY <1>6, ExitKeeps, JobsStallKeeps, HandlersDieKeeps, ProcessExitsHeld DEF ProcessExits, Inv
  <1> QED
    BY <1>1, <1>2, <1>3, <1>4, <1>5, <1>6 DEF Next

LEMMA InvAlways == Spec => []Inv
  BY InvInit, InvStep, PTL DEF Spec

\* The state keeps its shape, and whatever is held is held by a process that is there: an exit
\* ends the requests, jobs, sockets and handlers of its process together.
THEOREM BackendTypeOKHolds == Spec => []TypeOK
  <1>1. Inv => TypeOK
    BY DEF Inv, ServerInv, JobInv, NoticeInv, Held, TypeOK
  <1> QED
    BY <1>1, InvAlways, PTL

\* Nobody waits for a process whose server has closed, whenever and however often it was told
\* to stop, and whichever requests, sockets, hang-ups and exits of others come in between.
THEOREM NoOneWaitsOnClosedHolds == Spec => []NoOneWaitsOnClosed
  <1>1. Inv => NoOneWaitsOnClosed
    BY DEF Inv, ServerInv
  <1> QED
    BY <1>1, InvAlways, PTL

\* However many workers there are and whenever they die, no code is texted twice.
THEOREM TextedAtMostOnceHolds == Spec => []TextedAtMostOnce
  <1>1. Inv => TextedAtMostOnce
    BY DEF Inv, JobInv, TextedAtMostOnce
  <1> QED
    BY <1>1, InvAlways, PTL

\* A page is told only what its user finds again in the list of notifications.
THEOREM PushedAreStoredHolds == Spec => []PushedAreStored
  <1>1. Inv => PushedAreStored
    BY DEF Inv, NoticeInv
  <1> QED
    BY <1>1, InvAlways, PTL

=============================================================================
