------------------------------ MODULE Backend ------------------------------
(***************************************************************************)
(* The cluster as it runs: the processes, the requests they serve, the     *)
(* texting jobs these add and the notification handlers they start.  An    *)
(* exit takes with it whatever its process holds of each.                  *)
(***************************************************************************)
EXTENDS JobQueue, Notifier

vars == <<serverVars, jobVars, noticeVars>>

Init == ServerInit /\ JobInit /\ NotifierInit

Committed(q) == job[q].pc # "none" \/ \E e \in Event : handler[q][e].pc # "none"

\* A request to send a code adds its job ...
CommitSend(q) ==
    /\ request[q].pc = "handling"
    /\ q = "send_otp"
    /\ ~Committed(q)
    /\ AddJob(q)
    /\ UNCHANGED <<serverVars, noticeVars>>

\* ... and one that has changed a complaint emits its events.
CommitChange(q) ==
    /\ request[q].pc = "handling"
    /\ Emits(q) # {}
    /\ ~Committed(q)
    /\ Emit(q)
    /\ UNCHANGED <<serverVars, jobVars>>

\* Then it is answered; before, only with an error.
Respond(q) ==
    /\ request[q].pc = "handling"
    /\ Committed(q) \/ Faults
    /\ Answer(q)
    /\ UNCHANGED <<proc, socket, deaths, jobVars, noticeVars>>

Serve(q) == CommitSend(q) \/ CommitChange(q) \/ Respond(q)

ProcessExits(p) == Exits(p) /\ JobsStall(p) /\ HandlersDie(p)

Next ==
    \/ ServerStep /\ UNCHANGED <<jobVars, noticeVars>>
    \/ JobStep /\ UNCHANGED <<serverVars, noticeVars>>
    \/ \E q \in Request : Serve(q)
    \/ \E q \in Request : \E e \in Emits(q) :
          HandlerStep(q, e) /\ UNCHANGED <<serverVars, jobVars>>
    \/ \E p \in Process : ProcessExits(p)

\* A process that is started comes up, or fails to; its timers run out; its requests and
\* handlers go on; a worker that is free takes the job that waits.  Nothing is said of
\* signals, of sockets, or of the end of a request whose process has none to give it.
Fairness ==
    /\ \A p \in Process :
          /\ WF_vars((Spawn(p) \/ Listen(p)) /\ UNCHANGED <<jobVars, noticeVars>>)
          /\ WF_vars(ForceExit(p) /\ JobsStall(p) /\ HandlersDie(p))
    /\ WF_vars(JobStep /\ UNCHANGED <<serverVars, noticeVars>>)
    /\ \A q \in Request : \A e \in Emits(q) :
          WF_vars(HandlerStep(q, e) /\ UNCHANGED <<serverVars, jobVars>>)

Spec == Init /\ [][Next]_vars /\ Fairness

\* The state has its shape, and whatever is held is held by a process that is there.
TypeOK ==
    /\ ServerTypeOK
    /\ JobTypeOK
    /\ NotifierTypeOK
    /\ \A p \in Process : proc[p].phase = "down" =>
          /\ \A q \in Request : ~HandledAt(q, p) /\ job[q].at # p
          /\ \A u \in User : socket[u] # p
          /\ \A q \in Request, e \in Event : Running(q, e) => request[q].at # p

=============================================================================
