------------------------------ MODULE Notifier ------------------------------
(***************************************************************************)
(* eventSubscribers.ts and notification.service.ts: the event a request    *)
(* emits starts a handler in its process, which stores one notification    *)
(* after the other and pushes each to the sockets its own process has in   *)
(* the room of the recipient.  Nobody waits for a handler: the request is  *)
(* answered and the process exits without it.  The handlers of             *)
(* COMPLAINT_CREATED and SLA_BREACHED are part of Grievance.               *)
(***************************************************************************)
EXTENDS ServerProcess

VARIABLES
    handler,    \* handler[q][e]: the handler of the event e that q has emitted
    stored,     \* the notices that are in the notifications collection
    pushed,     \* the notices a socket was sent
    missed      \* ghost: the notices given up because an operation failed

noticeVars == <<handler, stored, pushed, missed>>

Event == {"ASSIGNMENT_CREATED", "COMPLAINT_STATUS_CHANGED", "COMPLAINT_RESOLVED",
          "ESCALATION_TRIGGERED"}

\* What updateStatus, reassign and escalateComplaint emit.
Emits(k) == CASE k = "update"   -> {"COMPLAINT_STATUS_CHANGED"}
              [] k = "resolve"  -> {"COMPLAINT_STATUS_CHANGED", "COMPLAINT_RESOLVED"}
              [] k = "reassign" -> {"ASSIGNMENT_CREATED"}
              [] k = "escalate" -> {"ESCALATION_TRIGGERED"}
              [] OTHER          -> {}

\* To whom the handler of an event sends, in turn.
Recipients(e) == CASE e = "ASSIGNMENT_CREATED"       -> <<"officer">>
                   [] e = "COMPLAINT_STATUS_CHANGED" -> <<"citizen">>
                   [] e = "COMPLAINT_RESOLVED"       -> <<"citizen", "councillor">>
                   [] e = "ESCALATION_TRIGGERED"     -> <<"councillor">>

\* The enum of Notification.type has no 'complaint_resolved_verification'.
TypeKnown(e, u) == ~(e = "COMPLAINT_RESOLVED" /\ u = "councillor")

Notice == [of : Request, event : Event, to : {"citizen", "officer", "councillor"}]
NoticeTo(q, e, u) == [of |-> q, event |-> e, to |-> u]

HandlerPc == {"none", "lookup", "insert", "push", "done", "lost"}
Handler == [pc : HandlerPc, turn : 1..2]
NoHandler == [pc |-> "none", turn |-> 1]

NextNotice(q, e) == NoticeTo(q, e, Recipients(e)[handler[q][e].turn])

NotifierInit ==
    /\ handler = [q \in Request |-> [e \in Event |-> NoHandler]]
    /\ stored = {}
    /\ pushed = {}
    /\ missed = {}

Goto(q, e, l) == handler' = [handler EXCEPT ![q][e].pc = l]

\* Emitting runs each handler to its first await, the insertion of the first notice.
Emit(q) ==
    /\ handler' = [handler EXCEPT ![q] =
           [e \in Event |-> IF e \in Emits(q) THEN [NoHandler EXCEPT !.pc = "insert"]
                            ELSE NoHandler]]
    /\ UNCHANGED <<stored, pushed, missed>>

\* The ward councillor of a resolved complaint is found before the second notice.
FindCouncillor(q, e) ==
    /\ handler[q][e].pc = "lookup"
    /\ Goto(q, e, "insert")
    /\ UNCHANGED <<stored, pushed, missed>>

\* There is none, or the query fails and with it the handler.
FindNoCouncillor(q, e) ==
    /\ handler[q][e].pc = "lookup"
    /\ Goto(q, e, "done")
    /\ missed' = missed \cup {NextNotice(q, e)}
    /\ UNCHANGED <<stored, pushed>>

\* Notification.create, if the type is one the schema knows.
StoreNotice(q, e) ==
    /\ handler[q][e].pc = "insert"
    /\ TypeKnown(e, NextNotice(q, e).to)
    /\ stored' = stored \cup {NextNotice(q, e)}
    /\ Goto(q, e, "push")
    /\ UNCHANGED <<pushed, missed>>

\* What follows a send, whether or not it succeeded: the next one, or the end.
Continue(q, e) ==
    handler' = [handler EXCEPT ![q][e] =
        IF @.turn < Len(Recipients(e)) THEN [pc |-> "lookup", turn |-> @.turn + 1]
        ELSE [@ EXCEPT !.pc = "done"]]

\* Mutant: the failure is thrown out of the handler.
RefuseNoticeUncaught(q, e) ==
    /\ handler[q][e].pc = "insert"
    /\ Faults \/ ~TypeKnown(e, NextNotice(q, e).to)
    /\ missed' = missed \cup {NextNotice(q, e)}
    /\ Goto(q, e, "done")
    /\ UNCHANGED <<stored, pushed>>

\* sendNotification swallows the failure: no notice, no push, and the caller goes on.
RefuseNotice(q, e) ==
    /\ handler[q][e].pc = "insert"
    /\ Faults \/ ~TypeKnown(e, NextNotice(q, e).to)
    /\ missed' = missed \cup {NextNotice(q, e)}
    /\ Continue(q, e)
    /\ UNCHANGED <<stored, pushed>>

\* Mutant: the socket is sent the notice before it is stored.
PushNoticeFirst(q, e) ==
    /\ handler[q][e].pc \in {"insert", "push"}
    /\ pushed' = IF socket[NextNotice(q, e).to] = request[q].at THEN pushed \cup {NextNotice(q, e)}
                 ELSE pushed
    /\ Continue(q, e)
    /\ UNCHANGED <<stored, missed>>

\* The room of the recipient has the sockets of this process only: Socket.IO runs without
\* an adapter that would connect the processes.
PushNotice(q, e) ==
    /\ handler[q][e].pc = "push"
    /\ pushed' = IF socket[NextNotice(q, e).to] = request[q].at THEN pushed \cup {NextNotice(q, e)}
                 ELSE pushed
    /\ Continue(q, e)
    /\ UNCHANGED <<stored, missed>>

Running(q, e) == handler[q][e].pc \in {"lookup", "insert", "push"}

\* The handlers of a process end with it.
HandlersDie(p) ==
    /\ handler' = [q \in Request |-> [e \in Event |->
           IF Running(q, e) /\ request[q].at = p THEN [handler[q][e] EXCEPT !.pc = "lost"]
           ELSE handler[q][e]]]
    /\ UNCHANGED <<stored, pushed, missed>>

HandlerStep(q, e) ==
    \/ FindCouncillor(q, e)
    \/ FindNoCouncillor(q, e)
    \/ StoreNotice(q, e)
    \/ RefuseNotice(q, e)
    \/ PushNotice(q, e)

NotifierTypeOK ==
    /\ handler \in [Request -> [Event -> Handler]]
    /\ stored \subseteq Notice
    /\ pushed \subseteq Notice
    /\ missed \subseteq Notice

\* What a page was told it finds again in its list: nothing is pushed that is not stored.
PushedAreStored == pushed \subseteq stored

\* Every event emitted is handled to its end, in which each of its notices is stored or known
\* to be given up, unless the process of the request has exited.
EventsEnd ==
    \A q \in Request : \A e \in Emits(q) :
        handler[q][e].pc # "none" ~>
            \/ handler[q][e].pc = "lost"
            \/ /\ handler[q][e].pc = "done"
               /\ \A i \in 1..Len(Recipients(e)) :
                      NoticeTo(q, e, Recipients(e)[i]) \in stored \cup missed

=============================================================================
