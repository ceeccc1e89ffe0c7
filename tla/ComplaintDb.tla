---------------------------- MODULE ComplaintDb ----------------------------
(***************************************************************************)
(* The database rows of a grievance and the asynchronous tasks that work   *)
(* on them.  Every service function of the backend is a coroutine: between *)
(* two awaits it runs alone in its process, and at an await any other      *)
(* coroutine, of this or of another PM2 process, may run.  A task is one   *)
(* such coroutine; its record holds the values the code read earlier and   *)
(* still uses.  One MongoDB operation on one document is one step.         *)
(*                                                                         *)
(* ComplaintService, AssignmentService, EscalationService and SlaEngine    *)
(* extend this module with the steps of one source file each; Grievance    *)
(* composes them.                                                          *)
(***************************************************************************)
EXTENDS Integers, FiniteSets

CONSTANTS
    Complaints,     \* complaint ids
    Officers,       \* staff with role service_officer
    Councillors,    \* staff with role ward_councillor
    MLAs,           \* staff with role mla
    InWard,         \* InWard[c]: the officers and councillors of c's ward
    DeptOfficers,   \* DeptOfficers[c]: those officers in the department of c's category
    Engines,        \* one SLA engine per PM2 process
    Requests,       \* slots for staff requests in flight at the same time
    RequestOps,     \* the kinds of staff request that arrive
    Bodies,         \* what the bodies of creations carry besides the complaint
    Tracked,        \* the statuses whose history entries are kept in the state
    Faults,         \* whether a task may die at an await (database error, process crash)
    None            \* no user, no complaint

Staff == Officers \cup Councillors \cup MLAs

Status == {"created", "assigned", "in_progress", "resolved", "verified",
           "closed", "escalated", "reopened", "rejected"}

ASSUME StaffAssumption ==
    /\ Officers \cap Councillors = {}
    /\ MLAs \cap (Officers \cup Councillors) = {}
    /\ None \notin Staff \cup Complaints

ASSUME WardAssumption ==
    /\ InWard \in [Complaints -> SUBSET (Officers \cup Councillors)]
    /\ DeptOfficers \in [Complaints -> SUBSET Officers]
    /\ \A c \in Complaints : DeptOfficers[c] \subseteq InWard[c]

\* createComplaint stores the rest of the request's body as it is: whoever files a
\* complaint may send fields that the services are there to write.  A level is a
\* Number of any size (a fraction is refused by an escalation as any level but 0 and
\* 1 is); an officer may be any id, for which that of any of the staff stands.
Body == [officer    : Staff \cup {None},
         level      : Int,
         escalated  : BOOLEAN,
         breached   : BOOLEAN,
         proof      : BOOLEAN,
         resolvedAt : BOOLEAN,
         verifiedAt : BOOLEAN,
         closedAt   : BOOLEAN]

NothingSent == [officer |-> None, level |-> 0, escalated |-> FALSE,
                breached |-> FALSE, proof |-> FALSE, resolvedAt |-> FALSE,
                verifiedAt |-> FALSE, closedAt |-> FALSE]

ASSUME BodiesAssumption == Bodies \subseteq Body

ASSUME ScopeAssumption ==
    /\ RequestOps \subseteq {"update", "proof", "reassign", "escalate"}
    /\ Tracked \subseteq Status
    /\ Faults \in BOOLEAN

VARIABLES
    complaint,      \* the complaints collection: one row per id
    history,        \* the complaintstatushistories collection, per complaint
    escalations,    \* the escalations collection
    task,           \* the coroutines in flight
    sweep,          \* the SLA engines' sweeps
    overdue,        \* complaints whose slaDeadline has passed
    unlogged        \* ghost: statuses written whose history entry was never stored

vars == <<complaint, history, escalations, task, sweep, overdue, unlogged>>

-----------------------------------------------------------------------------
(* Rows *)

\* A timestamp is kept as whether it is set; "absent" marks an id not inserted yet.
\* The field sent is a ghost: what the body of the creation carried.
Row == [status     : Status \cup {"absent"},
        officer    : Staff \cup {None},
        level      : Int,
        escalated  : BOOLEAN,
        breached   : BOOLEAN,
        proof      : BOOLEAN,
        resolvedAt : BOOLEAN,
        verifiedAt : BOOLEAN,
        closedAt   : BOOLEAN,
        sent       : Body]

AbsentRow == [status |-> "absent", officer |-> None, level |-> 0,
              escalated |-> FALSE, breached |-> FALSE, proof |-> FALSE,
              resolvedAt |-> FALSE, verifiedAt |-> FALSE, closedAt |-> FALSE,
              sent |-> NothingSent]

\* A history entry is kept as the status it records, if that is a Tracked one; its
\* place in the timeline is abstracted.
HistoryEntry == Status

\* Equal records are one: what matters is which levels a complaint was sent to.
EscalationRecord == [complaint : Complaints, level : 1..2, resolved : BOOLEAN]

-----------------------------------------------------------------------------
(* Tasks *)

HttpTask   == {"http"} \X Requests
CreateTask == {"create"} \X Complaints
AssignTask == {"assign"} \X Complaints
BreachTask == {"breach"} \X (Engines \X Complaints)

Tasks == HttpTask \cup CreateTask \cup AssignTask \cup BreachTask

\* pc names the await at which the task stands, i.e. the operation it has issued; the
\* other fields are the values the code still uses after it.
TaskRecord ==
    [op        : {"none", "create", "assign", "update", "proof", "reassign", "escalate"},
     pc        : {"idle", "read", "record", "write", "history", "emit", "done"},
     complaint : Complaints \cup {None},
     to        : Status \cup {"absent"},
     officer   : Staff \cup {None},
     authored  : BOOLEAN,
     level     : 0..2]

IdleTask == [op |-> "none", pc |-> "idle", complaint |-> None, to |-> "absent",
             officer |-> None, authored |-> FALSE, level |-> 0]

At(t, op, pc) == task[t].op = op /\ task[t].pc = pc

Goto(t, pc) == task' = [task EXCEPT ![t].pc = pc]

\* A request slot is free again; the handler of an event runs once.
Ended(t) == IF t \in HttpTask THEN IdleTask ELSE [IdleTask EXCEPT !.pc = "done"]

Finish(t) == task' = [task EXCEPT ![t] = Ended(t)]

\* addStatusHistory
AppendHistory(t) ==
    history' = [history EXCEPT ![task[t].complaint] =
        @ \cup ({task[t].to} \cap Tracked)]

\* The history entry of the task's status write is never stored.
LoseHistory(t) ==
    unlogged' = [unlogged EXCEPT ![task[t].complaint] =
        @ \cup ({task[t].to} \cap Tracked)]

\* Any operation may fail: the promise rejects (or the process dies) and nothing
\* after that await runs.
Abort(t) ==
    /\ Faults
    /\ task[t].pc \notin {"idle", "done"}
    /\ IF task[t].pc = "history" THEN LoseHistory(t) ELSE UNCHANGED unlogged
    /\ Finish(t)
    /\ UNCHANGED <<complaint, history, escalations, sweep, overdue>>

=============================================================================
