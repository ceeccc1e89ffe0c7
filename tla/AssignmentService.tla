------------------------- MODULE AssignmentService -------------------------
(***************************************************************************)
(* assignment.service.ts: autoAssign, run by the subscriber of             *)
(* COMPLAINT_CREATED, and reassign, a staff request.                       *)
(***************************************************************************)
EXTENDS ComplaintDb

\* Officers of the ward and department or, if there is none, of the ward.
EligibleOfficers(c) ==
    IF DeptOfficers[c] # {} THEN DeptOfficers[c] ELSE Officers \cap InWard[c]

Workload(o) ==
    Cardinality({c \in Complaints : /\ complaint[c].officer = o
                                    /\ complaint[c].status \in {"assigned", "in_progress"}})

LeastLoaded(candidates) ==
    {o \in candidates : \A p \in candidates : Workload(o) <= Workload(p)}

-----------------------------------------------------------------------------
(* autoAssign.  The counts of the candidates, awaited together, are taken at one
   instant; the sort keeps the unspecified order of equally loaded officers. *)

\* Mutant: gives up when the complaint is no longer new.
PickOfficerIfNew(c) ==
    LET t == <<"assign", c>> IN
    /\ At(t, "assign", "read")
    /\ IF complaint[c].status # "created" THEN Finish(t)
       ELSE \E o \in LeastLoaded(EligibleOfficers(c)) :
               task' = [task EXCEPT ![t] = [@ EXCEPT !.pc = "write", !.officer = o,
                                                     !.to = "assigned"]]
    /\ UNCHANGED <<complaint, history, escalations, sweep, overdue, unlogged>>

PickOfficer(c) ==
    LET t == <<"assign", c>> IN
    /\ At(t, "assign", "read")
    /\ \E o \in LeastLoaded(EligibleOfficers(c)) :
          task' = [task EXCEPT ![t] = [@ EXCEPT !.pc = "write", !.officer = o,
                                                !.to = "assigned"]]
    /\ UNCHANGED <<complaint, history, escalations, sweep, overdue, unlogged>>

NoOfficerAvailable(c) ==
    LET t == <<"assign", c>> IN
    /\ At(t, "assign", "read")
    /\ EligibleOfficers(c) = {}
    /\ Finish(t)
    /\ UNCHANGED <<complaint, history, escalations, sweep, overdue, unlogged>>

\* Both assignments overwrite officer and status whatever the row holds by now.
WriteAssignment(t) ==
    LET c == task[t].complaint IN
    /\ At(t, "assign", "write") \/ At(t, "reassign", "write")
    /\ complaint' = [complaint EXCEPT ![c].officer = task[t].officer,
                                      ![c].status = "assigned"]
    /\ Goto(t, "history")
    /\ UNCHANGED <<history, escalations, sweep, overdue, unlogged>>

\* Mutant: reassignment is announced but not logged.
LogAssignmentSilently(t) ==
    /\ At(t, "assign", "history") \/ At(t, "reassign", "history")
    /\ IF task[t].op = "assign" THEN AppendHistory(t) ELSE UNCHANGED history
    /\ Finish(t)
    /\ UNCHANGED <<complaint, escalations, sweep, overdue, unlogged>>

\* Auto-assignment logs "created" as the previous status, which it never read.
LogAssignment(t) ==
    /\ At(t, "assign", "history") \/ At(t, "reassign", "history")
    /\ AppendHistory(t)
    /\ Finish(t)
    /\ UNCHANGED <<complaint, escalations, sweep, overdue, unlogged>>

-----------------------------------------------------------------------------
(* reassign: no condition on the status; a councillor stays within the ward *)

BeginReassign(t, c, u, o) ==
    /\ "reassign" \in RequestOps
    /\ task[t].pc = "idle"
    /\ complaint[c].status # "absent"
    /\ \/ u \in MLAs
       \/ u \in Councillors /\ u \in InWard[c] /\ o \in InWard[c]
    /\ task' = [task EXCEPT ![t] = [IdleTask EXCEPT !.op = "reassign", !.pc = "write",
                    !.complaint = c, !.to = "assigned", !.officer = o]]
    /\ UNCHANGED <<complaint, history, escalations, sweep, overdue, unlogged>>

\* The note "Reassigned: <reason>" is longer than the 500 characters the history
\* accepts when the reason is near the 500 the route accepts: the entry is refused.
ReassignmentNoteTooLong(t) ==
    /\ At(t, "reassign", "history")
    /\ LoseHistory(t)
    /\ Finish(t)
    /\ UNCHANGED <<complaint, history, escalations, sweep, overdue>>

=============================================================================
