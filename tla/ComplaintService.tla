------------------------- MODULE ComplaintService --------------------------
(***************************************************************************)
(* complaint.service.ts: createComplaint, updateStatus and                 *)
(* addResolutionProof.  The delayed SLA_CHECK job that create and update   *)
(* enqueue is left out: its worker only logs.                              *)
(***************************************************************************)
EXTENDS ComplaintDb

Role(u) == CASE u \in Officers    -> "service_officer"
             [] u \in Councillors -> "ward_councillor"
             [] u \in MLAs        -> "mla"

\* _validateStatusTransition: the transition table ...
Transitions ==
    [absent      |-> {},
     created     |-> {"assigned"},
     assigned    |-> {"in_progress", "rejected", "escalated"},
     in_progress |-> {"resolved", "reopened", "escalated"},
     resolved    |-> {"verified", "reopened"},
     verified    |-> {"closed"},
     escalated   |-> {"assigned", "in_progress"},
     reopened    |-> {"in_progress"},
     rejected    |-> {},
     closed      |-> {}]

\* ... and the statuses a role may set.
RoleTransitions ==
    [service_officer |-> {"in_progress", "resolved"},
     ward_councillor |-> {"verified", "reopened", "escalated"},
     mla             |-> Status]

ValidTransition(from, to, u) ==
    /\ to \in Transitions[from]
    /\ to \in RoleTransitions[Role(u)]

\* _checkComplaintAccess for the three staff roles.
MayAccess(u, c) ==
    \/ u \in MLAs
    \/ u \in Officers /\ complaint[c].officer \in {None, u}
    \/ u \in Councillors /\ u \in InWard[c]

-----------------------------------------------------------------------------
(* createComplaint: insert the row, log it, announce it to the event bus *)

\* The row of a new complaint: what the body carries is kept, the status is not.
Filed(body) ==
    [status |-> "created", officer |-> body.officer, level |-> body.level,
     escalated |-> body.escalated, breached |-> body.breached, proof |-> body.proof,
     resolvedAt |-> body.resolvedAt, verifiedAt |-> body.verifiedAt,
     closedAt |-> body.closedAt, sent |-> body]

CreateComplaint(c, body) ==
    LET t == <<"create", c>> IN
    /\ task[t].pc = "idle"
    /\ complaint' = [complaint EXCEPT ![c] = Filed(body)]
    /\ task' = [task EXCEPT ![t] = [IdleTask EXCEPT !.op = "create", !.pc = "history",
                                        !.complaint = c, !.to = "created"]]
    /\ UNCHANGED <<history, escalations, sweep, overdue, unlogged>>

LogCreated(c) ==
    LET t == <<"create", c>> IN
    /\ At(t, "create", "history")
    /\ AppendHistory(t)
    /\ Goto(t, "emit")
    /\ UNCHANGED <<complaint, escalations, sweep, overdue, unlogged>>

\* The emit runs the auto-assignment subscriber up to its first await.
EmitCreated(c) ==
    LET t == <<"create", c>> IN
    /\ At(t, "create", "emit")
    /\ task' = [task EXCEPT ![t] = Ended(t),
                            ![<<"assign", c>>] = [IdleTask EXCEPT !.op = "assign",
                                !.pc = "read", !.complaint = c]]
    /\ UNCHANGED <<complaint, history, escalations, sweep, overdue, unlogged>>

-----------------------------------------------------------------------------
(* updateStatus *)

\* The read and, on its result, the access and transition checks.  A request they
\* refuse ends with an error and changes nothing.
BeginUpdate(t, c, u, to) ==
    /\ "update" \in RequestOps
    /\ task[t].pc = "idle"
    /\ MayAccess(u, c)
    /\ ValidTransition(complaint[c].status, to, u)
    /\ task' = [task EXCEPT ![t] = [IdleTask EXCEPT !.op = "update", !.pc = "write",
                    !.complaint = c, !.to = to]]
    /\ UNCHANGED <<complaint, history, escalations, sweep, overdue, unlogged>>

\* Mutant: reopening also clears resolvedAt.
WithStatusUnresolving(row, to) ==
    [row EXCEPT !.status = to,
                !.resolvedAt = (@ /\ to # "reopened") \/ to = "resolved",
                !.verifiedAt = @ \/ to = "verified",
                !.closedAt = @ \/ to = "closed",
                !.proof = @ /\ to # "reopened"]

\* The row after the status is set, with the side effects of the new status.
WithStatus(row, to) ==
    [row EXCEPT !.status = to,
                !.resolvedAt = @ \/ to = "resolved",
                !.verifiedAt = @ \/ to = "verified",
                !.closedAt = @ \/ to = "closed",
                !.proof = @ /\ to # "reopened"]

\* The update is by id alone: it does not ask that the row is still as it was read.
WriteStatus(t) ==
    LET c == task[t].complaint IN
    /\ At(t, "update", "write")
    /\ complaint' = [complaint EXCEPT ![c] = WithStatus(@, task[t].to)]
    /\ Goto(t, "history")
    /\ UNCHANGED <<history, escalations, sweep, overdue, unlogged>>

LogUpdate(t) ==
    /\ At(t, "update", "history")
    /\ AppendHistory(t)
    /\ Finish(t)
    /\ UNCHANGED <<complaint, escalations, sweep, overdue, unlogged>>

-----------------------------------------------------------------------------
(* addResolutionProof: only the assigned officer, in any status *)

BeginProof(t, c, u) ==
    /\ "proof" \in RequestOps
    /\ task[t].pc = "idle"
    /\ complaint[c].status # "absent"
    /\ u \in Officers
    /\ complaint[c].officer = u
    /\ task' = [task EXCEPT ![t] = [IdleTask EXCEPT !.op = "proof", !.pc = "write",
                    !.complaint = c]]
    /\ UNCHANGED <<complaint, history, escalations, sweep, overdue, unlogged>>

\* The list of images that is stored may be empty.
WriteProof(t, images) ==
    LET c == task[t].complaint IN
    /\ At(t, "proof", "write")
    /\ complaint' = [complaint EXCEPT ![c].proof = images]
    /\ Finish(t)
    /\ UNCHANGED <<history, escalations, sweep, overdue, unlogged>>

=============================================================================
