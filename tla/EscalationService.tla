------------------------- MODULE EscalationService -------------------------
(***************************************************************************)
(* escalation.service.ts: escalateComplaint, run by a staff request or by  *)
(* the subscriber of SLA_BREACHED, and resolveEscalation.                  *)
(***************************************************************************)
EXTENDS ComplaintDb

\* Mutant: nothing stops an escalation past the MLA.
EscalationFromUncapped(t, c, u) ==
    [IdleTask EXCEPT !.op = "escalate", !.pc = "record", !.complaint = c,
        !.to = "escalated", !.level = complaint[c].level + 1,
        !.authored = u # None \/ complaint[c].officer # None]

\* The task after the complaint was read: only the levels after 0 and 1 have somebody
\* to escalate to.
EscalationFrom(t, c, u) ==
    IF complaint[c].level \notin {0, 1} THEN Ended(t)
    ELSE [IdleTask EXCEPT !.op = "escalate", !.pc = "record", !.complaint = c,
              !.to = "escalated", !.level = complaint[c].level + 1,
              !.authored = u # None \/ complaint[c].officer # None]

\* A staff request: neither the access nor the status of the complaint is checked.
BeginEscalate(t, c, u) ==
    /\ "escalate" \in RequestOps
    /\ task[t].pc = "idle"
    /\ complaint[c].status # "absent"
    /\ task' = [task EXCEPT ![t] = EscalationFrom(t, c, u)]
    /\ UNCHANGED <<complaint, history, escalations, sweep, overdue, unlogged>>

\* Mutant: a complaint without an officer has nobody to escalate from.
EscalateBreachedAssigned(t) ==
    /\ At(t, "escalate", "read")
    /\ task' = [task EXCEPT ![t] = IF complaint[task[t].complaint].officer = None
                                   THEN Ended(t)
                                   ELSE EscalationFrom(t, task[t].complaint, None)]
    /\ UNCHANGED <<complaint, history, escalations, sweep, overdue, unlogged>>

\* The subscriber of SLA_BREACHED reads the complaint again.
EscalateBreached(t) ==
    /\ At(t, "escalate", "read")
    /\ task' = [task EXCEPT ![t] = EscalationFrom(t, task[t].complaint, None)]
    /\ UNCHANGED <<complaint, history, escalations, sweep, overdue, unlogged>>

RecordEscalation(t) ==
    /\ At(t, "escalate", "record")
    /\ escalations' = escalations \cup
           {[complaint |-> task[t].complaint, level |-> task[t].level, resolved |-> FALSE]}
    /\ Goto(t, "write")
    /\ UNCHANGED <<complaint, history, sweep, overdue, unlogged>>

\* Mutant: the level is incremented in place instead of written.
WriteEscalationIncrement(t) ==
    LET c == task[t].complaint IN
    /\ At(t, "escalate", "write")
    /\ complaint' = [complaint EXCEPT ![c].level = @ + 1,
                                      ![c].escalated = TRUE,
                                      ![c].status = "escalated"]
    /\ Goto(t, "history")
    /\ UNCHANGED <<history, escalations, sweep, overdue, unlogged>>

\* The level written is the one computed from the read, the status whatever it was.
WriteEscalation(t) ==
    LET c == task[t].complaint IN
    /\ At(t, "escalate", "write")
    /\ complaint' = [complaint EXCEPT ![c].level = task[t].level,
                                      ![c].escalated = TRUE,
                                      ![c].status = "escalated"]
    /\ Goto(t, "history")
    /\ UNCHANGED <<history, escalations, sweep, overdue, unlogged>>

\* Mutant: an entry without author is skipped and nobody knows.
LogEscalationSkipping(t) ==
    /\ At(t, "escalate", "history")
    /\ IF task[t].authored THEN AppendHistory(t) ELSE UNCHANGED history
    /\ Finish(t)
    /\ UNCHANGED <<complaint, escalations, sweep, overdue, unlogged>>

\* changedBy is the requester or else the officer that was read; without either the
\* entry fails the schema's validation, after the status was written.
LogEscalation(t) ==
    /\ At(t, "escalate", "history")
    /\ IF task[t].authored
       THEN AppendHistory(t) /\ UNCHANGED unlogged
       ELSE LoseHistory(t) /\ UNCHANGED history
    /\ Finish(t)
    /\ UNCHANGED <<complaint, escalations, sweep, overdue>>

\* Mutant: a resolved escalation is deleted.
ResolveEscalationDeleting(x) ==
    /\ x \in escalations
    /\ escalations' = escalations \ {x}
    /\ UNCHANGED <<complaint, history, task, sweep, overdue, unlogged>>

\* resolveEscalation touches the escalation only, not the complaint.
ResolveEscalation(x) ==
    /\ x \in escalations
    /\ escalations' = (escalations \ {x}) \cup {[x EXCEPT !.resolved = TRUE]}
    /\ UNCHANGED <<complaint, history, task, sweep, overdue, unlogged>>

=============================================================================
