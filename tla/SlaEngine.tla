----------------------------- MODULE SlaEngine -----------------------------
(***************************************************************************)
(* sla.engine.ts: the sweep that marks overdue complaints and announces    *)
(* each breach.  Every PM2 process runs its own engine.  A sweep is shorter*)
(* than the half hour between two of them, so an engine runs one at a time.*)
(* The hourly inactivity check only emits an event nobody subscribes to.   *)
(***************************************************************************)
EXTENDS ComplaintDb

SweepRecord == [pc : {"idle", "mark", "emit"}, todo : SUBSET Complaints,
                current : Complaints \cup {None}]

IdleSweep == [pc |-> "idle", todo |-> {}, current |-> None]

Settled == {"resolved", "verified", "closed", "rejected"}

\* Mutant: complaints already marked are found again.
SLABreachedAgain == {c \in overdue : complaint[c].status \notin Settled}

\* Mutant: only complaints that are worked on are looked at.
SLABreachedInWork ==
    {c \in overdue : /\ ~complaint[c].breached
                     /\ complaint[c].status \in {"assigned", "in_progress"}}

\* findSLABreached
SLABreached ==
    {c \in overdue : /\ ~complaint[c].breached
                     /\ complaint[c].status \notin Settled}

\* The loop over what the query returned ends when nothing is left of it.
NextOf(todo) == IF todo = {} THEN IdleSweep
                ELSE [pc |-> "mark", todo |-> todo, current |-> None]

FindBreaches(e) ==
    /\ sweep[e].pc = "idle"
    /\ SLABreached # {}
    /\ sweep' = [sweep EXCEPT ![e] = NextOf(SLABreached)]
    /\ UNCHANGED <<complaint, history, escalations, task, overdue, unlogged>>

MarkBreached(e, c) ==
    /\ sweep[e].pc = "mark"
    /\ c \in sweep[e].todo
    /\ complaint' = [complaint EXCEPT ![c].breached = TRUE]
    /\ sweep' = [sweep EXCEPT ![e] = [pc |-> "emit", todo |-> @.todo \ {c},
                                      current |-> c]]
    /\ UNCHANGED <<history, escalations, task, overdue, unlogged>>

\* The emit runs the escalation subscriber up to its first read and goes on.
EmitBreached(e) ==
    LET c == sweep[e].current IN
    /\ sweep[e].pc = "emit"
    /\ task' = [task EXCEPT ![<<"breach", <<e, c>>>>] =
                   [IdleTask EXCEPT !.op = "escalate", !.pc = "read", !.complaint = c]]
    /\ sweep' = [sweep EXCEPT ![e] = NextOf(@.todo)]
    /\ UNCHANGED <<complaint, history, escalations, overdue, unlogged>>

\* A failed update, or a crash, ends the sweep for the complaints left.
AbortSweep(e) ==
    /\ Faults
    /\ sweep[e].pc # "idle"
    /\ sweep' = [sweep EXCEPT ![e] = IdleSweep]
    /\ UNCHANGED <<complaint, history, escalations, task, overdue, unlogged>>

\* Time passes the slaDeadline of a complaint.
PassDeadline(c) ==
    /\ complaint[c].status # "absent"
    /\ c \notin overdue
    /\ overdue' = overdue \cup {c}
    /\ UNCHANGED <<complaint, history, escalations, task, sweep, unlogged>>

=============================================================================
