----------------------------- MODULE Grievance -----------------------------
(***************************************************************************)
(* The life of a grievance: the complaint, assignment and escalation       *)
(* services and the SLA engines of all PM2 processes, interleaved at every *)
(* await over the shared database.                                         *)
(***************************************************************************)
EXTENDS ComplaintService, AssignmentService, EscalationService, SlaEngine

Init ==
    /\ complaint = [c \in Complaints |-> AbsentRow]
    /\ history = [c \in Complaints |-> {}]
    /\ escalations = {}
    /\ task = [t \in Tasks |-> IdleTask]
    /\ sweep = [e \in Engines |-> IdleSweep]
    /\ overdue = {}
    /\ unlogged = [c \in Complaints |-> {}]

\* A citizen, or a member of the staff, asks for something.
Arrive ==
    \/ \E c \in Complaints, body \in Bodies : CreateComplaint(c, body)
    \/ \E r \in Requests, c \in Complaints, u \in Staff :
          LET t == <<"http", r>> IN
          \/ \E to \in Status : BeginUpdate(t, c, u, to)
          \/ BeginProof(t, c, u)
          \/ \E o \in Staff : BeginReassign(t, c, u, o)
          \/ BeginEscalate(t, c, u)
    \/ \E x \in escalations : ResolveEscalation(x)

\* A coroutine goes on to its next await.
Proceed(t) ==
    \/ WriteStatus(t)
    \/ LogUpdate(t)
    \/ \E images \in BOOLEAN : WriteProof(t, images)
    \/ WriteAssignment(t)
    \/ LogAssignment(t)
    \/ ReassignmentNoteTooLong(t)
    \/ EscalateBreached(t)
    \/ RecordEscalation(t)
    \/ WriteEscalation(t)
    \/ LogEscalation(t)

\* The creation of a complaint and the assignment that follows it.
Handle(c) ==
    \/ LogCreated(c)
    \/ EmitCreated(c)
    \/ PickOfficer(c)
    \/ NoOfficerAvailable(c)

Sweep(e) ==
    \/ FindBreaches(e)
    \/ \E c \in Complaints : MarkBreached(e, c)
    \/ EmitBreached(e)

Fail ==
    \/ \E t \in Tasks : Abort(t)
    \/ \E e \in Engines : AbortSweep(e)

Next ==
    \/ Arrive
    \/ \E t \in Tasks : Proceed(t)
    \/ \E c \in Complaints : Handle(c) \/ PassDeadline(c)
    \/ \E e \in Engines : Sweep(e)
    \/ Fail

Spec == Init /\ [][Next]_vars

\* The event loop resumes every coroutine whose operation has completed and cron
\* runs every sweep; nothing obliges a user to ask.
Fairness ==
    /\ \A t \in Tasks : WF_vars(Proceed(t))
    /\ \A c \in Complaints : WF_vars(Handle(c))
    /\ \A e \in Engines : WF_vars(Sweep(e))

FairSpec == Spec /\ Fairness

-----------------------------------------------------------------------------
(* Invariants *)

\* A level is one of the ladder's or the one the creation sent.
OnLadder(row) == row.level \in 0..2 \cup {row.sent.level}

\* Every row, history entry, escalation, task and sweep has its shape: a written
\* status is one of the nine of the schema, and a level is one of the ladder's or the
\* one the creation sent.
TypeOK ==
    /\ complaint \in [Complaints -> Row]
    /\ \A c \in Complaints : OnLadder(complaint[c])
    /\ history \in [Complaints -> SUBSET HistoryEntry]
    /\ escalations \subseteq EscalationRecord
    /\ task \in [Tasks -> TaskRecord]
    /\ sweep \in [Engines -> SweepRecord]
    /\ overdue \subseteq Complaints
    /\ unlogged \in [Complaints -> SUBSET Status]

InOrder(row) ==
    /\ row.closedAt => row.verifiedAt \/ row.sent.closedAt
    /\ row.verifiedAt => row.resolvedAt \/ row.sent.verifiedAt
    /\ row.status = "resolved" => row.resolvedAt
    /\ row.status = "verified" => row.verifiedAt
    /\ row.status = "closed" => row.closedAt

\* A closed complaint was verified, and a verified one resolved, although updateStatus
\* writes by id what it validated on an older read.  Only a date that the creation's
\* body brought along stands without the one before it, and none of them stands for a
\* status.
ClosedWasVerified == \A c \in Complaints : InOrder(complaint[c])

Recorded(c, l) == \E x \in escalations : x.complaint = c /\ x.level = l

\* The levels a complaint was sent to, or was filed with.
Reached(c, l) == Recorded(c, l) \/ l <= complaint[c].sent.level

\* The chain officer, councillor, MLA is never skipped: a complaint at some level
\* has an escalation record for every level up to it, whichever escalations raced,
\* except for the levels the creation's body claimed; and the flag and the level do
\* not part unless they were filed apart.
EscalationChainRecorded ==
    /\ \A c \in Complaints :
          /\ complaint[c].escalated =>
                complaint[c].level > 0 \/ complaint[c].sent.escalated
          /\ complaint[c].level > 0 =>
                complaint[c].escalated \/ complaint[c].level = complaint[c].sent.level
          /\ \A l \in 1..complaint[c].level : Reached(c, l)
    /\ \A x \in escalations : \A l \in 1..x.level : Reached(x.complaint, l)

\* The status of a complaint is in its timeline, or the task that wrote it is about
\* to log it, or its entry was lost: no other write gets past the history.
StatusExplained ==
    \A c \in Complaints : complaint[c].status \in Tracked =>
        \/ complaint[c].status \in history[c]
        \/ \E t \in Tasks : /\ task[t].pc = "history"
                            /\ task[t].complaint = c
                            /\ task[t].to = complaint[c].status
        \/ complaint[c].status \in unlogged[c]

\* An engine announces a breach of a complaint at most once, so its escalation
\* handler is never started again while it runs or after it ran.
BreachAnnouncedOnce ==
    \A e \in Engines : sweep[e].pc = "emit" =>
        /\ complaint[sweep[e].current].breached
        /\ task[<<"breach", <<e, sweep[e].current>>>>].pc = "idle"

-----------------------------------------------------------------------------
(* The services implement the promise *)

Milestones(row) ==
    {m \in {"resolved", "verified", "closed"} :
        \/ m = "resolved" /\ row.resolvedAt
        \/ m = "verified" /\ row.verifiedAt
        \/ m = "closed" /\ row.closedAt}

Promise == INSTANCE GrievancePromise WITH
    Levels <- {body.level : body \in Bodies},
    filed <- {c \in Complaints : complaint[c].status # "absent"},
    milestones <- [c \in Complaints |-> Milestones(complaint[c])],
    ladder <- [c \in Complaints |-> {l \in 1..2 : Reached(c, l)}],
    level <- [c \in Complaints |-> complaint[c].level]

\* Whatever requests, sweeps and failures interleave, the milestones of a filed
\* complaint come in order and stay, and its escalations climb the ladder rung by rung.
ImplementsPromise == Promise!Spec

-----------------------------------------------------------------------------
(* Liveness, where nothing fails *)

\* A complaint that a sweep has marked as breached climbs the ladder.  (One that was
\* filed as breached is never swept, and one filed at a level past the councillor's
\* is refused.)
BreachEscalates ==
    \A c \in Complaints :
        (complaint[c].breached /\ ~complaint[c].sent.breached
            /\ complaint[c].sent.level \in {0, 1})
        ~> complaint[c].level > complaint[c].sent.level

\* An unsettled complaint past its deadline is found by some engine, unless it is
\* settled first.
OverdueIsFound ==
    \A c \in Complaints :
        (c \in overdue /\ complaint[c].status \notin Settled)
            ~> (complaint[c].breached \/ complaint[c].status \in Settled)

\* A new complaint gets an officer if its ward has one.
EveryComplaintAssigned ==
    \A c \in Complaints : EligibleOfficers(c) # {} =>
        (complaint[c].status = "created" ~> complaint[c].officer # None)

-----------------------------------------------------------------------------
(* What documents say of any number of processes and the code keeps with one engine *)

\* PROJECT_DOCUMENTATION.md: instances can be added without end.  Then one missed
\* deadline, without a staff escalation, still escalates by one level only.
OneBreachOneLevel ==
    "escalate" \notin RequestOps =>
        \A c \in Complaints :
            complaint[c].level \in {complaint[c].sent.level, complaint[c].sent.level + 1}

=============================================================================
