-------------------------- MODULE GrievanceProofs --------------------------
(***************************************************************************)
(* What holds of Grievance for every set of complaints, users, engines and *)
(* requests: its types, which tasks and sweeps know a complaint, that a    *)
(* breach is announced once, and that the timeline explains the status.    *)
(* Then that Grievance implements GrievancePromise: milestones come in     *)
(* order and the escalation ladder is climbed rung by rung.  Each half     *)
(* needs an invariant of its own, and the steps of the services are mapped *)
(* to steps of the promise.  At the end, what one SLA engine promises.     *)
(***************************************************************************)
EXTENDS Grievance, TLAPS

\* A complaint is filed, with one body or another.
Creates(c) == \E body \in Bodies : CreateComplaint(c, body)

\* The steps of Next, one by one, with the parameters they are taken for.
Step ==
    \/ \E c \in Complaints :
          Creates(c) \/ LogCreated(c) \/ EmitCreated(c) \/ PickOfficer(c)
          \/ NoOfficerAvailable(c) \/ PassDeadline(c)
    \/ \E r \in Requests, c \in Complaints, u \in Staff :
          \/ \E to \in Status : BeginUpdate(<<"http", r>>, c, u, to)
          \/ BeginProof(<<"http", r>>, c, u)
          \/ \E o \in Staff : BeginReassign(<<"http", r>>, c, u, o)
          \/ BeginEscalate(<<"http", r>>, c, u)
    \/ \E t \in Tasks : Proceed(t) \/ Abort(t)
    \/ \E e \in Engines :
          \/ FindBreaches(e)
          \/ \E c \in Complaints : MarkBreached(e, c)
          \/ EmitBreached(e)
          \/ AbortSweep(e)
    \/ \E x \in escalations : ResolveEscalation(x)

LEMMA NextIsStep == Next => Step
BY DEF Next, Arrive, Handle, Sweep, Fail, Step, Creates

-----------------------------------------------------------------------------
(* Type correctness *)

\* A task that runs has a complaint, and the status and the level it is going to
\* write.
BusyTask ==
    {r \in TaskRecord :
        /\ r.pc \notin {"idle", "done"} => r.complaint \in Complaints
        /\ (r.pc \in {"record", "write", "history"} /\ r.op # "proof") => r.to \in Status
        /\ (r.pc \in {"record", "write"} /\ r.op = "escalate") => r.level \in 1..2}

\* A sweep that announces a breach has a complaint.
BusySweep == {s \in SweepRecord : s.pc = "emit" => s.current \in Complaints}

TypeInv ==
    /\ TypeOK
    /\ task \in [Tasks -> BusyTask]
    /\ sweep \in [Engines -> BusySweep]

LEMMA TaskSets ==
    /\ \A r \in Requests : <<"http", r>> \in HttpTask
    /\ \A c \in Complaints : <<"create", c>> \in Tasks /\ <<"assign", c>> \in Tasks
    /\ \A e \in Engines, c \in Complaints : <<"breach", <<e, c>>>> \in Tasks
    /\ HttpTask \subseteq Tasks
BY DEF Tasks, HttpTask, CreateTask, AssignTask, BreachTask

LEMMA IdleTaskType == IdleTask \in TaskRecord /\ IdleTask \in BusyTask
BY DEF IdleTask, TaskRecord, BusyTask

LEMMA AbsentRowType == AbsentRow \in Row /\ OnLadder(AbsentRow)
BY DEF AbsentRow, Row, NothingSent, Body, OnLadder

\* The row of a new complaint, whatever was sent with it.
LEMMA FiledType ==
    ASSUME NEW body \in Bodies
    PROVE  /\ Filed(body) \in Row
           /\ Filed(body).level = Filed(body).sent.level
<1>1. body \in Body
  BY BodiesAssumption
<1> QED
  BY <1>1 DEF Filed, Row, Body, Status

\* The three ways in which a row is rewritten.
LEMMA WithStatusType ==
    ASSUME NEW row \in Row, NEW to \in Status
    PROVE  /\ WithStatus(row, to) \in Row
           /\ OnLadder(row) => OnLadder(WithStatus(row, to))
<1> DEFINE resolvedAt == row.resolvedAt \/ to = "resolved"
           verifiedAt == row.verifiedAt \/ to = "verified"
           closedAt == row.closedAt \/ to = "closed"
           proof == row.proof /\ to # "reopened"
<1>1. WithStatus(row, to) = [row EXCEPT !.status = to, !.resolvedAt = resolvedAt,
                                 !.verifiedAt = verifiedAt, !.closedAt = closedAt,
                                 !.proof = proof]
  BY DEF WithStatus
<1>2. /\ resolvedAt \in BOOLEAN /\ verifiedAt \in BOOLEAN
      /\ closedAt \in BOOLEAN /\ proof \in BOOLEAN
  OBVIOUS
<1> HIDE DEF resolvedAt, verifiedAt, closedAt, proof
<1>3. WithStatus(row, to) \in Row
  BY <1>1, <1>2 DEF Row
<1>4. WithStatus(row, to).level = row.level /\ WithStatus(row, to).sent = row.sent
  BY <1>1 DEF Row
<1> QED
  BY <1>3, <1>4 DEF OnLadder

LEMMA AssignedRowType ==
    ASSUME NEW row \in Row, NEW o \in Staff \cup {None}
    PROVE  /\ [row EXCEPT !.officer = o, !.status = "assigned"] \in Row
           /\ OnLadder(row) => OnLadder([row EXCEPT !.officer = o, !.status = "assigned"])
<1> DEFINE new == [row EXCEPT !.officer = o, !.status = "assigned"]
<1>1. new \in Row
  BY DEF Row, Status
<1>2. new.level = row.level /\ new.sent = row.sent
  BY DEF Row
<1> QED
  BY <1>1, <1>2 DEF OnLadder

LEMMA EscalatedRowType ==
    ASSUME NEW row \in Row, NEW l \in 0..2
    PROVE  /\ [row EXCEPT !.level = l, !.escalated = TRUE, !.status = "escalated"] \in Row
           /\ OnLadder([row EXCEPT !.level = l, !.escalated = TRUE, !.status = "escalated"])
<1> DEFINE new == [row EXCEPT !.level = l, !.escalated = TRUE, !.status = "escalated"]
<1>3. l \in Int
  OBVIOUS
<1>1. new \in Row
  BY <1>3, ZenonT(30) DEF Row, Status
<1>2. new.level = l
  BY DEF Row
<1> QED
  BY <1>1, <1>2 DEF OnLadder

\* A well-formed row put in the place of another keeps the rows well-formed.
LEMMA UpdateRow ==
    ASSUME TypeInv, NEW c \in Complaints, NEW row \in Row, OnLadder(row),
           complaint' = [complaint EXCEPT ![c] = row]
    PROVE  /\ complaint' \in [Complaints -> Row]
           /\ \A d \in Complaints : OnLadder(complaint'[d])
BY DEF TypeInv, TypeOK

\* A task that has ended is a well-formed one.
LEMMA EndedType == \A t : Ended(t) \in BusyTask
BY IdleTaskType DEF Ended, TaskRecord, BusyTask

\* A well-formed record put in the place of a task keeps the tasks well-formed.
LEMMA UpdateTask ==
    ASSUME TypeInv, NEW t \in Tasks, NEW r \in BusyTask,
           task' = [task EXCEPT ![t] = r]
    PROVE  task' \in [Tasks -> TaskRecord] /\ task' \in [Tasks -> BusyTask]
BY DEF TypeInv, BusyTask

LEMMA FinishType ==
    ASSUME TypeInv, NEW t \in Tasks, Finish(t)
    PROVE  task' \in [Tasks -> TaskRecord] /\ task' \in [Tasks -> BusyTask]
BY UpdateTask, EndedType DEF Finish

\* So does going on to the next await, after a status or a record was written.
LEMMA GotoType ==
    ASSUME TypeInv, NEW t \in Tasks, NEW pc \in {"write", "history", "emit"}, Goto(t, pc),
           task[t].pc \in {"record", "write", "history"}, task[t].op # "proof",
           pc = "write" => task[t].pc = "record"
    PROVE  task' \in [Tasks -> TaskRecord] /\ task' \in [Tasks -> BusyTask]
<1> DEFINE r == [task[t] EXCEPT !.pc = pc]
<1>1. task[t] \in BusyTask
  BY DEF TypeInv
<1>2. r \in BusyTask
  BY <1>1 DEF BusyTask, TaskRecord
<1>3. task' = [task EXCEPT ![t] = r]
  BY DEF Goto
<1> QED
  BY <1>2, <1>3, UpdateTask

\* The history and the lost entries of a task that was about to log.
LEMMA AppendType ==
    ASSUME TypeInv, NEW t \in Tasks, AppendHistory(t)
    PROVE  history' \in [Complaints -> SUBSET HistoryEntry]
BY ScopeAssumption DEF TypeInv, TypeOK, AppendHistory, HistoryEntry

LEMMA LoseType ==
    ASSUME TypeInv, NEW t \in Tasks, LoseHistory(t)
    PROVE  unlogged' \in [Complaints -> SUBSET Status]
BY ScopeAssumption DEF TypeInv, TypeOK, LoseHistory

\* One lemma per step: it keeps the types.
LEMMA CreateComplaintType ==
    ASSUME TypeInv, NEW c \in Complaints, Creates(c)
    PROVE  TypeInv'
<1> DEFINE r == [IdleTask EXCEPT !.op = "create", !.pc = "history", !.complaint = c,
                              !.to = "created"]
<1>1. r \in BusyTask
  BY IdleTaskType DEF BusyTask, TaskRecord, Status
<1>2. task' \in [Tasks -> TaskRecord] /\ task' \in [Tasks -> BusyTask]
  BY <1>1, TaskSets, UpdateTask DEF Creates, CreateComplaint
<1>3. PICK body \in Bodies : complaint' = [complaint EXCEPT ![c] = Filed(body)]
  BY DEF Creates, CreateComplaint
<1>4. /\ complaint' \in [Complaints -> Row]
      /\ \A d \in Complaints : OnLadder(complaint'[d])
  BY <1>3, FiledType, UpdateRow DEF OnLadder
<1> QED
  BY <1>2, <1>4 DEF TypeInv, TypeOK, Creates, CreateComplaint

\* What a creation does to the rows.
LEMMA CreatedRow ==
    ASSUME TypeInv, NEW c \in Complaints, Creates(c)
    PROVE  /\ \E body \in Bodies : complaint'[c] = Filed(body)
           /\ \A d \in Complaints \ {c} : complaint'[d] = complaint[d]
BY DEF Creates, CreateComplaint, TypeInv, TypeOK

LEMMA LogCreatedType ==
    ASSUME TypeInv, NEW c \in Complaints, LogCreated(c)
    PROVE  TypeInv'
<1>1. task' \in [Tasks -> TaskRecord] /\ task' \in [Tasks -> BusyTask]
  BY GotoType, TaskSets DEF LogCreated, At
<1>2. history' \in [Complaints -> SUBSET HistoryEntry]
  BY AppendType, TaskSets DEF LogCreated
<1> QED
  BY <1>1, <1>2 DEF TypeInv, TypeOK, LogCreated

LEMMA EmitCreatedType ==
    ASSUME TypeInv, NEW c \in Complaints, EmitCreated(c)
    PROVE  TypeInv'
<1> DEFINE t == <<"create", c>>
           s == <<"assign", c>>
           r == [IdleTask EXCEPT !.op = "assign", !.pc = "read", !.complaint = c]
<1>1. r \in BusyTask /\ Ended(t) \in BusyTask
  BY EndedType, IdleTaskType DEF BusyTask, TaskRecord
<1>2. task' = [[task EXCEPT ![t] = Ended(t)] EXCEPT ![s] = r]
  BY DEF EmitCreated
<1>3. task' \in [Tasks -> TaskRecord] /\ task' \in [Tasks -> BusyTask]
  BY <1>1, <1>2, TaskSets DEF TypeInv, BusyTask
<1> QED
  BY <1>3 DEF TypeInv, TypeOK, EmitCreated

LEMMA PickOfficerType ==
    ASSUME TypeInv, NEW c \in Complaints, PickOfficer(c)
    PROVE  TypeInv'
<1> DEFINE t == <<"assign", c>>
<1>1. PICK o \in LeastLoaded(EligibleOfficers(c)) :
        task' = [task EXCEPT ![t] = [@ EXCEPT !.pc = "write", !.officer = o,
                                              !.to = "assigned"]]
  BY DEF PickOfficer
<1> DEFINE r == [task[t] EXCEPT !.pc = "write", !.officer = o, !.to = "assigned"]
<1>2. o \in Staff
  BY WardAssumption DEF LeastLoaded, EligibleOfficers, Staff
<1>3. task[t] \in BusyTask /\ At(t, "assign", "read")
  BY TaskSets DEF TypeInv, PickOfficer
<1>4. r \in BusyTask
  BY <1>2, <1>3 DEF BusyTask, TaskRecord, Status, At
<1>5. task' \in [Tasks -> TaskRecord] /\ task' \in [Tasks -> BusyTask]
  BY <1>1, <1>4, TaskSets, UpdateTask
<1> QED
  BY <1>5 DEF TypeInv, TypeOK, PickOfficer

LEMMA NoOfficerAvailableType ==
    ASSUME TypeInv, NEW c \in Complaints, NoOfficerAvailable(c)
    PROVE  TypeInv'
<1>1. task' \in [Tasks -> TaskRecord] /\ task' \in [Tasks -> BusyTask]
  BY FinishType, TaskSets DEF NoOfficerAvailable
<1> QED
  BY <1>1 DEF TypeInv, TypeOK, NoOfficerAvailable

LEMMA PassDeadlineType ==
    ASSUME TypeInv, NEW c \in Complaints, PassDeadline(c)
    PROVE  TypeInv'
BY DEF TypeInv, TypeOK, PassDeadline

LEMMA WriteStatusType ==
    ASSUME TypeInv, NEW t \in Tasks, WriteStatus(t)
    PROVE  TypeInv'
<1> DEFINE c == task[t].complaint
           row == WithStatus(complaint[c], task[t].to)
<1>1. c \in Complaints /\ task[t].to \in Status
  BY DEF TypeInv, BusyTask, WriteStatus, At
<1>2. row \in Row /\ OnLadder(row)
  BY <1>1, WithStatusType DEF TypeInv, TypeOK
<1>3. /\ complaint' \in [Complaints -> Row]
      /\ \A d \in Complaints : OnLadder(complaint'[d])
  BY <1>1, <1>2, UpdateRow DEF WriteStatus
<1>4. task' \in [Tasks -> TaskRecord] /\ task' \in [Tasks -> BusyTask]
  BY GotoType DEF WriteStatus, At
<1> QED
  BY <1>3, <1>4 DEF TypeInv, TypeOK, WriteStatus

LEMMA LogUpdateType ==
    ASSUME TypeInv, NEW t \in Tasks, LogUpdate(t)
    PROVE  TypeInv'
<1>1. task' \in [Tasks -> TaskRecord] /\ task' \in [Tasks -> BusyTask]
  BY FinishType DEF LogUpdate
<1>2. history' \in [Complaints -> SUBSET HistoryEntry]
  BY AppendType DEF LogUpdate
<1> QED
  BY <1>1, <1>2 DEF TypeInv, TypeOK, LogUpdate

LEMMA WriteProofType ==
    ASSUME TypeInv, NEW t \in Tasks, NEW images \in BOOLEAN, WriteProof(t, images)
    PROVE  TypeInv'
<1> DEFINE c == task[t].complaint
           row == [complaint[c] EXCEPT !.proof = images]
<1>1. c \in Complaints
  BY DEF TypeInv, BusyTask, WriteProof, At
<1>2. row \in Row /\ OnLadder(row)
  BY <1>1 DEF TypeInv, TypeOK, Row, OnLadder
<1>3. complaint' = [complaint EXCEPT ![c] = row]
  BY DEF WriteProof
<1>5. /\ complaint' \in [Complaints -> Row]
      /\ \A d \in Complaints : OnLadder(complaint'[d])
  BY <1>1, <1>2, <1>3, UpdateRow
<1>4. task' \in [Tasks -> TaskRecord] /\ task' \in [Tasks -> BusyTask]
  BY FinishType DEF WriteProof
<1> QED
  BY <1>4, <1>5 DEF TypeInv, TypeOK, WriteProof

LEMMA WriteAssignmentType ==
    ASSUME TypeInv, NEW t \in Tasks, WriteAssignment(t)
    PROVE  TypeInv'
<1> DEFINE c == task[t].complaint
           row == [complaint[c] EXCEPT !.officer = task[t].officer, !.status = "assigned"]
<1>1. c \in Complaints /\ task[t].officer \in Staff \cup {None}
  BY DEF TypeInv, BusyTask, TaskRecord, WriteAssignment, At
<1>2. row \in Row /\ OnLadder(row)
  BY <1>1, AssignedRowType DEF TypeInv, TypeOK
<1>3. complaint' = [complaint EXCEPT ![c] = row]
  BY <1>1 DEF TypeInv, TypeOK, WriteAssignment
<1>4. /\ complaint' \in [Complaints -> Row]
      /\ \A d \in Complaints : OnLadder(complaint'[d])
  BY <1>1, <1>2, <1>3, UpdateRow
<1>5. task' \in [Tasks -> TaskRecord] /\ task' \in [Tasks -> BusyTask]
  BY GotoType DEF WriteAssignment, At
<1> QED
  BY <1>4, <1>5 DEF TypeInv, TypeOK, WriteAssignment

LEMMA LogAssignmentType ==
    ASSUME TypeInv, NEW t \in Tasks, LogAssignment(t)
    PROVE  TypeInv'
<1>1. task' \in [Tasks -> TaskRecord] /\ task' \in [Tasks -> BusyTask]
  BY FinishType DEF LogAssignment
<1>2. history' \in [Complaints -> SUBSET HistoryEntry]
  BY AppendType DEF LogAssignment
<1> QED
  BY <1>1, <1>2 DEF TypeInv, TypeOK, LogAssignment

LEMMA ReassignmentNoteTooLongType ==
    ASSUME TypeInv, NEW t \in Tasks, ReassignmentNoteTooLong(t)
    PROVE  TypeInv'
<1>1. task' \in [Tasks -> TaskRecord] /\ task' \in [Tasks -> BusyTask]
  BY FinishType DEF ReassignmentNoteTooLong
<1>2. unlogged' \in [Complaints -> SUBSET Status]
  BY LoseType DEF ReassignmentNoteTooLong
<1> QED
  BY <1>1, <1>2 DEF TypeInv, TypeOK, ReassignmentNoteTooLong

LEMMA RecordEscalationType ==
    ASSUME TypeInv, NEW t \in Tasks, RecordEscalation(t)
    PROVE  TypeInv'
<1>1. task[t].complaint \in Complaints /\ task[t].level \in 1..2
  BY DEF TypeInv, BusyTask, RecordEscalation, At
<1>2. [complaint |-> task[t].complaint, level |-> task[t].level, resolved |-> FALSE]
        \in EscalationRecord
  BY <1>1 DEF EscalationRecord
<1>3. task' \in [Tasks -> TaskRecord] /\ task' \in [Tasks -> BusyTask]
  BY GotoType DEF RecordEscalation, At
<1> QED
  BY <1>2, <1>3 DEF TypeInv, TypeOK, RecordEscalation

LEMMA WriteEscalationType ==
    ASSUME TypeInv, NEW t \in Tasks, WriteEscalation(t)
    PROVE  TypeInv'
<1> DEFINE c == task[t].complaint
           row == [complaint[c] EXCEPT !.level = task[t].level, !.escalated = TRUE,
                                       !.status = "escalated"]
<1>1. c \in Complaints /\ task[t].level \in 0..2
  BY DEF TypeInv, BusyTask, WriteEscalation, At
<1>2. row \in Row /\ OnLadder(row)
  BY <1>1, EscalatedRowType DEF TypeInv, TypeOK
<1>3. complaint' = [complaint EXCEPT ![c] = row]
  BY <1>1 DEF TypeInv, TypeOK, WriteEscalation
<1>4. /\ complaint' \in [Complaints -> Row]
      /\ \A d \in Complaints : OnLadder(complaint'[d])
  BY <1>1, <1>2, <1>3, UpdateRow
<1>5. task' \in [Tasks -> TaskRecord] /\ task' \in [Tasks -> BusyTask]
  BY GotoType DEF WriteEscalation, At
<1> QED
  BY <1>4, <1>5 DEF TypeInv, TypeOK, WriteEscalation

LEMMA LogEscalationType ==
    ASSUME TypeInv, NEW t \in Tasks, LogEscalation(t)
    PROVE  TypeInv'
<1>1. task' \in [Tasks -> TaskRecord] /\ task' \in [Tasks -> BusyTask]
  BY FinishType DEF LogEscalation
<1>2. history' \in [Complaints -> SUBSET HistoryEntry]
  BY AppendType DEF LogEscalation, TypeInv, TypeOK
<1>3. unlogged' \in [Complaints -> SUBSET Status]
  BY LoseType DEF LogEscalation, TypeInv, TypeOK
<1> QED
  BY <1>1, <1>2, <1>3 DEF TypeInv, TypeOK, LogEscalation

LEMMA AbortType ==
    ASSUME TypeInv, NEW t \in Tasks, Abort(t)
    PROVE  TypeInv'
<1>1. task' \in [Tasks -> TaskRecord] /\ task' \in [Tasks -> BusyTask]
  BY FinishType DEF Abort
<1>2. unlogged' \in [Complaints -> SUBSET Status]
  BY LoseType DEF Abort, TypeInv, TypeOK
<1> QED
  BY <1>1, <1>2 DEF TypeInv, TypeOK, Abort

LEMMA EscalationFromType ==
    ASSUME TypeInv, NEW t \in Tasks, NEW c \in Complaints, NEW u
    PROVE  EscalationFrom(t, c, u) \in BusyTask
<1>1. CASE complaint[c].level \notin {0, 1}
  BY <1>1, EndedType DEF EscalationFrom
<1>2. CASE complaint[c].level \in {0, 1}
  <2> DEFINE l == complaint[c].level + 1
             b == u # None \/ complaint[c].officer # None
             r == [IdleTask EXCEPT !.op = "escalate", !.pc = "record", !.complaint = c,
                       !.to = "escalated", !.level = l, !.authored = b]
  <2>1. l \in 1..2 /\ l \in 0..2 /\ b \in BOOLEAN
    BY <1>2 DEF TypeInv, TypeOK, Row
  <2> HIDE DEF l, b
  <2>2. r \in TaskRecord
    BY <2>1, IdleTaskType DEF TaskRecord, Status
  <2>3. r \in BusyTask
    BY <2>1, <2>2, IdleTaskType DEF BusyTask, TaskRecord, Status
  <2> QED
    BY <1>2, <2>3 DEF EscalationFrom, l, b
<1> QED
  BY <1>1, <1>2

LEMMA EscalateBreachedType ==
    ASSUME TypeInv, NEW t \in Tasks, EscalateBreached(t)
    PROVE  TypeInv'
<1> DEFINE c == task[t].complaint
<1>1. c \in Complaints
  BY DEF TypeInv, BusyTask, EscalateBreached, At
<1>2. EscalationFrom(t, c, None) \in BusyTask
  BY <1>1, EscalationFromType
<1>3. task' \in [Tasks -> TaskRecord] /\ task' \in [Tasks -> BusyTask]
  BY <1>2, UpdateTask DEF EscalateBreached
<1> QED
  BY <1>3 DEF TypeInv, TypeOK, EscalateBreached

LEMMA MarkBreachedType ==
    ASSUME TypeInv, NEW e \in Engines, NEW c \in Complaints, MarkBreached(e, c)
    PROVE  TypeInv'
<1> DEFINE row == [complaint[c] EXCEPT !.breached = TRUE]
           s == [pc |-> "emit", todo |-> sweep[e].todo \ {c}, current |-> c]
<1>1. row \in Row /\ OnLadder(row)
  <2>1. complaint[c] \in Row /\ OnLadder(complaint[c])
    BY DEF TypeInv, TypeOK
  <2>2. row \in Row
    BY <2>1, ZenonT(30) DEF Row
  <2>3. row.level = complaint[c].level /\ row.sent = complaint[c].sent
    BY <2>1 DEF Row
  <2> QED
    BY <2>1, <2>2, <2>3 DEF OnLadder
<1>2. /\ complaint' \in [Complaints -> Row]
      /\ \A d \in Complaints : OnLadder(complaint'[d])
  BY <1>1, UpdateRow DEF MarkBreached
<1>3. s \in SweepRecord /\ s \in BusySweep
  BY DEF TypeInv, TypeOK, SweepRecord, BusySweep
<1> QED
  BY <1>2, <1>3 DEF TypeInv, TypeOK, MarkBreached

LEMMA NextOfType ==
    ASSUME NEW todo \in SUBSET Complaints
    PROVE  NextOf(todo) \in SweepRecord /\ NextOf(todo) \in BusySweep
BY DEF NextOf, IdleSweep, SweepRecord, BusySweep

LEMMA FindBreachesType ==
    ASSUME TypeInv, NEW e \in Engines, FindBreaches(e)
    PROVE  TypeInv'
<1>1. SLABreached \in SUBSET Complaints
  BY DEF TypeInv, TypeOK, SLABreached
<1> QED
  BY <1>1, NextOfType DEF TypeInv, TypeOK, FindBreaches

LEMMA EmitBreachedType ==
    ASSUME TypeInv, NEW e \in Engines, EmitBreached(e)
    PROVE  TypeInv'
<1> DEFINE c == sweep[e].current
           r == [IdleTask EXCEPT !.op = "escalate", !.pc = "read", !.complaint = c]
<1>1. c \in Complaints /\ sweep[e].todo \in SUBSET Complaints
  BY DEF TypeInv, TypeOK, BusySweep, SweepRecord, EmitBreached
<1>2. r \in BusyTask
  BY <1>1, IdleTaskType DEF BusyTask, TaskRecord
<1>3. task' \in [Tasks -> TaskRecord] /\ task' \in [Tasks -> BusyTask]
  BY <1>1, <1>2, TaskSets, UpdateTask DEF EmitBreached
<1> QED
  BY <1>1, <1>3, NextOfType DEF TypeInv, TypeOK, EmitBreached

LEMMA AbortSweepType ==
    ASSUME TypeInv, NEW e \in Engines, AbortSweep(e)
    PROVE  TypeInv'
BY DEF TypeInv, TypeOK, AbortSweep, IdleSweep, SweepRecord, BusySweep

LEMMA ResolveEscalationType ==
    ASSUME TypeInv, NEW x \in escalations, ResolveEscalation(x)
    PROVE  TypeInv'
<1>1. [x EXCEPT !.resolved = TRUE] \in EscalationRecord
  BY DEF TypeInv, TypeOK, EscalationRecord
<1> QED
  BY <1>1 DEF TypeInv, TypeOK, ResolveEscalation

LEMMA BeginUpdateType ==
    ASSUME TypeInv, NEW t \in HttpTask, NEW c \in Complaints, NEW u \in Staff,
           NEW to \in Status, BeginUpdate(t, c, u, to)
    PROVE  TypeInv'
<1> DEFINE r == [IdleTask EXCEPT !.op = "update", !.pc = "write", !.complaint = c,
                              !.to = to]
<1>1. r \in BusyTask
  BY IdleTaskType, ZenonT(30) DEF BusyTask, TaskRecord, Status
<1>2. task' \in [Tasks -> TaskRecord] /\ task' \in [Tasks -> BusyTask]
  BY <1>1, TaskSets, UpdateTask DEF BeginUpdate
<1> QED
  BY <1>2 DEF TypeInv, TypeOK, BeginUpdate

LEMMA BeginProofType ==
    ASSUME TypeInv, NEW t \in HttpTask, NEW c \in Complaints, NEW u \in Staff,
           BeginProof(t, c, u)
    PROVE  TypeInv'
<1> DEFINE r == [IdleTask EXCEPT !.op = "proof", !.pc = "write", !.complaint = c]
<1>1. r \in BusyTask
  BY IdleTaskType DEF BusyTask, TaskRecord, Status
<1>2. task' \in [Tasks -> TaskRecord] /\ task' \in [Tasks -> BusyTask]
  BY <1>1, TaskSets, UpdateTask DEF BeginProof
<1> QED
  BY <1>2 DEF TypeInv, TypeOK, BeginProof

LEMMA BeginReassignType ==
    ASSUME TypeInv, NEW t \in HttpTask, NEW c \in Complaints, NEW u \in Staff,
           NEW o \in Staff, BeginReassign(t, c, u, o)
    PROVE  TypeInv'
<1> DEFINE r == [IdleTask EXCEPT !.op = "reassign", !.pc = "write", !.complaint = c,
                              !.to = "assigned", !.officer = o]
<1>1. r \in BusyTask
  BY IdleTaskType, ZenonT(30) DEF BusyTask, TaskRecord, Status
<1>2. task' \in [Tasks -> TaskRecord] /\ task' \in [Tasks -> BusyTask]
  BY <1>1, TaskSets, UpdateTask DEF BeginReassign
<1> QED
  BY <1>2 DEF TypeInv, TypeOK, BeginReassign

LEMMA BeginEscalateType ==
    ASSUME TypeInv, NEW t \in HttpTask, NEW c \in Complaints, NEW u \in Staff,
           BeginEscalate(t, c, u)
    PROVE  TypeInv'
<1>1. task' \in [Tasks -> TaskRecord] /\ task' \in [Tasks -> BusyTask]
  BY EscalationFromType, UpdateTask, TaskSets DEF BeginEscalate
<1> QED
  BY <1>1 DEF TypeInv, TypeOK, BeginEscalate

LEMMA TypeInvInit == Init => TypeInv
<1> SUFFICES ASSUME Init PROVE TypeInv
  OBVIOUS
<1>1. IdleSweep \in SweepRecord /\ IdleSweep \in BusySweep
  BY DEF IdleSweep, SweepRecord, BusySweep
<1> QED
  BY <1>1, IdleTaskType, AbsentRowType DEF Init, TypeInv, TypeOK

LEMMA TypeInvStep == TypeInv /\ [Next]_vars => TypeInv'
<1> SUFFICES ASSUME TypeInv, [Next]_vars PROVE TypeInv'
  OBVIOUS
<1>1. CASE UNCHANGED vars
  BY <1>1 DEF vars, TypeInv, TypeOK
<1>2. CASE Next
  <2> USE <1>2, NextIsStep
  <2>1. ASSUME NEW c \in Complaints,
               Creates(c) \/ LogCreated(c) \/ EmitCreated(c) \/ PickOfficer(c)
                 \/ NoOfficerAvailable(c) \/ PassDeadline(c)
        PROVE  TypeInv'
    BY <2>1, CreateComplaintType, LogCreatedType, EmitCreatedType, PickOfficerType,
          NoOfficerAvailableType, PassDeadlineType
  <2>2. ASSUME NEW r \in Requests, NEW c \in Complaints, NEW u \in Staff,
               \/ \E to \in Status : BeginUpdate(<<"http", r>>, c, u, to)
               \/ BeginProof(<<"http", r>>, c, u)
               \/ \E o \in Staff : BeginReassign(<<"http", r>>, c, u, o)
               \/ BeginEscalate(<<"http", r>>, c, u)
        PROVE  TypeInv'
    BY <2>2, TaskSets, BeginUpdateType, BeginProofType, BeginReassignType, BeginEscalateType
  <2>3. ASSUME NEW t \in Tasks, Proceed(t) \/ Abort(t)
        PROVE  TypeInv'
    BY <2>3, WriteStatusType, LogUpdateType, WriteProofType, WriteAssignmentType,
          LogAssignmentType, ReassignmentNoteTooLongType, RecordEscalationType,
          WriteEscalationType, LogEscalationType, EscalateBreachedType, AbortType
       DEF Proceed
  <2>4. ASSUME NEW e \in Engines,
               \/ FindBreaches(e)
               \/ \E c \in Complaints : MarkBreached(e, c)
               \/ EmitBreached(e)
               \/ AbortSweep(e)
        PROVE  TypeInv'
    BY <2>4, FindBreachesType, MarkBreachedType, EmitBreachedType, AbortSweepType
  <2>5. ASSUME NEW x \in escalations, ResolveEscalation(x)
        PROVE  TypeInv'
    BY <2>5, ResolveEscalationType
  <2> QED
    BY <2>1, <2>2, <2>3, <2>4, <2>5 DEF Step
<1> QED
  BY <1>1, <1>2

\* Every reachable state is well typed: whatever the requests, the sweeps and the
\* failures, a level is one of the ladder's or the one the creation's body sent, an
\* escalation about to be written is of one of the two levels of the chain, and only
\* statuses of the schema are written.
THEOREM TypeCorrect == Spec => []TypeInv
BY TypeInvInit, TypeInvStep, PTL DEF Spec

\* In particular the type invariant that the runs check.
THEOREM TypeOKHolds == Spec => []TypeOK
<1>1. TypeInv => TypeOK
  BY DEF TypeInv
<1> QED
  BY <1>1, TypeCorrect, PTL

-----------------------------------------------------------------------------
(* A complaint that was not created yet is left alone *)

\* No task, no sweep and no deadline knows the complaint, and its row is the empty one.
Unborn(c) ==
    /\ complaint[c] = AbsentRow
    /\ c \notin overdue
    /\ \A t \in Tasks : task[t].complaint # c
    /\ \A e \in Engines : c \notin sweep[e].todo /\ sweep[e].current # c

\* The slot of its creation is idle for an unborn complaint only.
Fresh == \A c \in Complaints : task[<<"create", c>>].pc = "idle" => Unborn(c)

LEMMA FreshInit == Init => Fresh
BY TaskSets, StaffAssumption DEF Init, Fresh, Unborn, IdleTask, IdleSweep

\* What the steps of a task have in common: it works on a complaint that exists, and
\* it does not make the slot of a creation idle.
LEMMA FinishKeeps ==
    ASSUME TypeInv, NEW t \in Tasks, Finish(t), NEW c \in Complaints
    PROVE  /\ task'[<<"create", c>>].pc = "idle" => task[<<"create", c>>].pc = "idle"
           /\ Unborn(c) => \A s \in Tasks : task'[s].complaint # c
BY TaskSets, StaffAssumption
   DEF TypeInv, Finish, Ended, IdleTask, HttpTask, Unborn

LEMMA GotoKeeps ==
    ASSUME TypeInv, NEW t \in Tasks, NEW pc \in {"write", "history", "emit"}, Goto(t, pc),
           NEW c \in Complaints
    PROVE  /\ task'[<<"create", c>>].pc = "idle" => task[<<"create", c>>].pc = "idle"
           /\ Unborn(c) => \A s \in Tasks : task'[s].complaint # c
BY TaskSets DEF TypeInv, TypeOK, TaskRecord, Goto, Unborn

\* A task is started for a complaint that exists.
LEMMA BeginKeeps ==
    ASSUME TypeInv, NEW t \in Tasks \ CreateTask, NEW r, task' = [task EXCEPT ![t] = r],
           NEW d \in Complaints, r.complaint \in {d, None}, complaint[d].status # "absent",
           NEW c \in Complaints
    PROVE  /\ task'[<<"create", c>>] = task[<<"create", c>>]
           /\ Unborn(c) => \A s \in Tasks : task'[s].complaint # c
BY TaskSets, StaffAssumption DEF TypeInv, TypeOK, Unborn, AbsentRow, CreateTask

LEMMA HttpSlots == HttpTask \subseteq Tasks \ CreateTask
BY DEF Tasks, HttpTask, CreateTask

LEMMA BreachSlots == BreachTask \subseteq Tasks \ CreateTask
BY DEF Tasks, BreachTask, CreateTask

LEMMA EscalationFromComplaint ==
    \A t, c, u : EscalationFrom(t, c, u).complaint \in {c, None}
<1> SUFFICES ASSUME NEW t, NEW c, NEW u
             PROVE  EscalationFrom(t, c, u).complaint \in {c, None}
  OBVIOUS
<1>1. Ended(t).complaint = None
  BY IdleTaskType DEF Ended, IdleTask, TaskRecord
<1>2. \A l, b : [IdleTask EXCEPT !.op = "escalate", !.pc = "record", !.complaint = c,
                     !.to = "escalated", !.level = l, !.authored = b].complaint = c
  BY IdleTaskType DEF TaskRecord
<1> QED
  BY <1>1, <1>2 DEF EscalationFrom

\* Where a task goes on, and what it touches.
LEMMA EndedShape == \A t : /\ Ended(t).complaint = None
                           /\ Ended(t).pc = "idle" => t \in HttpTask
<1>1. IdleTask.complaint = None /\ [IdleTask EXCEPT !.pc = "done"].complaint = None
  BY IdleTaskType DEF IdleTask, TaskRecord
<1>2. [IdleTask EXCEPT !.pc = "done"].pc = "done"
  BY IdleTaskType DEF TaskRecord
<1> QED
  BY <1>1, <1>2 DEF Ended

LEMMA ProceedShape ==
    ASSUME TypeInv, NEW t \in Tasks, Proceed(t) \/ Abort(t)
    PROVE  /\ task[t].complaint \in Complaints
           /\ task[t].pc \notin {"idle", "done"}
           /\ \A c \in Complaints \ {task[t].complaint} : complaint'[c] = complaint[c]
           /\ \E r : /\ task' = [task EXCEPT ![t] = r]
                     /\ r.complaint \in {task[t].complaint, None}
                     /\ r.pc = "idle" => t \in HttpTask
           /\ UNCHANGED <<sweep, overdue>>
<1> DEFINE c == task[t].complaint
<1>1. task[t].pc \notin {"idle", "done"} /\ UNCHANGED <<sweep, overdue>>
  BY DEF Proceed, Abort, WriteStatus, LogUpdate, WriteProof, WriteAssignment, LogAssignment,
         ReassignmentNoteTooLong, EscalateBreached, RecordEscalation, WriteEscalation,
         LogEscalation, At
<1>2. c \in Complaints
  BY <1>1 DEF TypeInv, BusyTask
<1>3. \A d \in Complaints \ {c} : complaint'[d] = complaint[d]
  BY <1>2 DEF Proceed, Abort, WriteStatus, LogUpdate, WriteProof, WriteAssignment,
         LogAssignment, ReassignmentNoteTooLong, EscalateBreached, RecordEscalation,
         WriteEscalation, LogEscalation, TypeInv, TypeOK
<1>4. \/ Finish(t)
      \/ \E pc \in {"write", "history"} : Goto(t, pc)
      \/ task' = [task EXCEPT ![t] = EscalationFrom(t, c, None)]
  BY DEF Proceed, Abort, WriteStatus, LogUpdate, WriteProof, WriteAssignment, LogAssignment,
         ReassignmentNoteTooLong, EscalateBreached, RecordEscalation, WriteEscalation,
         LogEscalation
<1>5. CASE Finish(t)
  BY <1>1, <1>2, <1>3, <1>5, EndedShape DEF Finish
<1>6. ASSUME NEW pc \in {"write", "history"}, Goto(t, pc)
      PROVE  \E r : /\ task' = [task EXCEPT ![t] = r]
                    /\ r.complaint \in {c, None}
                    /\ r.pc = "idle" => t \in HttpTask
  <2>1. [task[t] EXCEPT !.pc = pc].complaint = c /\ [task[t] EXCEPT !.pc = pc].pc = pc
    BY DEF TypeInv, TypeOK, TaskRecord
  <2>2. task' = [task EXCEPT ![t] = [task[t] EXCEPT !.pc = pc]]
    BY <1>6 DEF Goto
  <2> QED
    BY <2>1, <2>2
<1>7. EscalationFrom(t, c, None).pc = "idle" => t \in HttpTask
  <2>1. \A l, b : [IdleTask EXCEPT !.op = "escalate", !.pc = "record", !.complaint = c,
                     !.to = "escalated", !.level = l, !.authored = b].pc = "record"
    BY IdleTaskType DEF TaskRecord
  <2> QED
    BY <2>1, EndedShape DEF EscalationFrom
<1> QED
  BY <1>1, <1>2, <1>3, <1>4, <1>5, <1>6, <1>7, EscalationFromComplaint

LEMMA FreshStep == TypeInv /\ Fresh /\ [Next]_vars => Fresh'
<1> SUFFICES ASSUME TypeInv, Fresh, [Next]_vars,
                    NEW c \in Complaints, task'[<<"create", c>>].pc = "idle"
             PROVE  Unborn(c)'
  BY DEF Fresh
<1>1. CASE UNCHANGED vars
  BY <1>1 DEF vars, Fresh, Unborn
<1>2. ASSUME NEW d \in Complaints, Creates(d) PROVE Unborn(c)'
  <2> DEFINE r == [IdleTask EXCEPT !.op = "create", !.pc = "history", !.complaint = d,
                                   !.to = "created"]
  <2>1. PICK body \in Bodies : complaint' = [complaint EXCEPT ![d] = Filed(body)]
    BY <1>2 DEF Creates, CreateComplaint
  <2>2. r.pc = "history" /\ r.complaint = d
    BY IdleTaskType DEF TaskRecord
  <2>3. task' = [task EXCEPT ![<<"create", d>>] = r] /\ UNCHANGED <<overdue, sweep>>
    BY <1>2 DEF Creates, CreateComplaint
  <2> HIDE DEF r
  <2>4. c # d /\ task[<<"create", c>>].pc = "idle"
    BY <2>2, <2>3, TaskSets DEF TypeInv, TypeOK
  <2>5. Unborn(c)
    BY <2>4 DEF Fresh
  <2>6. complaint'[c] = complaint[c]
    BY <2>1, <2>4 DEF TypeInv, TypeOK
  <2>7. \A s \in Tasks : task'[s].complaint # c
    BY <2>2, <2>3, <2>4, <2>5 DEF Unborn, TypeInv, TypeOK
  <2> QED
    BY <2>3, <2>5, <2>6, <2>7 DEF Unborn
<1>3. ASSUME NEW d \in Complaints, LogCreated(d) PROVE Unborn(c)'
  BY <1>3, TaskSets, GotoKeeps DEF LogCreated, Fresh, Unborn
<1>4. ASSUME NEW d \in Complaints, EmitCreated(d) PROVE Unborn(c)'
  <2>1. task' \in [Tasks -> TaskRecord] /\ c # d
    BY <1>4, EmitCreatedType, TaskSets, IdleTaskType, ZenonT(30)
       DEF EmitCreated, Fresh, Unborn, TypeInv, TypeOK, Ended, At, TaskRecord, HttpTask
  <2>2. \A s \in Tasks \ {<<"create", d>>, <<"assign", d>>} : task'[s] = task[s]
    BY <1>4 DEF EmitCreated, TypeInv, TypeOK
  <2>3. /\ task'[<<"create", d>>] = Ended(<<"create", d>>)
        /\ task'[<<"assign", d>>].complaint = d
    BY <1>4, TaskSets, IdleTaskType DEF EmitCreated, TypeInv, TypeOK, TaskRecord
  <2>4. Ended(<<"create", d>>).complaint = None
    BY IdleTaskType DEF Ended, IdleTask, TaskRecord
  <2>5. Unborn(c)
    BY <2>1, <2>2, TaskSets DEF Fresh
  <2> QED
    BY <1>4, <2>1, <2>2, <2>3, <2>4, <2>5, StaffAssumption DEF EmitCreated, Unborn
<1>5. ASSUME NEW e \in Engines, FindBreaches(e) PROVE Unborn(c)'
  <2>1. Unborn(c)
    BY <1>5 DEF FindBreaches, Fresh
  <2>2. c \notin NextOf(SLABreached).todo /\ NextOf(SLABreached).current # c
    BY <2>1, StaffAssumption DEF NextOf, IdleSweep, SLABreached, Unborn
  <2> QED
    BY <1>5, <2>1, <2>2 DEF FindBreaches, Unborn, TypeInv, TypeOK
<1>6. ASSUME NEW e \in Engines, NEW d \in Complaints, MarkBreached(e, d) PROVE Unborn(c)'
  BY <1>6 DEF MarkBreached, Fresh, Unborn, TypeInv, TypeOK
<1>7. ASSUME NEW e \in Engines, EmitBreached(e) PROVE Unborn(c)'
  <2> DEFINE d == sweep[e].current
             r == [IdleTask EXCEPT !.op = "escalate", !.pc = "read", !.complaint = d]
  <2>1. d \in Complaints /\ task' = [task EXCEPT ![<<"breach", <<e, d>>>>] = r]
    BY <1>7 DEF EmitBreached, TypeInv, BusySweep
  <2>2. r.complaint = d
    BY IdleTaskType DEF TaskRecord
  <2> HIDE DEF r
  <2>3. Unborn(c)
    BY <2>1, TaskSets DEF Fresh, TypeInv, TypeOK
  <2>4. c # d
    BY <2>3 DEF Unborn
  <2>5. c \notin NextOf(sweep[e].todo).todo /\ NextOf(sweep[e].todo).current # c
    BY <2>3, StaffAssumption DEF NextOf, IdleSweep, Unborn
  <2> QED
    BY <1>7, <2>1, <2>2, <2>3, <2>4, <2>5, TaskSets DEF EmitBreached, Unborn, TypeInv, TypeOK
<1>8. ASSUME NEW e \in Engines, AbortSweep(e) PROVE Unborn(c)'
  BY <1>8, StaffAssumption DEF AbortSweep, IdleSweep, Fresh, Unborn, TypeInv, TypeOK
<1>9. ASSUME NEW d \in Complaints, PassDeadline(d) PROVE Unborn(c)'
  <2>1. complaint[c].status = "absent" => c # d
    BY <1>9 DEF PassDeadline
  <2>2. Unborn(c) /\ AbsentRow.status = "absent"
    BY <1>9 DEF PassDeadline, Fresh, AbsentRow
  <2> QED
    BY <1>9, <2>1, <2>2 DEF PassDeadline, Unborn
<1>10. ASSUME NEW x \in escalations, ResolveEscalation(x) PROVE Unborn(c)'
  BY <1>10 DEF ResolveEscalation, Fresh, Unborn
<1>11. ASSUME NEW d \in Complaints, PickOfficer(d) PROVE Unborn(c)'
  <2> DEFINE t == <<"assign", d>>
  <2>1. PICK o : task' = [task EXCEPT ![t] = [@ EXCEPT !.pc = "write", !.officer = o,
                                                       !.to = "assigned"]]
    BY <1>11 DEF PickOfficer
  <2> DEFINE r == [task[t] EXCEPT !.pc = "write", !.officer = o, !.to = "assigned"]
  <2>2. task[t] \in TaskRecord /\ task' = [task EXCEPT ![t] = r]
    BY <2>1, TaskSets DEF TypeInv, TypeOK
  <2>3. r.complaint = task[t].complaint
    BY <2>2 DEF TaskRecord
  <2> HIDE DEF r
  <2>4. /\ task'[<<"create", c>>] = task[<<"create", c>>]
        /\ \A s \in Tasks : task'[s].complaint = task[s].complaint
    BY <2>2, <2>3, TaskSets DEF TypeInv, TypeOK
  <2> QED
    BY <1>11, <2>2, <2>4 DEF PickOfficer, Fresh, Unborn
<1>12. ASSUME NEW d \in Complaints, NoOfficerAvailable(d) PROVE Unborn(c)'
  BY <1>12, TaskSets, FinishKeeps DEF NoOfficerAvailable, Fresh, Unborn
<1>13. ASSUME NEW t \in HttpTask, NEW d \in Complaints, NEW u \in Staff, NEW to \in Status,
              BeginUpdate(t, d, u, to)
       PROVE  Unborn(c)'
  <2> DEFINE r == [IdleTask EXCEPT !.op = "update", !.pc = "write", !.complaint = d,
                                   !.to = to]
  <2>1. r.complaint = d /\ task' = [task EXCEPT ![t] = r]
    BY <1>13, IdleTaskType DEF BeginUpdate, TaskRecord
  <2>2. complaint[d].status # "absent"
    BY <1>13 DEF BeginUpdate, ValidTransition, Transitions
  <2> HIDE DEF r
  <2> QED
    BY <1>13, <2>1, <2>2, BeginKeeps, HttpSlots DEF BeginUpdate, Fresh, Unborn
<1>14. ASSUME NEW t \in HttpTask, NEW d \in Complaints, NEW u \in Staff, BeginProof(t, d, u)
       PROVE  Unborn(c)'
  <2> DEFINE r == [IdleTask EXCEPT !.op = "proof", !.pc = "write", !.complaint = d]
  <2>1. r.complaint = d /\ task' = [task EXCEPT ![t] = r]
    BY <1>14, IdleTaskType DEF BeginProof, TaskRecord
  <2> HIDE DEF r
  <2> QED
    BY <1>14, <2>1, BeginKeeps, HttpSlots DEF BeginProof, Fresh, Unborn
<1>15. ASSUME NEW t \in HttpTask, NEW d \in Complaints, NEW u \in Staff, NEW o \in Staff,
              BeginReassign(t, d, u, o)
       PROVE  Unborn(c)'
  <2> DEFINE r == [IdleTask EXCEPT !.op = "reassign", !.pc = "write", !.complaint = d,
                                   !.to = "assigned", !.officer = o]
  <2>1. r.complaint = d /\ task' = [task EXCEPT ![t] = r]
    BY <1>15, IdleTaskType DEF BeginReassign, TaskRecord
  <2> HIDE DEF r
  <2> QED
    BY <1>15, <2>1, BeginKeeps, HttpSlots DEF BeginReassign, Fresh, Unborn
<1>16. ASSUME NEW t \in HttpTask, NEW d \in Complaints, NEW u \in Staff, BeginEscalate(t, d, u)
       PROVE  Unborn(c)'
  BY <1>16, BeginKeeps, HttpSlots, EscalationFromComplaint, ZenonT(30)
     DEF BeginEscalate, Fresh, Unborn
<1>17. ASSUME NEW t \in Tasks, Proceed(t) \/ Abort(t) PROVE Unborn(c)'
  <2>1. PICK r : /\ task' = [task EXCEPT ![t] = r]
                 /\ r.complaint \in {task[t].complaint, None}
                 /\ r.pc = "idle" => t \in HttpTask
    BY <1>17, ProceedShape
  <2>2. Unborn(c)
    BY <2>1, TaskSets DEF Fresh, TypeInv, TypeOK, HttpTask
  <2>3. task[t].complaint # c
    BY <2>2 DEF Unborn
  <2> QED
    BY <1>17, <2>1, <2>2, <2>3, ProceedShape, StaffAssumption DEF Unborn, TypeInv, TypeOK
<1> QED
  BY <1>1, <1>2, <1>3, <1>4, <1>5, <1>6, <1>7, <1>8, <1>9, <1>10, <1>11, <1>12, <1>13,
     <1>14, <1>15, <1>16, <1>17, NextIsStep, TaskSets DEF Step

\* An id that was never inserted is in no task, no sweep and no deadline: the insert
\* finds nothing that already works on the complaint.
THEOREM FreshAlways == Spec => [](TypeInv /\ Fresh)
BY TypeInvInit, TypeInvStep, FreshInit, FreshStep, PTL DEF Spec

-----------------------------------------------------------------------------
(* A breach is announced once.  BreachAnnouncedOnce looks at the moment of the
   announcement; what makes it so is that a mark is never taken off, so that what an
   engine has announced it neither finds again nor has still on its list (Announced). *)

\* What an engine's sweep has still to announce of c.
ToAnnounce(e, c) == c \in sweep[e].todo \/ (sweep[e].pc = "emit" /\ sweep[e].current = c)

\* A complaint whose breach e has announced is marked, and e has not to announce it again.
\* What e is announcing is marked, and not among what is left to mark.
Announced ==
    /\ \A e \in Engines, c \in Complaints :
          task[<<"breach", <<e, c>>>>].pc # "idle" =>
              complaint[c].breached /\ ~ToAnnounce(e, c)
    /\ \A e \in Engines : sweep[e].pc = "emit" =>
          /\ complaint[sweep[e].current].breached
          /\ sweep[e].current \notin sweep[e].todo

LEMMA AnnouncedOnce == TypeInv /\ Announced => BreachAnnouncedOnce
BY DEF TypeInv, BusySweep, Announced, ToAnnounce, BreachAnnouncedOnce

\* A step that unmarks nothing and uses no slot of a breach handler anew.
MarksKept == \A c \in Complaints : complaint[c].breached => complaint'[c].breached

NoneAnnounced ==
    \A e \in Engines, c \in Complaints :
        task'[<<"breach", <<e, c>>>>].pc # "idle" => task[<<"breach", <<e, c>>>>].pc # "idle"

LEMMA AnnouncedFrame ==
    ASSUME TypeInv, Announced, MarksKept, NoneAnnounced, UNCHANGED sweep
    PROVE  Announced'
BY DEF TypeInv, BusySweep, Announced, ToAnnounce, MarksKept, NoneAnnounced

\* Tasks that run are put further, and those of other slots started.
LEMMA NoneAnnouncedPut ==
    ASSUME TypeInv, NEW t \in Tasks, NEW r, task' = [task EXCEPT ![t] = r],
           t \in BreachTask => task[t].pc # "idle"
    PROVE  NoneAnnounced
BY TaskSets DEF NoneAnnounced, BreachTask, TypeInv, TypeOK

LEMMA OtherSlots ==
    /\ \A t \in HttpTask : t \notin BreachTask
    /\ \A c \in Complaints : <<"create", c>> \notin BreachTask /\ <<"assign", c>> \notin BreachTask
BY DEF HttpTask, BreachTask

LEMMA ProceedBusy ==
    ASSUME NEW t, Proceed(t) \/ Abort(t)
    PROVE  task[t].pc \notin {"idle", "done"}
BY DEF Proceed, Abort, WriteStatus, LogUpdate, WriteProof, WriteAssignment, LogAssignment,
       ReassignmentNoteTooLong, EscalateBreached, RecordEscalation, WriteEscalation,
       LogEscalation, At

LEMMA UnmarkedNever == UNCHANGED complaint => MarksKept
BY DEF MarksKept

LEMMA AnnouncedInit == Init => Announced
BY TaskSets DEF Init, Announced, ToAnnounce, IdleTask, IdleSweep

LEMMA ProceedAnnounced ==
    ASSUME TypeInv, Announced, NEW t \in Tasks, Proceed(t) \/ Abort(t)
    PROVE  Announced'
<1>1. NoneAnnounced /\ UNCHANGED sweep /\ task[t].complaint \in Complaints
  BY ProceedShape, ProceedBusy, NoneAnnouncedPut
<1>2. MarksKept
  <2> DEFINE c == task[t].complaint
  <2>1. CASE WriteStatus(t)
    <3>1. complaint' = [complaint EXCEPT ![c] = WithStatus(@, task[t].to)]
      BY <2>1 DEF WriteStatus
    <3>2. WithStatus(complaint[c], task[t].to).breached = complaint[c].breached
      BY <1>1 DEF WithStatus, TypeInv, TypeOK, Row
    <3> QED
      BY <1>1, <3>1, <3>2 DEF MarksKept, TypeInv, TypeOK
  <2>2. CASE WriteAssignment(t)
    BY <1>1, <2>2 DEF WriteAssignment, MarksKept, TypeInv, TypeOK, Row
  <2>3. CASE WriteEscalation(t)
    BY <1>1, <2>3 DEF WriteEscalation, MarksKept, TypeInv, TypeOK, Row
  <2>4. ASSUME NEW images \in BOOLEAN, WriteProof(t, images) PROVE MarksKept
    BY <1>1, <2>4 DEF WriteProof, MarksKept, TypeInv, TypeOK, Row
  <2>5. CASE UNCHANGED complaint
    BY <2>5, UnmarkedNever
  <2> QED
    BY <2>1, <2>2, <2>3, <2>4, <2>5
       DEF Proceed, Abort, LogUpdate, LogAssignment, ReassignmentNoteTooLong,
           EscalateBreached, RecordEscalation, LogEscalation
<1> QED
  BY <1>1, <1>2, AnnouncedFrame

LEMMA HandleAnnounced ==
    ASSUME TypeInv, Fresh, Announced, NEW c \in Complaints,
           Creates(c) \/ LogCreated(c) \/ EmitCreated(c) \/ PickOfficer(c)
             \/ NoOfficerAvailable(c) \/ PassDeadline(c)
    PROVE  Announced'
<1>1. MarksKept
  <2>1. CASE Creates(c)
    <3>1. complaint[c] = AbsentRow
      BY <2>1 DEF Creates, CreateComplaint, Fresh, Unborn
    <3> QED
      BY <2>1, <3>1 DEF Creates, CreateComplaint, MarksKept, AbsentRow, TypeInv, TypeOK
  <2>2. CASE UNCHANGED complaint
    BY <2>2, UnmarkedNever
  <2> QED
    BY <2>1, <2>2 DEF LogCreated, EmitCreated, PickOfficer, NoOfficerAvailable, PassDeadline
<1>2. NoneAnnounced
  <2>1. \/ \E t \in {<<"create", c>>, <<"assign", c>>} :
              \E r : task' = [task EXCEPT ![t] = r]
        \/ \E r, s : task' = [task EXCEPT ![<<"create", c>>] = r, ![<<"assign", c>>] = s]
        \/ UNCHANGED task
    BY DEF Creates, CreateComplaint, LogCreated, EmitCreated, PickOfficer, NoOfficerAvailable,
           PassDeadline, Goto, Finish
  <2>2. \A t \in BreachTask : task'[t] = task[t]
    BY <2>1, OtherSlots DEF TypeInv, TypeOK, Tasks
  <2> QED
    BY <2>2 DEF NoneAnnounced, BreachTask
<1>3. UNCHANGED sweep
  BY DEF Creates, CreateComplaint, LogCreated, EmitCreated, PickOfficer, NoOfficerAvailable,
         PassDeadline
<1> QED
  BY <1>1, <1>2, <1>3, AnnouncedFrame

LEMMA BeginAnnounced ==
    ASSUME TypeInv, Announced, NEW t \in HttpTask, NEW c \in Complaints, NEW u \in Staff,
           \/ \E to \in Status : BeginUpdate(t, c, u, to)
           \/ BeginProof(t, c, u)
           \/ \E o \in Staff : BeginReassign(t, c, u, o)
           \/ BeginEscalate(t, c, u)
    PROVE  Announced'
<1>1. \E r : task' = [task EXCEPT ![t] = r]
  BY DEF BeginUpdate, BeginProof, BeginReassign, BeginEscalate
<1>2. UNCHANGED <<complaint, sweep>>
  BY DEF BeginUpdate, BeginProof, BeginReassign, BeginEscalate
<1> QED
  BY <1>1, <1>2, TaskSets, OtherSlots, NoneAnnouncedPut, UnmarkedNever, AnnouncedFrame

\* The steps of a sweep: what is found is unmarked, what is marked leaves what is to be
\* marked, and is announced once.
LEMMA SweepAnnounced ==
    ASSUME TypeInv, Announced, NEW e \in Engines,
           \/ FindBreaches(e)
           \/ \E c \in Complaints : MarkBreached(e, c)
           \/ EmitBreached(e)
           \/ AbortSweep(e)
    PROVE  Announced'
<1>1. CASE FindBreaches(e)
  <2>1. /\ NextOf(SLABreached).pc # "emit"
        /\ NextOf(SLABreached).todo \subseteq SLABreached
    BY DEF NextOf, IdleSweep
  <2>2. \A c \in SLABreached : ~complaint[c].breached
    BY DEF SLABreached
  <2>3. /\ UNCHANGED <<complaint, task>>
        /\ \A f \in Engines : sweep'[f] = IF f = e THEN NextOf(SLABreached) ELSE sweep[f]
    BY <1>1 DEF FindBreaches, TypeInv, TypeOK
  <2> QED
    BY <2>1, <2>2, <2>3 DEF Announced, ToAnnounce
<1>2. ASSUME NEW c \in Complaints, MarkBreached(e, c) PROVE Announced'
  <2>1. /\ \A d \in Complaints : complaint'[d].breached = (d = c \/ complaint[d].breached)
        /\ UNCHANGED task
    BY <1>2 DEF MarkBreached, TypeInv, TypeOK, Row
  <2>2. /\ \A f \in Engines \ {e} : sweep'[f] = sweep[f]
        /\ sweep'[e].todo = sweep[e].todo \ {c} /\ sweep'[e].current = c
    BY <1>2 DEF MarkBreached, TypeInv, TypeOK
  <2>3. c \in sweep[e].todo
    BY <1>2 DEF MarkBreached
  <2>4. ASSUME NEW f \in Engines, NEW d \in Complaints,
               task[<<"breach", <<f, d>>>>].pc # "idle"
        PROVE  complaint'[d].breached /\ ~ToAnnounce(f, d)'
    <3>1. /\ complaint[d].breached /\ d \notin sweep[f].todo
          /\ ~(sweep[f].pc = "emit" /\ sweep[f].current = d)
      BY <2>4 DEF Announced, ToAnnounce
    <3>2. CASE f = e
      BY <2>1, <2>2, <2>3, <3>1, <3>2 DEF ToAnnounce
    <3>3. CASE f # e
      BY <2>1, <2>2, <3>1, <3>3 DEF ToAnnounce
    <3> QED
      BY <3>2, <3>3
  <2>5. ASSUME NEW f \in Engines, sweep'[f].pc = "emit"
        PROVE  complaint'[sweep'[f].current].breached /\ sweep'[f].current \notin sweep'[f].todo
    BY <2>1, <2>2, <2>5 DEF Announced, TypeInv, BusySweep
  <2> QED
    BY <2>1, <2>4, <2>5 DEF Announced
<1>3. CASE EmitBreached(e)
  <2> DEFINE c == sweep[e].current
             r == [IdleTask EXCEPT !.op = "escalate", !.pc = "read", !.complaint = c]
             n == NextOf(sweep[e].todo)
  <2>1. c \in Complaints /\ sweep[e].pc = "emit"
    BY <1>3 DEF EmitBreached, TypeInv, BusySweep
  <2>2. n.pc # "emit" /\ n.todo = sweep[e].todo
    BY DEF NextOf, IdleSweep
  <2>3. /\ UNCHANGED complaint
        /\ \A f \in Engines : sweep'[f] = IF f = e THEN n ELSE sweep[f]
        /\ task' = [task EXCEPT ![<<"breach", <<e, c>>>>] = r]
    BY <1>3 DEF EmitBreached, TypeInv, TypeOK
  <2> HIDE DEF n, r, c
  <2>4. \A f \in Engines, d \in Complaints :
          ~(f = e /\ d = c) =>
              task'[<<"breach", <<f, d>>>>] = task[<<"breach", <<f, d>>>>]
    BY <2>1, <2>3, TaskSets DEF TypeInv, TypeOK
  <2>5. complaint[c].breached /\ c \notin sweep[e].todo
    BY <2>1 DEF Announced, c
  <2> QED
    BY <2>1, <2>2, <2>3, <2>4, <2>5 DEF Announced, ToAnnounce
<1>4. CASE AbortSweep(e)
  BY <1>4 DEF AbortSweep, IdleSweep, Announced, ToAnnounce, TypeInv, TypeOK
<1> QED
  BY <1>1, <1>2, <1>3, <1>4

LEMMA AnnouncedStep == TypeInv /\ Fresh /\ Announced /\ [Next]_vars => Announced'
<1> SUFFICES ASSUME TypeInv, Fresh, Announced, [Next]_vars PROVE Announced'
  OBVIOUS
<1>1. CASE UNCHANGED vars
  BY <1>1 DEF vars, Announced, ToAnnounce
<1>2. ASSUME NEW x \in escalations, ResolveEscalation(x) PROVE Announced'
  BY <1>2 DEF ResolveEscalation, Announced, ToAnnounce
<1> QED
  BY <1>1, <1>2, ProceedAnnounced, HandleAnnounced, BeginAnnounced, SweepAnnounced,
     NextIsStep, TaskSets DEF Step

\* Every engine announces a breach of a complaint at most once, for any number of engines
\* that find the same complaint, and its escalation handler runs once.
THEOREM BreachAnnouncedOnceHolds == Spec => []BreachAnnouncedOnce
BY AnnouncedInit, AnnouncedStep, AnnouncedOnce, FreshAlways, PTL DEF Spec

-----------------------------------------------------------------------------
(* The timeline explains the status.  Alone StatusExplained is not inductive: a task
   about to log could lose its slot to a new one.  The slot of an assignment is idle
   until the creation is announced (AssignAfterCreate), that of a breach until the
   breach is (Announced), and each task logs the status it writes (LogsItsStatus). *)

\* Nobody is assigned before the creation was announced.
AssignAfterCreate ==
    \A c \in Complaints :
        task[<<"create", c>>].pc # "done" => task[<<"assign", c>>].pc = "idle"

\* The task of an assignment or an escalation is going to log the status it writes.
LogsItsStatus(r) ==
    /\ r.op \in {"assign", "reassign"} /\ r.pc = "write" => r.to = "assigned"
    /\ r.op = "escalate" /\ r.pc \in {"record", "write"} => r.to = "escalated"

\* The timeline explains the status of c: StatusExplained says it of all.
Explained(c) ==
    complaint[c].status \in Tracked =>
        \/ complaint[c].status \in history[c]
        \/ \E t \in Tasks : /\ task[t].pc = "history"
                            /\ task[t].complaint = c
                            /\ task[t].to = complaint[c].status
        \/ complaint[c].status \in unlogged[c]

TimelineInv ==
    /\ AssignAfterCreate
    /\ \A t \in Tasks : LogsItsStatus(task[t])
    /\ \A c \in Complaints : Explained(c)

LEMMA TimelineExplains == TimelineInv => StatusExplained
BY DEF TimelineInv, Explained, StatusExplained

\* A step that loses nothing of what was logged or counted as lost.
LogsKept ==
    /\ \A c \in Complaints : history[c] \subseteq history'[c]
    /\ \A c \in Complaints : unlogged[c] \subseteq unlogged'[c]

\* A step that stops no task that is about to log, unless its status is logged or lost.
NoneForgets ==
    \A t \in Tasks : task[t].pc = "history" =>
        \/ task'[t] = task[t]
        \/ {task[t].to} \cap Tracked
              \subseteq history'[task[t].complaint] \cup unlogged'[task[t].complaint]

\* A step that writes no status of c.
StatusKept(c) == complaint'[c].status = complaint[c].status

LEMMA StaysExplained ==
    ASSUME LogsKept, NoneForgets, NEW c \in Complaints, StatusKept(c), Explained(c)
    PROVE  Explained(c)'
<1> SUFFICES ASSUME complaint'[c].status \in Tracked
             PROVE  \/ complaint'[c].status \in history'[c]
                    \/ \E t \in Tasks : /\ task'[t].pc = "history"
                                        /\ task'[t].complaint = c
                                        /\ task'[t].to = complaint'[c].status
                    \/ complaint'[c].status \in unlogged'[c]
  BY DEF Explained
<1>1. CASE complaint[c].status \in history[c] \cup unlogged[c]
  BY <1>1 DEF LogsKept, StatusKept
<1>2. ASSUME NEW t \in Tasks, task[t].pc = "history", task[t].complaint = c,
             task[t].to = complaint[c].status
      PROVE  \/ complaint'[c].status \in history'[c]
             \/ \E s \in Tasks : /\ task'[s].pc = "history"
                                 /\ task'[s].complaint = c
                                 /\ task'[s].to = complaint'[c].status
             \/ complaint'[c].status \in unlogged'[c]
  BY <1>2 DEF NoneForgets, StatusKept
<1> QED
  BY <1>1, <1>2 DEF Explained, StatusKept

\* The writer of a status explains it.
LEMMA WriterExplains ==
    ASSUME NEW t \in Tasks, NEW c \in Complaints, task'[t].pc = "history",
           task'[t].complaint = c, task'[t].to = complaint'[c].status
    PROVE  Explained(c)'
BY DEF Explained

\* A record put in a slot that holds no task about to log.
LEMMA NoneForgetsPut ==
    ASSUME TypeInv, NEW t \in Tasks, NEW r, task' = [task EXCEPT ![t] = r],
           task[t].pc # "history"
    PROVE  NoneForgets
BY DEF NoneForgets, TypeInv, TypeOK

LEMMA NothingLogged == UNCHANGED <<history, unlogged>> => LogsKept
BY DEF LogsKept

\* What a step has to keep beside: the creation comes before the assignment, and tasks
\* are going to log what they write.
LEMMA LogsItsStatusPut ==
    ASSUME TypeInv, NEW t \in Tasks, NEW r, task' = [task EXCEPT ![t] = r],
           LogsItsStatus(r), \A s \in Tasks : LogsItsStatus(task[s])
    PROVE  \A s \in Tasks : LogsItsStatus(task'[s])
BY DEF TypeInv, TypeOK

LEMMA AssignAfterCreatePut ==
    ASSUME TypeInv, AssignAfterCreate, NEW t \in Tasks, NEW r, task' = [task EXCEPT ![t] = r],
           t \in AssignTask => task[t].pc # "idle",
           t \in CreateTask => task[t].pc # "done"
    PROVE  AssignAfterCreate'
BY TaskSets DEF AssignAfterCreate, AssignTask, CreateTask, TypeInv, TypeOK

LEMMA TimelineFrame ==
    ASSUME TypeInv, TimelineInv, NEW t \in Tasks, NEW r, task' = [task EXCEPT ![t] = r],
           LogsItsStatus(r),
           t \in AssignTask => task[t].pc # "idle", t \in CreateTask => task[t].pc # "done",
           LogsKept, NoneForgets, \A c \in Complaints : StatusKept(c) \/ Explained(c)'
    PROVE  TimelineInv'
<1>1. \A c \in Complaints : Explained(c)'
  BY StaysExplained DEF TimelineInv
<1>2. \A s \in Tasks : LogsItsStatus(task'[s])
  BY LogsItsStatusPut DEF TimelineInv
<1>3. AssignAfterCreate'
  BY AssignAfterCreatePut DEF TimelineInv
<1> QED
  BY <1>1, <1>2, <1>3 DEF TimelineInv, LogsItsStatus

LEMMA TimelineUnseen ==
    ASSUME TimelineInv, UNCHANGED <<history, task, unlogged>>,
           \A c \in Complaints : StatusKept(c)
    PROVE  TimelineInv'
BY DEF TimelineInv, AssignAfterCreate, LogsItsStatus, Explained, StatusKept

LEMMA UnchangedStatus == UNCHANGED complaint => \A c \in Complaints : StatusKept(c)
BY DEF StatusKept

LEMMA EndedLogs == \A t : LogsItsStatus(Ended(t))
<1>1. \A t : Ended(t).op = "none"
  BY IdleTaskType DEF Ended, IdleTask, TaskRecord
<1> QED
  BY <1>1 DEF LogsItsStatus

LEMMA EscalationLogs == \A t, c, u : LogsItsStatus(EscalationFrom(t, c, u))
<1> SUFFICES ASSUME NEW t, NEW c, NEW u PROVE LogsItsStatus(EscalationFrom(t, c, u))
  OBVIOUS
<1>1. \A l, b : LET r == [IdleTask EXCEPT !.op = "escalate", !.pc = "record",
                              !.complaint = c, !.to = "escalated", !.level = l,
                              !.authored = b]
                IN  r.op = "escalate" /\ r.to = "escalated"
  BY IdleTaskType DEF TaskRecord
<1>2. \A l, b : LogsItsStatus([IdleTask EXCEPT !.op = "escalate", !.pc = "record",
                                   !.complaint = c, !.to = "escalated", !.level = l,
                                   !.authored = b])
  BY <1>1 DEF LogsItsStatus
<1> QED
  BY <1>2, EndedLogs DEF EscalationFrom

\* Appending to the history of a complaint that exists, or counting an entry as lost,
\* accounts for the status of the task.
LEMMA AppendLogs ==
    ASSUME TypeInv, NEW t \in Tasks, task[t].complaint \in Complaints, AppendHistory(t),
           UNCHANGED unlogged
    PROVE  LogsKept /\ {task[t].to} \cap Tracked \subseteq history'[task[t].complaint]
BY DEF LogsKept, AppendHistory, TypeInv, TypeOK

LEMMA LoseLogs ==
    ASSUME TypeInv, NEW t \in Tasks, task[t].complaint \in Complaints, LoseHistory(t),
           UNCHANGED history
    PROVE  LogsKept /\ {task[t].to} \cap Tracked \subseteq unlogged'[task[t].complaint]
BY DEF LogsKept, LoseHistory, TypeInv, TypeOK

\* Whatever a task at its history entry does, the entry is stored or lost.
LEMMA EntryAccounted ==
    ASSUME TypeInv, NEW t \in Tasks, NEW r, task' = [task EXCEPT ![t] = r],
           task[t].complaint \in Complaints,
           \/ AppendHistory(t) /\ UNCHANGED unlogged
           \/ LoseHistory(t) /\ UNCHANGED history
    PROVE  LogsKept /\ NoneForgets
<1>1. /\ LogsKept
      /\ {task[t].to} \cap Tracked
            \subseteq history'[task[t].complaint] \cup unlogged'[task[t].complaint]
  BY AppendLogs, LoseLogs
<1>2. \A s \in Tasks \ {t} : task'[s] = task[s]
  BY DEF TypeInv, TypeOK
<1> QED
  BY <1>1, <1>2 DEF NoneForgets

LEMMA ProceedExplained ==
    ASSUME TypeInv, TimelineInv, NEW t \in Tasks, Proceed(t) \/ Abort(t)
    PROVE  TimelineInv'
<1> DEFINE c == task[t].complaint
<1>1. c \in Complaints /\ task[t].pc \notin {"idle", "done"}
  BY ProceedShape, ProceedBusy
<1>2. LogsItsStatus(task[t]) /\ task[t] \in TaskRecord
  BY DEF TimelineInv, TypeInv, TypeOK
<1>3. CASE LogUpdate(t) \/ LogAssignment(t) \/ ReassignmentNoteTooLong(t) \/ LogEscalation(t)
           \/ (Abort(t) /\ task[t].pc = "history")
  <2>1. /\ Finish(t) /\ UNCHANGED complaint
        /\ \/ AppendHistory(t) /\ UNCHANGED unlogged
           \/ LoseHistory(t) /\ UNCHANGED history
    BY <1>3 DEF LogUpdate, LogAssignment, ReassignmentNoteTooLong, LogEscalation, Abort
  <2>2. LogsKept /\ NoneForgets
    BY <1>1, <2>1, EntryAccounted DEF Finish
  <2> QED
    BY <1>1, <2>1, <2>2, EndedLogs, UnchangedStatus, TimelineFrame DEF Finish
<1>4. CASE (Abort(t) /\ task[t].pc # "history") \/ EscalateBreached(t)
           \/ \E images \in BOOLEAN : WriteProof(t, images)
  <2>1. /\ Finish(t) \/ task' = [task EXCEPT ![t] = EscalationFrom(t, c, None)]
        /\ UNCHANGED <<history, unlogged>>
        /\ task[t].pc # "history"
    BY <1>4 DEF Abort, EscalateBreached, WriteProof, At
  <2>2. \A d \in Complaints : StatusKept(d)
    <3>1. ASSUME NEW images \in BOOLEAN, WriteProof(t, images)
          PROVE  \A d \in Complaints : StatusKept(d)
      BY <1>1, <3>1 DEF WriteProof, StatusKept, TypeInv, TypeOK, Row
    <3> QED
      BY <1>4, <3>1, UnchangedStatus DEF Abort, EscalateBreached
  <2>3. PICK r : task' = [task EXCEPT ![t] = r] /\ LogsItsStatus(r)
    BY <2>1, EndedLogs, EscalationLogs DEF Finish
  <2> QED
    BY <1>1, <2>1, <2>2, <2>3, NothingLogged, NoneForgetsPut, TimelineFrame
<1>5. CASE RecordEscalation(t)
  <2> DEFINE r == [task[t] EXCEPT !.pc = "write"]
  <2>1. r.op = task[t].op /\ r.to = task[t].to /\ task' = [task EXCEPT ![t] = r]
    BY <1>2, <1>5 DEF RecordEscalation, Goto, TaskRecord
  <2> HIDE DEF r
  <2>2. LogsItsStatus(r) /\ task[t].pc # "history"
    BY <1>2, <1>5, <2>1 DEF LogsItsStatus, RecordEscalation, At
  <2> QED
    BY <1>1, <1>5, <2>1, <2>2, NothingLogged, NoneForgetsPut, UnchangedStatus, TimelineFrame
       DEF RecordEscalation
<1>6. CASE WriteStatus(t) \/ WriteAssignment(t) \/ WriteEscalation(t)
  <2> DEFINE r == [task[t] EXCEPT !.pc = "history"]
  <2>1. /\ r.op = task[t].op /\ r.to = task[t].to /\ r.complaint = c /\ r.pc = "history"
        /\ task' = [task EXCEPT ![t] = r] /\ task'[t] = r
    BY <1>2, <1>6 DEF WriteStatus, WriteAssignment, WriteEscalation, Goto, TaskRecord,
                      TypeInv, TypeOK
  <2> HIDE DEF r
  <2>2. LogsItsStatus(r) /\ task[t].pc # "history" /\ UNCHANGED <<history, unlogged>>
    BY <1>6, <2>1 DEF LogsItsStatus, WriteStatus, WriteAssignment, WriteEscalation, At
  <2>3. complaint'[c].status = task[t].to
    <3>1. CASE WriteStatus(t)
      <4>1. complaint' = [complaint EXCEPT ![c] = WithStatus(@, task[t].to)]
        BY <3>1 DEF WriteStatus
      <4>2. WithStatus(complaint[c], task[t].to).status = task[t].to
        BY <1>1 DEF WithStatus, TypeInv, TypeOK, Row
      <4> QED
        BY <1>1, <4>1, <4>2 DEF TypeInv, TypeOK
    <3>2. CASE WriteAssignment(t)
      <4>1. task[t].to = "assigned"
        BY <1>2, <3>2 DEF LogsItsStatus, WriteAssignment, At
      <4> QED
        BY <1>1, <3>2, <4>1 DEF WriteAssignment, TypeInv, TypeOK, Row
    <3>3. CASE WriteEscalation(t)
      <4>1. task[t].to = "escalated"
        BY <1>2, <3>3 DEF LogsItsStatus, WriteEscalation, At
      <4> QED
        BY <1>1, <3>3, <4>1 DEF WriteEscalation, TypeInv, TypeOK, Row
    <3> QED
      BY <1>6, <3>1, <3>2, <3>3
  <2>4. Explained(c)'
    BY <1>1, <2>1, <2>3, WriterExplains
  <2>5. \A d \in Complaints \ {c} : StatusKept(d)
    BY ProceedShape DEF StatusKept
  <2> QED
    BY <1>1, <2>1, <2>2, <2>4, <2>5, NothingLogged, NoneForgetsPut, TimelineFrame
<1> QED
  BY <1>3, <1>4, <1>5, <1>6 DEF Proceed

LEMMA HandleExplained ==
    ASSUME TypeInv, Fresh, TimelineInv, NEW c \in Complaints,
           Creates(c) \/ LogCreated(c) \/ EmitCreated(c) \/ PickOfficer(c)
             \/ NoOfficerAvailable(c) \/ PassDeadline(c)
    PROVE  TimelineInv'
<1>1. CASE Creates(c)
  <2> DEFINE t == <<"create", c>>
             r == [IdleTask EXCEPT !.op = "create", !.pc = "history", !.complaint = c,
                                   !.to = "created"]
  <2>1. /\ r.op = "create" /\ r.pc = "history" /\ r.complaint = c /\ r.to = "created"
        /\ task' = [task EXCEPT ![t] = r] /\ task[t].pc = "idle"
        /\ UNCHANGED <<history, unlogged>>
    BY <1>1, IdleTaskType DEF Creates, CreateComplaint, TaskRecord
  <2> HIDE DEF r
  <2>2. task'[t] = r /\ t \in Tasks /\ t \notin AssignTask
    BY <2>1, TaskSets DEF TypeInv, TypeOK, AssignTask
  <2>3. /\ complaint'[c].status = "created"
        /\ \A d \in Complaints \ {c} : StatusKept(d)
    <3>1. \A body : Filed(body).status = "created"
      BY DEF Filed
    <3> QED
      BY <1>1, <3>1, CreatedRow DEF StatusKept
  <2>4. Explained(c)'
    BY <2>1, <2>2, <2>3, WriterExplains
  <2>5. LogsItsStatus(r)
    BY <2>1 DEF LogsItsStatus
  <2> QED
    BY <2>1, <2>2, <2>3, <2>4, <2>5, NothingLogged, NoneForgetsPut, TimelineFrame
<1>2. CASE LogCreated(c)
  <2> DEFINE t == <<"create", c>>
             r == [task[t] EXCEPT !.pc = "emit"]
  <2>1. /\ t \in Tasks /\ t \notin AssignTask /\ At(t, "create", "history")
        /\ task' = [task EXCEPT ![t] = r] /\ r.op = "create"
        /\ task[t].complaint \in Complaints
    BY <1>2, TaskSets
       DEF LogCreated, Goto, At, TypeInv, TypeOK, TaskRecord, BusyTask, AssignTask
  <2> HIDE DEF r
  <2>2. LogsKept /\ NoneForgets
    BY <1>2, <2>1, EntryAccounted DEF LogCreated
  <2>3. LogsItsStatus(r)
    BY <2>1 DEF LogsItsStatus
  <2> QED
    BY <1>2, <2>1, <2>2, <2>3, UnchangedStatus, TimelineFrame DEF LogCreated, At
<1>3. CASE EmitCreated(c)
  <2> DEFINE t == <<"create", c>>
             s == <<"assign", c>>
             r == [IdleTask EXCEPT !.op = "assign", !.pc = "read", !.complaint = c]
  <2>1. /\ task' = [task EXCEPT ![t] = Ended(t), ![s] = r]
        /\ task[t].pc = "emit" /\ task[s].pc = "idle"
        /\ UNCHANGED <<complaint, history, unlogged>>
    BY <1>3, TaskSets DEF EmitCreated, At, TimelineInv, AssignAfterCreate
  <2>2. r.pc = "read" /\ Ended(t).op = "none" /\ Ended(t).pc = "done"
    BY IdleTaskType DEF Ended, IdleTask, TaskRecord, HttpTask
  <2> HIDE DEF r
  <2>3. \A q \in Tasks : task'[q] = IF q = s THEN r ELSE IF q = t THEN Ended(t) ELSE task[q]
    BY <2>1, TaskSets DEF TypeInv, TypeOK
  <2>4. NoneForgets
    BY <2>1, <2>3 DEF NoneForgets
  <2>5. AssignAfterCreate'
    BY <2>2, <2>3, TaskSets DEF TimelineInv, AssignAfterCreate
  <2>6. \A q \in Tasks : LogsItsStatus(task[q])'
    BY <2>2, <2>3 DEF TimelineInv, LogsItsStatus
  <2>7. \A d \in Complaints : Explained(d)'
    BY <2>1, <2>4, NothingLogged, UnchangedStatus, StaysExplained DEF TimelineInv
  <2> QED
    BY <2>5, <2>6, <2>7 DEF TimelineInv
<1>4. CASE PickOfficer(c)
  <2> DEFINE t == <<"assign", c>>
  <2>1. PICK o : task' = [task EXCEPT ![t] = [@ EXCEPT !.pc = "write", !.officer = o,
                                                       !.to = "assigned"]]
    BY <1>4 DEF PickOfficer
  <2> DEFINE r == [task[t] EXCEPT !.pc = "write", !.officer = o, !.to = "assigned"]
  <2>2. /\ t \in Tasks /\ t \notin CreateTask /\ At(t, "assign", "read")
        /\ task' = [task EXCEPT ![t] = r]
    BY <1>4, <2>1, TaskSets DEF PickOfficer, CreateTask
  <2>3. LogsItsStatus(r)
    <3>1. task[t] \in TaskRecord
      BY <2>2 DEF TypeInv, TypeOK
    <3>2. r.op = "assign" /\ r.to = "assigned"
      BY <2>2, <3>1 DEF At, TaskRecord
    <3> HIDE DEF r
    <3> QED
      BY <3>2 DEF LogsItsStatus
  <2> HIDE DEF r
  <2> QED
    BY <1>4, <2>2, <2>3, NothingLogged, NoneForgetsPut, UnchangedStatus, TimelineFrame
       DEF PickOfficer, At
<1>5. CASE NoOfficerAvailable(c)
  <2> DEFINE t == <<"assign", c>>
  <2>1. t \in Tasks /\ t \notin CreateTask /\ At(t, "assign", "read")
    BY <1>5, TaskSets DEF NoOfficerAvailable, CreateTask
  <2> QED
    BY <1>5, <2>1, EndedLogs, NothingLogged, NoneForgetsPut, UnchangedStatus, TimelineFrame
       DEF NoOfficerAvailable, Finish, At
<1>6. CASE PassDeadline(c)
  BY <1>6, UnchangedStatus, TimelineUnseen DEF PassDeadline
<1> QED
  BY <1>1, <1>2, <1>3, <1>4, <1>5, <1>6

\* A request takes an idle slot and writes nothing yet.
LEMMA BeginExplained ==
    ASSUME TypeInv, TimelineInv, NEW t \in HttpTask, NEW c \in Complaints, NEW u \in Staff,
           \/ \E to \in Status : BeginUpdate(t, c, u, to)
           \/ BeginProof(t, c, u)
           \/ \E o \in Staff : BeginReassign(t, c, u, o)
           \/ BeginEscalate(t, c, u)
    PROVE  TimelineInv'
<1>1. \A to : LogsItsStatus([IdleTask EXCEPT !.op = "update", !.pc = "write",
                                 !.complaint = c, !.to = to])
  BY IdleTaskType DEF LogsItsStatus, TaskRecord
<1>2. LogsItsStatus([IdleTask EXCEPT !.op = "proof", !.pc = "write", !.complaint = c])
  BY IdleTaskType DEF LogsItsStatus, TaskRecord
<1>3. \A o : LogsItsStatus([IdleTask EXCEPT !.op = "reassign", !.pc = "write",
                                !.complaint = c, !.to = "assigned", !.officer = o])
  BY IdleTaskType DEF LogsItsStatus, TaskRecord
<1>4. PICK r : task' = [task EXCEPT ![t] = r] /\ LogsItsStatus(r)
  BY <1>1, <1>2, <1>3, EscalationLogs
     DEF BeginUpdate, BeginProof, BeginReassign, BeginEscalate
<1>5. task[t].pc = "idle" /\ UNCHANGED <<complaint, history, unlogged>>
  BY DEF BeginUpdate, BeginProof, BeginReassign, BeginEscalate
<1>6. t \in Tasks /\ t \notin AssignTask
  BY TaskSets DEF HttpTask, AssignTask
<1> QED
  BY <1>4, <1>5, <1>6, NothingLogged, NoneForgetsPut, UnchangedStatus, TimelineFrame

\* A sweep starts a handler in a slot that is idle: it was not announced before.
LEMMA SweepExplained ==
    ASSUME TypeInv, Announced, TimelineInv, NEW e \in Engines,
           \/ FindBreaches(e)
           \/ \E c \in Complaints : MarkBreached(e, c)
           \/ EmitBreached(e)
           \/ AbortSweep(e)
    PROVE  TimelineInv'
<1>1. CASE FindBreaches(e) \/ AbortSweep(e)
  BY <1>1, UnchangedStatus, TimelineUnseen DEF FindBreaches, AbortSweep
<1>2. ASSUME NEW c \in Complaints, MarkBreached(e, c) PROVE TimelineInv'
  <2>1. \A d \in Complaints : StatusKept(d)
    BY <1>2 DEF MarkBreached, StatusKept, TypeInv, TypeOK, Row
  <2> QED
    BY <1>2, <2>1, TimelineUnseen DEF MarkBreached
<1>3. CASE EmitBreached(e)
  <2> DEFINE c == sweep[e].current
             t == <<"breach", <<e, c>>>>
             r == [IdleTask EXCEPT !.op = "escalate", !.pc = "read", !.complaint = c]
  <2>1. c \in Complaints /\ task' = [task EXCEPT ![t] = r]
    BY <1>3 DEF EmitBreached, TypeInv, BusySweep
  <2>2. task[t].pc = "idle"
    BY <1>3, <2>1 DEF EmitBreached, Announced, ToAnnounce
  <2>3. LogsItsStatus(r)
    BY IdleTaskType DEF LogsItsStatus, TaskRecord
  <2>4. t \in Tasks /\ t \notin AssignTask
    BY <2>1, TaskSets DEF AssignTask
  <2> HIDE DEF r
  <2> QED
    BY <1>3, <2>1, <2>2, <2>3, <2>4, NothingLogged, NoneForgetsPut, UnchangedStatus,
       TimelineFrame DEF EmitBreached
<1> QED
  BY <1>1, <1>2, <1>3

LEMMA TimelineInit == Init => TimelineInv
<1> SUFFICES ASSUME Init PROVE TimelineInv
  OBVIOUS
<1>1. IdleTask.pc = "idle" /\ IdleTask.op = "none" /\ AbsentRow.status \notin Status
  BY DEF IdleTask, AbsentRow, Status
<1> QED
  BY <1>1, TaskSets, ScopeAssumption
     DEF Init, TimelineInv, AssignAfterCreate, LogsItsStatus, Explained

LEMMA TimelineStep ==
    TypeInv /\ Fresh /\ Announced /\ TimelineInv /\ [Next]_vars => TimelineInv'
<1> SUFFICES ASSUME TypeInv, Fresh, Announced, TimelineInv, [Next]_vars PROVE TimelineInv'
  OBVIOUS
<1>1. CASE UNCHANGED vars
  BY <1>1, UnchangedStatus, TimelineUnseen DEF vars
<1>2. ASSUME NEW x \in escalations, ResolveEscalation(x) PROVE TimelineInv'
  BY <1>2, UnchangedStatus, TimelineUnseen DEF ResolveEscalation
<1> QED
  BY <1>1, <1>2, ProceedExplained, HandleExplained, BeginExplained, SweepExplained,
     NextIsStep, TaskSets DEF Step

\* No status gets past the timeline: whatever status a complaint has, its entry is there,
\* or the task that wrote it is about to store it, or the entry was lost to a failure, a
\* note too long or an author nobody knew.
THEOREM StatusExplainedHolds == Spec => []StatusExplained
BY AnnouncedInit, AnnouncedStep, TimelineInit, TimelineStep, TimelineExplains, FreshAlways,
   PTL DEF Spec

-----------------------------------------------------------------------------
(* The milestones of a complaint come in order, although a transition is validated on
   one read and written, by id alone, after others may have run.  Alone
   ClosedWasVerified is not inductive: what makes it so is that milestones are never
   taken back, so what a read has shown of them still holds when the write happens
   (NeverEarly). *)

\* A pending status update to "verified" or "closed" has its earlier milestone.
NeverEarly ==
    \A t \in Tasks : At(t, "update", "write") =>
        /\ task[t].to = "verified" => complaint[task[t].complaint].resolvedAt
        /\ task[t].to = "closed" => complaint[task[t].complaint].verifiedAt

MilestoneInv == ClosedWasVerified /\ NeverEarly

\* A step that keeps the milestones of c, and its status or one that marks none.
Kept(c) ==
    /\ complaint'[c].resolvedAt = complaint[c].resolvedAt
    /\ complaint'[c].verifiedAt = complaint[c].verifiedAt
    /\ complaint'[c].closedAt = complaint[c].closedAt
    /\ complaint'[c].sent = complaint[c].sent
    /\ complaint'[c].status \in {complaint[c].status, "created", "assigned", "escalated"}

\* A step that lets no new status update get ready to write.
NoneReady == \A t \in Tasks : At(t, "update", "write")' => task'[t] = task[t]

LEMMA MilestoneFrame ==
    ASSUME TypeInv, MilestoneInv, \A c \in Complaints : Kept(c), NoneReady
    PROVE  MilestoneInv'
<1>1. ClosedWasVerified'
  <2> SUFFICES ASSUME NEW c \in Complaints PROVE InOrder(complaint'[c])
    BY DEF ClosedWasVerified
  <2> QED
    BY DEF MilestoneInv, ClosedWasVerified, InOrder, Kept
<1>2. NeverEarly'
  <2> SUFFICES ASSUME NEW t \in Tasks, At(t, "update", "write")'
               PROVE  /\ task'[t].to = "verified" => complaint'[task'[t].complaint].resolvedAt
                      /\ task'[t].to = "closed" => complaint'[task'[t].complaint].verifiedAt
    BY DEF NeverEarly
  <2>1. task'[t] = task[t] /\ At(t, "update", "write")
    BY DEF NoneReady, At
  <2>2. task[t].complaint \in Complaints
    BY <2>1 DEF TypeInv, BusyTask, At
  <2> QED
    BY <2>1, <2>2 DEF MilestoneInv, NeverEarly, Kept
<1> QED
  BY <1>1, <1>2 DEF MilestoneInv

LEMMA UnchangedKept == ASSUME UNCHANGED complaint PROVE \A c \in Complaints : Kept(c)
BY DEF Kept

LEMMA NoneReadyPut ==
    ASSUME TypeInv, NEW t \in Tasks, NEW r, task' = [task EXCEPT ![t] = r],
           r.op # "update" \/ r.pc # "write"
    PROVE  NoneReady
BY DEF NoneReady, At, TypeInv, TypeOK

LEMMA NoneReadyFinish ==
    ASSUME TypeInv, NEW t \in Tasks, Finish(t)
    PROVE  NoneReady
<1>1. Ended(t).pc # "write"
  BY IdleTaskType DEF Ended, IdleTask, TaskRecord
<1> QED
  BY <1>1, NoneReadyPut DEF Finish

LEMMA NoneReadyGoto ==
    ASSUME TypeInv, NEW t \in Tasks, NEW pc \in {"write", "history", "emit"}, Goto(t, pc),
           pc = "write" => task[t].op # "update"
    PROVE  NoneReady
<1> DEFINE r == [task[t] EXCEPT !.pc = pc]
<1>1. r.op = task[t].op /\ r.pc = pc /\ task' = [task EXCEPT ![t] = r]
  BY DEF Goto, TypeInv, TypeOK, TaskRecord
<1> HIDE DEF r
<1> QED
  BY <1>1, NoneReadyPut

LEMMA NoneReadyEscalation ==
    ASSUME TypeInv, NEW t \in Tasks, NEW c, NEW u,
           task' = [task EXCEPT ![t] = EscalationFrom(t, c, u)]
    PROVE  NoneReady
<1>1. EscalationFrom(t, c, u).pc # "write"
  <2>1. Ended(t).pc # "write"
    BY IdleTaskType DEF Ended, IdleTask, TaskRecord
  <2>2. \A l, b : [IdleTask EXCEPT !.op = "escalate", !.pc = "record", !.complaint = c,
                     !.to = "escalated", !.level = l, !.authored = b].pc = "record"
    BY IdleTaskType DEF TaskRecord
  <2> QED
    BY <2>1, <2>2 DEF EscalationFrom
<1> QED
  BY <1>1, NoneReadyPut

\* The two steps the argument is about: the read with its validation, and the write.
LEMMA BeginUpdateInOrder ==
    ASSUME TypeInv, MilestoneInv, NEW t \in HttpTask, NEW c \in Complaints, NEW u \in Staff,
           NEW to \in Status, BeginUpdate(t, c, u, to)
    PROVE  MilestoneInv'
<1> DEFINE r == [IdleTask EXCEPT !.op = "update", !.pc = "write", !.complaint = c, !.to = to]
<1>1. r.complaint = c /\ r.to = to /\ task' = [task EXCEPT ![t] = r]
  BY IdleTaskType DEF BeginUpdate, TaskRecord
<1> HIDE DEF r
<1>2. /\ to = "verified" => complaint[c].resolvedAt
      /\ to = "closed" => complaint[c].verifiedAt
  <2>1. to \in Transitions[complaint[c].status]
    BY DEF BeginUpdate, ValidTransition
  <2>2. complaint[c].status \in Status \cup {"absent"}
    BY DEF TypeInv, TypeOK, Row
  <2>3. /\ to = "verified" => complaint[c].status = "resolved"
        /\ to = "closed" => complaint[c].status = "verified"
    BY <2>1, <2>2 DEF Transitions, Status
  <2> QED
    BY <2>3 DEF MilestoneInv, ClosedWasVerified, InOrder
<1>3. UNCHANGED complaint
  BY DEF BeginUpdate
<1>4. NeverEarly'
  BY <1>1, <1>2, <1>3, TaskSets DEF MilestoneInv, NeverEarly, At, TypeInv, TypeOK
<1> QED
  BY <1>3, <1>4 DEF MilestoneInv, ClosedWasVerified

LEMMA WriteStatusInOrder ==
    ASSUME TypeInv, MilestoneInv, NEW t \in Tasks, WriteStatus(t)
    PROVE  MilestoneInv'
<1> DEFINE c == task[t].complaint
           to == task[t].to
           row == WithStatus(complaint[c], to)
<1>1. c \in Complaints /\ to \in Status /\ complaint[c] \in Row
  BY DEF TypeInv, TypeOK, BusyTask, WriteStatus, At
<1>2. complaint' = [complaint EXCEPT ![c] = row]
  BY DEF WriteStatus
<1>3. /\ row.status = to
      /\ row.resolvedAt = (complaint[c].resolvedAt \/ to = "resolved")
      /\ row.verifiedAt = (complaint[c].verifiedAt \/ to = "verified")
      /\ row.closedAt = (complaint[c].closedAt \/ to = "closed")
      /\ row.sent = complaint[c].sent
  BY <1>1 DEF WithStatus, Row
<1> HIDE DEF row
<1>4. /\ to = "verified" => complaint[c].resolvedAt
      /\ to = "closed" => complaint[c].verifiedAt
  BY DEF MilestoneInv, NeverEarly, WriteStatus
<1>5. ClosedWasVerified'
  <2>1. InOrder(complaint[c])
    BY <1>1 DEF MilestoneInv, ClosedWasVerified
  <2>2. InOrder(row)
    BY <1>1, <1>3, <1>4, <2>1 DEF InOrder, Row
  <2> QED
    BY <1>1, <1>2, <2>2 DEF MilestoneInv, ClosedWasVerified, TypeInv, TypeOK
<1>6. NoneReady
  BY NoneReadyGoto DEF WriteStatus
<1>7. NeverEarly'
  <2> SUFFICES ASSUME NEW s \in Tasks, At(s, "update", "write")'
               PROVE  /\ task'[s].to = "verified" => complaint'[task'[s].complaint].resolvedAt
                      /\ task'[s].to = "closed" => complaint'[task'[s].complaint].verifiedAt
    BY DEF NeverEarly
  <2>1. task'[s] = task[s] /\ At(s, "update", "write")
    BY <1>6 DEF NoneReady, At
  <2>2. task[s].complaint \in Complaints
    BY <2>1 DEF TypeInv, BusyTask, At
  <2> QED
    BY <1>1, <1>2, <1>3, <2>1, <2>2 DEF MilestoneInv, NeverEarly, TypeInv, TypeOK
<1> QED
  BY <1>5, <1>7 DEF MilestoneInv

LEMMA MilestoneInit == Init => MilestoneInv
BY IdleTaskType, AbsentRowType
   DEF Init, MilestoneInv, ClosedWasVerified, InOrder, NeverEarly, At, AbsentRow, IdleTask

\* The steps of a task.  Assignments and escalations write a status, but not one that
\* marks a milestone; a proof of resolution writes none.
LEMMA ProceedInOrder ==
    ASSUME TypeInv, MilestoneInv, NEW t \in Tasks, Proceed(t) \/ Abort(t)
    PROVE  MilestoneInv'
<1> DEFINE c == task[t].complaint
<1>1. c \in Complaints
  BY ProceedShape
<1>2. CASE WriteStatus(t)
  BY <1>2, WriteStatusInOrder
<1>3. CASE LogUpdate(t) \/ LogAssignment(t) \/ ReassignmentNoteTooLong(t)
           \/ LogEscalation(t) \/ Abort(t)
  <2>1. Finish(t) /\ UNCHANGED complaint
    BY <1>3 DEF LogUpdate, LogAssignment, ReassignmentNoteTooLong, LogEscalation, Abort
  <2> QED
    BY <2>1, UnchangedKept, NoneReadyFinish, MilestoneFrame
<1>4. ASSUME NEW images \in BOOLEAN, WriteProof(t, images) PROVE MilestoneInv'
  <2>1. \A d \in Complaints : Kept(d)
    BY <1>1, <1>4 DEF WriteProof, Kept, TypeInv, TypeOK, Row
  <2> QED
    BY <1>4, <2>1, NoneReadyFinish, MilestoneFrame DEF WriteProof
<1>5. CASE WriteAssignment(t)
  <2>1. \A d \in Complaints : Kept(d)
    BY <1>1, <1>5 DEF WriteAssignment, Kept, TypeInv, TypeOK, Row
  <2> QED
    BY <1>5, <2>1, NoneReadyGoto, MilestoneFrame DEF WriteAssignment
<1>6. CASE EscalateBreached(t)
  BY <1>6, UnchangedKept, NoneReadyEscalation, MilestoneFrame DEF EscalateBreached
<1>7. CASE RecordEscalation(t)
  BY <1>7, UnchangedKept, NoneReadyGoto, MilestoneFrame DEF RecordEscalation, At
<1>8. CASE WriteEscalation(t)
  <2>1. \A d \in Complaints : Kept(d)
    BY <1>1, <1>8 DEF WriteEscalation, Kept, TypeInv, TypeOK, Row
  <2> QED
    BY <1>8, <2>1, NoneReadyGoto, MilestoneFrame DEF WriteEscalation
<1> QED
  BY <1>2, <1>3, <1>4, <1>5, <1>6, <1>7, <1>8 DEF Proceed

\* The steps of the creation of a complaint and of its assignment.
LEMMA HandleInOrder ==
    ASSUME TypeInv, Fresh, MilestoneInv, NEW c \in Complaints,
           Creates(c) \/ LogCreated(c) \/ EmitCreated(c) \/ PickOfficer(c)
             \/ NoOfficerAvailable(c) \/ PassDeadline(c)
    PROVE  MilestoneInv'
<1>1. CASE Creates(c)
  <2> DEFINE r == [IdleTask EXCEPT !.op = "create", !.pc = "history", !.complaint = c,
                                   !.to = "created"]
  <2>1. r.op = "create" /\ task' = [task EXCEPT ![<<"create", c>>] = r]
    BY <1>1, IdleTaskType DEF Creates, CreateComplaint, TaskRecord
  <2> HIDE DEF r
  <2>2. \A t \in Tasks : task[t].complaint # c
    BY <1>1 DEF Creates, CreateComplaint, Fresh, Unborn
  <2>3. PICK body : complaint'[c] = Filed(body)
    BY <1>1, CreatedRow
  <2>4. \A d \in Complaints \ {c} : complaint'[d] = complaint[d]
    BY <1>1, CreatedRow
  <2>5. InOrder(Filed(body))
    BY DEF InOrder, Filed
  <2>6. ClosedWasVerified'
    BY <2>3, <2>4, <2>5 DEF MilestoneInv, ClosedWasVerified
  <2>7. NoneReady
    BY <2>1, TaskSets, NoneReadyPut
  <2>8. NeverEarly'
    <3> SUFFICES ASSUME NEW s \in Tasks, At(s, "update", "write")'
                 PROVE  /\ task'[s].to = "verified" =>
                              complaint'[task'[s].complaint].resolvedAt
                        /\ task'[s].to = "closed" =>
                              complaint'[task'[s].complaint].verifiedAt
      BY DEF NeverEarly
    <3>1. task'[s] = task[s] /\ At(s, "update", "write")
      BY <2>7 DEF NoneReady, At
    <3>2. task[s].complaint \in Complaints \ {c}
      BY <3>1, <2>2 DEF TypeInv, BusyTask, At
    <3> QED
      BY <2>4, <3>1, <3>2 DEF MilestoneInv, NeverEarly
  <2> QED
    BY <2>6, <2>8 DEF MilestoneInv
<1>2. CASE LogCreated(c)
  BY <1>2, TaskSets, UnchangedKept, NoneReadyGoto, MilestoneFrame DEF LogCreated
<1>3. CASE EmitCreated(c)
  <2> DEFINE t == <<"create", c>>
             r == [IdleTask EXCEPT !.op = "assign", !.pc = "read", !.complaint = c]
  <2>1. /\ task' = [task EXCEPT ![t] = Ended(t), ![<<"assign", c>>] = r]
        /\ UNCHANGED complaint
    BY <1>3 DEF EmitCreated
  <2>2. r.op = "assign" /\ Ended(t).pc # "write"
    BY IdleTaskType DEF Ended, IdleTask, TaskRecord
  <2> HIDE DEF r
  <2>3. NoneReady
    BY <2>1, <2>2, TaskSets DEF NoneReady, At, TypeInv, TypeOK
  <2> QED
    BY <2>1, <2>3, UnchangedKept, MilestoneFrame
<1>4. CASE PickOfficer(c)
  <2> DEFINE t == <<"assign", c>>
  <2>1. PICK o : task' = [task EXCEPT ![t] = [@ EXCEPT !.pc = "write", !.officer = o,
                                                       !.to = "assigned"]]
    BY <1>4 DEF PickOfficer
  <2> DEFINE r == [task[t] EXCEPT !.pc = "write", !.officer = o, !.to = "assigned"]
  <2>2. task[t] \in TaskRecord /\ task[t].op = "assign" /\ task' = [task EXCEPT ![t] = r]
    BY <1>4, <2>1, TaskSets DEF PickOfficer, At, TypeInv, TypeOK
  <2>3. r.op = "assign"
    BY <2>2 DEF TaskRecord
  <2> HIDE DEF r
  <2> QED
    BY <1>4, <2>2, <2>3, TaskSets, UnchangedKept, NoneReadyPut, MilestoneFrame DEF PickOfficer
<1>5. CASE NoOfficerAvailable(c)
  BY <1>5, TaskSets, UnchangedKept, NoneReadyFinish, MilestoneFrame DEF NoOfficerAvailable
<1>6. CASE PassDeadline(c)
  BY <1>6, UnchangedKept, MilestoneFrame DEF PassDeadline, NoneReady, At
<1> QED
  BY <1>1, <1>2, <1>3, <1>4, <1>5, <1>6

\* The requests that start a task other than a status update.
LEMMA BeginInOrder ==
    ASSUME TypeInv, MilestoneInv, NEW t \in HttpTask, NEW c \in Complaints, NEW u \in Staff,
           \/ BeginProof(t, c, u)
           \/ \E o \in Staff : BeginReassign(t, c, u, o)
           \/ BeginEscalate(t, c, u)
    PROVE  MilestoneInv'
<1>1. CASE BeginProof(t, c, u)
  <2>1. [IdleTask EXCEPT !.op = "proof", !.pc = "write", !.complaint = c].op = "proof"
    BY IdleTaskType DEF TaskRecord
  <2> QED
    BY <1>1, <2>1, TaskSets, UnchangedKept, NoneReadyPut, MilestoneFrame DEF BeginProof
<1>2. ASSUME NEW o \in Staff, BeginReassign(t, c, u, o) PROVE MilestoneInv'
  <2>1. [IdleTask EXCEPT !.op = "reassign", !.pc = "write", !.complaint = c,
             !.to = "assigned", !.officer = o].op = "reassign"
    BY IdleTaskType DEF TaskRecord
  <2> QED
    BY <1>2, <2>1, TaskSets, UnchangedKept, NoneReadyPut, MilestoneFrame DEF BeginReassign
<1>3. CASE BeginEscalate(t, c, u)
  BY <1>3, TaskSets, UnchangedKept, NoneReadyEscalation, MilestoneFrame DEF BeginEscalate
<1> QED
  BY <1>1, <1>2, <1>3

\* The sweeps: marking a breach and announcing it leave the milestones alone.
LEMMA SweepInOrder ==
    ASSUME TypeInv, MilestoneInv, NEW e \in Engines,
           \/ FindBreaches(e)
           \/ \E c \in Complaints : MarkBreached(e, c)
           \/ EmitBreached(e)
           \/ AbortSweep(e)
    PROVE  MilestoneInv'
<1>1. CASE FindBreaches(e) \/ AbortSweep(e)
  BY <1>1, UnchangedKept, MilestoneFrame DEF FindBreaches, AbortSweep, NoneReady, At
<1>2. ASSUME NEW c \in Complaints, MarkBreached(e, c) PROVE MilestoneInv'
  <2>1. \A d \in Complaints : Kept(d)
    BY <1>2 DEF MarkBreached, Kept, TypeInv, TypeOK, Row
  <2> QED
    BY <1>2, <2>1, MilestoneFrame DEF MarkBreached, NoneReady, At
<1>3. CASE EmitBreached(e)
  <2> DEFINE d == sweep[e].current
             r == [IdleTask EXCEPT !.op = "escalate", !.pc = "read", !.complaint = d]
  <2>1. d \in Complaints /\ task' = [task EXCEPT ![<<"breach", <<e, d>>>>] = r]
    BY <1>3 DEF EmitBreached, TypeInv, BusySweep
  <2>2. r.op = "escalate"
    BY IdleTaskType DEF TaskRecord
  <2> HIDE DEF r
  <2> QED
    BY <1>3, <2>1, <2>2, TaskSets, UnchangedKept, NoneReadyPut, MilestoneFrame
       DEF EmitBreached
<1> QED
  BY <1>1, <1>2, <1>3

LEMMA MilestoneStep == TypeInv /\ Fresh /\ MilestoneInv /\ [Next]_vars => MilestoneInv'
<1> SUFFICES ASSUME TypeInv, Fresh, MilestoneInv, [Next]_vars PROVE MilestoneInv'
  OBVIOUS
<1>1. CASE UNCHANGED vars
  BY <1>1, UnchangedKept, MilestoneFrame DEF vars, NoneReady, At
<1>2. ASSUME NEW x \in escalations, ResolveEscalation(x) PROVE MilestoneInv'
  BY <1>2, UnchangedKept, MilestoneFrame DEF ResolveEscalation, NoneReady, At
<1> QED
  BY <1>1, <1>2, BeginUpdateInOrder, ProceedInOrder, HandleInOrder, BeginInOrder,
     SweepInOrder, NextIsStep, TaskSets DEF Step

\* A complaint is never closed without having been verified, nor verified without
\* having been resolved, for any number of requests that race on it: updateStatus
\* validates a transition on one read and writes by id, after others may have written.
\* Whatever the body of the creation may have sent, only a date it sent stands alone.
THEOREM ClosedWasVerifiedHolds == Spec => []ClosedWasVerified
<1>1. MilestoneInv => ClosedWasVerified
  BY DEF MilestoneInv
<1> QED
  BY <1>1, MilestoneInit, MilestoneStep, FreshAlways, PTL DEF Spec

-----------------------------------------------------------------------------
(* The chain of escalations has no gap, although every escalation computes its level from
   an older read.  EscalationChainRecorded speaks of rows and records only; what is about
   to be written must be covered too: an escalation going to level 2 has read level 1,
   which was recorded by then or sent with the creation, and what is recorded stays
   recorded (PendingRecorded). *)

\* An escalation to level 2 follows one to level 1; one about to be written to the
\* complaint has its record.
PendingRecorded ==
    \A t \in Tasks : task[t].op = "escalate" =>
        /\ task[t].pc \in {"record", "write"} /\ task[t].level = 2
              => Reached(task[t].complaint, 1)
        /\ task[t].pc = "write" => Recorded(task[t].complaint, task[t].level)

ChainInv == EscalationChainRecorded /\ PendingRecorded

\* Recorded in the state after a step.
RecordedAfter(c, l) == \E x \in escalations' : x.complaint = c /\ x.level = l

\* Reached in the state after a step.
ReachedAfter(c, l) == RecordedAfter(c, l) \/ l <= complaint'[c].sent.level

\* A step that forgets no record, and adds none above a gap.
RecordsKept ==
    /\ \A c \in Complaints, l \in 1..2 : Recorded(c, l) => RecordedAfter(c, l)
    /\ \A x \in escalations' :
          x.level = 2 => RecordedAfter(x.complaint, 1) \/ Reached(x.complaint, 1)

\* A step that leaves the level of c alone.
LevelKept(c) ==
    /\ complaint'[c].level = complaint[c].level
    /\ complaint'[c].escalated = complaint[c].escalated
    /\ complaint'[c].sent = complaint[c].sent

\* A step that starts no escalation and takes none further.
NoneEscalates ==
    \A t \in Tasks : (task'[t].op = "escalate" /\ task'[t].pc \in {"record", "write"})
                        => task'[t] = task[t]

\* The chain, rung by rung.
Flagged(row) ==
    /\ row.escalated => row.level > 0 \/ row.sent.escalated
    /\ row.level > 0 => row.escalated \/ row.level = row.sent.level

Rungs ==
    /\ \A c \in Complaints :
          /\ Flagged(complaint[c])
          /\ complaint[c].level \in {1, 2} => Reached(c, 1)
          /\ complaint[c].level = 2 => Reached(c, 2)
    /\ \A x \in escalations : x.level = 2 => Reached(x.complaint, 1)

LEMMA ChainOf == TypeInv => (EscalationChainRecorded <=> Rungs)
<1> SUFFICES ASSUME TypeInv PROVE EscalationChainRecorded <=> Rungs
  OBVIOUS
<1>1. ASSUME NEW c \in Complaints
      PROVE  /\ complaint[c].level \in Int /\ complaint[c].sent.level \in Int
             /\ complaint[c].level \in 0..2 \/ complaint[c].level = complaint[c].sent.level
  BY DEF TypeInv, TypeOK, Row, Body, OnLadder
<1>2. \A x \in escalations : x.complaint \in Complaints /\ x.level \in 1..2
  BY DEF TypeInv, TypeOK, EscalationRecord
<1>3. \A x \in escalations : Reached(x.complaint, x.level)
  BY DEF Reached, Recorded
<1>4. ASSUME EscalationChainRecorded PROVE Rungs
  <2>1. ASSUME NEW c \in Complaints
        PROVE  /\ Flagged(complaint[c])
               /\ complaint[c].level \in {1, 2} => Reached(c, 1)
               /\ complaint[c].level = 2 => Reached(c, 2)
    BY <1>4 DEF EscalationChainRecorded, Flagged
  <2>2. ASSUME NEW x \in escalations, x.level = 2 PROVE Reached(x.complaint, 1)
    BY <1>4, <2>2 DEF EscalationChainRecorded
  <2> QED
    BY <2>1, <2>2 DEF Rungs
<1>5. ASSUME Rungs PROVE EscalationChainRecorded
  <2>1. ASSUME NEW c \in Complaints, NEW l \in 1..complaint[c].level PROVE Reached(c, l)
    <3>1. CASE complaint[c].level = complaint[c].sent.level
      BY <1>1, <3>1 DEF Reached
    <3>2. CASE complaint[c].level \in 0..2
      <4>1. \/ l = 1 /\ complaint[c].level \in {1, 2}
            \/ l = 2 /\ complaint[c].level = 2
        BY <3>2
      <4> QED
        BY <1>5, <4>1 DEF Rungs
    <3> QED
      BY <1>1, <3>1, <3>2
  <2>2. ASSUME NEW x \in escalations, NEW l \in 1..x.level PROVE Reached(x.complaint, l)
    <3>1. (l = 1 /\ x.level = 1) \/ (l = 1 /\ x.level = 2) \/ (l = 2 /\ x.level = 2)
      BY <1>2, <2>2
    <3> QED
      BY <1>3, <1>5, <3>1 DEF Rungs
  <2>3. ASSUME NEW c \in Complaints
        PROVE  /\ complaint[c].escalated =>
                     complaint[c].level > 0 \/ complaint[c].sent.escalated
               /\ complaint[c].level > 0 =>
                     complaint[c].escalated \/ complaint[c].level = complaint[c].sent.level
    BY <1>5 DEF Rungs, Flagged
  <2> QED
    BY <2>1, <2>2, <2>3 DEF EscalationChainRecorded
<1> QED
  BY <1>4, <1>5

LEMMA ChainOfNext == TypeInv' => (EscalationChainRecorded' <=> Rungs')
BY ChainOf, PTL

LEMMA ChainFrame ==
    ASSUME TypeInv, TypeInv', ChainInv, \A c \in Complaints : LevelKept(c), RecordsKept,
           NoneEscalates
    PROVE  ChainInv'
<1>1. Rungs
  BY ChainOf DEF ChainInv
<1>4. \A c \in Complaints, l \in 1..2 : Reached(c, l) => ReachedAfter(c, l)
  BY DEF RecordsKept, LevelKept, Reached, ReachedAfter
<1>2. Rungs'
  <2>1. ASSUME NEW c \in Complaints
        PROVE  /\ Flagged(complaint'[c])
               /\ complaint'[c].level \in {1, 2} => ReachedAfter(c, 1)
               /\ complaint'[c].level = 2 => ReachedAfter(c, 2)
    <3>1. /\ Flagged(complaint[c])
          /\ complaint[c].level \in {1, 2} => Reached(c, 1)
          /\ complaint[c].level = 2 => Reached(c, 2)
      BY <1>1 DEF Rungs
    <3> QED
      BY <1>4, <3>1 DEF LevelKept, Flagged
  <2>2. ASSUME NEW x \in escalations', x.level = 2 PROVE ReachedAfter(x.complaint, 1)
    <3>1. x.complaint \in Complaints
      BY DEF TypeInv, TypeOK, EscalationRecord
    <3> QED
      BY <1>4, <2>2, <3>1 DEF RecordsKept, ReachedAfter
  <2> QED
    BY <2>1, <2>2 DEF Rungs, Reached, ReachedAfter, Recorded, RecordedAfter
<1>3. PendingRecorded'
  <2> SUFFICES ASSUME NEW t \in Tasks, task'[t].op = "escalate"
               PROVE  /\ task'[t].pc \in {"record", "write"} /\ task'[t].level = 2
                            => ReachedAfter(task'[t].complaint, 1)
                      /\ task'[t].pc = "write"
                            => RecordedAfter(task'[t].complaint, task'[t].level)
    BY DEF PendingRecorded, Recorded, RecordedAfter, Reached, ReachedAfter
  <2>1. CASE task'[t].pc \in {"record", "write"}
    <3>1. task'[t] = task[t] /\ task[t].complaint \in Complaints /\ task[t].level \in 1..2
      BY <2>1 DEF NoneEscalates, TypeInv, BusyTask
    <3> QED
      BY <1>4, <2>1, <3>1 DEF ChainInv, PendingRecorded, RecordsKept
  <2> QED
    BY <2>1
<1> QED
  BY <1>2, <1>3, ChainOfNext DEF ChainInv

LEMMA SameLevels == ASSUME UNCHANGED complaint PROVE \A c \in Complaints : LevelKept(c)
BY DEF LevelKept

LEMMA SameRecords ==
    ASSUME TypeInv, ChainInv, UNCHANGED escalations
    PROVE  RecordsKept
<1>1. Rungs
  BY ChainOf DEF ChainInv
<1> QED
  BY <1>1 DEF Rungs, RecordsKept, Recorded, RecordedAfter, Reached

LEMMA NoneEscalatesPut ==
    ASSUME TypeInv, NEW t \in Tasks, NEW r, task' = [task EXCEPT ![t] = r],
           r.op # "escalate" \/ r.pc \notin {"record", "write"}
    PROVE  NoneEscalates
BY DEF NoneEscalates, TypeInv, TypeOK

LEMMA NoneEscalatesFinish ==
    ASSUME TypeInv, NEW t \in Tasks, Finish(t)
    PROVE  NoneEscalates
<1>1. Ended(t).op = "none"
  BY IdleTaskType DEF Ended, IdleTask, TaskRecord
<1> QED
  BY <1>1, NoneEscalatesPut DEF Finish

LEMMA NoneEscalatesGoto ==
    ASSUME TypeInv, NEW t \in Tasks, NEW pc \in {"write", "history", "emit"}, Goto(t, pc),
           pc = "write" => task[t].op # "escalate"
    PROVE  NoneEscalates
<1> DEFINE r == [task[t] EXCEPT !.pc = pc]
<1>1. r.op = task[t].op /\ r.pc = pc /\ task' = [task EXCEPT ![t] = r]
  BY DEF Goto, TypeInv, TypeOK, TaskRecord
<1> HIDE DEF r
<1> QED
  BY <1>1, NoneEscalatesPut

\* The read: whoever reads level 1 finds its record.
LEMMA EscalationStarts ==
    ASSUME TypeInv, TypeInv', ChainInv, NEW t \in Tasks, NEW c \in Complaints, NEW u,
           task' = [task EXCEPT ![t] = EscalationFrom(t, c, u)],
           UNCHANGED <<complaint, escalations>>
    PROVE  ChainInv'
<1>1. Rungs
  BY ChainOf DEF ChainInv
<1>2. CASE complaint[c].level \notin {0, 1}
  <2>1. Finish(t)
    BY <1>2 DEF Finish, EscalationFrom
  <2> QED
    BY <2>1, SameLevels, SameRecords, NoneEscalatesFinish, ChainFrame
<1>3. CASE complaint[c].level \in {0, 1}
  <2> DEFINE l == complaint[c].level + 1
             b == u # None \/ complaint[c].officer # None
             r == [IdleTask EXCEPT !.op = "escalate", !.pc = "record", !.complaint = c,
                       !.to = "escalated", !.level = l, !.authored = b]
  <2>1. l = 2 => Reached(c, 1)
    BY <1>1, <1>3 DEF Rungs
  <2>2. EscalationFrom(t, c, u) = r
    BY <1>3 DEF EscalationFrom
  <2> HIDE DEF l, b
  <2>3. r.op = "escalate" /\ r.pc = "record" /\ r.complaint = c /\ r.level = l
    BY IdleTaskType DEF TaskRecord
  <2> HIDE DEF r
  <2>4. \A s \in Tasks : task'[s] = IF s = t THEN r ELSE task[s]
    BY <2>2 DEF TypeInv, TypeOK
  <2>5. PendingRecorded'
    BY <2>1, <2>3, <2>4 DEF ChainInv, PendingRecorded, Recorded, Reached
  <2> QED
    BY <2>5 DEF ChainInv, EscalationChainRecorded, Recorded, Reached
<1> QED
  BY <1>2, <1>3

LEMMA RecordEscalationInChain ==
    ASSUME TypeInv, TypeInv', ChainInv, NEW t \in Tasks, RecordEscalation(t)
    PROVE  ChainInv'
<1> DEFINE c == task[t].complaint
           l == task[t].level
           x == [complaint |-> c, level |-> l, resolved |-> FALSE]
           r == [task[t] EXCEPT !.pc = "write"]
<1>1. At(t, "escalate", "record") /\ c \in Complaints /\ l \in 1..2
  BY DEF RecordEscalation, At, TypeInv, BusyTask
<1>2. l = 2 => Reached(c, 1)
  BY <1>1 DEF ChainInv, PendingRecorded, At
<1>3. escalations' = escalations \cup {x} /\ UNCHANGED complaint
  BY DEF RecordEscalation
<1>4. RecordsKept
  <2>1. Rungs
    BY ChainOf DEF ChainInv
  <2>2. x.complaint = c /\ x.level = l
    OBVIOUS
  <2> HIDE DEF x, c, l
  <2> QED
    BY <1>2, <1>3, <2>1, <2>2 DEF Rungs, RecordsKept, Recorded, RecordedAfter
<1>10. \A d \in Complaints, m \in 1..2 : Reached(d, m) => ReachedAfter(d, m)
  BY <1>3, <1>4 DEF RecordsKept, Reached, ReachedAfter
<1>5. RecordedAfter(c, l)
  <2>1. x.complaint = c /\ x.level = l
    OBVIOUS
  <2> HIDE DEF x, c, l
  <2> QED
    BY <1>3, <2>1 DEF RecordedAfter
<1>6. r.op = "escalate" /\ r.complaint = c /\ r.level = l
  BY <1>1 DEF At, TypeInv, TypeOK, TaskRecord
<1>7. \A s \in Tasks : task'[s] = IF s = t THEN r ELSE task[s]
  BY DEF RecordEscalation, Goto, TypeInv, TypeOK
<1> HIDE DEF x, r
<1>8. PendingRecorded'
  <2> SUFFICES ASSUME NEW s \in Tasks, task'[s].op = "escalate"
               PROVE  /\ task'[s].pc \in {"record", "write"} /\ task'[s].level = 2
                            => ReachedAfter(task'[s].complaint, 1)
                      /\ task'[s].pc = "write"
                            => RecordedAfter(task'[s].complaint, task'[s].level)
    BY DEF PendingRecorded, Recorded, RecordedAfter, Reached, ReachedAfter
  <2>1. CASE s = t
    BY <1>1, <1>2, <1>5, <1>6, <1>7, <1>10, <2>1
  <2>2. CASE s # t
    <3>1. task'[s] = task[s]
      BY <1>7, <2>2
    <3>2. task[s].pc \in {"record", "write"} =>
            task[s].complaint \in Complaints /\ task[s].level \in 1..2
      BY <3>1 DEF TypeInv, BusyTask
    <3> QED
      BY <1>4, <1>10, <3>1, <3>2 DEF ChainInv, PendingRecorded, RecordsKept
  <2> QED
    BY <2>1, <2>2
<1>9. Rungs'
  <2>1. Rungs
    BY ChainOf DEF ChainInv
  <2>2. ASSUME NEW d \in Complaints
        PROVE  /\ Flagged(complaint'[d])
               /\ complaint'[d].level \in {1, 2} => ReachedAfter(d, 1)
               /\ complaint'[d].level = 2 => ReachedAfter(d, 2)
    BY <1>3, <1>10, <2>1 DEF Rungs
  <2>3. ASSUME NEW y \in escalations', y.level = 2 PROVE ReachedAfter(y.complaint, 1)
    <3>1. y.complaint \in Complaints
      BY DEF TypeInv, TypeOK, EscalationRecord
    <3> QED
      BY <1>4, <1>10, <2>3, <3>1 DEF RecordsKept, ReachedAfter
  <2> QED
    BY <2>2, <2>3 DEF Rungs, Reached, ReachedAfter, Recorded, RecordedAfter
<1> QED
  BY <1>8, <1>9, ChainOfNext DEF ChainInv

LEMMA WriteEscalationInChain ==
    ASSUME TypeInv, TypeInv', ChainInv, NEW t \in Tasks, WriteEscalation(t)
    PROVE  ChainInv'
<1> DEFINE c == task[t].complaint
           l == task[t].level
<1>1. At(t, "escalate", "write") /\ c \in Complaints /\ l \in 1..2
  BY DEF WriteEscalation, At, TypeInv, BusyTask
<1>2. Recorded(c, l) /\ (l = 2 => Reached(c, 1))
  BY <1>1 DEF ChainInv, PendingRecorded, At
<1>3. /\ complaint'[c].level = l
      /\ complaint'[c].escalated
      /\ complaint'[c].sent = complaint[c].sent
      /\ \A d \in Complaints \ {c} : complaint'[d] = complaint[d]
      /\ UNCHANGED escalations
  BY <1>1 DEF WriteEscalation, TypeInv, TypeOK, Row
<1>7. \A d \in Complaints : \A m : Reached(d, m)' <=> Reached(d, m)
  BY <1>1, <1>3 DEF Reached, Recorded
<1>4. Rungs'
  <2>1. Rungs
    BY ChainOf DEF ChainInv
  <2> HIDE DEF c, l
  <2>2. l > 0 /\ (l = 1 \/ l = 2)
    BY <1>1
  <2>3. ASSUME NEW d \in Complaints
        PROVE  /\ Flagged(complaint'[d])
               /\ complaint'[d].level \in {1, 2} => Reached(d, 1)
               /\ complaint'[d].level = 2 => Reached(d, 2)
    <3>1. CASE d = c
      BY <1>2, <1>3, <2>2, <3>1 DEF Flagged, Reached
    <3>2. CASE d # c
      BY <1>3, <2>1, <3>2 DEF Rungs
    <3> QED
      BY <3>1, <3>2
  <2>4. \A x \in escalations : x.complaint \in Complaints
    BY DEF TypeInv, TypeOK, EscalationRecord
  <2> QED
    BY <1>3, <1>7, <2>1, <2>3, <2>4 DEF Rungs
<1>5. NoneEscalates
  BY NoneEscalatesGoto DEF WriteEscalation
<1>6. PendingRecorded'
  <2> SUFFICES ASSUME NEW s \in Tasks, task'[s].op = "escalate",
                      task'[s].pc \in {"record", "write"}
               PROVE  /\ task'[s].level = 2 => ReachedAfter(task'[s].complaint, 1)
                      /\ task'[s].pc = "write"
                            => RecordedAfter(task'[s].complaint, task'[s].level)
    BY DEF PendingRecorded, Recorded, RecordedAfter, Reached, ReachedAfter
  <2>1. task'[s] = task[s] /\ task[s].complaint \in Complaints
    BY <1>5 DEF NoneEscalates, TypeInv, BusyTask
  <2>2. \A d \in Complaints : Reached(d, 1) => ReachedAfter(d, 1)
    BY <1>1, <1>3 DEF Reached, ReachedAfter, Recorded, RecordedAfter
  <2>3. \A d, m : Recorded(d, m) => RecordedAfter(d, m)
    BY <1>3 DEF Recorded, RecordedAfter
  <2> QED
    BY <2>1, <2>2, <2>3 DEF ChainInv, PendingRecorded
<1> QED
  BY <1>4, <1>6, ChainOfNext DEF ChainInv

LEMMA ResolveEscalationInChain ==
    ASSUME TypeInv, TypeInv', ChainInv, NEW x \in escalations, ResolveEscalation(x)
    PROVE  ChainInv'
<1> DEFINE y == [x EXCEPT !.resolved = TRUE]
<1>1. y.complaint = x.complaint /\ y.level = x.level
  BY DEF TypeInv, TypeOK, EscalationRecord
<1>2. escalations' = (escalations \ {x}) \cup {y} /\ UNCHANGED <<complaint, task>>
  BY DEF ResolveEscalation
<1> HIDE DEF y
<1>3. \A c, l : Recorded(c, l) => RecordedAfter(c, l)
  BY <1>1, <1>2 DEF Recorded, RecordedAfter
<1>4. RecordsKept
  <2>1. Rungs
    BY ChainOf DEF ChainInv
  <2> QED
    BY <1>1, <1>2, <1>3, <2>1 DEF Rungs, RecordsKept, Reached
<1> QED
  BY <1>2, <1>4, SameLevels, ChainFrame DEF NoneEscalates

LEMMA ChainInit == Init => ChainInv
<1> SUFFICES ASSUME Init PROVE ChainInv
  OBVIOUS
<1>1. AbsentRow.level = 0 /\ AbsentRow.escalated = FALSE /\ IdleTask.op = "none"
  BY DEF AbsentRow, IdleTask
<1>2. Rungs
  BY <1>1 DEF Init, Rungs, Flagged
<1>3. PendingRecorded
  BY <1>1 DEF Init, PendingRecorded
<1>4. TypeInv
  BY TypeInvInit
<1> QED
  BY <1>2, <1>3, <1>4, ChainOf DEF ChainInv

\* The other steps of a task: no level is written and no escalation taken further.
LEMMA ProceedInChain ==
    ASSUME TypeInv, TypeInv', ChainInv, NEW t \in Tasks, Proceed(t) \/ Abort(t)
    PROVE  ChainInv'
<1> DEFINE c == task[t].complaint
<1>1. c \in Complaints
  BY ProceedShape
<1>2. CASE WriteStatus(t) \/ WriteAssignment(t)
  <2>1. CASE WriteStatus(t)
    <3>1. complaint' = [complaint EXCEPT ![c] = WithStatus(@, task[t].to)]
      BY <2>1 DEF WriteStatus
    <3>2. LevelKept(c)
      <4>1. \A to : /\ WithStatus(complaint[c], to).level = complaint[c].level
                    /\ WithStatus(complaint[c], to).escalated = complaint[c].escalated
                    /\ WithStatus(complaint[c], to).sent = complaint[c].sent
        BY <1>1 DEF WithStatus, TypeInv, TypeOK, Row
      <4> QED
        BY <1>1, <3>1, <4>1 DEF LevelKept, TypeInv, TypeOK
    <3>3. \A d \in Complaints : LevelKept(d)
      BY <1>1, <3>1, <3>2 DEF LevelKept, TypeInv, TypeOK
    <3> QED
      BY <2>1, <3>3, SameRecords, NoneEscalatesGoto, ChainFrame DEF WriteStatus
  <2>2. CASE WriteAssignment(t)
    <3>1. \A d \in Complaints : LevelKept(d)
      BY <1>1, <2>2 DEF WriteAssignment, LevelKept, TypeInv, TypeOK, Row
    <3> QED
      BY <2>2, <3>1, SameRecords, NoneEscalatesGoto, ChainFrame DEF WriteAssignment
  <2> QED
    BY <1>2, <2>1, <2>2
<1>3. CASE LogUpdate(t) \/ LogAssignment(t) \/ ReassignmentNoteTooLong(t)
           \/ LogEscalation(t) \/ Abort(t)
  <2>1. Finish(t) /\ UNCHANGED <<complaint, escalations>>
    BY <1>3 DEF LogUpdate, LogAssignment, ReassignmentNoteTooLong, LogEscalation, Abort
  <2> QED
    BY <2>1, SameLevels, SameRecords, NoneEscalatesFinish, ChainFrame
<1>4. ASSUME NEW images \in BOOLEAN, WriteProof(t, images) PROVE ChainInv'
  <2>1. \A d \in Complaints : LevelKept(d)
    BY <1>1, <1>4 DEF WriteProof, LevelKept, TypeInv, TypeOK, Row
  <2> QED
    BY <1>4, <2>1, SameRecords, NoneEscalatesFinish, ChainFrame DEF WriteProof
<1>5. CASE EscalateBreached(t)
  BY <1>1, <1>5, EscalationStarts DEF EscalateBreached
<1> QED
  BY <1>2, <1>3, <1>4, <1>5, RecordEscalationInChain, WriteEscalationInChain DEF Proceed

\* A new complaint has reached the levels that were sent with it, and no other's chain
\* is touched.
LEMMA CreateInChain ==
    ASSUME TypeInv, TypeInv', Fresh, ChainInv, NEW c \in Complaints, Creates(c)
    PROVE  ChainInv'
<1> DEFINE r == [IdleTask EXCEPT !.op = "create", !.pc = "history", !.complaint = c,
                                 !.to = "created"]
<1>1. /\ r.op = "create" /\ task' = [task EXCEPT ![<<"create", c>>] = r]
      /\ UNCHANGED escalations
  BY IdleTaskType DEF Creates, CreateComplaint, TaskRecord
<1> HIDE DEF r
<1>2. complaint[c] = AbsentRow /\ \A t \in Tasks : task[t].complaint # c
  BY DEF Creates, CreateComplaint, Fresh, Unborn
<1>3. PICK body \in Bodies : complaint'[c] = Filed(body)
  BY CreatedRow
<1>4. \A d \in Complaints \ {c} : complaint'[d] = complaint[d]
  BY CreatedRow
<1>5. Rungs
  BY ChainOf DEF ChainInv
<1>6. AbsentRow.sent.level = 0
  BY DEF AbsentRow, NothingSent
<1>7. \A d \in Complaints : Reached(d, 1) => ReachedAfter(d, 1)
  <2>1. Reached(c, 1) => Recorded(c, 1)
    BY <1>2, <1>6 DEF Reached
  <2>2. \A d : Recorded(d, 1) => RecordedAfter(d, 1)
    BY <1>1 DEF Recorded, RecordedAfter
  <2> QED
    BY <1>4, <2>1, <2>2 DEF Reached, ReachedAfter
<1>8. ASSUME NEW d \in Complaints
      PROVE  /\ Flagged(complaint'[d])
             /\ complaint'[d].level \in {1, 2} => ReachedAfter(d, 1)
             /\ complaint'[d].level = 2 => ReachedAfter(d, 2)
  <2>1. CASE d = c
    <3>1. complaint'[d].level = body.level /\ complaint'[d].sent = body
      BY <1>3, <2>1 DEF Filed
    <3>2. complaint'[d].escalated = body.escalated
      BY <1>3, <2>1 DEF Filed
    <3> QED
      BY <3>1, <3>2 DEF Flagged, ReachedAfter
  <2>2. CASE d # c
    <3>1. Reached(d, 2) => ReachedAfter(d, 2)
      BY <1>1, <1>4, <2>2 DEF Reached, ReachedAfter, Recorded, RecordedAfter
    <3> QED
      BY <1>4, <1>5, <1>7, <2>2, <3>1 DEF Rungs
  <2> QED
    BY <2>1, <2>2
<1>9. Rungs'
  <2>1. ASSUME NEW x \in escalations', x.level = 2 PROVE ReachedAfter(x.complaint, 1)
    BY <1>1, <1>5, <1>7, <2>1 DEF Rungs, TypeInv, TypeOK, EscalationRecord
  <2> QED
    BY <1>8, <2>1 DEF Rungs, Reached, ReachedAfter, Recorded, RecordedAfter
<1>10. NoneEscalates
  BY <1>1, TaskSets, NoneEscalatesPut
<1>11. PendingRecorded'
  <2> SUFFICES ASSUME NEW s \in Tasks, task'[s].op = "escalate",
                      task'[s].pc \in {"record", "write"}
               PROVE  /\ task'[s].level = 2 => ReachedAfter(task'[s].complaint, 1)
                      /\ task'[s].pc = "write"
                            => RecordedAfter(task'[s].complaint, task'[s].level)
    BY DEF PendingRecorded, Recorded, RecordedAfter, Reached, ReachedAfter
  <2>1. task'[s] = task[s] /\ task[s].complaint \in Complaints
    BY <1>10 DEF NoneEscalates, TypeInv, BusyTask
  <2>2. \A d, m : Recorded(d, m) => RecordedAfter(d, m)
    BY <1>1 DEF Recorded, RecordedAfter
  <2> QED
    BY <1>7, <2>1, <2>2 DEF ChainInv, PendingRecorded
<1> QED
  BY <1>9, <1>11, ChainOfNext DEF ChainInv

\* The steps of the creation of a complaint and of its assignment.
LEMMA HandleInChain ==
    ASSUME TypeInv, TypeInv', Fresh, ChainInv, NEW c \in Complaints,
           Creates(c) \/ LogCreated(c) \/ EmitCreated(c) \/ PickOfficer(c)
             \/ NoOfficerAvailable(c) \/ PassDeadline(c)
    PROVE  ChainInv'
<1>1. CASE Creates(c)
  BY <1>1, CreateInChain
<1>2. CASE LogCreated(c)
  BY <1>2, TaskSets, SameLevels, SameRecords, NoneEscalatesGoto, ChainFrame
     DEF LogCreated, At
<1>3. CASE EmitCreated(c)
  <2> DEFINE t == <<"create", c>>
             r == [IdleTask EXCEPT !.op = "assign", !.pc = "read", !.complaint = c]
  <2>1. /\ task' = [task EXCEPT ![t] = Ended(t), ![<<"assign", c>>] = r]
        /\ UNCHANGED <<complaint, escalations>>
    BY <1>3 DEF EmitCreated
  <2>2. r.op = "assign" /\ Ended(t).op = "none"
    BY IdleTaskType DEF Ended, IdleTask, TaskRecord
  <2> HIDE DEF r
  <2>3. NoneEscalates
    BY <2>1, <2>2, TaskSets DEF NoneEscalates, TypeInv, TypeOK
  <2> QED
    BY <2>1, <2>3, SameLevels, SameRecords, ChainFrame
<1>4. CASE PickOfficer(c)
  <2> DEFINE t == <<"assign", c>>
  <2>1. PICK o : task' = [task EXCEPT ![t] = [@ EXCEPT !.pc = "write", !.officer = o,
                                                       !.to = "assigned"]]
    BY <1>4 DEF PickOfficer
  <2> DEFINE r == [task[t] EXCEPT !.pc = "write", !.officer = o, !.to = "assigned"]
  <2>2. task[t] \in TaskRecord /\ task[t].op = "assign" /\ task' = [task EXCEPT ![t] = r]
    BY <1>4, <2>1, TaskSets DEF PickOfficer, At, TypeInv, TypeOK
  <2>3. r.op = "assign"
    BY <2>2 DEF TaskRecord
  <2> HIDE DEF r
  <2> QED
    BY <1>4, <2>2, <2>3, TaskSets, SameLevels, SameRecords, NoneEscalatesPut, ChainFrame
       DEF PickOfficer
<1>5. CASE NoOfficerAvailable(c)
  BY <1>5, TaskSets, SameLevels, SameRecords, NoneEscalatesFinish, ChainFrame
     DEF NoOfficerAvailable
<1>6. CASE PassDeadline(c)
  BY <1>6, SameLevels, SameRecords, ChainFrame DEF PassDeadline, NoneEscalates
<1> QED
  BY <1>1, <1>2, <1>3, <1>4, <1>5, <1>6

\* The requests that start a task.
LEMMA BeginInChain ==
    ASSUME TypeInv, TypeInv', ChainInv, NEW t \in HttpTask, NEW c \in Complaints,
           NEW u \in Staff,
           \/ \E to \in Status : BeginUpdate(t, c, u, to)
           \/ BeginProof(t, c, u)
           \/ \E o \in Staff : BeginReassign(t, c, u, o)
           \/ BeginEscalate(t, c, u)
    PROVE  ChainInv'
<1>1. ASSUME NEW to \in Status, BeginUpdate(t, c, u, to) PROVE ChainInv'
  <2>1. [IdleTask EXCEPT !.op = "update", !.pc = "write", !.complaint = c,
             !.to = to].op = "update"
    BY IdleTaskType DEF TaskRecord
  <2> QED
    BY <1>1, <2>1, TaskSets, SameLevels, SameRecords, NoneEscalatesPut, ChainFrame
       DEF BeginUpdate
<1>2. CASE BeginProof(t, c, u)
  <2>1. [IdleTask EXCEPT !.op = "proof", !.pc = "write", !.complaint = c].op = "proof"
    BY IdleTaskType DEF TaskRecord
  <2> QED
    BY <1>2, <2>1, TaskSets, SameLevels, SameRecords, NoneEscalatesPut, ChainFrame
       DEF BeginProof
<1>3. ASSUME NEW o \in Staff, BeginReassign(t, c, u, o) PROVE ChainInv'
  <2>1. [IdleTask EXCEPT !.op = "reassign", !.pc = "write", !.complaint = c,
             !.to = "assigned", !.officer = o].op = "reassign"
    BY IdleTaskType DEF TaskRecord
  <2> QED
    BY <1>3, <2>1, TaskSets, SameLevels, SameRecords, NoneEscalatesPut, ChainFrame
       DEF BeginReassign
<1>4. CASE BeginEscalate(t, c, u)
  BY <1>4, TaskSets, EscalationStarts DEF BeginEscalate
<1> QED
  BY <1>1, <1>2, <1>3, <1>4

\* The sweeps write no level; the handler they start has read nothing yet.
LEMMA SweepInChain ==
    ASSUME TypeInv, TypeInv', ChainInv, NEW e \in Engines,
           \/ FindBreaches(e)
           \/ \E c \in Complaints : MarkBreached(e, c)
           \/ EmitBreached(e)
           \/ AbortSweep(e)
    PROVE  ChainInv'
<1>1. CASE FindBreaches(e) \/ AbortSweep(e)
  BY <1>1, SameLevels, SameRecords, ChainFrame DEF FindBreaches, AbortSweep, NoneEscalates
<1>2. ASSUME NEW c \in Complaints, MarkBreached(e, c) PROVE ChainInv'
  <2>1. \A d \in Complaints : LevelKept(d)
    BY <1>2 DEF MarkBreached, LevelKept, TypeInv, TypeOK, Row
  <2> QED
    BY <1>2, <2>1, SameRecords, ChainFrame DEF MarkBreached, NoneEscalates
<1>3. CASE EmitBreached(e)
  <2> DEFINE d == sweep[e].current
             r == [IdleTask EXCEPT !.op = "escalate", !.pc = "read", !.complaint = d]
  <2>1. d \in Complaints /\ task' = [task EXCEPT ![<<"breach", <<e, d>>>>] = r]
    BY <1>3 DEF EmitBreached, TypeInv, BusySweep
  <2>2. r.pc = "read"
    BY IdleTaskType DEF TaskRecord
  <2> HIDE DEF r
  <2> QED
    BY <1>3, <2>1, <2>2, TaskSets, SameLevels, SameRecords, NoneEscalatesPut, ChainFrame
       DEF EmitBreached
<1> QED
  BY <1>1, <1>2, <1>3

LEMMA ChainStep == TypeInv /\ TypeInv' /\ Fresh /\ ChainInv /\ [Next]_vars => ChainInv'
<1> SUFFICES ASSUME TypeInv, TypeInv', Fresh, ChainInv, [Next]_vars PROVE ChainInv'
  OBVIOUS
<1>1. CASE UNCHANGED vars
  BY <1>1, SameLevels, SameRecords, ChainFrame DEF vars, NoneEscalates
<1>2. ASSUME NEW x \in escalations, ResolveEscalation(x) PROVE ChainInv'
  BY <1>2, ResolveEscalationInChain
<1> QED
  BY <1>1, <1>2, ProceedInChain, HandleInChain, BeginInChain, SweepInChain, NextIsStep,
     TaskSets DEF Step

\* A complaint at some level of the chain has an escalation record for every level up
\* to it that is above the one it was filed with, for any number of engines and requests
\* that escalate it at the same time, although each writes a level computed from an
\* older read, and for any level the body of its creation may have sent.
THEOREM EscalationChainRecordedHolds == Spec => []EscalationChainRecorded
<1>1. ChainInv => EscalationChainRecorded
  BY DEF ChainInv
<1> QED
  BY <1>1, ChainInit, ChainStep, TypeInvStep, FreshAlways, PTL DEF Spec

-----------------------------------------------------------------------------
(* A row is there from the creation on *)

\* What was not inserted was not created.
Born ==
    \A c \in Complaints : complaint[c].status = "absent" => task[<<"create", c>>].pc = "idle"

\* What a task works on was inserted.
LEMMA RunningIsFiled ==
    ASSUME TypeInv, Fresh, Born, NEW t \in Tasks, task[t].pc \notin {"idle", "done"}
    PROVE  task[t].complaint \in Complaints /\ complaint[task[t].complaint].status # "absent"
<1>1. task[t].complaint \in Complaints
  BY DEF TypeInv, BusyTask
<1> QED
  BY <1>1 DEF Born, Fresh, Unborn

\* No task takes a row away.
LEMMA ProceedKeepsRows ==
    ASSUME TypeInv, NEW t \in Tasks, Proceed(t) \/ Abort(t), NEW c \in Complaints,
           complaint'[c].status = "absent"
    PROVE  complaint[c].status = "absent"
<1> DEFINE d == task[t].complaint
<1>1. d \in Complaints /\ (c # d => complaint'[c] = complaint[c])
  BY ProceedShape
<1>2. CASE WriteStatus(t)
  <2>1. task[t].to \in Status
    BY <1>2 DEF WriteStatus, At, TypeInv, BusyTask
  <2>2. \A to : WithStatus(complaint[d], to).status = to
    BY <1>1 DEF WithStatus, TypeInv, TypeOK, Row
  <2>3. c # d
    BY <1>1, <1>2, <2>1, <2>2 DEF WriteStatus, TypeInv, TypeOK, Status
  <2> QED
    BY <1>1, <2>3
<1>3. CASE WriteAssignment(t) \/ WriteEscalation(t)
  <2>1. c # d
    BY <1>1, <1>3 DEF WriteAssignment, WriteEscalation, TypeInv, TypeOK, Row
  <2> QED
    BY <1>1, <2>1
<1>4. ASSUME NEW images \in BOOLEAN, WriteProof(t, images)
      PROVE  complaint[c].status = "absent"
  BY <1>1, <1>4 DEF WriteProof, TypeInv, TypeOK, Row
<1>5. CASE UNCHANGED complaint
  BY <1>5
<1> QED
  BY <1>2, <1>3, <1>4, <1>5
     DEF Proceed, Abort, LogUpdate, LogAssignment, ReassignmentNoteTooLong,
         EscalateBreached, RecordEscalation, LogEscalation

LEMMA BornInit == Init => Born
<1>1. IdleTask.pc = "idle"
  BY DEF IdleTask
<1> QED
  BY <1>1, TaskSets DEF Init, Born

LEMMA BornStep == TypeInv /\ Born /\ [Next]_vars => Born'
<1> SUFFICES ASSUME TypeInv, Born, [Next]_vars, NEW c \in Complaints,
                    complaint'[c].status = "absent"
             PROVE  task'[<<"create", c>>].pc = "idle"
  BY DEF Born
<1> DEFINE k == <<"create", c>>
<1>0. k \in Tasks
  BY TaskSets
<1>1. ASSUME NEW t \in Tasks, t # k, NEW r, task' = [task EXCEPT ![t] = r],
             complaint[c].status = "absent"
      PROVE  task'[k].pc = "idle"
  BY <1>0, <1>1 DEF Born, TypeInv, TypeOK
<1>2. ASSUME UNCHANGED <<complaint, task>> PROVE task'[k].pc = "idle"
  BY <1>2 DEF Born
<1>3. ASSUME NEW d \in Complaints, Creates(d) PROVE task'[k].pc = "idle"
  <2>1. \A body : Filed(body).status = "created"
    BY DEF Filed
  <2>2. c # d
    BY <1>3, <2>1, CreatedRow
  <2>3. complaint[c].status = "absent"
    BY <1>3, <2>2, CreatedRow
  <2>4. <<"create", d>> \in Tasks /\ <<"create", d>> # k
    BY <2>2, TaskSets
  <2>5. \E r : task' = [task EXCEPT ![<<"create", d>>] = r]
    BY <1>3 DEF Creates, CreateComplaint
  <2> QED
    BY <1>1, <2>3, <2>4, <2>5
<1>4. ASSUME NEW d \in Complaints, LogCreated(d) PROVE task'[k].pc = "idle"
  <2>1. UNCHANGED complaint /\ task[k].pc = "idle"
    BY <1>4 DEF LogCreated, Born
  <2>2. <<"create", d>> \in Tasks /\ <<"create", d>> # k
    BY <1>4, <2>1, TaskSets DEF LogCreated, At
  <2>3. \E r : task' = [task EXCEPT ![<<"create", d>>] = r]
    BY <1>4 DEF LogCreated, Goto
  <2> QED
    BY <1>1, <2>1, <2>2, <2>3
<1>5. ASSUME NEW d \in Complaints, EmitCreated(d) PROVE task'[k].pc = "idle"
  <2>1. UNCHANGED complaint /\ task[k].pc = "idle"
    BY <1>5 DEF EmitCreated, Born
  <2>2. <<"create", d>> # k /\ <<"assign", d>> # k
    BY <1>5, <2>1 DEF EmitCreated, At
  <2>3. PICK r, s : task' = [task EXCEPT ![<<"create", d>>] = r, ![<<"assign", d>>] = s]
    BY <1>5 DEF EmitCreated
  <2> QED
    BY <1>0, <2>1, <2>2, <2>3 DEF TypeInv, TypeOK
<1>6. ASSUME NEW d \in Complaints, PickOfficer(d) \/ NoOfficerAvailable(d)
      PROVE  task'[k].pc = "idle"
  <2>1. UNCHANGED complaint /\ <<"assign", d>> \in Tasks /\ <<"assign", d>> # k
    BY <1>6, TaskSets DEF PickOfficer, NoOfficerAvailable
  <2>2. \E r : task' = [task EXCEPT ![<<"assign", d>>] = r]
    BY <1>6 DEF PickOfficer, NoOfficerAvailable, Finish
  <2> QED
    BY <1>1, <2>1, <2>2
<1>7. ASSUME NEW t \in HttpTask, NEW d \in Complaints, NEW u \in Staff,
             \/ \E to \in Status : BeginUpdate(t, d, u, to)
             \/ BeginProof(t, d, u)
             \/ \E o \in Staff : BeginReassign(t, d, u, o)
             \/ BeginEscalate(t, d, u)
      PROVE  task'[k].pc = "idle"
  <2>1. UNCHANGED complaint /\ \E r : task' = [task EXCEPT ![t] = r]
    BY <1>7 DEF BeginUpdate, BeginProof, BeginReassign, BeginEscalate
  <2>2. t \in Tasks /\ t # k
    BY HttpSlots DEF CreateTask
  <2> QED
    BY <1>1, <2>1, <2>2
<1>8. ASSUME NEW t \in Tasks, Proceed(t) \/ Abort(t) PROVE task'[k].pc = "idle"
  <2>1. complaint[c].status = "absent"
    BY <1>8, ProceedKeepsRows
  <2>2. t # k
    BY <1>8, <2>1, ProceedShape DEF Born
  <2>3. \E r : task' = [task EXCEPT ![t] = r]
    BY <1>8, ProceedShape
  <2> QED
    BY <1>1, <2>1, <2>2, <2>3
<1>9. ASSUME NEW e \in Engines, EmitBreached(e) PROVE task'[k].pc = "idle"
  <2>1. PICK d \in Complaints : \E r : task' = [task EXCEPT ![<<"breach", <<e, d>>>>] = r]
    BY <1>9 DEF EmitBreached, TypeInv, BusySweep
  <2>2. <<"breach", <<e, d>>>> \in Tasks /\ <<"breach", <<e, d>>>> # k
    BY TaskSets
  <2>3. UNCHANGED complaint
    BY <1>9 DEF EmitBreached
  <2> QED
    BY <1>1, <2>1, <2>2, <2>3
<1>10. ASSUME NEW e \in Engines, NEW d \in Complaints, MarkBreached(e, d)
       PROVE  task'[k].pc = "idle"
  <2>1. complaint[c].status = "absent"
    BY <1>10 DEF MarkBreached, TypeInv, TypeOK, Row
  <2> QED
    BY <1>10, <2>1 DEF MarkBreached, Born
<1>11. ASSUME UNCHANGED vars PROVE task'[k].pc = "idle"
  BY <1>2, <1>11 DEF vars
<1>12. ASSUME NEW d \in Complaints, PassDeadline(d) PROVE task'[k].pc = "idle"
  BY <1>2, <1>12 DEF PassDeadline
<1>13. ASSUME NEW e \in Engines, FindBreaches(e) \/ AbortSweep(e) PROVE task'[k].pc = "idle"
  BY <1>2, <1>13 DEF FindBreaches, AbortSweep
<1>14. ASSUME NEW x \in escalations, ResolveEscalation(x) PROVE task'[k].pc = "idle"
  BY <1>2, <1>14 DEF ResolveEscalation
<1> QED
  BY <1>3, <1>4, <1>5, <1>6, <1>7, <1>8, <1>9, <1>10, <1>11, <1>12, <1>13, <1>14,
     NextIsStep, TaskSets DEF Step

-----------------------------------------------------------------------------
(* The promise is kept *)

\* A step after which c has the same milestones as before.
SameMilestones(c) == Milestones(complaint'[c]) = Milestones(complaint[c])

\* A step that sends nobody anywhere.
SameLadders == \A c \in Complaints, l \in 1..2 : ReachedAfter(c, l) <=> Reached(c, l)

\* A step that files nothing.
SameFiled ==
    \A c \in Complaints : complaint'[c].status = "absent" <=> complaint[c].status = "absent"

LEMMA FiledAlike ==
    ASSUME SameFiled
    PROVE  {c \in Complaints : complaint[c].status # "absent"}'
             = {c \in Complaints : complaint[c].status # "absent"}
BY DEF SameFiled

LEMMA LaddersAlike ==
    ASSUME SameLadders
    PROVE  [c \in Complaints |-> {l \in 1..2 : Reached(c, l)}]'
             = [c \in Complaints |-> {l \in 1..2 : Reached(c, l)}]
BY DEF SameLadders, Reached, ReachedAfter, Recorded, RecordedAfter

LEMMA Stutter ==
    ASSUME \A c \in Complaints : SameMilestones(c), \A c \in Complaints : LevelKept(c),
           SameLadders, SameFiled
    PROVE  UNCHANGED Promise!vars
<1>1. [c \in Complaints |-> Milestones(complaint[c])]'
        = [c \in Complaints |-> Milestones(complaint[c])]
  BY DEF SameMilestones, Milestones
<1>2. [c \in Complaints |-> complaint[c].level]' = [c \in Complaints |-> complaint[c].level]
  BY DEF LevelKept
<1> QED
  BY <1>1, <1>2, FiledAlike, LaddersAlike DEF Promise!vars

LEMMA KeptMilestones ==
    ASSUME NEW c, Kept(c)
    PROVE  SameMilestones(c)
BY DEF Kept, SameMilestones, Milestones

LEMMA UnchangedLadders ==
    ASSUME \A c \in Complaints : LevelKept(c), UNCHANGED escalations
    PROVE  SameLadders
BY DEF SameLadders, LevelKept, Reached, ReachedAfter, Recorded, RecordedAfter

LEMMA PromiseInit == Init => Promise!Init
<1> SUFFICES ASSUME Init PROVE Promise!Init
  OBVIOUS
<1>1. /\ Milestones(AbsentRow) = {} /\ AbsentRow.level = 0 /\ AbsentRow.status = "absent"
      /\ AbsentRow.sent.level = 0
  BY DEF Milestones, AbsentRow, NothingSent
<1>2. \A c \in Complaints : complaint[c] = AbsentRow
  BY DEF Init
<1>3. \A c \in Complaints : {l \in 1..2 : Reached(c, l)} = {}
  BY <1>1, <1>2 DEF Init, Reached, Recorded
<1> QED
  BY <1>1, <1>2, <1>3 DEF Promise!Init

\* Filing, reaching, being sent and standing are the steps of the promise.
LEMMA PromiseSteps ==
    ASSUME NEW c \in Complaints
    PROVE  /\ \A claimed \in SUBSET {"resolved", "verified", "closed"}, body \in Bodies :
                 Promise!File(c, claimed, body.level) => Promise!Next
           /\ \A m \in {"resolved", "verified", "closed"} : Promise!Reach(c, m) => Promise!Next
           /\ \A l \in 1..2 : Promise!Send(c, l) \/ Promise!Stand(c, l) => Promise!Next
BY DEF Promise!Next

\* The insert files the complaint, with what its body claims.
LEMMA CreateFiles ==
    ASSUME TypeInv, Fresh, NEW c \in Complaints, Creates(c)
    PROVE  Promise!Next
<1>1. complaint[c] = AbsentRow
  BY DEF Creates, CreateComplaint, Fresh, Unborn
<1>2. PICK body \in Bodies : complaint'[c] = Filed(body)
  BY CreatedRow
<1>3. (\A d \in Complaints \ {c} : complaint'[d] = complaint[d]) /\ UNCHANGED escalations
  BY CreatedRow DEF Creates, CreateComplaint
<1>4. /\ AbsentRow.status = "absent" /\ AbsentRow.sent.level = 0
      /\ Filed(body).status = "created" /\ Filed(body).level = body.level
      /\ Filed(body).sent = body
  BY DEF AbsentRow, NothingSent, Filed
<1> DEFINE claimed == Milestones(Filed(body))
           l == body.level
           filed == {d \in Complaints : complaint[d].status # "absent"}
           later == {d \in Complaints : complaint'[d].status # "absent"}
<1>5. claimed \in SUBSET {"resolved", "verified", "closed"}
  BY DEF Milestones
<1>6. c \notin filed /\ later = filed \cup {c}
  BY <1>1, <1>2, <1>3, <1>4
<1>7. filed' = later
  OBVIOUS
<1>8. [d \in Complaints |-> Milestones(complaint'[d])]
        = [[d \in Complaints |-> Milestones(complaint[d])] EXCEPT ![c] = claimed]
  BY <1>2, <1>3
<1>9. [d \in Complaints |-> Milestones(complaint[d])]'
        = [d \in Complaints |-> Milestones(complaint'[d])]
  BY DEF Milestones
<1>10. [d \in Complaints |-> complaint'[d].level]
         = [[d \in Complaints |-> complaint[d].level] EXCEPT ![c] = l]
  BY <1>2, <1>3, <1>4
<1>11. [d \in Complaints |-> {m \in 1..2 : ReachedAfter(d, m)}]
         = [[d \in Complaints |-> {m \in 1..2 : Reached(d, m)}]
               EXCEPT ![c] = @ \cup {m \in 1..2 : m <= l}]
  <2>1. \A d \in Complaints \ {c}, m \in 1..2 : ReachedAfter(d, m) <=> Reached(d, m)
    BY <1>3 DEF Reached, ReachedAfter, Recorded, RecordedAfter
  <2>2. \A m \in 1..2 : ReachedAfter(c, m) <=> Reached(c, m) \/ m <= l
    BY <1>1, <1>2, <1>3, <1>4 DEF Reached, ReachedAfter, Recorded, RecordedAfter
  <2>3. {m \in 1..2 : ReachedAfter(c, m)}
          = {m \in 1..2 : Reached(c, m)} \cup {m \in 1..2 : m <= l}
    BY <2>2
  <2>4. \A d \in Complaints \ {c} :
          {m \in 1..2 : ReachedAfter(d, m)} = {m \in 1..2 : Reached(d, m)}
    BY <2>1
  <2> QED
    BY <2>3, <2>4
<1>12. [d \in Complaints |-> {m \in 1..2 : Reached(d, m)}]'
         = [d \in Complaints |-> {m \in 1..2 : ReachedAfter(d, m)}]
  BY DEF Reached, ReachedAfter, Recorded, RecordedAfter
<1> HIDE DEF claimed, l
<1>13. Promise!File(c, claimed, l)
  BY <1>6, <1>7, <1>8, <1>9, <1>10, <1>11, <1>12 DEF Promise!File
<1> QED
  BY <1>5, <1>13, PromiseSteps DEF l

\* The write of a status reaches the milestone of that status, if it is one.
LEMMA WriteStatusReaches ==
    ASSUME TypeInv, Fresh, Born, MilestoneInv, NEW t \in Tasks, WriteStatus(t)
    PROVE  [Promise!Next]_(Promise!vars)
<1> DEFINE c == task[t].complaint
           to == task[t].to
           row == WithStatus(complaint[c], to)
<1>1. c \in Complaints /\ complaint[c] \in Row /\ At(t, "update", "write")
  BY DEF TypeInv, TypeOK, BusyTask, WriteStatus, At
<1>2. complaint' = [complaint EXCEPT ![c] = row] /\ UNCHANGED escalations
  BY DEF WriteStatus
<1>3. /\ row.resolvedAt = (complaint[c].resolvedAt \/ to = "resolved")
      /\ row.verifiedAt = (complaint[c].verifiedAt \/ to = "verified")
      /\ row.closedAt = (complaint[c].closedAt \/ to = "closed")
      /\ row.level = complaint[c].level /\ row.escalated = complaint[c].escalated
      /\ row.sent = complaint[c].sent /\ row.status = to
  BY <1>1 DEF WithStatus, Row
<1> HIDE DEF row
<1>4. \A d \in Complaints : complaint'[d] = IF d = c THEN row ELSE complaint[d]
  BY <1>1, <1>2 DEF TypeInv, TypeOK
<1>5. \A d \in Complaints : LevelKept(d)
  BY <1>3, <1>4 DEF LevelKept
<1>6. SameLadders
  BY <1>2, <1>5, UnchangedLadders
<1>9. complaint[c].status # "absent" /\ to # "absent"
  BY <1>1, RunningIsFiled DEF At, TypeInv, BusyTask, Status
<1>10. SameFiled
  BY <1>3, <1>4, <1>9 DEF SameFiled
<1>7. CASE to \in {"resolved", "verified", "closed"}
  <2>1. Milestones(row) = Milestones(complaint[c]) \cup {to}
    BY <1>3, <1>7 DEF Milestones
  <2>2. Promise!Before[to] \subseteq Milestones(complaint[c])
    BY <1>1, <1>7 DEF MilestoneInv, NeverEarly, Promise!Before, Milestones
  <2>3. Promise!Reach(c, to)
    <3>1. [d \in Complaints |-> Milestones(complaint'[d])]
            = [[d \in Complaints |-> Milestones(complaint[d])]
                  EXCEPT ![c] = @ \cup {to}]
      BY <1>1, <1>4, <2>1
    <3>2. [d \in Complaints |-> Milestones(complaint[d])]'
            = [d \in Complaints |-> Milestones(complaint'[d])]
      BY DEF Milestones
    <3> QED
      BY <1>1, <1>5, <1>6, <1>9, <1>10, <2>2, <3>1, <3>2, FiledAlike, LaddersAlike
         DEF Promise!Reach, LevelKept
  <2> QED
    BY <1>1, <1>7, <2>3, PromiseSteps
<1>8. CASE to \notin {"resolved", "verified", "closed"}
  <2>1. \A d \in Complaints : SameMilestones(d)
    BY <1>3, <1>4, <1>8 DEF SameMilestones, Milestones
  <2> QED
    BY <1>5, <1>6, <1>10, <2>1, Stutter
<1> QED
  BY <1>7, <1>8

\* The record sends the complaint to the level: the level below was recorded before.
LEMMA RecordEscalationSends ==
    ASSUME TypeInv, Fresh, Born, ChainInv, NEW t \in Tasks, RecordEscalation(t)
    PROVE  [Promise!Next]_(Promise!vars)
<1> DEFINE c == task[t].complaint
           l == task[t].level
           x == [complaint |-> c, level |-> l, resolved |-> FALSE]
<1>1. At(t, "escalate", "record") /\ c \in Complaints /\ l \in 1..2
  BY DEF RecordEscalation, At, TypeInv, BusyTask
<1>2. (l = 2 => Reached(c, 1)) /\ complaint[c].status # "absent"
  BY <1>1, RunningIsFiled DEF ChainInv, PendingRecorded, At
<1>3. escalations' = escalations \cup {x} /\ UNCHANGED complaint
  BY DEF RecordEscalation
<1>4. x.complaint = c /\ x.level = l
  OBVIOUS
<1> HIDE DEF x, c, l
<1>5. \A d, m : ReachedAfter(d, m) <=> Reached(d, m) \/ (d = c /\ m = l)
  BY <1>3, <1>4 DEF Reached, ReachedAfter, Recorded, RecordedAfter
<1>6. Promise!Send(c, l)
  <2>1. [d \in Complaints |-> {m \in 1..2 : ReachedAfter(d, m)}]
          = [[d \in Complaints |-> {m \in 1..2 : Reached(d, m)}]
                EXCEPT ![c] = @ \cup {l}]
    BY <1>1, <1>5
  <2>2. [d \in Complaints |-> {m \in 1..2 : Reached(d, m)}]'
          = [d \in Complaints |-> {m \in 1..2 : ReachedAfter(d, m)}]
    BY DEF Reached, ReachedAfter, Recorded, RecordedAfter
  <2>4. SameFiled
    BY <1>3 DEF SameFiled
  <2>3. l > 1 => l - 1 \in {m \in 1..2 : Reached(c, m)}
    <3>1. l > 1 => l = 2
      BY <1>1
    <3> QED
      BY <1>2, <3>1
  <2> QED
    BY <1>1, <1>2, <1>3, <2>1, <2>2, <2>3, <2>4, FiledAlike DEF Promise!Send, Milestones
<1> QED
  BY <1>1, <1>6, PromiseSteps

\* The write of the level stands on a level that was recorded.
LEMMA WriteEscalationStands ==
    ASSUME TypeInv, Fresh, Born, ChainInv, NEW t \in Tasks, WriteEscalation(t)
    PROVE  [Promise!Next]_(Promise!vars)
<1>1. PICK c \in Complaints, l \in 1..2 :
        c = task[t].complaint /\ l = task[t].level /\ At(t, "escalate", "write")
  BY DEF WriteEscalation, At, TypeInv, BusyTask
<1>2. Reached(c, l) /\ complaint[c].status # "absent"
  BY <1>1, RunningIsFiled DEF ChainInv, PendingRecorded, At, Reached
<1>3. /\ complaint'[c].level = l /\ complaint'[c].status = "escalated"
      /\ complaint'[c].sent = complaint[c].sent
      /\ \A d \in Complaints : Kept(d)
      /\ \A d \in Complaints \ {c} : complaint'[d] = complaint[d]
      /\ UNCHANGED escalations
  BY <1>1 DEF WriteEscalation, Kept, TypeInv, TypeOK, Row
<1>4. Promise!Stand(c, l)
  <2>1. [d \in Complaints |-> complaint'[d].level]
          = [[d \in Complaints |-> complaint[d].level] EXCEPT ![c] = l]
    BY <1>3
  <2>2. [d \in Complaints |-> Milestones(complaint[d])]'
          = [d \in Complaints |-> Milestones(complaint[d])]
    BY <1>3 DEF Kept, Milestones
  <2>3. SameFiled
    BY <1>2, <1>3 DEF SameFiled
  <2>4. SameLadders
    BY <1>3 DEF SameLadders, Reached, ReachedAfter, Recorded, RecordedAfter
  <2> QED
    BY <1>2, <2>1, <2>2, <2>3, <2>4, FiledAlike, LaddersAlike DEF Promise!Stand
<1> QED
  BY <1>4, PromiseSteps

\* No other step is seen by the promise.
LEMMA RowsAndRecordsAlone == UNCHANGED <<complaint, escalations>> => UNCHANGED Promise!vars
BY DEF Promise!vars, Reached, Recorded, Milestones

LEMMA RowRewritten ==
    ASSUME \A c \in Complaints : Kept(c) /\ LevelKept(c), SameFiled, UNCHANGED escalations
    PROVE  UNCHANGED Promise!vars
BY KeptMilestones, UnchangedLadders, Stutter

LEMMA ProceedIsPromised ==
    ASSUME TypeInv, Fresh, Born, MilestoneInv, ChainInv, NEW t \in Tasks,
           Proceed(t) \/ Abort(t)
    PROVE  [Promise!Next]_(Promise!vars)
<1>1. task[t].complaint \in Complaints /\ complaint[task[t].complaint].status # "absent"
  BY ProceedShape, RunningIsFiled
<1>2. CASE LogUpdate(t) \/ LogAssignment(t) \/ ReassignmentNoteTooLong(t)
           \/ EscalateBreached(t) \/ LogEscalation(t) \/ Abort(t)
  BY <1>2, RowsAndRecordsAlone
     DEF LogUpdate, LogAssignment, ReassignmentNoteTooLong, EscalateBreached, LogEscalation,
         Abort
<1>3. ASSUME NEW images \in BOOLEAN, WriteProof(t, images) PROVE UNCHANGED Promise!vars
  <2>1. \A d \in Complaints : Kept(d) /\ LevelKept(d)
    BY <1>1, <1>3 DEF WriteProof, Kept, LevelKept, TypeInv, TypeOK, Row
  <2>2. SameFiled
    BY <1>1, <1>3 DEF WriteProof, SameFiled, TypeInv, TypeOK, Row
  <2> QED
    BY <1>3, <2>1, <2>2, RowRewritten DEF WriteProof
<1>4. CASE WriteAssignment(t)
  <2>1. \A d \in Complaints : Kept(d) /\ LevelKept(d)
    BY <1>1, <1>4 DEF WriteAssignment, Kept, LevelKept, TypeInv, TypeOK, Row
  <2>2. SameFiled
    BY <1>1, <1>4 DEF WriteAssignment, SameFiled, TypeInv, TypeOK, Row
  <2> QED
    BY <1>4, <2>1, <2>2, RowRewritten DEF WriteAssignment
<1> QED
  BY <1>2, <1>3, <1>4, WriteStatusReaches, RecordEscalationSends, WriteEscalationStands
     DEF Proceed

LEMMA MarkIsPromised ==
    ASSUME TypeInv, NEW e \in Engines, NEW c \in Complaints, MarkBreached(e, c)
    PROVE  UNCHANGED Promise!vars
<1>1. \A d \in Complaints : Kept(d) /\ LevelKept(d)
  BY DEF MarkBreached, Kept, LevelKept, TypeInv, TypeOK, Row
<1>2. SameFiled
  BY DEF MarkBreached, SameFiled, TypeInv, TypeOK, Row
<1> QED
  BY <1>1, <1>2, RowRewritten DEF MarkBreached

\* A resolved escalation was sent to the same level.
LEMMA ResolveIsPromised ==
    ASSUME TypeInv, NEW x \in escalations, ResolveEscalation(x)
    PROVE  UNCHANGED Promise!vars
<1> DEFINE y == [x EXCEPT !.resolved = TRUE]
<1>1. y.complaint = x.complaint /\ y.level = x.level
  BY DEF TypeInv, TypeOK, EscalationRecord
<1>2. escalations' = (escalations \ {x}) \cup {y} /\ UNCHANGED complaint
  BY DEF ResolveEscalation
<1> HIDE DEF y
<1>3. SameLadders /\ SameFiled
  BY <1>1, <1>2 DEF SameLadders, SameFiled, Reached, ReachedAfter, Recorded, RecordedAfter
<1> QED
  BY <1>2, <1>3, UnchangedKept, KeptMilestones, SameLevels, Stutter

LEMMA PromiseStep ==
    TypeInv /\ Fresh /\ Born /\ MilestoneInv /\ ChainInv /\ [Next]_vars
      => [Promise!Next]_(Promise!vars)
<1> SUFFICES ASSUME TypeInv, Fresh, Born, MilestoneInv, ChainInv, [Next]_vars
             PROVE  [Promise!Next]_(Promise!vars)
  OBVIOUS
<1>1. CASE UNCHANGED vars
  BY <1>1, RowsAndRecordsAlone DEF vars
<1>2. ASSUME NEW c \in Complaints,
             LogCreated(c) \/ EmitCreated(c) \/ PickOfficer(c) \/ NoOfficerAvailable(c)
               \/ PassDeadline(c)
      PROVE  UNCHANGED Promise!vars
  BY <1>2, RowsAndRecordsAlone
     DEF LogCreated, EmitCreated, PickOfficer, NoOfficerAvailable, PassDeadline
<1>3. ASSUME NEW t, NEW c \in Complaints, NEW u \in Staff,
             \/ \E to \in Status : BeginUpdate(t, c, u, to)
             \/ BeginProof(t, c, u)
             \/ \E o \in Staff : BeginReassign(t, c, u, o)
             \/ BeginEscalate(t, c, u)
      PROVE  UNCHANGED Promise!vars
  BY <1>3, RowsAndRecordsAlone DEF BeginUpdate, BeginProof, BeginReassign, BeginEscalate
<1>4. ASSUME NEW e \in Engines, FindBreaches(e) \/ EmitBreached(e) \/ AbortSweep(e)
      PROVE  UNCHANGED Promise!vars
  BY <1>4, RowsAndRecordsAlone DEF FindBreaches, EmitBreached, AbortSweep
<1> QED
  BY <1>1, <1>2, <1>3, <1>4, CreateFiles, ProceedIsPromised, MarkIsPromised,
     ResolveIsPromised, NextIsStep DEF Step

\* The services, with all their tasks, sweeps and failures, implement the promise: every
\* step of theirs files a complaint, reaches a milestone in its order, sends a complaint to
\* the next level of the chain, lets it stand on a level it was sent to or filed with, or
\* is not seen by the promise.
THEOREM PromiseImplemented == Spec => ImplementsPromise
<1>1. TypeInv /\ Fresh /\ MilestoneInv /\ [Next]_vars => MilestoneInv'
  BY MilestoneStep
<1>2. TypeInv /\ TypeInv' /\ Fresh /\ ChainInv /\ [Next]_vars => ChainInv'
  BY ChainStep
<1>3. TypeInv /\ Born /\ [Next]_vars => Born'
  BY BornStep
<1>4. Spec => [](TypeInv /\ Fresh /\ Born /\ MilestoneInv /\ ChainInv)
  BY BornInit, MilestoneInit, ChainInit, <1>1, <1>2, <1>3, FreshAlways, PTL DEF Spec
<1> QED
  BY <1>4, PromiseInit, PromiseStep, PTL DEF Spec, ImplementsPromise, Promise!Spec

-----------------------------------------------------------------------------
(* One engine escalates a missed deadline by one level *)

\* The staff asks for no escalation, and there is one PM2 process at most.
OneEngine == "escalate" \notin RequestOps /\ \A e, f \in Engines : e = f

\* Until the escalation that a breach starts has written.
Unwritten == {"idle", "read", "record", "write"}

OneLevel(row) == row.level \in {row.sent.level, row.sent.level + 1}

\* The only escalation of a complaint is the one its breach started; until that one
\* writes, the complaint stands on the level it was filed with, which is what it reads.
OneLevelInv ==
    /\ \A c \in Complaints : OneLevel(complaint[c])
    /\ \A t \in Tasks : task[t].op = "escalate" =>
          /\ \E e \in Engines : t = <<"breach", <<e, task[t].complaint>>>>
          /\ task[t].pc \in {"record", "write"} =>
                task[t].level = complaint[task[t].complaint].sent.level + 1
    /\ \A e \in Engines, c \in Complaints :
          task[<<"breach", <<e, c>>>>].pc \in Unwritten =>
              complaint[c].level = complaint[c].sent.level

\* A step that starts no escalation and makes no handler of a breach start over.
NoneStarts ==
    /\ \A t \in Tasks : task'[t].op = "escalate" =>
          /\ task[t].op = "escalate" /\ task'[t].complaint = task[t].complaint
          /\ task'[t].pc \in {"record", "write"} =>
                task[t].pc \in {"record", "write"} /\ task'[t].level = task[t].level
    /\ \A e \in Engines, c \in Complaints :
          task'[<<"breach", <<e, c>>>>].pc \in Unwritten =>
              task[<<"breach", <<e, c>>>>].pc \in Unwritten

LEMMA OneLevelFrame ==
    ASSUME TypeInv, OneLevelInv, \A c \in Complaints : LevelKept(c), NoneStarts
    PROVE  OneLevelInv'
<1>1. \A c \in Complaints : OneLevel(complaint'[c])
  BY DEF OneLevelInv, OneLevel, LevelKept
<1>2. ASSUME NEW t \in Tasks, task'[t].op = "escalate"
      PROVE  /\ \E e \in Engines : t = <<"breach", <<e, task'[t].complaint>>>>
             /\ task'[t].pc \in {"record", "write"} =>
                   task'[t].level = complaint'[task'[t].complaint].sent.level + 1
  <2>1. task[t].op = "escalate" /\ task'[t].complaint = task[t].complaint
    BY <1>2 DEF NoneStarts
  <2>2. ASSUME task'[t].pc \in {"record", "write"}
        PROVE  task'[t].level = complaint'[task'[t].complaint].sent.level + 1
    <3>1. task[t].pc \in {"record", "write"} /\ task'[t].level = task[t].level
      BY <1>2, <2>2 DEF NoneStarts
    <3>2. task[t].complaint \in Complaints
      BY <3>1 DEF TypeInv, BusyTask
    <3>3. complaint'[task[t].complaint].sent = complaint[task[t].complaint].sent
      BY <3>2 DEF LevelKept
    <3> QED
      BY <2>1, <3>1, <3>3 DEF OneLevelInv
  <2> QED
    BY <2>1, <2>2 DEF OneLevelInv
<1>3. \A e \in Engines, c \in Complaints :
        task'[<<"breach", <<e, c>>>>].pc \in Unwritten =>
            complaint'[c].level = complaint'[c].sent.level
  BY DEF OneLevelInv, LevelKept, NoneStarts
<1> QED
  BY <1>1, <1>2, <1>3 DEF OneLevelInv

LEMMA NoneStartsPut ==
    ASSUME TypeInv, NEW t \in Tasks, NEW r, task' = [task EXCEPT ![t] = r],
           r.op # "escalate", t \in BreachTask => r.pc \notin Unwritten
    PROVE  NoneStarts
BY TaskSets DEF NoneStarts, BreachTask, TypeInv, TypeOK

LEMMA NoneStartsFinish ==
    ASSUME TypeInv, NEW t \in Tasks, Finish(t)
    PROVE  NoneStarts
<1>1. Ended(t).op = "none" /\ (t \in BreachTask => Ended(t).pc = "done")
  BY IdleTaskType DEF Ended, IdleTask, TaskRecord, HttpTask, BreachTask
<1> QED
  BY <1>1, NoneStartsPut DEF Finish, Unwritten

LEMMA NoneStartsGoto ==
    ASSUME TypeInv, NEW t \in Tasks, NEW pc \in {"write", "history", "emit"}, Goto(t, pc),
           pc = "write" => task[t].pc = "record"
    PROVE  NoneStarts
<1> DEFINE r == [task[t] EXCEPT !.pc = pc]
<1>1. /\ r.op = task[t].op /\ r.complaint = task[t].complaint /\ r.level = task[t].level
      /\ r.pc = pc /\ task' = [task EXCEPT ![t] = r]
  BY DEF Goto, TypeInv, TypeOK, TaskRecord
<1> HIDE DEF r
<1>2. \A s \in Tasks : task'[s] = IF s = t THEN r ELSE task[s]
  BY <1>1 DEF TypeInv, TypeOK
<1>3. \A s \in Tasks : task'[s].pc \in Unwritten => task[s].pc \in Unwritten
  BY <1>1, <1>2 DEF Unwritten
<1> QED
  BY <1>1, <1>2, <1>3, TaskSets DEF NoneStarts

\* The handler of a breach reads the level the complaint was filed with and goes on to
\* the next, if there is one.
LEMMA BreachStartsAtOne ==
    ASSUME TypeInv, OneLevelInv, NEW t \in Tasks, EscalateBreached(t)
    PROVE  OneLevelInv'
<1>1. PICK e \in Engines, c \in Complaints :
        c = task[t].complaint /\ t = <<"breach", <<e, c>>>> /\ At(t, "escalate", "read")
  BY DEF EscalateBreached, At, OneLevelInv, TypeInv, BusyTask
<1>2. complaint[c].level = complaint[c].sent.level
  BY <1>1 DEF OneLevelInv, Unwritten, At
<1>3. CASE complaint[c].level \notin {0, 1}
  <2>1. Finish(t) /\ UNCHANGED complaint
    BY <1>1, <1>3 DEF EscalateBreached, EscalationFrom, Finish
  <2> QED
    BY <2>1, SameLevels, NoneStartsFinish, OneLevelFrame
<1>4. CASE complaint[c].level \in {0, 1}
  <2> DEFINE b == None # None \/ complaint[c].officer # None
             l == complaint[c].level + 1
             r == [IdleTask EXCEPT !.op = "escalate", !.pc = "record", !.complaint = c,
                       !.to = "escalated", !.level = l, !.authored = b]
  <2>1. EscalationFrom(t, c, None) = r
    BY <1>4 DEF EscalationFrom
  <2>2. task' = [task EXCEPT ![t] = r]
    BY <1>1, <2>1 DEF EscalateBreached
  <2>3. l = complaint[c].sent.level + 1
    BY <1>2
  <2> HIDE DEF l, b
  <2>4. r.op = "escalate" /\ r.pc = "record" /\ r.complaint = c /\ r.level = l
    BY IdleTaskType DEF TaskRecord
  <2> HIDE DEF r
  <2>5. \A s \in Tasks : task'[s] = IF s = t THEN r ELSE task[s]
    BY <2>2 DEF TypeInv, TypeOK
  <2>6. task[t].pc \in Unwritten /\ UNCHANGED complaint
    BY <1>1 DEF EscalateBreached, At, Unwritten
  <2>7. ASSUME NEW s \in Tasks, task'[s].op = "escalate"
        PROVE  /\ \E f \in Engines : s = <<"breach", <<f, task'[s].complaint>>>>
               /\ task'[s].pc \in {"record", "write"} =>
                     task'[s].level = complaint'[task'[s].complaint].sent.level + 1
    <3>1. CASE s = t
      BY <1>1, <2>3, <2>4, <2>5, <2>6, <3>1
    <3>2. CASE s # t
      BY <2>5, <2>6, <2>7, <3>2 DEF OneLevelInv
    <3> QED
      BY <3>1, <3>2
  <2>8. \A f \in Engines, d \in Complaints :
          task'[<<"breach", <<f, d>>>>].pc \in Unwritten =>
              complaint'[d].level = complaint'[d].sent.level
    BY <2>5, <2>6, TaskSets DEF OneLevelInv
  <2> QED
    BY <2>6, <2>7, <2>8 DEF OneLevelInv
<1> QED
  BY <1>3, <1>4

\* It writes it once: then its slot is past the write, and there is no other engine's.
LEMMA BreachWritesOne ==
    ASSUME OneEngine, TypeInv, OneLevelInv, NEW t \in Tasks, WriteEscalation(t)
    PROVE  OneLevelInv'
<1>1. PICK e \in Engines, c \in Complaints :
        c = task[t].complaint /\ t = <<"breach", <<e, c>>>> /\ At(t, "escalate", "write")
  BY DEF WriteEscalation, At, OneLevelInv, TypeInv, BusyTask
<1>2. task[t].level = complaint[c].sent.level + 1
  BY <1>1 DEF OneLevelInv, At
<1>3. /\ complaint'[c].level = complaint'[c].sent.level + 1
      /\ complaint'[c].sent = complaint[c].sent
      /\ \A d \in Complaints \ {c} : complaint'[d] = complaint[d]
  <2>1. /\ complaint'[c].level = task[t].level
        /\ complaint'[c].sent = complaint[c].sent
        /\ \A d \in Complaints \ {c} : complaint'[d] = complaint[d]
    <3>1. complaint[c] \in Row /\ complaint \in [Complaints -> Row]
      BY DEF TypeInv, TypeOK
    <3>2. complaint' = [complaint EXCEPT ![c].level = task[t].level, ![c].escalated = TRUE,
                                         ![c].status = "escalated"]
      BY <1>1 DEF WriteEscalation
    <3> QED
      BY <3>1, <3>2 DEF Row
  <2> QED
    BY <1>2, <2>1
<1>4. NoneStarts /\ task'[t].pc \notin Unwritten
  BY NoneStartsGoto DEF WriteEscalation, Goto, TypeInv, TypeOK, TaskRecord, Unwritten
<1>5. \A f \in Engines, d \in Complaints :
        task'[<<"breach", <<f, d>>>>].pc \in Unwritten =>
            complaint'[d].level = complaint'[d].sent.level
  BY <1>1, <1>3, <1>4 DEF OneEngine, OneLevelInv, NoneStarts
<1>6. ASSUME NEW s \in Tasks, task'[s].op = "escalate"
      PROVE  /\ \E f \in Engines : s = <<"breach", <<f, task'[s].complaint>>>>
             /\ task'[s].pc \in {"record", "write"} =>
                   task'[s].level = complaint'[task'[s].complaint].sent.level + 1
  <2>1. task[s].op = "escalate" /\ task'[s].complaint = task[s].complaint
    BY <1>4, <1>6 DEF NoneStarts
  <2>2. ASSUME task'[s].pc \in {"record", "write"}
        PROVE  task'[s].level = complaint'[task'[s].complaint].sent.level + 1
    <3>1. task[s].pc \in {"record", "write"} /\ task'[s].level = task[s].level
      BY <1>4, <1>6, <2>2 DEF NoneStarts
    <3>2. task[s].complaint \in Complaints
      BY <3>1 DEF TypeInv, BusyTask
    <3>3. complaint'[task[s].complaint].sent = complaint[task[s].complaint].sent
      BY <1>3, <3>2
    <3> QED
      BY <2>1, <3>1, <3>3 DEF OneLevelInv
  <2> QED
    BY <2>1, <2>2 DEF OneLevelInv
<1>7. \A d \in Complaints : OneLevel(complaint'[d])
  BY <1>3 DEF OneLevelInv, OneLevel
<1> QED
  BY <1>5, <1>6, <1>7 DEF OneLevelInv

LEMMA ProceedAtOne ==
    ASSUME OneEngine, TypeInv, OneLevelInv, NEW t \in Tasks, Proceed(t) \/ Abort(t)
    PROVE  OneLevelInv'
<1> DEFINE c == task[t].complaint
<1>1. c \in Complaints
  BY ProceedShape
<1>2. CASE WriteStatus(t)
  <2>1. complaint' = [complaint EXCEPT ![c] = WithStatus(@, task[t].to)]
    BY <1>2 DEF WriteStatus
  <2>2. LevelKept(c)
    <3>1. \A to : /\ WithStatus(complaint[c], to).level = complaint[c].level
                  /\ WithStatus(complaint[c], to).escalated = complaint[c].escalated
                  /\ WithStatus(complaint[c], to).sent = complaint[c].sent
      BY <1>1 DEF WithStatus, TypeInv, TypeOK, Row
    <3> QED
      BY <1>1, <2>1, <3>1 DEF LevelKept, TypeInv, TypeOK
  <2>3. \A d \in Complaints : LevelKept(d)
    BY <1>1, <2>1, <2>2 DEF LevelKept, TypeInv, TypeOK
  <2> QED
    BY <1>2, <2>3, NoneStartsGoto, OneLevelFrame DEF WriteStatus
<1>3. CASE WriteAssignment(t)
  <2>1. \A d \in Complaints : LevelKept(d)
    BY <1>1, <1>3 DEF WriteAssignment, LevelKept, TypeInv, TypeOK, Row
  <2> QED
    BY <1>3, <2>1, NoneStartsGoto, OneLevelFrame DEF WriteAssignment
<1>4. ASSUME NEW images \in BOOLEAN, WriteProof(t, images) PROVE OneLevelInv'
  <2>1. \A d \in Complaints : LevelKept(d)
    BY <1>1, <1>4 DEF WriteProof, LevelKept, TypeInv, TypeOK, Row
  <2> QED
    BY <1>4, <2>1, NoneStartsFinish, OneLevelFrame DEF WriteProof
<1>5. CASE LogUpdate(t) \/ LogAssignment(t) \/ ReassignmentNoteTooLong(t)
           \/ LogEscalation(t) \/ Abort(t)
  <2>1. Finish(t) /\ UNCHANGED complaint
    BY <1>5 DEF LogUpdate, LogAssignment, ReassignmentNoteTooLong, LogEscalation, Abort
  <2> QED
    BY <2>1, SameLevels, NoneStartsFinish, OneLevelFrame
<1>6. CASE RecordEscalation(t)
  BY <1>6, SameLevels, NoneStartsGoto, OneLevelFrame DEF RecordEscalation, At
<1> QED
  BY <1>2, <1>3, <1>4, <1>5, <1>6, BreachStartsAtOne, BreachWritesOne DEF Proceed

\* A new complaint stands on the level it was filed with.
LEMMA CreateAtOne ==
    ASSUME TypeInv, Fresh, OneLevelInv, NEW c \in Complaints, Creates(c)
    PROVE  OneLevelInv'
<1> DEFINE r == [IdleTask EXCEPT !.op = "create", !.pc = "history", !.complaint = c,
                                 !.to = "created"]
<1>1. r.op = "create" /\ task' = [task EXCEPT ![<<"create", c>>] = r]
  BY IdleTaskType DEF Creates, CreateComplaint, TaskRecord
<1> HIDE DEF r
<1>2. \A t \in Tasks : task[t].complaint # c
  BY DEF Creates, CreateComplaint, Fresh, Unborn
<1>3. /\ complaint'[c].level = complaint'[c].sent.level
      /\ \A d \in Complaints \ {c} : complaint'[d] = complaint[d]
  <2>1. \A body : Filed(body).level = body.level /\ Filed(body).sent = body
    BY DEF Filed
  <2> QED
    BY <2>1, CreatedRow
<1>4. NoneStarts
  BY <1>1, TaskSets, OtherSlots, NoneStartsPut
<1>5. \A d \in Complaints : OneLevel(complaint'[d])
  BY <1>3 DEF OneLevelInv, OneLevel
<1>6. ASSUME NEW s \in Tasks, task'[s].op = "escalate"
      PROVE  /\ \E f \in Engines : s = <<"breach", <<f, task'[s].complaint>>>>
             /\ task'[s].pc \in {"record", "write"} =>
                   task'[s].level = complaint'[task'[s].complaint].sent.level + 1
  <2>1. task'[s] = task[s]
    BY <1>1, <1>6 DEF TypeInv, TypeOK
  <2>2. task[s].pc \in {"record", "write"} => task[s].complaint \in Complaints \ {c}
    BY <1>2 DEF TypeInv, BusyTask
  <2> QED
    BY <1>3, <1>6, <2>1, <2>2 DEF OneLevelInv
<1>7. \A f \in Engines, d \in Complaints :
        task'[<<"breach", <<f, d>>>>].pc \in Unwritten =>
            complaint'[d].level = complaint'[d].sent.level
  BY <1>3, <1>4 DEF OneLevelInv, NoneStarts
<1> QED
  BY <1>5, <1>6, <1>7 DEF OneLevelInv

LEMMA HandleAtOne ==
    ASSUME TypeInv, Fresh, OneLevelInv, NEW c \in Complaints,
           Creates(c) \/ LogCreated(c) \/ EmitCreated(c) \/ PickOfficer(c)
             \/ NoOfficerAvailable(c) \/ PassDeadline(c)
    PROVE  OneLevelInv'
<1>1. CASE Creates(c)
  BY <1>1, CreateAtOne
<1>2. CASE LogCreated(c)
  BY <1>2, TaskSets, SameLevels, NoneStartsGoto, OneLevelFrame DEF LogCreated
<1>3. CASE EmitCreated(c)
  <2> DEFINE t == <<"create", c>>
             r == [IdleTask EXCEPT !.op = "assign", !.pc = "read", !.complaint = c]
  <2>1. /\ task' = [task EXCEPT ![t] = Ended(t), ![<<"assign", c>>] = r]
        /\ UNCHANGED complaint
    BY <1>3 DEF EmitCreated
  <2>2. r.op = "assign" /\ Ended(t).op = "none"
    BY IdleTaskType DEF Ended, IdleTask, TaskRecord
  <2> HIDE DEF r
  <2>3. NoneStarts
    BY <2>1, <2>2, TaskSets, OtherSlots DEF NoneStarts, BreachTask, TypeInv, TypeOK
  <2> QED
    BY <2>1, <2>3, SameLevels, OneLevelFrame
<1>4. CASE PickOfficer(c)
  <2> DEFINE t == <<"assign", c>>
  <2>1. PICK o : task' = [task EXCEPT ![t] = [@ EXCEPT !.pc = "write", !.officer = o,
                                                       !.to = "assigned"]]
    BY <1>4 DEF PickOfficer
  <2> DEFINE r == [task[t] EXCEPT !.pc = "write", !.officer = o, !.to = "assigned"]
  <2>2. task[t] \in TaskRecord /\ task[t].op = "assign" /\ task' = [task EXCEPT ![t] = r]
    BY <1>4, <2>1, TaskSets DEF PickOfficer, At, TypeInv, TypeOK
  <2>3. r.op = "assign"
    BY <2>2 DEF TaskRecord
  <2> HIDE DEF r
  <2> QED
    BY <1>4, <2>2, <2>3, TaskSets, OtherSlots, SameLevels, NoneStartsPut, OneLevelFrame
       DEF PickOfficer
<1>5. CASE NoOfficerAvailable(c)
  BY <1>5, TaskSets, SameLevels, NoneStartsFinish, OneLevelFrame DEF NoOfficerAvailable
<1>6. CASE PassDeadline(c)
  BY <1>6, SameLevels, OneLevelFrame DEF PassDeadline, NoneStarts
<1> QED
  BY <1>1, <1>2, <1>3, <1>4, <1>5, <1>6

\* The staff does not ask for escalations.
LEMMA BeginAtOne ==
    ASSUME OneEngine, TypeInv, OneLevelInv, NEW t \in HttpTask, NEW c \in Complaints,
           NEW u \in Staff,
           \/ \E to \in Status : BeginUpdate(t, c, u, to)
           \/ BeginProof(t, c, u)
           \/ \E o \in Staff : BeginReassign(t, c, u, o)
           \/ BeginEscalate(t, c, u)
    PROVE  OneLevelInv'
<1>1. \A to : [IdleTask EXCEPT !.op = "update", !.pc = "write", !.complaint = c,
                   !.to = to].op = "update"
  BY IdleTaskType DEF TaskRecord
<1>2. [IdleTask EXCEPT !.op = "proof", !.pc = "write", !.complaint = c].op = "proof"
  BY IdleTaskType DEF TaskRecord
<1>3. \A o : [IdleTask EXCEPT !.op = "reassign", !.pc = "write", !.complaint = c,
                  !.to = "assigned", !.officer = o].op = "reassign"
  BY IdleTaskType DEF TaskRecord
<1>4. PICK r : task' = [task EXCEPT ![t] = r] /\ r.op # "escalate"
  BY <1>1, <1>2, <1>3 DEF OneEngine, BeginUpdate, BeginProof, BeginReassign, BeginEscalate
<1>5. UNCHANGED complaint
  BY DEF BeginUpdate, BeginProof, BeginReassign, BeginEscalate
<1> QED
  BY <1>4, <1>5, TaskSets, OtherSlots, SameLevels, NoneStartsPut, OneLevelFrame

\* A sweep starts a handler in a slot that was idle: the complaint stands on the level it
\* was filed with.
LEMMA SweepAtOne ==
    ASSUME TypeInv, Announced, OneLevelInv, NEW e \in Engines,
           \/ FindBreaches(e)
           \/ \E c \in Complaints : MarkBreached(e, c)
           \/ EmitBreached(e)
           \/ AbortSweep(e)
    PROVE  OneLevelInv'
<1>1. CASE FindBreaches(e) \/ AbortSweep(e)
  BY <1>1, SameLevels, OneLevelFrame DEF FindBreaches, AbortSweep, NoneStarts
<1>2. ASSUME NEW c \in Complaints, MarkBreached(e, c) PROVE OneLevelInv'
  <2>1. \A d \in Complaints : LevelKept(d)
    BY <1>2 DEF MarkBreached, LevelKept, TypeInv, TypeOK, Row
  <2> QED
    BY <1>2, <2>1, OneLevelFrame DEF MarkBreached, NoneStarts
<1>3. CASE EmitBreached(e)
  <2>1. PICK c \in Complaints : c = sweep[e].current /\ sweep[e].pc = "emit"
    BY <1>3 DEF EmitBreached, TypeInv, BusySweep
  <2> DEFINE t == <<"breach", <<e, c>>>>
             r == [IdleTask EXCEPT !.op = "escalate", !.pc = "read", !.complaint = c]
  <2>2. task' = [task EXCEPT ![t] = r] /\ UNCHANGED complaint
    BY <1>3, <2>1 DEF EmitBreached
  <2>3. complaint[c].level = complaint[c].sent.level
    BY <2>1 DEF Announced, ToAnnounce, OneLevelInv, Unwritten
  <2>4. r.op = "escalate" /\ r.pc = "read" /\ r.complaint = c
    BY IdleTaskType DEF TaskRecord
  <2> HIDE DEF r
  <2>5. \A s \in Tasks : task'[s] = IF s = t THEN r ELSE task[s]
    BY <2>2 DEF TypeInv, TypeOK
  <2>6. ASSUME NEW s \in Tasks, task'[s].op = "escalate"
        PROVE  /\ \E f \in Engines : s = <<"breach", <<f, task'[s].complaint>>>>
               /\ task'[s].pc \in {"record", "write"} =>
                     task'[s].level = complaint'[task'[s].complaint].sent.level + 1
    BY <2>2, <2>4, <2>5, <2>6 DEF OneLevelInv
  <2>7. ASSUME NEW f \in Engines, NEW d \in Complaints,
               task'[<<"breach", <<f, d>>>>].pc \in Unwritten
        PROVE  complaint'[d].level = complaint'[d].sent.level
    BY <2>2, <2>3, <2>5, <2>7, TaskSets DEF OneLevelInv
  <2> QED
    BY <2>2, <2>6, <2>7 DEF OneLevelInv
<1> QED
  BY <1>1, <1>2, <1>3

LEMMA OneLevelInit == Init => OneLevelInv
<1>1. AbsentRow.level = 0 /\ AbsentRow.sent.level = 0 /\ IdleTask.op = "none"
  BY DEF AbsentRow, NothingSent, IdleTask
<1> QED
  BY <1>1, TaskSets DEF Init, OneLevelInv, OneLevel

LEMMA OneLevelStep ==
    OneEngine /\ TypeInv /\ Fresh /\ Announced /\ OneLevelInv /\ [Next]_vars => OneLevelInv'
<1> SUFFICES ASSUME OneEngine, TypeInv, Fresh, Announced, OneLevelInv, [Next]_vars
             PROVE  OneLevelInv'
  OBVIOUS
<1>1. CASE UNCHANGED vars
  BY <1>1, SameLevels, OneLevelFrame DEF vars, NoneStarts
<1>2. ASSUME NEW x \in escalations, ResolveEscalation(x) PROVE OneLevelInv'
  BY <1>2, SameLevels, OneLevelFrame DEF ResolveEscalation, NoneStarts
<1> QED
  BY <1>1, <1>2, ProceedAtOne, HandleAtOne, BeginAtOne, SweepAtOne, NextIsStep, TaskSets
     DEF Step

\* What the documents promise is true of one PM2 process: as long as the staff asks for no
\* escalation, a missed deadline escalates a complaint by one level only, from whatever
\* level it was filed with.  The run with two engines shows that the second process breaks it.
THEOREM OneEngineOneLevel ==
    ASSUME \A e, f \in Engines : e = f
    PROVE  Spec => []OneBreachOneLevel
<1>1. CASE "escalate" \in RequestOps
  <2>1. OneBreachOneLevel
    BY <1>1 DEF OneBreachOneLevel
  <2> QED
    BY <2>1, PTL
<1>2. CASE "escalate" \notin RequestOps
  <2>1. OneEngine
    BY <1>2 DEF OneEngine
  <2>2. OneLevelInv => OneBreachOneLevel
    BY DEF OneLevelInv, OneLevel, OneBreachOneLevel
  <2>3. TypeInv /\ Fresh /\ Announced /\ OneLevelInv /\ [Next]_vars => OneLevelInv'
    BY <2>1, OneLevelStep
  <2> QED
    BY <2>2, <2>3, OneLevelInit, AnnouncedInit, AnnouncedStep, FreshAlways, PTL DEF Spec
<1> QED
  BY <1>1, <1>2

=============================================================================
