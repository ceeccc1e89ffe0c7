\* Fair scheduling, nothing fails: the event handlers and the SLA engine do their work.
SPECIFICATION FairSpec
CONSTANTS
    Complaints = {c1}
    Officers = {o1}
    Councillors = {w1}
    MLAs = {m1}
    InWard <- AllInWard
    DeptOfficers <- NoDepartment
    Engines = {e1}
    Requests = {r1}
    RequestOps = {"update", "escalate"}
    Tracked = {}
    Bodies <- Levels
    Faults = FALSE
    None = None
PROPERTIES
    BreachEscalates
    OverdueIsFound
    EveryComplaintAssigned
CHECK_DEADLOCK FALSE
