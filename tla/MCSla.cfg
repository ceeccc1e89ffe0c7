\* Two SLA engines and staff escalations, failing anywhere; no officer to assign.
SPECIFICATION Spec
CONSTANTS
    Complaints = {c1}
    Officers = {o1}
    Councillors = {w1}
    MLAs = {m1}
    InWard <- NoOfficerInWard
    DeptOfficers <- NoDepartment
    Engines = {e1, e2}
    Requests = {r1}
    RequestOps = {"escalate"}
    Tracked = {"escalated"}
    Bodies <- Levels
    Faults = TRUE
    None = None
INVARIANTS
    TypeOK
    EscalationChainRecorded
    BreachAnnouncedOnce
PROPERTIES
    ImplementsPromise
CHECK_DEADLOCK FALSE
