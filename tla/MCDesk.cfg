\* Two staff requests at a time on one complaint, failing anywhere; no SLA engine.
SPECIFICATION Spec
CONSTANTS
    Complaints = {c1}
    Officers = {o1}
    Councillors = {w1}
    MLAs = {m1}
    InWard <- AllInWard
    DeptOfficers <- NoDepartment
    Engines = {}
    Requests = {r1, r2}
    RequestOps = {"update", "proof", "reassign"}
    Tracked = {"assigned"}
    Bodies <- Dates
    Faults = TRUE
    None = None
SYMMETRY Symmetry
INVARIANTS
    ClosedWasVerified
    StatusExplained
CHECK_DEADLOCK FALSE
