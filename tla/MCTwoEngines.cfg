\* Two PM2 processes sweep for the same missed deadline.
SPECIFICATION Spec
CONSTANTS
    Complaints = {c1}
    Officers = {o1}
    Councillors = {w1}
    MLAs = {m1}
    InWard <- AllInWard
    DeptOfficers <- NoDepartment
    Engines = {e1, e2}
    Requests = {}
    RequestOps = {}
    Tracked = {}
    Bodies <- Nothing
    Faults = FALSE
    None = None
INVARIANTS
    OneBreachOneLevel
CHECK_DEADLOCK FALSE
