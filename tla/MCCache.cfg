\* Two callers at a time, which get, change and invalidate; everything may fail.
SPECIFICATION Spec
CONSTANTS
    Callers = {c1, c2}
    Kinds <- AllKinds
    Views <- AllViews
    Plan <- AllPlans
    MaxVersion = 1
    Locking = {TRUE, FALSE}
    Faults = TRUE
    Absent = Absent
INVARIANTS
    TypeOK
    StaleExplained
PROPERTIES
    Converges
    CallsEnd
