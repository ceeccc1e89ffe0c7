\* One process in three lives, a request to send a code and one that resolves a complaint, a page.
SPECIFICATION Spec
CONSTANTS
    Process = {p1}
    Request = {"send_otp", "resolve"}
    User = {"citizen"}
    MaxDeaths = 2
    Faults = TRUE
    None = None
INVARIANTS
    TypeOK
    NoOneWaitsOnClosed
    TextedAtMostOnce
    PushedAreStored
PROPERTIES
    ShutdownEnds
    JobsEnd
    EventsEnd
CHECK_DEADLOCK FALSE
