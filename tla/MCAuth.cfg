\* One phone, two requests at a time, two codes, two failed tries, two PINs.
SPECIFICATION Spec
CONSTANTS
    Request = {r1, r2}
    Code = {c1, c2}
    MaxAttempts = 2
    MaxPins = 2
    Faults = TRUE
    None = None
INVARIANTS
    TypeOK
    OneCodePerRequest
    PinsVerified
    OldSessionExplained
PROPERTIES
    SessionsStayEnded
    PinOnlyByReset
SYMMETRY Symmetry
CHECK_DEADLOCK FALSE
