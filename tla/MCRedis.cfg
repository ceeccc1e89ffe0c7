\* Three calls at a time, three clients, Redis comes and goes.
SPECIFICATION Spec
CONSTANTS
    Callers = {c1, c2, c3}
    Clients = {x1, x2, x3}
    MaxRetries = 1
    None = None
INVARIANTS
    TypeOK
    OneAttempt
    ConnectedMeansSomeUp
PROPERTIES
    CallersAnswered
