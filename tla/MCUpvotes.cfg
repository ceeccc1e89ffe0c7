\* Two users with two devices each, failing anywhere; the complaint was created with a count.
SPECIFICATION VotesSpec
CONSTANTS
    Voters = {v1, v2}
    Devices = {d1, d2}
    FirstCount = 2
    MaxRequests = 6
    Faults = TRUE
INVARIANTS
    VotesTypeOK
    CountAccounted
CHECK_DEADLOCK FALSE
