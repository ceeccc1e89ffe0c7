\* Two requests at a time with up to two of two files, a publication, two applications of one citizen.
SPECIFICATION Spec
CONSTANTS
    Request = {r1, r2}
    File = {f1, f2}
    Publication = {d1}
    Application = {a1, a2}
    Citizen = {c1}
    MaxFiles = 2
    None = None
INVARIANTS
    TypeOK
    StorageExplained
    OneApplication
    NoCopyForgotten
PROPERTIES
    DecisionsStay
SYMMETRY Symmetry
CHECK_DEADLOCK FALSE
