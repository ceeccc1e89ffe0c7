\* One phone, two files of up to two rows out of seven, each in three styles, with a heading or without.
SPECIFICATION Spec
CONSTANTS
    Phone = {"98xxxxxxxx"}
    None = None
    Import = {i1, i2}
    Rows <- MCRows
    MaxRows = 2
    MaxImports = 2
INVARIANTS
    ImportedAsMeant
CHECK_DEADLOCK FALSE
SYMMETRY ImportSymmetry
