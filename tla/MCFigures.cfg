\* Three documents, pages of two, one write while a view is read.
SPECIFICATION Spec
CONSTANTS
    Document = {x1, x2, x3}
    Limit = 2
    Rows <- RowsRead
    MaxWrites = 1
INVARIANTS
    FiguresAddUp
    PagesCover
SYMMETRY DocumentSymmetry
