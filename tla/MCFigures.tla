----------------------------- MODULE MCFigures -----------------------------
EXTENDS Figures, TLC

\* Nothing is asked about a document out of scope; one such row is enough.
RowsRead ==
    {row \in Row : row.status # "none" /\ (row.mine \/ (row.status = "open" /\ ~row.marked))}

\* Documents differ in nothing but their rows; only invariants are checked.
DocumentSymmetry == Permutations(Document)

=============================================================================
