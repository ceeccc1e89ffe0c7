---------------------------- MODULE MCOfficials ----------------------------
(* Rows that test the scanner and the rules: departments with a comma,     *)
(* with quotes and with a line break (behind which stands what reads as an *)
(* official), a department of a role that keeps none, and rows to refuse.  *)
EXTENDS Officials, TLC

Row(p, r, d) == [phone |-> p, role |-> r, department |-> d]

MCRows ==
    LET p == CHOOSE x \in Phone : TRUE
    IN  {Row(p, "service_officer", <<"Roads", "comma", "space", "Water">>),
         Row(p, "service_officer", <<"quote", "Roads", "quote">>),
         Row(p, "service_officer", <<"Roads", "newline", p, "comma", "mla">>),
         Row(p, "service_officer", <<>>),
         Row(p, "ward_councillor", <<"Roads">>),
         Row(None, "mla", <<>>),
         Row(p, None, <<"Roads">>)}

\* The imports in flight differ in nothing; only an invariant is checked.
ImportSymmetry == Permutations(Import)

=============================================================================
