------------------------------- MODULE MCAuth -------------------------------
(***************************************************************************)
(* Auth on one phone.  Requests and codes are interchangeable: no formula  *)
(* names one of them, and the properties checked are safety properties.    *)
(***************************************************************************)
EXTENDS Auth, TLC

Symmetry == Permutations(Request) \cup Permutations(Code)

=============================================================================
