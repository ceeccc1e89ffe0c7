------------------------------ MODULE MCPortal ------------------------------
(***************************************************************************)
(* Portal with interchangeable requests, files and applications: no        *)
(* formula names one of them, and the properties checked are safety        *)
(* properties.                                                             *)
(***************************************************************************)
EXTENDS Portal, TLC

Symmetry == Permutations(Request) \cup Permutations(File) \cup Permutations(Application)

=============================================================================
