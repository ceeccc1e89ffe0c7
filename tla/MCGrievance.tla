---------------------------- MODULE MCGrievance ----------------------------
(***************************************************************************)
(* Instances of Grievance for TLC.                                         *)
(***************************************************************************)
EXTENDS Grievance, TLC

\* Everybody who has a ward works in the ward of every complaint; no category has
\* a department of its own, so the ward's officers are the candidates.
AllInWard == [c \in Complaints |-> Officers \cup Councillors]
NoDepartment == [c \in Complaints |-> {}]
NoOfficerInWard == [c \in Complaints |-> Councillors]

\* What the bodies of creations carry.
Nothing == {NothingSent}

Dates == {NothingSent,
          [NothingSent EXCEPT !.officer = CHOOSE o \in Officers : TRUE,
                              !.proof = TRUE, !.verifiedAt = TRUE]}

Levels == {NothingSent,
           [NothingSent EXCEPT !.level = 1, !.escalated = TRUE],
           [NothingSent EXCEPT !.level = 2],
           [NothingSent EXCEPT !.level = -1, !.breached = TRUE]}

Symmetry == Permutations(Requests) \cup Permutations(Officers) \cup Permutations(Engines)

=============================================================================
