-------------------------- MODULE GrievancePromise -------------------------
(***************************************************************************)
(* What the backend promises about one grievance, without services, tasks  *)
(* or statuses.  It is filed once, with whatever its author claims of it.  *)
(* From then on its milestones are reached in order and never undone, and  *)
(* it climbs the escalation ladder rung by rung: it is sent to a level only*)
(* after the level below, and stands only on a level it was sent to.  (It  *)
(* may step back: racing escalations can write an older level.)            *)
(***************************************************************************)
EXTENDS Integers

CONSTANTS
    Complaints,
    Levels          \* the levels an author may claim

VARIABLES
    filed,          \* the complaints that were filed
    milestones,     \* milestones[c]: which of the three were reached
    ladder,         \* ladder[c]: the levels c was sent to
    level           \* level[c]: the level c stands on, 0 for none

vars == <<filed, milestones, ladder, level>>

Init ==
    /\ filed = {}
    /\ milestones = [c \in Complaints |-> {}]
    /\ ladder = [c \in Complaints |-> {}]
    /\ level = [c \in Complaints |-> 0]

\* The author may claim milestones and a level, with the rungs up to it.
File(c, claimed, l) ==
    /\ c \notin filed
    /\ filed' = filed \cup {c}
    /\ milestones' = [milestones EXCEPT ![c] = claimed]
    /\ level' = [level EXCEPT ![c] = l]
    /\ ladder' = [ladder EXCEPT ![c] = @ \cup {r \in 1..2 : r <= l}]

\* The milestone that must come before.
Before == [resolved |-> {}, verified |-> {"resolved"}, closed |-> {"verified"}]

Reach(c, m) ==
    /\ c \in filed
    /\ Before[m] \subseteq milestones[c]
    /\ milestones' = [milestones EXCEPT ![c] = @ \cup {m}]
    /\ UNCHANGED <<filed, ladder, level>>

Send(c, l) ==
    /\ c \in filed
    /\ l > 1 => l - 1 \in ladder[c]
    /\ ladder' = [ladder EXCEPT ![c] = @ \cup {l}]
    /\ UNCHANGED <<filed, milestones, level>>

Stand(c, l) ==
    /\ c \in filed
    /\ l \in ladder[c]
    /\ level' = [level EXCEPT ![c] = l]
    /\ UNCHANGED <<filed, milestones, ladder>>

Next ==
    \E c \in Complaints :
        \/ \E claimed \in SUBSET {"resolved", "verified", "closed"}, l \in Levels :
              File(c, claimed, l)
        \/ \E m \in {"resolved", "verified", "closed"} : Reach(c, m)
        \/ \E l \in 1..2 : Send(c, l) \/ Stand(c, l)

Spec == Init /\ [][Next]_vars

=============================================================================
