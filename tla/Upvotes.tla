------------------------------ MODULE Upvotes ------------------------------
(***************************************************************************)
(* upvoteComplaint and removeUpvote of complaint.service.ts on one         *)
(* complaint.  The votes are documents of the upvotes collection, one per  *)
(* user by its unique index; the complaint carries their number, which     *)
(* each operation changes by $inc in a second, separate update.  The       *)
(* number the complaint begins with is stored from the request that        *)
(* created it.                                                             *)
(***************************************************************************)
EXTENDS Integers, FiniteSets

CONSTANTS
    Voters,         \* the users that pass the access check of the complaint
    Devices,        \* what a user sends requests from: one in flight from each
    FirstCount,     \* the upvoteCount in the body that created the complaint, 0 if it had none
    MaxRequests,    \* bound: how many requests arrive at all
    Faults          \* whether a request may die at an await

ASSUME BoundAssumption ==
    /\ IsFiniteSet(Voters)
    /\ IsFiniteSet(Devices)
    /\ FirstCount \in Int
    /\ MaxRequests \in Nat
    /\ Faults \in BOOLEAN

VARIABLES
    votes,          \* the users with an upvote document
    upvoteCount,    \* the field of the complaint
    pc,             \* pc[v, d]: the operation the request of v from d has issued
    arrived,        \* number of requests so far
    drift,          \* ghost: decrements minus increments that failures lost
    missed,         \* ghost: how many removals found the document deleted by another
    twice           \* ghost: users that had two requests in flight at some time

ghostVars == <<drift, missed, twice>>
voteVars == <<votes, upvoteCount, pc, arrived, ghostVars>>

Clients == Voters \X Devices

VotesInit ==
    /\ votes = {}
    /\ upvoteCount = FirstCount
    /\ pc = [x \in Clients |-> "idle"]
    /\ arrived = 0
    /\ drift = 0
    /\ missed = 0
    /\ twice = {}

Goto(x, l) == pc' = [pc EXCEPT ![x] = l]

\* Both requests read the complaint, check the access and ask whether the user has
\* voted; a request that is refused ends there and changes nothing.
Arrive(x) ==
    /\ pc[x] = "idle"
    /\ arrived < MaxRequests
    /\ arrived' = arrived + 1
    /\ twice' = IF \E y \in Clients : y[1] = x[1] /\ pc[y] # "idle"
                THEN twice \cup {x[1]} ELSE twice
    /\ UNCHANGED <<votes, upvoteCount, drift, missed>>

BeginUpvote(x) ==
    /\ Arrive(x)
    /\ x[1] \notin votes
    /\ Goto(x, "insert")

\* Mutant: removal does not ask whether the user has voted.
BeginRemoveUnasked(x) ==
    /\ Arrive(x)
    /\ Goto(x, "delete")

BeginRemove(x) ==
    /\ Arrive(x)
    /\ x[1] \in votes
    /\ Goto(x, "delete")

\* Mutant: votes are kept by request instead of by user.
InsertVoteOfRequest(x) ==
    /\ pc[x] = "insert"
    /\ votes' = votes \cup {x}
    /\ Goto(x, IF x \in votes THEN "idle" ELSE "increment")
    /\ UNCHANGED <<upvoteCount, arrived, ghostVars>>

\* A second document of the same user is refused by the index: the request fails.
InsertVote(x) ==
    /\ pc[x] = "insert"
    /\ votes' = votes \cup {x[1]}
    /\ Goto(x, IF x[1] \in votes THEN "idle" ELSE "increment")
    /\ UNCHANGED <<upvoteCount, arrived, ghostVars>>

\* deleteOne succeeds too when there is nothing to delete; its count is not looked at.
DeleteVote(x) ==
    /\ pc[x] = "delete"
    /\ votes' = votes \ {x[1]}
    /\ Goto(x, "decrement")
    /\ missed' = IF x[1] \in votes THEN missed ELSE missed + 1
    /\ UNCHANGED <<upvoteCount, arrived, drift, twice>>

Increment(x) ==
    /\ pc[x] = "increment"
    /\ upvoteCount' = upvoteCount + 1
    /\ Goto(x, "idle")
    /\ UNCHANGED <<votes, arrived, ghostVars>>

Decrement(x) ==
    /\ pc[x] = "decrement"
    /\ upvoteCount' = upvoteCount - 1
    /\ Goto(x, "idle")
    /\ UNCHANGED <<votes, arrived, ghostVars>>

\* Nothing undoes the vote when the update of the counter fails.
Abort(x) ==
    /\ Faults
    /\ pc[x] # "idle"
    /\ drift' = drift + (CASE pc[x] = "increment" -> -1
                           [] pc[x] = "decrement" -> 1
                           [] OTHER -> 0)
    /\ Goto(x, "idle")
    /\ UNCHANGED <<votes, upvoteCount, arrived, missed, twice>>

VotesNext ==
    \E x \in Clients :
        \/ BeginUpvote(x)
        \/ BeginRemove(x)
        \/ InsertVote(x)
        \/ DeleteVote(x)
        \/ Increment(x)
        \/ Decrement(x)
        \/ Abort(x)

VotesSpec == VotesInit /\ [][VotesNext]_voteVars

-----------------------------------------------------------------------------

Pc == {"idle", "insert", "delete", "increment", "decrement"}

\* The votes are users, and every request stands at one of its awaits.
VotesTypeOK ==
    /\ votes \subseteq Voters
    /\ upvoteCount \in Int
    /\ pc \in [Clients -> Pc]
    /\ arrived \in Nat
    /\ drift \in Int
    /\ missed \in Nat
    /\ twice \subseteq Voters

AtPc(l) == {x \in Clients : pc[x] = l}

\* The counter of the complaint differs from what it began with and the number of votes only
\* by the $inc updates under way or lost to a failure, and by the removals that found their
\* vote deleted by another, each of which counted down for nothing.  Such a removal needs two
\* requests of one user in flight: requests of different users never corrupt the counter,
\* although a vote and its count are two updates.
CountAccounted ==
    /\ upvoteCount = FirstCount + Cardinality(votes)
                     - Cardinality(AtPc("increment")) + Cardinality(AtPc("decrement"))
                     + drift - missed
    /\ missed > 0 => twice # {}

=============================================================================
