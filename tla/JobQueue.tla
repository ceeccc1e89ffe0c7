------------------------------ MODULE JobQueue ------------------------------
(***************************************************************************)
(* The job that texts a one-time password: added by a request to send one, *)
(* taken by the worker of any process, which runs from the moment its      *)
(* module is loaded.  Redis keeps the jobs; the worker that has taken one  *)
(* holds it.  Workers are told to skip the check for stalled jobs, so a    *)
(* job whose process has died is never taken again.                        *)
(***************************************************************************)
EXTENDS ServerProcess

VARIABLES
    job,        \* job[q]: the job that the request q has added
    texts       \* texts[q]: how often its code was texted

jobVars == <<job, texts>>

Job == [pc : {"none", "waiting", "active", "sent", "done", "stalled"}, at : Process \cup {None}]
NoJob == [pc |-> "none", at |-> None]

JobInit ==
    /\ job = [q \in Request |-> NoJob]
    /\ texts = [q \in Request |-> 0]

\* otpQueue.add, after the code was stored; it may fail with the request.
AddJob(q) ==
    /\ job' = [job EXCEPT ![q] = [pc |-> "waiting", at |-> None]]
    /\ UNCHANGED texts

TakeJob(q, p) ==
    /\ job[q].pc = "waiting"
    /\ proc[p].phase # "down"
    /\ job' = [job EXCEPT ![q] = [pc |-> "active", at |-> p]]
    /\ UNCHANGED texts

\* The provider sends the text, or refuses, or is not configured: sendOTP catches every
\* failure, so in each case the job goes on as if the text was sent.
SendText(q) ==
    /\ job[q].pc = "active"
    /\ texts' \in {[texts EXCEPT ![q] = @ + 1]} \cup (IF Faults THEN {texts} ELSE {})
    /\ job' = [job EXCEPT ![q].pc = "sent"]

\* Mutant: a job is never recorded as completed.
CompleteJobNever(q) ==
    /\ job[q].pc = "sent"
    /\ FALSE
    /\ UNCHANGED <<job, texts>>

CompleteJob(q) ==
    /\ job[q].pc = "sent"
    /\ job' = [job EXCEPT ![q] = [pc |-> "done", at |-> None]]
    /\ UNCHANGED texts

\* Mutant: stalled jobs are found and given to another worker.
JobsStallUntilChecked(p) ==
    /\ job' = [q \in Request |-> IF job[q].at = p THEN [pc |-> "waiting", at |-> None] ELSE job[q]]
    /\ UNCHANGED texts

\* Mutant: the exit leaves the jobs with the process that has exited.
JobsStallForgotten(p) == UNCHANGED <<job, texts>>

\* The exit of p leaves the jobs its worker holds where they are.
JobsStall(p) ==
    /\ job' = [q \in Request |-> IF job[q].at = p THEN [pc |-> "stalled", at |-> None] ELSE job[q]]
    /\ UNCHANGED texts

JobStep ==
    \E q \in Request :
        \/ \E p \in Process : TakeJob(q, p)
        \/ SendText(q)
        \/ CompleteJob(q)

JobTypeOK ==
    /\ job \in [Request -> Job]
    /\ texts \in [Request -> Nat]

\* A code is texted at most once, whatever process dies when: no stalled job is taken again,
\* and sendOTP swallows its failures, so that none is tried again.
TextedAtMostOnce == \A q \in Request : texts[q] <= 1

\* Every job added is finished, unless the process that held it exited.
JobsEnd == \A q \in Request \cap {"send_otp"} : job[q].pc = "waiting" ~> job[q].pc \in {"done", "stalled"}

=============================================================================
