---------------------------- MODULE ExclusiveWork ----------------------------
(***************************************************************************)
(* What the job queue promises, without tokens, clocks, rows or replies:   *)
(* a piece of work is in the hands of at most one worker at a time, passes *)
(* to another only after its holder gave it back or let its lease lapse,   *)
(* and is finished at most once, by the worker that holds it, with the     *)
(* result of the attempt then under way.                                   *)
(***************************************************************************)
CONSTANTS Job, Agent, Attempt, NULL

VARIABLES
    phase,     \* "absent", "pending", "claimed", "completed" or "failed"
    holder,    \* the worker a claimed job is in the hands of, or NULL
    attempt,   \* the attempt under way on a claimed job, or NULL
    lapsed,    \* the claimed jobs whose lease has run out
    issued,    \* every attempt ever started
    result     \* the attempt that last reported on a job, or NULL

vars == <<phase, holder, attempt, lapsed, issued, result>>

Init ==
    /\ phase = [j \in Job |-> "absent"]
    /\ holder = [j \in Job |-> NULL]
    /\ attempt = [j \in Job |-> NULL]
    /\ lapsed = {}
    /\ issued = {}
    /\ result = [j \in Job |-> NULL]

Enqueue(j) ==
    /\ phase[j] = "absent"
    /\ phase' = [phase EXCEPT ![j] = "pending"]
    /\ UNCHANGED <<holder, attempt, lapsed, issued, result>>

\* A new attempt n on a job nobody holds any more.
Grant(j, a, n) ==
    /\ phase[j] = "pending" \/ j \in lapsed
    /\ n \notin issued
    /\ phase' = [phase EXCEPT ![j] = "claimed"]
    /\ holder' = [holder EXCEPT ![j] = a]
    /\ attempt' = [attempt EXCEPT ![j] = n]
    /\ lapsed' = lapsed \ {j}
    /\ issued' = issued \cup {n}
    /\ UNCHANGED result

\* The holder of a lease that has not lapsed reports, and the job leaves its
\* hands: for good, or back to the queue.
Report(j, verdict) ==
    /\ phase[j] = "claimed"
    /\ j \notin lapsed
    /\ phase' = [phase EXCEPT ![j] = verdict]
    /\ holder' = [holder EXCEPT ![j] = NULL]
    /\ attempt' = [attempt EXCEPT ![j] = NULL]
    /\ result' = [result EXCEPT ![j] = attempt[j]]
    /\ UNCHANGED <<lapsed, issued>>

\* Time passes, and the leases of the jobs in S run out.
Lapse(S) ==
    /\ \A j \in S : phase[j] = "claimed"
    /\ lapsed' = lapsed \cup S
    /\ UNCHANGED <<phase, holder, attempt, issued, result>>

Next ==
    \/ \E j \in Job : Enqueue(j)
    \/ \E j \in Job, a \in Agent, n \in Attempt : Grant(j, a, n)
    \/ \E j \in Job, verdict \in {"pending", "completed", "failed"} : Report(j, verdict)
    \/ \E S \in SUBSET Job : Lapse(S)

Spec == Init /\ [][Next]_vars
=============================================================================
