------------------------------- MODULE JobQueue -------------------------------
(***************************************************************************)
(* What those who hand in jobs rely on, of the content server's            *)
(* JobsManager and of the job server of the GUI alike: a job waits, runs   *)
(* with others as far as there are cores, and ends with a verdict that is  *)
(* final, of which its owner is told once.  A job that still waits may end *)
(* without having run, and one whose owner was told may be forgotten.  A   *)
(* step may take several jobs on.                                          *)
(***************************************************************************)
EXTENDS Integers, FiniteSets

CONSTANTS
    Jobs,
    Cores,      \* how many cores each job uses
    limit,      \* how many there are for jobs
    None

VARIABLES
    status,     \* "new", "waiting", "running", "ended", "told", "forgotten"
    verdict     \* of a job that has ended

vars == <<status, verdict>>

Init == status = [j \in Jobs |-> "new"] /\ verdict = [j \in Jobs |-> None]

InState(s) == {j \in Jobs : status[j] = s}

\* How many cores the jobs of S use: the k-th core of job j is <<j, k>>.
InUse(S) == Cardinality(UNION {{j} \X (1..Cores[j]) : j \in S})

Moves(S, from, to) ==
    /\ S # {} /\ S \subseteq InState(from)
    /\ status' = [j \in Jobs |-> IF j \in S THEN to ELSE status[j]]

Submit(S) == Moves(S, "new", "waiting") /\ UNCHANGED verdict

Start(S) ==
    /\ Moves(S, "waiting", "running")
    /\ InUse(InState("running") \cup S) <= limit
    /\ UNCHANGED verdict

Judged(S) ==
    \A j \in Jobs : IF j \in S THEN verdict'[j] # None ELSE verdict'[j] = verdict[j]

End(S)    == Moves(S, "running", "ended") /\ Judged(S)
Cancel(S) == Moves(S, "waiting", "ended") /\ Judged(S)
Tell(S)   == Moves(S, "ended", "told") /\ UNCHANGED verdict

Forget(S) ==
    /\ Moves(S, "told", "forgotten")
    /\ verdict' = [j \in Jobs |-> IF j \in S THEN None ELSE verdict[j]]

Next ==
    \E S \in SUBSET Jobs :
        Submit(S) \/ Start(S) \/ End(S) \/ Cancel(S) \/ Tell(S) \/ Forget(S)

Spec == Init /\ [][Next]_vars
===============================================================================
