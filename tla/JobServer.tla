------------------------------ MODULE JobServer -------------------------------
(***************************************************************************)
(* The GUI's worker processes: the thread of calibre/utils/ipc/server.py   *)
(* that starts a process for each job, and the part of the GUI's thread,   *)
(* calibre/gui2/jobs.py with BaseJob of calibre/utils/ipc/job.py, that     *)
(* hands jobs in, kills them and tells their owners of their end.  Device  *)
(* jobs and threaded jobs, which share only the list of jobs, are left     *)
(* out, and so are progress reports.                                       *)
(*                                                                         *)
(* The threads share queues, and the fields of the jobs.  The server sets  *)
(* these before it puts the job on changed_jobs_queue, and the GUI reads   *)
(* them after it took the job from there, so each part of the server's     *)
(* loop is one step.  What is left of a process is its return code: zero,  *)
(* "ok", or another, "bad".                                                *)
(***************************************************************************)
EXTENDS Integers, Sequences, FiniteSets, SequencesExt

CONSTANTS
    pool_size,
    MaxJobs,        \* bound: how many jobs are handed in
    Greedy,         \* the jobs with core_usage -1, all cores; the others have 1
    worker_max_time,    \* whether there is a limit to the time of a job
    Faults,         \* {"launch"} when a worker may not start
    None

Ids == 1..MaxJobs

ASSUME JobServerAssumption ==
    /\ pool_size \in Nat \ {0} /\ MaxJobs \in Nat /\ Greedy \subseteq Ids
    /\ worker_max_time \in BOOLEAN /\ Faults \subseteq {"launch"}
    /\ None \notin Ids \cup (BOOLEAN \X BOOLEAN)

VARIABLES
    handed_in,      \* how many jobs the GUI has handed in
    add_jobs_queue, waiting_jobs,
    workers,        \* the jobs of the workers
    kill_queue, changed_jobs_queue,     \* the jobs on these
    at,             \* what the server does: "get", "finish", "start", "kill", "ended", or,
                    \* when it failed or waits for ever in accept(), "dead"
    closing,        \* how far close() has got: "no", "asked", "done"
    process,        \* of each job: "none", "up", "ok", "bad"
    started, ended, \* the jobs with a start_time, and with a duration
    kill_on_start, killed, failed, done_called      \* the jobs with these flags

queues == <<add_jobs_queue, waiting_jobs, workers>>
flags  == <<kill_on_start, killed, failed>>
times  == <<started, ended>>
gui    == <<handed_in, closing, done_called>>
vars   == <<queues, kill_queue, changed_jobs_queue, at, process, flags, times, gui>>

Init ==
    /\ handed_in = 0 /\ closing = "no" /\ done_called = {}
    /\ add_jobs_queue = <<>> /\ waiting_jobs = <<>> /\ workers = {}
    /\ kill_queue = {} /\ changed_jobs_queue = {}
    /\ at = "get"
    /\ process = [j \in Ids |-> "none"]
    /\ started = {} /\ ended = {}
    /\ kill_on_start = {} /\ killed = {} /\ failed = {}

-------------------------------------------------------------------------------
(* The thread of the server *)

\* The newest job goes to the front.
Get ==
    /\ at = "get" /\ add_jobs_queue # <<>>
    /\ add_jobs_queue' = Tail(add_jobs_queue)
    /\ IF Head(add_jobs_queue) = None THEN at' = "ended" /\ UNCHANGED waiting_jobs
       ELSE at' = "finish" /\ waiting_jobs' = <<Head(add_jobs_queue)>> \o waiting_jobs
    /\ UNCHANGED <<workers, kill_queue, changed_jobs_queue, process, flags, times, gui>>

GetTimesOut ==
    /\ at = "get" /\ add_jobs_queue = <<>>
    /\ at' = "finish"
    /\ UNCHANGED <<queues, kill_queue, changed_jobs_queue, process, flags, times, gui>>

\* Seeded fault: the return code is not looked at.
NoneFailed(gone) == {}

Failed(gone) == {j \in gone : process[j] = "bad"}

\* Seeded fault: the GUI is not told.
Unannounced(S) == changed_jobs_queue

Announced(S) == changed_jobs_queue \cup S

\* Finished jobs are taken from the workers.
Finish ==
    LET gone == {j \in workers : process[j] # "up"} IN
    /\ at = "finish" /\ at' = "start"
    /\ workers' = workers \ gone
    /\ failed' = failed \cup Failed(gone)
    /\ ended' = ended \cup gone
    /\ changed_jobs_queue' = Announced(gone)
    /\ UNCHANGED <<add_jobs_queue, waiting_jobs, kill_queue, process, kill_on_start, killed,
                   started, gui>>

available_workers ==
    IF workers \cap Greedy # {} THEN 0 ELSE pool_size - Cardinality(workers)

\* Seeded fault: a job that uses all cores takes the first that is free.
SuitableGreedy(j) == available_workers >= 1

Suitable(j) == IF j \in Greedy THEN available_workers >= pool_size ELSE available_workers >= 1

suitable_waiting_jobs == {i \in 1..Len(waiting_jobs) : Suitable(waiting_jobs[i])}

NothingToStart ==
    /\ at = "start" /\ suitable_waiting_jobs = {}
    /\ at' = "kill"
    /\ UNCHANGED <<queues, kill_queue, changed_jobs_queue, process, flags, times, gui>>

\* A worker is launched for the first that suits.  When that fails, or the job
\* cannot be sent to it, the thread ends, and it never comes back from accept() if
\* the process ends before it connects; close() may be the reason.  A job killed
\* before ends at once.
Start ==
    /\ at = "start"
    /\ \E i \in suitable_waiting_jobs :
       LET j == waiting_jobs[i]
           dies == /\ at' = "dead" /\ UNCHANGED <<workers, changed_jobs_queue>>
                   /\ process' \in {process, [process EXCEPT ![j] = "up"]}
           runs == /\ at' = "kill" /\ process' = [process EXCEPT ![j] = "up"]
                   /\ workers' = workers \cup {j}
                   /\ changed_jobs_queue' = Announced({j})
       IN
       /\ \A k \in suitable_waiting_jobs : i <= k
       /\ waiting_jobs' = RemoveAt(waiting_jobs, i)
       /\ started' = started \cup {j}
       /\ IF j \in kill_on_start
          THEN /\ killed' = killed \cup {j} /\ failed' = failed \cup {j}
               /\ ended' = ended \cup {j}
               /\ changed_jobs_queue' = Announced({j})
               /\ at' = "kill"
               /\ UNCHANGED <<workers, process>>
          ELSE /\ \/ runs
                  \/ (closing # "no" \/ "launch" \in Faults) /\ dies
               /\ UNCHANGED <<killed, failed, ended>>
    /\ UNCHANGED <<add_jobs_queue, kill_queue, kill_on_start, gui>>

\* _kill_job() for each request.
Kill ==
    /\ at = "kill" /\ at' = "get"
    /\ kill_queue' = {}
    /\ kill_on_start' = kill_on_start \cup (kill_queue \ started)
    /\ killed' = killed \cup (kill_queue \cap workers)
    /\ process' = [j \in Ids |-> IF j \in kill_queue \cap workers /\ process[j] = "up"
                                 THEN "bad" ELSE process[j]]
    /\ UNCHANGED <<queues, changed_jobs_queue, failed, times, gui>>

ProcessEnds ==
    \E j \in Ids, code \in {"ok", "bad"} :
        /\ process[j] = "up"
        /\ process' = [process EXCEPT ![j] = code]
        /\ UNCHANGED <<queues, kill_queue, changed_jobs_queue, at, flags, times, gui>>

-------------------------------------------------------------------------------
(* The GUI's thread *)

\* run_job()
RunJob ==
    /\ handed_in < MaxJobs /\ closing = "no"
    /\ handed_in' = handed_in + 1
    /\ add_jobs_queue' = Append(add_jobs_queue, handed_in + 1)
    /\ UNCHANGED <<waiting_jobs, workers, kill_queue, changed_jobs_queue, at, process, flags,
                   times, closing, done_called>>

\* _update(): BaseJob.update() for each job that changed.
Update ==
    /\ changed_jobs_queue # {}
    /\ changed_jobs_queue' = {}
    /\ done_called' = done_called \cup (changed_jobs_queue \cap ended)
    /\ UNCHANGED <<queues, kill_queue, at, process, flags, times, handed_in, closing>>

AskToKill(S) ==
    /\ ~ S \subseteq kill_queue
    /\ kill_queue' = kill_queue \cup S
    /\ UNCHANGED <<queues, changed_jobs_queue, at, process, flags, times, gui>>

\* kill_job(), and killall(), which may fail half way through the workers.
UserKills == \E j \in (1..handed_in) \ ended : AskToKill({j})
killall   == \E S \in SUBSET workers : AskToKill(S)

\* _update(): a job has gone on for too long.
TimesOut(j) == worker_max_time /\ j \in started \ ended /\ AskToKill({j})

\* close(), at the end of the GUI.
Close ==
    /\ closing = "no"
    /\ closing' = "asked"
    /\ add_jobs_queue' = Append(add_jobs_queue, None)
    /\ UNCHANGED <<waiting_jobs, workers, kill_queue, changed_jobs_queue, at, process, flags,
                   times, handed_in, done_called>>

CloseKills ==
    /\ closing = "asked"
    /\ closing' = "done"
    /\ process' = [j \in Ids |-> IF j \in workers /\ process[j] = "up" THEN "bad" ELSE process[j]]
    /\ UNCHANGED <<queues, kill_queue, changed_jobs_queue, at, flags, times, handed_in,
                   done_called>>

-------------------------------------------------------------------------------

ServerStep == Get \/ GetTimesOut \/ Finish \/ NothingToStart \/ Start \/ Kill

Next ==
    \/ ServerStep \/ ProcessEnds \/ Update
    \/ RunJob \/ UserKills \/ killall \/ Close \/ CloseKills
    \/ \E j \in Ids : TimesOut(j)

Spec == Init /\ [][Next]_vars

\* The two threads are scheduled, and a job that has gone on for too long is
\* noticed.  No process need end of itself.
FairSpec ==
    /\ Spec
    /\ WF_vars(ServerStep) /\ WF_vars(Update)
    /\ \A j \in Ids : WF_vars(TimesOut(j))

-------------------------------------------------------------------------------
(* Properties *)

\* Every variable has its type.
TypeOK ==
    /\ handed_in \in 0..MaxJobs /\ closing \in {"no", "asked", "done"}
    /\ add_jobs_queue \in Seq(Ids \cup {None}) /\ waiting_jobs \in Seq(Ids)
    /\ at \in {"get", "finish", "start", "kill", "ended", "dead"}
    /\ process \in [Ids -> {"none", "up", "ok", "bad"}]
    /\ \A S \in {workers, kill_queue, changed_jobs_queue, started, ended, kill_on_start,
                 killed, failed, done_called} : S \subseteq Ids

\* server.py:269-303 and 337-345: whenever a kill comes, before the start, in
\* the run or at the end of it, what a job is said to have come to is what it
\* did: a job succeeded if and only if its process did, even one that was
\* killed too late; one killed in time never had a process; and a process
\* that still runs is one that the server looks after.  Every variable has its
\* type.
HonestVerdicts ==
    /\ TypeOK
    /\ \A j \in ended :
        /\ j \in failed <=> process[j] # "ok"
        /\ process[j] = "none" => j \in killed
    /\ \A j \in kill_on_start : process[j] = "none"
    /\ at # "dead" => \A j \in Ids : process[j] = "up" => j \in workers \ ended

\* server.py:240-345, job.py:53-83, jobs.py:149-196: a job waits, runs with
\* others as far as there are cores, and ends with a verdict that is final and
\* of which its owner is told once; one that uses all cores runs alone.
Abstract == INSTANCE JobQueue WITH
    Jobs    <- Ids,
    Cores   <- [j \in Ids |-> IF j \in Greedy THEN pool_size ELSE 1],
    limit   <- pool_size,
    status  <- [j \in Ids |->
                    IF j > handed_in THEN "new"
                    ELSE IF j \in done_called THEN "told"
                    ELSE IF j \in ended THEN "ended"
                    ELSE IF j \in started THEN "running" ELSE "waiting"],
    verdict <- [j \in Ids |-> IF j \in ended THEN <<j \in killed, j \in failed>> ELSE None]

ImplementsJobQueue == Abstract!Spec

\* server.py:240-345, jobs.py:149-215: when the time of jobs is limited, the
\* owner of every job is told of its end at last, in whatever order jobs come
\* and are killed; unless the GUI ends, or a worker that did not start took
\* the thread of the server with it.
EveryJobTold ==
    \A j \in Ids : handed_in >= j ~> j \in done_called \/ closing # "no" \/ at = "dead"
===============================================================================
