----------------------------- MODULE JobsManager -----------------------------
(***************************************************************************)
(* The content server's manager of worker processes,                       *)
(* calibre/srv/jobs.py: start_job() queues a job, the thread JobsEventLoop *)
(* starts it when one of max_jobs slots is free, stops it when it has run  *)
(* for max_job_time, and files its result when its own thread (Job.run)    *)
(* reports the end.                                                        *)
(*                                                                         *)
(* Threads: the callers of start_job() and shutdown(), the event loop, and *)
(* one thread per started job.  A method that holds the manager's lock is  *)
(* one step.  The one exception is job_finished(), which calls the job's   *)
(* callback under the lock: the lock is taken while loop = "callback", and *)
(* only then.  Jobs are their ids, dealt in order.  Time is counted in     *)
(* ticks, and only as far as the limits it is compared with.               *)
(***************************************************************************)
EXTENDS Integers, FiniteSets, Sequences, SequencesExt

CONSTANTS
    max_jobs,       \* how many jobs run at once
    max_job_time,   \* how long the manager lets a job run, in ticks
    ForkTimeout,    \* the timeout of fork_job(): 300 seconds
    Retention,      \* how long a finished job is remembered: 3600 seconds
    None,           \* Python's None
    MaxStarted,     \* bound: how many jobs are handed in
    Faults          \* {"spawn"} when starting a worker process may raise

Ids      == 0..(MaxStarted - 1)
Events   == {<<"stop">>} \cup ({"start", "done"} \X Ids)
Outcomes == {"none", "result", "error", "aborted", "timeout"}

ASSUME JobsAssumption ==
    /\ max_jobs \in Nat \ {0} /\ max_job_time \in Nat
    /\ ForkTimeout \in Nat /\ Retention \in Nat /\ MaxStarted \in Nat
    /\ None \notin Nat \cup Events \cup (Outcomes \X BOOLEAN)
    /\ Faults \subseteq {"spawn"}

\* Times beyond every limit that a job, or one that is done, is held against
\* are alike.
Horizon(done) ==
    IF done THEN Retention + 1
    ELSE IF ForkTimeout < max_job_time THEN max_job_time ELSE ForkTimeout + 1

VARIABLES
    shutting_down,
    job_id,             \* the next id
    events,             \* the queue: <<"start", id>>, <<"done", id>>, <<"stop">>
    waiting_job_ids, waiting_jobs, jobs, finished_jobs,
    max_block,          \* how long the loop may wait for an event, or None
    loop,               \* what the event loop does next
    ev,                 \* the event it took, or None
    patience,           \* what is left of its wait, or None
    thread,             \* of each job: "none", "running", "done", "reported", "dead"
    abort_event,        \* the jobs told to stop
    outcome,            \* how a job ended
    since               \* the time since it was started or, once done, ended

queue   == <<shutting_down, job_id, events>>
tables  == <<waiting_job_ids, waiting_jobs, jobs, finished_jobs>>
control == <<max_block, loop, ev, patience>>
work    == <<thread, abort_event, outcome, since>>
vars    == <<queue, tables, control, work>>

Init ==
    /\ shutting_down = FALSE
    /\ job_id = 0
    /\ events = <<>>
    /\ waiting_job_ids = {} /\ waiting_jobs = <<>>
    /\ jobs = {} /\ finished_jobs = {}
    /\ max_block = None
    /\ loop = "off" /\ ev = None /\ patience = None
    /\ thread = [j \in Ids |-> "none"]
    /\ abort_event = {}
    /\ outcome = [j \in Ids |-> "none"]
    /\ since = [j \in Ids |-> 0]

LockFree == loop # "callback"

-------------------------------------------------------------------------------
(* The callers *)

\* start_job(), before shutdown; the first call starts the event loop.
StartJob ==
    /\ LockFree
    /\ ~ shutting_down
    /\ job_id < MaxStarted
    /\ loop' = IF loop = "off" THEN "top" ELSE loop
    /\ events' = Append(events, <<"start", job_id>>)
    /\ waiting_job_ids' = waiting_job_ids \cup {job_id}
    /\ job_id' = job_id + 1
    /\ UNCHANGED <<shutting_down, waiting_jobs, jobs, finished_jobs, max_block, ev,
                   patience, work>>

\* job_status(): nothing is known of any job once the manager shuts down.
Status(j) ==
    IF shutting_down THEN None
    ELSE IF j \in finished_jobs THEN "finished"
    ELSE IF j \in jobs THEN "running"
    ELSE IF j \in waiting_job_ids THEN "waiting"
    ELSE None

was_aborted(j) == thread[j] \in {"done", "reported"} /\ j \in abort_event

\* The result, traceback and was_aborted that job_status() adds.
Report(j) == <<outcome[j], was_aborted(j)>>

\* Seeded fault: the loop is not woken.
ShutdownUnheard ==
    /\ LockFree
    /\ ~ shutting_down
    /\ shutting_down' = TRUE
    /\ abort_event' = abort_event \cup jobs
    /\ UNCHANGED <<job_id, events, tables, control, thread, outcome, since>>

\* shutdown(): tells the running jobs to stop, and wakes the loop.
shutdown ==
    /\ LockFree
    /\ ~ shutting_down
    /\ shutting_down' = TRUE
    /\ abort_event' = abort_event \cup jobs
    /\ events' = Append(events, <<"stop">>)
    /\ UNCHANGED <<job_id, tables, control, thread, outcome, since>>

-------------------------------------------------------------------------------
(* The event loop *)

\* The loop goes on at l; the event it had taken is done with.
Becomes(l) == loop' = l /\ ev' = None /\ UNCHANGED <<max_block, patience>>

Top ==
    /\ loop = "top"
    /\ loop' = IF shutting_down THEN "ended" ELSE "get"
    /\ patience' = IF shutting_down THEN None ELSE max_block
    /\ UNCHANGED <<queue, tables, max_block, ev, work>>

GetEvent ==
    /\ loop = "get"
    /\ events # <<>>
    /\ ev' = Head(events)
    /\ events' = Tail(events)
    /\ loop' = "got" /\ patience' = None
    /\ UNCHANGED <<shutting_down, job_id, tables, max_block, work>>

GetTimesOut ==
    /\ loop = "get"
    /\ events = <<>>
    /\ patience = 0
    /\ ev' = None
    /\ loop' = "got" /\ patience' = None
    /\ UNCHANGED <<queue, tables, max_block, work>>

\* Shutting down is noticed before the event is looked at.
Leave ==
    /\ loop = "got"
    /\ shutting_down \/ ev = <<"stop">>
    /\ Becomes("ended")
    /\ UNCHANGED <<queue, tables, work>>

Took(kind) == loop = "got" /\ ~ shutting_down /\ ev # None /\ ev[1] = kind

TakeStart ==
    /\ Took("start")
    /\ waiting_jobs' = Append(waiting_jobs, ev[2])
    /\ Becomes("start")
    /\ UNCHANGED <<queue, waiting_job_ids, jobs, finished_jobs, work>>

Going(j) == thread[j] = "running" /\ j \notin abort_event

Overdue(j) == Going(j) /\ since[j] >= max_job_time

\* abort_hanging_jobs(): no event came in time.
AbortHanging ==
    LET hanging == {j \in jobs : Overdue(j)} IN
    /\ loop = "got" /\ ~ shutting_down /\ ev = None
    /\ abort_event' = abort_event \cup hanging
    /\ Becomes(IF hanging = {} THEN "top" ELSE "update")
    /\ UNCHANGED <<queue, tables, thread, outcome, since>>

\* job_finished(): takes the lock, files the job and calls its callback.
TakeDone ==
    /\ Took("done")
    /\ jobs' = jobs \ {ev[2]}
    /\ finished_jobs' = finished_jobs \cup {ev[2]}
    /\ loop' = "callback"
    /\ UNCHANGED <<queue, waiting_job_ids, waiting_jobs, max_block, ev, patience, work>>

\* The callback returns or raises, which is logged; the lock is released.
CallbackReturns ==
    /\ loop = "callback"
    /\ Becomes("prune")
    /\ UNCHANGED <<queue, tables, work>>

\* prune_finished_jobs(): nothing is left of the old ones.
Prune ==
    LET old == {j \in finished_jobs : since[j] > Retention} IN
    /\ loop = "prune"
    /\ finished_jobs' = finished_jobs \ old
    /\ abort_event' = abort_event \ old
    /\ outcome' = [j \in Ids |-> IF j \in old THEN "none" ELSE outcome[j]]
    /\ since' = [j \in Ids |-> IF j \in old THEN 0 ELSE since[j]]
    /\ Becomes("start")
    /\ UNCHANGED <<queue, waiting_job_ids, waiting_jobs, jobs, thread>>

\* Seeded fault: one slot too many.
FreeAndOne ==
    LET slots == max_jobs + 1 - Cardinality(jobs) IN
    IF slots < Len(waiting_jobs) THEN slots ELSE Len(waiting_jobs)

\* How many of the waiting jobs find a slot.
Free ==
    LET slots == max_jobs - Cardinality(jobs) IN
    IF slots < Len(waiting_jobs) THEN slots ELSE Len(waiting_jobs)

\* The jobs of S move to running, those of rest wait on; l comes next.
Starting(S, rest, l) ==
    /\ loop = "start"
    /\ waiting_jobs' = rest
    /\ jobs' = jobs \cup S
    /\ thread' = [j \in Ids |-> IF j \in S THEN "running" ELSE thread[j]]
    /\ Becomes(l)
    /\ UNCHANGED <<queue, finished_jobs, abort_event, outcome, since>>

Oldest == SubSeq(waiting_jobs, 1, Free)
Rest   == SubSeq(waiting_jobs, Free + 1, Len(waiting_jobs))

\* Seeded fault: the ids stay among those that wait.
StartNoDiscard ==
    Starting(ToSet(Oldest), Rest, "update") /\ UNCHANGED waiting_job_ids

\* Seeded fault: the time to wait for an event stays what it was.
StartNoAlarm ==
    /\ Starting(ToSet(Oldest), Rest, "top")
    /\ waiting_job_ids' = waiting_job_ids \ ToSet(Oldest)

\* start_waiting_jobs(): the oldest first.
StartWaitingJobs ==
    /\ Starting(ToSet(Oldest), Rest, "update")
    /\ waiting_job_ids' = waiting_job_ids \ ToSet(Oldest)

\* update_max_block(): the time the job nearest to its limit has left.
UpdateMaxBlock ==
    /\ loop = "update"
    /\ LET left == {max_job_time - since[j] : j \in {k \in jobs : Going(k)}} IN
        max_block' = IF left = {} THEN None
                     ELSE IF \E t \in left : t <= 0 THEN 0
                     ELSE CHOOSE t \in left : \A u \in left : t <= u
    /\ loop' = "top"
    /\ UNCHANGED <<queue, tables, ev, patience, work>>

-------------------------------------------------------------------------------
(* The threads of the jobs and the clock *)

EndsAs(j, result) ==
    /\ thread[j] = "running"
    /\ thread' = [thread EXCEPT ![j] = "done"]
    /\ outcome' = [outcome EXCEPT ![j] = result]
    /\ since' = [since EXCEPT ![j] = 0]
    /\ UNCHANGED <<queue, tables, control, abort_event>>

\* The function returns or raises, perhaps just when told to stop.  Only
\* render() is handed in, and it returns None.
JobEnds(j) == \E result \in {"result", "error"} : EndsAs(j, result)

\* communicate() sees the abort event and returns nothing.
JobAborted(j) == j \in abort_event /\ EndsAs(j, "aborted")

\* communicate() gives up on the worker process.
JobTimesOut(j) == since[j] > ForkTimeout /\ EndsAs(j, "timeout")

\* Something other than WorkerError is raised, and ends the thread.
JobDies(j) ==
    /\ "spawn" \in Faults
    /\ thread[j] = "running"
    /\ thread' = [thread EXCEPT ![j] = "dead"]
    /\ UNCHANGED <<queue, tables, control, abort_event, outcome, since>>

JobReports(j) ==
    /\ thread[j] = "done"
    /\ thread' = [thread EXCEPT ![j] = "reported"]
    /\ events' = Append(events, <<"done", j>>)
    /\ UNCHANGED <<shutting_down, job_id, tables, control, abort_event, outcome, since>>

\* Time passes for the jobs and for a loop that waits.
Tick ==
    /\ since' = [j \in Ids |->
                    IF /\ j \in jobs \cup finished_jobs
                       /\ since[j] < Horizon(thread[j] \in {"done", "reported"})
                    THEN since[j] + 1 ELSE since[j]]
    /\ patience' = IF patience \in Nat \ {0} THEN patience - 1 ELSE patience
    /\ UNCHANGED <<queue, tables, max_block, loop, ev, thread, abort_event, outcome>>

LoopStep ==
    \/ Top \/ GetEvent \/ GetTimesOut \/ Leave \/ TakeStart \/ AbortHanging
    \/ TakeDone \/ Prune \/ StartWaitingJobs \/ UpdateMaxBlock

Running(j) ==
    JobEnds(j) \/ JobAborted(j) \/ JobTimesOut(j) \/ JobDies(j) \/ JobReports(j)

Next ==
    \/ StartJob \/ shutdown \/ LoopStep \/ CallbackReturns \/ Tick
    \/ \E j \in Ids : Running(j)

Spec == Init /\ [][Next]_vars

\* The loop and the job threads are scheduled, callbacks return, time passes,
\* and an aborted job ends.  No job need end of itself, nor is the timeout of
\* fork_job() relied on.
FairSpec ==
    /\ Spec
    /\ WF_vars(LoopStep) /\ WF_vars(CallbackReturns) /\ WF_vars(Tick)
    /\ \A j \in Ids : WF_vars(JobAborted(j)) /\ WF_vars(JobReports(j))

-------------------------------------------------------------------------------
(* Properties *)

\* Every variable has its type.
TypeOK ==
    /\ shutting_down \in BOOLEAN /\ job_id \in 0..MaxStarted
    /\ events \in Seq(Events)
    /\ waiting_job_ids \subseteq Ids /\ waiting_jobs \in Seq(Ids)
    /\ jobs \subseteq Ids /\ finished_jobs \subseteq Ids
    /\ max_block \in 0..max_job_time \cup {None}
    /\ loop \in {"off", "top", "get", "got", "callback", "prune", "start", "update", "ended"}
    /\ ev \in Events \cup {None}
    /\ patience \in 0..max_job_time \cup {None}
    /\ thread \in [Ids -> {"none", "running", "done", "reported", "dead"}]
    /\ abort_event \subseteq Ids
    /\ outcome \in [Ids -> Outcomes]
    /\ since \in [Ids -> Nat]
    /\ \A j \in Ids : since[j] \in 0..Horizon(thread[j] \in {"done", "reported"})

\* What is in the queue, or was just taken from it.
Pending(e) == (\E i \in 1..Len(events) : events[i] = e) \/ (loop = "got" /\ ev = e)

\* jobs.py:113-114, 187-189, 221-222: until shutdown a job that was handed in
\* is in exactly one place: waiting, with its start event or in waiting_jobs;
\* running; or finished.  Once its thread has ended, the event that will
\* file it is on its way.  So job_status() always has an answer, and no slot
\* is kept by a job that has reported.  Every variable has its type.
Accounts ==
    /\ TypeOK
    /\ ~ shutting_down =>
        /\ \A j \in Ids :
            j \in waiting_job_ids <=> Pending(<<"start", j>>) \/ j \in ToSet(waiting_jobs)
        /\ waiting_job_ids \cap (jobs \cup finished_jobs) = {}
        /\ jobs \cap finished_jobs = {}
        /\ \A j \in Ids : Pending(<<"done", j>>) <=> j \in jobs /\ thread[j] = "reported"

\* jobs.py:117-127, 163-244: a job waits, runs with as many others as there
\* are slots and ends; its report is final, its callback is called once, and
\* it is forgotten after that.
Abstract == INSTANCE JobQueue WITH
    Jobs    <- Ids,
    Cores   <- [j \in Ids |-> 1],
    limit   <- max_jobs,
    status  <- [j \in Ids |->
                    IF j >= job_id THEN "new"
                    ELSE IF j \in waiting_job_ids THEN "waiting"
                    ELSE IF j \in jobs THEN "running"
                    ELSE IF j \notin finished_jobs THEN "forgotten"
                    ELSE IF loop = "callback" /\ ev[2] = j THEN "ended" ELSE "told"],
    verdict <- [j \in Ids |-> IF j \in finished_jobs THEN Report(j) ELSE None]

ImplementsJobQueue == Abstract!Spec

\* jobs.py:163-218: whatever its function does, a job that was handed in is
\* finished in the end, unless the manager is shut down or the thread of a
\* job died without reporting, which keeps its slot for ever.
EveryJobFinishes ==
    \A j \in Ids :
        Status(j) = "waiting" ~>
            Status(j) = "finished" \/ shutting_down \/ \E k \in Ids : thread[k] = "dead"

\* jobs.py:144-159: after shutdown the loop ends, and no job that was told to
\* stop goes on.
ShutdownCompletes ==
    shutting_down ~>
        /\ loop \in {"off", "ended"}
        /\ \A j \in abort_event : thread[j] # "running"
===============================================================================
