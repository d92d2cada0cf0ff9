--------------------------------- MODULE Pool ---------------------------------
(***************************************************************************)
(* The pool of worker processes of calibre/utils/ipc/pool.py, with which   *)
(* books are added and saved (gui2/add.py, gui2/save.py).                  *)
(*                                                                         *)
(* Three kinds of threads: the caller, who hands jobs in, waits for them   *)
(* by the counter of the queue tracker and then reads the queue results;   *)
(* the pool's own thread, which works through the queue events; and one    *)
(* thread per busy worker that passes on its answer.  The first failure of *)
(* a worker process is terminal: nothing runs in the pool afterwards.  Two *)
(* failures are not noticed: a new process that never connects, for which  *)
(* the thread waits for ever, and a listener that cannot be made.          *)
(***************************************************************************)
EXTENDS Integers, FiniteSets, Sequences

CONSTANTS
    max_workers,    \* the largest number of worker processes
    MaxJobs,        \* bound: the jobs handed in
    MaxData,        \* bound: how often common data are set
    None,           \* Python's None
    Faults          \* which of the failures below may happen

ASSUME PoolAssumption ==
    /\ max_workers \in Nat \ {0} /\ MaxJobs \in Nat /\ MaxData \in Nat
    /\ None \notin Nat
    /\ Faults \subseteq {"start", "send", "crash"}

Jobs    == 1..MaxJobs
Workers == 1..max_workers
Events  == {<<"stop">>} \cup ({"job"} \X Jobs) \cup ({"data"} \X (1..MaxData))
              \cup ({"result", "crash"} \X Workers)

VARIABLES
    caller,             \* "free", "waiting", "returned" from the wait, "failed", "gone"
    n_jobs,             \* the jobs handed in so far are 1..n_jobs
    data,               \* the common data set last, counted
    tracker,            \* unfinished_tasks of the queue tracker
    events,
    results,            \* how many results of each job were put
    terminal_failure, shutting_down,
    pool,               \* what the pool's thread does next
    hand,               \* the job it has in hand, or None
    n_workers,          \* the workers started so far are 1..n_workers
    available_workers,
    busy_workers,       \* the job of each busy worker, or None
    pending_jobs,
    common_data,        \* what the pool gives to new workers
    worker_data,        \* what each worker was sent last
    due, used           \* of each job: the common data it ought to use; it uses

outside == <<caller, n_jobs, data, due>>
shared  == <<tracker, events, results, terminal_failure, shutting_down>>
inside  == <<pool, hand, n_workers, available_workers, busy_workers, pending_jobs,
             common_data, worker_data, used>>
vars    == <<outside, shared, inside>>

Init ==
    /\ caller = "free" /\ n_jobs = 0 /\ data = 0
    /\ tracker = 0 /\ events = <<>>
    /\ results = [j \in Jobs |-> 0]
    /\ terminal_failure = FALSE /\ shutting_down = FALSE
    /\ pool = "begin" /\ hand = None
    /\ n_workers = 0 /\ available_workers = {}
    /\ busy_workers = [w \in Workers |-> None]
    /\ pending_jobs = <<>>
    /\ common_data = 0 /\ worker_data = [w \in Workers |-> 0]
    /\ due = [j \in Jobs |-> 0] /\ used = [j \in Jobs |-> None]

Busy == {w \in Workers : busy_workers[w] # None}

-------------------------------------------------------------------------------
(* The caller *)

\* pool(job_id, ...) raises Failure after a terminal failure.
Call ==
    /\ caller \in {"free", "returned"}
    /\ n_jobs < MaxJobs
    /\ IF terminal_failure
       THEN caller' = "failed" /\ UNCHANGED <<n_jobs, due, tracker, events>>
       ELSE /\ caller' = "free"
            /\ n_jobs' = n_jobs + 1
            /\ due' = [due EXCEPT ![n_jobs'] = data]
            /\ tracker' = tracker + 1
            /\ events' = Append(events, <<"job", n_jobs'>>)
    /\ UNCHANGED <<data, results, terminal_failure, shutting_down, inside>>

\* set_common_data() is to be called before queueing any jobs, or after all of
\* them are done.
SetCommonData ==
    /\ caller = "returned" \/ (caller = "free" /\ n_jobs = 0)
    /\ data < MaxData
    /\ ~ terminal_failure
    /\ data' = data + 1
    /\ events' = Append(events, <<"data", data'>>)
    /\ UNCHANGED <<caller, n_jobs, due, tracker, results, terminal_failure,
                   shutting_down, inside>>

\* wait_for_tasks(), with a timeout in all the program: it is called again and
\* again, and each time looks for a failure first.
Wait ==
    /\ caller = "free"
    /\ caller' = "waiting"
    /\ UNCHANGED <<n_jobs, data, due, shared, inside>>

WaitReturns ==
    /\ caller = "waiting"
    /\ tracker = 0
    /\ caller' = "returned"
    /\ UNCHANGED <<n_jobs, data, due, shared, inside>>

WaitFails ==
    /\ caller = "waiting"
    /\ terminal_failure
    /\ caller' = "failed"
    /\ UNCHANGED <<n_jobs, data, due, shared, inside>>

\* shutdown() and shutdown_workers(): no worker is left, and what the workers
\* that are killed still send is not looked at.
ShutDown ==
    /\ shutting_down' = TRUE
    /\ events' = Append(events, <<"stop">>)
    /\ available_workers' = {}
    /\ busy_workers' = [w \in Workers |-> None]

\* The caller has done with the pool; after a failure it is shut down already.
CallerShutsDown ==
    /\ caller \in {"free", "returned"}
    /\ caller' = "gone"
    /\ ~ shutting_down
    /\ ShutDown
    /\ UNCHANGED <<n_jobs, data, due, tracker, results, terminal_failure, pool, hand,
                   n_workers, pending_jobs, common_data, worker_data, used>>

-------------------------------------------------------------------------------
(* The workers *)

\* The answer arrives, or the connection breaks; either way recv() reports it.
WorkerEnds(w) ==
    /\ w \in Busy
    /\ \A i \in 1..Len(events) : events[i] \notin {<<"result", w>>, <<"crash", w>>}
    /\ \E kind \in {"result"} \cup (Faults \cap {"crash"}) :
        events' = Append(events, <<kind, w>>)
    /\ UNCHANGED <<outside, tracker, results, terminal_failure, shutting_down, inside>>

-------------------------------------------------------------------------------
(* The pool's thread *)

Becomes(l, j) == pool' = l /\ hand' = j

ToSetOf(q) == {q[i] : i \in 1..Len(q)}

\* Seeded fault: only the busy jobs are answered for.
TerminalForgets(busy, rest) ==
    LET failed == {busy[w] : w \in {v \in Workers : busy[v] # None}} IN
    /\ terminal_failure' = TRUE
    /\ Becomes("ended", None)
    /\ IF shutting_down
       THEN UNCHANGED <<results, tracker, events, shutting_down, available_workers,
                        busy_workers, pending_jobs>>
       ELSE /\ results' = [j \in Jobs |-> results[j] + IF j \in failed THEN 1 ELSE 0]
            /\ tracker' = tracker - Cardinality(failed)
            /\ pending_jobs' = rest
            /\ ShutDown

\* terminal_failure is set and terminal_error() called: the busy and the
\* pending jobs get a failed result each, and the pool is shut down.
Terminal(busy, rest) ==
    LET failed == {busy[w] : w \in {v \in Workers : busy[v] # None}} \cup ToSetOf(rest) IN
    /\ terminal_failure' = TRUE
    /\ Becomes("ended", None)
    /\ IF shutting_down
       THEN UNCHANGED <<results, tracker, events, shutting_down, available_workers,
                        busy_workers, pending_jobs>>
       ELSE /\ results' = [j \in Jobs |-> results[j] + IF j \in failed THEN 1 ELSE 0]
            /\ tracker' = tracker - Cardinality(failed)
            /\ pending_jobs' = <<>>
            /\ ShutDown

\* Seeded fault: a new worker is not sent the common data.
StartWithoutData ==
    /\ pool \in {"begin", "start"}
    /\ n_workers' = n_workers + 1
    /\ available_workers' = available_workers \cup {n_workers'}
    /\ Becomes(IF pool = "begin" THEN "get" ELSE "run", hand)
    /\ UNCHANGED <<outside, shared, busy_workers, pending_jobs, common_data,
                   worker_data, used>>

\* create_listener() raises: the thread ends and tells nobody.
ListenerFails ==
    /\ "start" \in Faults
    /\ pool = "begin"
    /\ Becomes("dead", None)
    /\ UNCHANGED <<outside, shared, n_workers, available_workers, busy_workers,
                   pending_jobs, common_data, worker_data, used>>

\* start_worker(): one more process, which is sent the common data.  It may fail,
\* and a process that ends before it connects leaves the thread in accept(), which
\* has no timeout.
StartWorker ==
    /\ pool \in {"begin", "start"}
    /\ \/ /\ n_workers' = n_workers + 1
          /\ available_workers' = IF shutting_down THEN available_workers
                                  ELSE available_workers \cup {n_workers'}
          /\ worker_data' = [worker_data EXCEPT ![n_workers'] = common_data]
          /\ Becomes(IF pool = "begin" THEN "get" ELSE "run", hand)
          /\ UNCHANGED <<tracker, events, results, terminal_failure, shutting_down,
                         busy_workers, pending_jobs>>
       \/ /\ "start" \in Faults \/ shutting_down
          /\ Terminal(busy_workers, pending_jobs)
          /\ UNCHANGED <<n_workers, worker_data>>
       \/ /\ "start" \in Faults
          /\ Becomes("blocked", hand)
          /\ UNCHANGED <<shared, n_workers, available_workers, busy_workers,
                         pending_jobs, worker_data>>
    /\ UNCHANGED <<outside, common_data, used>>

Took(kind) == pool = "get" /\ ~ shutting_down /\ events # <<>> /\ Head(events)[1] = kind

\* handle_event(job): the job is run, by a new worker if need be, or kept.
TakeJob ==
    LET j == Head(events)[2]
        full == available_workers = {} /\ Cardinality(Busy) >= max_workers
    IN
    /\ Took("job")
    /\ events' = Tail(events)
    /\ pending_jobs' = IF full THEN Append(pending_jobs, j) ELSE pending_jobs
    /\ IF full THEN Becomes("get", None)
       ELSE Becomes(IF available_workers = {} THEN "start" ELSE "run", j)
    /\ UNCHANGED <<outside, tracker, results, terminal_failure, shutting_down, n_workers,
                   available_workers, busy_workers, common_data, worker_data, used>>

\* run_job(), by any worker that is available; a job that cannot be sent is in no
\* list any more, and when a shutdown took the workers pop() ends the thread.
RunJob(j, rest, l) ==
    \/ \E w \in available_workers :
        /\ available_workers' = available_workers \ {w}
        /\ busy_workers' = [busy_workers EXCEPT ![w] = j]
        /\ used' = [used EXCEPT ![j] = worker_data[w]]
        /\ pending_jobs' = rest
        /\ Becomes(l, None)
        /\ UNCHANGED <<shared, n_workers, common_data, worker_data>>
    \/ /\ "send" \in Faults
       /\ available_workers # {}
       /\ Terminal(busy_workers, rest)
       /\ UNCHANGED <<n_workers, common_data, worker_data, used>>
    \/ /\ available_workers = {}
       /\ Becomes("ended", None)
       /\ UNCHANGED <<shared, n_workers, available_workers, busy_workers, pending_jobs,
                      common_data, worker_data, used>>

RunIt == pool = "run" /\ RunJob(hand, pending_jobs, "get") /\ UNCHANGED outside

\* Seeded fault: the worker stays in busy_workers.
TakeResultKeepsBusy ==
    LET w == Head(events)[2] IN
    /\ Took("result") \/ Took("crash")
    /\ events' = Tail(events)
    /\ available_workers' = available_workers \cup {w}
    /\ tracker' = tracker - 1
    /\ Becomes(IF Head(events)[1] = "crash" THEN "crashed" ELSE "put", busy_workers[w])
    /\ UNCHANGED <<outside, results, terminal_failure, shutting_down, n_workers,
                   busy_workers, pending_jobs, common_data, worker_data, used>>

\* handle_event(result): the worker is free and the task done,
TakeResult ==
    LET w == Head(events)[2] IN
    /\ Took("result") \/ Took("crash")
    /\ events' = Tail(events)
    /\ busy_workers' = [busy_workers EXCEPT ![w] = None]
    /\ available_workers' = available_workers \cup {w}
    /\ tracker' = tracker - 1
    /\ Becomes(IF Head(events)[1] = "crash" THEN "crashed" ELSE "put", busy_workers[w])
    /\ UNCHANGED <<outside, results, terminal_failure, shutting_down, n_workers,
                   pending_jobs, common_data, worker_data, used>>

\* Seeded fault: pending jobs are left until the next event.
PutAndGet ==
    /\ pool = "put"
    /\ results' = [results EXCEPT ![hand] = @ + 1]
    /\ Becomes("get", None)
    /\ UNCHANGED <<outside, tracker, events, terminal_failure, shutting_down, n_workers,
                   available_workers, busy_workers, pending_jobs, common_data,
                   worker_data, used>>

\* and then the result is put.
PutResult ==
    /\ pool = "put"
    /\ results' = [results EXCEPT ![hand] = @ + 1]
    /\ Becomes("drain", None)
    /\ UNCHANGED <<outside, tracker, events, terminal_failure, shutting_down, n_workers,
                   available_workers, busy_workers, pending_jobs, common_data,
                   worker_data, used>>

Crashed ==
    /\ pool = "crashed"
    /\ Terminal(busy_workers, pending_jobs)
    /\ UNCHANGED <<outside, n_workers, common_data, worker_data, used>>

\* handle_event(data): the workers that are not busy are sent the data.
TakeData ==
    /\ Took("data")
    /\ common_data' = Head(events)[2]
    /\ \/ /\ events' = Tail(events)
          /\ worker_data' = [w \in Workers |-> IF w \in available_workers THEN common_data'
                                               ELSE worker_data[w]]
          /\ Becomes("drain", None)
          /\ UNCHANGED <<tracker, results, terminal_failure, shutting_down,
                         available_workers, busy_workers, pending_jobs>>
       \/ /\ "send" \in Faults
          /\ available_workers # {}
          /\ Terminal(busy_workers, pending_jobs)
          /\ UNCHANGED worker_data
    /\ UNCHANGED <<outside, n_workers, used>>

\* The end of handle_event(): pending jobs for free workers, the latest first.
Drain ==
    LET n == Len(pending_jobs) IN
    /\ pool = "drain"
    /\ IF n > 0 /\ available_workers # {}
       THEN RunJob(pending_jobs[n], SubSeq(pending_jobs, 1, n - 1), "drain")
       ELSE /\ Becomes("get", None)
            /\ UNCHANGED <<shared, n_workers, available_workers, busy_workers,
                           pending_jobs, common_data, worker_data, used>>
    /\ UNCHANGED outside

Leave ==
    /\ pool = "get"
    /\ events # <<>>
    /\ shutting_down
    /\ Becomes("ended", None)
    /\ UNCHANGED <<outside, shared, n_workers, available_workers, busy_workers,
                   pending_jobs, common_data, worker_data, used>>

PoolStep ==
    \/ ListenerFails \/ StartWorker \/ TakeJob \/ RunIt \/ TakeResult \/ PutResult \/ Crashed
    \/ TakeData \/ Drain \/ Leave

Next ==
    \/ Call \/ SetCommonData \/ Wait \/ WaitReturns \/ WaitFails \/ CallerShutsDown
    \/ PoolStep
    \/ \E w \in Workers : WorkerEnds(w)

Spec == Init /\ [][Next]_vars

\* The pool's thread runs, jobs end, and a caller who waits goes on waiting.
FairSpec ==
    /\ Spec
    /\ WF_vars(PoolStep) /\ WF_vars(WaitReturns) /\ WF_vars(WaitFails)
    /\ \A w \in Workers : WF_vars(WorkerEnds(w))

-------------------------------------------------------------------------------
(* Properties *)

Queued == {events[i][2] : i \in {k \in 1..Len(events) : events[k][1] = "job"}}

Answered == {j \in Jobs : results[j] > 0}

\* Every variable has its type.
TypeOK ==
    /\ caller \in {"free", "waiting", "returned", "failed", "gone"}
    /\ n_jobs \in 0..MaxJobs /\ data \in 0..MaxData /\ tracker \in 0..MaxJobs
    /\ events \in Seq(Events)
    /\ results \in [Jobs -> 0..1]
    /\ terminal_failure \in BOOLEAN /\ shutting_down \in BOOLEAN
    /\ pool \in {"begin", "start", "run", "get", "put", "crashed", "drain", "ended",
                "blocked", "dead"}
    /\ hand \in Jobs \cup {None}
    /\ n_workers \in 0..max_workers
    /\ available_workers \subseteq 1..n_workers
    /\ busy_workers \in [Workers -> Jobs \cup {None}]
    /\ pending_jobs \in Seq(Jobs)
    /\ common_data \in 0..MaxData /\ worker_data \in [Workers -> 0..MaxData]
    /\ due \in [Jobs -> 0..MaxData] /\ used \in [Jobs -> 0..MaxData \cup {None}]

\* handle_event, run_job: until the pool is shut down each job handed in is in
\* exactly one place: in the queue, kept, in the thread's hand, with one worker,
\* or answered; and a worker is busy or available, never both and never neither.
\* Every variable has its type.
InOnePlace ==
    /\ TypeOK
    /\ ~ shutting_down =>
        /\ \A j \in 1..n_jobs :
            LET with == Cardinality({w \in Workers : busy_workers[w] = j})
                kept == Cardinality({i \in 1..Len(pending_jobs) : pending_jobs[i] = j})
                once == (IF j \in Queued THEN 1 ELSE 0) + (IF hand = j THEN 1 ELSE 0)
            IN with + kept + once + results[j] = 1
        /\ available_workers \cap Busy = {}
        /\ available_workers \cup Busy = 1..n_workers

\* The tracker, by which wait_for_tasks() decides that all is done, counts exactly
\* the jobs without a result, but for the one whose result is about to be put.  A
\* pool that fails answers for the jobs it took over: only those in the queue and
\* the one that was in the thread's hand get no result, and of these two the
\* tracker may count the one too many, the other too few (terminal_error).
TrackerCounts ==
    LET open == n_jobs - Cardinality(Answered)
        done == IF pool \in {"put", "crashed"} THEN 1 ELSE 0
    IN  IF ~ terminal_failure THEN open - tracker = done
        ELSE /\ open - tracker \in {0, 1}
             /\ caller # "gone" => Cardinality((1..n_jobs) \ (Answered \cup Queued)) <= 1

\* set_common_data(): "you can call it after all jobs are done, then it will be
\* used for the new round of jobs".  Each job runs with the data that were set
\* last when it was handed in, whichever worker runs it, old or new.
CommonDataReaches == \A j \in Jobs : used[j] # None => used[j] = due[j]

\* wait_for_tasks(): a caller who waits gets on, with his jobs done or with a
\* Failure, whatever fails, unless the pool's thread is stuck in accept() or has no
\* listener (create_worker, run): then nothing ever tells him.
CallerGetsOn == caller = "waiting" ~> caller # "waiting" \/ pool \in {"blocked", "dead"}
===============================================================================
