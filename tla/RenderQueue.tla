----------------------------- MODULE RenderQueue -----------------------------
(***************************************************************************)
(* How the content server prepares books for reading, calibre/srv/books.py *)
(* on top of JobsManager: the request book_manifest queues one render job  *)
(* for a book, tells the browser how it is getting on, and the job's       *)
(* callback job_done(), run by the event loop, puts the result in place.   *)
(*                                                                         *)
(* The requests run in the server's worker threads (the handlers).  They   *)
(* and job_done() share cache_lock.  A request holds it while it calls     *)
(* start_job(), which needs the lock of the manager; job_done() is called  *)
(* with the lock of the manager held, and needs cache_lock.                *)
(***************************************************************************)
EXTENDS JobsManager

CONSTANTS
    Books,          \* the books (the hashes of a format) asked for
    Handlers        \* the worker threads of the server

ASSUME RenderAssumption == None \notin Books \cup Handlers

VARIABLES
    cache_lock,     \* the handler that holds it between two steps, or None
    queued_jobs,    \* the job that prepares a book, or None
    failed_jobs,    \* the books whose failure nobody has been told of
    rendered,       \* the books with a manifest in the final directory
    book_of,        \* the book of a job (job_data), or None
    at,             \* where in book_manifest() a handler is
    asked,          \* the book it was asked for
    told            \* the job it is going to ask the status of, or None

cache    == <<queued_jobs, failed_jobs, rendered, book_of>>
requests == <<cache_lock, at, asked, told>>
rvars    == <<vars, cache, requests>>

RInit ==
    /\ Init
    /\ cache_lock = None
    /\ queued_jobs = [b \in Books |-> None]
    /\ failed_jobs = {}
    /\ rendered = {}
    /\ book_of = [j \in Ids |-> None]
    /\ at = [h \in Handlers |-> "idle"]
    /\ asked = [h \in Handlers |-> None]
    /\ told = [h \in Handlers |-> None]

-------------------------------------------------------------------------------
(* book_manifest() *)

Ask(h, b) ==
    /\ at[h] = "idle"
    /\ at' = [at EXCEPT ![h] = "enter"]
    /\ asked' = [asked EXCEPT ![h] = b]
    /\ UNCHANGED <<vars, cache, cache_lock, told>>

Answered(h) ==
    /\ at' = [at EXCEPT ![h] = "idle"]
    /\ asked' = [asked EXCEPT ![h] = None]
    /\ told' = [told EXCEPT ![h] = None]

\* with cache_lock: the manifest (force_reload deletes it first), the failure,
\* or the job there is; else queue_job() is called, and the lock kept (while
\* the bound on jobs leaves one to start).
Look(h) ==
    LET b == asked[h] IN
    /\ at[h] = "enter"
    /\ cache_lock = None
    /\ rendered' \in {rendered, rendered \ {b}}
    /\ \/ /\ b \in rendered'
          /\ Answered(h)
          /\ UNCHANGED <<cache_lock, failed_jobs>>
       \/ /\ b \in failed_jobs \ rendered'
          /\ failed_jobs' = failed_jobs \ {b}
          /\ Answered(h)
          /\ UNCHANGED cache_lock
       \/ /\ b \notin rendered' \cup failed_jobs
          /\ queued_jobs[b] # None
          /\ told' = [told EXCEPT ![h] = queued_jobs[b]]
          /\ at' = [at EXCEPT ![h] = "status"]
          /\ UNCHANGED <<cache_lock, failed_jobs, asked>>
       \/ /\ b \notin rendered' \cup failed_jobs
          /\ queued_jobs[b] = None
          /\ job_id < MaxStarted
          /\ cache_lock' = h
          /\ at' = [at EXCEPT ![h] = "start"]
          /\ UNCHANGED <<failed_jobs, asked, told>>
    /\ UNCHANGED <<vars, queued_jobs, book_of>>

\* queue_job() cannot copy the book: the request ends with the exception,
CopyFails(h) ==
    /\ at[h] = "start"
    /\ cache_lock' = None
    /\ Answered(h)
    /\ UNCHANGED <<vars, cache>>

\* Seeded fault: the job is started without cache_lock.
StartUnlocked(h) ==
    /\ at[h] = "start"
    /\ StartJob
    /\ book_of' = [book_of EXCEPT ![job_id] = asked[h]]
    /\ told' = [told EXCEPT ![h] = job_id]
    /\ at' = [at EXCEPT ![h] = "register"]
    /\ cache_lock' = None
    /\ UNCHANGED <<queued_jobs, failed_jobs, rendered, asked>>

\* or start_job() returns a new id,
Start(h) ==
    /\ at[h] = "start"
    /\ StartJob
    /\ book_of' = [book_of EXCEPT ![job_id] = asked[h]]
    /\ told' = [told EXCEPT ![h] = job_id]
    /\ at' = [at EXCEPT ![h] = "register"]
    /\ UNCHANGED <<cache_lock, queued_jobs, failed_jobs, rendered, asked>>

\* or None, when the server is shutting down.
StartRefused(h) ==
    /\ at[h] = "start"
    /\ LockFree
    /\ shutting_down
    /\ at' = [at EXCEPT ![h] = "register"]
    /\ UNCHANGED <<vars, cache, cache_lock, asked, told>>

\* The id is noted, and cache_lock released.
Register(h) ==
    /\ at[h] = "register"
    /\ queued_jobs' = [queued_jobs EXCEPT ![asked[h]] = told[h]]
    /\ cache_lock' = None
    /\ at' = [at EXCEPT ![h] = "status"]
    /\ UNCHANGED <<vars, failed_jobs, rendered, book_of, asked, told>>

\* job_status() of the job, under the lock of the manager.
AskStatus(h) ==
    /\ at[h] = "status"
    /\ LockFree
    /\ Answered(h)
    /\ UNCHANGED <<vars, cache, cache_lock>>

-------------------------------------------------------------------------------
(* job_done() *)

Failed(j) == outcome[j] \in {"error", "timeout"} \/ was_aborted(j)

\* Seeded fault: a job that failed stays queued.
JobDoneKeepsFailed ==
    LET j == ev[2]
        b == book_of[j] IN
    /\ CallbackReturns
    /\ cache_lock = None
    /\ queued_jobs' = IF Failed(j) THEN queued_jobs
                      ELSE [queued_jobs EXCEPT ![b] = None]
    /\ failed_jobs' = IF Failed(j) THEN failed_jobs \cup {b} ELSE failed_jobs
    /\ rendered' = IF Failed(j) THEN rendered ELSE rendered \cup {b}
    /\ UNCHANGED <<book_of, requests>>

\* The callback: the job is no longer queued; what it made is moved to the
\* final directory, in place of what was there, unless it failed or that fails.
JobDone ==
    LET j == ev[2]
        b == book_of[j] IN
    /\ CallbackReturns
    /\ cache_lock = None
    /\ queued_jobs' = [queued_jobs EXCEPT ![b] = None]
    /\ \/ /\ ~ Failed(j)
          /\ rendered' = rendered \cup {b}
          /\ UNCHANGED failed_jobs
       \/ /\ failed_jobs' = failed_jobs \cup {b}
          /\ rendered' = rendered
       \/ /\ ~ Failed(j)
          /\ failed_jobs' = failed_jobs \cup {b}
          /\ rendered' = rendered \ {b}
    /\ UNCHANGED <<book_of, requests>>

Handling(h) ==
    \/ (\E b \in Books : Ask(h, b)) \/ Look(h) \/ CopyFails(h) \/ Start(h)
    \/ StartRefused(h) \/ Register(h) \/ AskStatus(h)

Managing == shutdown \/ LoopStep \/ Tick \/ \E j \in Ids : Running(j)

RNext ==
    \/ \E h \in Handlers : Handling(h)
    \/ JobDone
    \/ Managing /\ UNCHANGED <<cache, requests>>

RSpec == RInit /\ [][RNext]_rvars

-------------------------------------------------------------------------------
(* Properties *)

\* Every variable has its type.
RTypeOK ==
    /\ TypeOK
    /\ cache_lock \in Handlers \cup {None}
    /\ queued_jobs \in [Books -> Ids \cup {None}]
    /\ failed_jobs \subseteq Books /\ rendered \subseteq Books
    /\ book_of \in [Ids -> Books \cup {None}]
    /\ at \in [Handlers -> {"idle", "enter", "start", "register", "status"}]
    /\ asked \in [Handlers -> Books \cup {None}]
    /\ told \in [Handlers -> Ids \cup {None}]

\* The jobs for b that job_done() has not been called for yet.
Open(b) ==
    {j \in Ids : /\ book_of[j] = b
                 /\ \/ j \in waiting_job_ids \cup jobs
                    \/ loop = "callback" /\ ev[2] = j}

\* books.py:141-159: however many requests there are for a book, it is being
\* prepared by one job at a time.
OneJobPerBook == \A b \in Books : Cardinality(Open(b)) <= 1

\* books.py:84, 111, 157: between requests queued_jobs names exactly the job
\* that is preparing a book.  A job it forgot would be done twice; a job it
\* kept after the end would stand in the way of preparing that book for ever.
\* Every variable has its type.
QueuedIsOpen ==
    /\ RTypeOK
    /\ cache_lock = None /\ ~ shutting_down =>
        \A b \in Books :
            Open(b) = IF queued_jobs[b] = None THEN {} ELSE {queued_jobs[b]}

\* opts.py:62-65: worker processes are launched as needed and used for jobs
\* such as preparing a book for viewing; that the request which wants one and
\* the loop which would launch it each hold the lock the other waits for is
\* not provided for.
LocksDoNotCross ==
    \A h \in Handlers : ~ (at[h] = "start" /\ cache_lock = h /\ ~ LockFree)
===============================================================================
