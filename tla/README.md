# Formal models of calibre

TLA+ models of the concurrent and the stateful parts of calibre (the Python 2
code base in `src/calibre`), the TLC configurations that check them on small
instances, and proofs, checked by TLAPS, of what matters most about them.

Paths below are relative to `src/calibre`.

1. [The system](#1-the-system)
2. [The modules](#2-the-modules)
3. [The runs](#3-the-runs)
4. [Fairness](#4-fairness)
5. [What is proved](#5-what-is-proved)
6. [Where the code and what is said of it disagree](#6-where-the-code-and-what-is-said-of-it-disagree)
7. [What is not modelled](#7-what-is-not-modelled)
8. [The plan](#8-the-plan)

## 1. The system

calibre manages a library of books: a SQLite database and a folder of files per
book. The GUI, the content server and the command line tools work on it through
one in-memory image of the database. Long work is done by threads and by worker
processes, each kind with its own manager.

### Components: state, operations, interactions

**Library lock** (`db/locking.py`). A readers-writer lock without starvation.
State: the counts and owners of shared and exclusive holds, a queue of readers
and one of writers, a pool of condition objects. Operations: `acquire(shared,
blocking)`, `release()`. Used by every method of the Cache through the
decorators `read_api` and `write_api`. *Hard:* the releasing thread hands
ownership over before the new owner runs; condition objects are recycled.
*Correct when:* exclusion holds, the counters agree with what threads believe,
no wake-up is lost, nobody passes a queued writer, nobody starves.

**Cache** (`db/cache.py`). The in-memory library: tables, fields, the dirty
marks, caches of formatted metadata. Its methods change memory and database
together under the lock. It calls the tables and writers below and the backend.
*Hard:* one call is many statements; each may raise.

**Tables and writers** (`db/tables.py`, `db/write.py`). For each column the
maps id → name, book → items, item → books, mirrored in an item table and a
link table. Operations: reading, `set_books`, `rename_item`, `remove_items`,
`remove_books`, `fix_case_duplicates`. *Hard:* two maps, two tables, names that
are equal up to case, merging of items, constraints and triggers of the
database, statements that commit one by one. *Correct when:* memory equals what
reading the database would give, no statement is refused, books get what was
asked for and no other book changes, and what changed is marked dirty.

**Metadata backup** (`db/backup.py`, with the dirty marks of `db/cache.py`). A
thread that writes the metadata of dirty books into OPF files, from which a
lost database can be restored. State: `dirtied_cache` (book → sequence), the
table `metadata_dirtied`, the files. *Hard:* the thread takes the lock anew for
each of its calls, and the book may change, move or go in between; files may be
locked; the process may end. *Correct when:* a file that is out of date is
always marked, marks survive a restart, and each mark is in the end served.

**Content server: jobs manager** (`srv/jobs.py`). Starts a limited number of
worker processes, stops those that hang, files results, forgets old ones.
State: waiting, running and finished jobs, a queue of events, a flag. Threads:
callers, the event loop, one per job. Calls back into `srv/books.py`. *Correct
when:* every job is in one place, every job ends, slots are neither wasted nor
exceeded, a status never goes backwards, shutdown ends.

**Content server: preparation of books** (`srv/books.py`). Queues one render
job per book, and puts its result in place in the callback. State: the job of
each book, the failed jobs, the directories. *Hard:* two locks, two threads.
*Correct when:* one job at a time per book, and the table of jobs is exact.

**Content server: loop** (`srv/loop.py`, `srv/pool.py`, `srv/http_*.py`).
Connections as state machines, driven by `select`; requests that take time go
to a thread pool, and the answer comes back through a control socket. State: the
connections by the number of their socket, two bounded queues, the bytes on the
control socket; of each connection a ring buffer. *Hard:* connections time out
or close while their request runs, go on with their next request, or leave the
number of their socket to another; one byte on the control socket may stand for
several results; sockets fail, the control socket too. *Correct when:* a
connection that waits has a job in the pool, a result that is waited for goes to
who asked, every result is taken, no byte is lost in a buffer, and a stop ends the
loop.

**Content server: web sockets** (`srv/web_socket.py`). Messages sent by other
threads in frames, control frames, closing from both sides. State: the queue of
messages, the message and the frame under way, `wait_for`. *Hard:* the sender
and the loop write `wait_for` without a lock. *Correct when:* messages arrive
complete, once and in order, none is left lying while anything happens, and a close
ends the connection with a close frame.

**Pool of worker processes** (`utils/ipc/pool.py`). Used to add and save books.
State: available and busy workers, pending jobs, common data, three queues.
*Hard:* a worker may fail at any step, and that ends the pool; the caller waits
by one queue and reads another. *Correct when:* no job is lost or answered
twice, the count by which callers wait is right, common data reach every worker,
and a caller who waits is told of the end of his jobs or of a failure.

**Job server of the GUI** (`utils/ipc/server.py`, `utils/ipc/job.py`,
`gui2/jobs.py`) with worker processes for conversion. State: waiting jobs,
workers, a queue to and one from the GUI, and the fields of each job. *Hard:*
kills that race with starts and ends, jobs that need all cores. *Correct when:*
a verdict is true and final, the cores are not overbooked, every owner is told.

**Threaded jobs** (`gui2/threaded_jobs.py`); **delete service**
(`db/delete_service.py`), which moves books to the recycle bin. *Hard:* kills
that race with starts and ends; a partial failure of moving files.

**Backend** (`db/backend.py`): SQL, triggers, folders and files of books.

Everything else (device drivers, conversion, editor, viewer, news download,
endpoints of the server, vendored packages) is listed in `PROJECT.json` with the
reason why it is left out.

## 2. The modules

| module | models | composes |
| --- | --- | --- |
| `ReadersWriters` | what the library lock promises its callers | |
| `SHLock` | `SHLock` of `db/locking.py` | implements `ReadersWriters` |
| `SHLockProofs` | the proofs about it | `SHLock` |
| `MetadataBackup`, `MCMetadataBackup` | `db/backup.py` and the dirty marks | |
| `MetadataBackupProofs` | the proofs about it | `MetadataBackup` |
| `LinkTable`, `MCLinkTable` | a many-one or many-many column | |
| `LinkTableProofs` | the proofs about it | `LinkTable` |
| `JobQueue` | what those who hand in jobs rely on | |
| `JobsManager` | `srv/jobs.py` | implements `JobQueue` |
| `RenderQueue`, `MCRenderQueue` | `srv/books.py` | `JobsManager` |
| `JobsManagerProofs` | the proofs about both | `RenderQueue`, `JobsManager` |
| `JobServer` | `utils/ipc/server.py`, `utils/ipc/job.py`, `gui2/jobs.py` | implements `JobQueue` |
| `JobServerProofs` | the proofs about it | `JobServer` |
| `Pool` | `utils/ipc/pool.py` | |
| `PoolProofs` | the proofs about it | `Pool` |
| `ByteQueue` | what a reader of a connection relies on | |
| `ReadBuffer` | the ring buffer and the reads of `srv/loop.py` | implements `ByteQueue` |
| `ServerLoop` | the loop of `srv/loop.py`, `srv/pool.py`, the states of a connection | |
| `ServerLoopProofs` | the proofs about both | `ServerLoop`, `ReadBuffer` |
| `WebSocket` | `srv/web_socket.py` after the handshake | |
| `WebSocketProofs` | the proofs about it | `WebSocket` |

Variables and actions bear the names of the attributes and methods they stand
for; `PROJECT.json` maps each definition to its lines. Definitions marked
*Seeded fault* are not part of the specifications: each is a plausible mistake
that one of the properties detects when it takes the place of the definition
after it. In each module the type invariant is a part of the first structural
invariant, so that one run checks both.

**SHLock.** Every method runs with the mutex `_lock` held and gives it up only
in `wait()`. So `acquire()` is one step, or two: joining a queue
(`QueueShared`, `QueueExclusive`) and, once notified, `Resume`. `release()` is
one step, with its hand-off (`HandToWriter`, `HandToReaders`). `held` is what
each thread knows from the calls that returned; `asleep` is who has not been
notified. Refused calls (`LockingError`, `DowngradeLockError`, `blocking=False`)
are steps that change nothing.

**MetadataBackup.** Methods of the Cache are one step each. A change is two
(`WriteField`, `MarkAsDirty`), since an exception (`MarkFails`) or the end of
the process (`Restart`) may come between. The thread goes `pick`, `fetch`,
`convert`, `write`, `clear`, with `waiting` for the `wait()` before each, at
which it may be told to stop, and `tries` for its single retry. A write that
fails may have truncated the file or not; a failing INSERT in `mark_as_dirty()` has
already renumbered the books that were dirty (`MarkFails`). The metadata of
a book is the number of changes to it. `abandoned` is a history variable: the
metadata whose backup the code gives up on purpose or by a failed call.

**LinkTable.** A call is computed by operators that follow the code line by
line (`set_books`, `rename_items`, `remove_items`, `remove_books`) and yield a
sequence of statements, each with the database after it and the memory at that
moment. `Statement`, `StatementFails`, `Return` and `Restart` then execute it,
so a call may end at each statement. Its `dirtied` is what the code passes to
`_mark_as_dirty()`: nothing for `remove_books()`, whose books are gone, and for
`remove_items()` of a series that the user defined (`CustomSeries`) only those of the
affected books that have a series still (`MarkAffected`). `Accepted` is the schema:
UNIQUE constraints and foreign keys as triggers. A name is a word, in capitals or
not; `Ascii` says whether SQLite knows that these are the same. Many-one and
many-many columns are the same module (`Multiple`), as their code differs in
how links are stored and items merged.

**JobQueue.** A job waits, runs with others as far as there are cores, ends with
a verdict that is final, and its owner is told once. `JobsManager` and
`JobServer` each `INSTANCE` it with its `status` and `verdict` read off their
own variables, and both are checked to implement it.

**JobsManager.** A method under the manager's lock is one step; the event loop
is split where it waits or lets the lock go (`loop`). `job_finished()` calls
the callback with the lock held, so the lock is taken exactly while `loop =
"callback"`. Time is counted in ticks, up to the limits it is compared with.
`JobDies` is an exception that `Job.run` does not catch.

**RenderQueue** extends `JobsManager` by the request handlers and the callback.
`JobDone` replaces the abstract `CallbackReturns`. `cache_lock` is a variable
because a handler holds it while it waits for the manager's lock (`Start`). Before
that it copies the book, which may fail (`CopyFails`).

**JobServer.** The server's thread and the GUI's share queues and the fields of
the jobs. The server sets these before it puts the job on `changed_jobs_queue`,
and the GUI reads them after it took it from there, so each part of the server's
loop is one step: `Get`, `GetTimesOut`, `Finish`, `Start`, `NothingToStart`,
`Kill`. The GUI's steps are `RunJob`, `UserKills`, `killall`, `Update`, `Close`.
A process is what it came to. A worker that does not start, or dies before it
connects, is the end of the server's thread (`at = "dead"`), perhaps with a process
left over. Jobs in `Greedy` ask for all the cores, the others for one.

**Pool.** Three kinds of threads: the caller (`Call`, `SetCommonData`, `Wait`,
...), the pool's thread (`TakeJob`, `RunIt`, `TakeResult`, `PutResult`, ...) and
the workers (`WorkerEnds`). `TakeResult` and `PutResult` are two steps, since the
caller can see the queue of tasks between `task_done()` and `put()`. `due` and
`used` record with which common data a job ought to run and does run.
`available_workers` is a set: the code takes the last one added, the model any.
`StartWorker` returns, raises, or never returns: `accept()` has no timeout, and a
process that ends before it connects leaves the thread in it (`"blocked"`). Without a
listener the thread ends and sets no failure (`ListenerFails`, `"dead"`).

**ReadBuffer.** The positions, the full flag and the bytes of the buffer, byte
by byte, since how they wrap is what can be wrong; a byte is its number in the
stream, and `newlines` says which of them are line feeds. A call of a connection
is one step (`Buffered`, `Direct`, `Fill`, `PeerGone`): only the loop reads.

**ServerLoop.** The loop handles an event per step, in the order of
`get_actions()`: new connections, the control socket, results, reading, writing.
`Raises` is an exception in a handler, after which no more events of that socket
are handled in this tick (`ignore`). A thread of the pool takes three steps:
`Get`, `Work`, `Notify`. A connection reads a request, waits for its answer, or
writes one, and after every answer, an error's too, reads the next (`Reading`):
`reset_state()` calls `connection_ready()`, which clears `close_after_response`,
before it looks at it. A job is `[fd, conn, request]`; the code knows only the
descriptor, so `Dispatch` compares only that. With `"sockets"` among the faults
`select()` raises (`SelectFails`), the control socket is replaced with the bytes in it
(`ControlFails`), or a byte is not sent (`NotifyFails`). Two variables are history:
`given_up`, the jobs for which their request stopped waiting, and `lost`, whether a
byte has been lost since the queue of results was last empty.

**WebSocket.** `SetState` looks at the queue of messages, `SetIdle` overwrites
`wait_for`: two steps, as the sender's `Put`, `SetWaitFor` and `Wake` may come in
between. `Ask` is what the loop tells `select()`, and `Select` what comes back; with
data in the buffer the loop asks for nothing else (`SelectBuffered`). `broken` says
that the peer broke the connection or the server was shut down. `Overslept` is the
state after a lost wake-up (section 6).
A message is sent in `Parts` frames, each written whole or in part.

## 3. The runs

| run | instance | what it shows |
| --- | --- | --- |
| `lock` | 3 threads, holds nested 2 deep | exclusion, exact books, no lost wake-up, private condition objects, no barging, no starvation, and that the lock implements `ReadersWriters` |
| `backup` | 2 books, one of which changes twice, every fault | `StaleIsMarked`, `MarksPersist`, `JobIsCurrent`, `EventuallyBackedUp` |
| `link` | 2 books, 3 items, 3 names, up to 2 values, both kinds of columns, crashes and errors | memory is the database, no statement is refused, calls do what was asked, changes are marked, all or nothing; the many-one column also as a custom series |
| `link_case_duplicates` | a library with items that differ in case only | violation of `OnlyUnusedRemoved` |
| `jobs` | 3 jobs, 1 slot, a time limit | `Accounts`, `EveryJobFinishes`, `ShutdownCompletes`, and that the manager implements `JobQueue` |
| `render` | 2 handlers, 2 books, 2 jobs | `OneJobPerBook`, `QueuedIsOpen` |
| `render_deadlock` | the same | violation of `LocksDoNotCross` |
| `pool` | 2 workers, 5 jobs, 2 changes of common data, every fault, `accept()` that never returns included | `InOnePlace`, `TrackerCounts`, `CommonDataReaches`, `CallerGetsOn` |
| `read_buffer` | 3 bytes of buffer, 7 of stream, line feeds anywhere | `StreamKept`, and that the buffer implements `ByteQueue` |
| `server_loop` | 2 connections of 2 requests, 2 descriptors, 1 thread, queues of length 1, late peers, sockets that fail | `WaitersHaveJobs`, `ResultsAnnounced`, `AnswersGoHome`, `WaitersServed`, `StopEnds` |
| `web_socket` | 2 messages of 2 frames, a ping, closes and breaks | `MessagesInOrder`, `EveryMessageSent`, `CloseCompletes` |
| `job_server` | 3 jobs, one of them greedy, 2 cores, kills, workers that do not start | `HonestVerdicts`, `EveryJobTold`, and that the server implements `JobQueue` |

**Bounds and why they are enough.** The safety properties and the refinements
of every passing run are also proved without these bounds (section 5), but for the
one on `MaxRenames`; they matter for liveness only.

* `SHLock`: three threads give a holder, a queued writer and a queued reader at
  once, the smallest crowd in which one could pass another; two levels of
  nesting distinguish an inner from an outer release.
* `MetadataBackup`: two changes of a book give one after the fetch of the one
  before; a second book gives the numbering of several marks at once, and a
  choice for the thread. One worker is what the program means to have at a time;
  it is started again when the process is.
* `LinkTable`: two books and two words (one of them in two spellings) make all
  the pairs the code distinguishes: an item in one book, in both, a name that is
  new, known, or known in another case. `MaxItem` = 3 bounds the ids and so how
  often new items come; `MaxValues` and `MaxRenames` bound one call. A column
  that is not ASCII is the one of `link_case_duplicates`.
* `JobsManager`: one slot and three jobs give one that runs, one that waits and
  one in the queue. `max_job_time` = 1, `ForkTimeout` = 1 and `Retention` = 0
  ticks make each limit both reached and not reached.
* `RenderQueue`: two handlers for the same book is the race; the second book is
  needed for the two locks to be taken in opposite order. Books and handlers
  are symmetric, and only invariants are checked there.
* `Pool`: two workers, one of which may be started late; five jobs make one
  worker busy, jobs pending and jobs in the queue at the time of a failure, and
  leave jobs for a second round with new common data.
* `ReadBuffer`: three bytes give all relations of the two positions, apart,
  together and empty, together and full, on either side of the end; seven bytes
  of stream turn the buffer more than twice.
* `ServerLoop`: a queue of length one is full with one job queued while the
  thread has another, or while two connections ask at once. A second request is
  what a connection kept alive makes; a second connection is what a descriptor
  is used again for. `Fds` has two, so that both may also be open together.
* `WebSocket`: of two messages the second can be put while the first is queued,
  under way, or just done; two frames give control frames a place in between.
* `JobServer`: two cores and a job that needs both, with two that need one,
  give every case of `suitable_waiting_job`: nothing fits, a later one fits, the
  greedy one fits.

Deadlock checking is off where the bounded model really stops: when all the jobs
have been handed in and done, the stream has ended, the connection is closed, or
after shutdown.

## 4. Fairness

* `SHLock`: a notified thread is run in the end, and a hold is released, as the
  lock is used in `with` statements only. The latter is strong fairness for the
  outermost hold: a thread that takes and leaves inner holds for ever would
  starve the others by itself.
* `MetadataBackup`: calls return and waits end. `random.choice` picks each
  dirty book infinitely often (strong fairness of `Pick`), a library that could
  not be read is not so for ever (of `Fetch`), nor is a file refused for ever
  (of `Write`). Nothing is assumed of `Stop`, of the changes or of restarts.
* `JobsManager`: the loop and the threads of jobs are scheduled, callbacks
  return, time passes, and `communicate()` sees its abort event, as it polls it.
  That callbacks return is taken for granted of who hands in the job; the one of
  `srv/books.py` may not (`render_deadlock`), and then no job is served any more.
  No job need end by itself, and the timeout of `fork_job` is not relied upon:
  that the limit of the manager is enough is what `EveryJobFinishes` shows.
* `JobServer`: the two threads are scheduled (the GUI's `update` runs by a timer),
  and a job that has gone on for longer than `worker_max_time` is noticed (the option
  is off by default; without it a job that hangs is never told of). No process need
  end by itself.
* `Pool`: its thread is scheduled, unless it is stuck in `accept()`, a state without a
  next step; workers answer or crash, and a caller who waits polls (all callers in the
  GUI use a timeout in a loop).
* `ServerLoop`: the loop and the threads are scheduled and handlers return. `select()`
  returns if there is a byte on the control socket; that is strong fairness (`Woken`),
  since for a tick on buffered data select() is not asked. No peer need ever send or
  read anything. Nothing is taken to come of the timeout of `select()`, by default two
  minutes (`srv/opts.py:35`, `srv/loop.py:487`): a wake-up that is forgotten, as in
  the seeded fault `NoWakeup`, would only delay a stop by it.
* `WebSocket`: the two threads are scheduled, the peer reads what it is sent, and
  buffers are empty again and again, so that `select()` is asked (strong fairness of
  `Wrote`, `Writable` and `Woken`). The peer need not send anything.

`LinkTable`, `RenderQueue` and `ReadBuffer` state safety only.

## 5. What is proved

Each theorem is of the specification of its module, for every value of the
constants that the named assumption of the module admits: any number of threads,
books, jobs, connections and messages, any size of the buffers, and any
choice of faults. The bounds that keep TLC's instances small are constants too, so
a theorem holds for whatever value they have.

| module | theorem | property | of the run |
| --- | --- | --- | --- |
| `SHLockProofs` | `Exclusion`, `Books`, `WakeupsKept`, `WaitersKept`, `InTurn` | `MutualExclusion`, `BooksBalance`, `NoLostWakeup`, `WaitersArePrivate`, `NoBarging` | `lock` |
| | `Refinement` | `ImplementsReadersWriters` | `lock` |
| `MetadataBackupProofs` | `MarksPersistAlways`, `JobIsCurrentAlways` | `MarksPersist`, `JobIsCurrent` | `backup` |
| | `StaleIsMarkedAlone`, `StaleIsMarkedSingle` | `StaleIsMarked` | `backup` |
| `JobsManagerProofs` | `AccountsAlways`, `ManagerImplementsJobQueue` | `Accounts`, `ImplementsJobQueue` | `jobs` |
| | `OneJobPerBookAlways`, `QueuedIsOpenAlways` | `OneJobPerBook`, `QueuedIsOpen` | `render` |
| `PoolProofs` | `InOnePlaceAlways`, `TrackerCountsAlways`, `CommonDataReachesAlways` | `InOnePlace`, `TrackerCounts`, `CommonDataReaches` | `pool` |
| `LinkTableProofs` | `MemoryFollowsDatabase`, `NoStatementRefused`, `MapsAlwaysAgree` | `MemoryIsDatabase`, `StatementsAccepted`, `MapsAgree` | `link` |
| | `CallsDoAsAsked`, `ChangedBooksMarked`, `NoOtherValues` | `ValuesAsAsked`, `ChangesMarked`, `AllOrNothing` | `link` |
| | `SafeUntilAFailure`, `NoCallFails` | all six; no call fails | |
| `ServerLoopProofs` | `StreamIsKept`, `BufferImplementsByteQueue` | `StreamKept`, `ImplementsByteQueue` | `read_buffer` |
| | `WaitersHaveJobsAlways`, `ResultsAnnouncedAlways`, `AnswersGoHomeAlways` | `WaitersHaveJobs`, `ResultsAnnounced`, `AnswersGoHome` | `server_loop` |
| `WebSocketProofs` | `MessagesArriveInOrder` | `MessagesInOrder` | `web_socket` |
| `JobServerProofs` | `VerdictsAreHonest`, `ServerImplementsJobQueue` | `HonestVerdicts`, `ImplementsJobQueue` | `job_server` |

Type correctness is part of each first structural invariant, and a theorem of its
own (`TypeCorrect`) for the lock, the backup and the web socket.

*Assumptions.* Numbers are numbers, limits are positive where the code's are, and
`None` is not one of the values it stands beside: not a thread, book or number, not
a job, not an event or a pair of a job's fields, not a sequence of frames. Python's
`None` is none of these. Books and threads of the backup and of the lock are
finite sets, as the code counts them.

*How.* In each module (but `LinkTable`) `IInv` is the inductive invariant; it holds
initially, there is one lemma or step per action that it is preserved, and each
property follows from it. Lemmas on queues (what `Append` and `Tail` leave in them,
and that what was there once is there once still) come first in each module.

**SHLock.** `IInv == TypeOK /\ BooksBalance /\ NoLostWakeup /\ WaitersArePrivate`.
`MutualExclusion` is not inductive: it speaks of what threads have been told,
while the lock decides by its counters, which run ahead of that. `BooksBalance`
ties the two, counting a granted but not yet running thread as one hold. It
needs the sum of the shared holds, expressed as the cardinality of the set
`SharedHolds` with one element per hold, so that library facts on finite sets
give the effect of each step. Whether a hand-off grants the lock to someone who
really waits is `NoLostWakeup`, and that a notification reaches just this thread
is `WaitersArePrivate`. Exclusion and turn then follow, and so does refinement:
only `Resume`, the two immediate acquisitions and the releases change `held`.

**MetadataBackup.** `IInv == MarksPersist /\ JobsMade /\ JobIsCurrent`, where
`JobsMade` says that metadata come with a sequence given out before. It holds
however many threads overlap. `StaleIsMarked` does not: with two threads at work
`clear_dirtied` may drop a newer mark (section 6). It is proved for behaviours with
`[]OneAtATime`, which says what `start_metadata_backup()` takes for granted, that
the thread before has ended; any number of threads may follow one another.
`AloneInv` adds to it that only the thread itself clears the mark of the book it
works on (`MarkKept`), and that a mark about to be cleared is of no more use
(`ClearIsDue`). For a single thread there is nothing to assume.

**LinkTable.** The theorems are about `Ordinary` columns: no items that differ in
case only, as the code makes none (`fix_case_duplicates` loses books, section 6), and
`rename_items` with one item, as with two it may be given the id of one that is gone
(also there). Books, items, names, values and crashes are not bounded. The six
invariants hold with `Ascii \/ Failing = {}`: any statement may fail for a reason of
its own, a full disk say, if SQLite knows the case of all the names; without that they
hold until one fails (`SafeUntilAFailure`).

`Consistent` says that the database is `Sound`, that the maps in memory agree, and of
a call in progress that what is left of it leads where it should (`CallOk`): each of
its statements leaves a sound database, whose values are on the `Path` from the old to
the new, and after the last one memory is what reading the database gives and the
books have what was asked for. So the work is on the operators that compute a call,
which no state of the specification shows half way. `States(A)` are the calls under
construction whose statements are sound and leave each book `b` with one of the sets
of words `A[b]`; a lemma per operator says that it leads from such a state to such a
state, which words the books then have, and which books it marked. `Done` is the sum
of them for a call. `ChangesMarked` excepts the books that the code does not mark
(`Unmarked`): those being removed, and those that lose a custom series.

The loops of these operators are recursive functions with an operator for the round.
As the library's induction theorems cannot be used for that, the section on loops
proves what it needs of each loop from the well-foundedness of the naturals: of all
rounds after which a claim fails there would be a first one.

After a failed statement memory is ahead of the database, and `Consistent` does not
hold. `Steady` takes its place: memory is what reading *some* sound database would
give, it knows no item that the real one lacks, and this is so after each of the
statements of a call (`AheadStates`, with a lemma per operator again). A restart then
finds a database that is accepted, and so sound if SQLite knows the case of the names;
from there on all is `Consistent` again. `Recovers` combines the two.

**JobsManager and RenderQueue.** `IInv == TypeOK /\ Placed /\ Delivered /\ Awaited`:
where a job may be, that each event in the queue is there once and about a job it
can be about, and that until shutdown no job is without its event. `Accounts` alone
is not inductive: it says nothing after shutdown, when events are still
taken. The refinement of `JobQueue` needs that no more jobs run than there are
slots, also while several are started in one step. The step of a request handler
or of the callback adds `Locked`, who holds `cache_lock` and what for, and `Named`:
the jobs in hand for a book are exactly the one that `queued_jobs` names, or that
the handler with the lock is about to enter there. `OneJobPerBook` and
`QueuedIsOpen` are two sides of it.

**Pool.** `IInv == TypeOK /\ Thread /\ Placed /\ Tracks /\ Fresh /\
CommonDataReaches`. `Placed` is `InOnePlace` without its counting, with the order in
the queue of events: a job once, a worker's answer once, and no data after a job.
`Tracks` says which set of jobs the counter is the size of; a failed pool keeps at
most one of them too many, the one in its thread's hand. A thread stuck in `accept()`
may have a job in its hand for ever, which `Thread` and `Tracks` allow for. `Fresh` is
why common data reach every worker: while data are in the queue no job is open, so no
worker is busy when they are sent, and after that all workers have what the pool has
(`LeadsTo`). `TerminalStep` is shared by the five places that may fail.

**ReadBuffer.** `StreamKept` is inductive by itself. The rest is arithmetic on
positions that wrap: `Positions` relates them to the number of bytes, `Place` says
where a byte lies, and each read, line and receive takes or adds a segment. That a
line ends at its *first* line feed uses well-foundedness of the naturals.

**ServerLoop.** `IInv == TypeOK /\ ResultsAnnounced /\ InTick /\ Once /\ Homes`.
`InTick` is where the loop is in its tick, `Once` that a job is in the pool once.
`Homes` generalizes the two properties about connections: a job in the pool that was
not given up on is the one that the connection of its descriptor waits for (`Homed`);
so a result that is waited for cannot reach another, though results of requests given
up on lie before and after it in the pool. It needs that jobs and connections are
numbered as they come (`Numbered`), as a descriptor is used again and a connection
goes on after a timeout.

**WebSocket.** `IInv` says that what was written, what is left of the message under
way and what is queued are, in this order, the stream of frames (`InOrder`,
`Queued`), that each byte on the control socket is of a message of its own, and that
nothing is written after a close frame.

**JobServer.** `IInv == HonestVerdicts /\ Queueing /\ Working`: a job that waits is in
one queue and there once, and one that was started has a worker or has ended unless
its launch was the end of the server's thread. For the refinement the cores in use are
the size of the set with one element per core and job (`InUse` in `JobQueue`); no
job starts for which there is no room.

*What the proofs found in the models.* In `JobsManager` the time of a job could
pass the horizon of its type when the job ended: `Horizon` now depends on whether
it has. `Start` of `JobServer` and `MessagesInOrder` were computed by operators from
the community modules and are now stated by what they choose and say, so that they
can be reasoned about. `None` had been left unconstrained in several modules.

*Only model-checked.*

* Liveness, as fairness is out of the prover's reach: `NoStarvation`,
  `EventuallyBackedUp`, `EveryJobFinishes`, `ShutdownCompletes`, `CallerGetsOn`,
  `WaitersServed`, `StopEnds`, `EveryMessageSent`, `CloseCompletes`, `EveryJobTold`.
* `LinkTable` with several items in one `rename_items`, or with items that differ in
  case only: neither keeps the invariants (section 6), so that only TLC's
  counterexamples are left to show.

## 6. Where the code and what is said of it disagree

Each of these has a run whose counterexample shows it:

* `link_case_duplicates`: `fix_case_duplicates` loses the books of the items it
  drops, and the next removal of unused items deletes an item in use.
* `render_deadlock`: manager's lock and `cache_lock` are taken in both orders.

These were shown by changing an instance or a property; the specifications
allow for them as described:

* `gui2/library/models.py:317`: the old backup thread is not joined, so two may
  run on one Cache. With two workers in `MetadataBackup` that overlap,
  `StaleIsMarked` is violated: the one finds the mark that the other has just
  cleared gone, and `clear_dirtied` without a sequence (`db/cache.py:1127`) then
  deletes whatever mark there is, one made since then included.
* `srv/loop.py:271`, `552`: results are filed under the number of a socket. When
  a request timed out, its connection answers with an error and stays open: the
  error announces `Connection: close`, but `reset_state()`
  (`srv/http_response.py:606-609`) first calls `connection_ready()`
  (`srv/http_request.py:247`), which clears `close_after_response`, so no connection is
  closed after an answer. Its next request may then get the result of the old one, and
  so may that of a later connection with the same number. `AnswersGoHome` excepts the
  results in `given_up`; without the exception it is violated.
* `srv/web_socket.py:323-330` and `481-482`: the loop finds the queue of messages
  empty, the sender puts a message and sets `wait_for`, and the loop overwrites
  it with READ. The message lies there until the peer sends something, or the
  next message is sent. `EveryMessageSent` excepts just that state, for as long as
  nothing else happens (`[](Overslept /\ ...)`); without the exception it is violated.
* `srv/pool.py:44-45`, `srv/loop.py:574-592`: a byte for the loop that cannot be sent
  is logged only, and a control socket that fails is replaced without the bytes that
  were in it. The result waits for the next byte. `ResultsAnnounced` and
  `WaitersServed` except that (`lost`).
* `utils/ipc/pool.py:193`: `accept()` has no timeout. When a worker process ends before
  it connects, the pool's thread stays there, and callers who wait get neither their
  jobs nor a failure. `utils/ipc/pool.py:211-214`: without a listener the thread ends
  and sets no `terminal_failure`, with the same effect. `CallerGetsOn` excepts both;
  without either exception it is violated.
* `db/cache.py:1729-1733`, `db/write.py:232-245`: `remove_items()` of a series that the
  user defined sets the index of the affected books instead of marking them, and that
  skips the books without a series, which these now are. Their OPF files keep the
  series until another change. `ChangesMarked` excepts them (`Unmarked`).
* `utils/ipc/pool.py:239`: `task_done()` comes before the result is put. A wait for
  all tasks can be over before the last result is in the queue of results, and
  who then reads what there is (`utils/ipc/pool.py:418-421`,
  `gui2/save.py:303-315`, `gui2/add.py:240-261`) loses it. `TrackerCounts` counts
  a result in the thread's hand as told.

Noted while reading or modelling:

* `srv/jobs.py:198`: `max_job_time = 0`, "no limit" (`srv/opts.py:71`), makes
  every job overdue at once. `fork_job`'s own timeout of 300 s
  (`utils/ipc/simple_worker.py:172`) limits a job whatever the option says.
* `srv/jobs.py:184`: a job started after `shutdown()` set the flag is told
  nothing. `srv/jobs.py:38`: an exception other than `WorkerError` ends the job's
  thread; the job stays running and keeps its slot (`EveryJobFinishes` excepts
  it). `wait_for_running_job`, which nothing calls, would spin once the loop has
  ended (line 140).
* `srv/books.py:105`: `safe_remove(x)` gets a bare name, so nothing is removed.
  A failure may be told twice, by the job's status and by `failed_jobs`.
* `db/tables.py:327`: `rename_item` with the id of an item that was removed enters
  it in memory only; setting that name later is refused by the database. The
  dialog to manage tags can do so (`gui2/dialogs/tag_list_editor.py:265`, `331`,
  `gui2/tag_browser/ui.py:258`). `LinkTable` renames items that are known when the
  call begins; with `MaxRenames` = 2 renaming the first to several names may remove
  the second, if a crash has left it without books, and `MemoryIsDatabase` is
  violated.
* `db/write.py:331`: after a statement failed, memory is ahead of the database,
  and setting the same value again writes nothing. A row may be left that memory no
  longer knows; if its name is not ASCII, one that differs in case can then be added,
  and after the next start `fix_case_duplicates` breaks `MapsAgree` (with `Ascii` =
  FALSE and `Failing` not empty).
* `db/cache.py:1695`: swapping two names in one `rename_items` merges the items.
* `db/write.py:452`: a crash between DELETE and INSERT of a many-many column loses
  the links of the books; `AllOrNothing` allows for lost values there, and rules out
  values that are neither old nor new. In a many-one column nothing is lost.
* `db/cache.py:1074`: when moving files or the mark itself fails, the change is not
  marked (`MarkFails`); `StaleIsMarked` excepts it by `abandoned`. A failing DELETE in
  `clear_dirtied` ends the backup thread (`ClearFails`).
* `utils/ipc/pool.py:232`: when a worker cannot be started for a job, that job gets
  no result and the failure names no job. `utils/ipc/pool.py:294`:
  `shutdown_workers` iterates over `busy_workers` while the pool's thread may add
  to it.
* `srv/loop.py:465`, `srv/http_request.py:399`: the timeout of a connection knows
  nothing of web sockets. An idle one is sent the text of an HTTP answer.
* `utils/ipc/server.py:338`: the kill of a waiting job takes effect when a slot is
  free for it. A job that had ended by itself when it was killed counts as a
  success and is also marked killed. `utils/ipc/server.py:299`: when a worker does
  not start, the server's thread ends, and no job is served any more
  (`EveryJobTold` excepts it); the same when the process ends before it connects, as
  `accept()` at line 228 has no timeout. `suitable_waiting_job` takes the newest job
  first.
* `gui2/threaded_jobs.py:54-55` says of the callback "Note that it is not called if
  the user kills the job"; `start_work` calls it in any case once the function
  returns. `kill_job` looks for a job among `running_jobs`, which holds workers.
* `db/delete_service.py:71`: when a move fails half way the staging folder is
  removed with the books that were moved into it. Line 40: what is left of a move
  to the recycle bin after 20 seconds is removed at exit (line 49).

## 7. What is not modelled

Contents of files, formats, wording and layout; SQL beyond the statements of a
column; wall-clock times, other than their order against the limits. Writes by
other processes to the same library are outside all models. Most of the source
is of this kind: drivers, conversion, rendering and editing of documents, widgets,
tables of characters and vendored packages.

Of the modelled components:

* `SHLock`: the wrappers `RWLockWrapper` and `SafeReadLock`.
* `LinkTable`: one-one columns, identifiers, author sort and series indices (but for
  which books `remove_items()` marks), `fix_link_table`. In a custom column a trigger
  deletes the links of an item that is deleted, where `Accepted` has the statement
  refused; no call relies on it, as `StatementsAccepted` shows. `MaxRenames` is 1.
* `JobsManager`: `abort_job`, `wait_for_running_job`, log files.
* `RenderQueue`: `clean_final` and `book_file`.
* `Pool`: how processes are terminated, and `worker_main`. `Terminal` is one step,
  while `terminal_error()` puts one result after the other, and `ShutDown` clears the
  lists of workers at once, while `shutdown_workers()` may wait for them before.
* `ServerLoop`: SSL, the answer 100 Continue, the plugins' own pool, the creation
  of the sockets. The composition with `ReadBuffer` would multiply the states and
  add nothing: the loop sees of a buffer whether it has data.
* `WebSocket`: the handshake, authentication, limits on the size of messages, and
  the timeouts, which belong to the loop.
* `JobServer`: jobs that need several cores but not all (nothing asks for them),
  device jobs and threaded jobs, which share the list of jobs only, and progress
  reports.

Left out as a whole, with what would make them hard:

* *Delete service*: its states are what folders contain after a move failed half
  way, which depends on the file system; what the code does then is in section 6.
* *Threaded jobs*: each method under one lock; section 6 says where its kills
  differ from what is said of them.
* *Cache api*: several hundred methods under one lock, that read or write a
  table; those with an order of their own are in `LinkTable` and `MetadataBackup`.
* *Backend, other columns, search, views, restore, legacy interface, endpoints,
  rendering, GUI, device drivers, conversion, editor, news*: see `PROJECT.json`.

## 8. The plan

Done, the most important behaviour first: the lock, the backup, the tables, the
jobs manager and the preparation of books, the pool, the read buffer, the server's
loop, its web sockets, the job server, and the abstract specifications
`ReadersWriters`, `JobQueue` and `ByteQueue` with what implements them; and the
proofs of all their safety properties. Next:

1. **DeleteService** with a small abstract file system: a book's files are in the
   library, the staging folder or the recycle bin, and nothing else destroys
   them.
2. **CacheApi**: the wrappers of the lock, invalidation of cached metadata and of
   the search caches; composition of `LinkTable`'s marks with `MetadataBackup`.
