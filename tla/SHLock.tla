-------------------------------- MODULE SHLock --------------------------------
(***************************************************************************)
(* The shareable lock of calibre/db/locking.py (class SHLock), which       *)
(* guards every access to the in-memory library of calibre/db/cache.py.    *)
(*                                                                         *)
(* Every method body runs with the internal mutex _lock held, and a thread *)
(* gives that mutex up only inside waiter.wait(): so each method is one    *)
(* step, or two when it has to wait (joining a queue, then resuming).      *)
(*                                                                         *)
(* The hand-off is done by the thread that releases: it records the new    *)
(* owner and only then notifies, so ownership runs ahead of what the woken *)
(* thread knows.  held is that knowledge: the calls to acquire() that have *)
(* returned, less the calls to release().                                  *)
(***************************************************************************)
EXTENDS Naturals, Sequences, FiniteSets

CONSTANTS
    Threads,    \* the threads that use the lock
    NoThread,   \* the value None of _exclusive_owner
    MaxHold     \* bound: how deep one thread nests its holds

ASSUME LockAssumption ==
    /\ IsFiniteSet(Threads)
    /\ NoThread \notin Threads
    /\ MaxHold \in Nat \ {0}

VARIABLES
    is_shared,          \* total number of shared holds
    shared_owners,      \* shared holds per thread; 0: the thread is no key
    is_exclusive,       \* number of exclusive holds
    exclusive_owner,
    shared_queue,       \* only appended to and drained whole: a set
    exclusive_queue,    \* first in, first out
    free_waiters,       \* condition objects kept for reuse
    n_waiters,          \* condition objects made so far; they are 1..n_waiters
    pc,                 \* "run", or the acquire a thread is suspended in
    waiter,             \* the condition a suspended thread uses; 0: none
    asleep,             \* the suspended threads nobody has notified
    held                \* the holds each thread knows of

lockState == <<is_shared, shared_owners, is_exclusive, exclusive_owner>>
queues    == <<shared_queue, exclusive_queue>>
waiting   == <<free_waiters, n_waiters, pc, waiter, asleep>>
vars      == <<lockState, queues, waiting, held>>

Unheld    == [mode |-> "none", n |-> 0]
Modes     == {"none", "shared", "exclusive"}
InQueue(t, q) == \E i \in 1..Len(q) : q[i] = t

Init ==
    /\ is_shared = 0
    /\ shared_owners = [t \in Threads |-> 0]
    /\ is_exclusive = 0
    /\ exclusive_owner = NoThread
    /\ shared_queue = {}
    /\ exclusive_queue = <<>>
    /\ free_waiters = {}
    /\ n_waiters = 0
    /\ pc = [t \in Threads |-> "run"]
    /\ waiter = [t \in Threads |-> 0]
    /\ asleep = {}
    /\ held = [t \in Threads |-> Unheld]

-------------------------------------------------------------------------------
(* Waiting and waking *)

\* Seeded fault: the condition stays in the pool while a thread waits on it.
TakeWaiterShared(t, mode) ==
    /\ \/ /\ free_waiters # {}
          /\ \E w \in free_waiters : waiter' = [waiter EXCEPT ![t] = w]
          /\ UNCHANGED <<free_waiters, n_waiters>>
       \/ /\ free_waiters = {}
          /\ n_waiters' = n_waiters + 1
          /\ waiter' = [waiter EXCEPT ![t] = n_waiters + 1]
          /\ UNCHANGED free_waiters
    /\ pc' = [pc EXCEPT ![t] = mode]
    /\ asleep' = asleep \cup {t}

\* _take_waiter() followed by waiter.wait(): reuse a condition, or make one.
WaitIn(t, mode) ==
    /\ \/ \E w \in free_waiters :
             /\ waiter' = [waiter EXCEPT ![t] = w]
             /\ free_waiters' = free_waiters \ {w}
             /\ UNCHANGED n_waiters
       \/ /\ free_waiters = {}
          /\ n_waiters' = n_waiters + 1
          /\ waiter' = [waiter EXCEPT ![t] = n_waiters + 1]
          /\ UNCHANGED free_waiters
    /\ pc' = [pc EXCEPT ![t] = mode]
    /\ asleep' = asleep \cup {t}

\* waiter.notify() for the conditions in ws: each wakes one of its sleepers.
Notify(ws) ==
    \E woken \in SUBSET {u \in asleep : waiter[u] \in ws} :
        /\ \A w \in {waiter[u] : u \in asleep} \cap ws :
               Cardinality({u \in woken : waiter[u] = w}) = 1
        /\ asleep' = asleep \ woken

-------------------------------------------------------------------------------
(* acquire(shared=True) *)

\* Seeded fault: readers queue only while the lock is held exclusively.
AcquireSharedPastWriters(t) ==
    /\ pc[t] = "run"
    /\ held[t].n < MaxHold
    /\ \/ is_shared > 0 /\ shared_owners[t] > 0
       \/ is_exclusive = 0
    /\ is_shared' = is_shared + 1
    /\ shared_owners' = [shared_owners EXCEPT ![t] = @ + 1]
    /\ held' = [held EXCEPT ![t] = [mode |-> "shared", n |-> @.n + 1]]
    /\ UNCHANGED <<is_exclusive, exclusive_owner, queues, waiting>>

\* A shared hold is granted at once to a thread that has one, or when no
\* exclusive hold exists or is queued for.
AcquireShared(t) ==
    /\ pc[t] = "run"
    /\ held[t].n < MaxHold
    /\ \/ is_shared > 0 /\ shared_owners[t] > 0
       \/ is_exclusive = 0 /\ exclusive_queue = <<>>
    /\ is_shared' = is_shared + 1
    /\ shared_owners' = [shared_owners EXCEPT ![t] = @ + 1]
    /\ held' = [held EXCEPT ![t] = [mode |-> "shared", n |-> @.n + 1]]
    /\ UNCHANGED <<is_exclusive, exclusive_owner, queues, waiting>>

\* The same call when the lock is spoken for by a writer.
SharedIsBlocked(t) ==
    /\ pc[t] = "run"
    /\ shared_owners[t] = 0
    /\ is_exclusive > 0 \/ exclusive_queue # <<>>

QueueShared(t) ==
    /\ SharedIsBlocked(t)
    /\ exclusive_owner # t
    /\ shared_queue' = shared_queue \cup {t}
    /\ WaitIn(t, "shared")
    /\ UNCHANGED <<lockState, exclusive_queue, held>>

\* It fails instead with DowngradeLockError for the exclusive owner, and
\* returns False when blocking is False.
RefuseShared(t) == SharedIsBlocked(t) /\ UNCHANGED vars

-------------------------------------------------------------------------------
(* acquire(shared=False) *)

\* Seeded fault: only the holders of the exclusive lock are looked at.
AcquireExclusiveOverReaders(t) ==
    /\ pc[t] = "run"
    /\ held[t].n < MaxHold
    /\ exclusive_owner = t \/ is_exclusive = 0
    /\ exclusive_owner' = t
    /\ is_exclusive' = is_exclusive + 1
    /\ held' = [held EXCEPT ![t] = [mode |-> "exclusive", n |-> @.n + 1]]
    /\ UNCHANGED <<is_shared, shared_owners, queues, waiting>>

AcquireExclusive(t) ==
    /\ pc[t] = "run"
    /\ held[t].n < MaxHold
    /\ \/ exclusive_owner = t
       \/ is_shared = 0 /\ is_exclusive = 0
    /\ exclusive_owner' = t
    /\ is_exclusive' = is_exclusive + 1
    /\ held' = [held EXCEPT ![t] = [mode |-> "exclusive", n |-> @.n + 1]]
    /\ UNCHANGED <<is_shared, shared_owners, queues, waiting>>

ExclusiveIsBlocked(t) ==
    /\ pc[t] = "run"
    /\ exclusive_owner # t
    /\ is_shared > 0 \/ is_exclusive > 0

QueueExclusive(t) ==
    /\ ExclusiveIsBlocked(t)
    /\ shared_owners[t] = 0
    /\ exclusive_queue' = Append(exclusive_queue, t)
    /\ WaitIn(t, "exclusive")
    /\ UNCHANGED <<lockState, shared_queue, held>>

\* LockingError for a shared owner (no upgrade), False when not blocking.
RefuseExclusive(t) == ExclusiveIsBlocked(t) /\ UNCHANGED vars

\* The call that waited returns: the condition goes back to the pool.
Resume(t) ==
    /\ pc[t] # "run"
    /\ t \notin asleep
    /\ free_waiters' = free_waiters \cup {waiter[t]}
    /\ waiter' = [waiter EXCEPT ![t] = 0]
    /\ held' = [held EXCEPT ![t] = [mode |-> pc[t], n |-> 1]]
    /\ pc' = [pc EXCEPT ![t] = "run"]
    /\ UNCHANGED <<lockState, queues, n_waiters, asleep>>

-------------------------------------------------------------------------------
(* release() *)

\* Seeded fault: writers are woken in the reverse of the order they came in.
HandToLastWriter ==
    LET last == Len(exclusive_queue) IN
    /\ exclusive_owner' = exclusive_queue[last]
    /\ is_exclusive' = 1
    /\ exclusive_queue' = SubSeq(exclusive_queue, 1, last - 1)
    /\ Notify({waiter[exclusive_queue[last]]})
    /\ UNCHANGED shared_queue

\* The writer that has waited longest becomes the owner.
HandToWriter ==
    /\ exclusive_owner' = Head(exclusive_queue)
    /\ is_exclusive' = 1
    /\ exclusive_queue' = Tail(exclusive_queue)
    /\ Notify({waiter[Head(exclusive_queue)]})
    /\ UNCHANGED shared_queue

\* Seeded fault: the readers are granted the lock but one is not notified.
HandToReadersNotifyOne ==
    /\ is_shared' = is_shared + Cardinality(shared_queue)
    /\ shared_owners' = [u \in Threads |->
                            IF u \in shared_queue THEN 1 ELSE shared_owners[u]]
    /\ shared_queue' = {}
    /\ \E u \in shared_queue : Notify({waiter[u]})
    /\ exclusive_owner' = NoThread
    /\ is_exclusive' = 0
    /\ UNCHANGED exclusive_queue

\* All waiting readers become owners together.
HandToReaders ==
    /\ is_shared' = is_shared + Cardinality(shared_queue)
    /\ shared_owners' = [u \in Threads |->
                            IF u \in shared_queue THEN 1 ELSE shared_owners[u]]
    /\ shared_queue' = {}
    /\ Notify({waiter[u] : u \in shared_queue})
    /\ exclusive_owner' = NoThread
    /\ is_exclusive' = 0
    /\ UNCHANGED exclusive_queue

Forget(t) ==
    held' = [held EXCEPT ![t] = IF @.n = 1 THEN Unheld ELSE [mode |-> @.mode, n |-> @.n - 1]]

\* Readers first, then the longest waiting writer, then nobody.
ReleaseExclusive(t) ==
    /\ pc[t] = "run"
    /\ is_exclusive > 0
    /\ exclusive_owner = t
    /\ \/ /\ is_exclusive > 1
          /\ is_exclusive' = is_exclusive - 1
          /\ UNCHANGED <<is_shared, shared_owners, exclusive_owner, queues, asleep>>
       \/ /\ is_exclusive = 1
          /\ shared_queue # {}
          /\ HandToReaders
       \/ /\ is_exclusive = 1
          /\ shared_queue = {}
          /\ exclusive_queue # <<>>
          /\ HandToWriter
          /\ UNCHANGED <<is_shared, shared_owners>>
       \/ /\ is_exclusive = 1
          /\ shared_queue = {}
          /\ exclusive_queue = <<>>
          /\ is_exclusive' = 0
          /\ exclusive_owner' = NoThread
          /\ UNCHANGED <<is_shared, shared_owners, queues, asleep>>
    /\ Forget(t)
    /\ UNCHANGED <<free_waiters, n_waiters, pc, waiter>>

\* Seeded fault: the first reader to leave hands the lock to a writer.
ReleaseSharedEarly(t) ==
    /\ pc[t] = "run"
    /\ is_exclusive = 0
    /\ is_shared > 0
    /\ shared_owners[t] > 0
    /\ shared_owners' = [shared_owners EXCEPT ![t] = @ - 1]
    /\ is_shared' = is_shared - 1
    /\ \/ /\ shared_owners[t] = 1 /\ exclusive_queue # <<>>
          /\ HandToWriter
       \/ /\ shared_owners[t] > 1 \/ exclusive_queue = <<>>
          /\ UNCHANGED <<is_exclusive, exclusive_owner, queues, asleep>>
    /\ Forget(t)
    /\ UNCHANGED <<free_waiters, n_waiters, pc, waiter>>

\* The last reader to leave hands the lock to the longest waiting writer.
ReleaseShared(t) ==
    /\ pc[t] = "run"
    /\ is_exclusive = 0
    /\ is_shared > 0
    /\ shared_owners[t] > 0
    /\ shared_owners' = [shared_owners EXCEPT ![t] = @ - 1]
    /\ is_shared' = is_shared - 1
    /\ \/ /\ is_shared = 1 /\ exclusive_queue # <<>>
          /\ HandToWriter
       \/ /\ is_shared > 1 \/ exclusive_queue = <<>>
          /\ UNCHANGED <<is_exclusive, exclusive_owner, queues, asleep>>
    /\ Forget(t)
    /\ UNCHANGED <<free_waiters, n_waiters, pc, waiter>>

\* release() by a thread that owns nothing raises LockingError.
RefuseRelease(t) ==
    /\ pc[t] = "run"
    /\ exclusive_owner # t
    /\ shared_owners[t] = 0
    /\ UNCHANGED vars

-------------------------------------------------------------------------------
ThreadStep(t) ==
    \/ AcquireShared(t) \/ QueueShared(t) \/ RefuseShared(t)
    \/ AcquireExclusive(t) \/ QueueExclusive(t) \/ RefuseExclusive(t)
    \/ Resume(t)
    \/ ReleaseExclusive(t) \/ ReleaseShared(t) \/ RefuseRelease(t)

Next == \E t \in Threads : ThreadStep(t)

Spec == Init /\ [][Next]_vars

\* The lock is used through with statements whose bodies end: a thread leaves
\* the holds it has, and one that keeps returning to its outermost hold
\* eventually gives that one up too.  A notified thread is eventually run by
\* the operating system.
Leave(t) == ReleaseExclusive(t) \/ ReleaseShared(t)
LeaveOutermost(t) == held[t].n = 1 /\ Leave(t)
Fairness ==
    \A t \in Threads :
        WF_vars(Resume(t)) /\ WF_vars(Leave(t)) /\ SF_vars(LeaveOutermost(t))
FairSpec == Spec /\ Fairness

-------------------------------------------------------------------------------
(* Properties *)

\* Every variable has its type.
TypeOK ==
    /\ is_shared \in Nat /\ is_exclusive \in Nat
    /\ shared_owners \in [Threads -> Nat]
    /\ exclusive_owner \in Threads \cup {NoThread}
    /\ shared_queue \in SUBSET Threads
    /\ exclusive_queue \in Seq(Threads)
    /\ n_waiters \in Nat
    /\ free_waiters \in SUBSET (1..n_waiters)
    /\ pc \in [Threads -> {"run", "shared", "exclusive"}]
    /\ waiter \in [Threads -> 0..n_waiters]
    /\ asleep \in SUBSET Threads
    /\ held \in [Threads -> [mode : Modes, n : Nat]]

\* locking.py:35-40: while a thread has been told that it holds the lock
\* exclusively, no other thread believes it has any hold.
MutualExclusion ==
    \A t, u \in Threads :
        held[t].mode = "exclusive" /\ held[u].mode # "none" => t = u

\* The shared holds of all threads, one element per hold.
SharedHolds == UNION {{t} \X (1..shared_owners[t]) : t \in Threads}

Granted(t, mode) == pc[t] = mode /\ t \notin asleep

\* The lock's own books (the total, the per-thread counts, the owner) agree
\* with each other and with what the threads have been told: a thread that a
\* hand-off made an owner, and that has not woken up yet, counts as one hold.
\* A thread that waits holds nothing.
BooksBalance ==
    /\ IsFiniteSet(SharedHolds) /\ is_shared = Cardinality(SharedHolds)
    /\ \A t \in Threads :
        /\ held[t].mode = "none" <=> held[t].n = 0
        /\ pc[t] # "run" => held[t].n = 0
        /\ shared_owners[t] = IF held[t].mode = "shared" THEN held[t].n
                              ELSE IF Granted(t, "shared") THEN 1 ELSE 0
        /\ exclusive_owner = t <=> held[t].mode = "exclusive" \/ Granted(t, "exclusive")
        /\ exclusive_owner = t =>
              is_exclusive = IF held[t].mode = "exclusive" THEN held[t].n ELSE 1
    /\ exclusive_owner = NoThread <=> is_exclusive = 0
    /\ is_exclusive = 0 \/ is_shared = 0

\* No wake-up is lost: a suspended thread is in the queue it must be in until
\* it is notified, and a queue is never left behind by an unheld lock, so a
\* release that will serve it is still to come (the assertions of release()).
\* Nobody is queued for the lock twice.
NoLostWakeup ==
    /\ \A i, j \in 1..Len(exclusive_queue) :
        exclusive_queue[i] = exclusive_queue[j] => i = j
    /\ \A t \in Threads :
        /\ t \in shared_queue <=> pc[t] = "shared" /\ t \in asleep
        /\ InQueue(t, exclusive_queue) <=> pc[t] = "exclusive" /\ t \in asleep
        /\ t \in asleep => pc[t] # "run"
    /\ exclusive_queue # <<>> => is_shared + is_exclusive > 0
    /\ shared_queue # {} => is_exclusive > 0 \/ exclusive_queue # <<>>

\* A recycled condition never serves two threads, so a notify() always wakes
\* the thread it was meant for, and no more conditions are made than there
\* are threads.
WaitersArePrivate ==
    /\ \A t \in Threads : waiter[t] # 0 <=> pc[t] # "run"
    /\ \A t, u \in Threads : waiter[t] = waiter[u] /\ waiter[t] # 0 => t = u
    /\ \A t \in Threads : waiter[t] \notin free_waiters
    /\ \A w \in 1..n_waiters :
        w \in free_waiters \/ \E t \in Threads : waiter[t] = w
    /\ n_waiters <= Cardinality(Threads)

\* Once a writer is queued nobody passes it: a new reader gets in only as
\* part of the batch that was already waiting, a writer only from the head.
NoBarging ==
    [][exclusive_queue # <<>> =>
         /\ \A t \in Threads :
              shared_owners[t] = 0 /\ shared_owners'[t] > 0 => t \in shared_queue
         /\ exclusive_owner' \notin {exclusive_owner, NoThread}
              => exclusive_owner' = Head(exclusive_queue)]_vars

\* locking.py:53: "neither writer nor reader starvation should be possible".
NoStarvation ==
    \A t \in Threads : pc[t] # "run" ~> pc[t] = "run"

\* The lock does for its callers what ReadersWriters describes.
Abstract == INSTANCE ReadersWriters WITH Threads <- Threads
ImplementsReadersWriters == Abstract!Spec
===============================================================================
