------------------------------ MODULE ServerLoop ------------------------------
(***************************************************************************)
(* The content server's main loop and its request threads:                 *)
(* calibre/srv/loop.py, srv/pool.py and the states of a connection in      *)
(* srv/http_request.py and srv/http_response.py.                           *)
(*                                                                         *)
(* One thread, the loop, owns all connections.  It looks for connections   *)
(* that timed out, waits in select(), then handles the events it got one   *)
(* after the other: new connections first, then finished requests, then    *)
(* sockets to read from, then sockets to write to.  A request that was     *)
(* read is put on the queue of the thread pool under the descriptor of its *)
(* socket; a thread computes the answer, puts it on the result queue and   *)
(* wakes the loop with a byte on the control socket.  An event is one      *)
(* step, so is each of the thread's three.                                 *)
(*                                                                         *)
(* A connection reads a request, waits for its answer, or writes one, and  *)
(* after any answer, an error's too, it reads the next request: what is    *)
(* read and written is left out.  SSL, web sockets and the interim answer  *)
(* 100 Continue are too.                                                   *)
(***************************************************************************)
EXTENDS Naturals, Sequences, FiniteSets, SequencesExt, Functions

CONSTANTS
    Fds,            \* the descriptors that sockets get
    Threads,        \* the threads of the pool
    QueueSize,      \* how long the queues of the pool may grow: 1000
    None,
    MaxConns, MaxRequests,  \* bounds: of connections, and of the requests of the first;
                    \* each later connection sends one less
    Faults          \* "timeout" when peers, or answers, may be late, "sockets"
                    \* when the loop's own sockets, and those it waits on, may fail

Jobs == [fd : Fds, conn : 1..MaxConns, request : 1..MaxRequests]

ASSUME LoopAssumption ==
    /\ Fds # {} /\ Threads # {} /\ QueueSize \in Nat \ {0}
    /\ MaxConns \in Nat /\ MaxRequests \in Nat /\ Faults \subseteq {"timeout", "sockets"}
    /\ None \notin Jobs

VARIABLES
    ready,
    at,                 \* what the loop does: "top", "select", "events", "ended"
    accepting,          \* the events it has yet to handle: a new connection,
    controlled,         \* a byte on the control socket,
    dispatching,        \* the results there are,
    readable, writable, \* sockets
    ignore,             \* the sockets it handles no more events of
    connection_map,     \* of each open descriptor the connection
    accepted,           \* how many connections there were
    control,            \* the bytes on the control socket
    request_queue, result_queue,
    thread,             \* what each thread does
    lost,               \* a JOB_DONE was lost since result_queue was last empty
    given_up            \* the jobs that were not waited for until their end

events == <<accepting, controlled, dispatching, readable, writable, ignore>>
pool   == <<request_queue, result_queue, thread>>
vars   == <<ready, at, events, connection_map, accepted, control, pool, lost, given_up>>

Idle == [does |-> "get", job |-> None]

Init ==
    /\ ready = TRUE /\ at = "top"
    /\ accepting = FALSE /\ controlled = FALSE /\ dispatching = FALSE
    /\ readable = {} /\ writable = {} /\ ignore = {}
    /\ connection_map = [s \in {} |-> None]
    /\ accepted = 0 /\ control = <<>>
    /\ request_queue = <<>> /\ result_queue = <<>>
    /\ thread = [w \in Threads |-> Idle]
    /\ lost = FALSE /\ given_up = {}

Open  == DOMAIN connection_map
In(state) == {s \in Open : connection_map[s].state = state}

-------------------------------------------------------------------------------
(* The states of a connection *)

\* What the loop's map becomes when the connection of s does.
Closed(s)        == Restrict(connection_map, Open \ {s})
Becomes(s, conn) == [connection_map EXCEPT ![s] = conn]

\* response_ready(): it starts to write an answer.
Writing(s, answer) == [connection_map[s] EXCEPT !.state = "write", !.answer = answer]

\* simple_response() with an error
Error(s) == Writing(s, None)

\* The job of the request that the connection of s read last.
OwnJob(s) ==
    [fd |-> s, conn |-> connection_map[s].id, request |-> connection_map[s].requests]

\* The jobs that the connections S wait for.
Awaited(S) == {OwnJob(s) : s \in S \cap In("wait")}

\* reset_state(): it reads the next request.  connection_ready() forgets that the
\* connection was to be closed before reset_state() looks whether it was.
Reading(s) == [connection_map[s] EXCEPT !.state = "read", !.answer = None]

\* tick(): an exception is answered with an error, if no answer was started, or
\* else closes the connection; more events of the socket are ignored.
Raises(s) ==
    /\ \/ connection_map' = Closed(s)
       \/ s \notin In("write") /\ connection_map' = Becomes(s, Error(s))
    /\ ignore' = ignore \cup {s}
    /\ given_up' = given_up \cup Awaited({s})
    /\ UNCHANGED request_queue

\* The map becomes this without an exception.
Goes(map) == connection_map' = map /\ UNCHANGED <<ignore, request_queue, given_up>>

\* Seeded fault: a job that finds no space is dropped.
QueueJobUnchecked(s) ==
    /\ request_queue' = IF Len(request_queue) = QueueSize THEN request_queue
                        ELSE Append(request_queue, [OwnJob(s) EXCEPT !.request = @ + 1])
    /\ connection_map' = Becomes(s, [connection_map[s] EXCEPT !.requests = @ + 1,
                                                             !.state = "wait"])
    /\ UNCHANGED <<ignore, given_up>>

\* queue_job(): too many jobs are answered with an error.
QueueJob(s) ==
    LET conn == [connection_map[s] EXCEPT !.requests = @ + 1] IN
    IF Len(request_queue) < QueueSize
    THEN /\ request_queue' = Append(request_queue, [OwnJob(s) EXCEPT !.request = @ + 1])
         /\ connection_map' = Becomes(s, [conn EXCEPT !.state = "wait"])
         /\ UNCHANGED <<ignore, given_up>>
    ELSE Goes(Becomes(s, [Error(s) EXCEPT !.requests = @ + 1]))

\* An event that is no result.  The handler of a connection that waits cannot
\* make sense of it.
Handle(s) ==
    \/ /\ s \in In("read")
       /\ \/ /\ connection_map[s].id + connection_map[s].requests <= MaxRequests
             /\ QueueJob(s)
          \/ Goes(Becomes(s, Writing(s, None)))
          \/ Goes(connection_map)           \* more is to come
          \/ Goes(Closed(s))                \* the peer is gone
          \/ Raises(s)
    \/ /\ s \in In("write")
       /\ \/ Goes(connection_map)
          \/ Goes(Becomes(s, Reading(s)))
          \/ Goes(Closed(s))
          \/ Raises(s)
    \/ s \in In("wait") /\ Raises(s)

\* job_done(): a connection that waits answers with the result it gets, whichever
\* it is, or with an error; another does whatever it does next.
HandleResult(s, job) ==
    \/ /\ s \in In("wait")
       /\ given_up' = given_up \cup (Awaited({s}) \ {job})
       /\ \/ connection_map' = Becomes(s, Writing(s, job)) /\ UNCHANGED ignore
          \/ connection_map' \in {Becomes(s, Error(s)), Closed(s)}
             /\ ignore' = ignore \cup {s}
       /\ UNCHANGED request_queue
    \/ s \notin In("wait") /\ Handle(s)

-------------------------------------------------------------------------------
(* The loop *)

\* handle_timeout(): a connection that writes an answer is closed, any other
\* answers with an error.
Top(late) ==
    /\ at = "top" /\ ready
    /\ at' = "select"
    /\ connection_map' = [s \in Open \ (late \cap In("write")) |->
                            IF s \in late THEN Error(s) ELSE connection_map[s]]
    /\ given_up' = given_up \cup Awaited(late)
    /\ UNCHANGED <<ready, events, accepted, control, pool, lost>>

\* The events that the loop goes on with, unless it was stopped meanwhile.
Select(new, byte, R, W) ==
    /\ at = "select"
    /\ IF ready THEN /\ at' = "events"
                     /\ accepting' = new /\ controlled' = byte
                     /\ readable' = R /\ writable' = W
       ELSE at' = "top" /\ UNCHANGED <<accepting, controlled, readable, writable>>
    /\ UNCHANGED <<ready, dispatching, ignore, connection_map, accepted, control, pool, lost, given_up>>

\* select() returns, with no event when it timed out.
SelectReturns ==
    \E new \in BOOLEAN, R \in SUBSET In("read"), W \in SUBSET In("write") :
        Select(new, control # <<>>, R, W)

\* select() raises: sockets that are no good are closed, if it was for them, or the
\* server ends if its own is none.
SelectFails ==
    /\ "sockets" \in Faults /\ at = "select"
    /\ at' = "top"
    /\ \/ \E bad \in SUBSET Open :
            /\ connection_map' = Restrict(connection_map, Open \ bad)
            /\ given_up' = given_up \cup Awaited(bad)
            /\ UNCHANGED ready
       \/ ready' = FALSE /\ UNCHANGED <<connection_map, given_up>>
    /\ UNCHANGED <<events, accepted, control, pool, lost>>

\* Data of the connections R is in their buffers: no other event is looked for.
SelectBuffered == \E R \in (SUBSET In("read")) \ {{}} : Select(FALSE, FALSE, R, {})

\* accept(): the new socket has any descriptor that is free.
Accept ==
    /\ at = "events" /\ accepting
    /\ accepting' = FALSE
    /\ \/ UNCHANGED <<connection_map, accepted>>
       \/ \E s \in Fds \ Open :
            /\ accepted < MaxConns
            /\ accepted' = accepted + 1
            /\ connection_map' = [t \in Open \cup {s} |->
                 IF t = s THEN [id |-> accepted + 1, state |-> "read", requests |-> 0,
                                answer |-> None]
                 ELSE connection_map[t]]
    /\ UNCHANGED <<ready, at, controlled, dispatching, readable, writable, ignore, control,
                   pool, lost, given_up>>

\* get_actions(): one byte is taken from the control socket.
Control ==
    /\ at = "events" /\ ~ accepting /\ controlled
    /\ controlled' = FALSE
    /\ control' = Tail(control)
    /\ dispatching' = (Head(control) = "JOB_DONE")
    /\ UNCHANGED <<ready, at, accepting, readable, writable, ignore, connection_map,
                   accepted, pool, lost, given_up>>

\* The control socket raises or is at its end: another takes its place, without
\* the bytes that were in it; or the tick ends when the server is to stop.
ControlFails ==
    /\ "sockets" \in Faults /\ at = "events" /\ ~ accepting /\ controlled
    /\ controlled' = FALSE
    /\ IF ready
       THEN /\ control' = <<>>
            /\ lost' = (lost \/ "JOB_DONE" \in ToSet(control))
            /\ UNCHANGED <<at, readable, writable>>
       ELSE /\ at' = "top" /\ readable' = {} /\ writable' = {}
            /\ UNCHANGED <<control, lost>>
    /\ UNCHANGED <<ready, accepting, dispatching, ignore, connection_map, accepted, pool,
                   given_up>>

\* Seeded fault: the result stays in the queue.
AllResults == result_queue

\* get_nowait()
LaterResults == Tail(result_queue)

\* dispatch_job_results(): the result goes to the connection that has the
\* descriptor now, if there is one.
Dispatch ==
    /\ at = "events" /\ dispatching
    /\ IF result_queue = <<>>
       THEN /\ dispatching' = FALSE /\ lost' = FALSE
            /\ UNCHANGED <<connection_map, ignore, request_queue, result_queue, given_up>>
       ELSE LET job == Head(result_queue) IN
            /\ result_queue' = LaterResults
            /\ IF job.fd \in Open \ ignore THEN HandleResult(job.fd, job)
               ELSE Goes(connection_map)
            /\ UNCHANGED <<dispatching, lost>>
    /\ UNCHANGED <<ready, at, accepting, controlled, readable, writable, accepted, control,
                   thread>>

Sockets == at = "events" /\ ~ accepting /\ ~ controlled /\ ~ dispatching

\* A socket that was closed since select() ends the tick with an exception.
Read(s) ==
    /\ Sockets /\ s \in readable
    /\ readable' = IF s \in Open THEN readable \ {s} ELSE {}
    /\ writable' = IF s \in Open THEN writable ELSE {}
    /\ IF s \in Open \ ignore THEN Handle(s) ELSE Goes(connection_map)
    /\ UNCHANGED <<ready, at, accepting, controlled, dispatching, accepted, control,
                   result_queue, thread, lost>>

Write(s) ==
    /\ Sockets /\ readable = {} /\ s \in writable
    /\ writable' = writable \ {s}
    /\ IF s \in Open \ ignore THEN Handle(s) ELSE Goes(connection_map)
    /\ UNCHANGED <<ready, at, accepting, controlled, dispatching, readable, accepted, control,
                   result_queue, thread, lost>>

TickEnds ==
    /\ Sockets /\ readable = {} /\ writable = {}
    /\ at' = "top" /\ ignore' = {}
    /\ UNCHANGED <<ready, accepting, controlled, dispatching, readable, writable,
                   connection_map, accepted, control, pool, lost, given_up>>

\* Seeded fault: the loop sleeps on.
NoWakeup == control

wakeup == Append(control, "WAKEUP")

\* stop(), from another thread
stop ==
    /\ ready
    /\ ready' = FALSE
    /\ control' = wakeup
    /\ UNCHANGED <<at, events, connection_map, accepted, pool, lost, given_up>>

\* shutdown(): the threads are told to end as far as there is space in their
\* queue.
shutdown ==
    /\ at = "top" /\ ~ ready
    /\ at' = "ended"
    /\ connection_map' = [s \in {} |-> None]
    /\ \E n \in 0..Cardinality(Threads) :
        /\ n = Cardinality(Threads) \/ Len(request_queue) + n = QueueSize
        /\ Len(request_queue) + n <= QueueSize
        /\ request_queue' = request_queue \o [i \in 1..n |-> None]
    /\ UNCHANGED <<ready, events, accepted, control, result_queue, thread, lost,
                   given_up>>

-------------------------------------------------------------------------------
(* Worker.run() of the pool *)

Get(w) ==
    /\ thread[w].does = "get" /\ request_queue # <<>>
    /\ request_queue' = Tail(request_queue)
    /\ thread' = [thread EXCEPT ![w] =
                    [does |-> IF Head(request_queue) = None THEN "ended" ELSE "work",
                     job  |-> Head(request_queue)]]
    /\ UNCHANGED <<ready, at, events, connection_map, accepted, control, result_queue, lost,
                   given_up>>

\* The handler returns or raises; either way there is a result.
Work(w) ==
    /\ thread[w].does = "work" /\ Len(result_queue) < QueueSize
    /\ result_queue' = Append(result_queue, thread[w].job)
    /\ thread' = [thread EXCEPT ![w] = [does |-> "notify", job |-> None]]
    /\ UNCHANGED <<ready, at, events, connection_map, accepted, control, request_queue, lost,
                   given_up>>

\* Seeded fault: the byte does not say that there are results.
job_completed_wakes == Append(control, "WAKEUP")

job_completed == Append(control, "JOB_DONE")

Notify(w) ==
    /\ thread[w].does = "notify"
    /\ control' = job_completed
    /\ thread' = [thread EXCEPT ![w] = Idle]
    /\ UNCHANGED <<ready, at, events, connection_map, accepted, request_queue, result_queue,
                   lost, given_up>>

\* It raises: that is logged.
NotifyFails(w) ==
    /\ "sockets" \in Faults /\ thread[w].does = "notify"
    /\ lost' = TRUE
    /\ thread' = [thread EXCEPT ![w] = Idle]
    /\ UNCHANGED <<ready, at, events, connection_map, accepted, control, request_queue,
                   result_queue, given_up>>

-------------------------------------------------------------------------------

\* There is a byte for select() to find; no peer need do anything.
Woken == control # <<>> /\ SelectReturns

Timely == Top({})
Late   == "timeout" \in Faults /\ \E late \in (SUBSET Open) \ {{}} : Top(late)

Sock == \E s \in Fds : Read(s) \/ Write(s)

LoopStep ==
    Timely \/ Accept \/ Control \/ ControlFails \/ Dispatch \/ Sock \/ TickEnds \/ shutdown

ThreadStep(w) == Get(w) \/ Work(w) \/ Notify(w) \/ NotifyFails(w)

Next ==
    \/ LoopStep \/ Late \/ SelectReturns \/ SelectFails \/ SelectBuffered \/ stop
    \/ \E w \in Threads : ThreadStep(w)

Spec == Init /\ [][Next]_vars

\* The loop and the threads are scheduled, and request handlers return.  The
\* loop cannot live on buffers alone: they drain, and only select() leads to
\* their being filled.  Nothing is taken to come of select()'s timeout.
FairSpec ==
    /\ Spec
    /\ WF_vars(LoopStep \/ Late) /\ SF_vars(Woken)
    /\ \A w \in Threads : WF_vars(ThreadStep(w))

-------------------------------------------------------------------------------
(* Properties *)

Connections ==
    [id : 1..MaxConns, state : {"read", "wait", "write"}, requests : 0..MaxRequests,
     answer : Jobs \cup {None}]

\* Every variable has its type.
TypeOK ==
    /\ ready \in BOOLEAN /\ at \in {"top", "select", "events", "ended"}
    /\ accepting \in BOOLEAN /\ controlled \in BOOLEAN /\ dispatching \in BOOLEAN
    /\ readable \subseteq Fds /\ writable \subseteq Fds /\ ignore \subseteq Fds
    /\ Open \subseteq Fds /\ connection_map \in [Open -> Connections]
    /\ accepted \in 0..MaxConns /\ control \in Seq({"JOB_DONE", "WAKEUP"})
    /\ request_queue \in Seq(Jobs \cup {None}) /\ result_queue \in Seq(Jobs)
    /\ thread \in [Threads -> [does : {"get", "work", "notify", "ended"}, job : Jobs \cup {None}]]
    /\ lost \in BOOLEAN /\ given_up \subseteq Jobs

InPool(job) ==
    \/ job \in ToSet(request_queue) \cup ToSet(result_queue)
    \/ \E w \in Threads : thread[w].job = job

\* loop.py:267-277: a connection that waits has the job of the request that it
\* read last in the pool, also when it gave up on an earlier one that is still
\* there; and every variable has its type.
WaitersHaveJobs ==
    /\ TypeOK
    /\ \A s \in In("wait") : InPool(OwnJob(s))

\* pool.py:26-46, loop.py:547-592: a result that lies in the queue is about to
\* be taken, or a byte that will make the loop take it is there or coming,
\* unless a byte was lost and no later one has made up for it.
ResultsAnnounced ==
    result_queue # <<>> /\ at # "ended" =>
        \/ dispatching
        \/ "JOB_DONE" \in ToSet(control)
        \/ \E w \in Threads : thread[w].does = "notify"
        \/ lost

\* loop.py:271, 547-555: a connection answers a request with the result of
\* that request, or with one that was given up on: results are filed under
\* descriptors, so that the result of a request that timed out goes to the next
\* request that waits on that descriptor, of the same connection or another.
\* A result that its request still waits for goes nowhere else.
AnswersGoHome ==
    \A s \in In("write") :
        connection_map[s].answer \in {None, OwnJob(s)} \cup given_up

\* loop.py:267-277, 547-555: every request that was handed to the pool gets an
\* answer, or an error, though its connection may have others before it and
\* without waiting for the connection to time out, unless a byte is lost.
WaitersServed == \A s \in Fds : s \in In("wait") ~> s \notin In("wait") \/ lost

\* loop.py:610-630: a server that was stopped closes all connections, and it
\* does not take select()'s timeout for it to notice.
StopEnds == ~ ready ~> at = "ended" /\ Open = {}
===============================================================================
