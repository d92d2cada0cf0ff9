--------------------------- MODULE ServerLoopProofs ---------------------------
(***************************************************************************)
(* For any number of descriptors, threads, connections and requests, and   *)
(* whatever times out or fails: a connection that waits has its job in the *)
(* pool, results do not lie unannounced while no byte is lost, and a       *)
(* connection gets the result of its own request or one given up on.       *)
(* For a buffer of any length and a stream of any length: the ring buffer  *)
(* of a connection neither loses, repeats nor reorders a byte, and is the  *)
(* queue of bytes that ByteQueue describes.                                *)
(***************************************************************************)
EXTENDS ServerLoop, ReadBuffer, SequenceTheorems, WellFoundedInduction, TLAPS

-------------------------------------------------------------------------------
(* Queues *)

Holds(q, e) == \E i \in 1..Len(q) : q[i] = e

\* The word to stop may be in the queue with the jobs.
NoJobTwice(q) == \A i, k \in 1..Len(q) : q[i] = q[k] /\ q[i] # None => i = k

LEMMA HoldsIsIn == ASSUME NEW S, NEW q \in Seq(S), NEW e PROVE e \in ToSet(q) <=> Holds(q, e)
  BY DEF ToSet, Holds

LEMMA AppendFacts ==
  ASSUME NEW S, NEW q \in Seq(S), NEW e \in S
  PROVE  /\ Append(q, e) \in Seq(S)
         /\ \A f : Holds(Append(q, e), f) <=> Holds(q, f) \/ f = e
         /\ NoJobTwice(q) /\ ~ Holds(q, e) => NoJobTwice(Append(q, e))
  BY DEF Holds, NoJobTwice

LEMMA TailFacts ==
  ASSUME NEW S, NEW q \in Seq(S), q # <<>>
  PROVE  /\ Head(q) \in S /\ Tail(q) \in Seq(S) /\ Holds(q, Head(q))
         /\ \A f : Holds(q, f) <=> Holds(Tail(q), f) \/ f = Head(q)
         /\ NoJobTwice(q) =>
               NoJobTwice(Tail(q)) /\ (Head(q) # None => ~ Holds(Tail(q), Head(q)))
  <1>1. Head(q) = q[1] /\ Len(q) \in Nat /\ Len(q) >= 1 /\ Tail(q) \in Seq(S)
    OBVIOUS
  <1>2. Len(Tail(q)) = Len(q) - 1 /\ \A i \in 1..Len(Tail(q)) : Tail(q)[i] = q[i + 1]
    OBVIOUS
  <1>3. ASSUME NEW f, Holds(q, f) PROVE Holds(Tail(q), f) \/ f = Head(q)
    <2>1. PICK i \in 1..Len(q) : q[i] = f
      BY <1>3 DEF Holds
    <2>2. CASE i = 1
      BY <1>1, <2>1, <2>2
    <2>3. CASE i # 1
      <3>1. i - 1 \in 1..Len(Tail(q)) /\ Tail(q)[i - 1] = f
        BY <1>1, <1>2, <2>1, <2>3
      <3>. QED BY <3>1 DEF Holds
    <2>. QED BY <2>2, <2>3
  <1>4. \A f : Holds(Tail(q), f) \/ f = Head(q) => Holds(q, f)
    BY <1>1, <1>2 DEF Holds
  <1>5. NoJobTwice(q) =>
            NoJobTwice(Tail(q)) /\ (Head(q) # None => ~ Holds(Tail(q), Head(q)))
    BY <1>1, <1>2 DEF NoJobTwice, Holds
  <1>. QED BY <1>1, <1>3, <1>4, <1>5

\* Words to stop at the end of the queue.
LEMMA StopsFacts ==
  ASSUME NEW q \in Seq(Jobs \cup {None}), NEW n \in Nat
  PROVE  LET p == q \o [i \in 1..n |-> None] IN
         /\ p \in Seq(Jobs \cup {None})
         /\ \A job \in Jobs : Holds(p, job) <=> Holds(q, job)
         /\ NoJobTwice(q) => NoJobTwice(p)
  <1>. DEFINE r == [i \in 1..n |-> None]
              p == q \o r
  <1>1. r \in Seq(Jobs \cup {None}) /\ Len(r) = n /\ \A i \in 1..n : r[i] = None
    OBVIOUS
  <1>. HIDE DEF r
  <1>a. /\ p \in Seq(Jobs \cup {None}) /\ Len(p) = Len(q) + Len(r)
        /\ \A i \in 1..(Len(q) + Len(r)) : p[i] = IF i <= Len(q) THEN q[i] ELSE r[i - Len(q)]
    BY <1>1, ConcatProperties
  <1>2. /\ p \in Seq(Jobs \cup {None}) /\ Len(p) = Len(q) + n /\ Len(q) \in Nat
        /\ \A i \in 1..(Len(q) + n) : p[i] = IF i <= Len(q) THEN q[i] ELSE r[i - Len(q)]
    BY <1>1, <1>a
  <1>. HIDE DEF p
  <1>3. /\ \A i \in 1..Len(q) : i \in 1..Len(p) /\ p[i] = q[i]
        /\ \A i \in 1..Len(p) : i > Len(q) => p[i] = None
    BY <1>1, <1>2, SMTT(30)
  <1>4. \A i \in 1..Len(p) : i > Len(q) \/ i \in 1..Len(q)
    BY <1>2
  <1>5. \A job \in Jobs : Holds(p, job) <=> Holds(q, job)
    BY <1>3, <1>4, LoopAssumption DEF Holds
  <1>6. NoJobTwice(q) => NoJobTwice(p)
    BY <1>3, <1>4 DEF NoJobTwice
  <1>. QED BY <1>2, <1>5, <1>6 DEF p, r

-------------------------------------------------------------------------------
(* The inductive invariant *)

\* Where the loop is in its tick: results are dispatched after a new connection
\* was accepted and a byte was taken; and what it ignores does not wait.
InTick ==
    /\ at # "events" => ~ accepting /\ ~ controlled /\ ~ dispatching /\ ignore = {}
    /\ accepting \/ controlled => ~ dispatching
    /\ accepting \/ controlled => ignore = {}
    /\ controlled => control # <<>>
    /\ ignore \cap In("wait") = {}
    /\ at = "ended" => Open = {}
    /\ \A w \in Threads : thread[w].does = "work" <=> thread[w].job # None

\* A job is in the pool once.
Once ==
    /\ NoJobTwice(request_queue) /\ NoJobTwice(result_queue)
    /\ \A job \in Jobs :
        /\ ~ (Holds(request_queue, job) /\ Holds(result_queue, job))
        /\ \A w \in Threads : thread[w].job = job =>
            /\ ~ Holds(request_queue, job) /\ ~ Holds(result_queue, job)
            /\ \A v \in Threads : thread[v].job = job => v = w

PoolJobs == {job \in Jobs : InPool(job)}

\* job is that of the request that the connection of s read last.
Owns(s, job) ==
    /\ job.fd = s /\ job.conn = connection_map[s].id
    /\ job.request = connection_map[s].requests

\* Jobs are numbered as their connections are, and these as they come.
Numbered ==
    /\ \A s \in Open :
        /\ connection_map[s].id <= accepted
        /\ connection_map[s].state = "wait" => connection_map[s].requests > 0
    /\ \A job \in PoolJobs :
        /\ job.conn <= accepted
        /\ job.fd \in Open /\ connection_map[job.fd].id = job.conn
            => job.request <= connection_map[job.fd].requests

\* WaitersHaveJobs and AnswersGoHome
Waited   == \A s \in In("wait") : \E job \in PoolJobs : Owns(s, job)
Answered == \A s \in In("write") :
                \/ connection_map[s].answer = None
                \/ Owns(s, connection_map[s].answer)
                \/ connection_map[s].answer \in given_up

\* A job in the pool that was not given up on is the one that the connection of its
\* descriptor waits for.
Homed ==
    at # "ended" =>
        \A job \in PoolJobs : job \notin given_up =>
            job.fd \in In("wait") /\ Owns(job.fd, job)

Homes == Numbered /\ Waited /\ Answered /\ Homed

IInv == TypeOK /\ ResultsAnnounced /\ InTick /\ Once /\ Homes

-------------------------------------------------------------------------------
(* What an event does to a connection *)

\* No other connection is changed.
OnlyHere(s) ==
    /\ s \in Open /\ connection_map' \in [DOMAIN connection_map' -> Connections]
    /\ DOMAIN connection_map' \subseteq Open
    /\ \A t \in Open \ {s} :
        t \in DOMAIN connection_map' /\ connection_map'[t] = connection_map[t]

\* The jobs that the connections S wait for are given up on.
GivesUp(S) ==
    /\ given_up' \subseteq Jobs
    /\ \A job \in Jobs :
        job \in given_up' <=> job \in given_up \/ (job.fd \in S \cap In("wait") /\ Owns(job.fd, job))

\* The connections S come to wait for nothing, and to write nothing that they had not.
Leaves(S) ==
    /\ S \subseteq Open /\ Open' \subseteq Open
    /\ connection_map' \in [Open' -> Connections]
    /\ \A t \in Open \ S : t \in Open' /\ connection_map'[t] = connection_map[t]
    /\ \A t \in S \cap Open' :
        /\ connection_map'[t].id = connection_map[t].id
        /\ connection_map'[t].requests >= connection_map[t].requests
        /\ connection_map'[t].state # "wait"
        /\ connection_map'[t].state = "write" =>
            \/ connection_map'[t].answer = None
            \/ connection_map'[t] = connection_map[t]
    /\ GivesUp(S)

\* So does the connection of s.
Quiet(s) ==
    /\ Leaves({s})
    /\ ignore' \in {ignore, ignore \cup {s}}
    /\ request_queue' = request_queue

\* It hands a job to the pool.
Queues(s, job) ==
    /\ OnlyHere(s) /\ s \in DOMAIN connection_map'
    /\ connection_map[s].state = "read" /\ connection_map'[s].state = "wait"
    /\ connection_map'[s].id = connection_map[s].id
    /\ connection_map'[s].requests = connection_map[s].requests + 1
    /\ job \in Jobs
    /\ job.fd = s /\ job.conn = connection_map[s].id
    /\ job.request = connection_map[s].requests + 1
    /\ Len(request_queue) < QueueSize /\ request_queue' = Append(request_queue, job)
    /\ UNCHANGED <<ignore, given_up>>

\* It has waited, and gets a result, or is closed by it.
Gets(s, job) ==
    /\ OnlyHere(s) /\ connection_map[s].state = "wait"
    /\ s \in DOMAIN connection_map' =>
        /\ connection_map'[s].state = "write"
        /\ connection_map'[s].id = connection_map[s].id
        /\ connection_map'[s].requests = connection_map[s].requests
        /\ connection_map'[s].answer \in {None, job}
    /\ given_up' \subseteq Jobs
    /\ \A k \in Jobs : k \in given_up' <=> k \in given_up \/ (k.fd = s /\ Owns(s, k) /\ k # job)
    /\ ignore' \in {ignore, ignore \cup {s}}
    /\ UNCHANGED request_queue

\* The jobs of connections, as the model writes them.
LEMMA AwaitedFacts ==
  ASSUME TypeOK, Numbered, NEW S \in SUBSET Open
  PROVE  /\ \A s \in Open, job \in Jobs : job.fd = s /\ Owns(s, job) <=> job = OwnJob(s)
         /\ Awaited(S) \subseteq Jobs
         /\ \A job \in Jobs :
                job \in Awaited(S) <=> job.fd \in S \cap In("wait") /\ Owns(job.fd, job)
  <1>1. \A s \in Open, job \in Jobs : job.fd = s /\ Owns(s, job) <=> job = OwnJob(s)
    BY DEF Owns, OwnJob, Jobs
  <1>2. \A s \in In("wait") : OwnJob(s) \in Jobs
    BY DEF Numbered, In, OwnJob, Jobs, TypeOK, Connections
  <1>3. \A s : OwnJob(s).fd = s
    BY DEF OwnJob
  <1>4. In("wait") \subseteq Open
    BY DEF In
  <1>. QED BY <1>1, <1>2, <1>3, <1>4 DEF Awaited

LEMMA HandleEffect ==
  ASSUME TypeOK, Numbered, NEW s \in Open, Handle(s)
  PROVE  Quiet(s) \/ \E job \in Jobs : Queues(s, job)
  <1>. DEFINE old == connection_map[s]
  <1>0. /\ connection_map \in [Open -> Connections] /\ s \in Open /\ s \in Fds /\ Open \subseteq Fds
        /\ old \in Connections /\ given_up \subseteq Jobs
    BY DEF TypeOK
  <1>1. ASSUME NEW c \in Connections, connection_map' = Becomes(s, c)
        PROVE  /\ OnlyHere(s) /\ s \in DOMAIN connection_map' /\ connection_map'[s] = c
               /\ connection_map' \in [Open' -> Connections] /\ Open' = Open
    BY <1>0, <1>1 DEF Becomes, OnlyHere, Open
  <1>2. ASSUME connection_map' = Closed(s)
        PROVE  /\ OnlyHere(s) /\ s \notin DOMAIN connection_map'
               /\ connection_map' \in [Open' -> Connections] /\ Open' = Open \ {s}
    BY <1>0, <1>2 DEF Closed, Restrict, OnlyHere, Open
  <1>3. ASSUME NEW a \in Jobs \cup {None}
        PROVE  /\ Writing(s, a) \in Connections
               /\ Writing(s, a).id = old.id /\ Writing(s, a).state = "write"
               /\ Writing(s, a).requests = old.requests
               /\ Writing(s, a).answer = a
    BY <1>0, <1>3 DEF Writing, Connections
  <1>4. /\ Reading(s) \in Connections /\ Reading(s).id = old.id
        /\ Reading(s).requests = old.requests /\ Reading(s).state = "read"
    BY <1>0 DEF Reading, Connections
  <1>5. /\ In("wait") = {t \in Open : connection_map[t].state = "wait"}
        /\ old.requests \in Nat /\ {s} \subseteq Open
    BY <1>0 DEF In, Connections
  <1>a. ASSUME s \notin In("wait"), given_up' = given_up PROVE GivesUp({s})
    BY <1>0, <1>a DEF GivesUp
  <1>b. ASSUME given_up' = given_up \cup Awaited({s}) PROVE GivesUp({s})
    <2>1. /\ Awaited({s}) \subseteq Jobs
          /\ \A job \in Jobs :
                 job \in Awaited({s}) <=> job.fd \in {s} \cap In("wait") /\ Owns(job.fd, job)
      BY <1>5, AwaitedFacts
    <2>. QED BY <1>0, <1>b, <2>1 DEF GivesUp
  <1>c. ASSUME OnlyHere(s), Open' \subseteq Open, connection_map' \in [Open' -> Connections],
               s \in Open' => /\ connection_map'[s].id = old.id
                              /\ connection_map'[s].requests >= old.requests
                              /\ connection_map'[s].state # "wait"
                              /\ connection_map'[s].state = "write" =>
                                    connection_map'[s].answer = None \/ connection_map'[s] = old,
               GivesUp({s})
        PROVE  Leaves({s})
    BY <1>5, <1>c DEF Leaves, OnlyHere, Open
  <1>6. CASE Raises(s)
    <2>0. GivesUp({s}) /\ ignore' = ignore \cup {s} /\ request_queue' = request_queue
      BY <1>6, <1>b DEF Raises
    <2>1. CASE connection_map' = Closed(s)
      <3>1. Leaves({s})
        BY <1>2, <1>c, <2>0, <2>1 DEF Open
      <3>. QED BY <2>0, <3>1 DEF Quiet
    <2>2. CASE connection_map' = Becomes(s, Error(s))
      <3>1. /\ Error(s) \in Connections /\ Error(s).id = old.id /\ Error(s).state = "write"
            /\ Error(s).requests = old.requests /\ Error(s).answer = None
        BY <1>3 DEF Error
      <3>2. Leaves({s})
        BY <1>1, <1>5, <1>c, <2>0, <2>2, <3>1
      <3>. QED BY <2>0, <3>2 DEF Quiet
    <2>. QED BY <1>6, <2>1, <2>2 DEF Raises
  <1>7. CASE s \notin In("wait") /\ Goes(connection_map)
    <2>1. GivesUp({s}) /\ UNCHANGED <<connection_map, ignore, request_queue>>
      BY <1>7, <1>a DEF Goes
    <2>2. Leaves({s})
      BY <1>0, <1>5, <1>7, <2>1 DEF Leaves, Open
    <2>. QED BY <2>1, <2>2 DEF Quiet
  <1>8. CASE s \notin In("wait") /\ Goes(Closed(s))
    <2>1. GivesUp({s}) /\ connection_map' = Closed(s) /\ UNCHANGED <<ignore, request_queue>>
      BY <1>8, <1>a DEF Goes
    <2>2. Leaves({s})
      BY <1>2, <1>c, <2>1 DEF Open
    <2>. QED BY <2>1, <2>2 DEF Quiet
  <1>9. CASE s \notin In("wait") /\ Goes(Becomes(s, Reading(s)))
    <2>1. /\ GivesUp({s}) /\ connection_map' = Becomes(s, Reading(s))
          /\ UNCHANGED <<ignore, request_queue>>
      BY <1>9, <1>a DEF Goes
    <2>2. Leaves({s})
      BY <1>1, <1>4, <1>5, <1>c, <2>1
    <2>. QED BY <2>1, <2>2 DEF Quiet
  <1>10. CASE s \notin In("wait") /\ Goes(Becomes(s, Writing(s, None)))
    <2>1. /\ GivesUp({s}) /\ connection_map' = Becomes(s, Writing(s, None))
          /\ UNCHANGED <<ignore, request_queue>>
      BY <1>10, <1>a DEF Goes
    <2>2. Leaves({s})
      BY <1>1, <1>3, <1>5, <1>c, <2>1
    <2>. QED BY <2>1, <2>2 DEF Quiet
  <1>11. CASE /\ s \in In("read")
              /\ connection_map[s].id + connection_map[s].requests <= MaxRequests /\ QueueJob(s)
    <2>1. /\ old.requests \in Nat /\ old.requests + 1 \in 1..MaxRequests
          /\ old.id \in 1..MaxConns /\ s \notin In("wait") /\ old.state = "read"
      BY <1>0, <1>11, LoopAssumption DEF In, Connections
    <2>2. CASE Len(request_queue) < QueueSize
      <3>. DEFINE c == [[old EXCEPT !.requests = @ + 1] EXCEPT !.state = "wait"]
                  job == [OwnJob(s) EXCEPT !.request = @ + 1]
      <3>0. c = [id |-> old.id, state |-> "wait", requests |-> old.requests + 1,
                 answer |-> old.answer]
        <4>. DEFINE d == [old EXCEPT !.requests = @ + 1]
        <4>1. d = [id |-> old.id, state |-> old.state, requests |-> old.requests + 1,
                   answer |-> old.answer]
          BY <1>0 DEF Connections
        <4>. HIDE DEF d
        <4>2. [d EXCEPT !.state = "wait"] =
                  [id |-> d.id, state |-> "wait", requests |-> d.requests, answer |-> d.answer]
          BY <4>1
        <4>3. c = [d EXCEPT !.state = "wait"]
          BY DEF d
        <4>. QED BY <4>1, <4>2, <4>3
      <3>1. /\ c \in Connections /\ c.id = old.id /\ c.state = "wait"
            /\ c.requests = old.requests + 1
        BY <1>0, <2>1, <3>0 DEF Connections
      <3>2. job = [fd |-> s, conn |-> old.id, request |-> old.requests + 1]
        BY <1>0 DEF OwnJob
      <3>3. /\ job \in Jobs /\ job.fd = s /\ job.conn = old.id
            /\ job.request = old.requests + 1
        BY <1>0, <2>1, <3>2 DEF Jobs
      <3>4. /\ connection_map' = Becomes(s, c)
            /\ request_queue' = Append(request_queue, job) /\ UNCHANGED <<ignore, given_up>>
        BY <1>11, <2>2 DEF QueueJob
      <3>. HIDE DEF c, job
      <3>. QED BY <1>1, <2>1, <2>2, <3>1, <3>3, <3>4 DEF Queues
    <2>3. CASE ~ (Len(request_queue) < QueueSize)
      <3>. DEFINE c == [Error(s) EXCEPT !.requests = @ + 1]
      <3>1. /\ c \in Connections /\ c.id = old.id /\ c.state = "write"
            /\ c.requests = old.requests + 1 /\ c.answer = None
        <4>1. Error(s) \in Connections /\ Error(s).id = old.id /\ Error(s).answer = None
              /\ Error(s).state = "write" /\ Error(s).requests = old.requests
          BY <1>3 DEF Error
        <4>2. c = [id |-> old.id, state |-> "write", requests |-> old.requests + 1,
                   answer |-> None]
          BY <4>1 DEF Connections
        <4>. QED BY <1>0, <2>1, <4>1, <4>2 DEF Connections
      <3>2. Goes(Becomes(s, c))
        BY <1>11, <2>3 DEF QueueJob
      <3>. HIDE DEF c
      <3>3. /\ GivesUp({s}) /\ connection_map' = Becomes(s, c)
            /\ UNCHANGED <<ignore, request_queue>>
        BY <1>a, <2>1, <3>2 DEF Goes
      <3>4. Leaves({s})
        <4>1. c.requests >= old.requests /\ c.state # "wait"
          BY <2>1, <3>1
        <4>. QED BY <1>1, <1>c, <3>1, <3>3, <4>1
      <3>. QED BY <3>3, <3>4 DEF Quiet
    <2>. QED BY <2>2, <2>3
  <1>12. s \in In("read") \/ s \in In("write") => s \notin In("wait")
    BY DEF In
  <1>. QED BY <1>6, <1>7, <1>8, <1>9, <1>10, <1>11, <1>12 DEF Handle

LEMMA ResultEffect ==
  ASSUME TypeOK, Numbered, NEW s \in Open, NEW job \in Jobs, HandleResult(s, job)
  PROVE  \/ Gets(s, job)
         \/ s \notin In("wait") /\ (Quiet(s) \/ \E new \in Jobs : Queues(s, new))
  <1>. DEFINE old == connection_map[s]
  <1>0. /\ connection_map \in [Open -> Connections] /\ s \in Open
        /\ old \in Connections /\ given_up \subseteq Jobs
    BY DEF TypeOK
  <1>1. ASSUME NEW c \in Connections, connection_map' = Becomes(s, c)
        PROVE  OnlyHere(s) /\ s \in DOMAIN connection_map' /\ connection_map'[s] = c
    BY <1>0, <1>1 DEF Becomes, OnlyHere, Open
  <1>2. ASSUME NEW a \in Jobs \cup {None}
        PROVE  /\ Writing(s, a) \in Connections
               /\ Writing(s, a).id = old.id /\ Writing(s, a).state = "write"
               /\ Writing(s, a).requests = old.requests
               /\ Writing(s, a).answer = a
    BY <1>0, <1>2 DEF Writing, Connections
  <1>3. ASSUME connection_map' = Closed(s)
        PROVE  OnlyHere(s) /\ s \notin DOMAIN connection_map'
    BY <1>0, <1>3 DEF Closed, Restrict, OnlyHere, Open
  <1>4. ASSUME s \in In("wait"), given_up' = given_up \cup (Awaited({s}) \ {job})
        PROVE  /\ given_up' \subseteq Jobs
               /\ \A k \in Jobs : k \in given_up' <=>
                      k \in given_up \/ (k.fd = s /\ Owns(s, k) /\ k # job)
    <2>1. /\ {s} \in SUBSET Open
          /\ \A k \in Jobs : k.fd \in {s} \cap In("wait") <=> k.fd = s
      BY <1>4
    <2>2. /\ Awaited({s}) \subseteq Jobs
          /\ \A k \in Jobs : k \in Awaited({s}) <=> k.fd = s /\ Owns(s, k)
      BY <2>1, AwaitedFacts
    <2>. QED BY <1>0, <1>4, <2>2
  <1>5. ASSUME s \in In("wait"), given_up' = given_up \cup (Awaited({s}) \ {job}),
               \/ connection_map' = Becomes(s, Writing(s, job))
               \/ connection_map' = Becomes(s, Error(s))
               \/ connection_map' = Closed(s),
               ignore' \in {ignore, ignore \cup {s}}, UNCHANGED request_queue
        PROVE  Gets(s, job)
    <2>1. /\ Error(s) \in Connections /\ Error(s).id = old.id /\ Error(s).state = "write"
          /\ Error(s).requests = old.requests /\ Error(s).answer = None
      BY <1>2 DEF Error
    <2>2. old.state = "wait"
      BY <1>5 DEF In
    <2>3. /\ OnlyHere(s)
          /\ s \in DOMAIN connection_map' =>
              /\ connection_map'[s].state = "write" /\ connection_map'[s].id = old.id
              /\ connection_map'[s].requests = old.requests
              /\ connection_map'[s].answer \in {None, job}
      BY <1>1, <1>2, <1>3, <1>5, <2>1
    <2>. QED BY <1>4, <1>5, <2>2, <2>3 DEF Gets
  <1>. QED BY <1>5, HandleEffect DEF HandleResult

-------------------------------------------------------------------------------
(* What it does to the jobs *)

LEMMA PoolMoves ==
  ASSUME TypeOK, request_queue' \in Seq(Jobs \cup {None}), result_queue' \in Seq(Jobs),
         Once, NEW N \in SUBSET Jobs, NEW D \in SUBSET Jobs,
         \A job \in Jobs : Holds(request_queue', job) <=> Holds(request_queue, job) \/ job \in N,
         \A job \in Jobs : Holds(result_queue', job) <=> Holds(result_queue, job) /\ job \notin D,
         \A job \in D : Holds(result_queue, job),
         NoJobTwice(request_queue'), NoJobTwice(result_queue'), thread' = thread,
         N \cap PoolJobs = {}
  PROVE  PoolJobs' = (PoolJobs \ D) \cup N /\ Once'
  <1>1. \A job \in Jobs :
            /\ InPool(job) <=> \/ Holds(request_queue, job) \/ Holds(result_queue, job)
                               \/ \E w \in Threads : thread[w].job = job
            /\ InPool(job)' <=> \/ Holds(request_queue', job) \/ Holds(result_queue', job)
                                \/ \E w \in Threads : thread'[w].job = job
    BY HoldsIsIn DEF InPool, TypeOK
  <1>. QED BY <1>1 DEF PoolJobs, Once

LEMMA LeavesHomes ==
  ASSUME TypeOK, Homes, NEW S, Leaves(S),
         NEW D \in SUBSET PoolJobs, \A job \in D : job.fd \notin In("wait"),
         PoolJobs' = PoolJobs \ D, accepted' = accepted, at # "ended" \/ at' = at
  PROVE  Homes'
  <1>1. \A t \in In("wait")' : /\ t \in In("wait") /\ t \notin S
                               /\ connection_map'[t] = connection_map[t]
    BY DEF In, Leaves
  <1>2. Numbered'
    <2>2. \A t \in Open : connection_map[t].requests \in Nat
      BY DEF TypeOK, Connections
    <2>1. \A t \in Open' : /\ t \in Open /\ connection_map'[t].id = connection_map[t].id
                           /\ connection_map'[t].requests >= connection_map[t].requests
      BY <2>2 DEF Leaves
    <2>3. \A t \in Open' : connection_map'[t].requests \in Int
      BY DEF Leaves, Connections
    <2>4. \A job \in PoolJobs : job.request \in Nat
      BY DEF PoolJobs, Jobs
    <2>. QED BY <1>1, <2>1, <2>2, <2>3, <2>4 DEF Numbered, Homes, In
  <1>3. Waited'
    <2>. SUFFICES ASSUME NEW t \in In("wait")' PROVE \E job \in PoolJobs' : Owns(t, job)'
      BY DEF Waited
    <2>1. PICK job \in PoolJobs : Owns(t, job)
      BY <1>1 DEF Homes, Waited
    <2>2. job.fd = t
      BY <2>1 DEF Owns
    <2>. QED BY <1>1, <2>1, <2>2 DEF Owns
  <1>4. Answered'
    <2>. SUFFICES ASSUME NEW t \in In("write")', connection_map'[t].answer # None
                  PROVE  \/ Owns(t, connection_map[t].answer)'
                         \/ connection_map'[t].answer \in given_up'
      BY DEF Answered
    <2>1. t \in Open /\ connection_map'[t] = connection_map[t] /\ t \in In("write")
      BY DEF In, Leaves
    <2>2. given_up \subseteq given_up'
      BY DEF Leaves, GivesUp, TypeOK
    <2>. QED BY <2>1, <2>2 DEF Homes, Answered, Owns
  <1>5. Homed'
    <2>. SUFFICES ASSUME at' # "ended", NEW job \in PoolJobs', job \notin given_up'
                  PROVE  job.fd \in In("wait")' /\ Owns(job.fd, job)'
      BY DEF Homed
    <2>1. job \in Jobs /\ job \in PoolJobs /\ job \notin given_up
      BY DEF PoolJobs, Leaves, GivesUp
    <2>2. job.fd \in In("wait") /\ Owns(job.fd, job) /\ job.fd \notin S
      BY <2>1 DEF Homes, Homed, Leaves, GivesUp
    <2>. QED BY <2>2 DEF In, Leaves, Owns
  <1>. QED BY <1>2, <1>3, <1>4, <1>5 DEF Homes

LEMMA NewJob ==
  ASSUME TypeOK, Homes, NEW s \in Open, NEW job, Queues(s, job)
  PROVE  job \in Jobs /\ job \notin PoolJobs
  <1>1. connection_map[s].requests \in Nat
    BY DEF TypeOK, Connections
  <1>. QED BY <1>1 DEF Queues, Homes, Numbered

LEMMA QueuesHomes ==
  ASSUME TypeOK, Homes, NEW s \in Open, NEW job \in Jobs, Queues(s, job),
         NEW D \in SUBSET PoolJobs, \A k \in D : k.fd = s,
         PoolJobs' = (PoolJobs \ D) \cup {job}, accepted' = accepted, at' = at
  PROVE  Homes'
  <1>1. \A t \in Open \ {s} : t \in Open' /\ connection_map'[t] = connection_map[t]
    BY DEF Queues, OnlyHere, Open
  <1>2. Open' = Open /\ s \notin In("wait") /\ s \in In("wait")' /\ Owns(s, job)'
    BY DEF Queues, OnlyHere, Open, In, Owns
  <1>3. \A t \in Open : connection_map[t].requests \in Nat
    BY DEF TypeOK, Connections
  <1>4. Numbered'
    BY <1>1, <1>2, <1>3, SMTT(30) DEF Numbered, Homes, Queues, Jobs, PoolJobs
  <1>5. Waited'
    <2>. SUFFICES ASSUME NEW t \in In("wait")', t # s
                  PROVE  \E k \in PoolJobs' : Owns(t, k)'
      BY <1>2 DEF Waited
    <2>1. t \in In("wait") /\ connection_map'[t] = connection_map[t]
      BY <1>1, <1>2 DEF In
    <2>2. PICK k \in PoolJobs : Owns(t, k)
      BY <2>1 DEF Homes, Waited
    <2>. QED BY <2>1, <2>2 DEF Owns
  <1>6. Answered'
    BY <1>1, <1>2 DEF Answered, Homes, In, Queues, Owns
  <1>7. Homed'
    <2>. SUFFICES ASSUME at' # "ended", NEW k \in PoolJobs', k \notin given_up', k # job
                  PROVE  k.fd \in In("wait")' /\ Owns(k.fd, k)'
      BY <1>2 DEF Homed, Queues
    <2>1. k.fd \in In("wait") /\ Owns(k.fd, k) /\ k.fd # s
      BY <1>2 DEF Homes, Homed, Queues
    <2>. QED BY <1>1, <1>2, <2>1 DEF In, Owns
  <1>. QED BY <1>4, <1>5, <1>6, <1>7 DEF Homes

LEMMA GetsHomes ==
  ASSUME TypeOK, Homes, NEW s \in Open, NEW job \in PoolJobs, job.fd = s, Gets(s, job),
         PoolJobs' = PoolJobs \ {job}, accepted' = accepted, at' = at, at # "ended"
  PROVE  Homes'
  <1>1. \A t \in Open \ {s} : t \in Open' /\ connection_map'[t] = connection_map[t]
    BY DEF Gets, OnlyHere, Open
  <1>2. Open' \subseteq Open /\ s \in In("wait") /\ s \notin In("wait")'
    BY DEF Gets, OnlyHere, Open, In
  <1>3. given_up \subseteq given_up' /\ job \in Jobs
    BY DEF Gets, TypeOK, PoolJobs
  <1>4. Numbered'
    <2>1. \A t \in Open' : /\ t \in Open /\ connection_map'[t].id = connection_map[t].id
                           /\ connection_map'[t].requests = connection_map[t].requests
                           /\ connection_map'[t].state = "wait" => connection_map[t].state = "wait"
      BY <1>1, <1>2 DEF Gets, Open
    <2>. QED BY <2>1 DEF Numbered, Homes
  <1>5. Waited'
    <2>. SUFFICES ASSUME NEW t \in In("wait")' PROVE \E k \in PoolJobs' : Owns(t, k)'
      BY DEF Waited
    <2>1. t \in In("wait") /\ t # s /\ connection_map'[t] = connection_map[t]
      BY <1>1, <1>2 DEF In
    <2>2. PICK k \in PoolJobs : Owns(t, k)
      BY <2>1 DEF Homes, Waited
    <2>. QED BY <2>1, <2>2 DEF Owns
  <1>6. Answered'
    <2>1. job \in given_up \/ Owns(s, job)
      BY DEF Homes, Homed
    <2>. SUFFICES ASSUME NEW t \in In("write")', connection_map'[t].answer # None
                  PROVE  \/ Owns(t, connection_map[t].answer)'
                         \/ connection_map'[t].answer \in given_up'
      BY DEF Answered
    <2>2. CASE t = s
      <3>1. connection_map'[s].answer = job /\ connection_map'[s].id = connection_map[s].id
            /\ connection_map'[s].requests = connection_map[s].requests
        BY <2>2 DEF Gets, In, Open
      <3>. QED BY <1>3, <2>1, <2>2, <3>1 DEF Owns
    <2>3. CASE t # s
      <3>1. t \in In("write") /\ connection_map'[t] = connection_map[t]
        BY <1>1, <1>2, <2>3 DEF In
      <3>. QED BY <1>3, <3>1 DEF Answered, Homes, Owns
    <2>. QED BY <2>2, <2>3
  <1>7. Homed'
    <2>. SUFFICES ASSUME at' # "ended", NEW k \in PoolJobs', k \notin given_up'
                  PROVE  k.fd \in In("wait")' /\ Owns(k.fd, k)'
      BY DEF Homed
    <2>0. k \in Jobs /\ k \in PoolJobs /\ k # job /\ k \notin given_up
      BY <1>3 DEF PoolJobs
    <2>1. k.fd \in In("wait") /\ Owns(k.fd, k) /\ k.fd # s
      BY <2>0 DEF Homes, Homed, Gets
    <2>. QED BY <1>1, <1>2, <2>1 DEF In, Owns
  <1>. QED BY <1>4, <1>5, <1>6, <1>7 DEF Homes

\* A result that nobody waits for, or no change.
LEMMA StaysHomes ==
  ASSUME Homes, NEW D \in SUBSET PoolJobs, \A job \in D : job.fd \notin In("wait"),
         UNCHANGED <<connection_map, accepted, given_up>>, PoolJobs' = PoolJobs \ D,
         at' = "ended" \/ at # "ended"
  PROVE  Homes'
  <1>1. Open' = Open /\ In("wait")' = In("wait") /\ In("write")' = In("write")
        /\ \A s, job : Owns(s, job)' <=> Owns(s, job)
    BY DEF Open, In, Owns
  <1>2. Waited'
    <2>. SUFFICES ASSUME NEW t \in In("wait") PROVE \E k \in PoolJobs' : Owns(t, k)'
      BY <1>1 DEF Waited
    <2>1. PICK k \in PoolJobs : Owns(t, k)
      BY DEF Homes, Waited
    <2>. QED BY <1>1, <2>1 DEF Owns
  <1>3. Numbered' /\ Answered' /\ Homed'
    BY <1>1 DEF Homes, Numbered, Answered, Homed
  <1>. QED BY <1>2, <1>3 DEF Homes

-------------------------------------------------------------------------------
(* An event as a whole: it takes the results D, if any *)

MapTypes ==
    /\ Open' \subseteq Fds /\ connection_map' \in [Open' -> Connections]
    /\ request_queue' \in Seq(Jobs \cup {None})
    /\ ignore' \subseteq Fds /\ given_up' \subseteq Jobs

LEMMA EventTypes ==
  ASSUME TypeOK, NEW s \in Open, s \notin ignore, ignore \cap In("wait") = {}, NEW job,
         Quiet(s) \/ Queues(s, job) \/ Gets(s, job)
  PROVE  MapTypes /\ ignore' \cap In("wait")' = {}
  <1>1. /\ Open' \subseteq Open /\ connection_map' \in [Open' -> Connections]
        /\ \A t \in Open \ {s} : t \in Open' /\ connection_map'[t] = connection_map[t]
    <2>1. CASE Quiet(s)
      BY <2>1 DEF Quiet, Leaves
    <2>2. CASE Queues(s, job) \/ Gets(s, job)
      BY <2>2 DEF Queues, Gets, OnlyHere, Open
    <2>. QED BY <2>1, <2>2
  <1>3. request_queue' \in Seq(Jobs \cup {None})
    <2>1. request_queue \in Seq(Jobs \cup {None})
      BY DEF TypeOK
    <2>2. \A k \in Jobs : Append(request_queue, k) \in Seq(Jobs \cup {None})
      BY <2>1
    <2>. QED BY <2>1, <2>2 DEF Quiet, Queues, Gets
  <1>4. \A t \in In("wait")' : t # s => t \in In("wait")
    BY <1>1 DEF In
  <1>5. ignore' \cap In("wait")' = {}
    <2>1. CASE Quiet(s)
      <3>1. s \notin In("wait")'
        BY <2>1 DEF Quiet, Leaves, In
      <3>. QED BY <1>4, <2>1, <3>1 DEF Quiet
    <2>2. CASE Queues(s, job)
      BY <1>4, <2>2 DEF Queues
    <2>3. CASE Gets(s, job)
      <3>1. s \notin In("wait")'
        BY <2>3 DEF Gets, In, Open
      <3>. QED BY <1>4, <2>3, <3>1 DEF Gets
    <2>. QED BY <2>1, <2>2, <2>3
  <1>6. ignore' \subseteq Fds /\ given_up' \subseteq Jobs
    BY DEF TypeOK, Quiet, Leaves, GivesUp, Queues, Gets
  <1>. QED BY <1>1, <1>3, <1>5, <1>6 DEF MapTypes, TypeOK

LEMMA EventStep ==
  ASSUME IInv, at # "ended", NEW s \in Open, s \notin ignore, NEW D \in SUBSET Jobs,
         \A job \in D : job.fd = s /\ Holds(result_queue, job),
         result_queue' \in Seq(Jobs), NoJobTwice(result_queue'),
         \A job \in Jobs : Holds(result_queue', job) <=> Holds(result_queue, job) /\ job \notin D,
         UNCHANGED <<thread, accepted, at>>,
         \/ Quiet(s) /\ (D = {} \/ s \notin In("wait"))
         \/ \E job \in Jobs : Queues(s, job)
         \/ \E job \in Jobs : Gets(s, job) /\ D = {job}
  PROVE  MapTypes /\ ignore' \cap In("wait")' = {} /\ Once' /\ Homes'
  <1>1. /\ TypeOK /\ Once /\ Homes /\ InTick /\ ignore \cap In("wait") = {}
        /\ request_queue \in Seq(Jobs \cup {None}) /\ result_queue \in Seq(Jobs)
        /\ NoJobTwice(request_queue)
    BY DEF IInv, InTick, TypeOK, Once
  <1>2. D \in SUBSET PoolJobs
    BY <1>1, HoldsIsIn DEF PoolJobs, InPool
  <1>3. ASSUME request_queue' = request_queue
        PROVE  PoolJobs' = PoolJobs \ D /\ Once'
    <2>1. PoolJobs' = (PoolJobs \ D) \cup {} /\ Once'
      BY <1>1, <1>3, PoolMoves, Zenon
    <2>. QED BY <2>1
  <1>4. CASE Quiet(s) /\ (D = {} \/ s \notin In("wait"))
    <2>1. request_queue' = request_queue
      BY <1>4 DEF Quiet
    <2>2. Homes'
      <3>1. Leaves({s}) /\ accepted' = accepted /\ at' = at
        BY <1>4 DEF Quiet
      <3>2. \A job \in D : job.fd \notin In("wait")
        BY <1>4
      <3>3. PoolJobs' = PoolJobs \ D
        BY <1>3, <2>1
      <3>. QED BY <1>1, <1>2, <3>1, <3>2, <3>3, LeavesHomes
    <2>3. MapTypes /\ ignore' \cap In("wait")' = {}
      BY <1>1, <1>4, EventTypes
    <2>. QED BY <1>3, <2>1, <2>2, <2>3
  <1>5. ASSUME NEW job \in Jobs, Queues(s, job)
        PROVE  MapTypes /\ ignore' \cap In("wait")' = {} /\ Once' /\ Homes'
    <2>1. job \notin PoolJobs /\ ~ Holds(request_queue, job)
      BY <1>1, <1>5, NewJob, HoldsIsIn DEF PoolJobs, InPool
    <2>2. /\ request_queue' \in Seq(Jobs \cup {None}) /\ NoJobTwice(request_queue')
          /\ \A k \in Jobs : Holds(request_queue', k) <=> Holds(request_queue, k) \/ k \in {job}
      BY <1>1, <1>5, <2>1, AppendFacts DEF Queues
    <2>3. PoolJobs' = (PoolJobs \ D) \cup {job} /\ Once'
      <3>1. {job} \in SUBSET Jobs /\ {job} \cap PoolJobs = {}
        BY <2>1
      <3>. QED BY <1>1, <2>2, <3>1, PoolMoves
    <2>4. Homes'
      BY <1>1, <1>2, <1>5, <2>3, QueuesHomes
    <2>. QED BY <1>1, <1>5, <2>3, <2>4, EventTypes
  <1>6. ASSUME NEW job \in Jobs, Gets(s, job), D = {job}
        PROVE  MapTypes /\ ignore' \cap In("wait")' = {} /\ Once' /\ Homes'
    <2>1. request_queue' = request_queue
      BY <1>6 DEF Gets
    <2>2. Homes'
      BY <1>1, <1>2, <1>3, <1>6, <2>1, GetsHomes
    <2>. QED BY <1>1, <1>3, <1>6, <2>1, <2>2, EventTypes
  <1>. QED BY <1>4, <1>5, <1>6

LEMMA PoolStays ==
  ASSUME UNCHANGED pool
  PROVE  PoolJobs' = PoolJobs /\ (Once => Once')
  BY DEF pool, PoolJobs, InPool, Once

LEMMA SocketStep ==
  ASSUME IInv, at # "ended", NEW s,
         IF s \in Open \ ignore THEN Handle(s) ELSE Goes(connection_map),
         UNCHANGED <<result_queue, thread, accepted, at>>
  PROVE  MapTypes /\ ignore' \cap In("wait")' = {} /\ Once' /\ Homes'
  <1>1. TypeOK /\ Once /\ Homes /\ ignore \cap In("wait") = {}
    BY DEF IInv, InTick
  <1>2. CASE s \in Open \ ignore
    <2>1. Quiet(s) \/ \E job \in Jobs : Queues(s, job)
      BY <1>1, <1>2, HandleEffect DEF Homes
    <2>2. /\ result_queue' = result_queue /\ result_queue \in Seq(Jobs)
          /\ NoJobTwice(result_queue) /\ {} \in SUBSET Jobs
      BY <1>1 DEF TypeOK, Once
    <2>3. \A job \in Jobs :
             Holds(result_queue', job) <=> Holds(result_queue, job) /\ job \notin {}
      BY <2>2
    <2>4. \A job \in {} : job.fd = s /\ Holds(result_queue, job)
      OBVIOUS
    <2>. QED BY <1>2, <2>1, <2>2, <2>3, <2>4, EventStep
  <1>3. CASE s \notin Open \ ignore
    <2>1. UNCHANGED <<pool, connection_map, given_up, ignore>>
      BY <1>3 DEF Goes, pool
    <2>2. PoolJobs' = PoolJobs \ {} /\ Once'
      BY <1>1, <2>1, PoolStays
    <2>3. Homes'
      BY <1>1, <2>1, <2>2, StaysHomes
    <2>4. MapTypes /\ ignore' \cap In("wait")' = {}
      BY <1>1, <2>1 DEF MapTypes, TypeOK, Open, In, pool
    <2>. QED BY <2>2, <2>3, <2>4
  <1>. QED BY <1>2, <1>3

LEMMA ReadWriteStep ==
  ASSUME IInv, NEW s \in Fds, Read(s) \/ Write(s)
  PROVE  IInv'
  <1>1. /\ at = "events" /\ ~ accepting /\ ~ controlled /\ ~ dispatching
        /\ IF s \in Open \ ignore THEN Handle(s) ELSE Goes(connection_map)
        /\ UNCHANGED <<ready, at, accepting, controlled, dispatching, accepted, control,
                       result_queue, thread, lost>>
        /\ readable' \subseteq readable /\ writable' \subseteq writable
    BY DEF Read, Write, Sockets
  <1>2. MapTypes /\ ignore' \cap In("wait")' = {} /\ Once' /\ Homes'
    BY <1>1, SocketStep
  <1>3. TypeOK'
    BY <1>1, <1>2 DEF IInv, TypeOK, MapTypes
  <1>4. InTick' /\ ResultsAnnounced'
    BY <1>1, <1>2 DEF IInv, InTick, ResultsAnnounced
  <1>. QED BY <1>2, <1>3, <1>4 DEF IInv

LEMMA DispatchStep ==
  ASSUME IInv, Dispatch
  PROVE  IInv'
  <1>1. /\ TypeOK /\ Once /\ Homes /\ InTick /\ ignore \cap In("wait") = {}
        /\ at = "events" /\ dispatching /\ ~ accepting /\ ~ controlled
        /\ UNCHANGED <<ready, at, accepting, controlled, readable, writable, accepted, control,
                       thread>>
    BY DEF IInv, InTick, Dispatch
  <1>2. CASE result_queue = <<>>
    <2>1. UNCHANGED <<pool, connection_map, given_up, ignore, accepted, at>>
          /\ dispatching' = FALSE /\ lost' = FALSE /\ result_queue' = <<>>
      BY <1>1, <1>2 DEF Dispatch, pool
    <2>2. PoolJobs' = PoolJobs \ {} /\ Once'
      BY <1>1, <2>1, PoolStays
    <2>3. Homes'
      BY <1>1, <2>1, <2>2, StaysHomes
    <2>4. TypeOK' /\ InTick' /\ ResultsAnnounced'
      BY <1>1, <2>1 DEF InTick, TypeOK, ResultsAnnounced, Open, In, pool
    <2>. QED BY <2>2, <2>3, <2>4 DEF IInv
  <1>3. CASE result_queue # <<>>
    <2>. DEFINE job == Head(result_queue)
    <2>1. /\ result_queue \in Seq(Jobs) /\ None \notin Jobs
          /\ result_queue' = Tail(result_queue) /\ dispatching' = dispatching /\ lost' = lost
          /\ IF job.fd \in Open \ ignore THEN HandleResult(job.fd, job) ELSE Goes(connection_map)
      BY <1>1, <1>3, LoopAssumption DEF Dispatch, LaterResults, TypeOK
    <2>2. /\ job \in Jobs /\ Holds(result_queue, job) /\ result_queue' \in Seq(Jobs)
          /\ NoJobTwice(result_queue') /\ ~ Holds(result_queue', job)
          /\ \A k : Holds(result_queue, k) <=> Holds(result_queue', k) \/ k = job
      <3>1. NoJobTwice(result_queue)
        BY <1>1 DEF Once
      <3>2. /\ Head(result_queue) \in Jobs /\ Tail(result_queue) \in Seq(Jobs)
            /\ Holds(result_queue, Head(result_queue))
            /\ \A k : Holds(result_queue, k) <=>
                          Holds(Tail(result_queue), k) \/ k = Head(result_queue)
            /\ NoJobTwice(Tail(result_queue))
            /\ Head(result_queue) # None => ~ Holds(Tail(result_queue), Head(result_queue))
        BY <1>3, <2>1, <3>1, TailFacts
      <3>. QED BY <2>1, <3>2
    <2>. HIDE DEF job
    <2>3. PICK D : D = {job}
      OBVIOUS
    <2>4. /\ D \in SUBSET Jobs
          /\ \A k \in D : k.fd = job.fd /\ Holds(result_queue, k)
          /\ \A k \in Jobs : Holds(result_queue', k) <=> Holds(result_queue, k) /\ k \notin D
      BY <2>2, <2>3
    <2>5. MapTypes /\ ignore' \cap In("wait")' = {} /\ Once' /\ Homes'
      <3>1. CASE job.fd \in Open \ ignore
        <4>1. \/ Gets(job.fd, job)
              \/ /\ job.fd \notin In("wait")
                 /\ Quiet(job.fd) \/ \E new \in Jobs : Queues(job.fd, new)
          BY <1>1, <2>1, <2>2, <3>1, ResultEffect DEF Homes
        <4>. QED BY <1>1, <2>2, <2>3, <2>4, <3>1, <4>1, EventStep
      <3>2. CASE job.fd \notin Open \ ignore
        <4>1. UNCHANGED <<connection_map, given_up, ignore, request_queue, thread, accepted, at>>
          BY <1>1, <2>1, <3>2 DEF Goes
        <4>2. job.fd \notin In("wait")
          BY <1>1, <3>2 DEF In
        <4>3. /\ request_queue \in Seq(Jobs \cup {None}) /\ NoJobTwice(request_queue)
              /\ {} \in SUBSET Jobs /\ {} \cap PoolJobs = {}
              /\ \A k \in Jobs : Holds(request_queue', k) <=> Holds(request_queue, k) \/ k \in {}
          BY <1>1, <4>1 DEF TypeOK, Once
        <4>4. PoolJobs' = (PoolJobs \ D) \cup {} /\ Once'
          BY <1>1, <2>2, <2>4, <4>1, <4>3, PoolMoves
        <4>5. D \in SUBSET PoolJobs
          BY <2>1, <2>4, HoldsIsIn DEF PoolJobs, InPool
        <4>6. Homes'
          <5>1. \A k \in D : k.fd \notin In("wait")
            BY <2>3, <4>2
          <5>. QED BY <1>1, <4>1, <4>4, <4>5, <5>1, StaysHomes
        <4>7. MapTypes /\ ignore' \cap In("wait")' = {}
          BY <1>1, <4>1 DEF MapTypes, TypeOK, Open, In
        <4>. QED BY <4>4, <4>6, <4>7
      <3>. QED BY <3>1, <3>2
    <2>6. TypeOK'
      BY <1>1, <2>1, <2>2, <2>5 DEF TypeOK, MapTypes
    <2>7. InTick' /\ ResultsAnnounced'
      BY <1>1, <2>1, <2>5 DEF InTick, ResultsAnnounced
    <2>. QED BY <2>5, <2>6, <2>7 DEF IInv
  <1>. QED BY <1>2, <1>3

-------------------------------------------------------------------------------
(* The other steps of the loop *)

LEMMA SameHomes ==
  ASSUME Homes, UNCHANGED <<connection_map, accepted, given_up>>, PoolJobs' = PoolJobs,
         at' = "ended" \/ at # "ended"
  PROVE  Homes'
  <1>1. PICK D : D = {}
    OBVIOUS
  <1>2. D \in SUBSET PoolJobs /\ PoolJobs' = PoolJobs \ D
        /\ \A job \in D : job.fd \notin In("wait")
    BY <1>1
  <1>. QED BY <1>2, StaysHomes

LEMMA TopStep ==
  ASSUME IInv, NEW late \in SUBSET Open, Top(late)
  PROVE  IInv'
  <1>1. /\ TypeOK /\ Once /\ Homes /\ InTick /\ ResultsAnnounced
        /\ at = "top" /\ at' = "select" /\ connection_map \in [Open -> Connections]
        /\ UNCHANGED <<ready, events, accepted, control, pool, lost>>
        /\ given_up' = given_up \cup Awaited(late)
        /\ connection_map' = [s \in Open \ (late \cap In("write")) |->
                                 IF s \in late THEN Error(s) ELSE connection_map[s]]
    BY DEF IInv, Top, TypeOK
  <1>2. PoolJobs' = PoolJobs /\ Once'
    BY <1>1, PoolStays
  <1>3. /\ Open' = Open \ (late \cap In("write"))
        /\ \A s \in Open' \ late : connection_map'[s] = connection_map[s]
        /\ \A s \in Open' \cap late : connection_map'[s] = Error(s)
    BY <1>1 DEF Open
  <1>4. \A s \in Open : /\ Error(s) \in Connections /\ Error(s).id = connection_map[s].id
                        /\ Error(s).requests = connection_map[s].requests
                        /\ Error(s).state = "write" /\ Error(s).answer = None
    BY <1>1 DEF Error, Writing, Connections
  <1>5. \A s \in Open' : /\ s \in Open /\ connection_map'[s] \in Connections
                         /\ connection_map'[s].id = connection_map[s].id
                         /\ connection_map'[s].requests = connection_map[s].requests
    BY <1>1, <1>3, <1>4
  <1>6. In("wait")' = In("wait") \ late
    BY <1>3, <1>4 DEF In
  <1>a. GivesUp(late) /\ given_up' \subseteq Jobs
    BY <1>1, AwaitedFacts DEF GivesUp, TypeOK, Homes
  <1>7. Homes'
    <2>1. \A s \in Open \ late : s \in Open' /\ connection_map'[s] = connection_map[s]
      BY <1>3
    <2>2. \A s \in late \cap Open' :
            /\ connection_map'[s].id = connection_map[s].id
            /\ connection_map'[s].requests >= connection_map[s].requests
            /\ connection_map'[s].state # "wait" /\ connection_map'[s].answer = None
      <3>1. \A s \in Open : connection_map[s].requests \in Nat
        BY <1>1 DEF Connections
      <3>. QED BY <1>3, <1>4, <3>1
    <2>3. Leaves(late)
      <3>1. connection_map' \in [Open' -> Connections] /\ Open' \subseteq Open
        BY <1>1, <1>3, <1>5 DEF Open
      <3>. QED BY <1>a, <2>1, <2>2, <3>1 DEF Leaves
    <2>4. PICK D : D = {}
      OBVIOUS
    <2>5. /\ D \in SUBSET PoolJobs /\ PoolJobs' = PoolJobs \ D
          /\ \A job \in D : job.fd \notin In("wait")
      BY <1>2, <2>4
    <2>. QED BY <1>1, <2>3, <2>5, LeavesHomes
  <1>8. TypeOK'
    <2>1. connection_map' \in [Open' -> Connections] /\ Open' \subseteq Fds
      BY <1>1, <1>3, <1>5 DEF TypeOK, Open
    <2>. QED BY <1>1, <1>a, <2>1 DEF TypeOK, events, pool
  <1>9. InTick' /\ ResultsAnnounced'
    BY <1>1, <1>6 DEF InTick, ResultsAnnounced, events, pool
  <1>. QED BY <1>2, <1>7, <1>8, <1>9 DEF IInv

LEMMA SelectFailsStep ==
  ASSUME IInv, SelectFails
  PROVE  IInv'
  <1>1. /\ TypeOK /\ Once /\ Homes /\ InTick /\ ResultsAnnounced
        /\ at = "select" /\ at' = "top" /\ connection_map \in [Open -> Connections]
        /\ UNCHANGED <<events, accepted, control, pool, lost>>
    BY DEF IInv, SelectFails, TypeOK
  <1>2. PoolJobs' = PoolJobs /\ Once'
    BY <1>1, PoolStays
  <1>3. CASE ready' = FALSE /\ UNCHANGED <<connection_map, given_up>>
    <2>1. Homes'
      BY <1>1, <1>2, <1>3, SameHomes
    <2>2. TypeOK' /\ InTick' /\ ResultsAnnounced'
      BY <1>1, <1>3 DEF TypeOK, InTick, ResultsAnnounced, Open, In, pool, events
    <2>. QED BY <1>2, <2>1, <2>2 DEF IInv
  <1>4. ASSUME NEW bad \in SUBSET Open, connection_map' = Restrict(connection_map, Open \ bad),
               given_up' = given_up \cup Awaited(bad), ready' = ready
        PROVE  IInv'
    <2>1. GivesUp(bad) /\ given_up' \subseteq Jobs
      BY <1>1, <1>4, AwaitedFacts DEF GivesUp, TypeOK, Homes
    <2>2. /\ Open' = Open \ bad /\ connection_map' \in [Open' -> Connections]
          /\ \A s \in Open' : connection_map'[s] = connection_map[s]
      BY <1>1, <1>4 DEF Restrict, Open
    <2>3. Leaves(bad)
      BY <2>1, <2>2 DEF Leaves
    <2>4. PICK D : D = {}
      OBVIOUS
    <2>5. /\ D \in SUBSET PoolJobs /\ PoolJobs' = PoolJobs \ D
          /\ \A job \in D : job.fd \notin In("wait")
      BY <1>2, <2>4
    <2>6. Homes'
      BY <1>1, <2>3, <2>5, LeavesHomes
    <2>7. In("wait")' \subseteq In("wait")
      BY <2>2 DEF In
    <2>8. TypeOK'
      BY <1>1, <1>4, <2>1, <2>2 DEF TypeOK, events, pool
    <2>9. InTick' /\ ResultsAnnounced'
      BY <1>1, <2>7 DEF InTick, ResultsAnnounced, events, pool
    <2>. QED BY <1>2, <2>6, <2>8, <2>9 DEF IInv
  <1>. QED BY <1>3, <1>4 DEF SelectFails

LEMMA SelectStep ==
  ASSUME IInv, NEW new \in BOOLEAN, NEW byte \in BOOLEAN, byte => control # <<>>,
         NEW R \in SUBSET Open, NEW W \in SUBSET Open, Select(new, byte, R, W)
  PROVE  IInv'
  <1>1. /\ TypeOK /\ Once /\ Homes /\ InTick /\ ResultsAnnounced /\ at = "select"
        /\ at' \in {"events", "top"} /\ ignore = {}
        /\ UNCHANGED <<ready, dispatching, ignore, connection_map, accepted, control, pool, lost, given_up>>
        /\ accepting' \in {new, accepting} /\ controlled' \in {byte, controlled}
        /\ readable' \in {R, readable} /\ writable' \in {W, writable}
        /\ at' = "top" => UNCHANGED <<accepting, controlled>>
    BY DEF IInv, InTick, Select
  <1>2. PoolJobs' = PoolJobs /\ Once'
    BY <1>1, PoolStays
  <1>3. Homes'
    BY <1>1, <1>2, SameHomes
  <1>4. TypeOK'
    BY <1>1 DEF TypeOK, Open, pool
  <1>5. InTick' /\ ResultsAnnounced'
    BY <1>1 DEF InTick, ResultsAnnounced, Open, In, pool, TypeOK
  <1>. QED BY <1>2, <1>3, <1>4, <1>5 DEF IInv

LEMMA AcceptStep ==
  ASSUME IInv, Accept
  PROVE  IInv'
  <1>1. /\ TypeOK /\ Once /\ Homes /\ InTick /\ ResultsAnnounced
        /\ at = "events" /\ accepting /\ accepting' = FALSE /\ ~ dispatching /\ ignore = {}
        /\ UNCHANGED <<ready, at, controlled, dispatching, readable, writable, ignore, control,
                       pool, lost, given_up>>
    BY DEF IInv, Accept, InTick
  <1>2. PoolJobs' = PoolJobs /\ Once'
    BY <1>1, PoolStays
  <1>3. InTick' /\ ResultsAnnounced'
    BY <1>1 DEF InTick, ResultsAnnounced, pool
  <1>4. CASE UNCHANGED <<connection_map, accepted>>
    <2>1. Homes'
      BY <1>1, <1>2, <1>4, SameHomes
    <2>2. TypeOK'
      BY <1>1, <1>4 DEF TypeOK, Open, pool
    <2>. QED BY <1>2, <1>3, <2>1, <2>2 DEF IInv
  <1>5. ASSUME NEW s \in Fds \ Open, accepted < MaxConns, accepted' = accepted + 1,
               connection_map' = [t \in Open \cup {s} |->
                 IF t = s THEN [id |-> accepted + 1, state |-> "read", requests |-> 0,
                                answer |-> None]
                 ELSE connection_map[t]]
        PROVE  IInv'
    <2>1. /\ Open' = Open \cup {s} /\ connection_map'[s] \in Connections
          /\ connection_map'[s].id = accepted + 1 /\ connection_map'[s].state = "read"
          /\ connection_map'[s].requests = 0
          /\ \A t \in Open : t # s /\ connection_map'[t] = connection_map[t]
          /\ connection_map' \in [Open' -> Connections] /\ Open' \subseteq Fds
          /\ accepted \in Nat /\ accepted' \in 0..MaxConns
      <3>1. accepted \in 0..MaxConns /\ MaxConns \in Nat /\ MaxRequests \in Nat
        BY <1>1, LoopAssumption DEF TypeOK
      <3>2. /\ Open' = Open \cup {s} /\ \A t \in Open : connection_map'[t] = connection_map[t]
            /\ connection_map'[s] = [id |-> accepted + 1, state |-> "read", requests |-> 0,
                                     answer |-> None]
        BY <1>5 DEF Open
      <3>3. connection_map'[s] \in Connections
        BY <1>5, <3>1, <3>2 DEF Connections
      <3>4. connection_map' \in [Open' -> Connections] /\ Open' \subseteq Fds
        BY <1>1, <1>5, <3>2, <3>3 DEF TypeOK
      <3>5. accepted \in Nat /\ accepted' \in 0..MaxConns /\ \A t \in Open : t # s
        BY <1>5, <3>1
      <3>. QED BY <3>2, <3>3, <3>4, <3>5
    <2>2. TypeOK'
      BY <1>1, <2>1 DEF TypeOK, pool
    <2>3. \A k \in PoolJobs : k.conn \in Nat
      BY DEF PoolJobs, Jobs
    <2>4. \A t \in Open : connection_map[t].id \in Nat
      BY <1>1 DEF TypeOK, Connections
    <2>5. Numbered'
      <3>1. \A t \in Open' : /\ connection_map'[t].id <= accepted'
                             /\ connection_map'[t].state = "wait" =>
                                    connection_map'[t].requests > 0
        BY <1>1, <1>5, <2>1, <2>4 DEF Homes, Numbered
      <3>2. ASSUME NEW k \in PoolJobs
            PROVE  /\ k.conn <= accepted'
                   /\ k.fd \in Open' /\ connection_map'[k.fd].id = k.conn
                      => k.request <= connection_map'[k.fd].requests
        BY <1>1, <1>5, <2>1, <2>3 DEF Homes, Numbered
      <3>. QED BY <1>2, <3>1, <3>2 DEF Numbered
    <2>6. \A t : t \in In("wait")' <=> t \in In("wait")
      BY <2>1 DEF In
    <2>7. Waited'
      <3>. SUFFICES ASSUME NEW t \in In("wait")' PROVE \E k \in PoolJobs' : Owns(t, k)'
        BY DEF Waited
      <3>1. t \in In("wait") /\ connection_map'[t] = connection_map[t]
        BY <2>1, <2>6 DEF In
      <3>2. PICK k \in PoolJobs : Owns(t, k)
        BY <1>1, <3>1 DEF Homes, Waited
      <3>. QED BY <1>2, <3>1, <3>2 DEF Owns
    <2>8. Answered'
      BY <1>1, <2>1 DEF Homes, Answered, In, Owns
    <2>9. Homed'
      <3>. SUFFICES ASSUME NEW k \in PoolJobs, k \notin given_up
                    PROVE  k.fd \in In("wait")' /\ Owns(k.fd, k)'
        BY <1>1, <1>2 DEF Homed
      <3>1. k.fd \in In("wait") /\ Owns(k.fd, k)
        BY <1>1 DEF Homes, Homed
      <3>2. connection_map'[k.fd] = connection_map[k.fd]
        BY <2>1, <3>1 DEF In
      <3>. QED BY <2>6, <3>1, <3>2 DEF Owns
    <2>. QED BY <1>2, <1>3, <2>2, <2>5, <2>7, <2>8, <2>9 DEF IInv, Homes
  <1>. QED BY <1>4, <1>5 DEF Accept

LEMMA ControlStep ==
  ASSUME IInv, Control
  PROVE  IInv'
  <1>1. /\ TypeOK /\ Once /\ Homes /\ InTick /\ ResultsAnnounced
        /\ at = "events" /\ ~ accepting /\ controlled /\ ~ dispatching /\ control # <<>>
        /\ control \in Seq({"JOB_DONE", "WAKEUP"})
        /\ controlled' = FALSE /\ control' = Tail(control)
        /\ dispatching' = (Head(control) = "JOB_DONE")
        /\ UNCHANGED <<ready, at, accepting, readable, writable, ignore, connection_map,
                       accepted, pool, lost, given_up>>
    BY DEF IInv, Control, InTick, TypeOK
  <1>2. PoolJobs' = PoolJobs /\ Once'
    BY <1>1, PoolStays
  <1>3. Homes'
    BY <1>1, <1>2, SameHomes
  <1>4. control' \in Seq({"JOB_DONE", "WAKEUP"}) /\ dispatching' \in BOOLEAN
    BY <1>1, TailFacts
  <1>5. TypeOK' /\ InTick'
    BY <1>1, <1>4 DEF TypeOK, InTick, Open, In, pool
  <1>6. ResultsAnnounced'
    <2>1. "JOB_DONE" \in ToSet(control) => "JOB_DONE" \in ToSet(control') \/ dispatching'
      BY <1>1, <1>4, TailFacts, HoldsIsIn
    <2>. QED BY <1>1, <2>1 DEF ResultsAnnounced, pool
  <1>. QED BY <1>2, <1>3, <1>5, <1>6 DEF IInv

LEMMA ControlFailsStep ==
  ASSUME IInv, ControlFails
  PROVE  IInv'
  <1>1. /\ TypeOK /\ Once /\ Homes /\ InTick /\ ResultsAnnounced
        /\ at = "events" /\ ~ accepting /\ ~ dispatching /\ controlled' = FALSE
        /\ UNCHANGED <<ready, accepting, dispatching, ignore, connection_map, accepted, pool,
                       given_up>>
        /\ readable' \subseteq readable /\ writable' \subseteq writable
        /\ \/ /\ control' = <<>> /\ lost' = (lost \/ "JOB_DONE" \in ToSet(control))
              /\ at' = at
           \/ at' = "top" /\ ignore = {} /\ UNCHANGED <<control, lost>>
    BY DEF IInv, ControlFails, InTick
  <1>2. PoolJobs' = PoolJobs /\ Once'
    BY <1>1, PoolStays
  <1>3. Homes'
    BY <1>1, <1>2, SameHomes
  <1>4. TypeOK'
    <2>0. control \in Seq({"JOB_DONE", "WAKEUP"}) /\ lost \in BOOLEAN
      BY <1>1 DEF TypeOK
    <2>a. <<>> \in Seq({"JOB_DONE", "WAKEUP"})
      OBVIOUS
    <2>b. lost' = lost \/ lost' \in {TRUE, FALSE}
      <3>1. lost' = (lost \/ "JOB_DONE" \in ToSet(control)) \/ lost' = lost
        BY <1>1
      <3>. QED BY <3>1
    <2>c. lost' \in BOOLEAN
      BY <2>0, <2>b, Zenon
    <2>1. control' \in Seq({"JOB_DONE", "WAKEUP"}) /\ lost' \in BOOLEAN
      BY <1>1, <2>0, <2>a, <2>c
    <2>. QED BY <1>1, <2>1 DEF TypeOK, Open, pool
  <1>5. InTick' /\ ResultsAnnounced'
    BY <1>1 DEF InTick, ResultsAnnounced, Open, In, pool
  <1>. QED BY <1>2, <1>3, <1>4, <1>5 DEF IInv

LEMMA TickEndsStep ==
  ASSUME IInv, TickEnds
  PROVE  IInv'
  <1>1. /\ TypeOK /\ Once /\ Homes /\ InTick /\ ResultsAnnounced
        /\ at = "events" /\ ~ accepting /\ ~ controlled /\ ~ dispatching /\ at' = "top"
        /\ ignore' = {}
        /\ UNCHANGED <<ready, accepting, controlled, dispatching, readable, writable,
                       connection_map, accepted, control, pool, lost, given_up>>
    BY DEF IInv, TickEnds, Sockets
  <1>2. PoolJobs' = PoolJobs /\ Once'
    BY <1>1, PoolStays
  <1>3. Homes'
    BY <1>1, <1>2, SameHomes
  <1>4. TypeOK' /\ InTick' /\ ResultsAnnounced'
    BY <1>1 DEF TypeOK, InTick, ResultsAnnounced, Open, In, pool, events
  <1>. QED BY <1>2, <1>3, <1>4 DEF IInv

LEMMA stopStep ==
  ASSUME IInv, stop
  PROVE  IInv'
  <1>1. /\ TypeOK /\ Once /\ Homes /\ InTick /\ ResultsAnnounced
        /\ ready' = FALSE /\ control' = Append(control, "WAKEUP")
        /\ UNCHANGED <<at, events, connection_map, accepted, pool, lost, given_up>>
        /\ control \in Seq({"JOB_DONE", "WAKEUP"})
    BY DEF IInv, stop, wakeup, TypeOK
  <1>2. PoolJobs' = PoolJobs /\ Once'
    BY <1>1, PoolStays
  <1>3. Homes'
    BY <1>1, <1>2, SameHomes
  <1>4. /\ control' \in Seq({"JOB_DONE", "WAKEUP"}) /\ control' # <<>>
        /\ "JOB_DONE" \in ToSet(control) => "JOB_DONE" \in ToSet(control')
    <2>1. PICK byte : byte = "WAKEUP"
      OBVIOUS
    <2>2. byte \in {"JOB_DONE", "WAKEUP"} /\ control' = Append(control, byte)
      BY <1>1, <2>1
    <2>3. /\ control' \in Seq({"JOB_DONE", "WAKEUP"})
          /\ Holds(control, "JOB_DONE") => Holds(control', "JOB_DONE")
      BY <1>1, <2>2, AppendFacts
    <2>4. control' # <<>>
      BY <1>1, <2>2
    <2>. QED BY <1>1, <2>3, <2>4, HoldsIsIn
  <1>5. TypeOK' /\ InTick' /\ ResultsAnnounced'
    BY <1>1, <1>4 DEF TypeOK, InTick, ResultsAnnounced, Open, In, pool, events
  <1>. QED BY <1>2, <1>3, <1>5 DEF IInv

LEMMA shutdownStep ==
  ASSUME IInv, shutdown
  PROVE  IInv'
  <1>1. /\ TypeOK /\ Once /\ Homes /\ InTick
        /\ at = "top" /\ at' = "ended" /\ connection_map' = [s \in {} |-> None]
        /\ UNCHANGED <<ready, events, accepted, control, result_queue, thread, lost,
                       given_up>>
    BY DEF IInv, shutdown
  <1>2. PICK n \in 0..Cardinality(Threads) :
            request_queue' = request_queue \o [i \in 1..n |-> None]
    BY DEF shutdown
  <1>3. /\ request_queue \in Seq(Jobs \cup {None}) /\ result_queue \in Seq(Jobs)
        /\ NoJobTwice(request_queue) /\ n \in Nat
    BY <1>1 DEF TypeOK, Once
  <1>4. /\ request_queue' \in Seq(Jobs \cup {None}) /\ NoJobTwice(request_queue')
        /\ \A job \in Jobs : Holds(request_queue', job) <=> Holds(request_queue, job)
    BY <1>2, <1>3, StopsFacts
  <1>5. PoolJobs' = PoolJobs /\ Once'
    <2>1. PICK D : D = {}
      OBVIOUS
    <2>2. /\ D \in SUBSET Jobs /\ D \cap PoolJobs = {} /\ NoJobTwice(result_queue')
          /\ \A k \in Jobs : Holds(request_queue', k) <=> Holds(request_queue, k) \/ k \in D
          /\ \A k \in Jobs : Holds(result_queue', k) <=> Holds(result_queue, k) /\ k \notin D
          /\ \A k \in D : Holds(result_queue, k)
      BY <1>1, <1>4, <2>1 DEF Once
    <2>3. result_queue' \in Seq(Jobs) /\ thread' = thread
      BY <1>1, <1>3
    <2>4. PoolJobs' = (PoolJobs \ D) \cup D /\ Once'
      BY <1>1, <1>4, <2>2, <2>3, PoolMoves
    <2>. QED BY <2>1, <2>4
  <1>6. Open' = {}
    BY <1>1 DEF Open
  <1>7. Homes'
    BY <1>1, <1>5, <1>6 DEF Homes, Numbered, Waited, Answered, Homed, In
  <1>8. TypeOK'
    BY <1>1, <1>4, <1>6 DEF TypeOK, events
  <1>9. InTick' /\ ResultsAnnounced'
    BY <1>1, <1>6 DEF InTick, ResultsAnnounced, In, events
  <1>. QED BY <1>5, <1>7, <1>8, <1>9 DEF IInv

-------------------------------------------------------------------------------
(* The threads *)

LEMMA PoolMeans ==
  ASSUME TypeOK
  PROVE  \A job \in Jobs :
            job \in PoolJobs <=> \/ Holds(request_queue, job) \/ Holds(result_queue, job)
                                 \/ \E w \in Threads : thread[w].job = job
  BY HoldsIsIn DEF PoolJobs, InPool, TypeOK

LEMMA GetStep ==
  ASSUME IInv, NEW w \in Threads, Get(w)
  PROVE  IInv'
  <1>1. /\ TypeOK /\ Once /\ Homes /\ InTick /\ ResultsAnnounced
        /\ thread[w].does = "get" /\ request_queue # <<>>
        /\ request_queue \in Seq(Jobs \cup {None}) /\ request_queue' = Tail(request_queue)
        /\ UNCHANGED <<ready, at, events, connection_map, accepted, control, result_queue,
                       lost, given_up>>
    BY DEF IInv, Get, TypeOK
  <1>2. PICK job : job = Head(request_queue)
    OBVIOUS
  <1>3. /\ job \in Jobs \cup {None} /\ request_queue' \in Seq(Jobs \cup {None})
        /\ \A k : Holds(request_queue, k) <=> Holds(request_queue', k) \/ k = job
        /\ NoJobTwice(request_queue') /\ (job # None => ~ Holds(request_queue', job))
    <2>1. NoJobTwice(request_queue)
      BY <1>1 DEF Once
    <2>. QED BY <1>1, <1>2, <2>1, TailFacts
  <1>4. /\ thread' \in [Threads -> [does : {"get", "work", "notify", "ended"},
                                    job : Jobs \cup {None}]]
        /\ \A v \in Threads \ {w} : thread'[v] = thread[v]
        /\ thread'[w].does = IF job = None THEN "ended" ELSE "work"
        /\ thread'[w].job = job /\ thread[w].job = None
    BY <1>1, <1>2, <1>3 DEF Get, TypeOK, InTick
  <1>5. TypeOK'
    BY <1>1, <1>3, <1>4 DEF TypeOK, events, Open
  <1>6. InTick' /\ ResultsAnnounced'
    BY <1>1, <1>4 DEF InTick, ResultsAnnounced, events, Open, In
  <1>7. PoolJobs' = PoolJobs
    <2>1. \A k \in Jobs :
            k \in PoolJobs <=> \/ Holds(request_queue, k) \/ Holds(result_queue, k)
                               \/ \E v \in Threads : thread[v].job = k
      BY <1>1, PoolMeans
    <2>2. \A k \in Jobs :
            k \in PoolJobs' <=> \/ Holds(request_queue', k) \/ Holds(result_queue', k)
                                \/ \E v \in Threads : thread'[v].job = k
      BY <1>5, HoldsIsIn DEF PoolJobs, InPool, TypeOK
    <2>3. PoolJobs \subseteq Jobs /\ PoolJobs' \subseteq Jobs /\ None \notin Jobs
      BY LoopAssumption DEF PoolJobs
    <2>4. ASSUME NEW k \in Jobs PROVE k \in PoolJobs <=> k \in PoolJobs'
      <3>1. k # None
        BY <2>3
      <3>2. (\E v \in Threads : thread'[v].job = k) <=>
                k = job \/ \E v \in Threads : thread[v].job = k
        BY <1>4, <3>1
      <3>. QED BY <1>1, <1>3, <2>1, <2>2, <3>2
    <2>. QED BY <2>3, <2>4
  <1>8. Once'
    <2>. SUFFICES ASSUME NEW k \in Jobs
                  PROVE  /\ ~ (Holds(request_queue', k) /\ Holds(result_queue', k))
                         /\ \A v \in Threads : thread'[v].job = k =>
                             /\ ~ Holds(request_queue', k) /\ ~ Holds(result_queue', k)
                             /\ \A u \in Threads : thread'[u].job = k => u = v
      BY <1>1, <1>3 DEF Once
    <2>1. k # None
      BY LoopAssumption
    <2>2. /\ ~ (Holds(request_queue, k) /\ Holds(result_queue, k))
          /\ \A v \in Threads : thread[v].job = k =>
              /\ ~ Holds(request_queue, k) /\ ~ Holds(result_queue, k)
              /\ \A u \in Threads : thread[u].job = k => u = v
      BY <1>1 DEF Once
    <2>3. CASE k = job
      <3>1. /\ Holds(request_queue, k) /\ ~ Holds(request_queue', k)
            /\ ~ Holds(result_queue', k) /\ \A v \in Threads : thread[v].job # k
        BY <1>1, <1>3, <2>1, <2>2, <2>3
      <3>. QED BY <1>4, <3>1
    <2>4. CASE k # job
      BY <1>1, <1>3, <1>4, <2>2, <2>4
    <2>. QED BY <2>3, <2>4
  <1>9. Homes'
    BY <1>1, <1>7, SameHomes
  <1>. QED BY <1>5, <1>6, <1>8, <1>9 DEF IInv

LEMMA WorkStep ==
  ASSUME IInv, NEW w \in Threads, Work(w)
  PROVE  IInv'
  <1>1. /\ TypeOK /\ Once /\ Homes /\ InTick
        /\ thread[w].does = "work" /\ result_queue \in Seq(Jobs)
        /\ result_queue' = Append(result_queue, thread[w].job)
        /\ UNCHANGED <<ready, at, events, connection_map, accepted, control, request_queue,
                       lost, given_up>>
    BY DEF IInv, Work, TypeOK
  <1>2. PICK job : job = thread[w].job
    OBVIOUS
  <1>3. job \in Jobs /\ ~ Holds(request_queue, job) /\ ~ Holds(result_queue, job)
    BY <1>1, <1>2 DEF InTick, TypeOK, Once
  <1>4. /\ result_queue' \in Seq(Jobs) /\ NoJobTwice(result_queue')
        /\ \A k : Holds(result_queue', k) <=> Holds(result_queue, k) \/ k = job
    <2>1. NoJobTwice(result_queue) /\ result_queue' = Append(result_queue, job)
      BY <1>1, <1>2 DEF Once
    <2>. QED BY <1>1, <1>3, <2>1, AppendFacts
  <1>5. /\ thread' \in [Threads -> [does : {"get", "work", "notify", "ended"},
                                    job : Jobs \cup {None}]]
        /\ \A v \in Threads \ {w} : thread'[v] = thread[v]
        /\ thread'[w].does = "notify" /\ thread'[w].job = None
    BY <1>1 DEF Work, TypeOK
  <1>6. TypeOK'
    BY <1>1, <1>4, <1>5 DEF TypeOK, events, Open
  <1>7. InTick' /\ ResultsAnnounced'
    BY <1>1, <1>5 DEF InTick, ResultsAnnounced, events, Open, In
  <1>8. PoolJobs' = PoolJobs
    <2>1. \A k \in Jobs :
            k \in PoolJobs <=> \/ Holds(request_queue, k) \/ Holds(result_queue, k)
                               \/ \E v \in Threads : thread[v].job = k
      BY <1>1, PoolMeans
    <2>2. \A k \in Jobs :
            k \in PoolJobs' <=> \/ Holds(request_queue', k) \/ Holds(result_queue', k)
                                \/ \E v \in Threads : thread'[v].job = k
      BY <1>6, HoldsIsIn DEF PoolJobs, InPool, TypeOK
    <2>3. PoolJobs \subseteq Jobs /\ PoolJobs' \subseteq Jobs /\ None \notin Jobs
      BY LoopAssumption DEF PoolJobs
    <2>4. ASSUME NEW k \in Jobs PROVE k \in PoolJobs <=> k \in PoolJobs'
      <3>1. k # None
        BY <2>3
      <3>2. (\E v \in Threads : thread[v].job = k) <=>
                k = job \/ \E v \in Threads : thread'[v].job = k
        BY <1>2, <1>5, <3>1
      <3>. QED BY <1>1, <1>4, <2>1, <2>2, <3>2
    <2>. QED BY <2>3, <2>4
  <1>9. Once'
    <2>. SUFFICES ASSUME NEW k \in Jobs
                  PROVE  /\ ~ (Holds(request_queue', k) /\ Holds(result_queue', k))
                         /\ \A v \in Threads : thread'[v].job = k =>
                             /\ ~ Holds(request_queue', k) /\ ~ Holds(result_queue', k)
                             /\ \A u \in Threads : thread'[u].job = k => u = v
      BY <1>1, <1>4 DEF Once
    <2>1. k # None
      BY LoopAssumption
    <2>2. /\ ~ (Holds(request_queue, k) /\ Holds(result_queue, k))
          /\ \A v \in Threads : thread[v].job = k =>
              /\ ~ Holds(request_queue, k) /\ ~ Holds(result_queue, k)
              /\ \A u \in Threads : thread[u].job = k => u = v
      BY <1>1 DEF Once
    <2>3. CASE k = job
      <3>1. ~ Holds(request_queue', k) /\ \A v \in Threads \ {w} : thread[v].job # k
        BY <1>1, <1>2, <1>3, <2>2, <2>3
      <3>. QED BY <1>5, <2>1, <3>1
    <2>4. CASE k # job
      BY <1>1, <1>4, <1>5, <2>1, <2>2, <2>4
    <2>. QED BY <2>3, <2>4
  <1>10. Homes'
    BY <1>1, <1>8, SameHomes
  <1>. QED BY <1>6, <1>7, <1>9, <1>10 DEF IInv

LEMMA NotifyStep ==
  ASSUME IInv, NEW w \in Threads, Notify(w)
  PROVE  IInv'
  <1>1. /\ TypeOK /\ Once /\ Homes /\ InTick
        /\ thread[w].does = "notify" /\ control \in Seq({"JOB_DONE", "WAKEUP"})
        /\ control' = Append(control, "JOB_DONE")
        /\ UNCHANGED <<ready, at, events, connection_map, accepted, request_queue, result_queue,
                       lost, given_up>>
    BY DEF IInv, Notify, TypeOK, job_completed
  <1>2. PICK byte : byte = "JOB_DONE"
    OBVIOUS
  <1>3. /\ control' \in Seq({"JOB_DONE", "WAKEUP"}) /\ "JOB_DONE" \in ToSet(control')
        /\ control' # <<>>
    <2>1. byte \in {"JOB_DONE", "WAKEUP"} /\ control' = Append(control, byte)
      BY <1>1, <1>2
    <2>2. control' \in Seq({"JOB_DONE", "WAKEUP"}) /\ Holds(control', byte)
      BY <1>1, <2>1, AppendFacts
    <2>3. control' # <<>>
      BY <1>1, <2>1
    <2>. QED BY <1>2, <2>2, <2>3, HoldsIsIn
  <1>4. /\ thread' \in [Threads -> [does : {"get", "work", "notify", "ended"},
                                    job : Jobs \cup {None}]]
        /\ \A v \in Threads \ {w} : thread'[v] = thread[v]
        /\ thread'[w].does = "get" /\ thread'[w].job = None /\ thread[w].job = None
    BY <1>1 DEF Notify, TypeOK, InTick, Idle
  <1>5. TypeOK'
    BY <1>1, <1>3, <1>4 DEF TypeOK, events, Open
  <1>6. InTick' /\ ResultsAnnounced'
    BY <1>1, <1>3, <1>4 DEF InTick, ResultsAnnounced, events, Open, In
  <1>7. PoolJobs' = PoolJobs
    <2>1. \A v \in Threads : thread'[v].job = thread[v].job
      BY <1>4
    <2>. QED BY <1>1, <2>1 DEF PoolJobs, InPool
  <1>8. Once'
    <2>1. \A v \in Threads : thread'[v].job = thread[v].job
      BY <1>4
    <2>. QED BY <1>1, <2>1 DEF Once
  <1>9. Homes'
    BY <1>1, <1>7, SameHomes
  <1>. QED BY <1>5, <1>6, <1>8, <1>9 DEF IInv

LEMMA NotifyFailsStep ==
  ASSUME IInv, NEW w \in Threads, NotifyFails(w)
  PROVE  IInv'
  <1>1. /\ TypeOK /\ Once /\ Homes /\ InTick
        /\ thread[w].does = "notify" /\ lost' = TRUE
        /\ UNCHANGED <<ready, at, events, connection_map, accepted, control, request_queue,
                       result_queue, given_up>>
    BY DEF IInv, NotifyFails
  <1>2. /\ thread' \in [Threads -> [does : {"get", "work", "notify", "ended"},
                                    job : Jobs \cup {None}]]
        /\ \A v \in Threads \ {w} : thread'[v] = thread[v]
        /\ thread'[w].does = "get" /\ thread'[w].job = None /\ thread[w].job = None
    BY <1>1 DEF NotifyFails, TypeOK, InTick, Idle
  <1>3. TypeOK'
    BY <1>1, <1>2 DEF TypeOK, events, Open
  <1>4. InTick' /\ ResultsAnnounced'
    BY <1>1, <1>2 DEF InTick, ResultsAnnounced, events, Open, In
  <1>5. \A v \in Threads : thread'[v].job = thread[v].job
    BY <1>2
  <1>6. PoolJobs' = PoolJobs /\ Once'
    BY <1>1, <1>5 DEF PoolJobs, InPool, Once
  <1>7. Homes'
    BY <1>1, <1>6, SameHomes
  <1>. QED BY <1>3, <1>4, <1>6, <1>7 DEF IInv

-------------------------------------------------------------------------------
(* The theorems *)

LEMMA InitIInv == Init => IInv
  <1>. SUFFICES ASSUME Init PROVE IInv
    OBVIOUS
  <1>1. /\ Open = {} /\ \A w \in Threads : thread[w] = [does |-> "get", job |-> None]
        /\ request_queue = <<>> /\ result_queue = <<>>
    BY DEF Init, Open, Idle
  <1>2. TypeOK
    <2>1. thread \in [Threads -> [does : {"get", "work", "notify", "ended"},
                                  job : Jobs \cup {None}]]
      BY DEF Init, Idle
    <2>2. connection_map \in [Open -> Connections] /\ Open \subseteq Fds
      BY <1>1 DEF Init
    <2>3. control \in Seq({"JOB_DONE", "WAKEUP"}) /\ request_queue \in Seq(Jobs \cup {None})
          /\ result_queue \in Seq(Jobs) /\ accepted \in 0..MaxConns
      BY LoopAssumption DEF Init
    <2>. QED BY <2>1, <2>2, <2>3 DEF Init, TypeOK
  <1>3. PoolJobs = {}
    BY <1>1, <1>2, PoolMeans, LoopAssumption DEF Holds, PoolJobs
  <1>4. Once
    BY <1>1, LoopAssumption DEF Once, NoJobTwice, Holds
  <1>5. InTick /\ ResultsAnnounced
    BY <1>1 DEF Init, InTick, ResultsAnnounced, In
  <1>6. Homes
    BY <1>1, <1>3 DEF Homes, Numbered, Waited, Answered, Homed, In
  <1>. QED BY <1>2, <1>4, <1>5, <1>6 DEF IInv

LEMMA NextIInv == IInv /\ [Next]_vars => IInv'
  <1>. SUFFICES ASSUME IInv, [Next]_vars PROVE IInv'
    OBVIOUS
  <1>1. {} \in SUBSET Open /\ \A state : In(state) \in SUBSET Open
    BY DEF In
  <1>2. CASE LoopStep
    BY <1>1, <1>2, TopStep, AcceptStep, ControlStep, ControlFailsStep, DispatchStep, ReadWriteStep, TickEndsStep,
       shutdownStep DEF LoopStep, Timely, Sock
  <1>3. CASE Late
    BY <1>3, TopStep DEF Late
  <1>4. CASE SelectReturns
    <2>1. PICK new \in BOOLEAN, R \in SUBSET In("read"), W \in SUBSET In("write") :
              Select(new, control # <<>>, R, W)
      BY <1>4 DEF SelectReturns
    <2>. QED BY <1>1, <2>1, SelectStep
  <1>5. CASE SelectBuffered
    <2>1. PICK R \in SUBSET In("read") : Select(FALSE, FALSE, R, {})
      BY <1>5 DEF SelectBuffered
    <2>2. R \in SUBSET Open /\ FALSE \in BOOLEAN
      BY <1>1
    <2>. QED BY <1>1, <2>1, <2>2, SelectStep
  <1>9. CASE SelectFails
    BY <1>9, SelectFailsStep
  <1>6. CASE stop
    BY <1>6, stopStep
  <1>7. CASE \E w \in Threads : ThreadStep(w)
    BY <1>7, GetStep, WorkStep, NotifyStep, NotifyFailsStep DEF ThreadStep
  <1>8. CASE UNCHANGED vars
    <2>1. /\ TypeOK /\ Once /\ Homes /\ InTick /\ ResultsAnnounced
          /\ UNCHANGED <<ready, at, events, connection_map, accepted, control, pool, lost, given_up>>
      BY <1>8 DEF IInv, vars
    <2>2. PoolJobs' = PoolJobs /\ Once'
      BY <2>1, PoolStays
    <2>3. Homes'
      <3>1. Open' = Open /\ \A s, job : Owns(s, job)' <=> Owns(s, job)
        BY <2>1 DEF Open, Owns
      <3>2. Waited'
        <4>. SUFFICES ASSUME NEW t \in In("wait")' PROVE \E k \in PoolJobs' : Owns(t, k)'
          BY DEF Waited
        <4>1. t \in In("wait")
          BY <2>1 DEF In, Open
        <4>2. PICK k \in PoolJobs : Owns(t, k)
          BY <2>1, <4>1 DEF Homes, Waited
        <4>. QED BY <2>2, <3>1, <4>2 DEF Owns
      <3>. QED BY <2>1, <2>2, <3>1, <3>2 DEF Homes, Numbered, Answered, Homed, In, Owns
    <2>4. TypeOK' /\ InTick' /\ ResultsAnnounced'
      BY <2>1 DEF TypeOK, InTick, ResultsAnnounced, Open, In, pool, events
    <2>. QED BY <2>2, <2>3, <2>4 DEF IInv
  <1>. QED BY <1>2, <1>3, <1>4, <1>5, <1>6, <1>7, <1>8, <1>9 DEF Next

LEMMA Invariance == Spec => []IInv
  BY InitIInv, NextIInv, PTL DEF Spec

\* loop.py:267-277: whatever times out or fails, a connection that waits has the
\* job of its last request in the pool, also when one that it gave up on is still
\* there, so the answer that would end its wait is still to come; and every
\* variable has its type.
THEOREM WaitersHaveJobsAlways == Spec => []WaitersHaveJobs
  <1>1. IInv => WaitersHaveJobs
    <2>. SUFFICES ASSUME IInv, NEW s \in In("wait") PROVE TypeOK /\ InPool(OwnJob(s))
      BY DEF WaitersHaveJobs, IInv
    <2>1. TypeOK /\ s \in Open
      BY DEF IInv, In
    <2>2. PICK job \in PoolJobs : Owns(s, job)
      BY DEF IInv, Homes, Waited
    <2>3. job \in Jobs /\ InPool(job)
      BY <2>2 DEF PoolJobs
    <2>4. job = OwnJob(s)
      BY <2>1, <2>2, <2>3, AwaitedFacts DEF IInv, Homes, Owns
    <2>. QED BY <2>1, <2>3, <2>4
  <1>. QED BY <1>1, Invariance, PTL

\* pool.py:26-46, loop.py:547-592: a result never lies in the queue without the
\* loop being about to take it or a byte there, or coming, that makes it, unless a
\* byte was lost.
THEOREM ResultsAnnouncedAlways == Spec => []ResultsAnnounced
  <1>1. IInv => ResultsAnnounced
    BY DEF IInv
  <1>. QED BY <1>1, Invariance, PTL

\* loop.py:271, 547-555: a connection answers with the result of its own request,
\* or with one that was given up on, by it or by another of its descriptor: a
\* result that is waited for goes nowhere else, whatever order results come in.
THEOREM AnswersGoHomeAlways == Spec => []AnswersGoHome
  <1>1. IInv => AnswersGoHome
    <2>. SUFFICES ASSUME IInv, NEW s \in In("write"), connection_map[s].answer # None,
                         connection_map[s].answer \notin given_up
                  PROVE  connection_map[s].answer = OwnJob(s)
      BY DEF AnswersGoHome
    <2>1. TypeOK /\ Numbered /\ s \in Open /\ Owns(s, connection_map[s].answer)
      BY DEF IInv, In, Homes, Answered
    <2>2. connection_map[s].answer \in Jobs
      BY <2>1 DEF TypeOK, Connections
    <2>. QED BY <2>1, <2>2, AwaitedFacts DEF Owns
  <1>. QED BY <1>1, Invariance, PTL

-------------------------------------------------------------------------------
(* The ring buffer: positions *)

\* Where the i-th byte in the buffer lies.
Place(i) == Wrap(read_pos + i - 1)

LEMMA Positions ==
  ASSUME BufferTypeOK
  PROVE  /\ Size \in Nat /\ Size > 0 /\ read_pos \in Nat /\ write_pos \in Nat
         /\ read_pos < Size /\ write_pos < Size
         /\ Count \in 0..Size /\ write_pos = Wrap(read_pos + Count)
         /\ has_data <=> Count > 0
         /\ has_space <=> Count < Size
         /\ \A i \in 1..Size : Place(i) \in 0..(Size - 1)
  BY SizeAssumption DEF BufferTypeOK, Count, Wrap, has_data, has_space, Place

\* No two bytes lie in one place.
LEMMA PlacesDiffer ==
  ASSUME BufferTypeOK, NEW i \in 1..Size, NEW k \in 1..Size, Place(i) = Place(k)
  PROVE  i = k
  BY SizeAssumption DEF BufferTypeOK, Wrap, Place

LEMMA HeldFacts ==
  ASSUME BufferTypeOK
  PROVE  /\ Held = [i \in 1..Count |-> ba[Place(i)]]
         /\ DOMAIN Held = 1..Count
         /\ \A i \in 1..Count : Held[i] = ba[Place(i)]
  BY Positions DEF Held, Place

\* The first of some places.
LEMMA FirstFacts ==
  ASSUME NEW S \in SUBSET Nat, S # {}
  PROVE  First(S) \in S /\ \A k \in S : First(S) <= k
  <1>1. PICK x \in S : \A y \in S : ~ (<<y, x>> \in OpToRel(<, Nat))
    BY NatLessThanWellFounded, WFMin
  <1>2. \A y \in S : ~ (y < x)
    BY <1>1 DEF OpToRel
  <1>3. \A y \in S : x <= y
    BY <1>2
  <1>. QED BY <1>3 DEF First

-------------------------------------------------------------------------------
(* An answer from the buffer *)

\* The first k bytes in the buffer are returned.
Takes(k) ==
    /\ k \in 1..Count
    /\ answer' \in Seq(Stream) /\ Len(answer') = k
    /\ \A i \in 1..k : answer'[i] = ba[Place(i)]
    /\ returned' = returned + k
    /\ read_pos' = Wrap(read_pos + k)
    /\ full_state' = IF Wrap(read_pos + k) = write_pos THEN "WRITE" ELSE full_state
    /\ UNCHANGED <<ba, write_pos, conn_ready, newlines, pulled>>

\* Two pieces of the buffer, the second perhaps empty, from the reader on.
LEMMA PiecesTaken ==
  ASSUME StreamKept, conn_ready, NEW m \in Nat, NEW n \in Nat, NEW from \in Nat, m + n \in 1..Count,
         \A i \in 1..m : read_pos + i - 1 = Place(i),
         \A i \in 1..n : from + i - 1 = Place(m + i),
         Return(Bytes(read_pos, m) \o Bytes(from, n), Wrap(read_pos + (m + n)))
  PROVE  Takes(m + n)
  <1>. DEFINE p == Bytes(read_pos, m)
              q == Bytes(from, n)
  <1>1. /\ BufferTypeOK /\ Count \in 0..Size /\ pulled = returned + Count
        /\ pulled \in 0..MaxBytes /\ returned \in 0..MaxBytes /\ MaxBytes \in Nat
        /\ \A i \in 1..Count : ba[Place(i)] = returned + i
    BY Positions, HeldFacts, SizeAssumption DEF StreamKept, BufferTypeOK
  <1>2. \A i \in 1..Count : ba[Place(i)] \in Stream
    BY <1>1 DEF Stream
  <1>3. p = [i \in 1..m |-> ba[Place(i)]] /\ q = [i \in 1..n |-> ba[Place(m + i)]]
    BY DEF Bytes
  <1>4. /\ p \in Seq(Stream) /\ Len(p) = m /\ \A i \in 1..m : p[i] = ba[Place(i)]
        /\ q \in Seq(Stream) /\ Len(q) = n /\ \A i \in 1..n : q[i] = ba[Place(m + i)]
    <2>1. \A i \in 1..m : i \in 1..Count
      BY <1>1
    <2>2. \A i \in 1..n : m + i \in 1..Count
      BY <1>1
    <2>3. /\ \A i \in 1..m : ba[Place(i)] \in Stream
          /\ \A i \in 1..n : ba[Place(m + i)] \in Stream
      BY <1>2, <2>1, <2>2
    <2>. HIDE DEF p, q
    <2>4. p \in Seq(Stream) /\ Len(p) = m /\ \A i \in 1..m : p[i] = ba[Place(i)]
      BY <1>3, <2>3
    <2>5. q \in Seq(Stream) /\ Len(q) = n /\ \A i \in 1..n : q[i] = ba[Place(m + i)]
      BY <1>3, <2>3
    <2>. QED BY <2>4, <2>5
  <1>. HIDE DEF p, q
  <1>5. /\ p \o q \in Seq(Stream) /\ Len(p \o q) = m + n
        /\ \A i \in 1..(m + n) : (p \o q)[i] = IF i <= m THEN p[i] ELSE q[i - m]
    <2>1. /\ p \o q \in Seq(Stream) /\ Len(p \o q) = Len(p) + Len(q)
          /\ \A i \in 1..(Len(p) + Len(q)) :
                (p \o q)[i] = IF i <= Len(p) THEN p[i] ELSE q[i - Len(p)]
      BY <1>4, ConcatProperties
    <2>. QED BY <1>4, <2>1
  <1>6. \A i \in 1..(m + n) : (p \o q)[i] = ba[Place(i)]
    <2>. SUFFICES ASSUME NEW i \in 1..(m + n) PROVE (p \o q)[i] = ba[Place(i)]
      OBVIOUS
    <2>1. CASE i <= m
      BY <1>4, <1>5, <2>1
    <2>2. CASE ~ (i <= m)
      <3>1. i - m \in 1..n /\ m + (i - m) = i
        BY <2>2
      <3>. QED BY <1>4, <1>5, <2>2, <3>1
    <2>. QED BY <2>1, <2>2
  <1>7. Return(p \o q, Wrap(read_pos + (m + n)))
    BY DEF p, q
  <1>. QED BY <1>5, <1>6, <1>7 DEF Return, Takes

LEMMA ReadTakes ==
  ASSUME StreamKept, conn_ready, NEW size \in Nat \ {0}, read(size)
  PROVE  Takes(Least(size, Count))
  <1>. DEFINE part == IF read_pos < write_pos THEN write_pos - read_pos ELSE Size - read_pos
  <1>1. PICK sz, npos, more :
          /\ sz = Least(size, part) /\ npos = Wrap(read_pos + sz)
          /\ more = IF write_pos <= read_pos /\ size > sz /\ npos < write_pos
                    THEN Least(size - sz, write_pos - npos) ELSE 0
    OBVIOUS
  <1>2. /\ BufferTypeOK /\ Count > 0 /\ Count \in 0..Size
        /\ Size \in Nat /\ Size > 0 /\ read_pos \in Nat /\ write_pos \in Nat
        /\ read_pos < Size /\ write_pos < Size
    BY Positions DEF StreamKept, read
  <1>3. /\ Count = IF read_pos < write_pos THEN write_pos - read_pos
                   ELSE Size - read_pos + write_pos
    BY <1>2 DEF Count
  <1>4. /\ sz \in Nat /\ more \in Nat /\ npos \in Nat /\ sz + more = Least(size, Count)
        /\ Least(size, Count) \in 1..Count
    BY <1>1, <1>2, <1>3 DEF Least, Wrap
  <1>5. \A i \in 1..sz : read_pos + i - 1 = Place(i)
    BY <1>1, <1>2 DEF Least, Wrap, Place
  <1>6. \A i \in 1..more : npos + i - 1 = Place(sz + i)
    BY <1>1, <1>2 DEF Least, Wrap, Place
  <1>7. npos + more = Wrap(read_pos + (sz + more))
    BY <1>1, <1>2 DEF Least, Wrap
  <1>8. Return(Bytes(read_pos, sz) \o Bytes(npos, more), npos + more)
    BY <1>1 DEF read
  <1>. QED BY <1>4, <1>5, <1>6, <1>7, <1>8, PiecesTaken, ZenonT(60)

\* What readline() returns: up to the first line feed, or all.
IsLine(k) ==
    /\ k = Count \/ ba[Place(k)] \in newlines
    /\ \A i \in 1..(k - 1) : ba[Place(i)] \notin newlines

LEMMA ReadlineTakes ==
  ASSUME StreamKept, conn_ready, readline
  PROVE  \E k \in 1..Count : Takes(k) /\ IsLine(k)
  <1>1. PICK there, front, end :
          /\ there = Found(read_pos, IF read_pos < write_pos THEN write_pos ELSE Size)
          /\ front = Found(0, write_pos)
          /\ end = IF front # {} THEN First(front) + 1 ELSE write_pos
    OBVIOUS
  <1>2. /\ BufferTypeOK /\ Count > 0 /\ Count \in 0..Size
        /\ Size \in Nat /\ Size > 0 /\ read_pos \in Nat /\ write_pos \in Nat
        /\ read_pos < Size /\ write_pos < Size
    BY Positions DEF StreamKept, readline
  <1>3. /\ Count = IF read_pos < write_pos THEN write_pos - read_pos
                   ELSE Size - read_pos + write_pos
    BY <1>2 DEF Count
  <1>4. /\ \A i : i \in there <=>
              /\ i \in 0..(Size - 1) /\ read_pos <= i
              /\ i < (IF read_pos < write_pos THEN write_pos ELSE Size) /\ ba[i] \in newlines
        /\ \A i : i \in front <=> /\ i \in 0..(Size - 1) /\ i < write_pos /\ ba[i] \in newlines
        /\ there \in SUBSET Nat /\ front \in SUBSET Nat
    BY <1>1, <1>2 DEF Found
  <1>5. CASE there # {} /\ Return(Bytes(read_pos, First(there) + 1 - read_pos),
                                  Wrap(First(there) + 1))
    <2>1. PICK f : f = First(there)
      OBVIOUS
    <2>2. f \in there /\ \A i \in there : f <= i
      BY <1>4, <1>5, <2>1, FirstFacts
    <2>3. PICK k : k = f + 1 - read_pos
      OBVIOUS
    <2>4. k \in 1..Count /\ k \in Nat /\ read_pos + k = f + 1 /\ Place(k) = f
      BY <1>2, <1>3, <1>4, <2>2, <2>3 DEF Place, Wrap
    <2>5. \A i \in 1..k : read_pos + i - 1 = Place(i)
      BY <1>2, <1>4, <2>2, <2>3 DEF Place, Wrap
    <2>6. Bytes(read_pos, k) = Bytes(read_pos, k) \o Bytes(read_pos, 0)
      BY <2>4 DEF Bytes
    <2>7. Return(Bytes(read_pos, k) \o Bytes(read_pos, 0), Wrap(read_pos + (k + 0)))
      <3>1. read_pos + (k + 0) = First(there) + 1 /\ First(there) + 1 - read_pos = k
        BY <1>2, <2>1, <2>3, <2>4
      <3>. QED BY <1>5, <2>6, <3>1
    <2>8. Takes(k + 0)
      <3>1. \A i \in 1..0 : read_pos + i - 1 = Place(k + i)
        OBVIOUS
      <3>. QED BY <1>2, <2>4, <2>5, <2>7, <3>1, PiecesTaken
    <2>9. IsLine(k)
      <3>1. \A i \in 1..(k - 1) : Place(i) \in 0..(Size - 1) /\ Place(i) < f
                                  /\ read_pos <= Place(i)
        BY <1>2, <2>2, <1>4, <2>3, <2>4 DEF Place, Wrap
      <3>2. f \in Nat /\ ba[f] \in newlines
            /\ f < (IF read_pos < write_pos THEN write_pos ELSE Size)
        BY <1>4, <2>2
      <3>3. ASSUME NEW i \in 1..(k - 1) PROVE ba[Place(i)] \notin newlines
        <4>1. Place(i) \notin there
          BY <1>2, <2>2, <3>1, <3>2
        <4>2. Place(i) < (IF read_pos < write_pos THEN write_pos ELSE Size)
          BY <1>2, <3>1, <3>2
        <4>. QED BY <1>4, <3>1, <4>1, <4>2
      <3>. QED BY <2>4, <3>2, <3>3 DEF IsLine
    <2>. QED BY <2>4, <2>8, <2>9
  <1>6. CASE there = {} /\ read_pos < write_pos
             /\ Return(Bytes(read_pos, write_pos - read_pos), write_pos)
    <2>1. PICK k : k = write_pos - read_pos
      OBVIOUS
    <2>2. k = Count /\ k \in 1..Count /\ k \in Nat /\ write_pos = Wrap(read_pos + (k + 0))
      BY <1>2, <1>3, <1>6, <2>1 DEF Wrap
    <2>3. \A i \in 1..k : /\ read_pos + i - 1 = Place(i)
                          /\ Place(i) \in 0..(Size - 1) /\ read_pos <= Place(i)
                          /\ Place(i) < write_pos
      BY <1>2, <1>6, <2>1 DEF Place, Wrap
    <2>4. Bytes(read_pos, k) = Bytes(read_pos, k) \o Bytes(read_pos, 0)
      BY <2>2 DEF Bytes
    <2>5. Return(Bytes(read_pos, k) \o Bytes(read_pos, 0), Wrap(read_pos + (k + 0)))
      BY <1>6, <2>1, <2>2, <2>4
    <2>6. Takes(k + 0)
      <3>1. \A i \in 1..0 : read_pos + i - 1 = Place(k + i)
        OBVIOUS
      <3>. QED BY <1>2, <2>2, <2>3, <2>5, <3>1, PiecesTaken
    <2>7. IsLine(k)
      BY <1>4, <1>6, <2>2, <2>3 DEF IsLine
    <2>. QED BY <2>2, <2>6, <2>7
  <1>7. CASE there = {} /\ write_pos <= read_pos
             /\ Return(Bytes(read_pos, Size - read_pos) \o Bytes(0, end), Wrap(end))
    <2>1. /\ end \in 0..write_pos
          /\ end = write_pos \/ (end > 0 /\ ba[end - 1] \in newlines)
          /\ \A i \in Nat : i < end - 1 => ba[i] \notin newlines
      <3>1. front # {} => First(front) \in front /\ \A i \in front : First(front) <= i
        BY <1>4, FirstFacts
      <3>. QED BY <1>1, <1>2, <1>4, <3>1
    <2>2. PICK m : m = Size - read_pos
      OBVIOUS
    <2>3. /\ m \in Nat /\ end \in Nat /\ m + end \in 1..Count /\ m > 0
          /\ Wrap(end) = Wrap(read_pos + (m + end)) /\ (end = write_pos => m + end = Count)
      BY <1>2, <1>3, <1>7, <2>1, <2>2 DEF Wrap
    <2>4. /\ \A i \in 1..m : read_pos + i - 1 = Place(i) /\ Place(i) \in read_pos..(Size - 1)
          /\ \A i \in 1..end : 0 + i - 1 = Place(m + i)
      BY <1>2, <2>1, <2>2 DEF Place, Wrap
    <2>5. Takes(m + end)
      BY <1>7, <2>2, <2>3, <2>4, PiecesTaken
    <2>6. \A i \in 1..m : ba[Place(i)] \notin newlines
      BY <1>2, <1>4, <1>7, <2>4
    <2>7. IsLine(m + end)
      <3>1. m + end = Count \/ ba[Place(m + end)] \in newlines
        <4>1. CASE end = write_pos
          BY <2>3, <4>1
        <4>2. CASE end # write_pos
          <5>1. end \in 1..end /\ 0 + end - 1 = end - 1
            BY <2>1, <2>3, <4>2
          <5>2. Place(m + end) = end - 1
            BY <2>4, <5>1
          <5>. QED BY <2>1, <4>2, <5>2
        <4>. QED BY <4>1, <4>2
      <3>2. ASSUME NEW i \in 1..((m + end) - 1) PROVE ba[Place(i)] \notin newlines
        <4>1. CASE i <= m
          BY <2>3, <2>6, <4>1
        <4>2. CASE ~ (i <= m)
          <5>1. i - m \in 1..end /\ m + (i - m) = i /\ (i - m) - 1 < end - 1 /\ (i - m) - 1 \in Nat
            BY <2>3, <4>2
          <5>2. Place(i) = (i - m) - 1
            BY <2>4, <5>1
          <5>. QED BY <2>1, <5>1, <5>2
        <4>. QED BY <4>1, <4>2
      <3>. QED BY <3>1, <3>2 DEF IsLine
    <2>. QED BY <2>3, <2>5, <2>7
  <1>. QED BY <1>1, <1>5, <1>6, <1>7 DEF readline

LEMMA TakesStep ==
  ASSUME StreamKept, conn_ready, NEW k, Takes(k), asked' \in 0..(Size + 1)
  PROVE  /\ StreamKept'
         /\ Count' = Count - k /\ \A i \in 1..(Count - k) : Held'[i] = Held[k + i]
  <1>1. /\ BufferTypeOK /\ Count \in 0..Size /\ pulled = returned + Count
        /\ Size \in Nat /\ Size > 0 /\ read_pos \in Nat /\ write_pos \in Nat
        /\ read_pos < Size /\ write_pos < Size
        /\ pulled \in 0..MaxBytes /\ returned \in 0..MaxBytes /\ MaxBytes \in Nat
        /\ \A i \in 1..Count : ba[Place(i)] = returned + i
    BY Positions, HeldFacts, SizeAssumption DEF StreamKept, BufferTypeOK
  <1>2. /\ k \in 1..Count /\ returned' = returned + k /\ pulled' = pulled
        /\ answer' \in Seq(Stream) /\ Len(answer') = k
        /\ \A i \in 1..k : answer'[i] = ba[Place(i)]
        /\ UNCHANGED <<ba, write_pos, conn_ready, newlines>>
    BY DEF Takes
  <1>3. BufferTypeOK'
    BY <1>1, <1>2 DEF BufferTypeOK, Takes, Wrap
  <1>4. Count' = Count - k
    <2>1. write_pos = Wrap(read_pos + Count)
      BY <1>1, Positions
    <2>2. /\ Count = IF read_pos = write_pos THEN IF full_state = "READ" THEN Size ELSE 0
                     ELSE IF read_pos < write_pos THEN write_pos - read_pos
                     ELSE Size - (read_pos - write_pos)
          /\ Count' = IF read_pos' = write_pos THEN IF full_state' = "READ" THEN Size ELSE 0
                      ELSE IF read_pos' < write_pos THEN write_pos - read_pos'
                      ELSE Size - (read_pos' - write_pos)
      BY <1>2 DEF Count
    <2>3. /\ read_pos' = IF read_pos + k >= Size THEN read_pos + k - Size ELSE read_pos + k
          /\ read_pos' = write_pos => full_state' = "WRITE"
      BY <1>1, <1>2 DEF Takes, Wrap
    <2>4. k \in Nat /\ k >= 1 /\ k <= Count /\ Count \in Nat /\ Count <= Size
      BY <1>1, <1>2
    <2>5. write_pos = IF read_pos + Count >= Size THEN read_pos + Count - Size
                      ELSE read_pos + Count
      BY <1>1, <2>1 DEF Wrap
    <2>7. CASE read_pos' = write_pos
      BY <1>1, <2>2, <2>3, <2>4, <2>5, <2>7
    <2>8. CASE read_pos' # write_pos
      BY <1>1, <2>2, <2>3, <2>4, <2>5, <2>8
    <2>. QED BY <2>7, <2>8
  <1>5. \A i \in 1..(Count - k) : Place(i)' = Place(k + i)
    BY <1>1, <1>2 DEF Place, Wrap, Takes
  <1>6. \A i \in 1..(Count - k) : Held'[i] = Held[k + i]
    <2>1. \A i \in 1..(Count - k) : i \in 1..Count' /\ k + i \in 1..Count
      BY <1>1, <1>2, <1>4
    <2>2. \A i \in 1..Count' : Held'[i] = ba'[Place(i)']
      BY DEF Held, Place
    <2>3. \A i \in 1..Count : Held[i] = ba[Place(i)]
      BY <1>1, HeldFacts
    <2>. QED BY <1>2, <1>5, <2>1, <2>2, <2>3
  <1>7. StreamKept'
    <2>1. pulled' = returned' + Count'
      BY <1>1, <1>2, <1>4
    <2>2. \A i \in 1..Count' : Held'[i] = returned' + i
      <3>1. \A i \in 1..Count : Held[i] = returned + i
        BY DEF StreamKept
      <3>. QED BY <1>1, <1>2, <1>4, <1>6, <3>1
    <2>3. \A i \in 1..Len(answer') : answer'[i] = returned' - Len(answer') + i
      BY <1>1, <1>2
    <2>. QED BY <1>3, <2>1, <2>2, <2>3 DEF StreamKept
  <1>. QED BY <1>4, <1>6, <1>7

-------------------------------------------------------------------------------
(* Bytes from the socket *)

LEMMA RecvStep ==
  ASSUME StreamKept, conn_ready, NEW n \in 1..(MaxBytes - pulled), recv_from(n),
         pulled' = pulled + n, UNCHANGED <<conn_ready, newlines, returned>>,
         asked' = 0, answer' = <<>>
  PROVE  /\ StreamKept'
         /\ Count' = Count + n /\ \A i \in 1..Count : Held'[i] = Held[i]
  <1>1. /\ BufferTypeOK /\ Count \in 0..Size /\ pulled = returned + Count /\ Count < Size
        /\ Size \in Nat /\ Size > 0 /\ read_pos \in Nat /\ write_pos \in Nat
        /\ read_pos < Size /\ write_pos < Size
        /\ pulled \in 0..MaxBytes /\ returned \in 0..MaxBytes /\ MaxBytes \in Nat
        /\ \A i \in 1..Count : ba[Place(i)] = returned + i
        /\ ba \in [0..(Size - 1) -> Stream \cup {0}]
        /\ write_pos = Wrap(read_pos + Count)
        /\ \A i \in 1..Size : Place(i) \in 0..(Size - 1)
    BY Positions, HeldFacts, SizeAssumption DEF StreamKept, BufferTypeOK, recv_from
  <1>2. /\ n \in Nat /\ n >= 1 /\ pulled + n <= MaxBytes
        /\ write_pos + n <= Size /\ Count + n <= Size
    BY <1>1 DEF recv_from, Room, Wrap, Count
  <1>3. /\ ba' = [i \in 0..(Size - 1) |->
                    IF write_pos <= i /\ i < write_pos + n THEN pulled + 1 + i - write_pos
                    ELSE ba[i]]
        /\ write_pos' = Wrap(write_pos + n) /\ read_pos' = read_pos
        /\ full_state' = IF Wrap(write_pos + n) = read_pos THEN "READ" ELSE full_state
    BY DEF recv_from
  <1>4. \A i \in 0..(Size - 1) :
            /\ write_pos <= i /\ i < write_pos + n => ba'[i] = pulled + 1 + i - write_pos
            /\ ~ (write_pos <= i /\ i < write_pos + n) => ba'[i] = ba[i]
    BY <1>3
  <1>5. ba' \in [0..(Size - 1) -> Stream \cup {0}]
    <2>1. \A i \in 0..(Size - 1) : ba'[i] \in Stream \cup {0}
      <3>. SUFFICES ASSUME NEW i \in 0..(Size - 1) PROVE ba'[i] \in Stream \cup {0}
        OBVIOUS
      <3>1. CASE write_pos <= i /\ i < write_pos + n
        <4>1. ba'[i] = pulled + 1 + i - write_pos /\ pulled + 1 + i - write_pos \in Stream
          BY <1>1, <1>2, <1>4, <3>1, SMTT(30) DEF Stream
        <4>. QED BY <4>1
      <3>2. CASE ~ (write_pos <= i /\ i < write_pos + n)
        BY <1>1, <1>4, <3>2
      <3>. QED BY <3>1, <3>2
    <2>. QED BY <1>3, <2>1
  <1>6. BufferTypeOK'
    <2>1. full_state' \in {"READ", "WRITE"}
      BY <1>1, <1>3 DEF BufferTypeOK
    <2>2. read_pos' \in 0..(Size - 1) /\ write_pos' \in 0..(Size - 1)
      BY <1>1, <1>2, <1>3 DEF Wrap
    <2>3. pulled' \in 0..MaxBytes /\ asked' \in 0..(Size + 1) \cup Stream
          /\ answer' \in Seq(Stream)
      BY <1>1, <1>2
    <2>. QED BY <1>1, <1>5, <2>1, <2>2, <2>3 DEF BufferTypeOK
  <1>7. Count' = Count + n
    <2>1. PICK c, v : c = Count /\ v = write_pos'
      OBVIOUS
    <2>2. /\ c \in Nat /\ c < Size /\ c + n <= Size
          /\ write_pos = IF read_pos + c >= Size THEN read_pos + c - Size ELSE read_pos + c
          /\ v = IF write_pos + n >= Size THEN write_pos + n - Size ELSE write_pos + n
      BY <1>1, <1>2, <1>3, <2>1 DEF Wrap
    <2>3. c + n = IF read_pos = v THEN Size
                  ELSE IF read_pos < v THEN v - read_pos ELSE Size - (read_pos - v)
      BY <1>1, <1>2, <2>2, SMTT(30)
    <2>4. v = read_pos => full_state' = "READ"
      BY <1>3, <2>1
    <2>5. Count' = IF read_pos = v THEN IF full_state' = "READ" THEN Size ELSE 0
                   ELSE IF read_pos < v THEN v - read_pos ELSE Size - (read_pos - v)
      BY <1>3, <2>1 DEF Count
    <2>. QED BY <2>1, <2>3, <2>4, <2>5
  <1>8. \A i \in 1..(Count + n) : Place(i)' = Place(i) /\ i \in 1..Size
    BY <1>1, <1>2, <1>3 DEF Place
  <1>9. \A i \in 1..(Count + n) : Held'[i] = ba'[Place(i)]
    <2>1. \A i \in 1..Count' : Held'[i] = ba'[Place(i)']
      BY DEF Held, Place
    <2>. QED BY <1>7, <1>8, <2>1
  <1>10. ASSUME NEW j \in 1..n
         PROVE  Place(Count + j) = write_pos + j - 1 /\ ba'[Place(Count + j)] = pulled + j
    <2>1. Place(Count + j) = write_pos + j - 1
      BY <1>1, <1>2 DEF Place, Wrap
    <2>2. write_pos + j - 1 \in 0..(Size - 1) /\ write_pos <= write_pos + j - 1
          /\ write_pos + j - 1 < write_pos + n
          /\ pulled + 1 + (write_pos + j - 1) - write_pos = pulled + j
      BY <1>1, <1>2, SMTT(30)
    <2>. QED BY <1>4, <2>1, <2>2
  <1>11. ASSUME NEW i \in 1..Count PROVE ba'[Place(i)] = ba[Place(i)]
    <2>1. Place(i) \in 0..(Size - 1) /\ i \in 1..Size
      BY <1>1
    <2>2. CASE write_pos <= Place(i) /\ Place(i) < write_pos + n
      <3>1. PICK j \in 1..n : Place(i) = write_pos + j - 1
        <4>1. Place(i) - write_pos + 1 \in 1..n
          BY <1>1, <1>2, <2>1, <2>2, SMTT(30)
        <4>2. Place(i) \in Nat /\ Place(i) = write_pos + (Place(i) - write_pos + 1) - 1
          BY <1>1, <2>1, SMTT(30)
        <4>. QED BY <4>1, <4>2
      <3>2. Place(Count + j) = Place(i) /\ Count + j \in 1..Size /\ Count + j # i
        BY <1>1, <1>2, <1>10, <3>1
      <3>. QED BY <1>1, <2>1, <3>2, PlacesDiffer
    <2>3. CASE ~ (write_pos <= Place(i) /\ Place(i) < write_pos + n)
      BY <1>4, <2>1, <2>3
    <2>. QED BY <2>2, <2>3
  <1>12. \A i \in 1..(Count + n) : Held'[i] = returned + i
    <2>. SUFFICES ASSUME NEW i \in 1..(Count + n) PROVE Held'[i] = returned + i
      OBVIOUS
    <2>1. CASE i <= Count
      BY <1>1, <1>9, <1>11, <2>1
    <2>2. CASE ~ (i <= Count)
      <3>1. i - Count \in 1..n /\ Count + (i - Count) = i
            /\ pulled + (i - Count) = returned + i
        BY <1>1, <1>2, <2>2
      <3>. QED BY <1>9, <1>10, <3>1
    <2>. QED BY <2>1, <2>2
  <1>13. \A i \in 1..Count : Held'[i] = Held[i]
    <2>1. \A i \in 1..Count : Held[i] = returned + i
      BY DEF StreamKept
    <2>. QED BY <1>1, <1>2, <1>12, <2>1
  <1>14. StreamKept'
    <2>1. pulled' = returned' + Count' /\ Len(answer') = 0
      BY <1>1, <1>2, <1>7
    <2>. QED BY <1>6, <1>7, <1>12, <2>1 DEF StreamKept
  <1>. QED BY <1>7, <1>13, <1>14

-------------------------------------------------------------------------------
(* The stream *)

LEMMA InitKept == BufferInit => StreamKept
  <1>. SUFFICES ASSUME BufferInit PROVE StreamKept
    OBVIOUS
  <1>1. BufferTypeOK
    <2>1. ba \in [0..(Size - 1) -> Stream \cup {0}]
      BY DEF BufferInit
    <2>. QED BY <2>1, SizeAssumption DEF BufferInit, BufferTypeOK
  <1>2. Count = 0
    BY DEF BufferInit, Count
  <1>. QED BY <1>1, <1>2 DEF BufferInit, StreamKept

LEMMA PeerGoneStep ==
  ASSUME StreamKept, PeerGone
  PROVE  StreamKept'
  <1>1. BufferTypeOK /\ Size \in Nat
    BY SizeAssumption DEF StreamKept
  <1>2. /\ conn_ready' = FALSE /\ asked' = 0 /\ answer' = <<>>
        /\ UNCHANGED <<newlines, pulled, returned>>
    BY DEF PeerGone
  <1>3. /\ ba' \in [0..(Size - 1) -> Stream \cup {0}]
        /\ read_pos' \in 0..(Size - 1) /\ write_pos' \in 0..(Size - 1)
        /\ full_state' \in {"READ", "WRITE"}
    <2>1. CASE UNCHANGED buffer
      BY <1>1, <2>1 DEF BufferTypeOK, buffer
    <2>2. CASE recv_from(0)
      <3>1. /\ ba' = [i \in 0..(Size - 1) |->
                        IF write_pos <= i /\ i < write_pos + 0 THEN pulled + 1 + i - write_pos
                        ELSE ba[i]]
            /\ write_pos' = Wrap(write_pos + 0) /\ read_pos' = read_pos
            /\ full_state' = IF Wrap(write_pos + 0) = read_pos THEN "READ" ELSE full_state
        BY <2>2 DEF recv_from
      <3>2. \A i \in 0..(Size - 1) : ~ (write_pos <= i /\ i < write_pos + 0)
        BY <1>1 DEF BufferTypeOK
      <3>3. Wrap(write_pos + 0) = write_pos
        BY <1>1 DEF BufferTypeOK, Wrap
      <3>. QED BY <1>1, <3>1, <3>2, <3>3 DEF BufferTypeOK
    <2>. QED BY <2>1, <2>2 DEF PeerGone
  <1>4. BufferTypeOK'
    BY <1>1, <1>2, <1>3 DEF BufferTypeOK
  <1>. QED BY <1>2, <1>4 DEF StreamKept

LEMMA DirectStep ==
  ASSUME StreamKept, NEW n \in 1..(MaxBytes - pulled), Direct(n)
  PROVE  StreamKept' /\ Count = 0 /\ Count' = 0
  <1>1. /\ BufferTypeOK /\ conn_ready /\ Count = 0 /\ pulled = returned + Count
        /\ pulled \in Nat /\ MaxBytes \in Nat /\ returned = pulled
    <2>1. BufferTypeOK /\ conn_ready /\ ~ has_data /\ pulled = returned + Count
      BY DEF StreamKept, Direct
    <2>2. Count = 0
      BY <2>1, Positions
    <2>. QED BY <2>1, <2>2, SizeAssumption DEF BufferTypeOK
  <1>2. /\ asked' = n /\ pulled' = pulled + n /\ returned' = returned + n
        /\ answer' = [i \in 1..n |-> pulled + i] /\ UNCHANGED <<buffer, conn_ready, newlines>>
    BY DEF Direct
  <1>3. Count' = 0
    BY <1>1, <1>2 DEF Count, buffer
  <1>4. /\ answer' \in Seq(Stream) /\ Len(answer') = n
        /\ \A i \in 1..n : answer'[i] = pulled + i
    <2>1. \A i \in 1..n : pulled + i \in Stream
      BY <1>1 DEF Stream
    <2>2. n \in Nat
      BY <1>1
    <2>. QED BY <1>2, <2>1, <2>2
  <1>5. BufferTypeOK'
    <2>1. asked' \in Stream /\ pulled' \in 0..MaxBytes /\ returned' \in 0..MaxBytes
      BY <1>1, <1>2 DEF Stream
    <2>. QED BY <1>1, <1>2, <1>4, <2>1 DEF BufferTypeOK, buffer
  <1>6. \A i \in 1..n : answer'[i] = returned' - n + i
    BY <1>1, <1>2, <1>4
  <1>. QED BY <1>1, <1>2, <1>3, <1>4, <1>5, <1>6 DEF StreamKept

LEMMA NextKept == StreamKept /\ [BufferNext]_buffer_vars => StreamKept'
  <1>. SUFFICES ASSUME StreamKept, [BufferNext]_buffer_vars PROVE StreamKept'
    OBVIOUS
  <1>1. Size \in Nat /\ Size > 0
    BY SizeAssumption
  <1>2. ASSUME conn_ready, readline PROVE StreamKept'
    <2>1. asked' \in 0..(Size + 1)
      BY <1>1, <1>2 DEF readline
    <2>. QED BY <1>2, <2>1, ReadlineTakes, TakesStep
  <1>3. ASSUME conn_ready, NEW size \in 1..(Size + 1), read(size) PROVE StreamKept'
    <2>1. asked' \in 0..(Size + 1) /\ size \in Nat \ {0}
      BY <1>1, <1>3 DEF read
    <2>. QED BY <1>3, <2>1, ReadTakes, TakesStep
  <1>4. CASE PeerGone
    BY <1>4, PeerGoneStep
  <1>5. ASSUME NEW n \in 1..(MaxBytes - pulled), Direct(n) PROVE StreamKept'
    BY <1>5, DirectStep
  <1>6. ASSUME NEW n \in 1..(MaxBytes - pulled), Fill(n) PROVE StreamKept'
    BY <1>6, RecvStep DEF Fill
  <1>7. CASE UNCHANGED buffer_vars
    BY <1>7 DEF buffer_vars, buffer, StreamKept, BufferTypeOK, Held, Count, Wrap
  <1>. QED BY <1>2, <1>3, <1>4, <1>5, <1>6, <1>7 DEF BufferNext, Buffered

\* loop.py:36-116, 194-257: whatever the length of the buffer and however the
\* calls follow each other, the callers get the bytes of the stream in their
\* order, none twice and none left out; and the positions stay inside the buffer.
THEOREM StreamIsKept == BufferSpec => []StreamKept
  BY InitKept, NextKept, PTL DEF BufferSpec

-------------------------------------------------------------------------------
(* The refinement *)

Queue == IF conn_ready THEN Held ELSE <<>>

\* The bytes that wait, as a sequence.
LEMMA QueueFacts ==
  ASSUME BufferTypeOK, conn_ready
  PROVE  /\ Queue = Held /\ Len(Held) = Count /\ Count \in 0..Size
         /\ Held = [i \in 1..Count |-> Held[i]]
  BY Positions DEF Queue, Held

\* The first k bytes are an answer of the queue.
LEMMA AbstractTakes ==
  ASSUME StreamKept, conn_ready, NEW k, Takes(k), asked' \in 0..(Size + 1)
  PROVE  Abstract!Take(k) /\ k \in 1..Len(Queue) /\ UNCHANGED newlines
  <1>1. /\ BufferTypeOK /\ BufferTypeOK' /\ conn_ready' /\ Count' = Count - k /\ Count \in 0..Size
        /\ Size \in Nat
        /\ \A i \in 1..(Count - k) : Held'[i] = Held[k + i]
    BY TakesStep, Positions DEF StreamKept, Takes
  <1>2. /\ k \in 1..Count /\ answer' \in Seq(Stream) /\ Len(answer') = k
        /\ \A i \in 1..k : answer'[i] = ba[Place(i)]
        /\ UNCHANGED newlines
    BY DEF Takes
  <1>3. /\ Queue = Held /\ Len(Held) = Count /\ Held = [i \in 1..Count |-> Held[i]]
        /\ \A i \in 1..Count : Held[i] = ba[Place(i)]
    BY <1>1, QueueFacts, HeldFacts
  <1>4. Queue' = Held' /\ Held' = [i \in 1..(Count - k) |-> Held'[i]]
    BY <1>1 DEF Queue, Held
  <1>5. answer' = SubSeq(Queue, 1, k)
    <2>1. SubSeq(Held, 1, k) = [i \in 1..k |-> Held[i]]
      BY <1>1, <1>2, <1>3
    <2>2. answer' = [i \in 1..k |-> answer'[i]]
      BY <1>2
    <2>3. \A i \in 1..k : answer'[i] = Held[i]
      BY <1>1, <1>2, <1>3
    <2>4. [i \in 1..k |-> answer'[i]] = [i \in 1..k |-> Held[i]]
      BY <2>3
    <2>. QED BY <1>3, <2>1, <2>2, <2>4
  <1>6. Queue' = SubSeq(Queue, k + 1, Len(Queue))
    <2>1. SubSeq(Held, k + 1, Count) = [i \in 1..(Count - k) |-> Held[k + i]]
      BY <1>1, <1>2, <1>3
    <2>. QED BY <1>1, <1>3, <1>4, <2>1
  <1>. QED BY <1>2, <1>3, <1>5, <1>6 DEF Abstract!Take, Queue

LEMMA AbstractStep ==
  StreamKept /\ [BufferNext]_buffer_vars => [Abstract!Next]_<<Queue, newlines, asked, answer>>
  <1>. SUFFICES ASSUME StreamKept, [BufferNext]_buffer_vars
                PROVE  [Abstract!Next]_<<Queue, newlines, asked, answer>>
    OBVIOUS
  <1>1. BufferTypeOK /\ Size \in Nat /\ Size > 0 /\ Count \in 0..Size
    BY SizeAssumption, Positions DEF StreamKept
  <1>2. ASSUME conn_ready, readline PROVE Abstract!GetLine /\ UNCHANGED newlines
    <2>1. PICK k \in 1..Count : Takes(k) /\ IsLine(k)
      BY <1>2, ReadlineTakes
    <2>2. asked' = 0 /\ asked' \in 0..(Size + 1)
      BY <1>1, <1>2 DEF readline
    <2>3. Abstract!Take(k) /\ k \in 1..Len(Queue) /\ UNCHANGED newlines
      BY <1>2, <2>1, <2>2, AbstractTakes
    <2>4. /\ Queue = Held /\ Len(Queue) = Count
          /\ \A i \in 1..Count : Held[i] = ba[Place(i)]
      BY <1>1, <1>2, QueueFacts, HeldFacts
    <2>5. Queue[k] \in newlines \/ k = Len(Queue)
      BY <2>1, <2>4 DEF IsLine
    <2>6. \A i \in 1..(k - 1) : Queue[i] \notin newlines
      BY <1>1, <2>1, <2>4 DEF IsLine
    <2>. QED BY <2>2, <2>3, <2>5, <2>6 DEF Abstract!GetLine, Queue
  <1>3. ASSUME conn_ready, NEW size \in 1..(Size + 1), read(size)
        PROVE  Abstract!Get /\ UNCHANGED newlines
    <2>1. asked' = size /\ asked' \in 0..(Size + 1) /\ size \in Nat \ {0} /\ has_data
      BY <1>1, <1>3 DEF read
    <2>2. Takes(Least(size, Count))
      BY <1>3, <2>1, ReadTakes
    <2>3. /\ Abstract!Take(Least(size, Count)) /\ UNCHANGED newlines
      BY <1>3, <2>1, <2>2, AbstractTakes
    <2>4. Len(Queue) = Count /\ Count > 0 /\ Queue # <<>>
      BY <1>1, <1>3, <2>1, QueueFacts, Positions
    <2>5. Least(size, Count) = IF asked' < Len(Queue) THEN asked' ELSE Len(Queue)
      BY <2>1, <2>4 DEF Least
    <2>. QED BY <2>1, <2>3, <2>4, <2>5 DEF Abstract!Get, Queue
  <1>4. CASE PeerGone
    <2>1. Queue' = <<>> /\ answer' = <<>> /\ UNCHANGED newlines
      BY <1>4 DEF PeerGone, Queue
    <2>. QED BY <2>1 DEF Abstract!Next, Abstract!Close, Queue
  <1>5. ASSUME NEW n \in 1..(MaxBytes - pulled), Direct(n)
        PROVE  Abstract!Pass /\ UNCHANGED newlines
    <2>1. Count = 0 /\ Count' = 0 /\ UNCHANGED newlines
      BY <1>5, DirectStep DEF Direct
    <2>2. Queue = <<>> /\ Queue' = <<>>
      BY <2>1 DEF Queue, Held
    <2>. QED BY <2>1, <2>2 DEF Abstract!Pass, Queue
  <1>6. ASSUME NEW n \in 1..(MaxBytes - pulled), Fill(n)
        PROVE  Abstract!Put /\ UNCHANGED newlines
    <2>1. /\ conn_ready /\ conn_ready' /\ answer' = <<>> /\ UNCHANGED newlines
          /\ StreamKept' /\ Count' = Count + n /\ \A i \in 1..Count : Held'[i] = Held[i]
      BY <1>6, RecvStep DEF Fill
    <2>2. /\ Queue = Held /\ Len(Held) = Count /\ Held = [i \in 1..Count |-> Held[i]]
      BY <1>1, <2>1, QueueFacts
    <2>3. BufferTypeOK' /\ Queue' = Held' /\ Held' = [i \in 1..Count' |-> Held'[i]]
      BY <2>1 DEF StreamKept, Queue, Held
    <2>4. n \in Nat /\ n >= 1 /\ Count + n \in Nat /\ Len(Queue') = Count + n
      <3>1. MaxBytes - pulled \in Int
        BY <1>1, SizeAssumption DEF BufferTypeOK
      <3>. QED BY <1>1, <2>1, <2>3, <3>1
    <2>5. Count + n <= Size
      <3>1. (Count \in 0..Size)'
        BY <2>3, SizeAssumption DEF BufferTypeOK, Count
      <3>. QED BY <1>1, <2>1, <3>1
    <2>6. SubSeq(Queue', 1, Count) = Queue
      <3>1. SubSeq(Queue', 1, Count) = [i \in 1..Count |-> Queue'[i]]
        BY <1>1, <2>1, <2>3, <2>4
      <3>. QED BY <2>1, <2>2, <2>3, <3>1
    <2>. QED BY <1>1, <2>1, <2>2, <2>4, <2>5, <2>6 DEF Abstract!Put, Queue
  <1>7. CASE UNCHANGED buffer_vars
    BY <1>7 DEF buffer_vars, buffer, Queue, Held, Count, Wrap
  <1>8. CASE BufferNext
    BY <1>2, <1>3, <1>4, <1>5, <1>6, <1>8 DEF BufferNext, Buffered, Abstract!Next
  <1>. QED BY <1>7, <1>8

\* loop.py:36-116, 194-257: the ring buffer and the methods that read through it
\* are a queue of at most Size bytes; a line ends at its first line feed wherever
\* in the buffer that lies.
THEOREM BufferImplementsByteQueue == BufferSpec => ImplementsByteQueue
  <1>1. BufferInit => Abstract!Init
    BY DEF BufferInit, Abstract!Init, Held, Count
  <1>2. StreamKept /\ [BufferNext]_buffer_vars => [Abstract!Next]_<<Queue, newlines, asked, answer>>
    BY AbstractStep
  <1>. QED BY <1>1, <1>2, StreamIsKept, PTL DEF BufferSpec, ImplementsByteQueue, Abstract!Spec, Queue
===============================================================================
