------------------------------ MODULE PoolProofs ------------------------------
(***************************************************************************)
(* For any number of workers, jobs and changes of the common data, and     *)
(* whatever fails: the pool loses no job and answers none twice, the count *)
(* by which callers wait is right, and every job runs with the common data *)
(* it was handed in with.                                                  *)
(***************************************************************************)
EXTENDS Pool, FiniteSetTheorems, SequenceTheorems, TLAPS

-------------------------------------------------------------------------------
(* Queues *)

Holds(q, e) == \E i \in 1..Len(q) : q[i] = e

NoRepeats(q) == \A i, k \in 1..Len(q) : q[i] = q[k] => i = k

\* What is in a queue of events.
JobIn(q, j)    == Holds(q, <<"job", j>>)
AnswerIn(q, w) == Holds(q, <<"result", w>>) \/ Holds(q, <<"crash", w>>)
DataAt(q)      == {i \in 1..Len(q) : q[i][1] = "data"}

Answers == {"result", "crash"}

\* A job comes once, and after all data; a worker has one answer.
Ordered(q) ==
    \A i, k \in 1..Len(q) : i < k =>
        /\ q[i][1] = "job" => q[k][1] # "data"
        /\ q[i][1] = "job" /\ q[k][1] = "job" => q[i][2] # q[k][2]
        /\ q[i][1] \in Answers /\ q[k][1] \in Answers => q[i][2] # q[k][2]

\* Once the events of q are handled, the common data are d, where they are c now.
LeadsTo(q, c, d) ==
    /\ DataAt(q) = {} => c = d
    /\ \A i \in DataAt(q) : (\A k \in DataAt(q) : k <= i) => q[i][2] = d

LEMMA EventShapes ==
  ASSUME NEW e \in Events
  PROVE  /\ e[1] \in {"stop", "job", "data", "result", "crash"}
         /\ e[1] = "job" => e[2] \in Jobs /\ e = <<"job", e[2]>>
         /\ e[1] = "data" => e[2] \in 1..MaxData /\ e = <<"data", e[2]>>
         /\ e[1] \in Answers => e[2] \in Workers /\ (e = <<"result", e[2]>> \/ e = <<"crash", e[2]>>)
  BY DEF Events, Answers

LEMMA AppendFacts ==
  ASSUME NEW S, NEW q \in Seq(S), NEW e \in S
  PROVE  /\ Append(q, e) \in Seq(S)
         /\ \A f : Holds(Append(q, e), f) <=> Holds(q, f) \/ f = e
         /\ NoRepeats(q) /\ ~ Holds(q, e) => NoRepeats(Append(q, e))
  BY DEF Holds, NoRepeats

LEMMA AppendEvent ==
  ASSUME NEW q \in Seq(Events), NEW e \in Events, NEW c, NEW d, Ordered(q)
  PROVE  /\ e = <<"stop">> => /\ Ordered(Append(q, e)) /\ DataAt(Append(q, e)) = DataAt(q)
                              /\ LeadsTo(q, c, d) => LeadsTo(Append(q, e), c, d)
         /\ e[1] = "job" /\ ~ JobIn(q, e[2]) =>
                /\ Ordered(Append(q, e)) /\ DataAt(Append(q, e)) = DataAt(q)
                /\ LeadsTo(q, c, d) => LeadsTo(Append(q, e), c, d)
         /\ e[1] = "data" /\ (\A j \in Jobs : ~ JobIn(q, j)) =>
                Ordered(Append(q, e)) /\ LeadsTo(Append(q, e), c, e[2])
         /\ e[1] \in Answers /\ ~ AnswerIn(q, e[2]) =>
                /\ Ordered(Append(q, e)) /\ DataAt(Append(q, e)) = DataAt(q)
                /\ LeadsTo(q, c, d) => LeadsTo(Append(q, e), c, d)
  <1>1. PICK p : p = Append(q, e)
    OBVIOUS
  <1>2. /\ Len(q) \in Nat /\ Len(p) = Len(q) + 1 /\ p[Len(q) + 1] = e
        /\ \A i \in 1..Len(q) : i \in 1..Len(p) /\ p[i] = q[i] /\ q[i] \in Events
        /\ \A i \in 1..Len(p) : i \in 1..Len(q) \/ i = Len(q) + 1
    BY <1>1
  <1>3. e[1] # "data" => DataAt(p) = DataAt(q) /\ (LeadsTo(q, c, d) => LeadsTo(p, c, d))
    <2>. SUFFICES ASSUME e[1] # "data"
                  PROVE  DataAt(p) = DataAt(q) /\ (LeadsTo(q, c, d) => LeadsTo(p, c, d))
      OBVIOUS
    <2>1. DataAt(p) = DataAt(q)
      BY <1>2 DEF DataAt
    <2>2. \A i \in DataAt(q) : p[i] = q[i]
      BY <1>2 DEF DataAt
    <2>. QED BY <2>1, <2>2 DEF LeadsTo
  <1>4. e = <<"stop">> => Ordered(p) /\ e[1] # "data"
    BY <1>2 DEF Ordered, Answers
  <1>5. e[1] = "job" /\ ~ JobIn(q, e[2]) => Ordered(p)
    <2>1. \A i \in 1..Len(q) : q[i][1] = "job" => q[i] = <<"job", q[i][2]>>
      BY <1>2, EventShapes
    <2>2. ~ JobIn(q, e[2]) => \A i \in 1..Len(q) : q[i][1] = "job" => q[i][2] # e[2]
      BY <2>1 DEF JobIn, Holds
    <2>. QED BY <1>2, <2>2 DEF Ordered, Answers
  <1>6. e[1] = "data" /\ (\A j \in Jobs : ~ JobIn(q, j)) => Ordered(p) /\ LeadsTo(p, c, e[2])
    <2>. SUFFICES ASSUME e[1] = "data", \A j \in Jobs : ~ JobIn(q, j)
                  PROVE  Ordered(p) /\ LeadsTo(p, c, e[2])
      OBVIOUS
    <2>1. ASSUME NEW i \in 1..Len(q), q[i][1] = "job" PROVE FALSE
      <3>1. q[i][2] \in Jobs /\ q[i] = <<"job", q[i][2]>>
        BY <1>2, <2>1, EventShapes
      <3>. QED BY <3>1 DEF JobIn, Holds
    <2>2. Ordered(p)
      <3>1. \A i, k \in 1..Len(p) : i < k => i \in 1..Len(q) /\ (k \in 1..Len(q) \/ k = Len(q) + 1)
        BY <1>2
      <3>2. p[Len(q) + 1][1] \notin Answers
        BY <1>2 DEF Answers
      <3>. QED BY <1>2, <2>1, <3>1, <3>2 DEF Ordered
    <2>3. Len(q) + 1 \in DataAt(p) /\ \A i \in DataAt(p) : i <= Len(q) + 1
      BY <1>2 DEF DataAt
    <2>4. \A i \in DataAt(p) : (\A k \in DataAt(p) : k <= i) => i = Len(q) + 1
      <3>1. \A i \in DataAt(p) : i \in Nat
        BY <1>2 DEF DataAt
      <3>. QED BY <1>2, <2>3, <3>1
    <2>. QED BY <1>2, <2>2, <2>3, <2>4 DEF LeadsTo
  <1>7. e[1] \in Answers /\ ~ AnswerIn(q, e[2]) => Ordered(p) /\ e[1] # "data"
    <2>1. \A i \in 1..Len(q) :
             q[i][1] \in Answers => q[i] = <<"result", q[i][2]>> \/ q[i] = <<"crash", q[i][2]>>
      BY <1>2, EventShapes
    <2>2. ~ AnswerIn(q, e[2]) => \A i \in 1..Len(q) : q[i][1] \in Answers => q[i][2] # e[2]
      BY <2>1 DEF AnswerIn, Holds
    <2>. QED BY <1>2, <2>2 DEF Ordered, Answers
  <1>. QED BY <1>1, <1>3, <1>4, <1>5, <1>6, <1>7

LEMMA TailEvent ==
  ASSUME NEW q \in Seq(Events), q # <<>>, NEW c, NEW d, Ordered(q)
  PROVE  /\ Tail(q) \in Seq(Events) /\ Ordered(Tail(q)) /\ Head(q) \in Events
         /\ \A f : Holds(q, f) <=> Holds(Tail(q), f) \/ f = Head(q)
         /\ Head(q)[1] = "job" => ~ JobIn(Tail(q), Head(q)[2]) /\ DataAt(q) = {}
         /\ Head(q)[1] \in Answers => ~ AnswerIn(Tail(q), Head(q)[2])
         /\ Head(q)[1] # "data" => /\ DataAt(Tail(q)) = {} <=> DataAt(q) = {}
                                   /\ LeadsTo(q, c, d) => LeadsTo(Tail(q), c, d)
         /\ Head(q)[1] = "data" => /\ DataAt(q) # {}
                                   /\ LeadsTo(q, c, d) => LeadsTo(Tail(q), Head(q)[2], d)
  <1>1. PICK p, e : p = Tail(q) /\ e = Head(q)
    OBVIOUS
  <1>2. /\ Len(q) \in Nat /\ Len(q) >= 1 /\ Len(p) = Len(q) - 1 /\ p \in Seq(Events)
        /\ e = q[1] /\ e \in Events
        /\ \A i \in 1..Len(p) : i + 1 \in 1..Len(q) /\ p[i] = q[i + 1]
        /\ \A i \in 1..Len(q) : i = 1 \/ (i - 1 \in 1..Len(p) /\ q[i] = p[i - 1])
    <2>1. Len(q) \in Nat /\ Len(q) >= 1 /\ e = q[1] /\ e \in Events /\ p \in Seq(Events)
      BY <1>1
    <2>2. Len(p) = Len(q) - 1 /\ \A i \in 1..Len(p) : p[i] = q[i + 1]
      BY <1>1
    <2>3. \A i \in 1..Len(q) : i # 1 => i - 1 \in 1..Len(p) /\ p[i - 1] = q[(i - 1) + 1]
      BY <2>1, <2>2
    <2>. QED BY <2>1, <2>2, <2>3
  <1>3. Ordered(p)
    <2>1. ASSUME NEW i \in 1..Len(p), NEW k \in 1..Len(p), i < k
          PROVE  /\ i + 1 \in 1..Len(q) /\ k + 1 \in 1..Len(q) /\ i + 1 < k + 1
                 /\ p[i] = q[i + 1] /\ p[k] = q[k + 1]
      BY <1>2, <2>1
    <2>. QED BY <2>1, SMTT(30) DEF Ordered
  <1>4. \A f : Holds(q, f) <=> Holds(p, f) \/ f = e
    BY <1>2 DEF Holds
  <1>5. \A i \in 1..Len(p) : /\ e[1] = "job" => p[i][1] # "data"
                             /\ e[1] = "job" /\ p[i][1] = "job" => p[i][2] # e[2]
                             /\ e[1] \in Answers /\ p[i][1] \in Answers => p[i][2] # e[2]
    BY <1>2 DEF Ordered
  <1>6. e[1] = "job" => ~ JobIn(p, e[2]) /\ DataAt(q) = {}
    <2>1. e[1] = "job" => ~ JobIn(p, e[2])
      BY <1>5 DEF JobIn, Holds
    <2>. QED BY <1>2, <1>5, <2>1 DEF DataAt
  <1>7. e[1] \in Answers => ~ AnswerIn(p, e[2])
    BY <1>5 DEF AnswerIn, Holds, Answers
  <1>8. /\ \A i : i \in DataAt(p) => i \in Nat /\ i + 1 \in DataAt(q) /\ q[i + 1] = p[i]
        /\ \A i : i \in DataAt(q) => i \in Nat /\ (i = 1 \/ (i - 1 \in DataAt(p)))
        /\ 1 \in DataAt(q) <=> e[1] = "data"
    BY <1>2 DEF DataAt
  <1>9. ASSUME NEW i \in DataAt(p), \A k \in DataAt(p) : k <= i
        PROVE  i + 1 \in DataAt(q) /\ q[i + 1] = p[i] /\ \A k \in DataAt(q) : k <= i + 1
    <2>1. i \in Nat /\ \A k \in DataAt(q) : k \in Nat /\ (k = 1 \/ k - 1 <= i)
      BY <1>8, <1>9
    <2>. QED BY <1>8, <2>1
  <1>10. e[1] # "data" => /\ DataAt(p) = {} <=> DataAt(q) = {}
                          /\ LeadsTo(q, c, d) => LeadsTo(p, c, d)
    BY <1>8, <1>9 DEF LeadsTo
  <1>11. e[1] = "data" => DataAt(q) # {} /\ (LeadsTo(q, c, d) => LeadsTo(p, e[2], d))
    <2>. SUFFICES ASSUME e[1] = "data", LeadsTo(q, c, d) PROVE LeadsTo(p, e[2], d)
      BY <1>8
    <2>1. ASSUME DataAt(p) = {} PROVE e[2] = d
      <3>1. 1 \in DataAt(q) /\ \A k \in DataAt(q) : k <= 1
        BY <1>8, <2>1
      <3>. QED BY <1>2, <3>1 DEF LeadsTo
    <2>. QED BY <1>9, <2>1 DEF LeadsTo
  <1>. QED BY <1>1, <1>2, <1>3, <1>4, <1>6, <1>7, <1>10, <1>11

-------------------------------------------------------------------------------
(* The inductive invariant *)

Kept(j) == Holds(pending_jobs, j)
With(j) == \E w \in Workers : busy_workers[w] = j

\* The places a job may be in; it is in one.
OneOf(j) ==
    /\ JobIn(events, j) \/ Kept(j) \/ With(j) \/ hand = j \/ results[j] = 1
    /\ JobIn(events, j) => ~ Kept(j) /\ ~ With(j) /\ hand # j /\ results[j] = 0
    /\ Kept(j) => ~ With(j) /\ hand # j /\ results[j] = 0
    /\ With(j) => hand # j /\ results[j] = 0

Nowhere(j) ==
    ~ JobIn(events, j) /\ ~ Kept(j) /\ ~ With(j) /\ hand # j /\ results[j] = 0

\* What the thread is at, and that a failure or a shutdown is the end.
Thread ==
    /\ pool \in {"start", "run", "put", "crashed"} => hand # None
    /\ hand # None => /\ pool \in {"start", "run", "put", "crashed", "blocked"}
                      /\ results[hand] = 0
    /\ pool \in {"begin", "start"} => n_workers < max_workers
    /\ pool = "run" /\ ~ shutting_down => available_workers # {}
    /\ terminal_failure => shutting_down /\ pool = "ended"
    /\ shutting_down => /\ terminal_failure \/ caller = "gone"
                        /\ available_workers = {} /\ Busy = {}

Placed ==
    /\ \A j \in Jobs : j > n_jobs => Nowhere(j) /\ used[j] = None
    /\ NoRepeats(pending_jobs)
    /\ \A v, w \in Busy : busy_workers[v] = busy_workers[w] => v = w
    /\ Ordered(events)
    /\ ~ shutting_down =>
        /\ \A j \in 1..n_jobs : OneOf(j)
        /\ available_workers \cap Busy = {} /\ available_workers \cup Busy = 1..n_workers
        /\ \A w \in Workers : AnswerIn(events, w) => w \in Busy

\* The jobs without a result, and those of them the tracker counts.
Open == {j \in 1..n_jobs : results[j] = 0}

Tracked == IF pool \in {"put", "crashed"} THEN Open \ {hand} ELSE Open

Tracks ==
    IF ~ terminal_failure THEN tracker = Cardinality(Tracked)
    ELSE /\ tracker = Cardinality(Open) \/ \E x \in Open : tracker = Cardinality(Open \ {x})
         /\ caller # "gone" =>
                \E x \in Jobs \cup {None} : \A j \in Open : JobIn(events, j) \/ j = x

\* Jobs that no worker was sent yet.
Unsent(j) == JobIn(events, j) \/ Kept(j) \/ (hand = j /\ pool \in {"start", "run"})

Fresh ==
    ~ shutting_down =>
        /\ LeadsTo(events, common_data, data)
        /\ DataAt(events) # {} => /\ Busy = {} /\ pending_jobs = <<>>
                                  /\ pool \notin {"start", "run"}
        /\ \A w \in 1..n_workers : worker_data[w] = common_data
        /\ \A j \in Jobs : Unsent(j) => due[j] = data
        /\ caller = "returned" => tracker = 0

IInv == TypeOK /\ Thread /\ Placed /\ Tracks /\ Fresh /\ CommonDataReaches

LEMMA InitIInv == Init => IInv
  <1>. SUFFICES ASSUME Init PROVE IInv
    OBVIOUS
  <1>. USE PoolAssumption DEF Init
  <1>1. events = <<>> /\ pending_jobs = <<>> /\ Len(events) = 0 /\ Len(pending_jobs) = 0
    OBVIOUS
  <1>2. None \notin Jobs /\ Jobs \subseteq Nat /\ 1 \in Workers
    BY DEF Jobs, Workers
  <1>3. Open = {} /\ Tracked = {} /\ Cardinality({}) = 0
    BY FS_EmptySet DEF Open, Tracked
  <1>4. TypeOK
    <2>1. events \in Seq(Events) /\ pending_jobs \in Seq(Jobs)
      OBVIOUS
    <2>2. results \in [Jobs -> 0..1] /\ due \in [Jobs -> 0..MaxData]
          /\ worker_data \in [Workers -> 0..MaxData]
      OBVIOUS
    <2>3. used \in [Jobs -> 0..MaxData \cup {None}] /\ busy_workers \in [Workers -> Jobs \cup {None}]
      OBVIOUS
    <2>4. 0 \in 0..MaxJobs /\ 0 \in 0..MaxData /\ 0 \in 0..max_workers
      OBVIOUS
    <2>5. terminal_failure \in BOOLEAN
      OBVIOUS
    <2>6. shutting_down \in BOOLEAN
      OBVIOUS
    <2>. QED BY <2>1, <2>2, <2>3, <2>4, <2>5, <2>6 DEF TypeOK
  <1>5. \A f : ~ Holds(events, f) /\ ~ Holds(pending_jobs, f)
    BY <1>1 DEF Holds
  <1>6. Busy = {} /\ \A j \in Jobs : ~ With(j)
    BY <1>2 DEF Busy, With
  <1>7. \A j \in Jobs : Nowhere(j) /\ used[j] = None
    BY <1>2, <1>5, <1>6 DEF Nowhere, JobIn, Kept
  <1>8. Thread
    BY <1>6 DEF Thread
  <1>9. Ordered(events) /\ NoRepeats(pending_jobs)
    BY <1>1 DEF Ordered, NoRepeats
  <1>10. Placed
    BY <1>5, <1>6, <1>7, <1>9 DEF Placed, AnswerIn
  <1>11. Tracks
    BY <1>3 DEF Tracks
  <1>12. DataAt(events) = {} /\ LeadsTo(events, common_data, data)
    BY <1>1 DEF DataAt, LeadsTo
  <1>13. Fresh
    BY <1>12, <1>7 DEF Fresh, Unsent, Nowhere
  <1>14. CommonDataReaches
    BY <1>7 DEF CommonDataReaches
  <1>. QED BY <1>4, <1>8, <1>10, <1>11, <1>13, <1>14 DEF IInv

-------------------------------------------------------------------------------
(* What the steps need *)

LEMMA OpenFacts ==
  ASSUME TypeOK
  PROVE  /\ Open \subseteq Jobs /\ IsFiniteSet(Open) /\ Cardinality(Open) \in 0..MaxJobs
         /\ Tracked \subseteq Open /\ IsFiniteSet(Tracked) /\ Cardinality(Tracked) \in 0..MaxJobs
         /\ Jobs \subseteq Nat /\ None \notin Jobs /\ n_jobs \in Nat /\ tracker \in Nat
         /\ n_workers \in Nat /\ 1..n_workers \subseteq Workers
  <1>1. /\ n_jobs \in 0..MaxJobs /\ MaxJobs \in Nat /\ None \notin Nat
        /\ n_workers \in 0..max_workers /\ max_workers \in Nat /\ tracker \in Nat
    BY PoolAssumption DEF TypeOK
  <1>2. Open \subseteq 1..n_jobs /\ Tracked \subseteq Open
    BY DEF Open, Tracked
  <1>3. IsFiniteSet(1..n_jobs) /\ Cardinality(1..n_jobs) <= MaxJobs
    <2>1. 1 \in Int /\ n_jobs \in Int
      BY <1>1
    <2>2. /\ IsFiniteSet(1..n_jobs)
          /\ Cardinality(1..n_jobs) = IF 1 > n_jobs THEN 0 ELSE n_jobs - 1 + 1
      BY <2>1, FS_Interval
    <2>. QED BY <1>1, <2>2
  <1>4. IsFiniteSet(Open) /\ Cardinality(Open) \in Nat /\ Cardinality(Open) <= Cardinality(1..n_jobs)
    BY <1>2, <1>3, FS_Subset, FS_CardinalityType
  <1>5. /\ IsFiniteSet(Tracked) /\ Cardinality(Tracked) \in Nat
        /\ Cardinality(Tracked) <= Cardinality(Open)
    BY <1>2, <1>4, FS_Subset, FS_CardinalityType
  <1>6. Cardinality(1..n_jobs) \in Nat
    BY <1>3, FS_CardinalityType
  <1>. QED BY <1>1, <1>2, <1>3, <1>4, <1>5, <1>6 DEF Jobs, Workers

\* A job in the queue, kept, with a worker or about to be run is counted.
LEMMA JobsAreTracked ==
  ASSUME IInv, ~ shutting_down, NEW j \in Jobs,
         JobIn(events, j) \/ Kept(j) \/ With(j)
             \/ (hand = j /\ pool \notin {"put", "crashed"})
  PROVE  j \in Tracked /\ j \in 1..n_jobs
  <1>1. j \in 1..n_jobs
    <2>1. ~ (j > n_jobs)
      BY DEF IInv, Placed, Nowhere
    <2>. QED BY <2>1, OpenFacts DEF IInv, Jobs
  <1>2. OneOf(j)
    BY <1>1 DEF IInv, Placed
  <1>3. results[j] = 0 /\ (hand # j \/ pool \notin {"put", "crashed"})
    <2>1. j # None /\ results[j] \in 0..1 /\ (hand # None => results[hand] = 0)
      BY OpenFacts DEF IInv, Thread, TypeOK
    <2>. QED BY <1>2, <2>1 DEF OneOf
  <1>. QED BY <1>1, <1>3 DEF Tracked, Open

LEMMA NothingTracked ==
  ASSUME IInv, ~ shutting_down, Tracked = {}
  PROVE  /\ \A j \in Jobs : ~ JobIn(events, j) /\ ~ Kept(j) /\ ~ Unsent(j)
         /\ Busy = {} /\ pending_jobs = <<>> /\ pool \notin {"start", "run"}
  <1>1. \A j \in Jobs : ~ JobIn(events, j) /\ ~ Kept(j) /\ ~ With(j)
                        /\ ~ (hand = j /\ pool \notin {"put", "crashed"})
    BY JobsAreTracked
  <1>2. hand \in Jobs \cup {None} /\ (pool \in {"start", "run"} => hand # None)
    BY DEF IInv, TypeOK, Thread
  <1>3. pool \notin {"start", "run"}
    BY <1>1, <1>2
  <1>4. Busy = {}
    <2>1. \A w \in Workers : busy_workers[w] \in Jobs \cup {None}
      BY DEF IInv, TypeOK
    <2>. QED BY <1>1, <2>1 DEF Busy, With
  <1>5. pending_jobs = <<>>
    <2>1. pending_jobs \in Seq(Jobs)
      BY DEF IInv, TypeOK
    <2>2. pending_jobs # <<>> => 1 \in 1..Len(pending_jobs) /\ pending_jobs[1] \in Jobs
      BY <2>1
    <2>. QED BY <1>1, <2>2 DEF Kept, Holds
  <1>. QED BY <1>1, <1>3, <1>4, <1>5 DEF Unsent

\* The sets a failure or a step leaves, when those who are in Open change.
LEMMA Minus ==
  ASSUME NEW T, IsFiniteSet(T), NEW D \in SUBSET T
  PROVE  /\ IsFiniteSet(T \ D) /\ Cardinality(T \ D) = Cardinality(T) - Cardinality(D)
         /\ Cardinality(D) \in Nat /\ Cardinality(T) \in Nat /\ Cardinality(T \ D) \in Nat
  <1>1. IsFiniteSet(D) /\ IsFiniteSet(T \ D)
    BY FS_Subset
  <1>2. T \cap D = D
    OBVIOUS
  <1>. QED BY <1>1, <1>2, FS_Difference, FS_CardinalityType

\* terminal_error(): x is the job that is in no list, if one is.
LEMMA TerminalStep ==
  ASSUME IInv, ~ terminal_failure, NEW rest \in Seq(Jobs), NEW x \in Jobs \cup {None},
         Terminal(busy_workers, rest), UNCHANGED <<outside, n_workers, used>>,
         common_data' \in 0..MaxData, worker_data' \in [Workers -> 0..MaxData],
         \A j \in Jobs : Holds(rest, j) => Kept(j),
         \A j \in Jobs : Kept(j) => Holds(rest, j) \/ j = x,
         hand # None => x = hand
  PROVE  IInv'
  <1>. USE DEF IInv
  <1>0. UNCHANGED <<caller, n_jobs, data, due, n_workers, used>>
    BY DEF outside
  <1>1. terminal_failure' = TRUE /\ pool' = "ended" /\ hand' = None
    BY DEF Terminal, Becomes
  <1>2. CommonDataReaches'
    BY <1>0 DEF CommonDataReaches
  <1>3. CASE shutting_down
    <2>1. UNCHANGED <<results, tracker, events, shutting_down, available_workers,
                      busy_workers, pending_jobs>>
      BY <1>3 DEF Terminal
    <2>2. TypeOK'
      BY <1>0, <1>1, <2>1 DEF TypeOK
    <2>3. Thread'
      BY <1>0, <1>1, <1>3, <2>1 DEF Thread, Busy
    <2>4. \A j \in Jobs : j > n_jobs => Nowhere(j)' /\ used[j] = None
      BY <1>0, <1>1, <2>1, OpenFacts DEF Placed, Nowhere, JobIn, Kept, With
    <2>5. Placed'
      BY <1>0, <1>1, <1>3, <2>1, <2>4 DEF Placed, Busy
    <2>6. Open' = Open /\ caller = "gone"
      BY <1>0, <1>3, <2>1 DEF Open, Thread
    <2>7. Tracked = Open \/ (Tracked = Open \ {hand} /\ hand \in Open)
      <3>1. pool \in {"put", "crashed"} => hand \in Jobs /\ results[hand] = 0 /\ ~ (hand > n_jobs)
        BY DEF Thread, TypeOK, Placed, Nowhere
      <3>2. pool \in {"put", "crashed"} => hand \in Open
        BY <3>1, OpenFacts DEF Open, Jobs
      <3>. QED BY <3>2 DEF Tracked
    <2>8. Tracks'
      BY <1>0, <1>1, <2>1, <2>6, <2>7 DEF Tracks
    <2>9. Fresh'
      BY <1>3, <2>1 DEF Fresh
    <2>. QED BY <1>2, <2>2, <2>3, <2>5, <2>8, <2>9
  <1>4. CASE ~ shutting_down
    <2>1. PICK D : D = {busy_workers[w] : w \in {v \in Workers : busy_workers[v] # None}}
                           \cup ToSetOf(rest)
      OBVIOUS
    <2>2. /\ results' = [j \in Jobs |-> results[j] + IF j \in D THEN 1 ELSE 0]
          /\ tracker' = tracker - Cardinality(D)
          /\ pending_jobs' = <<>> /\ shutting_down' = TRUE /\ events' = Append(events, <<"stop">>)
          /\ available_workers' = {} /\ busy_workers' = [w \in Workers |-> None]
      BY <1>4, <2>1 DEF Terminal, ShutDown
    <2>3. \A j \in Jobs : j \in D <=> With(j) \/ Holds(rest, j)
      <3>1. None \notin Jobs
        BY OpenFacts
      <3>. QED BY <2>1, <3>1 DEF With, Holds, ToSetOf
    <2>4. D \subseteq Jobs
      <3>1. \A w \in Workers : busy_workers[w] \in Jobs \cup {None}
        BY DEF TypeOK
      <3>2. \A i \in 1..Len(rest) : rest[i] \in Jobs
        OBVIOUS
      <3>. QED BY <2>1, <3>1, <3>2 DEF ToSetOf
    <2>5. D \subseteq Tracked
      BY <1>4, <2>3, <2>4, JobsAreTracked
    <2>6. \A j \in D : results[j] = 0 /\ j \in 1..n_jobs
      BY <2>5 DEF Tracked, Open
    <2>7. \A j \in Jobs : results[j] \in 0..1 /\ results'[j] = IF j \in D THEN 1 ELSE results[j]
      <3>1. \A j \in Jobs : results[j] \in 0..1
        BY DEF TypeOK
      <3>. QED BY <2>2, <2>6, <3>1
    <2>8. Open' = Open \ D
      <3>1. \A j \in 1..n_jobs : j \in Jobs
        BY PoolAssumption DEF Jobs, TypeOK
      <3>. QED BY <1>0, <2>7, <3>1 DEF Open
    <2>9. /\ tracker' = Cardinality(Tracked \ D) /\ Cardinality(Tracked \ D) \in 0..MaxJobs
      <3>1. tracker = Cardinality(Tracked) /\ Cardinality(Tracked) \in 0..MaxJobs
        BY OpenFacts DEF Tracks
      <3>2. IsFiniteSet(Tracked)
        BY OpenFacts
      <3>3. /\ Cardinality(Tracked \ D) = Cardinality(Tracked) - Cardinality(D)
            /\ Cardinality(D) \in Nat /\ Cardinality(Tracked \ D) \in Nat
        BY <2>5, <3>2, Minus
      <3>4. PICK t, c, r : /\ t = Cardinality(Tracked) /\ c = Cardinality(D)
                           /\ r = Cardinality(Tracked \ D)
        OBVIOUS
      <3>5. tracker' = t - c /\ t = tracker /\ r = t - c /\ c \in Nat /\ r \in Nat /\ t \in 0..MaxJobs
        BY <2>2, <3>1, <3>3, <3>4
      <3>. QED BY <3>4, <3>5, PoolAssumption
    <2>10. <<"stop">> \in Events /\ events \in Seq(Events)
      BY DEF Events, TypeOK
    <2>11. events' \in Seq(Events) /\ Ordered(events')
      BY <2>2, <2>10, AppendFacts, AppendEvent DEF Placed
    <2>12. \A j : JobIn(events, j)' <=> JobIn(events, j)
      <3>1. \A f : Holds(events', f) <=> Holds(events, f) \/ f = <<"stop">>
        BY <2>2, <2>10, AppendFacts
      <3>. QED BY <3>1 DEF JobIn
    <2>13. TypeOK'
      <3>1. results' \in [Jobs -> 0..1] /\ busy_workers' \in [Workers -> Jobs \cup {None}]
        BY <2>2, <2>7
      <3>2. pending_jobs' \in Seq(Jobs) /\ tracker' \in 0..MaxJobs
        BY <2>2, <2>9
      <3>. QED BY <1>0, <1>1, <2>2, <2>11, <3>1, <3>2 DEF TypeOK
    <2>14. Busy' = {} /\ \A j \in Jobs : ~ With(j)' /\ ~ Kept(j)' /\ hand' # j
      <3>1. None \notin Jobs /\ Len(<<>>) = 0
        BY OpenFacts
      <3>. QED BY <1>1, <2>2, <3>1 DEF Busy, With, Kept, Holds
    <2>15. Thread'
      BY <1>1, <2>2, <2>14 DEF Thread
    <2>16. \A j \in Jobs : j > n_jobs => Nowhere(j)' /\ used[j] = None
      BY <2>6, <2>7, <2>12, <2>14, OpenFacts DEF Placed, Nowhere
    <2>17. Placed'
      <3>1. NoRepeats(pending_jobs')
        BY <2>2 DEF NoRepeats
      <3>. QED BY <1>0, <2>2, <2>11, <2>14, <2>16, <3>1 DEF Placed
    <2>18. tracker' = Cardinality(Open') \/ \E y \in Open' : tracker' = Cardinality(Open' \ {y})
      <3>1. CASE pool \in {"put", "crashed"}
        <4>1. hand \in Jobs /\ results[hand] = 0 /\ ~ (hand > n_jobs)
          BY <3>1 DEF Thread, TypeOK, Placed, Nowhere
        <4>2. hand \in Open
          BY <4>1, OpenFacts DEF Open, Jobs
        <4>3. Tracked = Open \ {hand}
          BY <3>1 DEF Tracked
        <4>4. hand \in Open' /\ Tracked \ D = Open' \ {hand}
          BY <2>5, <2>8, <4>2, <4>3
        <4>. QED BY <2>9, <4>4
      <3>2. CASE pool \notin {"put", "crashed"}
        <4>1. Tracked \ D = Open'
          BY <2>8, <3>2 DEF Tracked
        <4>. QED BY <2>9, <4>1
      <3>. QED BY <3>1, <3>2
    <2>19. \A j \in Open' : JobIn(events, j)' \/ j = x
      <3>. SUFFICES ASSUME NEW j \in Open' PROVE JobIn(events, j) \/ j = x
        BY <2>12
      <3>1. j \in 1..n_jobs /\ j \in Jobs /\ results[j] = 0 /\ ~ With(j) /\ ~ Holds(rest, j)
        BY <2>3, <2>8, OpenFacts DEF Open
      <3>2. OneOf(j) /\ j # None
        BY <1>4, <3>1, OpenFacts DEF Placed
      <3>. QED BY <3>1, <3>2 DEF OneOf
    <2>20. Tracks'
      BY <1>1, <2>18, <2>19 DEF Tracks
    <2>21. Fresh'
      BY <2>2 DEF Fresh
    <2>. QED BY <1>2, <2>13, <2>15, <2>17, <2>20, <2>21
  <1>. QED BY <1>3, <1>4

\* run_job() of the job in hand or of the last pending one.
LEMMA RunJobStep ==
  ASSUME IInv, NEW j \in Jobs, NEW rest \in Seq(Jobs), NEW l \in {"get", "drain"},
         RunJob(j, rest, l), UNCHANGED outside, NoRepeats(rest),
         \/ pool = "run" /\ hand = j
         \/ pool = "drain" /\ hand = None /\ Kept(j) /\ available_workers # {},
         \A k \in Jobs : Kept(k) <=> Holds(rest, k) \/ (hand = None /\ k = j),
         ~ shutting_down => ~ Holds(rest, j)
  PROVE  IInv'
  <1>. USE DEF IInv
  <1>0. UNCHANGED <<caller, n_jobs, data, due>>
    BY DEF outside
  <1>1. ~ terminal_failure /\ pool \in {"run", "drain"} /\ None \notin Jobs
    BY OpenFacts DEF Thread
  <1>2. CASE \E w \in available_workers :
              /\ available_workers' = available_workers \ {w}
              /\ busy_workers' = [busy_workers EXCEPT ![w] = j]
              /\ used' = [used EXCEPT ![j] = worker_data[w]]
              /\ pending_jobs' = rest
              /\ Becomes(l, None)
              /\ UNCHANGED <<shared, n_workers, common_data, worker_data>>
    <2>1. PICK w \in available_workers :
              /\ available_workers' = available_workers \ {w}
              /\ busy_workers' = [busy_workers EXCEPT ![w] = j]
              /\ used' = [used EXCEPT ![j] = worker_data[w]]
              /\ pending_jobs' = rest /\ pool' = l /\ hand' = None
              /\ UNCHANGED <<tracker, events, results, terminal_failure, shutting_down>>
              /\ UNCHANGED <<n_workers, common_data, worker_data>>
      BY <1>2 DEF Becomes, shared
    <2>2. ~ shutting_down /\ w \in 1..n_workers /\ w \in Workers /\ w \notin Busy
      BY OpenFacts DEF Thread, Placed, TypeOK
    <2>3. j \in 1..n_jobs /\ OneOf(j) /\ ~ (j > n_jobs)
      <3>1. JobIn(events, j) \/ Kept(j) \/ With(j) \/ (hand = j /\ pool \notin {"put", "crashed"})
        BY <1>1
      <3>2. j \in 1..n_jobs
        BY <2>2, <3>1, JobsAreTracked
      <3>. QED BY <2>2, <3>2, OpenFacts DEF Placed
    <2>4. ~ JobIn(events, j) /\ ~ With(j) /\ results[j] = 0 /\ Unsent(j)
      <3>1. hand = j \/ Kept(j)
        OBVIOUS
      <3>2. hand = j => results[j] = 0
        BY <1>1 DEF Thread
      <3>. QED BY <1>1, <2>3, <3>1, <3>2 DEF OneOf, Unsent
    <2>5. DataAt(events) = {} /\ common_data = data
      <3>1. pool = "run" \/ pending_jobs # <<>>
        BY DEF Kept, Holds
      <3>. QED BY <2>2, <3>1 DEF Fresh, LeadsTo
    <2>6. worker_data[w] = due[j]
      BY <2>2, <2>4, <2>5 DEF Fresh
    <2>7. \A v \in Workers : busy_workers'[v] = IF v = w THEN j ELSE busy_workers[v]
      BY <2>1, <2>2 DEF TypeOK
    <2>8. Busy' = Busy \cup {w} /\ \A k \in Jobs : With(k)' <=> With(k) \/ k = j
      BY <1>1, <2>2, <2>7 DEF Busy, With
    <2>9. /\ \A k : JobIn(events, k)' <=> JobIn(events, k)
          /\ \A v : AnswerIn(events, v)' <=> AnswerIn(events, v)
          /\ \A k \in Jobs : Kept(k)' <=> Kept(k) /\ k # j
      <3>1. \A k \in Jobs : Kept(k)' <=> Holds(rest, k)
        BY <2>1 DEF Kept
      <3>2. \A k \in Jobs : k # j /\ Kept(k) => Holds(rest, k)
        BY <1>1
      <3>3. \A k \in Jobs : Holds(rest, k) => k # j /\ Kept(k)
        BY <2>2
      <3>4. \A k \in Jobs : Kept(k)' <=> Kept(k) /\ k # j
        BY <3>1, <3>2, <3>3
      <3>. QED BY <2>1, <3>4 DEF JobIn, AnswerIn
    <2>10. TypeOK'
      <3>1. busy_workers' \in [Workers -> Jobs \cup {None}]
        BY <2>1 DEF TypeOK
      <3>2. worker_data[w] \in 0..MaxData
        BY <2>2 DEF TypeOK
      <3>3. used' \in [Jobs -> 0..MaxData \cup {None}]
        BY <2>1, <3>2 DEF TypeOK
      <3>. QED BY <1>0, <2>1, <3>1, <3>3 DEF TypeOK
    <2>11. Thread'
      BY <1>0, <1>1, <2>1, <2>2 DEF Thread
    <2>12. Placed'
      <3>1. \A k \in Jobs : k > n_jobs => Nowhere(k)' /\ used'[k] = None
        <4>1. \A k \in Jobs : k > n_jobs => k # j /\ Nowhere(k) /\ used[k] = None
          BY <2>3 DEF Placed
        <4>2. \A k \in Jobs : k # j => used'[k] = used[k] /\ k # None
          BY <1>1, <2>1 DEF TypeOK
        <4>. QED BY <1>1, <2>1, <2>8, <2>9, <4>1, <4>2 DEF Nowhere
      <3>2. \A u, v \in Busy' : busy_workers'[u] = busy_workers'[v] => u = v
        <4>1. \A v \in Busy : v \in Workers /\ busy_workers[v] # j
          BY <2>4 DEF Busy, With
        <4>. QED BY <2>2, <2>7, <2>8, <4>1 DEF Placed
      <3>3. \A k \in 1..n_jobs : OneOf(k)'
        <4>. SUFFICES ASSUME NEW k \in 1..n_jobs PROVE OneOf(k)'
          OBVIOUS
        <4>1. k \in Jobs /\ OneOf(k) /\ k # None
          BY <1>1, <2>2, PoolAssumption DEF Placed, TypeOK, Jobs
        <4>2. k # j => hand # k \/ k = j
          BY <1>1, <4>1
        <4>. QED BY <2>1, <2>4, <2>8, <2>9, <4>1, <4>2 DEF OneOf
      <3>4. available_workers' \cap Busy' = {} /\ available_workers' \cup Busy' = 1..n_workers
        BY <2>1, <2>2, <2>8 DEF Placed
      <3>5. \A v \in Workers : AnswerIn(events, v)' => v \in Busy'
        BY <2>2, <2>8, <2>9 DEF Placed
      <3>. QED BY <1>0, <2>1, <3>1, <3>2, <3>3, <3>4, <3>5 DEF Placed
    <2>13. Tracks'
      <3>1. Open' = Open
        BY <1>0, <2>1 DEF Open
      <3>2. Tracked' = Tracked
        BY <1>1, <2>1, <3>1 DEF Tracked
      <3>. QED BY <1>1, <2>1, <3>2 DEF Tracks
    <2>14. Fresh'
      <3>1. \A k \in Jobs : Unsent(k)' => Unsent(k)
        BY <2>1, <2>9 DEF Unsent
      <3>2. caller' = "returned" => tracker' = 0
        BY <1>0, <2>1, <2>2 DEF Fresh
      <3>. QED BY <1>0, <2>1, <2>2, <2>5, <3>1, <3>2 DEF Fresh, DataAt
    <2>15. CommonDataReaches'
      BY <1>0, <2>1, <2>6 DEF CommonDataReaches, TypeOK
    <2>. QED BY <2>10, <2>11, <2>12, <2>13, <2>14, <2>15
  <1>3. CASE /\ Terminal(busy_workers, rest)
             /\ UNCHANGED <<n_workers, common_data, worker_data, used>>
    <2>1. \A k \in Jobs : /\ Holds(rest, k) => Kept(k)
                          /\ Kept(k) => Holds(rest, k) \/ k = j
      OBVIOUS
    <2>2. common_data' \in 0..MaxData /\ worker_data' \in [Workers -> 0..MaxData]
      BY <1>3 DEF TypeOK
    <2>3. hand # None => j = hand
      OBVIOUS
    <2>. QED BY <1>1, <1>3, <2>1, <2>2, <2>3, TerminalStep
  <1>4. CASE /\ available_workers = {}
             /\ Becomes("ended", None)
             /\ UNCHANGED <<shared, n_workers, available_workers, busy_workers, pending_jobs,
                            common_data, worker_data, used>>
    <2>1. /\ shutting_down /\ pool = "run" /\ pool' = "ended" /\ hand' = None
          /\ UNCHANGED <<tracker, events, results, terminal_failure, shutting_down>>
          /\ UNCHANGED <<n_workers, available_workers, busy_workers, pending_jobs,
                         common_data, worker_data, used>>
      BY <1>4 DEF Thread, Becomes, shared
    <2>2. TypeOK'
      BY <1>0, <2>1 DEF TypeOK
    <2>3. Thread'
      BY <1>0, <1>1, <2>1 DEF Thread, Busy
    <2>4. \A k \in Jobs : k > n_jobs => Nowhere(k)' /\ used'[k] = None
      BY <1>1, <2>1 DEF Placed, Nowhere, JobIn, Kept, With
    <2>5. Placed'
      BY <1>0, <2>1, <2>4 DEF Placed, Busy
    <2>6. Tracks'
      BY <1>0, <1>1, <2>1 DEF Tracks, Tracked, Open
    <2>7. Fresh' /\ CommonDataReaches'
      BY <1>0, <2>1 DEF Fresh, CommonDataReaches
    <2>. QED BY <2>2, <2>3, <2>5, <2>6, <2>7
  <1>. QED BY <1>2, <1>3, <1>4 DEF RunJob

-------------------------------------------------------------------------------
(* The caller's steps *)

LEMMA CallStep == IInv /\ Call => IInv'
  <1>. SUFFICES ASSUME IInv, Call PROVE IInv'
    OBVIOUS
  <1>. USE DEF IInv
  <1>0. /\ caller \in {"free", "returned"} /\ n_jobs < MaxJobs
        /\ UNCHANGED <<data, results, terminal_failure, shutting_down>>
        /\ UNCHANGED <<pool, hand, n_workers, available_workers, busy_workers, pending_jobs,
                       common_data, worker_data, used>>
    BY DEF Call, inside
  <1>1. CASE terminal_failure
    <2>1. caller' = "failed" /\ UNCHANGED <<n_jobs, due, tracker, events>>
      BY <1>1 DEF Call
    <2>2. TypeOK' /\ Thread' /\ CommonDataReaches' /\ shutting_down
      BY <1>0, <1>1, <2>1 DEF TypeOK, Thread, CommonDataReaches, Busy
    <2>3. Placed'
      BY <1>0, <2>1, <2>2 DEF Placed, Nowhere, JobIn, Kept, With, Busy
    <2>4. Tracks'
      BY <1>0, <1>1, <2>1 DEF Tracks, Open, JobIn
    <2>5. Fresh'
      BY <1>0, <2>2 DEF Fresh
    <2>. QED BY <2>2, <2>3, <2>4, <2>5
  <1>2. CASE ~ terminal_failure
    <2>1. PICK j : j = n_jobs + 1
      OBVIOUS
    <2>2. /\ caller' = "free" /\ n_jobs' = j /\ due' = [due EXCEPT ![j] = data]
          /\ tracker' = tracker + 1 /\ events' = Append(events, <<"job", j>>)
      BY <1>2, <2>1 DEF Call
    <2>3. /\ j \in Jobs /\ j \in Nat /\ n_jobs \in Nat /\ j > n_jobs
          /\ \A k \in Jobs : k > j => k > n_jobs
          /\ \A k \in 1..j : k = j \/ k \in 1..n_jobs
          /\ \A k \in 1..n_jobs : k \in 1..j /\ k # j /\ k \in Jobs
      BY <1>0, <2>1, PoolAssumption DEF Jobs, TypeOK
    <2>4. ~ shutting_down
      BY <1>0, <1>2 DEF Thread
    <2>5. Nowhere(j) /\ used[j] = None
      BY <2>3 DEF Placed
    <2>6. <<"job", j>> \in Events /\ <<"job", j>>[1] = "job" /\ <<"job", j>>[2] = j
      BY <2>3 DEF Events
    <2>7. /\ events' \in Seq(Events) /\ Ordered(events') /\ DataAt(events') = DataAt(events)
          /\ \A c, d : LeadsTo(events, c, d) => LeadsTo(events', c, d)
          /\ \A f : Holds(events', f) <=> Holds(events, f) \/ f = <<"job", j>>
      <3>1. events \in Seq(Events) /\ Ordered(events) /\ ~ JobIn(events, j)
        BY <2>5 DEF TypeOK, Placed, Nowhere
      <3>. QED BY <2>2, <2>6, <3>1, AppendFacts, AppendEvent
    <2>8. /\ \A k : JobIn(events, k)' <=> JobIn(events, k) \/ k = j
          /\ \A w : AnswerIn(events, w)' <=> AnswerIn(events, w)
      BY <2>7 DEF JobIn, AnswerIn
    <2>9. Open' = Open \cup {j} /\ Tracked' = Tracked \cup {j} /\ j \notin Tracked
      <3>1. results[j] = 0 /\ hand # j
        BY <2>5 DEF Nowhere
      <3>2. Open' = Open \cup {j} /\ j \notin Open
        BY <1>0, <2>2, <2>3, <3>1 DEF Open
      <3>. QED BY <1>0, <3>1, <3>2 DEF Tracked
    <2>10. tracker' = Cardinality(Tracked') /\ tracker' \in 0..MaxJobs
      <3>1. tracker = Cardinality(Tracked) /\ IsFiniteSet(Tracked)
        BY <1>2, OpenFacts DEF Tracks
      <3>2. /\ IsFiniteSet(Tracked \cup {j})
            /\ Cardinality(Tracked \cup {j}) = IF j \in Tracked THEN Cardinality(Tracked)
                                               ELSE Cardinality(Tracked) + 1
        BY <3>1, FS_AddElement
      <3>3. tracker' = Cardinality(Tracked')
        BY <2>2, <2>9, <3>1, <3>2
      <3>4. Tracked' \subseteq Jobs
        BY <2>3, <2>9, OpenFacts
      <3>5. IsFiniteSet(Jobs) /\ Cardinality(Jobs) <= MaxJobs
        <4>1. 1 \in Int /\ MaxJobs \in Int /\ MaxJobs \in Nat
          BY PoolAssumption
        <4>2. /\ IsFiniteSet(1..MaxJobs)
              /\ Cardinality(1..MaxJobs) = IF 1 > MaxJobs THEN 0 ELSE MaxJobs - 1 + 1
          BY <4>1, FS_Interval
        <4>. QED BY <4>1, <4>2 DEF Jobs
      <3>6. Cardinality(Tracked') <= Cardinality(Jobs) /\ Cardinality(Jobs) \in Nat
        BY <3>4, <3>5, FS_Subset, FS_CardinalityType
      <3>7. tracker \in Nat
        BY OpenFacts
      <3>8. PICK a, b : a = Cardinality(Tracked') /\ b = Cardinality(Jobs)
        OBVIOUS
      <3>9. tracker' = a /\ a <= b /\ b \in Nat /\ b <= MaxJobs /\ a = tracker + 1
        BY <2>2, <3>3, <3>5, <3>6, <3>8
      <3>. QED BY <3>3, <3>7, <3>9, PoolAssumption
    <2>11. TypeOK'
      <3>1. due' \in [Jobs -> 0..MaxData]
        BY <2>2 DEF TypeOK
      <3>2. n_jobs' \in 0..MaxJobs
        BY <2>2, <2>3 DEF Jobs
      <3>. QED BY <1>0, <2>2, <2>7, <2>10, <3>1, <3>2 DEF TypeOK
    <2>12. Thread'
      BY <1>0, <1>2, <2>4 DEF Thread, Busy
    <2>13. Placed'
      <3>1. \A k \in Jobs : k > n_jobs' => Nowhere(k)' /\ used'[k] = None
        <4>1. \A k \in Jobs : k > j => k # j
          BY <2>3
        <4>. QED BY <1>0, <2>2, <2>3, <2>8, <4>1 DEF Placed, Nowhere, Kept, With
      <3>2. \A k \in 1..n_jobs' : OneOf(k)'
        <4>1. OneOf(j)'
          BY <1>0, <2>5, <2>8 DEF OneOf, Nowhere, Kept, With
        <4>2. \A k \in 1..n_jobs : OneOf(k) /\ k # j
          BY <2>3, <2>4 DEF Placed
        <4>3. \A k \in 1..n_jobs : OneOf(k)'
          BY <1>0, <2>8, <4>2 DEF OneOf, Kept, With
        <4>. QED BY <2>2, <2>3, <4>1, <4>3
      <3>. QED BY <1>0, <2>4, <2>7, <2>8, <3>1, <3>2 DEF Placed, Busy
    <2>14. Tracks'
      BY <1>0, <1>2, <2>10 DEF Tracks
    <2>15. Fresh'
      <3>1. \A k \in Jobs : Unsent(k)' => k = j \/ Unsent(k)
        BY <1>0, <2>8 DEF Unsent, Kept
      <3>2. \A k \in Jobs : due'[k] = IF k = j THEN data ELSE due[k]
        BY <2>2 DEF TypeOK
      <3>. QED BY <1>0, <2>2, <2>4, <2>7, <3>1, <3>2 DEF Fresh, Busy
    <2>16. CommonDataReaches'
      <3>1. \A k \in Jobs : k # j => due'[k] = due[k]
        BY <2>2 DEF TypeOK
      <3>. QED BY <1>0, <2>5, <3>1 DEF CommonDataReaches
    <2>. QED BY <2>11, <2>12, <2>13, <2>14, <2>15, <2>16
  <1>. QED BY <1>1, <1>2

LEMMA SetCommonDataStep == IInv /\ SetCommonData => IInv'
  <1>. SUFFICES ASSUME IInv, SetCommonData PROVE IInv'
    OBVIOUS
  <1>. USE DEF IInv
  <1>0. /\ caller = "returned" \/ (caller = "free" /\ n_jobs = 0)
        /\ data < MaxData /\ ~ terminal_failure
        /\ UNCHANGED <<caller, n_jobs, due, tracker, results, terminal_failure, shutting_down>>
        /\ UNCHANGED <<pool, hand, n_workers, available_workers, busy_workers, pending_jobs,
                       common_data, worker_data, used>>
    BY DEF SetCommonData, inside
  <1>1. PICK d : d = data + 1
    OBVIOUS
  <1>2. data' = d /\ events' = Append(events, <<"data", d>>) /\ d \in 1..MaxData
    BY <1>0, <1>1, PoolAssumption DEF SetCommonData, TypeOK
  <1>3. ~ shutting_down
    BY <1>0 DEF Thread
  <1>4. Tracked = {}
    <2>1. CASE caller = "returned"
      <3>1. Cardinality(Tracked) = 0 /\ IsFiniteSet(Tracked)
        BY <1>0, <1>3, <2>1, OpenFacts DEF Fresh, Tracks
      <3>. QED BY <3>1, FS_EmptySet
    <2>2. CASE n_jobs = 0
      BY <2>2 DEF Tracked, Open
    <2>. QED BY <1>0, <2>1, <2>2
  <1>5. /\ \A j \in Jobs : ~ JobIn(events, j) /\ ~ Kept(j) /\ ~ Unsent(j)
        /\ Busy = {} /\ pending_jobs = <<>> /\ pool \notin {"start", "run"}
    BY <1>3, <1>4, NothingTracked
  <1>6. <<"data", d>> \in Events /\ <<"data", d>>[1] = "data" /\ <<"data", d>>[2] = d
    BY <1>2 DEF Events
  <1>7. /\ events' \in Seq(Events) /\ Ordered(events') /\ LeadsTo(events', common_data, d)
        /\ \A f : Holds(events', f) <=> Holds(events, f) \/ f = <<"data", d>>
    <2>1. events \in Seq(Events) /\ Ordered(events)
      BY DEF TypeOK, Placed
    <2>2. PICK e : e = <<"data", d>>
      OBVIOUS
    <2>3. e \in Events /\ e[1] = "data" /\ e[2] = d /\ events' = Append(events, e)
      BY <1>2, <1>6, <2>2
    <2>4. Ordered(Append(events, e)) /\ LeadsTo(Append(events, e), common_data, e[2])
      BY <1>5, <2>1, <2>3, AppendEvent
    <2>5. /\ Append(events, e) \in Seq(Events)
          /\ \A f : Holds(Append(events, e), f) <=> Holds(events, f) \/ f = e
      BY <2>1, <2>3, AppendFacts
    <2>. QED BY <2>2, <2>3, <2>4, <2>5
  <1>8. /\ \A k : JobIn(events, k)' <=> JobIn(events, k)
        /\ \A w : AnswerIn(events, w)' <=> AnswerIn(events, w)
    BY <1>7 DEF JobIn, AnswerIn
  <1>9. TypeOK'
    BY <1>0, <1>2, <1>7 DEF TypeOK
  <1>10. Thread'
    BY <1>0, <1>3 DEF Thread, Busy
  <1>11. Placed'
    BY <1>0, <1>3, <1>7, <1>8 DEF Placed, Nowhere, OneOf, Kept, With, Busy
  <1>12. Tracks'
    BY <1>0 DEF Tracks, Tracked, Open
  <1>13. Fresh'
    <2>1. \A k \in Jobs : ~ Unsent(k)'
      BY <1>0, <1>5, <1>8 DEF Unsent, Kept
    <2>2. Busy' = {} /\ pending_jobs' = <<>> /\ pool' \notin {"start", "run"}
      BY <1>0, <1>5 DEF Busy
    <2>. QED BY <1>0, <1>2, <1>3, <1>7, <2>1, <2>2 DEF Fresh
  <1>14. CommonDataReaches'
    BY <1>0 DEF CommonDataReaches
  <1>. QED BY <1>9, <1>10, <1>11, <1>12, <1>13, <1>14

\* Only the caller's own state changes, by a wait.
LEMMA CallerWaits ==
  ASSUME IInv, UNCHANGED <<n_jobs, data, due, shared, inside>>,
         caller' \in {"waiting", "returned", "failed"},
         caller \in {"free", "waiting"},
         caller' = "returned" => tracker = 0
  PROVE  IInv'
  <1>. USE DEF IInv
  <1>0. UNCHANGED <<n_jobs, data, due>> /\ UNCHANGED shared /\ UNCHANGED inside
    OBVIOUS
  <1>1. TypeOK'
    BY <1>0 DEF TypeOK, shared, inside
  <1>2. Thread'
    BY <1>0 DEF Thread, shared, inside, Busy
  <1>3. Placed'
    BY <1>0 DEF Placed, shared, inside, Busy, Nowhere, OneOf, Kept, With, JobIn
  <1>4. Tracks'
    BY <1>0 DEF Tracks, Tracked, Open, shared, inside
  <1>5. Fresh'
    BY <1>0 DEF Fresh, shared, inside, Busy, Unsent, Kept
  <1>6. CommonDataReaches'
    BY <1>0 DEF CommonDataReaches, inside
  <1>. QED BY <1>1, <1>2, <1>3, <1>4, <1>5, <1>6

LEMMA CallerShutsDownStep == IInv /\ CallerShutsDown => IInv'
  <1>. SUFFICES ASSUME IInv, CallerShutsDown PROVE IInv'
    OBVIOUS
  <1>. USE DEF IInv
  <1>0. /\ ~ shutting_down /\ caller' = "gone"
        /\ shutting_down' = TRUE /\ events' = Append(events, <<"stop">>)
        /\ available_workers' = {} /\ busy_workers' = [w \in Workers |-> None]
        /\ UNCHANGED <<n_jobs, data, due, tracker, results, terminal_failure, pool, hand,
                       n_workers, pending_jobs, common_data, worker_data, used>>
    BY DEF CallerShutsDown, ShutDown
  <1>1. ~ terminal_failure /\ None \notin Jobs
    BY <1>0, OpenFacts DEF Thread
  <1>2. <<"stop">> \in Events
    BY DEF Events
  <1>3. /\ events' \in Seq(Events) /\ Ordered(events')
        /\ \A f : Holds(events', f) <=> Holds(events, f) \/ f = <<"stop">>
    <2>1. events \in Seq(Events) /\ Ordered(events)
      BY DEF TypeOK, Placed
    <2>. QED BY <1>0, <1>2, <2>1, AppendFacts, AppendEvent
  <1>4. \A k : JobIn(events, k)' <=> JobIn(events, k)
    BY <1>3 DEF JobIn
  <1>5. Busy' = {} /\ \A j \in Jobs : ~ With(j)'
    BY <1>0, <1>1 DEF Busy, With
  <1>6. TypeOK'
    BY <1>0, <1>3 DEF TypeOK
  <1>7. Thread'
    BY <1>0, <1>1, <1>5 DEF Thread
  <1>8. Placed'
    BY <1>0, <1>3, <1>4, <1>5 DEF Placed, Nowhere, Kept
  <1>9. Tracks'
    BY <1>0, <1>1 DEF Tracks, Tracked, Open
  <1>10. Fresh' /\ CommonDataReaches'
    BY <1>0 DEF Fresh, CommonDataReaches
  <1>. QED BY <1>6, <1>7, <1>8, <1>9, <1>10

-------------------------------------------------------------------------------
(* The workers' step *)

LEMMA WorkerEndsStep == ASSUME NEW w \in Workers PROVE IInv /\ WorkerEnds(w) => IInv'
  <1>. SUFFICES ASSUME IInv, WorkerEnds(w) PROVE IInv'
    OBVIOUS
  <1>. USE DEF IInv
  <1>0. /\ w \in Busy
        /\ UNCHANGED <<caller, n_jobs, data, due, tracker, results, terminal_failure, shutting_down>>
        /\ UNCHANGED <<pool, hand, n_workers, available_workers, busy_workers, pending_jobs,
                       common_data, worker_data, used>>
    BY DEF WorkerEnds, outside, inside
  <1>1. PICK kind \in Answers : events' = Append(events, <<kind, w>>)
    BY DEF WorkerEnds, Answers
  <1>2. ~ AnswerIn(events, w)
    BY DEF WorkerEnds, AnswerIn, Holds
  <1>3. /\ <<kind, w>> \in Events /\ <<kind, w>>[1] \in Answers /\ <<kind, w>>[2] = w
        /\ kind # "job"
    BY DEF Events, Answers
  <1>4. /\ events' \in Seq(Events) /\ Ordered(events') /\ DataAt(events') = DataAt(events)
        /\ \A c, d : LeadsTo(events, c, d) => LeadsTo(events', c, d)
        /\ \A f : Holds(events', f) <=> Holds(events, f) \/ f = <<kind, w>>
    <2>1. events \in Seq(Events) /\ Ordered(events)
      BY DEF TypeOK, Placed
    <2>2. PICK e : e = <<kind, w>>
      OBVIOUS
    <2>3. e \in Events /\ e[1] \in Answers /\ e[2] = w /\ events' = Append(events, e)
      BY <1>1, <1>3, <2>2
    <2>4. /\ Ordered(events') /\ DataAt(events') = DataAt(events)
          /\ \A c, d : LeadsTo(events, c, d) => LeadsTo(events', c, d)
      BY <1>2, <2>1, <2>3, AppendEvent
    <2>5. events' \in Seq(Events) /\ \A f : Holds(events', f) <=> Holds(events, f) \/ f = e
      BY <2>1, <2>3, AppendFacts
    <2>. QED BY <2>2, <2>4, <2>5
  <1>5. /\ \A k : JobIn(events, k)' <=> JobIn(events, k)
        /\ \A v : AnswerIn(events, v)' => AnswerIn(events, v) \/ v = w
    BY <1>3, <1>4 DEF JobIn, AnswerIn
  <1>6. TypeOK'
    BY <1>0, <1>4 DEF TypeOK
  <1>7. Thread'
    BY <1>0 DEF Thread, Busy
  <1>8. Placed'
    <2>1. Busy' = Busy
      BY <1>0 DEF Busy
    <2>2. \A j \in Jobs : (Nowhere(j) => Nowhere(j)') /\ (OneOf(j) => OneOf(j)')
      BY <1>0, <1>5 DEF Nowhere, OneOf, Kept, With
    <2>3. \A j \in 1..n_jobs : j \in Jobs
      BY PoolAssumption DEF TypeOK, Jobs
    <2>. QED BY <1>0, <1>4, <1>5, <2>1, <2>2, <2>3 DEF Placed
  <1>9. Tracks'
    BY <1>0, <1>5 DEF Tracks, Tracked, Open
  <1>10. Fresh'
    <2>1. \A j : Unsent(j)' <=> Unsent(j)
      BY <1>0, <1>5 DEF Unsent, Kept
    <2>. QED BY <1>0, <1>4, <2>1 DEF Fresh, Busy
  <1>11. CommonDataReaches'
    BY <1>0 DEF CommonDataReaches
  <1>. QED BY <1>6, <1>7, <1>8, <1>9, <1>10, <1>11

-------------------------------------------------------------------------------
(* The steps of the pool's thread *)

\* The thread gets stuck, or ends, with nothing said.
LEMMA ThreadStuck ==
  ASSUME IInv, ~ terminal_failure, pool \in {"begin", "start"},
         hand' = hand, pool' = "blocked" \/ (pool' = "dead" /\ hand = None),
         UNCHANGED <<caller, n_jobs, data, due, shared, n_workers, available_workers,
                     busy_workers, pending_jobs, common_data, worker_data, used>>
  PROVE  IInv'
  <1>. USE DEF IInv, shared
  <1>1. TypeOK' /\ Thread' /\ CommonDataReaches'
    BY DEF TypeOK, Thread, CommonDataReaches, Busy
  <1>2. Placed'
    BY DEF Placed, Nowhere, OneOf, JobIn, Kept, With, Busy
  <1>3. Tracks'
    BY DEF Tracks, Tracked, Open
  <1>4. Fresh'
    BY DEF Fresh, Unsent, JobIn, Kept, Busy
  <1>. QED BY <1>1, <1>2, <1>3, <1>4

LEMMA StartWorkerStep == IInv /\ StartWorker => IInv'
  <1>. SUFFICES ASSUME IInv, StartWorker PROVE IInv'
    OBVIOUS
  <1>. USE DEF IInv
  <1>0. pool \in {"begin", "start"} /\ UNCHANGED <<outside, common_data, used>>
    BY DEF StartWorker
  <1>1. ~ terminal_failure /\ n_workers < max_workers /\ None \notin Jobs
    BY <1>0, OpenFacts DEF Thread
  <1>2. CASE /\ Terminal(busy_workers, pending_jobs)
             /\ UNCHANGED <<n_workers, worker_data>>
    <2>1. hand \in Jobs \cup {None} /\ pending_jobs \in Seq(Jobs)
      BY DEF TypeOK
    <2>2. common_data' \in 0..MaxData /\ worker_data' \in [Workers -> 0..MaxData]
      BY <1>0, <1>2 DEF TypeOK
    <2>. QED BY <1>0, <1>1, <1>2, <2>1, <2>2, TerminalStep DEF Kept
  <1>3. CASE /\ n_workers' = n_workers + 1
             /\ available_workers' = IF shutting_down THEN available_workers
                                     ELSE available_workers \cup {n_workers'}
             /\ worker_data' = [worker_data EXCEPT ![n_workers'] = common_data]
             /\ Becomes(IF pool = "begin" THEN "get" ELSE "run", hand)
             /\ UNCHANGED <<tracker, events, results, terminal_failure, shutting_down,
                            busy_workers, pending_jobs>>
    <2>1. PICK n : n = n_workers + 1
      OBVIOUS
    <2>2. /\ n_workers' = n /\ n \in Workers /\ n \notin 1..n_workers /\ n \in 0..max_workers
          /\ 1..n = (1..n_workers) \cup {n}
      BY <1>1, <1>3, <2>1, PoolAssumption DEF TypeOK, Workers
    <2>3. /\ available_workers' = IF shutting_down THEN available_workers
                                  ELSE available_workers \cup {n}
          /\ worker_data' = [worker_data EXCEPT ![n] = common_data]
          /\ pool' \in {"get", "run"} /\ hand' = hand
          /\ pool' = "run" <=> pool = "start"
          /\ UNCHANGED <<caller, n_jobs, data, due, common_data, used>>
          /\ UNCHANGED <<tracker, events, results, terminal_failure, shutting_down,
                         busy_workers, pending_jobs>>
      BY <1>0, <1>3, <2>2 DEF Becomes, outside
    <2>4. TypeOK'
      <3>1. worker_data' \in [Workers -> 0..MaxData] /\ available_workers' \subseteq 1..n
        BY <2>2, <2>3 DEF TypeOK
      <3>. QED BY <2>2, <2>3, <3>1 DEF TypeOK
    <2>5. Thread'
      <3>1. /\ pool' \in {"start", "run", "put", "crashed"} => hand' # None
            /\ hand' # None => pool' = "run"
        BY <1>0, <2>3 DEF Thread
      <3>. QED BY <1>0, <1>1, <2>2, <2>3, <3>1 DEF Thread, Busy
    <2>6. Placed'
      <3>1. /\ Busy' = Busy
            /\ \A j \in Jobs : (Nowhere(j) => Nowhere(j)') /\ (OneOf(j) => OneOf(j)')
        BY <2>3 DEF Nowhere, OneOf, Kept, With, JobIn, Busy
      <3>2. ~ shutting_down => /\ available_workers' \cap Busy = {}
                               /\ available_workers' \cup Busy = 1..n
        BY <2>2, <2>3 DEF Placed
      <3>3. \A j \in 1..n_jobs : j \in Jobs
        BY PoolAssumption DEF TypeOK, Jobs
      <3>. QED BY <2>2, <2>3, <3>1, <3>2, <3>3 DEF Placed
    <2>7. Tracks'
      BY <1>0, <1>1, <2>3 DEF Tracks, Tracked, Open
    <2>8. Fresh'
      <3>1. \A j \in Jobs : Unsent(j)' <=> Unsent(j)
        <4>1. hand = None \/ (pool = "start" /\ pool' = "run")
          BY <1>0, <2>3 DEF Thread
        <4>. QED BY <1>1, <2>3, <4>1 DEF Unsent, Kept
      <3>2. ~ shutting_down => \A w \in 1..n : worker_data'[w] = common_data
        <4>1. \A w \in 1..n : w \in Workers /\ (w = n \/ (w \in 1..n_workers /\ w # n))
          BY <2>2, OpenFacts
        <4>2. \A w \in Workers : worker_data'[w] = IF w = n THEN common_data ELSE worker_data[w]
          BY <2>3 DEF TypeOK
        <4>. QED BY <4>1, <4>2 DEF Fresh
      <3>3. pool' = "run" => pool = "start"
        BY <2>3
      <3>4. Busy' = Busy /\ pool' # "start"
        BY <2>3 DEF Busy
      <3>. QED BY <2>2, <2>3, <3>1, <3>2, <3>3, <3>4 DEF Fresh
    <2>9. CommonDataReaches'
      BY <2>3 DEF CommonDataReaches
    <2>. QED BY <2>4, <2>5, <2>6, <2>7, <2>8, <2>9
  <1>4. CASE /\ Becomes("blocked", hand)
             /\ UNCHANGED <<shared, n_workers, available_workers, busy_workers,
                            pending_jobs, worker_data>>
    <2>1. /\ pool' = "blocked" /\ hand' = hand
          /\ UNCHANGED <<caller, n_jobs, data, due, shared, n_workers, available_workers,
                         busy_workers, pending_jobs, common_data, worker_data, used>>
      BY <1>0, <1>4 DEF Becomes, outside
    <2>. QED BY <1>0, <1>1, <2>1, ThreadStuck
  <1>. QED BY <1>2, <1>3, <1>4 DEF StartWorker

LEMMA ListenerFailsStep == IInv /\ ListenerFails => IInv'
  <1>. SUFFICES ASSUME IInv, ListenerFails PROVE IInv'
    OBVIOUS
  <1>1. /\ pool = "begin" /\ pool' = "dead" /\ hand' = None /\ hand = None
        /\ ~ terminal_failure
        /\ UNCHANGED <<caller, n_jobs, data, due, shared, n_workers, available_workers,
                       busy_workers, pending_jobs, common_data, worker_data, used>>
    BY DEF ListenerFails, Becomes, outside, IInv, Thread
  <1>. QED BY <1>1, ThreadStuck

\* What an event at the head of the queue means.
LEMMA Taken ==
  ASSUME IInv, NEW kind, Took(kind)
  PROVE  /\ pool = "get" /\ ~ shutting_down /\ ~ terminal_failure /\ hand = None
         /\ events # <<>> /\ Head(events) \in Events /\ Head(events)[1] = kind
         /\ Tail(events) \in Seq(Events) /\ Ordered(Tail(events)) /\ Ordered(events)
         /\ \A f : Holds(events, f) <=> Holds(Tail(events), f) \/ f = Head(events)
         /\ kind # "data" => /\ DataAt(Tail(events)) = {} <=> DataAt(events) = {}
                             /\ LeadsTo(Tail(events), common_data, data)
         /\ tracker = Cardinality(Tracked) /\ Tracked = Open
  <1>. USE DEF IInv
  <1>1. pool = "get" /\ ~ shutting_down /\ events # <<>> /\ Head(events)[1] = kind
    BY DEF Took
  <1>2. ~ terminal_failure /\ hand = None /\ tracker = Cardinality(Tracked) /\ Tracked = Open
    BY <1>1 DEF Thread, Tracks, Tracked
  <1>3. events \in Seq(Events) /\ Ordered(events) /\ LeadsTo(events, common_data, data)
    BY <1>1 DEF TypeOK, Placed, Fresh
  <1>. QED BY <1>1, <1>2, <1>3, TailEvent

LEMMA TakeJobStep == IInv /\ TakeJob => IInv'
  <1>. SUFFICES ASSUME IInv, TakeJob PROVE IInv'
    OBVIOUS
  <1>. USE DEF IInv
  <1>. DEFINE full == available_workers = {} /\ Cardinality(Busy) >= max_workers
  <1>1. PICK j : j = Head(events)[2]
    OBVIOUS
  <1>2. /\ Took("job") /\ events' = Tail(events)
        /\ full => pending_jobs' = Append(pending_jobs, j) /\ pool' = "get" /\ hand' = None
        /\ ~ full => /\ pending_jobs' = pending_jobs /\ hand' = j
                     /\ pool' = IF available_workers = {} THEN "start" ELSE "run"
        /\ UNCHANGED <<caller, n_jobs, data, due, tracker, results, terminal_failure, shutting_down>>
        /\ UNCHANGED <<n_workers, available_workers, busy_workers, common_data, worker_data, used>>
    BY <1>1 DEF TakeJob, Becomes, outside
  <1>. HIDE DEF full
  <1>3. /\ ~ shutting_down /\ ~ terminal_failure /\ hand = None /\ pool = "get"
        /\ events' \in Seq(Events) /\ Ordered(events')
        /\ \A f : Holds(events, f) <=> Holds(events', f) \/ f = Head(events)
        /\ DataAt(events') = {} <=> DataAt(events) = {}
        /\ LeadsTo(events', common_data, data) /\ Head(events) \in Events
        /\ Head(events)[1] = "job" /\ Ordered(events) /\ events # <<>>
    BY <1>2, Taken
  <1>4. j \in Jobs /\ Head(events) = <<"job", j>> /\ None \notin Jobs
    BY <1>1, <1>3, EventShapes, OpenFacts
  <1>5. ~ JobIn(events', j) /\ DataAt(events) = {} /\ JobIn(events, j)
    <2>1. events \in Seq(Events)
      BY DEF TypeOK
    <2>2. ~ JobIn(events', j) /\ DataAt(events) = {}
      BY <1>1, <1>2, <1>3, <2>1, TailEvent
    <2>. QED BY <1>3, <1>4, <2>2 DEF JobIn
  <1>6. /\ \A k : JobIn(events', k) <=> JobIn(events, k) /\ k # j
        /\ \A w : AnswerIn(events', w) <=> AnswerIn(events, w)
    BY <1>3, <1>4, <1>5 DEF JobIn, AnswerIn
  <1>7. /\ j \in 1..n_jobs /\ OneOf(j) /\ ~ Kept(j) /\ ~ With(j) /\ results[j] = 0
        /\ ~ (j > n_jobs)
    <2>1. j \in 1..n_jobs
      BY <1>3, <1>4, <1>5, JobsAreTracked
    <2>2. OneOf(j)
      BY <1>3, <2>1 DEF Placed
    <2>. QED BY <1>4, <1>5, <2>1, <2>2, OpenFacts DEF OneOf
  <1>8. /\ pending_jobs' \in Seq(Jobs) /\ NoRepeats(pending_jobs')
        /\ full => \A k : Kept(k)' <=> Kept(k) \/ k = j
        /\ ~ full => \A k : Kept(k)' <=> Kept(k)
    <2>1. pending_jobs \in Seq(Jobs) /\ NoRepeats(pending_jobs) /\ ~ Holds(pending_jobs, j)
      BY <1>7 DEF TypeOK, Placed, Kept
    <2>2. PICK q : q = Append(pending_jobs, j)
      OBVIOUS
    <2>3. q \in Seq(Jobs) /\ NoRepeats(q) /\ \A f : Holds(q, f) <=> Holds(pending_jobs, f) \/ f = j
      BY <1>4, <2>1, <2>2, AppendFacts
    <2>4. full => pending_jobs' = q
      BY <1>2, <2>2
    <2>. QED BY <1>2, <2>1, <2>3, <2>4 DEF Kept
  <1>9. Busy' = Busy /\ \A k : With(k)' <=> With(k)
    BY <1>2 DEF Busy, With
  <1>10. TypeOK'
    BY <1>2, <1>3, <1>4, <1>8 DEF TypeOK
  <1>11. Thread'
    <2>1. hand' # None <=> pool' \in {"start", "run", "put", "crashed"}
      BY <1>2, <1>4
    <2>2. hand' # None => results'[hand'] = 0
      BY <1>2, <1>7
    <2>3. pool' = "start" => n_workers' < max_workers
      <3>. SUFFICES ASSUME pool' = "start" PROVE n_workers < max_workers
        BY <1>2
      <3>1. ~ full /\ available_workers = {}
        <4>1. full => pool' = "get"
          BY <1>2
        <4>2. ~ full => (pool' = "start" <=> available_workers = {})
          BY <1>2
        <4>. QED BY <4>1, <4>2
      <3>2. Busy = 1..n_workers
        BY <1>3, <3>1 DEF Placed
      <3>3. n_workers \in Nat /\ 1 \in Int
        BY OpenFacts
      <3>4. Cardinality(1..n_workers) = IF 1 > n_workers THEN 0 ELSE n_workers - 1 + 1
        BY <3>3, FS_Interval
      <3>5. Cardinality(Busy) = n_workers
        BY <3>2, <3>3, <3>4
      <3>. QED BY <3>1, <3>3, <3>5, PoolAssumption DEF full
    <2>. QED BY <1>2, <1>3, <2>1, <2>2, <2>3 DEF Thread
  <1>12. Placed'
    <2>1. \A k \in Jobs : k > n_jobs => Nowhere(k)' /\ used'[k] = None
      <3>1. \A k \in Jobs : k > n_jobs => k # j /\ Nowhere(k) /\ used[k] = None /\ k # None
        BY <1>4, <1>7 DEF Placed
      <3>. QED BY <1>2, <1>6, <1>8, <1>9, <3>1 DEF Nowhere
    <2>2. \A k \in 1..n_jobs : OneOf(k)'
      <3>. SUFFICES ASSUME NEW k \in 1..n_jobs PROVE OneOf(k)'
        OBVIOUS
      <3>1. OneOf(k) /\ k # None
        BY <1>3, PoolAssumption DEF Placed
      <3>2. CASE full
        BY <1>2, <1>3, <1>5, <1>6, <1>7, <1>8, <1>9, <3>1, <3>2 DEF OneOf
      <3>3. CASE ~ full
        BY <1>2, <1>3, <1>5, <1>6, <1>7, <1>8, <1>9, <3>1, <3>3 DEF OneOf
      <3>. QED BY <3>2, <3>3
    <2>. QED BY <1>2, <1>3, <1>6, <1>8, <1>9, <2>1, <2>2 DEF Placed
  <1>13. Tracks'
    <2>1. pool' \notin {"put", "crashed"}
      BY <1>2
    <2>. QED BY <1>2, <1>3, <2>1 DEF Tracks, Tracked, Open
  <1>14. Fresh'
    <2>1. \A k \in Jobs : Unsent(k)' => Unsent(k)
      BY <1>2, <1>4, <1>5, <1>6, <1>8 DEF Unsent
    <2>2. DataAt(events') = {}
      BY <1>3, <1>5
    <2>. QED BY <1>2, <1>3, <2>1, <2>2 DEF Fresh
  <1>15. CommonDataReaches'
    BY <1>2 DEF CommonDataReaches
  <1>. QED BY <1>10, <1>11, <1>12, <1>13, <1>14, <1>15

LEMMA RunItStep == IInv /\ RunIt => IInv'
  <1>. SUFFICES ASSUME IInv, RunIt PROVE IInv'
    OBVIOUS
  <1>. USE DEF IInv
  <1>1. pool = "run" /\ RunJob(hand, pending_jobs, "get") /\ UNCHANGED outside
    BY DEF RunIt
  <1>2. hand \in Jobs /\ pending_jobs \in Seq(Jobs) /\ NoRepeats(pending_jobs) /\ hand # None
    BY <1>1 DEF Thread, TypeOK, Placed
  <1>3. ~ shutting_down => ~ Holds(pending_jobs, hand)
    <2>1. ~ shutting_down => hand \in 1..n_jobs
      BY <1>1, <1>2, JobsAreTracked
    <2>. QED BY <2>1 DEF Placed, OneOf, Kept
  <1>. QED BY <1>1, <1>2, <1>3, RunJobStep DEF Kept

LEMMA TakeResultStep == IInv /\ TakeResult => IInv'
  <1>. SUFFICES ASSUME IInv, TakeResult PROVE IInv'
    OBVIOUS
  <1>. USE DEF IInv
  <1>1. PICK w, j : w = Head(events)[2] /\ j = busy_workers[w]
    OBVIOUS
  <1>2. /\ Took("result") \/ Took("crash")
        /\ events' = Tail(events)
        /\ busy_workers' = [busy_workers EXCEPT ![w] = None]
        /\ available_workers' = available_workers \cup {w}
        /\ tracker' = tracker - 1
        /\ pool' \in {"put", "crashed"} /\ hand' = j
        /\ UNCHANGED <<caller, n_jobs, data, due, results, terminal_failure, shutting_down>>
        /\ UNCHANGED <<n_workers, pending_jobs, common_data, worker_data, used>>
    BY <1>1 DEF TakeResult, Becomes, outside
  <1>3. /\ ~ shutting_down /\ ~ terminal_failure /\ hand = None /\ pool = "get"
        /\ events' \in Seq(Events) /\ Ordered(events')
        /\ \A f : Holds(events, f) <=> Holds(events', f) \/ f = Head(events)
        /\ DataAt(events') = {} <=> DataAt(events) = {}
        /\ LeadsTo(events', common_data, data) /\ Head(events) \in Events
        /\ Head(events)[1] \in Answers /\ Ordered(events) /\ events # <<>>
        /\ tracker = Cardinality(Tracked) /\ Tracked = Open
    BY <1>2, Taken DEF Answers
  <1>4. /\ w \in Workers /\ Head(events) \in {<<"result", w>>, <<"crash", w>>}
        /\ None \notin Jobs
    BY <1>1, <1>3, EventShapes, OpenFacts
  <1>5. ~ AnswerIn(events', w) /\ AnswerIn(events, w)
    <2>1. events \in Seq(Events)
      BY DEF TypeOK
    <2>2. ~ AnswerIn(events', w)
      BY <1>1, <1>2, <1>3, <2>1, TailEvent
    <2>. QED BY <1>3, <1>4, <2>2 DEF AnswerIn
  <1>6. /\ \A k : JobIn(events', k) <=> JobIn(events, k)
        /\ \A v : AnswerIn(events', v) => AnswerIn(events, v) /\ v # w
    BY <1>3, <1>4, <1>5 DEF JobIn, AnswerIn
  <1>7. w \in Busy /\ j \in Jobs /\ With(j) /\ w \in 1..n_workers
    <2>1. w \in Busy
      BY <1>3, <1>4, <1>5 DEF Placed
    <2>2. j \in Jobs
      BY <1>1, <1>4, <2>1 DEF Busy, TypeOK
    <2>. QED BY <1>1, <1>3, <1>4, <2>1, <2>2 DEF With, Placed
  <1>8. j \in Tracked /\ j \in 1..n_jobs /\ OneOf(j)
    <2>1. j \in Tracked /\ j \in 1..n_jobs
      BY <1>3, <1>7, JobsAreTracked
    <2>. QED BY <1>3, <2>1 DEF Placed
  <1>9. ~ JobIn(events, j) /\ ~ Kept(j) /\ results[j] = 0 /\ ~ (j > n_jobs)
    <2>1. ~ (j > n_jobs)
      BY <1>8, OpenFacts
    <2>. QED BY <1>7, <1>8, <2>1 DEF OneOf
  <1>10. \A v \in Workers : busy_workers'[v] = IF v = w THEN None ELSE busy_workers[v]
    BY <1>2, <1>4 DEF TypeOK
  <1>11. /\ Busy' = Busy \ {w}
         /\ \A k \in Jobs : With(k)' <=> With(k) /\ k # j
    <2>1. Busy' = Busy \ {w}
      BY <1>4, <1>10 DEF Busy
    <2>2. \A k \in Jobs : With(k)' => With(k) /\ k # j
      <3>. SUFFICES ASSUME NEW k \in Jobs, With(k)' PROVE With(k) /\ k # j
        OBVIOUS
      <3>1. PICK v \in Workers : busy_workers'[v] = k
        BY DEF With
      <3>2. v # w /\ busy_workers[v] = k /\ v \in Busy
        BY <1>4, <1>10, <3>1 DEF Busy
      <3>. QED BY <1>1, <1>7, <3>2 DEF Placed, With
    <2>3. \A k \in Jobs : With(k) /\ k # j => With(k)'
      BY <1>1, <1>10 DEF With
    <2>. QED BY <2>1, <2>2, <2>3
  <1>12. Open' = Open /\ Tracked' = Open \ {j} /\ j \in Open
    <2>1. Open' = Open
      BY <1>2 DEF Open
    <2>. QED BY <1>2, <1>3, <1>8, <2>1 DEF Tracked
  <1>13. tracker' = Cardinality(Tracked') /\ tracker' \in 0..MaxJobs /\ tracker # 0
    <2>1. IsFiniteSet(Open) /\ Cardinality(Open) \in 0..MaxJobs
      BY OpenFacts
    <2>2. /\ Cardinality(Open \ {j}) = Cardinality(Open) - 1
          /\ IsFiniteSet(Open \ {j}) /\ Cardinality(Open \ {j}) \in Nat
      BY <1>12, <2>1, FS_RemoveElement, FS_CardinalityType
    <2>3. PICK a, b : a = Cardinality(Open) /\ b = Cardinality(Open \ {j})
      OBVIOUS
    <2>4. a \in 0..MaxJobs /\ b = a - 1 /\ b \in Nat /\ tracker = a /\ tracker' = b
      BY <1>2, <1>3, <2>1, <2>2, <2>3
    <2>. QED BY <1>12, <2>3, <2>4, PoolAssumption
  <1>14. TypeOK'
    <2>1. busy_workers' \in [Workers -> Jobs \cup {None}]
      BY <1>2 DEF TypeOK
    <2>. QED BY <1>2, <1>3, <1>7, <1>13, <2>1 DEF TypeOK
  <1>15. Thread'
    BY <1>2, <1>3, <1>4, <1>7, <1>9 DEF Thread
  <1>16. \A k : Kept(k)' <=> Kept(k)
    BY <1>2 DEF Kept
  <1>17. Placed'
    <2>1. \A k \in Jobs : k > n_jobs => Nowhere(k)' /\ used'[k] = None
      <3>1. \A k \in Jobs : k > n_jobs => k # j /\ Nowhere(k) /\ used[k] = None
        BY <1>9 DEF Placed
      <3>. QED BY <1>2, <1>6, <1>11, <1>16, <3>1 DEF Nowhere
    <2>2. \A k \in 1..n_jobs : OneOf(k)'
      <3>. SUFFICES ASSUME NEW k \in 1..n_jobs PROVE OneOf(k)'
        OBVIOUS
      <3>1. OneOf(k) /\ k # None /\ k \in Jobs
        BY <1>3, PoolAssumption DEF Placed, TypeOK, Jobs
      <3>. QED BY <1>2, <1>3, <1>6, <1>9, <1>11, <1>16, <3>1 DEF OneOf
    <2>3. \A u, v \in Busy' : busy_workers'[u] = busy_workers'[v] => u = v
      <3>1. \A v \in Busy' : v \in Busy /\ v \in Workers /\ v # w
        BY <1>11 DEF Busy
      <3>. QED BY <1>10, <3>1 DEF Placed
    <2>4. available_workers' \cap Busy' = {} /\ available_workers' \cup Busy' = 1..n_workers
      BY <1>2, <1>3, <1>7, <1>11 DEF Placed
    <2>5. \A v \in Workers : AnswerIn(events', v) => v \in Busy'
      BY <1>3, <1>6, <1>11 DEF Placed
    <2>. QED BY <1>2, <1>3, <2>1, <2>2, <2>3, <2>4, <2>5 DEF Placed, AnswerIn
  <1>18. Tracks'
    BY <1>2, <1>3, <1>13 DEF Tracks
  <1>19. Fresh'
    <2>1. \A k \in Jobs : Unsent(k)' => Unsent(k)
      BY <1>2, <1>6, <1>16 DEF Unsent
    <2>2. DataAt(events') = {}
      BY <1>3, <1>7 DEF Fresh
    <2>3. caller # "returned"
      BY <1>3, <1>13 DEF Fresh
    <2>. QED BY <1>2, <1>3, <2>1, <2>2, <2>3 DEF Fresh
  <1>20. CommonDataReaches'
    BY <1>2 DEF CommonDataReaches
  <1>. QED BY <1>14, <1>15, <1>17, <1>18, <1>19, <1>20

LEMMA PutResultStep == IInv /\ PutResult => IInv'
  <1>. SUFFICES ASSUME IInv, PutResult PROVE IInv'
    OBVIOUS
  <1>. USE DEF IInv
  <1>1. /\ pool = "put" /\ results' = [results EXCEPT ![hand] = @ + 1]
        /\ pool' = "drain" /\ hand' = None
        /\ UNCHANGED <<caller, n_jobs, data, due, tracker, events, terminal_failure, shutting_down>>
        /\ UNCHANGED <<n_workers, available_workers, busy_workers, pending_jobs, common_data,
                       worker_data, used>>
    BY DEF PutResult, Becomes, outside
  <1>2. PICK j : j = hand
    OBVIOUS
  <1>3. /\ j \in Jobs /\ results[j] = 0 /\ ~ (j > n_jobs) /\ None \notin Jobs
        /\ ~ terminal_failure /\ hand = j
    BY <1>1, <1>2, OpenFacts DEF Thread, TypeOK, Placed, Nowhere
  <1>4. \A k \in Jobs : results'[k] = IF k = j THEN 1 ELSE results[k]
    BY <1>1, <1>3 DEF TypeOK
  <1>5. TypeOK'
    <2>1. results' \in [Jobs -> 0..1]
      BY <1>1, <1>3 DEF TypeOK
    <2>. QED BY <1>1, <2>1 DEF TypeOK
  <1>6. Thread'
    BY <1>1, <1>3 DEF Thread, Busy
  <1>7. Busy' = Busy /\ \A k : /\ With(k)' <=> With(k)
                               /\ Kept(k)' <=> Kept(k)
                               /\ JobIn(events, k)' <=> JobIn(events, k)
                               /\ AnswerIn(events, k)' <=> AnswerIn(events, k)
    BY <1>1 DEF Busy, With, Kept, JobIn, AnswerIn
  <1>8. Placed'
    <2>1. \A k \in Jobs : k > n_jobs => Nowhere(k)' /\ used'[k] = None
      <3>1. \A k \in Jobs : k > n_jobs => k # j /\ Nowhere(k) /\ used[k] = None
        BY <1>3 DEF Placed
      <3>. QED BY <1>1, <1>3, <1>4, <1>7, <3>1 DEF Nowhere
    <2>2. ~ shutting_down => \A k \in 1..n_jobs : OneOf(k)'
      <3>. SUFFICES ASSUME ~ shutting_down, NEW k \in 1..n_jobs PROVE OneOf(k)'
        OBVIOUS
      <3>1. OneOf(k) /\ k # None /\ k \in Jobs
        BY <1>3, PoolAssumption DEF Placed, TypeOK, Jobs
      <3>. QED BY <1>1, <1>3, <1>4, <1>7, <3>1 DEF OneOf
    <2>. QED BY <1>1, <1>7, <2>1, <2>2 DEF Placed
  <1>9. Tracks'
    <2>1. \A k \in 1..n_jobs : k \in Jobs
      BY PoolAssumption DEF TypeOK, Jobs
    <2>2. Open' = Open \ {j}
      BY <1>1, <1>4, <2>1 DEF Open
    <2>3. Tracked' = Tracked
      BY <1>1, <1>3, <2>2 DEF Tracked
    <2>. QED BY <1>1, <1>3, <2>3 DEF Tracks
  <1>10. Fresh'
    <2>1. \A k \in Jobs : Unsent(k)' => Unsent(k)
      BY <1>1, <1>7 DEF Unsent
    <2>. QED BY <1>1, <1>7, <2>1 DEF Fresh
  <1>11. CommonDataReaches'
    BY <1>1 DEF CommonDataReaches
  <1>. QED BY <1>5, <1>6, <1>8, <1>9, <1>10, <1>11

LEMMA CrashedStep == IInv /\ Crashed => IInv'
  <1>. SUFFICES ASSUME IInv, Crashed PROVE IInv'
    OBVIOUS
  <1>. USE DEF IInv
  <1>1. /\ pool = "crashed" /\ Terminal(busy_workers, pending_jobs)
        /\ UNCHANGED <<outside, n_workers, common_data, worker_data, used>>
    BY DEF Crashed
  <1>2. /\ ~ terminal_failure /\ hand \in Jobs \cup {None} /\ pending_jobs \in Seq(Jobs)
        /\ common_data' \in 0..MaxData /\ worker_data' \in [Workers -> 0..MaxData]
    BY <1>1 DEF Thread, TypeOK
  <1>. QED BY <1>1, <1>2, TerminalStep DEF Kept

LEMMA TakeDataStep == IInv /\ TakeData => IInv'
  <1>. SUFFICES ASSUME IInv, TakeData PROVE IInv'
    OBVIOUS
  <1>. USE DEF IInv
  <1>1. PICK c : c = Head(events)[2]
    OBVIOUS
  <1>2. Took("data") /\ common_data' = c /\ UNCHANGED <<outside, n_workers, used>>
    BY <1>1 DEF TakeData
  <1>3. /\ ~ shutting_down /\ ~ terminal_failure /\ hand = None /\ pool = "get"
        /\ Tail(events) \in Seq(Events) /\ Ordered(Tail(events))
        /\ \A f : Holds(events, f) <=> Holds(Tail(events), f) \/ f = Head(events)
        /\ Head(events) \in Events /\ Head(events)[1] = "data" /\ Ordered(events) /\ events # <<>>
    BY <1>2, Taken
  <1>4. c \in 1..MaxData /\ Head(events) = <<"data", c>>
    BY <1>1, <1>3, EventShapes
  <1>5. DataAt(events) # {} /\ LeadsTo(Tail(events), c, data)
    <2>1. events \in Seq(Events) /\ LeadsTo(events, common_data, data)
      BY <1>3 DEF TypeOK, Fresh
    <2>. QED BY <1>1, <1>3, <2>1, TailEvent
  <1>6. c \in 0..MaxData
    BY <1>4, PoolAssumption
  <1>7. CASE /\ Terminal(busy_workers, pending_jobs)
             /\ UNCHANGED worker_data
    <2>1. /\ None \in Jobs \cup {None} /\ pending_jobs \in Seq(Jobs)
          /\ common_data' \in 0..MaxData /\ worker_data' \in [Workers -> 0..MaxData]
      BY <1>2, <1>6, <1>7 DEF TypeOK
    <2>. QED BY <1>2, <1>3, <1>7, <2>1, TerminalStep DEF Kept
  <1>8. CASE /\ events' = Tail(events)
             /\ worker_data' = [w \in Workers |-> IF w \in available_workers THEN common_data'
                                                  ELSE worker_data[w]]
             /\ Becomes("drain", None)
             /\ UNCHANGED <<tracker, results, terminal_failure, shutting_down,
                            available_workers, busy_workers, pending_jobs>>
    <2>1. /\ events' = Tail(events) /\ pool' = "drain" /\ hand' = None
          /\ worker_data' = [w \in Workers |-> IF w \in available_workers THEN c
                                               ELSE worker_data[w]]
          /\ common_data' = c
          /\ UNCHANGED <<caller, n_jobs, data, due, n_workers, used>>
          /\ UNCHANGED <<tracker, results, terminal_failure, shutting_down,
                         available_workers, busy_workers, pending_jobs>>
      BY <1>2, <1>8 DEF Becomes, outside
    <2>2. Busy = {} /\ pending_jobs = <<>> /\ available_workers = 1..n_workers
      <3>1. Busy = {} /\ pending_jobs = <<>>
        BY <1>3, <1>5 DEF Fresh
      <3>. QED BY <1>3, <3>1 DEF Placed
    <2>3. /\ \A k : JobIn(events', k) <=> JobIn(events, k)
          /\ \A v : AnswerIn(events', v) <=> AnswerIn(events, v)
      BY <1>3, <1>4, <2>1 DEF JobIn, AnswerIn
    <2>4. TypeOK'
      <3>1. worker_data' \in [Workers -> 0..MaxData]
        BY <1>6, <2>1 DEF TypeOK
      <3>. QED BY <1>3, <1>6, <2>1, <3>1 DEF TypeOK
    <2>5. Thread'
      BY <1>3, <2>1 DEF Thread, Busy
    <2>6. Busy' = Busy /\ \A k : (With(k)' <=> With(k)) /\ (Kept(k)' <=> Kept(k))
      BY <2>1 DEF Busy, With, Kept
    <2>7. Placed'
      <3>1. \A j : (Nowhere(j) => Nowhere(j)') /\ (OneOf(j) => OneOf(j)')
        BY <1>3, <2>1, <2>3, <2>6 DEF Nowhere, OneOf
      <3>. QED BY <1>3, <2>1, <2>3, <2>6, <3>1 DEF Placed
    <2>8. Tracks'
      BY <1>3, <2>1 DEF Tracks, Tracked, Open
    <2>9. Fresh'
      <3>1. \A k \in Jobs : Unsent(k)' => Unsent(k)
        BY <2>1, <2>3, <2>6 DEF Unsent
      <3>2. \A w \in 1..n_workers : worker_data'[w] = c
        BY <2>1, <2>2, OpenFacts
      <3>. QED BY <1>3, <1>5, <2>1, <2>2, <2>6, <3>1, <3>2 DEF Fresh
    <2>10. CommonDataReaches'
      BY <2>1 DEF CommonDataReaches
    <2>. QED BY <2>4, <2>5, <2>7, <2>8, <2>9, <2>10
  <1>. QED BY <1>7, <1>8 DEF TakeData

LEMMA Shortened ==
  ASSUME NEW q \in Seq(Jobs), Len(q) > 0, NoRepeats(q)
  PROVE  LET n == Len(q)  rest == SubSeq(q, 1, n - 1) IN
         /\ q[n] \in Jobs /\ rest \in Seq(Jobs) /\ NoRepeats(rest) /\ ~ Holds(rest, q[n])
         /\ Holds(q, q[n]) /\ \A f : Holds(q, f) <=> Holds(rest, f) \/ f = q[n]
  <1>1. PICK n, rest : n = Len(q) /\ rest = SubSeq(q, 1, n - 1)
    OBVIOUS
  <1>2. /\ n \in Nat /\ n > 0 /\ n \in 1..n /\ q[n] \in Jobs
        /\ \A i \in 1..(n - 1) : i \in 1..n /\ i # n
        /\ \A i \in 1..n : i = n \/ i \in 1..(n - 1)
    BY <1>1
  <1>3. \A i \in 1..(n - 1) : q[i] \in Jobs
    BY <1>1, <1>2
  <1>4. rest \in Seq(Jobs) /\ Len(rest) = n - 1 /\ \A i \in 1..(n - 1) : rest[i] = q[i]
    BY <1>1, <1>2, <1>3, SubSeqProperties
  <1>5. NoRepeats(rest) /\ ~ Holds(rest, q[n])
    BY <1>1, <1>2, <1>4, SMTT(30) DEF NoRepeats, Holds
  <1>6. \A f : Holds(q, f) <=> Holds(rest, f) \/ f = q[n]
    BY <1>1, <1>2, <1>4 DEF Holds
  <1>. QED BY <1>1, <1>2, <1>4, <1>5, <1>6

LEMMA DrainStep == IInv /\ Drain => IInv'
  <1>. SUFFICES ASSUME IInv, Drain PROVE IInv'
    OBVIOUS
  <1>. USE DEF IInv
  <1>1. PICK n : n = Len(pending_jobs)
    OBVIOUS
  <1>2. /\ pool = "drain" /\ hand = None /\ ~ terminal_failure /\ UNCHANGED outside
        /\ pending_jobs \in Seq(Jobs) /\ NoRepeats(pending_jobs)
    BY DEF Drain, Thread, TypeOK, Placed
  <1>3. CASE /\ n > 0 /\ available_workers # {}
             /\ RunJob(pending_jobs[n], SubSeq(pending_jobs, 1, n - 1), "drain")
    <2>1. PICK j, rest : j = pending_jobs[n] /\ rest = SubSeq(pending_jobs, 1, n - 1)
      OBVIOUS
    <2>2. /\ j \in Jobs /\ rest \in Seq(Jobs) /\ NoRepeats(rest) /\ ~ Holds(rest, j) /\ Kept(j)
          /\ \A f : Kept(f) <=> Holds(rest, f) \/ f = j
      BY <1>1, <1>2, <1>3, <2>1, Shortened DEF Kept
    <2>. QED BY <1>2, <1>3, <2>1, <2>2, RunJobStep
  <1>4. CASE /\ Becomes("get", None)
             /\ UNCHANGED <<shared, n_workers, available_workers, busy_workers,
                            pending_jobs, common_data, worker_data, used>>
    <2>1. /\ pool' = "get" /\ hand' = None
          /\ UNCHANGED <<caller, n_jobs, data, due>>
          /\ UNCHANGED <<tracker, events, results, terminal_failure, shutting_down>>
          /\ UNCHANGED <<n_workers, available_workers, busy_workers, pending_jobs, common_data,
                         worker_data, used>>
      BY <1>2, <1>4 DEF Becomes, outside, shared
    <2>2. TypeOK' /\ Thread' /\ CommonDataReaches'
      BY <1>2, <2>1 DEF TypeOK, Thread, CommonDataReaches, Busy
    <2>3. Placed'
      BY <1>2, <2>1 DEF Placed, Nowhere, OneOf, JobIn, Kept, With, Busy
    <2>4. Tracks'
      BY <1>2, <2>1 DEF Tracks, Tracked, Open
    <2>5. Fresh'
      BY <1>2, <2>1 DEF Fresh, Unsent, JobIn, Kept, Busy
    <2>. QED BY <2>2, <2>3, <2>4, <2>5
  <1>. QED BY <1>1, <1>3, <1>4 DEF Drain

LEMMA LeaveStep == IInv /\ Leave => IInv'
  <1>. SUFFICES ASSUME IInv, Leave PROVE IInv'
    OBVIOUS
  <1>. USE DEF IInv
  <1>1. /\ pool = "get" /\ shutting_down /\ pool' = "ended" /\ hand' = None /\ hand = None
        /\ ~ terminal_failure
        /\ UNCHANGED <<caller, n_jobs, data, due>>
        /\ UNCHANGED <<tracker, events, results, terminal_failure, shutting_down>>
        /\ UNCHANGED <<n_workers, available_workers, busy_workers, pending_jobs, common_data,
                       worker_data, used>>
    BY DEF Leave, Becomes, outside, shared, Thread
  <1>2. TypeOK' /\ Thread' /\ Fresh' /\ CommonDataReaches'
    BY <1>1 DEF TypeOK, Thread, Fresh, CommonDataReaches, Busy
  <1>3. Placed'
    BY <1>1 DEF Placed, Nowhere, JobIn, Kept, With, Busy
  <1>4. Tracks'
    BY <1>1 DEF Tracks, Tracked, Open
  <1>. QED BY <1>2, <1>3, <1>4

LEMMA NextIInv == IInv /\ [Next]_vars => IInv'
  <1>. SUFFICES ASSUME IInv, [Next]_vars PROVE IInv'
    OBVIOUS
  <1>1. CASE Wait \/ WaitReturns \/ WaitFails
    <2>1. /\ UNCHANGED <<n_jobs, data, due, shared, inside>>
          /\ caller' \in {"waiting", "returned", "failed"} /\ caller \in {"free", "waiting"}
          /\ caller' = "returned" => tracker = 0
      BY <1>1 DEF Wait, WaitReturns, WaitFails
    <2>. QED BY <2>1, CallerWaits
  <1>2. CASE UNCHANGED vars
    <2>1. UNCHANGED <<caller, n_jobs, data, due>> /\ UNCHANGED shared /\ UNCHANGED inside
      BY <1>2 DEF vars, outside
    <2>2. TypeOK' /\ Thread' /\ CommonDataReaches'
      BY <2>1 DEF IInv, TypeOK, Thread, CommonDataReaches, Busy, shared, inside
    <2>3. Placed'
      BY <2>1 DEF IInv, Placed, Nowhere, OneOf, JobIn, Kept, With, Busy, shared, inside
    <2>4. Tracks' /\ Fresh'
      BY <2>1 DEF IInv, Tracks, Tracked, Open, Fresh, Unsent, JobIn, Kept, Busy, shared, inside
    <2>. QED BY <2>2, <2>3, <2>4 DEF IInv
  <1>. QED BY <1>1, <1>2, CallStep, SetCommonDataStep, CallerShutsDownStep, WorkerEndsStep,
              ListenerFailsStep, StartWorkerStep, TakeJobStep, RunItStep, TakeResultStep,
              PutResultStep, CrashedStep, TakeDataStep, DrainStep, LeaveStep DEF Next, PoolStep

LEMMA Invariance == Spec => []IInv
  BY InitIInv, NextIInv, PTL DEF Spec

-------------------------------------------------------------------------------
(* The theorems *)

LEMMA AtMostOne ==
  ASSUME NEW S, \A x, y \in S : x = y
  PROVE  Cardinality(S) = IF S = {} THEN 0 ELSE 1
  <1>1. CASE S = {}
    BY <1>1, FS_EmptySet
  <1>2. CASE S # {}
    <2>1. PICK x : S = {x}
      BY <1>2
    <2>. QED BY <1>2, <2>1, FS_Singleton
  <1>. QED BY <1>1, <1>2

LEMMA QueuedIsIn == ASSUME TypeOK, NEW j PROVE j \in Queued <=> JobIn(events, j)
  <1>1. \A i \in 1..Len(events) : events[i] \in Events
    BY DEF TypeOK
  <1>2. \A i \in 1..Len(events) : events[i][1] = "job" => events[i] = <<"job", events[i][2]>>
    BY <1>1, EventShapes
  <1>3. j \in Queued => JobIn(events, j)
    BY <1>2 DEF Queued, JobIn, Holds
  <1>4. JobIn(events, j) => j \in Queued
    BY DEF Queued, JobIn, Holds
  <1>. QED BY <1>3, <1>4

\* handle_event, run_job, terminal_error: until the pool is shut down every job
\* handed in is in exactly one place, once, and every worker that was started is
\* either busy or available, whatever fails and however the caller's steps and
\* the workers' answers come in between.
THEOREM InOnePlaceAlways == Spec => []InOnePlace
  <1>1. IInv => InOnePlace
    <2>. SUFFICES ASSUME IInv PROVE InOnePlace
      OBVIOUS
    <2>. USE DEF IInv
    <2>1. ASSUME ~ shutting_down, NEW j \in 1..n_jobs
          PROVE  LET with == Cardinality({w \in Workers : busy_workers[w] = j})
                     kept == Cardinality({i \in 1..Len(pending_jobs) : pending_jobs[i] = j})
                     once == (IF j \in Queued THEN 1 ELSE 0) + (IF hand = j THEN 1 ELSE 0)
                 IN with + kept + once + results[j] = 1
      <3>1. j \in Jobs /\ OneOf(j) /\ None \notin Jobs /\ results[j] \in 0..1
        BY <2>1, OpenFacts, PoolAssumption DEF Placed, TypeOK, Jobs
      <3>2. Cardinality({w \in Workers : busy_workers[w] = j}) = IF With(j) THEN 1 ELSE 0
        <4>1. PICK S : S = {w \in Workers : busy_workers[w] = j}
          OBVIOUS
        <4>2. \A v, w \in S : v = w
          BY <3>1, <4>1 DEF Placed, Busy
        <4>3. S = {} <=> ~ With(j)
          BY <4>1 DEF With
        <4>. QED BY <4>1, <4>2, <4>3, AtMostOne
      <3>3. Cardinality({i \in 1..Len(pending_jobs) : pending_jobs[i] = j})
                = IF Kept(j) THEN 1 ELSE 0
        <4>1. PICK S : S = {i \in 1..Len(pending_jobs) : pending_jobs[i] = j}
          OBVIOUS
        <4>2. \A i, k \in S : i = k
          BY <4>1 DEF Placed, NoRepeats
        <4>3. S = {} <=> ~ Kept(j)
          BY <4>1 DEF Kept, Holds
        <4>. QED BY <4>1, <4>2, <4>3, AtMostOne
      <3>4. j \in Queued <=> JobIn(events, j)
        BY QueuedIsIn
      <3>5. hand = j => results[j] = 0
        BY <3>1 DEF Thread
      <3>. QED BY <3>1, <3>2, <3>3, <3>4, <3>5 DEF OneOf
    <2>2. ~ shutting_down => /\ available_workers \cap Busy = {}
                             /\ available_workers \cup Busy = 1..n_workers
      BY DEF Placed
    <2>. QED BY <2>1, <2>2 DEF InOnePlace
  <1>. QED BY <1>1, Invariance, PTL

\* wait_for_tasks, terminal_error: the tracker counts exactly the jobs without a
\* result, but for the one whose result is about to be put; a pool that failed
\* answered for every job it had taken over but one, and counts one too many at most.
THEOREM TrackerCountsAlways == Spec => []TrackerCounts
  <1>1. IInv => TrackerCounts
    <2>. SUFFICES ASSUME IInv PROVE TrackerCounts
      OBVIOUS
    <2>. USE DEF IInv
    <2>1. /\ IsFiniteSet(Open) /\ Cardinality(Open) \in Nat /\ n_jobs \in Nat /\ tracker \in Nat
          /\ \A j \in 1..n_jobs : j \in Jobs
      BY OpenFacts, PoolAssumption DEF TypeOK, Jobs
    <2>2. \A j \in Jobs : results[j] \in 0..1 /\ (results[j] > 0 => j \in 1..n_jobs)
      <3>1. \A j \in Jobs : results[j] \in 0..1 /\ (j > n_jobs => results[j] = 0)
        BY DEF TypeOK, Placed, Nowhere
      <3>. QED BY <2>1, <3>1 DEF Jobs
    <2>3. Open = (1..n_jobs) \ Answered /\ (1..n_jobs) \cap Answered = Answered
      BY <2>1, <2>2 DEF Open, Answered
    <2>4. n_jobs - Cardinality(Answered) = Cardinality(Open)
      <3>1. /\ IsFiniteSet(1..n_jobs)
            /\ Cardinality(1..n_jobs) = IF 1 > n_jobs THEN 0 ELSE n_jobs - 1 + 1
        BY <2>1, FS_Interval
      <3>2. Cardinality(Open) = Cardinality(1..n_jobs) - Cardinality(Answered)
        <4>1. PICK S, A : S = 1..n_jobs /\ A = Answered
          OBVIOUS
        <4>2. Cardinality(S \ A) = Cardinality(S) - Cardinality(S \cap A)
          BY <3>1, <4>1, FS_Difference
        <4>. QED BY <2>3, <4>1, <4>2
      <3>3. IsFiniteSet(Answered) /\ Cardinality(Answered) \in Nat
        BY <2>3, <3>1, FS_Subset, FS_CardinalityType
      <3>4. PICK a, b : a = Cardinality(Open) /\ b = Cardinality(Answered)
        OBVIOUS
      <3>5. a = n_jobs - b /\ b \in Nat
        BY <2>1, <3>1, <3>2, <3>3, <3>4
      <3>. QED BY <2>1, <3>4, <3>5
    <2>5. CASE ~ terminal_failure
      <3>1. CASE pool \in {"put", "crashed"}
        <4>1. hand \in Jobs /\ results[hand] = 0 /\ ~ (hand > n_jobs)
          BY <3>1 DEF Thread, TypeOK, Placed, Nowhere
        <4>2. hand \in Open
          BY <2>1, <4>1 DEF Open, Jobs
        <4>3. tracker = Cardinality(Open) - 1
          BY <2>1, <2>5, <3>1, <4>2, FS_RemoveElement DEF Tracks, Tracked
        <4>. QED BY <2>1, <2>4, <2>5, <3>1, <4>3 DEF TrackerCounts
      <3>2. CASE pool \notin {"put", "crashed"}
        <4>1. tracker = Cardinality(Open)
          BY <2>5, <3>2 DEF Tracks, Tracked
        <4>. QED BY <2>1, <2>4, <2>5, <3>2, <4>1 DEF TrackerCounts
      <3>. QED BY <3>1, <3>2
    <2>6. CASE terminal_failure
      <3>1. Cardinality(Open) - tracker \in {0, 1}
        <4>1. CASE tracker = Cardinality(Open)
          BY <2>1, <4>1
        <4>2. CASE \E x \in Open : tracker = Cardinality(Open \ {x})
          BY <2>1, <4>2, FS_RemoveElement
        <4>. QED BY <2>6, <4>1, <4>2 DEF Tracks
      <3>2. caller # "gone" => Cardinality((1..n_jobs) \ (Answered \cup Queued)) <= 1
        <4>. SUFFICES ASSUME caller # "gone"
                      PROVE  Cardinality((1..n_jobs) \ (Answered \cup Queued)) <= 1
          OBVIOUS
        <4>1. PICK S : S = (1..n_jobs) \ (Answered \cup Queued)
          OBVIOUS
        <4>2. PICK x : \A j \in Open : JobIn(events, j) \/ j = x
          BY <2>6 DEF Tracks
        <4>3. \A j \in S : j \in Open /\ j \notin Queued
          BY <2>3, <4>1
        <4>4. \A j \in S : j = x
          BY <4>2, <4>3, QueuedIsIn
        <4>5. Cardinality(S) = 0 \/ Cardinality(S) = 1
          BY <4>4, AtMostOne
        <4>. QED BY <4>1, <4>5
      <3>. QED BY <2>4, <2>6, <3>1, <3>2 DEF TrackerCounts
    <2>. QED BY <2>5, <2>6
  <1>. QED BY <1>1, Invariance, PTL

\* set_common_data, handle_event, start_worker: every job that runs does so with
\* the common data that were set last when it was handed in, whether its worker is
\* one that was there when they were set or one that was started afterwards.
THEOREM CommonDataReachesAlways == Spec => []CommonDataReaches
  <1>1. IInv => CommonDataReaches
    BY DEF IInv
  <1>. QED BY <1>1, Invariance, PTL
===============================================================================
