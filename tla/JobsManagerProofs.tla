-------------------------- MODULE JobsManagerProofs ---------------------------
(***************************************************************************)
(* For any number of jobs and of slots, and any limits of time, the        *)
(* content server's manager of jobs loses none of them, and implements the *)
(* queue of jobs that those who hand jobs in rely on.  For any number of   *)
(* books and requests, a book is prepared by one job at a time, and        *)
(* queued_jobs names it for as long as its callback has not been called.   *)
(***************************************************************************)
EXTENDS RenderQueue, FiniteSetTheorems, SequenceTheorems, WellFoundedInduction, TLAPS

-------------------------------------------------------------------------------
(* Queues and events *)

Holds(q, e) == \E i \in 1..Len(q) : q[i] = e

NoRepeats(q) == \A i, k \in 1..Len(q) : q[i] = q[k] => i = k

LEMMA AppendFacts ==
  ASSUME NEW S, NEW q \in Seq(S), NEW e \in S
  PROVE  /\ Append(q, e) \in Seq(S)
         /\ \A f : Holds(Append(q, e), f) <=> Holds(q, f) \/ f = e
         /\ NoRepeats(q) /\ ~ Holds(q, e) => NoRepeats(Append(q, e))
  BY DEF Holds, NoRepeats

LEMMA TailFacts ==
  ASSUME NEW S, NEW q \in Seq(S), q # <<>>
  PROVE  /\ Head(q) \in S /\ Tail(q) \in Seq(S)
         /\ \A f : Holds(q, f) <=> Holds(Tail(q), f) \/ f = Head(q)
         /\ NoRepeats(q) => NoRepeats(Tail(q)) /\ ~ Holds(Tail(q), Head(q))
  <1>1. Head(q) = q[1] /\ Len(q) \in Nat /\ Len(q) >= 1 /\ Tail(q) \in Seq(S)
    OBVIOUS
  <1>2. Len(Tail(q)) = Len(q) - 1 /\ \A i \in 1..Len(Tail(q)) : Tail(q)[i] = q[i + 1]
    OBVIOUS
  <1>3. ASSUME NEW f, Holds(q, f) PROVE Holds(Tail(q), f) \/ f = Head(q)
    <2>1. PICK i \in 1..Len(q) : q[i] = f
      BY <1>3 DEF Holds
    <2>2. CASE i = 1
      BY <1>1, <2>1, <2>2
    <2>3. CASE i # 1
      <3>1. i - 1 \in 1..Len(Tail(q)) /\ Tail(q)[i - 1] = f
        BY <1>1, <1>2, <2>1, <2>3
      <3>. QED BY <3>1 DEF Holds
    <2>. QED BY <2>2, <2>3
  <1>4. \A f : Holds(Tail(q), f) \/ f = Head(q) => Holds(q, f)
    BY <1>1, <1>2 DEF Holds
  <1>5. NoRepeats(q) => NoRepeats(Tail(q)) /\ ~ Holds(Tail(q), Head(q))
    BY <1>1, <1>2 DEF NoRepeats, Holds
  <1>. QED BY <1>1, <1>3, <1>4, <1>5

\* A queue cut in two: what is taken, and what is left.
LEMMA CutFacts ==
  ASSUME NEW S, NEW q \in Seq(S), NEW n \in 0..Len(q)
  PROVE  LET taken == SubSeq(q, 1, n)
             left  == SubSeq(q, n + 1, Len(q))
         IN  /\ left \in Seq(S)
             /\ ToSet(taken) \subseteq S
             /\ IsFiniteSet(ToSet(taken)) /\ Cardinality(ToSet(taken)) <= n
             /\ \A e : e \in ToSet(taken) => Holds(q, e)
             /\ \A e : Holds(left, e) => Holds(q, e)
             /\ \A e : Holds(q, e) => Holds(left, e) \/ e \in ToSet(taken)
             /\ NoRepeats(q) =>
                   NoRepeats(left) /\ \A e \in ToSet(taken) : ~ Holds(left, e)
  <1>. DEFINE taken == SubSeq(q, 1, n)
              left  == SubSeq(q, n + 1, Len(q))
              set   == ToSet(taken)
  <1>1. Len(q) \in Nat /\ n \in Nat /\ \A k \in 1..Len(q) : q[k] \in S
    OBVIOUS
  <1>2. /\ taken \in Seq(S) /\ Len(taken) = n
        /\ \A k \in 1..n : taken[k] = q[k]
    <2>1. \A k \in 1..n : q[k] \in S
      BY <1>1
    <2>2. /\ taken \in Seq(S) /\ Len(taken) = IF 1 <= n THEN n - 1 + 1 ELSE 0
          /\ \A k \in 1..(n - 1 + 1) : taken[k] = q[1 + k - 1]
      BY <1>1, <2>1, SubSeqProperties
    <2>. QED BY <1>1, <2>2
  <1>3. /\ left \in Seq(S) /\ Len(left) = Len(q) - n
        /\ \A k \in 1..(Len(q) - n) : left[k] = q[n + k]
    <2>1. \A k \in (n + 1)..Len(q) : q[k] \in S
      BY <1>1
    <2>2. /\ left \in Seq(S)
          /\ Len(left) = IF n + 1 <= Len(q) THEN Len(q) - (n + 1) + 1 ELSE 0
          /\ \A k \in 1..(Len(q) - (n + 1) + 1) : left[k] = q[(n + 1) + k - 1]
      BY <1>1, <2>1, SubSeqProperties
    <2>. QED BY <1>1, <2>2
  <1>4. set = {q[k] : k \in 1..n}
    <2>. HIDE DEF taken
    <2>1. DOMAIN taken = 1..n
      BY <1>1, <1>2
    <2>. QED BY <1>2, <2>1 DEF ToSet
  <1>5. IsFiniteSet(set) /\ Cardinality(set) <= n
    <2>. DEFINE f == [k \in 1..n |-> q[k]]
    <2>. HIDE DEF set
    <2>1. f \in Surjection(1..n, set)
      BY <1>4 DEF Surjection
    <2>2. IsFiniteSet(1..n) /\ Cardinality(1..n) = n
      BY <1>1, FS_Interval
    <2>. HIDE DEF f
    <2>. QED BY <2>1, <2>2, FS_Surjection
  <1>. HIDE DEF left, set
  <1>6. set \subseteq S /\ \A e \in set : Holds(q, e)
    BY <1>1, <1>4 DEF Holds
  <1>7. \A e : Holds(left, e) => Holds(q, e)
    BY <1>1, <1>3 DEF Holds
  <1>8. ASSUME NEW e, Holds(q, e) PROVE Holds(left, e) \/ e \in set
    <2>1. PICK i \in 1..Len(q) : q[i] = e
      BY <1>8 DEF Holds
    <2>2. CASE i <= n
      BY <1>1, <1>4, <2>1, <2>2
    <2>3. CASE i > n
      <3>1. i - n \in 1..Len(left) /\ left[i - n] = e
        BY <1>1, <1>3, <2>1, <2>3
      <3>. QED BY <3>1 DEF Holds
    <2>. QED BY <1>1, <2>2, <2>3
  <1>9. ASSUME NoRepeats(q) PROVE NoRepeats(left) /\ \A e \in set : ~ Holds(left, e)
    <2>1. ASSUME NEW i \in 1..Len(left), NEW k \in 1..Len(left), left[i] = left[k]
          PROVE  i = k
      <3>1. n + i \in 1..Len(q) /\ n + k \in 1..Len(q) /\ q[n + i] = q[n + k]
        BY <1>1, <1>3, <2>1
      <3>2. n + i = n + k
        BY <1>9, <3>1 DEF NoRepeats
      <3>. QED BY <1>1, <1>3, <3>2
    <2>2. ASSUME NEW i \in 1..n, NEW k \in 1..Len(left), left[k] = q[i] PROVE FALSE
      <3>1. n + k \in 1..Len(q) /\ i \in 1..Len(q) /\ q[n + k] = q[i] /\ n + k # i
        BY <1>1, <1>3, <2>2
      <3>. QED BY <1>9, <3>1 DEF NoRepeats
    <2>. QED BY <1>4, <2>1, <2>2 DEF NoRepeats, Holds
  <1>. QED BY <1>3, <1>5, <1>6, <1>7, <1>8, <1>9 DEF left, set

\* The three kinds of events, and the word for none, are not taken for each
\* other.
LEMMA EventFacts ==
  /\ \A j \in Ids : {<<"start", j>>, <<"done", j>>} \subseteq Events
  /\ <<"stop">> \in Events
  /\ \A j, k \in Ids : <<"start", j>> # <<"done", k>>
  /\ \A j \in Ids : <<"start", j>> # <<"stop">> /\ <<"done", j>> # <<"stop">>
  /\ \A j, k \in Ids : \A kind \in {"start", "done"} :
        <<kind, j>> = <<kind, k>> => j = k
  /\ \A e \in Events : e # None
  /\ \A e \in Events : e[1] = "start" => e[2] \in Ids /\ e = <<"start", e[2]>>
  /\ \A e \in Events : e[1] = "done" => e[2] \in Ids /\ e = <<"done", e[2]>>
  BY JobsAssumption DEF Events

-------------------------------------------------------------------------------
(* The inductive invariant *)

\* A job waits, runs or is finished; one that was forgotten is nowhere.
Placed ==
    /\ \A j \in waiting_job_ids \cup jobs \cup finished_jobs : j < job_id
    /\ waiting_job_ids \cap (jobs \cup finished_jobs) = {}
    /\ jobs \cap finished_jobs = {}
    /\ Cardinality(jobs) <= max_jobs
    /\ \A j \in Ids : thread[j] = "none" <=> j >= job_id \/ j \in waiting_job_ids
    /\ \A j \in Ids : thread[j] \in {"running", "done", "dead"} => j \in jobs

\* No event is there twice, and each is about a job that it can be about.
Delivered ==
    /\ NoRepeats(events) /\ NoRepeats(waiting_jobs)
    /\ loop = "got" => ~ Holds(events, ev)
    /\ loop \notin {"got", "callback"} => ev = None
    /\ loop = "callback" => ev \in {"done"} \X finished_jobs
    /\ Pending(<<"stop">>) => shutting_down
    /\ \A j \in Ids :
        /\ Pending(<<"start", j>>) => j \in waiting_job_ids /\ ~ Holds(waiting_jobs, j)
        /\ Pending(<<"done", j>>) => j \in jobs /\ thread[j] = "reported"
        /\ Holds(waiting_jobs, j) => j \in waiting_job_ids

\* Until shutdown no job is left without its event.
Awaited ==
    ~ shutting_down =>
        \A j \in Ids :
            /\ j \in waiting_job_ids => Pending(<<"start", j>>) \/ Holds(waiting_jobs, j)
            /\ j \in jobs /\ thread[j] = "reported" => Pending(<<"done", j>>)

IInv == TypeOK /\ Placed /\ Delivered /\ Awaited

LEMMA InitIInv == Init => IInv
  <1>. SUFFICES ASSUME Init PROVE IInv
    OBVIOUS
  <1>. USE JobsAssumption DEF Init
  <1>1. TypeOK
    <2>1. \A j \in Ids : since[j] \in 0..Horizon(thread[j] \in {"done", "reported"})
      BY DEF Horizon
    <2>2. job_id \in 0..MaxStarted /\ events \in Seq(Events) /\ waiting_jobs \in Seq(Ids)
      OBVIOUS
    <2>3. outcome \in [Ids -> Outcomes]
      BY DEF Outcomes
    <2>. QED BY <2>1, <2>2, <2>3 DEF TypeOK
  <1>2. Placed
    BY FS_EmptySet DEF Placed, Ids
  <1>3. Delivered
    BY DEF Delivered, NoRepeats, Holds, Pending
  <1>4. Awaited
    BY DEF Awaited
  <1>. QED BY <1>1, <1>2, <1>3, <1>4 DEF IInv

LEMMA JobsFinite == TypeOK => IsFiniteSet(jobs) /\ Cardinality(jobs) \in Nat
  <1>. SUFFICES ASSUME TypeOK PROVE IsFiniteSet(jobs) /\ Cardinality(jobs) \in Nat
    OBVIOUS
  <1>1. IsFiniteSet(Ids)
    BY JobsAssumption, FS_Interval DEF Ids
  <1>. QED BY <1>1, FS_Subset, FS_CardinalityType DEF TypeOK

\* What the oldest of the waiting jobs are, and the rest.
LEMMA StartFacts ==
  ASSUME TypeOK, Placed
  PROVE  /\ Rest \in Seq(Ids) /\ ToSet(Oldest) \subseteq Ids
         /\ IsFiniteSet(ToSet(Oldest)) /\ Free \in Nat /\ Cardinality(ToSet(Oldest)) <= Free
         /\ Free <= max_jobs - Cardinality(jobs)
         /\ \A j \in ToSet(Oldest) : Holds(waiting_jobs, j)
         /\ \A j : Holds(Rest, j) => Holds(waiting_jobs, j)
         /\ \A j : Holds(waiting_jobs, j) => Holds(Rest, j) \/ j \in ToSet(Oldest)
         /\ NoRepeats(waiting_jobs) =>
               NoRepeats(Rest) /\ \A j \in ToSet(Oldest) : ~ Holds(Rest, j)
  <1>1. /\ Cardinality(jobs) \in Nat /\ Cardinality(jobs) <= max_jobs /\ max_jobs \in Nat
        /\ waiting_jobs \in Seq(Ids) /\ Len(waiting_jobs) \in Nat
    BY JobsFinite, JobsAssumption DEF TypeOK, Placed
  <1>2. Free \in 0..Len(waiting_jobs) /\ Free <= max_jobs - Cardinality(jobs)
    BY <1>1 DEF Free
  <1>. QED BY <1>1, <1>2, CutFacts DEF Oldest, Rest

LEMMA LeastExists ==
  ASSUME NEW T \in SUBSET Nat, T # {}
  PROVE  \E t \in T : \A u \in T : t <= u
  <1>1. PICK t \in T : \A u \in T : ~ (<<u, t>> \in OpToRel(<, Nat))
    BY NatLessThanWellFounded, WFMin
  <1>2. \A u \in T : ~ (u < t)
    BY <1>1 DEF OpToRel
  <1>. QED BY <1>2

LEMMA NextIInv == IInv /\ [Next]_vars => IInv'
  <1>. SUFFICES ASSUME IInv, [Next]_vars PROVE IInv'
    OBVIOUS
  <1>. USE JobsAssumption DEF queue, tables, control, work
  <1>0. TypeOK /\ Placed /\ Delivered /\ Awaited
    BY DEF IInv
  <1>1. ASSUME StartJob PROVE IInv'
    <2>. PICK n : n = job_id
      OBVIOUS
    <2>1. /\ n \in Ids /\ n \notin waiting_job_ids \cup jobs \cup finished_jobs
          /\ thread[n] = "none" /\ ~ Pending(<<"start", n>>) /\ ~ Holds(waiting_jobs, n)
      <3>1. job_id \in Nat /\ n \in Ids /\ \A j \in Ids : j \in Nat
        BY <1>0, <1>1 DEF StartJob, TypeOK, Ids
      <3>2. n \notin waiting_job_ids \cup jobs \cup finished_jobs /\ thread[n] = "none"
        BY <1>0, <3>1 DEF Placed, TypeOK
      <3>. QED BY <1>0, <3>1, <3>2 DEF Delivered
    <2>2. /\ events \in Seq(Events) /\ <<"start", n>> \in Events
          /\ events' = Append(events, <<"start", n>>)
      BY <1>0, <1>1, <2>1, EventFacts DEF StartJob, TypeOK
    <2>3. /\ events' \in Seq(Events)
          /\ \A e : Holds(events', e) <=> Holds(events, e) \/ e = <<"start", n>>
          /\ NoRepeats(events')
      <3>1. ~ Holds(events, <<"start", n>>) /\ NoRepeats(events)
        BY <1>0, <2>1 DEF Delivered, Pending, Holds
      <3>2. PICK e : e = <<"start", n>>
        OBVIOUS
      <3>3. /\ Append(events, e) \in Seq(Events)
            /\ \A f : Holds(Append(events, e), f) <=> Holds(events, f) \/ f = e
            /\ NoRepeats(Append(events, e))
        BY <2>2, <3>1, <3>2, AppendFacts, SMTT(30)
      <3>. QED BY <2>2, <3>2, <3>3
    <2>4. /\ loop' # "callback" /\ loop # "callback" /\ (loop' = "got" <=> loop = "got")
          /\ loop' \notin {"got", "callback"} => loop \notin {"got", "callback"}
      BY <1>1 DEF StartJob, LockFree
    <2>5. UNCHANGED <<shutting_down, waiting_jobs, jobs, finished_jobs, ev, thread>>
          /\ waiting_job_ids' = waiting_job_ids \cup {n} /\ job_id' = n + 1 /\ ~ shutting_down
      BY <1>1 DEF StartJob
    <2>6. TypeOK'
      <3>1. job_id' \in 0..MaxStarted
        BY <2>1, <2>5 DEF Ids
      <3>. QED BY <1>0, <1>1, <2>1, <2>3, <2>5, <3>1 DEF StartJob, TypeOK
    <2>7. Placed'
      <3>1. n \in Nat /\ \A j \in Ids : j \in Nat
        BY <2>1 DEF Ids
      <3>2. \A j \in Ids : j >= n <=> j = n \/ j >= n + 1
        BY <3>1
      <3>. QED BY <1>0, <2>1, <2>5, <3>1, <3>2 DEF Placed, TypeOK
    <2>8. \A e : Pending(e)' <=> Pending(e) \/ e = <<"start", n>>
      BY <2>3, <2>4, <2>5 DEF Pending, Holds
    <2>9. Delivered'
      <3>1. loop' = "got" => ~ Holds(events', ev')
        BY <1>0, <2>1, <2>3, <2>4, <2>5 DEF Delivered, Pending
      <3>. QED BY <1>0, <2>1, <2>3, <2>4, <2>5, <2>8, <3>1, EventFacts DEF Delivered
    <2>10. Awaited'
      BY <1>0, <2>1, <2>5, <2>8, EventFacts DEF Awaited
    <2>. QED BY <2>6, <2>7, <2>9, <2>10 DEF IInv
  <1>2. ASSUME shutdown PROVE IInv'
    <2>1. /\ events' \in Seq(Events)
          /\ \A e : Holds(events', e) <=> Holds(events, e) \/ e = <<"stop">>
          /\ NoRepeats(events') /\ ~ Pending(<<"stop">>)
      <3>1. events \in Seq(Events) /\ ~ Pending(<<"stop">>)
        BY <1>0, <1>2 DEF shutdown, TypeOK, Delivered
      <3>. QED BY <1>0, <1>2, <3>1, AppendFacts, EventFacts, SMTT(30) DEF shutdown, Delivered, Pending, Holds
    <2>2. TypeOK'
      <3>1. abort_event' \subseteq Ids /\ shutting_down' \in BOOLEAN
        BY <1>0, <1>2 DEF shutdown, TypeOK
      <3>. QED BY <1>0, <1>2, <2>1, <3>1 DEF shutdown, TypeOK
    <2>3. Placed'
      BY <1>0, <1>2 DEF shutdown, Placed
    <2>4. UNCHANGED <<loop, ev, jobs, finished_jobs, waiting_job_ids, waiting_jobs, thread>>
          /\ shutting_down'
      BY <1>2 DEF shutdown
    <2>5. \A e : Pending(e)' <=> Pending(e) \/ e = <<"stop">>
      BY <2>1, <2>4 DEF Pending, Holds
    <2>6. Delivered'
      <3>1. loop' = "got" => ~ Holds(events', ev')
        BY <1>0, <2>1, <2>4 DEF Delivered, Pending
      <3>. QED BY <1>0, <2>1, <2>4, <2>5, <3>1, EventFacts DEF Delivered
    <2>7. Awaited'
      BY <2>4 DEF Awaited
    <2>. QED BY <2>2, <2>3, <2>6, <2>7 DEF IInv
  <1>3. ASSUME Top PROVE IInv'
    <2>1. TypeOK'
      BY <1>0, <1>3 DEF Top, TypeOK, Ids, Horizon
    <2>2. Placed'
      BY <1>0, <1>3 DEF Top, Placed, TypeOK
    <2>3. Delivered'
      BY <1>0, <1>3, EventFacts DEF Top, Delivered, Pending, Holds, NoRepeats, TypeOK
    <2>4. Awaited'
      BY <1>0, <1>3, EventFacts DEF Top, Awaited, Pending, Holds, TypeOK
    <2>. QED BY <2>1, <2>2, <2>3, <2>4 DEF IInv
  <1>4. ASSUME GetEvent PROVE IInv'
    <2>1. /\ ev' \in Events /\ events' \in Seq(Events)
          /\ \A e : Holds(events, e) <=> Holds(events', e) \/ e = ev'
          /\ NoRepeats(events') /\ ~ Holds(events', ev')
      <3>1. events \in Seq(Events)
        BY <1>0 DEF TypeOK
      <3>. QED BY <1>0, <1>4, <3>1, TailFacts DEF GetEvent, Delivered
    <2>2. /\ UNCHANGED <<shutting_down, job_id, tables, max_block, work>>
          /\ loop = "get" /\ loop' = "got" /\ patience' = None
      BY <1>4 DEF GetEvent
    <2>3. TypeOK'
      BY <1>0, <2>1, <2>2 DEF TypeOK
    <2>4. Placed'
      BY <1>0, <2>2 DEF Placed
    <2>5. \A e : Pending(e)' <=> Pending(e)
      BY <2>1, <2>2 DEF Pending, Holds
    <2>6. Delivered' /\ Awaited'
      BY <1>0, <2>1, <2>2, <2>5 DEF Delivered, Awaited
    <2>. QED BY <2>3, <2>4, <2>6 DEF IInv
  <1>5. ASSUME GetTimesOut PROVE IInv'
    <2>1. /\ UNCHANGED <<queue, tables, max_block, work>>
          /\ loop = "get" /\ loop' = "got" /\ ev' = None /\ patience' = None /\ events = <<>>
      BY <1>5 DEF GetTimesOut
    <2>2. TypeOK'
      BY <1>0, <2>1 DEF TypeOK
    <2>3. Placed'
      BY <1>0, <2>1 DEF Placed
    <2>4. \A e : ~ Holds(events, e)
      BY <2>1 DEF Holds
    <2>5. \A e \in Events : Pending(e)' <=> Pending(e)
      BY <2>1, EventFacts DEF Pending
    <2>6. Delivered'
      BY <1>0, <2>1, <2>4, <2>5, EventFacts DEF Delivered
    <2>7. Awaited'
      BY <1>0, <2>1, <2>5, EventFacts DEF Awaited
    <2>. QED BY <2>2, <2>3, <2>6, <2>7 DEF IInv
  <1>6. ASSUME Leave PROVE IInv'
    <2>1. TypeOK'
      BY <1>0, <1>6 DEF Leave, Becomes, TypeOK, Ids, Horizon
    <2>2. Placed'
      BY <1>0, <1>6 DEF Leave, Becomes, Placed, TypeOK
    <2>3. Delivered'
      BY <1>0, <1>6, EventFacts DEF Leave, Becomes, Delivered, Pending, Holds, NoRepeats, TypeOK
    <2>4. Awaited'
      <3>1. shutting_down'
        BY <1>0, <1>6 DEF Leave, Delivered, Pending
      <3>. QED BY <3>1 DEF Awaited
    <2>. QED BY <2>1, <2>2, <2>3, <2>4 DEF IInv
  <1>7. ASSUME TakeStart PROVE IInv'
    <2>. PICK n : n = ev[2]
      OBVIOUS
    <2>1. n \in Ids /\ ev = <<"start", n>> /\ loop = "got"
      BY <1>0, <1>7, EventFacts DEF TakeStart, Took, TypeOK
    <2>2. /\ waiting_jobs \in Seq(Ids) /\ waiting_jobs' = Append(waiting_jobs, n)
          /\ loop' = "start" /\ ev' = None
          /\ UNCHANGED <<queue, waiting_job_ids, jobs, finished_jobs, work, max_block, patience>>
      BY <1>0, <1>7 DEF TakeStart, Becomes, TypeOK
    <2>3. /\ Pending(<<"start", n>>) /\ ~ Holds(events, <<"start", n>>)
          /\ n \in waiting_job_ids /\ ~ Holds(waiting_jobs, n)
      BY <1>0, <2>1 DEF Delivered, Pending
    <2>4. /\ waiting_jobs' \in Seq(Ids)
          /\ \A j : Holds(waiting_jobs', j) <=> Holds(waiting_jobs, j) \/ j = n
          /\ NoRepeats(waiting_jobs')
      BY <1>0, <2>1, <2>2, <2>3, AppendFacts DEF Delivered
    <2>5. TypeOK'
      BY <1>0, <2>2, <2>4 DEF TypeOK
    <2>6. Placed'
      BY <1>0, <2>2 DEF Placed
    <2>7. \A e \in Events : Pending(e)' <=> Pending(e) /\ e # <<"start", n>>
      BY <2>1, <2>2, <2>3 DEF Pending, Holds
    <2>8. Delivered'
      BY <1>0, <2>1, <2>2, <2>3, <2>4, <2>7, EventFacts DEF Delivered
    <2>9. Awaited'
      BY <1>0, <2>1, <2>2, <2>3, <2>4, <2>7, EventFacts DEF Awaited
    <2>. QED BY <2>5, <2>6, <2>8, <2>9 DEF IInv
  <1>8. ASSUME AbortHanging PROVE IInv'
    <2>1. TypeOK'
      BY <1>0, <1>8 DEF AbortHanging, Becomes, Overdue, Going, TypeOK, Ids, Horizon
    <2>2. Placed'
      BY <1>0, <1>8 DEF AbortHanging, Becomes, Overdue, Going, Placed, TypeOK
    <2>3. Delivered'
      BY <1>0, <1>8, EventFacts DEF AbortHanging, Becomes, Overdue, Going, Delivered, Pending, Holds, NoRepeats, TypeOK
    <2>4. Awaited'
      <3>1. /\ UNCHANGED <<events, shutting_down, waiting_job_ids, waiting_jobs, jobs, thread>>
            /\ ev = None /\ ev' = None
        BY <1>8 DEF AbortHanging, Becomes
      <3>2. \A e \in Events : Pending(e)' <=> Pending(e)
        BY <3>1, EventFacts DEF Pending, Holds
      <3>. QED BY <1>0, <3>1, <3>2, EventFacts DEF Awaited, Holds
    <2>. QED BY <2>1, <2>2, <2>3, <2>4 DEF IInv
  <1>9. ASSUME TakeDone PROVE IInv'
    <2>. PICK n : n = ev[2]
      OBVIOUS
    <2>1. n \in Ids /\ ev = <<"done", n>> /\ loop = "got"
      BY <1>0, <1>9, EventFacts DEF TakeDone, Took, TypeOK
    <2>2. /\ jobs' = jobs \ {n} /\ finished_jobs' = finished_jobs \cup {n}
          /\ loop' = "callback"
          /\ UNCHANGED <<queue, waiting_job_ids, waiting_jobs, max_block, ev, patience, work>>
      BY <1>9 DEF TakeDone
    <2>3. /\ Pending(<<"done", n>>) /\ ~ Holds(events, <<"done", n>>)
          /\ n \in jobs /\ thread[n] = "reported"
      BY <1>0, <2>1 DEF Delivered, Pending
    <2>4. TypeOK'
      <3>1. jobs' \subseteq Ids /\ finished_jobs' \subseteq Ids
        BY <1>0, <2>1, <2>2 DEF TypeOK
      <3>. QED BY <1>0, <2>2, <3>1 DEF TypeOK
    <2>5. Placed'
      <3>1. Cardinality(jobs') <= max_jobs
        <4>1. IsFiniteSet(jobs)
          BY <1>0, JobsFinite
        <4>2. Cardinality(jobs') <= Cardinality(jobs)
          BY <2>2, <4>1, FS_Subset
        <4>. QED BY <1>0, <2>2, <4>1, <4>2, FS_Subset, FS_CardinalityType DEF Placed
      <3>. QED BY <1>0, <2>1, <2>2, <2>3, <3>1 DEF Placed
    <2>6. \A e \in Events : Pending(e)' <=> Pending(e) /\ e # <<"done", n>>
      BY <2>1, <2>2, <2>3 DEF Pending, Holds
    <2>7. Delivered'
      BY <1>0, <2>1, <2>2, <2>3, <2>6, EventFacts DEF Delivered
    <2>8. Awaited'
      BY <1>0, <2>1, <2>2, <2>3, <2>6, EventFacts DEF Awaited
    <2>. QED BY <2>4, <2>5, <2>7, <2>8 DEF IInv
  <1>10. ASSUME CallbackReturns PROVE IInv'
    <2>1. TypeOK'
      BY <1>0, <1>10 DEF CallbackReturns, Becomes, TypeOK, Ids, Horizon
    <2>2. Placed'
      BY <1>0, <1>10 DEF CallbackReturns, Becomes, Placed, TypeOK
    <2>3. Delivered'
      BY <1>0, <1>10, EventFacts DEF CallbackReturns, Becomes, Delivered, Pending, Holds, NoRepeats, TypeOK
    <2>4. Awaited'
      BY <1>0, <1>10, EventFacts DEF CallbackReturns, Becomes, Awaited, Pending, Holds, TypeOK
    <2>. QED BY <2>1, <2>2, <2>3, <2>4 DEF IInv
  <1>11. ASSUME Prune PROVE IInv'
    <2>. DEFINE old == {j \in finished_jobs : since[j] > Retention}
    <2>1. /\ loop = "prune" /\ loop' = "start" /\ ev' = None
          /\ UNCHANGED <<queue, waiting_job_ids, waiting_jobs, jobs, thread, max_block, patience>>
          /\ finished_jobs' = finished_jobs \ old /\ abort_event' = abort_event \ old
          /\ outcome' = [j \in Ids |-> IF j \in old THEN "none" ELSE outcome[j]]
          /\ since' = [j \in Ids |-> IF j \in old THEN 0 ELSE since[j]]
      BY <1>11 DEF Prune, Becomes
    <2>2. TypeOK'
      <3>. HIDE DEF old
      <3>1. finished_jobs' \subseteq Ids /\ abort_event' \subseteq Ids
        BY <1>0, <2>1 DEF TypeOK
      <3>2. outcome' \in [Ids -> Outcomes]
        BY <1>0, <2>1 DEF TypeOK, Outcomes
      <3>3. \A j \in Ids : since'[j] \in 0..Horizon(thread[j] \in {"done", "reported"})
        BY <1>0, <2>1 DEF TypeOK, Horizon
      <3>. QED BY <1>0, <2>1, <3>1, <3>2, <3>3 DEF TypeOK
    <2>. HIDE DEF old
    <2>3. Placed'
      BY <1>0, <2>1 DEF Placed
    <2>4. \A e : Pending(e)' <=> Pending(e)
      BY <2>1 DEF Pending
    <2>5. Delivered' /\ Awaited'
      BY <1>0, <2>1, <2>4 DEF Delivered, Awaited
    <2>. QED BY <2>2, <2>3, <2>5 DEF IInv
  <1>12. ASSUME StartWaitingJobs PROVE IInv'
    <2>. PICK T : T = ToSet(Oldest)
      OBVIOUS
    <2>1. /\ loop = "start" /\ loop' = "update" /\ ev' = None
          /\ UNCHANGED <<queue, finished_jobs, abort_event, outcome, since, max_block, patience>>
          /\ waiting_jobs' = Rest /\ jobs' = jobs \cup T
          /\ waiting_job_ids' = waiting_job_ids \ T
          /\ thread' = [j \in Ids |-> IF j \in T THEN "running" ELSE thread[j]]
      BY <1>12 DEF StartWaitingJobs, Starting, Becomes
    <2>2. IsFiniteSet(jobs) /\ Cardinality(jobs) \in Nat
      BY <1>0, JobsFinite
    <2>3. /\ Rest \in Seq(Ids) /\ T \subseteq Ids
          /\ IsFiniteSet(T) /\ Free \in Nat /\ Cardinality(T) <= Free
          /\ Free <= max_jobs - Cardinality(jobs)
          /\ \A j \in T : Holds(waiting_jobs, j)
          /\ \A j : Holds(Rest, j) => Holds(waiting_jobs, j)
          /\ \A j : Holds(waiting_jobs, j) => Holds(Rest, j) \/ j \in T
          /\ NoRepeats(waiting_jobs) => NoRepeats(Rest) /\ \A j \in T : ~ Holds(Rest, j)
      BY <1>0, StartFacts
    <2>4. T \subseteq waiting_job_ids /\ \A j \in T : thread[j] = "none" /\ j < job_id
      BY <1>0, <2>3 DEF Delivered, Placed
    <2>5. TypeOK'
      <3>1. /\ jobs' \subseteq Ids /\ waiting_job_ids' \subseteq Ids
            /\ waiting_jobs' \in Seq(Ids)
        BY <1>0, <2>1, <2>3 DEF TypeOK
      <3>2. /\ thread' \in [Ids -> {"none", "running", "done", "reported", "dead"}]
            /\ \A j \in Ids : thread'[j] \in {"done", "reported"}
                              <=> thread[j] \in {"done", "reported"}
        BY <1>0, <2>1, <2>4 DEF TypeOK
      <3>3. \A j \in Ids : since[j] \in 0..Horizon(thread'[j] \in {"done", "reported"})
        BY <1>0, <3>2 DEF TypeOK, Horizon
      <3>. QED BY <1>0, <2>1, <3>1, <3>2, <3>3 DEF TypeOK
    <2>6. Placed'
      <3>1. Cardinality(jobs') <= max_jobs
        <4>1. /\ Cardinality(jobs \cup T)
                    = Cardinality(jobs) + Cardinality(T) - Cardinality(jobs \cap T)
              /\ Cardinality(T) \in Nat
          BY <2>2, <2>3, FS_Union, FS_CardinalityType
        <4>2. Cardinality(jobs \cap T) \in Nat
          BY <2>2, FS_Subset, FS_CardinalityType
        <4>. QED BY <2>1, <2>2, <2>3, <4>1, <4>2
      <3>2. \A j \in Ids : thread'[j] = IF j \in T THEN "running" ELSE thread[j]
        BY <2>1
      <3>3. \A j \in T : ~ (j >= job_id)
        <4>1. job_id \in Nat /\ \A j \in T : j \in Nat
          BY <1>0, <2>3 DEF TypeOK, Ids
        <4>. QED BY <2>4, <4>1
      <3>. QED BY <1>0, <2>1, <2>3, <2>4, <3>1, <3>2, <3>3 DEF Placed, TypeOK
    <2>7. \A e : Pending(e)' <=> Pending(e)
      BY <2>1 DEF Pending
    <2>8. \A j \in Ids : thread'[j] = "reported" <=> thread[j] = "reported"
      BY <2>1, <2>3, <2>4
    <2>9. Delivered'
      <3>1. NoRepeats(Rest) /\ \A j \in T : ~ Holds(Rest, j)
        BY <1>0, <2>3 DEF Delivered
      <3>2. \A j \in T : ~ Pending(<<"start", j>>) /\ ~ Pending(<<"done", j>>)
        BY <1>0, <2>3, <2>4 DEF Delivered
      <3>. QED BY <1>0, <2>1, <2>3, <2>4, <2>7, <2>8, <3>1, <3>2 DEF Delivered
    <2>10. Awaited'
      BY <1>0, <2>1, <2>3, <2>4, <2>7, <2>8 DEF Awaited
    <2>. QED BY <2>5, <2>6, <2>9, <2>10 DEF IInv
  <1>13. ASSUME UpdateMaxBlock PROVE IInv'
    <2>1. TypeOK'
      <3>. DEFINE left == {max_job_time - since[j] : j \in {k \in jobs : Going(k)}}
      <3>1. max_block' = IF left = {} THEN None
                         ELSE IF \E t \in left : t <= 0 THEN 0
                         ELSE CHOOSE t \in left : \A u \in left : t <= u
        BY <1>13 DEF UpdateMaxBlock
      <3>2. \A t \in left : t \in Int /\ t <= max_job_time
        <4>1. \A j \in jobs : since[j] \in Nat
          BY <1>0 DEF TypeOK, Horizon
        <4>. QED BY <4>1
      <3>. HIDE DEF left
      <3>3. max_block' \in 0..max_job_time \cup {None}
        <4>1. CASE left # {} /\ ~ \E t \in left : t <= 0
          <5>1. left \in SUBSET Nat /\ \A t \in left : t \in 0..max_job_time
            BY <3>2, <4>1
          <5>2. \E t \in left : \A u \in left : t <= u
            BY <4>1, <5>1, LeastExists
          <5>. QED BY <3>1, <4>1, <5>1, <5>2
        <4>2. CASE left = {} \/ \E t \in left : t <= 0
          BY <3>1, <4>2
        <4>. QED BY <4>1, <4>2
      <3>. QED BY <1>0, <1>13, <3>3 DEF UpdateMaxBlock, TypeOK
    <2>2. Placed'
      BY <1>0, <1>13 DEF UpdateMaxBlock, Going, Placed, TypeOK
    <2>3. Delivered'
      BY <1>0, <1>13, EventFacts DEF UpdateMaxBlock, Going, Delivered, Pending, Holds, NoRepeats, TypeOK
    <2>4. Awaited'
      BY <1>0, <1>13, EventFacts DEF UpdateMaxBlock, Going, Awaited, Pending, Holds, TypeOK
    <2>. QED BY <2>1, <2>2, <2>3, <2>4 DEF IInv
  <1>14. ASSUME Tick PROVE IInv'
    <2>1. TypeOK'
      <3>1. patience' \in 0..max_job_time \cup {None}
        BY <1>0, <1>14 DEF Tick, TypeOK
      <3>2. \A j \in Ids : since'[j] \in 0..Horizon(thread[j] \in {"done", "reported"})
        BY <1>0, <1>14 DEF Tick, TypeOK, Horizon
      <3>. QED BY <1>0, <1>14, <3>1, <3>2 DEF Tick, TypeOK
    <2>2. Placed'
      BY <1>0, <1>14 DEF Tick, Placed, TypeOK
    <2>3. Delivered'
      BY <1>0, <1>14, EventFacts DEF Tick, Delivered, Pending, Holds, NoRepeats, TypeOK
    <2>4. Awaited'
      BY <1>0, <1>14, EventFacts DEF Tick, Awaited, Pending, Holds, TypeOK
    <2>. QED BY <2>1, <2>2, <2>3, <2>4 DEF IInv
  <1>15. ASSUME NEW j \in Ids, NEW result \in Outcomes, EndsAs(j, result) PROVE IInv'
    <2>1. TypeOK'
      <3>1. /\ thread' \in [Ids -> {"none", "running", "done", "reported", "dead"}]
            /\ outcome' \in [Ids -> Outcomes]
        BY <1>0, <1>15 DEF EndsAs, TypeOK
      <3>2. \A k \in Ids : since'[k] \in 0..Horizon(thread'[k] \in {"done", "reported"})
        BY <1>0, <1>15 DEF EndsAs, TypeOK, Horizon
      <3>. QED BY <1>0, <1>15, <3>1, <3>2 DEF EndsAs, TypeOK
    <2>2. Placed'
      BY <1>0, <1>15 DEF EndsAs, Placed, TypeOK
    <2>3. Delivered'
      BY <1>0, <1>15, EventFacts DEF EndsAs, Delivered, Pending, Holds, NoRepeats, TypeOK
    <2>4. Awaited'
      BY <1>0, <1>15, EventFacts DEF EndsAs, Awaited, Pending, Holds, TypeOK
    <2>. QED BY <2>1, <2>2, <2>3, <2>4 DEF IInv
  <1>16. ASSUME NEW j \in Ids, JobDies(j) PROVE IInv'
    <2>1. TypeOK'
      BY <1>0, <1>16 DEF JobDies, TypeOK, Ids, Horizon
    <2>2. Placed'
      BY <1>0, <1>16 DEF JobDies, Placed, TypeOK
    <2>3. Delivered'
      BY <1>0, <1>16, EventFacts DEF JobDies, Delivered, Pending, Holds, NoRepeats, TypeOK
    <2>4. Awaited'
      BY <1>0, <1>16, EventFacts DEF JobDies, Awaited, Pending, Holds, TypeOK
    <2>. QED BY <2>1, <2>2, <2>3, <2>4 DEF IInv
  <1>17. ASSUME NEW j \in Ids, JobReports(j) PROVE IInv'
    <2>1. /\ j \in jobs /\ thread[j] = "done" /\ ~ Pending(<<"done", j>>)
          /\ thread' = [thread EXCEPT ![j] = "reported"]
          /\ events \in Seq(Events) /\ events' = Append(events, <<"done", j>>)
          /\ UNCHANGED <<shutting_down, job_id, tables, control, abort_event, outcome, since>>
      BY <1>0, <1>17 DEF JobReports, TypeOK, Placed, Delivered
    <2>2. /\ events' \in Seq(Events)
          /\ \A e : Holds(events', e) <=> Holds(events, e) \/ e = <<"done", j>>
          /\ NoRepeats(events')
      <3>1. ~ Holds(events, <<"done", j>>) /\ NoRepeats(events)
        BY <1>0, <2>1 DEF Delivered, Pending, Holds
      <3>2. <<"done", j>> \in Events
        BY EventFacts
      <3>. QED BY <2>1, <3>1, <3>2, AppendFacts
    <2>3. /\ thread' \in [Ids -> {"none", "running", "done", "reported", "dead"}]
          /\ \A k \in Ids : thread'[k] = IF k = j THEN "reported" ELSE thread[k]
      BY <1>0, <2>1 DEF TypeOK
    <2>4. TypeOK'
      <3>1. \A k \in Ids : since[k] \in 0..Horizon(thread'[k] \in {"done", "reported"})
        BY <1>0, <2>1, <2>3 DEF TypeOK, Horizon
      <3>. QED BY <1>0, <2>1, <2>2, <2>3, <3>1 DEF TypeOK
    <2>5. Placed'
      BY <1>0, <2>1, <2>3 DEF Placed
    <2>6. \A e : Pending(e)' <=> Pending(e) \/ e = <<"done", j>>
      BY <2>1, <2>2 DEF Pending, Holds
    <2>7. Delivered'
      <3>1. loop' = "got" => ~ Holds(events', ev')
        BY <1>0, <2>1, <2>2 DEF Delivered, Pending
      <3>. QED BY <1>0, <2>1, <2>2, <2>3, <2>6, <3>1, EventFacts DEF Delivered
    <2>8. Awaited'
      BY <1>0, <2>1, <2>3, <2>6, EventFacts DEF Awaited
    <2>. QED BY <2>4, <2>5, <2>7, <2>8 DEF IInv
  <1>18. CASE UNCHANGED vars
    <2>1. TypeOK' /\ Placed'
      BY <1>0, <1>18 DEF vars, TypeOK, Placed
    <2>2. \A e : Pending(e)' <=> Pending(e)
      BY <1>18 DEF vars, Pending
    <2>3. Delivered' /\ Awaited'
      BY <1>0, <1>18, <2>2 DEF vars, Delivered, Awaited
    <2>. QED BY <2>1, <2>3 DEF IInv
  <1>19. \A j \in Ids : Running(j) =>
            (\E result \in Outcomes : EndsAs(j, result)) \/ JobDies(j) \/ JobReports(j)
    BY DEF Running, JobEnds, JobAborted, JobTimesOut, Outcomes
  <1>. QED BY <1>1, <1>2, <1>3, <1>4, <1>5, <1>6, <1>7, <1>8, <1>9, <1>10, <1>11, <1>12, <1>13, <1>14, <1>15, <1>16, <1>17, <1>18, <1>19 DEF Next, LoopStep

-------------------------------------------------------------------------------
(* The refinement *)

\* What the abstract queue is told of a job.
Stage(j) ==
    IF j >= job_id THEN "new"
    ELSE IF j \in waiting_job_ids THEN "waiting"
    ELSE IF j \in jobs THEN "running"
    ELSE IF j \notin finished_jobs THEN "forgotten"
    ELSE IF loop = "callback" /\ ev[2] = j THEN "ended" ELSE "told"

Verdict(j) == IF j \in finished_jobs THEN Report(j) ELSE None

\* The jobs of S move on, and no others.
Moved(S, from, to) ==
    /\ \A j \in S : Stage(j) = from
    /\ \A j \in Ids : Stage(j)' = IF j \in S THEN to ELSE Stage(j)

LEMMA MoveStep ==
  ASSUME NEW S \in SUBSET Ids, S # {}, NEW from, NEW to, Moved(S, from, to)
  PROVE  Abstract!Moves(S, from, to)
  BY DEF Moved, Stage, Abstract!Moves, Abstract!InState

LEMMA SubmitStep ==
  ASSUME NEW S \in SUBSET Ids, S # {}, Moved(S, "new", "waiting"),
         \A j \in Ids : Verdict(j)' = Verdict(j)
  PROVE  Abstract!Next
  BY MoveStep DEF Verdict, Abstract!Next, Abstract!Submit

LEMMA StartStep ==
  ASSUME NEW S \in SUBSET Ids, S # {}, Moved(S, "waiting", "running"),
         \A j \in Ids : Verdict(j)' = Verdict(j),
         NEW R \in SUBSET Ids, R = {j \in Ids : Stage(j) = "running"},
         IsFiniteSet(R \cup S), Cardinality(R \cup S) <= max_jobs
  PROVE  Abstract!Next
  <1>1. Abstract!InState("running") = R
    BY DEF Stage, Abstract!InState
  <1>2. Cardinality((R \cup S) \X (1..1)) <= max_jobs
    <2>1. IsFiniteSet(1..1) /\ Cardinality(1..1) = 1
      <3>1. 1..1 = {1}
        OBVIOUS
      <3>. QED BY <3>1, FS_Singleton
    <2>2. Cardinality((R \cup S) \X (1..1)) = Cardinality(R \cup S) * 1
      BY <2>1, FS_Product, ZenonT(60)
    <2>3. Cardinality(R \cup S) \in Nat
      BY FS_CardinalityType
    <2>. QED BY <2>2, <2>3
  <1>3. (R \cup S) \X (1..1) = UNION {{j} \X (1..[k \in Ids |-> 1][j]) : j \in R \cup S}
    OBVIOUS
  <1>4. Abstract!InUse(R \cup S) <= max_jobs
    BY <1>2, <1>3 DEF Abstract!InUse, Abstract!Cardinality, Cardinality
  <1>. QED BY MoveStep, <1>1, <1>4 DEF Verdict, Abstract!Next, Abstract!Start

LEMMA EndStep ==
  ASSUME NEW S \in SUBSET Ids, S # {}, Moved(S, "running", "ended"),
         \A j \in Ids : IF j \in S THEN Verdict(j)' # None ELSE Verdict(j)' = Verdict(j)
  PROVE  Abstract!Next
  <1>1. Abstract!Judged(S)
    BY DEF Verdict, Abstract!Judged
  <1>. QED BY MoveStep, <1>1 DEF Abstract!Next, Abstract!End

LEMMA TellStep ==
  ASSUME NEW S \in SUBSET Ids, S # {}, Moved(S, "ended", "told"),
         \A j \in Ids : Verdict(j)' = Verdict(j)
  PROVE  Abstract!Next
  BY MoveStep DEF Verdict, Abstract!Next, Abstract!Tell

LEMMA ForgetStep ==
  ASSUME NEW S \in SUBSET Ids, S # {}, Moved(S, "told", "forgotten"),
         \A j \in Ids : Verdict(j)' = IF j \in S THEN None ELSE Verdict(j)
  PROVE  Abstract!Next
  BY MoveStep DEF Verdict, Abstract!Next, Abstract!Forget

LEMMA StutterStep ==
  ASSUME \A j \in Ids : Stage(j)' = Stage(j) /\ Verdict(j)' = Verdict(j)
  PROVE  [Abstract!Next]_Abstract!vars
  BY DEF Stage, Verdict, Abstract!vars

\* A report is not the word for none.
LEMMA ReportMade ==
  ASSUME NEW result \in Outcomes, NEW B \in BOOLEAN
  PROVE  <<result, B>> # None
  BY JobsAssumption

LEMMA StepImplements == IInv /\ [Next]_vars => [Abstract!Next]_Abstract!vars
  <1>. SUFFICES ASSUME IInv, [Next]_vars PROVE [Abstract!Next]_Abstract!vars
    OBVIOUS
  <1>. USE DEF queue, tables, control, work
  <1>0. /\ TypeOK /\ Placed /\ Delivered
        /\ TypeOK' /\ Placed' /\ Delivered'
    BY NextIInv DEF IInv
  <1>a. job_id \in Nat /\ \A j \in Ids : j \in Nat
    BY <1>0 DEF TypeOK, Ids
  <1>1. ASSUME UNCHANGED <<job_id, waiting_job_ids, jobs, finished_jobs>>,
               loop # "callback", loop' # "callback",
               \A j \in finished_jobs :
                  /\ outcome'[j] = outcome[j] /\ thread'[j] = thread[j]
                  /\ j \in abort_event' <=> j \in abort_event
        PROVE  [Abstract!Next]_Abstract!vars
    BY <1>1, StutterStep DEF Stage, Verdict, Report, was_aborted
  <1>2. CASE Top \/ GetEvent \/ GetTimesOut \/ Leave \/ TakeStart \/ UpdateMaxBlock
    BY <1>1, <1>2 DEF Top, GetEvent, GetTimesOut, Leave, TakeStart, Took, Becomes, UpdateMaxBlock
  <1>3. CASE UNCHANGED <<job_id, waiting_job_ids, jobs, finished_jobs, loop, ev>>
             /\ \A j \in finished_jobs :
                  /\ outcome'[j] = outcome[j] /\ thread'[j] = thread[j]
                  /\ j \in abort_event' <=> j \in abort_event
    BY <1>3, StutterStep DEF Stage, Verdict, Report, was_aborted
  <1>4. CASE shutdown
    BY <1>0, <1>3, <1>4 DEF shutdown, Placed
  <1>5. CASE AbortHanging
    BY <1>0, <1>1, <1>5 DEF AbortHanging, Becomes, Placed
  <1>6. CASE Tick \/ UNCHANGED vars
    BY <1>3, <1>6 DEF Tick, vars
  <1>7. ASSUME NEW j \in Ids,
               (\E result \in Outcomes : EndsAs(j, result)) \/ JobDies(j) \/ JobReports(j)
        PROVE  [Abstract!Next]_Abstract!vars
    <2>1. j \notin finished_jobs
      BY <1>0, <1>7 DEF EndsAs, JobDies, JobReports, Placed
    <2>. QED BY <1>0, <1>3, <1>7, <2>1 DEF EndsAs, JobDies, JobReports, TypeOK
  <1>8. CASE StartJob
    <2>. PICK n : n = job_id
      OBVIOUS
    <2>1. /\ n \in Ids /\ job_id' = n + 1 /\ waiting_job_ids' = waiting_job_ids \cup {n}
          /\ UNCHANGED <<jobs, finished_jobs, ev, work>>
          /\ loop # "callback" /\ loop' # "callback"
      BY <1>0, <1>8 DEF StartJob, LockFree, TypeOK, Ids
    <2>2. \A j \in Ids : (j >= job_id' <=> j >= job_id /\ j # n)
      BY <1>a, <2>1
    <2>3. Moved({n}, "new", "waiting")
      BY <1>a, <2>1, <2>2 DEF Moved, Stage
    <2>4. \A j \in Ids : Verdict(j)' = Verdict(j)
      BY <2>1 DEF Verdict, Report, was_aborted
    <2>. QED BY <2>1, <2>3, <2>4, SubmitStep
  <1>9. CASE TakeDone
    <2>. PICK n : n = ev[2]
      OBVIOUS
    <2>1. n \in Ids /\ ev = <<"done", n>> /\ loop = "got" /\ n \in jobs
      BY <1>0, <1>9, EventFacts DEF TakeDone, Took, TypeOK, Delivered, Pending
    <2>2. /\ jobs' = jobs \ {n} /\ finished_jobs' = finished_jobs \cup {n}
          /\ loop' = "callback" /\ ev' = ev
          /\ UNCHANGED <<job_id, waiting_job_ids, work>>
      BY <1>9 DEF TakeDone
    <2>3. n < job_id /\ n \notin waiting_job_ids /\ n \notin finished_jobs
      BY <1>0, <2>1 DEF Placed
    <2>4. Moved({n}, "running", "ended")
      BY <1>a, <2>1, <2>2, <2>3 DEF Moved, Stage
    <2>5. Verdict(n)' # None
      <3>1. outcome[n] \in Outcomes /\ was_aborted(n) \in BOOLEAN
        BY <1>0, <2>1 DEF TypeOK, was_aborted
      <3>2. Verdict(n)' = Report(n)
        BY <2>2 DEF Verdict, Report, was_aborted
      <3>. QED BY <3>1, <3>2, ReportMade DEF Report
    <2>6. \A j \in Ids \ {n} : Verdict(j)' = Verdict(j)
      BY <2>2 DEF Verdict, Report, was_aborted
    <2>. QED BY <2>1, <2>4, <2>5, <2>6, EndStep
  <1>10. CASE CallbackReturns
    <2>. PICK n : n = ev[2]
      OBVIOUS
    <2>1. n \in finished_jobs /\ n \in Ids /\ loop = "callback"
      BY <1>0, <1>10 DEF CallbackReturns, TypeOK, Delivered
    <2>2. loop' = "prune" /\ UNCHANGED <<job_id, waiting_job_ids, jobs, finished_jobs, work>>
      BY <1>10 DEF CallbackReturns, Becomes
    <2>3. n < job_id /\ n \notin waiting_job_ids /\ n \notin jobs
      BY <1>0, <2>1 DEF Placed
    <2>4. Moved({n}, "ended", "told")
      BY <1>a, <2>1, <2>2, <2>3 DEF Moved, Stage
    <2>5. \A j \in Ids : Verdict(j)' = Verdict(j)
      BY <2>2 DEF Verdict, Report, was_aborted
    <2>. QED BY <2>1, <2>4, <2>5, TellStep
  <1>11. CASE Prune
    <2>. PICK old : old = {j \in finished_jobs : since[j] > Retention}
      OBVIOUS
    <2>1. /\ loop # "callback" /\ loop' # "callback"
          /\ UNCHANGED <<job_id, waiting_job_ids, jobs, thread>>
          /\ finished_jobs' = finished_jobs \ old /\ abort_event' = abort_event \ old
          /\ \A j \in Ids \ old : outcome'[j] = outcome[j]
          /\ old \subseteq finished_jobs /\ old \subseteq Ids
      BY <1>0, <1>11 DEF Prune, Becomes, TypeOK
    <2>2. \A j \in old : j < job_id /\ j \notin waiting_job_ids /\ j \notin jobs
      BY <1>0, <2>1 DEF Placed
    <2>3. Moved(old, "told", "forgotten")
      BY <1>a, <2>1, <2>2 DEF Moved, Stage
    <2>4. \A j \in Ids : Verdict(j)' = IF j \in old THEN None ELSE Verdict(j)
      <3>1. \A j \in Ids \ old : Report(j)' = Report(j)
        BY <2>1 DEF Report, was_aborted
      <3>. QED BY <2>1, <3>1 DEF Verdict
    <2>5. CASE old = {}
      BY <1>0, <1>1, <2>1, <2>5 DEF TypeOK
    <2>. QED BY <2>1, <2>3, <2>4, <2>5, ForgetStep
  <1>12. CASE StartWaitingJobs
    <2>. PICK T : T = ToSet(Oldest)
      OBVIOUS
    <2>. PICK R : R = jobs
      OBVIOUS
    <2>1. /\ loop = "start" /\ loop' = "update"
          /\ UNCHANGED <<job_id, finished_jobs, abort_event, outcome>>
          /\ jobs' = jobs \cup T /\ waiting_job_ids' = waiting_job_ids \ T
          /\ thread' = [j \in Ids |-> IF j \in T THEN "running" ELSE thread[j]]
      BY <1>12 DEF StartWaitingJobs, Starting, Becomes
    <2>2. T \subseteq Ids /\ T \subseteq waiting_job_ids
      BY <1>0, StartFacts DEF IInv, Delivered
    <2>3. \A j \in T : j < job_id /\ j \notin jobs /\ j \notin finished_jobs
      BY <1>0, <2>2 DEF Placed
    <2>4. Moved(T, "waiting", "running")
      BY <1>a, <2>1, <2>2, <2>3 DEF Moved, Stage
    <2>5. \A j \in finished_jobs : thread'[j] = thread[j]
      BY <1>0, <2>1, <2>3 DEF TypeOK
    <2>6. \A j \in Ids : Verdict(j)' = Verdict(j)
      BY <2>1, <2>5 DEF Verdict, Report, was_aborted
    <2>7. R = {j \in Ids : Stage(j) = "running"}
      BY <1>0, <1>a, <2>1 DEF Stage, Placed, TypeOK
    <2>8. IsFiniteSet(R \cup T) /\ Cardinality(R \cup T) <= max_jobs /\ R \subseteq Ids
      <3>1. IsFiniteSet(Ids)
        BY JobsAssumption, FS_Interval DEF Ids
      <3>. QED BY <1>0, <2>1, <2>2, <3>1, FS_Subset DEF Placed, TypeOK
    <2>9. CASE T = {}
      BY <1>1, <2>1, <2>5, <2>9
    <2>. QED BY <2>2, <2>4, <2>6, <2>7, <2>8, <2>9, StartStep
  <1>13. \A j \in Ids : Running(j) =>
            (\E result \in Outcomes : EndsAs(j, result)) \/ JobDies(j) \/ JobReports(j)
    BY DEF Running, JobEnds, JobAborted, JobTimesOut, Outcomes
  <1>14. CASE \E j \in Ids : Running(j)
    BY <1>7, <1>13, <1>14
  <1>15. CASE LoopStep
    BY <1>2, <1>5, <1>9, <1>11, <1>12, <1>15 DEF LoopStep
  <1>. QED BY <1>4, <1>6, <1>8, <1>10, <1>14, <1>15 DEF Next

-------------------------------------------------------------------------------
(* The theorems *)

\* Until shutdown a job that was handed in waits, runs or is finished, and
\* nothing that must still be said of it is lost.
THEOREM AccountsAlways == Spec => []Accounts
  <1>1. IInv => Accounts
    <2>. SUFFICES ASSUME IInv PROVE Accounts
      OBVIOUS
    <2>1. waiting_jobs \in Seq(Ids) /\ \A j : j \in ToSet(waiting_jobs) <=> Holds(waiting_jobs, j)
      BY DEF IInv, TypeOK, ToSet, Holds
    <2>. QED BY <2>1 DEF IInv, Accounts, Placed, Delivered, Awaited
  <1>. QED BY InitIInv, NextIInv, <1>1, PTL DEF Spec

\* A job waits, runs with as many others as there are slots, and ends; its
\* report is final, its callback is called once, and it is forgotten after
\* that; before and after shutdown.
THEOREM ManagerImplementsJobQueue == Spec => ImplementsJobQueue
  <1>1. Init => Abstract!Init
    BY DEF Init, Abstract!Init, Ids
  <1>. QED BY <1>1, InitIInv, NextIInv, StepImplements, PTL
           DEF Spec, ImplementsJobQueue, Abstract!Spec

-------------------------------------------------------------------------------
(* Preparation of books: the inductive invariant *)

\* The jobs whose callback has not been called yet.
InHand == {j \in Ids : j \in waiting_job_ids \cup jobs \/ (loop = "callback" /\ ev[2] = j)}

\* The job that stands for a book: what queued_jobs says, or what the handler
\* that holds cache_lock is about to make it say.
NameOf(b) ==
    IF cache_lock # None /\ at[cache_lock] = "register" /\ asked[cache_lock] = b
    THEN told[cache_lock] ELSE queued_jobs[b]

\* Who holds cache_lock, and what for.
Locked ==
    /\ \A h \in Handlers :
        /\ at[h] \in {"start", "register"} <=> cache_lock = h
        /\ at[h] # "idle" => asked[h] \in Books
        /\ at[h] \in {"idle", "enter", "start"} => told[h] = None
    /\ cache_lock # None => queued_jobs[asked[cache_lock]] = None

Named ==
    /\ \A b \in Books : {j \in InHand : book_of[j] = b} = {NameOf(b)} \ {None}
    /\ \A j \in Ids : book_of[j] = None <=> j >= job_id

RInv == IInv /\ RTypeOK /\ Locked /\ Named

\* What a step of the manager leaves of the books.
LEMMA HandKept ==
  ASSUME UNCHANGED <<job_id, cache, requests>>, InHand' = InHand,
         RTypeOK, Locked, Named, TypeOK'
  PROVE  (RTypeOK /\ Locked /\ Named)'
  BY DEF cache, requests, RTypeOK, Locked, Named, NameOf

LEMMA ManagingKeepsHand ==
  ASSUME IInv, Managing \/ UNCHANGED vars
  PROVE  InHand' = InHand /\ job_id' = job_id
  <1>. USE DEF queue, tables, control, work
  <1>0. TypeOK /\ Placed /\ Delivered
    BY DEF IInv
  <1>1. ASSUME UNCHANGED <<job_id, waiting_job_ids, jobs>>,
               (loop # "callback" /\ loop' # "callback") \/ UNCHANGED <<loop, ev>>
        PROVE  InHand' = InHand /\ job_id' = job_id
    BY <1>1 DEF InHand
  <1>2. CASE Top \/ GetEvent \/ GetTimesOut \/ Leave \/ TakeStart \/ UpdateMaxBlock
    BY <1>1, <1>2 DEF Top, GetEvent, GetTimesOut, Leave, TakeStart, Took, Becomes, UpdateMaxBlock
  <1>3. CASE AbortHanging \/ Prune
    BY <1>1, <1>3 DEF AbortHanging, Prune, Becomes
  <1>4. CASE shutdown \/ Tick \/ UNCHANGED vars
    BY <1>1, <1>4 DEF shutdown, Tick, vars
  <1>5. ASSUME NEW j \in Ids, Running(j) PROVE InHand' = InHand /\ job_id' = job_id
    BY <1>1, <1>5 DEF Running, JobEnds, JobAborted, JobTimesOut, EndsAs, JobDies, JobReports
  <1>6. CASE TakeDone
    <2>. PICK n : n = ev[2]
      OBVIOUS
    <2>1. n \in Ids /\ ev = <<"done", n>> /\ loop = "got" /\ n \in jobs
      BY <1>0, <1>6, EventFacts DEF TakeDone, Took, TypeOK, Delivered, Pending
    <2>2. /\ jobs' = jobs \ {n} /\ loop' = "callback" /\ ev' = ev
          /\ UNCHANGED <<job_id, waiting_job_ids>>
      BY <1>6 DEF TakeDone
    <2>. QED BY <2>1, <2>2 DEF InHand
  <1>7. CASE StartWaitingJobs
    <2>. PICK T : T = ToSet(Oldest)
      OBVIOUS
    <2>1. /\ loop = "start" /\ loop' = "update" /\ job_id' = job_id
          /\ jobs' = jobs \cup T /\ waiting_job_ids' = waiting_job_ids \ T
      BY <1>7 DEF StartWaitingJobs, Starting, Becomes
    <2>2. T \subseteq waiting_job_ids
      BY <1>0, StartFacts DEF Delivered
    <2>. QED BY <2>1, <2>2 DEF InHand
  <1>. QED BY <1>2, <1>3, <1>4, <1>5, <1>6, <1>7 DEF Managing, LoopStep

LEMMA InitRInv == RInit => RInv
  <1>. SUFFICES ASSUME RInit PROVE RInv
    OBVIOUS
  <1>1. IInv
    BY InitIInv DEF RInit
  <1>2. InHand = {} /\ job_id = 0
    BY DEF RInit, Init, InHand
  <1>3. RTypeOK
    BY <1>1 DEF RInit, RTypeOK, IInv
  <1>4. Locked
    BY RenderAssumption DEF RInit, Locked
  <1>5. Named
    BY <1>2, RenderAssumption DEF RInit, Named, NameOf, Ids
  <1>. QED BY <1>1, <1>3, <1>4, <1>5 DEF RInv

LEMMA NextRInv == RInv /\ [RNext]_rvars => RInv'
  <1>. SUFFICES ASSUME RInv, [RNext]_rvars PROVE RInv'
    OBVIOUS
  <1>. USE RenderAssumption DEF cache, requests
  <1>0. IInv /\ TypeOK /\ RTypeOK /\ Locked /\ Named /\ None \notin Ids
    BY JobsAssumption DEF RInv, IInv, Ids
  <1>1. [Next]_vars
    BY DEF RNext, rvars, Handling, Managing, Next, Ask, Look, CopyFails, Start, StartRefused, Register,
           AskStatus, JobDone
  <1>2. IInv' /\ TypeOK'
    BY <1>0, <1>1, NextIInv DEF IInv
  <1>3. CASE Managing /\ UNCHANGED <<cache, requests>>
    BY <1>0, <1>2, <1>3, ManagingKeepsHand, HandKept DEF RInv
  <1>4. CASE UNCHANGED rvars
    BY <1>0, <1>2, <1>4, ManagingKeepsHand, HandKept DEF RInv, rvars
  <1>5. ASSUME UNCHANGED vars PROVE InHand' = InHand /\ job_id' = job_id
    BY <1>5 DEF InHand, vars, queue, tables, control
  <1>6. ASSUME NEW h \in Handlers, NEW b \in Books, Ask(h, b) PROVE RInv'
    <2>1. RTypeOK'
      BY <1>0, <1>2, <1>6 DEF Ask, RTypeOK
    <2>2. Locked'
      BY <1>0, <1>6 DEF Ask, Locked, RTypeOK
    <2>3. Named'
      BY <1>0, <1>5, <1>6 DEF Ask, Named, NameOf, Locked, RTypeOK
    <2>. QED BY <1>2, <2>1, <2>2, <2>3 DEF RInv
  <1>7. ASSUME NEW h \in Handlers, Look(h) PROVE RInv'
    <2>1. RTypeOK'
      <3>1. /\ rendered' \subseteq Books /\ failed_jobs' \subseteq Books
            /\ cache_lock' \in Handlers \cup {None}
            /\ UNCHANGED <<vars, queued_jobs, book_of>>
        BY <1>0, <1>7 DEF Look, RTypeOK
      <3>2. at' \in [Handlers -> {"idle", "enter", "start", "register", "status"}]
        BY <1>0, <1>7 DEF Look, Answered, RTypeOK
      <3>3. asked' \in [Handlers -> Books \cup {None}]
        BY <1>0, <1>7 DEF Look, Answered, RTypeOK
      <3>4. told' \in [Handlers -> Ids \cup {None}]
        <4>1. asked[h] \in Books
          BY <1>0, <1>7 DEF Look, Locked
        <4>. QED BY <1>0, <1>7, <4>1 DEF Look, Answered, RTypeOK
      <3>. QED BY <1>0, <1>2, <3>1, <3>2, <3>3, <3>4 DEF RTypeOK
    <2>2. Locked'
      BY <1>0, <1>7 DEF Look, Answered, Locked, RTypeOK
    <2>3. Named'
      BY <1>0, <1>5, <1>7 DEF Look, Answered, Named, NameOf, Locked, RTypeOK
    <2>. QED BY <1>2, <2>1, <2>2, <2>3 DEF RInv
  <1>8. ASSUME NEW h \in Handlers, Start(h) PROVE RInv'
    <2>1. RTypeOK'
      BY <1>0, <1>2, <1>8 DEF Start, StartJob, RTypeOK, TypeOK, Ids
    <2>2. Locked'
      BY <1>0, <1>8 DEF Start, Locked, RTypeOK
    <2>3. Named'
      <3>. PICK n : n = job_id
        OBVIOUS
      <3>. PICK b : b = asked[h]
        OBVIOUS
      <3>1. /\ n \in Ids /\ job_id' = n + 1 /\ waiting_job_ids' = waiting_job_ids \cup {n}
            /\ UNCHANGED <<jobs, ev>> /\ loop # "callback" /\ loop' # "callback"
        BY <1>0, <1>8, JobsAssumption DEF Start, StartJob, LockFree, TypeOK, Ids, work
      <3>2. /\ cache_lock = h /\ cache_lock' = h /\ at'[h] = "register" /\ asked' = asked
            /\ told'[h] = n /\ queued_jobs' = queued_jobs /\ b \in Books
            /\ queued_jobs[b] = None /\ at[h] = "start"
        BY <1>0, <1>8 DEF Start, Locked, RTypeOK
      <3>3. \A j \in Ids : book_of'[j] = IF j = n THEN b ELSE book_of[j]
        BY <1>0, <1>8 DEF Start, RTypeOK
      <3>4. InHand' = InHand \cup {n}
        BY <3>1 DEF InHand
      <3>5. \A j \in Ids : j >= n + 1 <=> j >= n /\ j # n
        BY <3>1 DEF Ids
      <3>6. InHand \subseteq Ids /\ InHand' \subseteq Ids
        BY DEF InHand
      <3>7. NameOf(b) = None /\ NameOf(b)' = n
        BY <1>0, <3>2 DEF NameOf
      <3>8. \A c \in Books : c # b => NameOf(c)' = NameOf(c)
        BY <1>0, <3>2 DEF NameOf
      <3>9. \A c \in Books : {j \in InHand' : book_of'[j] = c} = {NameOf(c)'} \ {None}
        <4>1. ASSUME NEW c \in Books, c # b
              PROVE  {j \in InHand' : book_of'[j] = c} = {j \in InHand : book_of[j] = c}
          <5>1. n \notin InHand \/ book_of[n] # c
            BY <1>0, <3>1, <4>1 DEF Named, Ids
          <5>. QED BY <3>1, <3>3, <3>4, <3>6, <4>1, <5>1
        <4>2. {j \in InHand' : book_of'[j] = b} = {n}
          <5>1. {j \in InHand : book_of[j] = b} = {}
            BY <1>0, <3>2, <3>7 DEF Named
          <5>. QED BY <3>1, <3>3, <3>4, <3>6, <5>1
        <4>3. {n} = {NameOf(b)'} \ {None}
          BY <1>0, <3>1, <3>7
        <4>. QED BY <1>0, <3>8, <4>1, <4>2, <4>3 DEF Named
      <3>10. \A j \in Ids : book_of'[j] = None <=> j >= job_id'
        BY <1>0, <3>1, <3>2, <3>3, <3>5 DEF Named
      <3>. QED BY <3>9, <3>10 DEF Named
    <2>. QED BY <1>2, <2>1, <2>2, <2>3 DEF RInv
  <1>9. ASSUME NEW h \in Handlers, StartRefused(h) PROVE RInv'
    <2>1. RTypeOK'
      BY <1>0, <1>2, <1>9 DEF StartRefused, RTypeOK
    <2>2. Locked'
      BY <1>0, <1>9 DEF StartRefused, Locked, RTypeOK
    <2>3. Named'
      BY <1>0, <1>5, <1>9 DEF StartRefused, Named, NameOf, Locked, RTypeOK
    <2>. QED BY <1>2, <2>1, <2>2, <2>3 DEF RInv
  <1>10. ASSUME NEW h \in Handlers, Register(h) PROVE RInv'
    <2>1. RTypeOK'
      BY <1>0, <1>2, <1>10 DEF Register, RTypeOK
    <2>2. Locked'
      BY <1>0, <1>10 DEF Register, Locked, RTypeOK
    <2>3. Named'
      BY <1>0, <1>5, <1>10 DEF Register, Named, NameOf, Locked, RTypeOK
    <2>. QED BY <1>2, <2>1, <2>2, <2>3 DEF RInv
  <1>11. ASSUME NEW h \in Handlers, AskStatus(h) PROVE RInv'
    <2>1. RTypeOK'
      BY <1>0, <1>2, <1>11 DEF AskStatus, Answered, RTypeOK
    <2>2. Locked'
      BY <1>0, <1>11 DEF AskStatus, Answered, Locked, RTypeOK
    <2>3. Named'
      BY <1>0, <1>5, <1>11 DEF AskStatus, Answered, Named, NameOf, Locked, RTypeOK
    <2>. QED BY <1>2, <2>1, <2>2, <2>3 DEF RInv
  <1>12. CASE JobDone
    <2>. PICK n : n = ev[2]
      OBVIOUS
    <2>. PICK b : b = book_of[n]
      OBVIOUS
    <2>1. /\ n \in Ids /\ n \notin waiting_job_ids /\ n \notin jobs /\ n < job_id
          /\ b \in Books
      <3>1. n \in finished_jobs /\ n \in Ids
        BY <1>0, <1>12 DEF JobDone, CallbackReturns, IInv, TypeOK, Delivered
      <3>2. n \notin waiting_job_ids /\ n \notin jobs /\ n < job_id
        BY <1>0, <3>1 DEF IInv, Placed
      <3>3. ~ (n >= job_id)
        BY <1>0, <3>1, <3>2 DEF TypeOK, Ids
      <3>. QED BY <1>0, <3>1, <3>2, <3>3 DEF Named, RTypeOK
    <2>2. RTypeOK'
      <3>1. queued_jobs' \in [Books -> Ids \cup {None}]
        BY <1>0, <1>12 DEF JobDone, RTypeOK
      <3>2. failed_jobs' \subseteq Books /\ rendered' \subseteq Books
        BY <1>0, <1>12, <2>1 DEF JobDone, RTypeOK
      <3>. QED BY <1>0, <1>2, <1>12, <3>1, <3>2 DEF JobDone, RTypeOK
    <2>3. Locked'
      BY <1>0, <1>12 DEF JobDone, Locked, RTypeOK
    <2>4. Named'
      <3>1. /\ cache_lock = None /\ cache_lock' = None
            /\ \A c \in Books : queued_jobs'[c] = IF c = b THEN None ELSE queued_jobs[c]
            /\ book_of' = book_of /\ job_id' = job_id
        BY <1>0, <1>12 DEF JobDone, CallbackReturns, RTypeOK, queue
      <3>2. /\ loop = "callback" /\ loop' # "callback"
            /\ waiting_job_ids' = waiting_job_ids /\ jobs' = jobs
        BY <1>12 DEF JobDone, CallbackReturns, Becomes, tables
      <3>3. n \in InHand /\ InHand' = InHand \ {n}
        BY <2>1, <3>2 DEF InHand
      <3>4. \A c \in Books : NameOf(c) = queued_jobs[c] /\ NameOf(c)' = queued_jobs'[c]
        BY <3>1 DEF NameOf
      <3>5. NameOf(b) = n
        BY <1>0, <2>1, <3>3 DEF Named
      <3>6. {j \in InHand' : book_of'[j] = b} = {}
        BY <1>0, <2>1, <3>1, <3>3, <3>5 DEF Named
      <3>7. ASSUME NEW c \in Books, c # b
            PROVE  {j \in InHand' : book_of'[j] = c} = {j \in InHand : book_of[j] = c}
        BY <2>1, <3>1, <3>3, <3>7
      <3>. QED BY <1>0, <3>1, <3>4, <3>6, <3>7 DEF Named
    <2>. QED BY <1>2, <2>2, <2>3, <2>4 DEF RInv
  <1>13. ASSUME NEW h \in Handlers, CopyFails(h) PROVE RInv'
    <2>1. RTypeOK'
      BY <1>0, <1>2, <1>13 DEF CopyFails, Answered, RTypeOK
    <2>2. Locked'
      BY <1>0, <1>13 DEF CopyFails, Answered, Locked, RTypeOK
    <2>3. Named'
      BY <1>0, <1>5, <1>13 DEF CopyFails, Answered, Named, NameOf, Locked, RTypeOK
    <2>. QED BY <1>2, <2>1, <2>2, <2>3 DEF RInv
  <1>. QED BY <1>3, <1>4, <1>6, <1>7, <1>8, <1>9, <1>10, <1>11, <1>12, <1>13 DEF RNext, Handling

-------------------------------------------------------------------------------
(* The theorems *)

LEMMA OpenIsNamed == RInv => \A b \in Books : Open(b) = {NameOf(b)} \ {None}
  BY DEF RInv, Named, InHand, Open

\* However many requests there are for a book, one job prepares it at a time.
THEOREM OneJobPerBookAlways == RSpec => []OneJobPerBook
  <1>1. RInv => OneJobPerBook
    <2>. SUFFICES ASSUME RInv, NEW b \in Books PROVE Cardinality(Open(b)) <= 1
      BY DEF OneJobPerBook
    <2>1. Open(b) = {} \/ Open(b) = {NameOf(b)}
      BY OpenIsNamed
    <2>2. Cardinality(Open(b)) = 0 \/ Cardinality(Open(b)) = 1
      BY <2>1, FS_EmptySet, FS_Singleton
    <2>. QED BY <2>2
  <1>. QED BY InitRInv, NextRInv, <1>1, PTL DEF RSpec

\* Between requests queued_jobs names the job that prepares a book, and no
\* other.
THEOREM QueuedIsOpenAlways == RSpec => []QueuedIsOpen
  <1>1. RInv => QueuedIsOpen
    BY OpenIsNamed DEF RInv, QueuedIsOpen, NameOf
  <1>. QED BY InitRInv, NextRInv, <1>1, PTL DEF RSpec
===============================================================================
