--------------------------- MODULE JobServerProofs ----------------------------
(***************************************************************************)
(* For any number of jobs, size of the pool and choice of greedy jobs, the *)
(* job server of the GUI gives honest verdicts, and implements the queue   *)
(* of jobs that those who hand jobs in rely on.                            *)
(***************************************************************************)
EXTENDS JobServer, FiniteSetTheorems, SequenceTheorems, TLAPS

-------------------------------------------------------------------------------
(* Queues *)

NoRepeats(q) == \A i, k \in 1..Len(q) : q[i] = q[k] => i = k
\* The word to stop may be in the queue of jobs with them.
NoJobTwice(q) == \A i, k \in 1..Len(q) : q[i] = q[k] /\ q[i] # None => i = k

Holds(q, e) == \E i \in 1..Len(q) : q[i] = e

LEMMA AppendFacts ==
    ASSUME NEW S, NEW q \in Seq(S), NEW e \in S
    PROVE  /\ Append(q, e) \in Seq(S)
           /\ \A f : Holds(Append(q, e), f) <=> Holds(q, f) \/ f = e
           /\ NoJobTwice(q) /\ (e # None => ~ Holds(q, e)) => NoJobTwice(Append(q, e))
  BY DEF Holds, NoJobTwice

LEMMA TailFacts ==
    ASSUME NEW S, NEW q \in Seq(S), q # <<>>
    PROVE  /\ Head(q) \in S /\ Tail(q) \in Seq(S)
           /\ \A f : Holds(q, f) <=> Holds(Tail(q), f) \/ f = Head(q)
           /\ NoJobTwice(q) =>
                 NoJobTwice(Tail(q)) /\ (Head(q) # None => ~ Holds(Tail(q), Head(q)))
  <1>1. Head(q) = q[1] /\ Len(q) \in Nat /\ Len(q) >= 1 /\ Tail(q) \in Seq(S)
    OBVIOUS
  <1>2. Len(Tail(q)) = Len(q) - 1 /\ \A i \in 1..Len(Tail(q)) : Tail(q)[i] = q[i + 1]
    OBVIOUS
  <1>3. ASSUME NEW f, Holds(q, f) PROVE Holds(Tail(q), f) \/ f = Head(q)
    <2>1. PICK i \in 1..Len(q) : q[i] = f
      BY <1>3 DEF Holds
    <2>2. CASE i = 1
      BY <1>1, <2>1, <2>2
    <2>3. CASE i # 1
      <3>1. i - 1 \in 1..Len(Tail(q)) /\ Tail(q)[i - 1] = f
        BY <1>1, <1>2, <2>1, <2>3
      <3>. QED BY <3>1 DEF Holds
    <2>. QED BY <2>2, <2>3
  <1>4. \A f : Holds(Tail(q), f) \/ f = Head(q) => Holds(q, f)
    BY <1>1, <1>2 DEF Holds
  <1>5. NoJobTwice(q) =>
            NoJobTwice(Tail(q)) /\ (Head(q) # None => ~ Holds(Tail(q), Head(q)))
    BY <1>1, <1>2 DEF NoJobTwice, Holds
  <1>. QED BY <1>1, <1>3, <1>4, <1>5

LEMMA PushFacts ==
    ASSUME NEW S, NEW q \in Seq(S), NEW e \in S
    PROVE  /\ <<e>> \o q \in Seq(S)
           /\ \A f : Holds(<<e>> \o q, f) <=> Holds(q, f) \/ f = e
           /\ NoRepeats(q) /\ ~ Holds(q, e) => NoRepeats(<<e>> \o q)
  <1>. DEFINE p == <<e>> \o q
  <1>1. /\ p \in Seq(S) /\ Len(p) = Len(q) + 1 /\ Len(q) \in Nat
        /\ \A i \in 1..Len(p) : p[i] = IF i = 1 THEN e ELSE q[i - 1]
    <2>1. <<e>> \in Seq(S) /\ Len(<<e>>) = 1 /\ <<e>>[1] = e
      OBVIOUS
    <2>2. /\ p \in Seq(S) /\ Len(p) = 1 + Len(q)
          /\ \A i \in 1..(1 + Len(q)) : p[i] = IF i <= 1 THEN <<e>>[i] ELSE q[i - 1]
      BY <2>1, ConcatProperties
    <2>. QED BY <2>1, <2>2
  <1>. HIDE DEF p
  <1>2. \A i \in 1..Len(q) : i + 1 \in 1..Len(p) /\ p[i + 1] = q[i]
    BY <1>1
  <1>3. \A f : Holds(p, f) <=> Holds(q, f) \/ f = e
    <2>1. 1 \in 1..Len(p) /\ p[1] = e
      BY <1>1
    <2>2. \A f : Holds(q, f) \/ f = e => Holds(p, f)
      BY <1>2, <2>1 DEF Holds
    <2>3. ASSUME NEW f, NEW i \in 1..Len(p), p[i] = f PROVE Holds(q, f) \/ f = e
      <3>1. CASE i = 1
        BY <2>1, <2>3, <3>1
      <3>2. CASE i # 1
        <4>1. i - 1 \in 1..Len(q) /\ q[i - 1] = f
          BY <1>1, <2>3, <3>2
        <4>. QED BY <4>1 DEF Holds
      <3>. QED BY <3>1, <3>2
    <2>. QED BY <2>2, <2>3 DEF Holds
  <1>4. ASSUME NoRepeats(q), ~ Holds(q, e) PROVE NoRepeats(p)
    <2>1. ASSUME NEW i \in 1..Len(p), i # 1
          PROVE  i - 1 \in 1..Len(q) /\ p[i] = q[i - 1] /\ p[i] # e
      <3>1. i - 1 \in 1..Len(q) /\ p[i] = q[i - 1]
        BY <1>1, <2>1
      <3>. QED BY <1>4, <3>1 DEF Holds
    <2>2. 1 \in 1..Len(p) /\ p[1] = e
      BY <1>1
    <2>3. ASSUME NEW i \in 1..Len(p), NEW k \in 1..Len(p), p[i] = p[k] PROVE i = k
      <3>1. CASE i = 1 \/ k = 1
        BY <2>1, <2>2, <2>3, <3>1
      <3>2. CASE i # 1 /\ k # 1
        <4>1. /\ i - 1 \in 1..Len(q) /\ k - 1 \in 1..Len(q)
              /\ q[i - 1] = q[k - 1]
          BY <2>1, <2>3, <3>2
        <4>. QED BY <1>4, <4>1 DEF NoRepeats
      <3>. QED BY <3>1, <3>2
    <2>. QED BY <2>3 DEF NoRepeats
  <1>. QED BY <1>1, <1>3, <1>4 DEF p

LEMMA RemoveAtFacts ==
    ASSUME NEW S, NEW q \in Seq(S), NEW i \in 1..Len(q)
    PROVE  /\ RemoveAt(q, i) \in Seq(S)
           /\ \A f : Holds(RemoveAt(q, i), f) => Holds(q, f)
           /\ \A f : Holds(q, f) => Holds(RemoveAt(q, i), f) \/ f = q[i]
           /\ NoRepeats(q) => NoRepeats(RemoveAt(q, i)) /\ ~ Holds(RemoveAt(q, i), q[i])
  <1>. DEFINE left == SubSeq(q, 1, i - 1)
              right == SubSeq(q, i + 1, Len(q))
              p == RemoveAt(q, i)
  <1>1. Len(q) \in Nat /\ i \in Nat /\ \A k \in 1..Len(q) : q[k] \in S
    OBVIOUS
  <1>2. /\ left \in Seq(S) /\ Len(left) = i - 1
        /\ \A k \in 1..(i - 1) : left[k] = q[k]
    <2>1. \A k \in 1..(i - 1) : q[k] \in S
      BY <1>1
    <2>2. /\ left \in Seq(S) /\ Len(left) = IF 1 <= i - 1 THEN i - 1 - 1 + 1 ELSE 0
          /\ \A k \in 1..(i - 1 - 1 + 1) : left[k] = q[1 + k - 1]
      BY <1>1, <2>1, SubSeqProperties
    <2>. QED BY <1>1, <2>2
  <1>3. /\ right \in Seq(S) /\ Len(right) = Len(q) - i
        /\ \A k \in 1..(Len(q) - i) : right[k] = q[i + k]
    <2>1. \A k \in (i + 1)..Len(q) : q[k] \in S
      BY <1>1
    <2>2. /\ right \in Seq(S)
          /\ Len(right) = IF i + 1 <= Len(q) THEN Len(q) - (i + 1) + 1 ELSE 0
          /\ \A k \in 1..(Len(q) - (i + 1) + 1) : right[k] = q[(i + 1) + k - 1]
      BY <1>1, <2>1, SubSeqProperties
    <2>. QED BY <1>1, <2>2
  <1>4. p = left \o right
    BY DEF RemoveAt
  <1>5. /\ p \in Seq(S) /\ Len(p) = Len(q) - 1
        /\ \A k \in 1..(Len(q) - 1) : p[k] = IF k < i THEN q[k] ELSE q[k + 1]
    <2>. HIDE DEF left, right, p
    <2>1. /\ p \in Seq(S) /\ Len(p) = Len(left) + Len(right)
          /\ \A k \in 1..(Len(left) + Len(right)) :
                p[k] = IF k <= Len(left) THEN left[k] ELSE right[k - Len(left)]
      BY <1>2, <1>3, <1>4, ConcatProperties
    <2>2. Len(left) + Len(right) = Len(q) - 1
      BY <1>1, <1>2, <1>3
    <2>3. ASSUME NEW k \in 1..(Len(q) - 1)
          PROVE  p[k] = IF k < i THEN q[k] ELSE q[k + 1]
      <3>1. CASE k < i
        <4>1. k \in 1..(i - 1) /\ k <= Len(left)
          BY <1>1, <1>2, <3>1
        <4>. QED BY <1>2, <2>1, <2>2, <3>1, <4>1
      <3>2. CASE ~ (k < i)
        <4>1. ~ (k <= Len(left)) /\ k - Len(left) \in 1..(Len(q) - i)
              /\ i + (k - Len(left)) = k + 1
          BY <1>1, <1>2, <3>2
        <4>2. right[k - Len(left)] = q[k + 1]
          BY <1>3, <4>1
        <4>. QED BY <2>1, <2>2, <3>2, <4>1, <4>2
      <3>. QED BY <3>1, <3>2
    <2>. QED BY <2>1, <2>2, <2>3
  <1>. HIDE DEF p
  <1>6. \A f : Holds(p, f) => Holds(q, f)
    BY <1>1, <1>5 DEF Holds
  <1>7. ASSUME NEW f, Holds(q, f), f # q[i] PROVE Holds(p, f)
    <2>1. PICK k \in 1..Len(q) : q[k] = f
      BY <1>7 DEF Holds
    <2>2. k < i => k \in 1..Len(p) /\ p[k] = f
      BY <1>1, <1>5, <2>1
    <2>3. k > i => k - 1 \in 1..Len(p) /\ p[k - 1] = f
      BY <1>1, <1>5, <2>1
    <2>4. k < i \/ k > i
      BY <1>1, <1>7, <2>1
    <2>. QED BY <2>2, <2>3, <2>4 DEF Holds
  <1>8. NoRepeats(q) => NoRepeats(p) /\ ~ Holds(p, q[i])
    <2>1. \A k \in 1..Len(p) : \E l \in 1..Len(q) :
              p[k] = q[l] /\ l # i /\ l = IF k < i THEN k ELSE k + 1
      <3>1. ASSUME NEW k \in 1..Len(p), k < i
            PROVE  k \in 1..Len(q) /\ p[k] = q[k]
        BY <1>1, <1>5, <3>1
      <3>2. ASSUME NEW k \in 1..Len(p), ~ (k < i)
            PROVE  k + 1 \in 1..Len(q) /\ p[k] = q[k + 1] /\ k + 1 # i
        BY <1>1, <1>5, <3>2
      <3>. QED BY <3>1, <3>2
    <2>. QED BY <2>1 DEF NoRepeats, Holds
  <1>. QED BY <1>5, <1>6, <1>7, <1>8 DEF p

-------------------------------------------------------------------------------
(* The inductive invariant *)

\* Jobs that wait were handed in, are in one queue and there once, and have
\* not been started.
Queueing ==
    /\ \A j \in Ids : Holds(add_jobs_queue, j) =>
          j <= handed_in /\ j \notin started /\ ~ Holds(waiting_jobs, j)
    /\ \A j \in Ids : Holds(waiting_jobs, j) => j <= handed_in /\ j \notin started
    /\ NoJobTwice(add_jobs_queue)
    /\ NoRepeats(waiting_jobs)

\* Jobs that have been started, and no others, have a worker, or have ended;
\* if not, the launch was the end of the server's thread.
Working ==
    /\ \A j \in started : j <= handed_in
    /\ ended \subseteq started /\ workers \subseteq started
    /\ workers \cap ended = {}
    /\ at # "dead" => started \subseteq ended \cup workers
    /\ failed \subseteq ended /\ done_called \subseteq ended
    /\ \A j \in Ids \ started : process[j] = "none"
    /\ \A j \in workers : process[j] # "none"
    /\ \A j \in ended : process[j] # "up"

IInv == HonestVerdicts /\ Queueing /\ Working

\* What Start does with the job at place i.
StartOf(i) ==
    LET j == waiting_jobs[i] IN
    /\ \A k \in suitable_waiting_jobs : i <= k
    /\ waiting_jobs' = RemoveAt(waiting_jobs, i)
    /\ started' = started \cup {j}
    /\ \/ /\ j \in kill_on_start /\ at' = "kill"
          /\ killed' = killed \cup {j} /\ failed' = failed \cup {j}
          /\ ended' = ended \cup {j}
          /\ changed_jobs_queue' = changed_jobs_queue \cup {j}
          /\ UNCHANGED <<workers, process>>
       \/ /\ j \notin kill_on_start /\ at' = "kill"
          /\ process' = [process EXCEPT ![j] = "up"]
          /\ workers' = workers \cup {j}
          /\ changed_jobs_queue' = changed_jobs_queue \cup {j}
          /\ UNCHANGED <<killed, failed, ended>>
       \/ /\ j \notin kill_on_start /\ at' = "dead"
          /\ process' \in {process, [process EXCEPT ![j] = "up"]}
          /\ UNCHANGED <<workers, changed_jobs_queue>>
          /\ UNCHANGED <<killed, failed, ended>>

LEMMA InitIInv == Init => IInv
  <1>. SUFFICES ASSUME Init PROVE IInv
    OBVIOUS
  <1>1. HonestVerdicts
    BY JobServerAssumption DEF Init, HonestVerdicts, TypeOK
  <1>2. Queueing
    BY DEF Init, Queueing, Holds, NoRepeats, NoJobTwice
  <1>3. Working
    BY DEF Init, Working
  <1>. QED BY <1>1, <1>2, <1>3 DEF IInv

LEMMA NextIInv == IInv /\ [Next]_vars => IInv'
  <1>. SUFFICES ASSUME IInv, [Next]_vars PROVE IInv'
    OBVIOUS
  <1>. USE JobServerAssumption DEF queues, flags, times, gui, Ids
  <1>0. HonestVerdicts /\ TypeOK /\ Queueing /\ Working
    BY DEF IInv, HonestVerdicts
  <1>1. ASSUME Get PROVE IInv'
    <2>. DEFINE q == add_jobs_queue
                head == Head(add_jobs_queue)
    <2>1. /\ head \in Ids \cup {None} /\ Tail(q) \in Seq(Ids \cup {None})
          /\ \A f : Holds(q, f) <=> Holds(Tail(q), f) \/ f = head
          /\ NoJobTwice(q) =>
                NoJobTwice(Tail(q)) /\ (head # None => ~ Holds(Tail(q), head))
      BY <1>0, <1>1, TailFacts DEF Get, TypeOK
    <2>2. waiting_jobs \in Seq(Ids)
      BY <1>0 DEF TypeOK
    <2>3. CASE head = None
      <3>1. add_jobs_queue' = Tail(q) /\ UNCHANGED waiting_jobs /\ at' = "ended"
        BY <1>1, <2>3 DEF Get
      <3>2. TypeOK'
        BY <1>0, <1>1, <2>1, <3>1 DEF Get, TypeOK
      <3>3. Queueing'
        BY <1>0, <1>1, <2>1, <3>1 DEF Get, Queueing
      <3>4. HonestVerdicts' /\ Working'
        BY <1>0, <1>1, <3>1, <3>2 DEF Get, HonestVerdicts, Working
      <3>. QED BY <3>3, <3>4 DEF IInv
    <2>4. CASE head # None
      <3>1. add_jobs_queue' = Tail(q) /\ waiting_jobs' = <<head>> \o waiting_jobs /\ at' = "finish"
        BY <1>1, <2>4 DEF Get
      <3>2. /\ head \in Ids /\ waiting_jobs' \in Seq(Ids)
            /\ \A f : Holds(waiting_jobs', f) <=> Holds(waiting_jobs, f) \/ f = head
            /\ NoRepeats(waiting_jobs) /\ ~ Holds(waiting_jobs, head) => NoRepeats(waiting_jobs')
        BY <2>1, <2>2, <2>4, <3>1, PushFacts
      <3>3. TypeOK'
        BY <1>0, <1>1, <2>1, <3>1, <3>2 DEF Get, TypeOK
      <3>4. Queueing'
        BY <1>0, <1>1, <2>1, <2>4, <3>1, <3>2 DEF Get, Queueing
      <3>5. HonestVerdicts' /\ Working'
        BY <1>0, <1>1, <3>1, <3>3 DEF Get, HonestVerdicts, Working
      <3>. QED BY <3>4, <3>5 DEF IInv
    <2>. QED BY <2>3, <2>4
  <1>2. ASSUME GetTimesOut PROVE IInv'
    <2>1. TypeOK'
      BY <1>0, <1>2 DEF GetTimesOut, TypeOK
    <2>2. HonestVerdicts'
      BY <1>0, <1>2, <2>1 DEF GetTimesOut, HonestVerdicts, Working, TypeOK
    <2>3. Queueing'
      BY <1>0, <1>2 DEF GetTimesOut, Queueing, Holds, NoRepeats, NoJobTwice
    <2>4. Working'
      BY <1>0, <1>2 DEF GetTimesOut, Working, HonestVerdicts, TypeOK
    <2>. QED BY <2>1, <2>2, <2>3, <2>4 DEF IInv
  <1>3. ASSUME Finish PROVE IInv'
    <2>1. TypeOK'
      BY <1>0, <1>3 DEF Finish, Failed, Announced, TypeOK
    <2>2. HonestVerdicts'
      BY <1>0, <1>3, <2>1 DEF Finish, Failed, Announced, HonestVerdicts, Working, TypeOK
    <2>3. Queueing'
      BY <1>0, <1>3 DEF Finish, Failed, Announced, Queueing, Holds, NoRepeats, NoJobTwice
    <2>4. Working'
      BY <1>0, <1>3 DEF Finish, Failed, Announced, Working, HonestVerdicts, TypeOK
    <2>. QED BY <2>1, <2>2, <2>3, <2>4 DEF IInv
  <1>4. ASSUME NothingToStart PROVE IInv'
    <2>1. TypeOK'
      BY <1>0, <1>4 DEF NothingToStart, TypeOK
    <2>2. HonestVerdicts'
      BY <1>0, <1>4, <2>1 DEF NothingToStart, HonestVerdicts, Working, TypeOK
    <2>3. Queueing'
      BY <1>0, <1>4 DEF NothingToStart, Queueing, Holds, NoRepeats, NoJobTwice
    <2>4. Working'
      BY <1>0, <1>4 DEF NothingToStart, Working, HonestVerdicts, TypeOK
    <2>. QED BY <2>1, <2>2, <2>3, <2>4 DEF IInv
  <1>5. ASSUME Start PROVE IInv'
    <2>1. PICK i \in suitable_waiting_jobs : StartOf(i)
      BY <1>5 DEF Start, StartOf, Announced
    <2>. DEFINE j == waiting_jobs[i]
    <2>2. /\ at = "start" /\ i \in 1..Len(waiting_jobs) /\ waiting_jobs \in Seq(Ids)
          /\ UNCHANGED <<add_jobs_queue, kill_queue, kill_on_start, gui>>
          /\ started' = started \cup {j} /\ waiting_jobs' = RemoveAt(waiting_jobs, i)
      BY <1>0, <1>5, <2>1 DEF Start, StartOf, suitable_waiting_jobs, TypeOK
    <2>3. /\ waiting_jobs' \in Seq(Ids)
          /\ \A f : Holds(waiting_jobs', f) => Holds(waiting_jobs, f)
          /\ NoRepeats(waiting_jobs) => NoRepeats(waiting_jobs') /\ ~ Holds(waiting_jobs', j)
      BY <2>2, RemoveAtFacts
    <2>4. j \in Ids /\ Holds(waiting_jobs, j)
      BY <2>2 DEF Holds
    <2>5. j <= handed_in /\ j \notin started /\ process[j] = "none"
      BY <1>0, <2>4 DEF Queueing, Working
    <2>. HIDE DEF j
    <2>6. Queueing'
      BY <1>0, <2>2, <2>3, <2>4 DEF Queueing
    <2>7. CASE /\ j \in kill_on_start /\ at' = "kill"
               /\ killed' = killed \cup {j} /\ failed' = failed \cup {j}
               /\ ended' = ended \cup {j}
               /\ changed_jobs_queue' = changed_jobs_queue \cup {j}
               /\ UNCHANGED <<workers, process>>
      <3>1. TypeOK'
        <4>1. \A S \in {workers, kill_queue, changed_jobs_queue, started, ended, kill_on_start,
                         killed, failed, done_called} : S \subseteq Ids
          BY <1>0 DEF TypeOK
        <4>2. \A S \in {workers', kill_queue', changed_jobs_queue', started', ended',
                         kill_on_start', killed', failed', done_called'} : S \subseteq Ids
          BY <2>2, <2>4, <2>7, <4>1
        <4>. QED BY <1>0, <2>2, <2>3, <2>7, <4>2 DEF TypeOK
      <3>2. Working'
        BY <1>0, <2>2, <2>4, <2>5, <2>7 DEF Working, TypeOK
      <3>3. HonestVerdicts'
        BY <1>0, <2>2, <2>4, <2>5, <2>7, <3>1 DEF HonestVerdicts, Working, TypeOK
      <3>. QED BY <2>6, <3>2, <3>3 DEF IInv
    <2>8. CASE /\ j \notin kill_on_start /\ at' = "kill"
               /\ process' = [process EXCEPT ![j] = "up"]
               /\ workers' = workers \cup {j}
               /\ changed_jobs_queue' = changed_jobs_queue \cup {j}
               /\ UNCHANGED <<killed, failed, ended>>
      <3>1. TypeOK'
        BY <1>0, <2>2, <2>3, <2>4, <2>8 DEF TypeOK
      <3>2. j \notin ended
        BY <1>0, <2>5 DEF Working
      <3>3. Working'
        BY <1>0, <2>2, <2>4, <2>5, <2>8, <3>2 DEF Working, TypeOK
      <3>4. HonestVerdicts'
        BY <1>0, <2>2, <2>4, <2>5, <2>8, <3>1, <3>2 DEF HonestVerdicts, Working, TypeOK
      <3>. QED BY <2>6, <3>3, <3>4 DEF IInv
    <2>9. CASE /\ j \notin kill_on_start /\ at' = "dead"
               /\ process' \in {process, [process EXCEPT ![j] = "up"]}
               /\ UNCHANGED <<workers, changed_jobs_queue>>
               /\ UNCHANGED <<killed, failed, ended>>
      <3>. PICK p : p = process'
        OBVIOUS
      <3>0. /\ p \in [Ids -> {"none", "up", "ok", "bad"}]
            /\ \A k \in Ids : k # j => p[k] = process[k]
        BY <1>0, <2>4, <2>9 DEF TypeOK
      <3>1. TypeOK'
        BY <1>0, <2>2, <2>3, <2>4, <2>9, <3>0, SMTT(30) DEF TypeOK
      <3>2. j \notin ended /\ j \notin workers
        BY <1>0, <2>5 DEF Working
      <3>3. Working'
        BY <1>0, <2>2, <2>4, <2>5, <2>9, <3>0, <3>2 DEF Working, TypeOK
      <3>4. HonestVerdicts'
        BY <1>0, <2>2, <2>9, <3>0, <3>1, <3>2 DEF HonestVerdicts, TypeOK
      <3>. QED BY <2>6, <3>3, <3>4 DEF IInv
    <2>. QED BY <2>1, <2>7, <2>8, <2>9 DEF StartOf, j
  <1>6. ASSUME Kill PROVE IInv'
    <2>1. TypeOK'
      BY <1>0, <1>6 DEF Kill, TypeOK
    <2>2. HonestVerdicts'
      BY <1>0, <1>6, <2>1 DEF Kill, HonestVerdicts, Working, TypeOK
    <2>3. Queueing'
      BY <1>0, <1>6 DEF Kill, Queueing, Holds, NoRepeats, NoJobTwice
    <2>4. Working'
      BY <1>0, <1>6 DEF Kill, Working, HonestVerdicts, TypeOK
    <2>. QED BY <2>1, <2>2, <2>3, <2>4 DEF IInv
  <1>7. ASSUME ProcessEnds PROVE IInv'
    <2>1. TypeOK'
      BY <1>0, <1>7 DEF ProcessEnds, TypeOK
    <2>2. HonestVerdicts'
      BY <1>0, <1>7, <2>1 DEF ProcessEnds, HonestVerdicts, Working, TypeOK
    <2>3. Queueing'
      BY <1>0, <1>7 DEF ProcessEnds, Queueing, Holds, NoRepeats, NoJobTwice
    <2>4. Working'
      BY <1>0, <1>7 DEF ProcessEnds, Working, HonestVerdicts, TypeOK
    <2>. QED BY <2>1, <2>2, <2>3, <2>4 DEF IInv
  <1>8. ASSUME Update PROVE IInv'
    <2>1. TypeOK'
      BY <1>0, <1>8 DEF Update, TypeOK
    <2>2. HonestVerdicts'
      BY <1>0, <1>8, <2>1 DEF Update, HonestVerdicts, Working, TypeOK
    <2>3. Queueing'
      BY <1>0, <1>8 DEF Update, Queueing, Holds, NoRepeats, NoJobTwice
    <2>4. Working'
      BY <1>0, <1>8 DEF Update, Working, HonestVerdicts, TypeOK
    <2>. QED BY <2>1, <2>2, <2>3, <2>4 DEF IInv
  <1>9. ASSUME RunJob PROVE IInv'
    <2>1. TypeOK'
      BY <1>0, <1>9 DEF RunJob, TypeOK
    <2>2. HonestVerdicts'
      BY <1>0, <1>9, <2>1 DEF RunJob, HonestVerdicts, Working, TypeOK
    <2>3. Queueing'
      <3>1. /\ handed_in + 1 \in Ids /\ add_jobs_queue \in Seq(Ids \cup {None})
            /\ add_jobs_queue' = Append(add_jobs_queue, handed_in + 1)
            /\ ~ Holds(add_jobs_queue, handed_in + 1)
            /\ ~ Holds(waiting_jobs, handed_in + 1) /\ handed_in + 1 \notin started
        BY <1>0, <1>9 DEF RunJob, Queueing, Working, TypeOK
      <3>2. /\ \A f : Holds(add_jobs_queue', f) <=> Holds(add_jobs_queue, f) \/ f = handed_in + 1
            /\ NoJobTwice(add_jobs_queue')
        BY <1>0, <3>1, AppendFacts DEF Queueing
      <3>3. handed_in' = handed_in + 1 /\ handed_in \in Nat
            /\ UNCHANGED <<waiting_jobs, started>>
        BY <1>0, <1>9 DEF RunJob, TypeOK
      <3>. QED BY <1>0, <3>1, <3>2, <3>3 DEF Queueing
    <2>4. Working'
      BY <1>0, <1>9 DEF RunJob, Working, HonestVerdicts, TypeOK
    <2>. QED BY <2>1, <2>2, <2>3, <2>4 DEF IInv
  <1>10. ASSUME NEW T \in SUBSET Ids, AskToKill(T) PROVE IInv'
    <2>1. TypeOK'
      <3>1. kill_queue \in SUBSET Ids /\ kill_queue' = kill_queue \cup T
        BY <1>0, <1>10 DEF AskToKill, TypeOK
      <3>2. kill_queue' \in SUBSET Ids
        BY <3>1
      <3>3. UNCHANGED <<queues, changed_jobs_queue, at, process, flags, times, gui>>
        BY <1>10 DEF AskToKill
      <3>. QED BY <1>0, <3>2, <3>3 DEF TypeOK
    <2>2. HonestVerdicts'
      BY <1>0, <1>10, <2>1 DEF AskToKill, HonestVerdicts, Working, TypeOK
    <2>3. Queueing'
      BY <1>0, <1>10 DEF AskToKill, Queueing, Holds, NoRepeats, NoJobTwice
    <2>4. Working'
      BY <1>0, <1>10 DEF AskToKill, Working, HonestVerdicts, TypeOK
    <2>. QED BY <2>1, <2>2, <2>3, <2>4 DEF IInv
  <1>11. ASSUME Close PROVE IInv'
    <2>1. TypeOK'
      BY <1>0, <1>11 DEF Close, TypeOK
    <2>2. HonestVerdicts'
      BY <1>0, <1>11, <2>1 DEF Close, HonestVerdicts, Working, TypeOK
    <2>3. Queueing'
      BY <1>0, <1>11, SMTT(30) DEF Close, Queueing, Holds, NoRepeats, NoJobTwice
    <2>4. Working'
      BY <1>0, <1>11 DEF Close, Working, HonestVerdicts, TypeOK
    <2>. QED BY <2>1, <2>2, <2>3, <2>4 DEF IInv
  <1>12. ASSUME CloseKills PROVE IInv'
    <2>1. TypeOK'
      BY <1>0, <1>12 DEF CloseKills, TypeOK
    <2>2. HonestVerdicts'
      BY <1>0, <1>12, <2>1 DEF CloseKills, HonestVerdicts, Working, TypeOK
    <2>3. Queueing'
      BY <1>0, <1>12 DEF CloseKills, Queueing, Holds, NoRepeats, NoJobTwice
    <2>4. Working'
      BY <1>0, <1>12 DEF CloseKills, Working, HonestVerdicts, TypeOK
    <2>. QED BY <2>1, <2>2, <2>3, <2>4 DEF IInv
  <1>13. CASE UNCHANGED vars
    BY <1>0, <1>13 DEF vars, IInv, HonestVerdicts, TypeOK, Queueing, Holds, NoRepeats, NoJobTwice, Working
  <1>14. \A j \in (1..handed_in) \ ended : {j} \in SUBSET Ids
    BY <1>0 DEF TypeOK
  <1>15. workers \in SUBSET Ids
    BY <1>0 DEF TypeOK
  <1>. QED BY <1>1, <1>2, <1>3, <1>4, <1>5, <1>6, <1>7, <1>8, <1>9, <1>10, <1>11, <1>12, <1>13, <1>14, <1>15 DEF Next, ServerStep, UserKills, killall, TimesOut

-------------------------------------------------------------------------------
(* The theorems *)

\* Whenever a kill comes, and whenever the GUI ends, what a job is said to
\* have come to is what its process did, and no process is forgotten.
THEOREM VerdictsAreHonest == Spec => []HonestVerdicts
  <1>1. IInv => HonestVerdicts
    BY DEF IInv
  <1>. QED BY InitIInv, NextIInv, <1>1, PTL DEF Spec

-------------------------------------------------------------------------------
(* The refinement *)

\* What the abstract queue is told of a job.
Stage(j) ==
    IF j > handed_in THEN "new"
    ELSE IF j \in done_called THEN "told"
    ELSE IF j \in ended THEN "ended"
    ELSE IF j \in started THEN "running" ELSE "waiting"

Verdict(j) == IF j \in ended THEN <<j \in killed, j \in failed>> ELSE None

CoresOf == [j \in Ids |-> IF j \in Greedy THEN pool_size ELSE 1]

\* The jobs of S move on, and no others.
Moved(S, from, to) ==
    /\ \A j \in S : Stage(j) = from
    /\ \A j \in Ids : Stage(j)' = IF j \in S THEN to ELSE Stage(j)

LEMMA MoveStep ==
  ASSUME NEW S \in SUBSET Ids, S # {}, NEW from, NEW to, Moved(S, from, to)
  PROVE  Abstract!Moves(S, from, to)
  BY DEF Moved, Stage, Abstract!Moves, Abstract!InState

LEMMA SubmitStep ==
  ASSUME NEW S \in SUBSET Ids, S # {}, Moved(S, "new", "waiting"),
         \A j \in Ids : Verdict(j)' = Verdict(j)
  PROVE  Abstract!Next
  BY MoveStep DEF Verdict, Abstract!Next, Abstract!Submit

LEMMA StartStep ==
  ASSUME NEW S \in SUBSET Ids, S # {}, Moved(S, "waiting", "running"),
         \A j \in Ids : Verdict(j)' = Verdict(j),
         NEW R, R = {j \in Ids : Stage(j) = "running"},
         Cardinality(UNION {{j} \X (1..CoresOf[j]) : j \in R \cup S}) <= pool_size
  PROVE  Abstract!Next
  <1>1. Abstract!InState("running") = R
    BY DEF Stage, Abstract!InState
  <1>2. Abstract!InUse(R \cup S) <= pool_size
    BY DEF Abstract!InUse, Abstract!Cardinality, Cardinality, CoresOf
  <1>. QED BY MoveStep, <1>1, <1>2 DEF Verdict, Abstract!Next, Abstract!Start

LEMMA JudgeStep ==
  ASSUME NEW S \in SUBSET Ids, S # {},
         NEW from \in {"running", "waiting"}, Moved(S, from, "ended"),
         \A j \in Ids : IF j \in S THEN Verdict(j)' # None ELSE Verdict(j)' = Verdict(j)
  PROVE  Abstract!Next
  <1>1. Abstract!Judged(S)
    BY DEF Verdict, Abstract!Judged
  <1>. QED BY MoveStep, <1>1 DEF Abstract!Next, Abstract!End, Abstract!Cancel

LEMMA TellStep ==
  ASSUME NEW S \in SUBSET Ids, S # {}, Moved(S, "ended", "told"),
         \A j \in Ids : Verdict(j)' = Verdict(j)
  PROVE  Abstract!Next
  BY MoveStep DEF Verdict, Abstract!Next, Abstract!Tell

LEMMA StutterStep ==
  ASSUME \A j \in Ids : Stage(j)' = Stage(j) /\ Verdict(j)' = Verdict(j)
  PROVE  [Abstract!Next]_Abstract!vars
  BY DEF Stage, Verdict, Abstract!vars

\* A verdict is not the word for none.
LEMMA VerdictMade ==
  ASSUME NEW j, NEW K, NEW F
  PROVE  <<j \in K, j \in F>> # None
  <1>. DEFINE x == j \in K
              y == j \in F
  <1>1. x \in BOOLEAN /\ y \in BOOLEAN
    OBVIOUS
  <1>. HIDE DEF x, y
  <1>2. <<x, y>> # None
    BY <1>1, JobServerAssumption
  <1>. QED BY <1>2 DEF x, y

\* Every core of a job that may start is free.
LEMMA CoresFree ==
  ASSUME IInv, at = "start", NEW j \in Ids, Suitable(j)
  PROVE  Cardinality(UNION {{k} \X (1..CoresOf[k]) : k \in workers \cup {j}}) <= pool_size
  <1>. DEFINE all == UNION {{k} \X (1..CoresOf[k]) : k \in workers \cup {j}}
  <1>. SUFFICES Cardinality(all) <= pool_size
    OBVIOUS
  <1>0. /\ pool_size \in Nat \ {0} /\ workers \subseteq Ids /\ Greedy \subseteq Ids
        /\ \A k \in Ids : CoresOf[k] = IF k \in Greedy THEN pool_size ELSE 1
    BY JobServerAssumption DEF IInv, HonestVerdicts, TypeOK, CoresOf
  <1>1. IsFiniteSet(workers) /\ Cardinality(workers) \in Nat
    <2>1. IsFiniteSet(Ids)
      BY JobServerAssumption, FS_Interval DEF Ids
    <2>. QED BY <1>0, <2>1, FS_Subset, FS_CardinalityType
  <1>2. workers \cap Greedy = {}
    BY <1>0 DEF Suitable, available_workers
  <1>3. CASE j \in Greedy
    <2>1. workers = {}
      BY <1>0, <1>1, <1>2, <1>3, FS_EmptySet DEF Suitable, available_workers
    <2>2. all = {j} \X (1..pool_size)
      BY <1>0, <1>3, <2>1
    <2>3. /\ IsFiniteSet({j}) /\ Cardinality({j}) = 1
          /\ IsFiniteSet(1..pool_size) /\ Cardinality(1..pool_size) = pool_size
      <3>1. IsFiniteSet({j}) /\ Cardinality({j}) = 1
        BY FS_Singleton
      <3>2. 1 \in Int /\ pool_size \in Int /\ pool_size >= 1
        BY <1>0
      <3>3. /\ IsFiniteSet(1..pool_size)
            /\ Cardinality(1..pool_size) = IF 1 > pool_size THEN 0 ELSE pool_size - 1 + 1
        BY <3>2, FS_Interval
      <3>. QED BY <3>1, <3>2, <3>3
    <2>4. Cardinality({j} \X (1..pool_size)) = Cardinality({j}) * Cardinality(1..pool_size)
      BY <2>3, FS_Product, Zenon
    <2>5. Cardinality({j}) * Cardinality(1..pool_size) = pool_size
      BY <1>0, <2>3
    <2>. HIDE DEF all
    <2>. QED BY <1>0, <2>2, <2>4, <2>5
  <1>4. CASE j \notin Greedy
    <2>1. all = (workers \cup {j}) \X (1..1)
      <3>1. \A k \in workers \cup {j} : CoresOf[k] = 1
        BY <1>0, <1>2, <1>4
      <3>. QED BY <3>1
    <2>2. Cardinality(workers) + 1 <= pool_size
      BY <1>0, <1>1, <1>2, <1>4 DEF Suitable, available_workers
    <2>3. /\ IsFiniteSet(workers \cup {j})
          /\ Cardinality(workers \cup {j}) \in Nat
          /\ Cardinality(workers \cup {j}) <= Cardinality(workers) + 1
      BY <1>1, FS_AddElement, FS_CardinalityType
    <2>4. IsFiniteSet(1..1) /\ Cardinality(1..1) = 1
      <3>1. 1..1 = {1}
        OBVIOUS
      <3>. QED BY <3>1, FS_Singleton
    <2>5. Cardinality((workers \cup {j}) \X (1..1)) = Cardinality(workers \cup {j}) * 1
      BY <2>3, <2>4, FS_Product, ZenonT(30)
    <2>. HIDE DEF all
    <2>6. Cardinality(all) \in Nat /\ Cardinality(all) <= Cardinality(workers) + 1
      BY <1>1, <2>1, <2>3, <2>5
    <2>. QED BY <1>0, <1>1, <2>2, <2>3, <2>6
  <1>. QED BY <1>3, <1>4

LEMMA StepImplements == IInv /\ [Next]_vars => [Abstract!Next]_Abstract!vars
  <1>. SUFFICES ASSUME IInv, [Next]_vars PROVE [Abstract!Next]_Abstract!vars
    OBVIOUS
  <1>. USE DEF queues, flags, times, gui
  <1>0. /\ TypeOK /\ HonestVerdicts /\ Queueing /\ Working
        /\ TypeOK' /\ Working'
    BY NextIInv DEF IInv, HonestVerdicts
  <1>1. ASSUME UNCHANGED <<handed_in, done_called, ended, started>>,
               UNCHANGED <<killed, failed>>
        PROVE  [Abstract!Next]_Abstract!vars
    BY <1>1, StutterStep DEF Stage, Verdict
  <1>2. CASE Get \/ GetTimesOut \/ NothingToStart \/ ProcessEnds \/ Close \/ CloseKills
    BY <1>1, <1>2 DEF Get, GetTimesOut, NothingToStart, ProcessEnds, Close, CloseKills
  <1>3. ASSUME NEW S, AskToKill(S) PROVE [Abstract!Next]_Abstract!vars
    BY <1>1, <1>3 DEF AskToKill
  <1>4. CASE Kill
    <2>1. UNCHANGED <<handed_in, done_called, ended, started, failed>>
          /\ \A j \in ended : j \in killed' <=> j \in killed
      BY <1>0, <1>4 DEF Kill, Working
    <2>2. \A j \in Ids : Stage(j)' = Stage(j)
      BY <2>1 DEF Stage
    <2>3. \A j \in Ids : Verdict(j)' = Verdict(j)
      BY <2>1 DEF Verdict
    <2>. QED BY <2>2, <2>3, StutterStep
  <1>5. CASE Finish
    <2>. PICK gone : gone = {j \in workers : process[j] # "up"}
      OBVIOUS
    <2>1. /\ UNCHANGED <<handed_in, done_called, started, killed>>
          /\ ended' = ended \cup gone /\ failed' = failed \cup Failed(gone)
      BY <1>5 DEF Finish
    <2>2. /\ gone \subseteq Ids /\ gone \cap ended = {} /\ gone \subseteq started
          /\ gone \cap done_called = {} /\ \A j \in gone : j <= handed_in /\ handed_in \in Nat
      BY <1>0 DEF Working, TypeOK, Ids
    <2>3. Moved(gone, "running", "ended")
      BY <2>1, <2>2 DEF Moved, Stage, Ids
    <2>4. \A j \in Ids : IF j \in gone THEN Verdict(j)' # None ELSE Verdict(j)' = Verdict(j)
      <3>1. \A j \in ended' : Verdict(j)' # None
        BY VerdictMade DEF Verdict
      <3>2. \A j \in Ids \ gone : (j \in failed' <=> j \in failed) /\ (j \in ended' <=> j \in ended)
        BY <2>1 DEF Failed
      <3>3. \A j \in Ids \ gone : Verdict(j)' = Verdict(j)
        BY <2>1, <3>2 DEF Verdict
      <3>. QED BY <2>1, <3>1, <3>3
    <2>5. CASE gone = {}
      <3>1. ended' = ended /\ failed' = failed
        BY <2>1, <2>5 DEF Failed
      <3>. QED BY <1>1, <2>1, <3>1
    <2>6. CASE gone # {}
      BY <2>2, <2>3, <2>4, <2>6, JudgeStep
    <2>. QED BY <2>5, <2>6
  <1>6. CASE Start
    <2>1. PICK i \in suitable_waiting_jobs : StartOf(i)
      BY <1>6 DEF Start, StartOf, Announced
    <2>. PICK j : j = waiting_jobs[i]
      OBVIOUS
    <2>2. /\ at = "start" /\ i \in 1..Len(waiting_jobs) /\ waiting_jobs \in Seq(Ids)
          /\ UNCHANGED <<handed_in, done_called>> /\ Suitable(j)
          /\ started' = started \cup {j}
      BY <1>0, <1>6, <2>1 DEF Start, StartOf, suitable_waiting_jobs, TypeOK
    <2>3. j \in Ids /\ Holds(waiting_jobs, j)
      BY <2>2 DEF Holds
    <2>4. /\ j <= handed_in /\ j \notin started /\ j \notin ended /\ j \notin done_called
          /\ handed_in \in Nat
      BY <1>0, <2>3 DEF Queueing, Working, TypeOK
    <2>5. CASE /\ ended' = ended \cup {j} /\ killed' = killed \cup {j}
               /\ failed' = failed \cup {j}
      <3>1. Moved({j}, "waiting", "ended")
        BY <2>2, <2>3, <2>4, <2>5 DEF Moved, Stage, Ids
      <3>2. \A k \in ended' : Verdict(k)' # None
        BY VerdictMade DEF Verdict
      <3>3. \A k \in Ids \ {j} : /\ k \in ended' <=> k \in ended
                                 /\ k \in killed' <=> k \in killed
                                 /\ k \in failed' <=> k \in failed
        BY <2>5
      <3>4. \A k \in Ids \ {j} : Verdict(k)' = Verdict(k)
        BY <3>3 DEF Verdict
      <3>5. Verdict(j)' # None
        BY <2>5, <3>2
      <3>. QED BY <2>3, <3>1, <3>4, <3>5, JudgeStep
    <2>6. CASE UNCHANGED <<killed, failed, ended>>
      <3>1. Moved({j}, "waiting", "running")
        BY <2>2, <2>3, <2>4, <2>6 DEF Moved, Stage, Ids
      <3>2. \A k \in Ids : Verdict(k)' = Verdict(k)
        BY <2>6 DEF Verdict
      <3>3. {k \in Ids : Stage(k) = "running"} = workers
        BY <1>0, <2>2 DEF Working, Stage, TypeOK, Ids
      <3>. QED BY <2>2, <2>3, <3>1, <3>2, <3>3, CoresFree, StartStep
    <2>. QED BY <2>1, <2>5, <2>6 DEF StartOf
  <1>7. CASE RunJob
    <2>. PICK n : n = handed_in + 1
      OBVIOUS
    <2>1. /\ handed_in' = n /\ handed_in \in Nat /\ n \in Ids
          /\ UNCHANGED <<done_called, ended, started, killed, failed>>
          /\ n \notin started /\ ended \subseteq started /\ done_called \subseteq ended
      BY <1>0, <1>7, JobServerAssumption DEF RunJob, TypeOK, Working, Ids
    <2>2. Moved({n}, "new", "waiting")
      BY <2>1 DEF Moved, Stage, Ids
    <2>3. \A j \in Ids : Verdict(j)' = Verdict(j)
      BY <2>1 DEF Verdict
    <2>. QED BY <2>1, <2>2, <2>3, SubmitStep
  <1>8. CASE Update
    <2>. PICK S : S = (changed_jobs_queue \cap ended) \ done_called
      OBVIOUS
    <2>1. /\ UNCHANGED <<handed_in, ended, started, killed, failed>>
          /\ done_called' = done_called \cup S /\ S \subseteq Ids /\ S \subseteq ended
          /\ S \cap done_called = {} /\ handed_in \in Nat
          /\ \A j \in ended : j <= handed_in
      BY <1>0, <1>8 DEF Update, TypeOK, Working
    <2>2. Moved(S, "ended", "told")
      BY <2>1 DEF Moved, Stage, Ids
    <2>3. \A j \in Ids : Verdict(j)' = Verdict(j)
      BY <2>1 DEF Verdict
    <2>4. CASE S = {}
      BY <1>1, <2>1, <2>4
    <2>. QED BY <2>1, <2>2, <2>3, <2>4, TellStep
  <1>9. CASE UNCHANGED vars
    BY <1>1, <1>9 DEF vars
  <1>. QED BY <1>2, <1>3, <1>4, <1>5, <1>6, <1>7, <1>8, <1>9
           DEF Next, ServerStep, UserKills, killall, TimesOut

\* Jobs wait, run as far as there are cores, and end with a final verdict of
\* which their owners are told once, whatever the threads of the GUI and of
\* the server do between each other's steps.
THEOREM ServerImplementsJobQueue == Spec => ImplementsJobQueue
  <1>1. Init => Abstract!Init
    BY DEF Init, Abstract!Init, Ids
  <1>. QED BY <1>1, InitIInv, NextIInv, StepImplements, PTL
           DEF Spec, ImplementsJobQueue, Abstract!Spec
===============================================================================
