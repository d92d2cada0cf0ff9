----------------------------- MODULE SHLockProofs -----------------------------
(***************************************************************************)
(* What holds of the shareable lock for any finite set of threads.  Four   *)
(* of the invariants that SHLock states are together inductive; mutual     *)
(* exclusion, the absence of barging and the refinement of ReadersWriters  *)
(* follow from them.                                                       *)
(***************************************************************************)
EXTENDS SHLock, TLAPS, FiniteSetTheorems

IInv == TypeOK /\ BooksBalance /\ NoLostWakeup /\ WaitersArePrivate

-------------------------------------------------------------------------------
(* The queue of writers *)

NoRepeats(q) == \A i, j \in 1..Len(q) : q[i] = q[j] => i = j

\* Joining the queue of writers at its end keeps everyone else in it, and
\* keeps it free of repeats when the newcomer was not queued.
LEMMA JoinQueue ==
    ASSUME NEW S, NEW q \in Seq(S), NEW e \in S
    PROVE  /\ Append(q, e) \in Seq(S)
           /\ \A u : InQueue(u, Append(q, e)) <=> InQueue(u, q) \/ u = e
           /\ NoRepeats(q) /\ ~ InQueue(e, q) => NoRepeats(Append(q, e))
  BY DEF InQueue, NoRepeats

\* Serving the head of the queue takes exactly that thread out of it.
LEMMA ServeQueue ==
    ASSUME NEW S, NEW q \in Seq(S), q # <<>>, NoRepeats(q)
    PROVE  /\ Head(q) \in S
           /\ InQueue(Head(q), q)
           /\ Tail(q) \in Seq(S)
           /\ \A u : InQueue(u, Tail(q)) <=> InQueue(u, q) /\ u # Head(q)
           /\ NoRepeats(Tail(q))
  <1>1. Head(q) = q[1] /\ Len(q) \in Nat /\ Len(q) >= 1 /\ Tail(q) \in Seq(S)
    OBVIOUS
  <1>2. Len(Tail(q)) = Len(q) - 1 /\ \A i \in 1..Len(Tail(q)) : Tail(q)[i] = q[i + 1]
    OBVIOUS
  <1>3. \A u : InQueue(u, Tail(q)) => InQueue(u, q) /\ u # Head(q)
    BY <1>1, <1>2 DEF InQueue, NoRepeats
  <1>4. ASSUME NEW u, InQueue(u, q), u # Head(q)
        PROVE  InQueue(u, Tail(q))
    <2>1. PICK i \in 1..Len(q) : q[i] = u
      BY <1>4 DEF InQueue
    <2>2. i - 1 \in 1..Len(Tail(q)) /\ Tail(q)[i - 1] = u
      BY <2>1, <1>1, <1>2, <1>4
    <2>. QED BY <2>2 DEF InQueue
  <1>5. NoRepeats(Tail(q))
    BY <1>1, <1>2 DEF NoRepeats
  <1>. QED BY <1>1, <1>3, <1>4, <1>5 DEF InQueue

-------------------------------------------------------------------------------
(* Waking *)

\* notify() on the conditions of a set of sleeping threads wakes exactly these
\* threads, because nobody else waits on their conditions.
LEMMA NotifyWakes ==
    ASSUME TypeOK, WaitersArePrivate, NoLostWakeup,
           NEW W, W \subseteq asleep, Notify({waiter[u] : u \in W})
    PROVE  asleep' = asleep \ W
  <1>. DEFINE ws == {waiter[u] : u \in W}
  <1>1. PICK woken \in SUBSET {u \in asleep : waiter[u] \in ws} :
           /\ \A w \in {waiter[u] : u \in asleep} \cap ws :
                  Cardinality({u \in woken : waiter[u] = w}) = 1
           /\ asleep' = asleep \ woken
    BY DEF Notify
  <1>2. \A u \in asleep : \A v \in asleep : waiter[u] = waiter[v] => u = v
    BY DEF WaitersArePrivate, NoLostWakeup, TypeOK
  <1>3. woken \subseteq W
    BY <1>1, <1>2
  <1>4. ASSUME NEW u \in W PROVE u \in woken
    <2>1. Cardinality({v \in woken : waiter[v] = waiter[u]}) = 1
      BY <1>1, <1>4
    <2>2. {v \in woken : waiter[v] = waiter[u]} # {}
      BY <2>1, FS_EmptySet
    <2>. QED BY <2>2, <1>2, <1>3, <1>4
  <1>. QED BY <1>1, <1>3, <1>4

-------------------------------------------------------------------------------
(* Counting the shared holds *)

LEMMA HoldsMembers ==
    \A h : h \in SharedHolds <=>
              \E t \in Threads : \E k \in 1..shared_owners[t] : h = <<t, k>>
  BY DEF SharedHolds

\* One more hold of one thread adds one to the total.
LEMMA AddHold ==
    ASSUME TypeOK, IsFiniteSet(SharedHolds), NEW t \in Threads,
           shared_owners' = [shared_owners EXCEPT ![t] = @ + 1]
    PROVE  /\ IsFiniteSet(SharedHolds')
           /\ Cardinality(SharedHolds') = Cardinality(SharedHolds) + 1
  <1>. DEFINE new == <<t, shared_owners[t] + 1>>
  <1>1. \A h : h \in SharedHolds' <=>
              \E u \in Threads : \E k \in 1..shared_owners'[u] : h = <<u, k>>
    BY DEF SharedHolds
  <1>2. new \notin SharedHolds
    BY HoldsMembers DEF TypeOK
  <1>3. SharedHolds' = SharedHolds \cup {new}
    <2>1. ASSUME NEW h \in SharedHolds' PROVE h \in SharedHolds \cup {new}
      <3>0. PICK u \in Threads : \E k \in 1..shared_owners'[u] : h = <<u, k>>
        BY <1>1
      <3>1. PICK k \in 1..shared_owners'[u] : h = <<u, k>>
        BY <3>0
      <3>2. CASE k \in 1..shared_owners[u]
        BY <3>1, <3>2, HoldsMembers
      <3>3. CASE k \notin 1..shared_owners[u]
        <4>1. /\ shared_owners[u] \in Nat
              /\ shared_owners'[u] = IF u = t THEN shared_owners[u] + 1
                                              ELSE shared_owners[u]
          BY DEF TypeOK
        <4>2. u = t /\ k = shared_owners[u] + 1
          BY <3>3, <4>1
        <4>. QED BY <3>1, <4>2
      <3>. QED BY <3>2, <3>3
    <2>2. ASSUME NEW h \in SharedHolds PROVE h \in SharedHolds'
      <3>0. PICK u \in Threads : \E k \in 1..shared_owners[u] : h = <<u, k>>
        BY HoldsMembers
      <3>1. PICK k \in 1..shared_owners[u] : h = <<u, k>>
        BY <3>0
      <3>2. k \in 1..shared_owners'[u]
        BY DEF TypeOK
      <3>. QED BY <3>1, <3>2, <1>1
    <2>3. new \in SharedHolds'
      <3>1. shared_owners[t] + 1 \in 1..shared_owners'[t]
        BY DEF TypeOK
      <3>. QED BY <3>1, <1>1
    <2>. QED BY <2>1, <2>2, <2>3
  <1>. QED BY <1>2, <1>3, FS_AddElement

\* One hold less of one thread takes one from the total.
LEMMA DropHold ==
    ASSUME TypeOK, IsFiniteSet(SharedHolds), NEW t \in Threads,
           shared_owners[t] > 0,
           shared_owners' = [shared_owners EXCEPT ![t] = @ - 1]
    PROVE  /\ IsFiniteSet(SharedHolds')
           /\ Cardinality(SharedHolds') = Cardinality(SharedHolds) - 1
  <1>. DEFINE old == <<t, shared_owners[t]>>
  <1>1. \A h : h \in SharedHolds' <=>
              \E u \in Threads : \E k \in 1..shared_owners'[u] : h = <<u, k>>
    BY DEF SharedHolds
  <1>2. old \in SharedHolds
    <2>1. shared_owners[t] \in 1..shared_owners[t]
      BY DEF TypeOK
    <2>. QED BY <2>1, HoldsMembers
  <1>3. SharedHolds' = SharedHolds \ {old}
    <2>1. ASSUME NEW h \in SharedHolds' PROVE h \in SharedHolds \ {old}
      <3>0. PICK u \in Threads : \E k \in 1..shared_owners'[u] : h = <<u, k>>
        BY <1>1
      <3>1. PICK k \in 1..shared_owners'[u] : h = <<u, k>>
        BY <3>0
      <3>2. k \in 1..shared_owners[u] /\ ~ (u = t /\ k = shared_owners[t])
        BY DEF TypeOK
      <3>3. h # old
        BY <3>1, <3>2
      <3>. QED BY <3>1, <3>2, <3>3, HoldsMembers
    <2>2. ASSUME NEW h \in SharedHolds, h # old PROVE h \in SharedHolds'
      <3>0. PICK u \in Threads : \E k \in 1..shared_owners[u] : h = <<u, k>>
        BY HoldsMembers
      <3>1. PICK k \in 1..shared_owners[u] : h = <<u, k>>
        BY <3>0
      <3>2. ~ (u = t /\ k = shared_owners[t])
        BY <3>1, <2>2
      <3>3. k \in 1..shared_owners'[u]
        BY <3>2 DEF TypeOK
      <3>. QED BY <3>1, <3>3, <1>1
    <2>3. old \notin SharedHolds'
      <3>1. shared_owners[t] \notin 1..shared_owners'[t]
        BY DEF TypeOK
      <3>. QED BY <3>1, <1>1
    <2>. QED BY <2>1, <2>2, <2>3
  <1>. QED BY <1>2, <1>3, FS_RemoveElement

\* When nobody holds the lock shared and a set of readers is granted it, the
\* total is the number of these readers.
LEMMA GrantReaders ==
    ASSUME LockAssumption, TypeOK, IsFiniteSet(SharedHolds),
           Cardinality(SharedHolds) = 0,
           shared_owners' = [u \in Threads |->
                               IF u \in shared_queue THEN 1 ELSE shared_owners[u]]
    PROVE  /\ IsFiniteSet(SharedHolds')
           /\ Cardinality(SharedHolds') = Cardinality(shared_queue)
           /\ Cardinality(shared_queue) \in Nat
           /\ shared_queue # {} => Cardinality(shared_queue) > 0
  <1>1. SharedHolds = {}
    BY FS_EmptySet
  <1>2. \A u \in Threads : shared_owners[u] = 0
    <2>1. ASSUME NEW u \in Threads, shared_owners[u] # 0 PROVE FALSE
      <3>1. 1 \in 1..shared_owners[u]
        BY <2>1 DEF TypeOK
      <3>. QED BY <3>1, <1>1, HoldsMembers
    <2>. QED BY <2>1
  <1>3. SharedHolds' = shared_queue \X {1}
    <2>1. \A h : h \in SharedHolds' <=>
              \E u \in Threads : \E k \in 1..shared_owners'[u] : h = <<u, k>>
      BY DEF SharedHolds
    <2>2. \A u \in Threads : \A k : k \in 1..shared_owners'[u] <=> u \in shared_queue /\ k = 1
      BY <1>2
    <2>3. ASSUME NEW h \in SharedHolds' PROVE h \in shared_queue \X {1}
      <3>1. PICK u \in Threads : \E k \in 1..shared_owners'[u] : h = <<u, k>>
        BY <2>1
      <3>. QED BY <3>1, <2>2
    <2>4. ASSUME NEW u \in shared_queue PROVE <<u, 1>> \in SharedHolds'
      <3>1. u \in Threads /\ 1 \in 1..shared_owners'[u]
        BY <2>2 DEF TypeOK
      <3>. QED BY <3>1, <2>1
    <2>. QED BY <2>3, <2>4
  <1>4. IsFiniteSet(shared_queue) /\ IsFiniteSet({1}) /\ Cardinality({1}) = 1
    BY FS_Subset, FS_Singleton DEF LockAssumption, TypeOK
  <1>5. Cardinality(shared_queue) \in Nat
    BY <1>4, FS_CardinalityType
  <1>6. IsFiniteSet(SharedHolds') /\ Cardinality(SharedHolds') = Cardinality(shared_queue) * 1
    BY <1>3, <1>4, FS_Product
  <1>. QED BY <1>4, <1>5, <1>6, FS_EmptySet

-------------------------------------------------------------------------------
(* The parts of a step *)

\* A thread that starts to wait gets a condition of its own, and no more
\* conditions exist than threads: one is made only when every existing one is
\* in use by another thread.
LEMMA WaitingIsPrivate ==
    ASSUME LockAssumption, IInv, NEW t \in Threads, pc[t] = "run",
           NEW mode \in {"shared", "exclusive"}, WaitIn(t, mode)
    PROVE  /\ WaitersArePrivate'
           /\ n_waiters' \in Nat /\ free_waiters' \in SUBSET (1..n_waiters')
           /\ waiter' \in [Threads -> 0..n_waiters']
           /\ pc' = [pc EXCEPT ![t] = mode]
           /\ asleep' = asleep \cup {t}
  <1>1. waiter[t] = 0
    BY DEF IInv, WaitersArePrivate
  <1>2. CASE \E w \in free_waiters :
                /\ waiter' = [waiter EXCEPT ![t] = w]
                /\ free_waiters' = free_waiters \ {w}
                /\ UNCHANGED n_waiters
    BY <1>1, <1>2 DEF IInv, WaitersArePrivate, WaitIn, TypeOK
  <1>3. CASE /\ free_waiters = {}
             /\ n_waiters' = n_waiters + 1
             /\ waiter' = [waiter EXCEPT ![t] = n_waiters + 1]
             /\ UNCHANGED free_waiters
    <2>1. n_waiters < Cardinality(Threads)
      <3>. DEFINE user(w) == CHOOSE u \in Threads : waiter[u] = w
                  f == [w \in 1..n_waiters |-> user(w)]
      <3>1. \A w \in 1..n_waiters : user(w) \in Threads /\ waiter[user(w)] = w
        BY <1>3 DEF IInv, WaitersArePrivate
      <3>2. f \in Injection(1..n_waiters, Threads)
        BY <3>1 DEF Injection, IsInjective
      <3>3. n_waiters \in Nat
        BY DEF IInv, TypeOK
      <3>4. Cardinality(1..n_waiters) = n_waiters
        BY <3>3, FS_Interval
      <3>5. ASSUME f \in Surjection(1..n_waiters, Threads) PROVE FALSE
        <4>1. PICK w \in 1..n_waiters : f[w] = t
          BY <3>5 DEF Surjection
        <4>2. waiter[t] = w
          BY <4>1, <3>1
        <4>. QED BY <4>2, <1>1
      <3>6. Cardinality(1..n_waiters) <= Cardinality(Threads)
            /\ Cardinality(1..n_waiters) # Cardinality(Threads)
        BY <3>2, <3>5, FS_Injection DEF LockAssumption
      <3>7. Cardinality(Threads) \in Nat
        BY FS_CardinalityType DEF LockAssumption
      <3>. QED BY <3>3, <3>4, <3>6, <3>7
    <2>2. n_waiters' <= Cardinality(Threads)
      BY <2>1, <1>3, FS_CardinalityType DEF IInv, TypeOK, LockAssumption
    <2>3. /\ n_waiters \in Nat /\ waiter \in [Threads -> 0..n_waiters]
          /\ free_waiters' = {} /\ n_waiters' = n_waiters + 1
          /\ pc \in [Threads -> {"run", "shared", "exclusive"}]
          /\ \A u \in Threads : waiter[u] # n_waiters'
      BY <1>3 DEF IInv, TypeOK
    <2>4. \A u \in Threads : waiter'[u] = IF u = t THEN n_waiters' ELSE waiter[u]
      BY <1>3, <2>3
    <2>5. pc' = [pc EXCEPT ![t] = mode] /\ asleep' = asleep \cup {t}
      BY DEF WaitIn
    <2>6. \A u \in Threads : waiter'[u] # 0 <=> pc'[u] # "run"
      BY <2>3, <2>4, <2>5 DEF IInv, WaitersArePrivate
    <2>7. \A u, v \in Threads : waiter'[u] = waiter'[v] /\ waiter'[u] # 0 => u = v
      BY <2>3, <2>4 DEF IInv, WaitersArePrivate
    <2>8. \A w \in 1..n_waiters' : \E u \in Threads : waiter'[u] = w
      <3>1. ASSUME NEW w \in 1..n_waiters' PROVE \E u \in Threads : waiter'[u] = w
        <4>1. CASE w = n_waiters'
          BY <4>1, <2>4
        <4>2. CASE w # n_waiters'
          <5>1. w \in 1..n_waiters /\ w # 0
            BY <4>2, <2>3
          <5>2. PICK u \in Threads : waiter[u] = w
            BY <5>1, <1>3 DEF IInv, WaitersArePrivate
          <5>. QED BY <5>1, <5>2, <2>4, <1>1
        <4>. QED BY <4>1, <4>2
      <3>. QED BY <3>1
    <2>9. WaitersArePrivate'
      BY <2>2, <2>3, <2>6, <2>7, <2>8 DEF WaitersArePrivate
    <2>10. waiter' \in [Threads -> 0..n_waiters']
      BY <1>3, <2>3
    <2>11. n_waiters' \in Nat /\ free_waiters' \in SUBSET (1..n_waiters')
      BY <2>3
    <2>. QED BY <2>5, <2>9, <2>10, <2>11
  <1>. QED BY <1>2, <1>3 DEF WaitIn

\* Facts about who sleeps and who waits that most steps need.
LEMMA Waiting ==
    ASSUME IInv, NEW t \in Threads
    PROVE  /\ t \in shared_queue => t \in asleep /\ pc[t] = "shared"
           /\ InQueue(t, exclusive_queue) => t \in asleep /\ pc[t] = "exclusive"
           /\ pc[t] = "run" => t \notin asleep
           /\ pc[t] # "run" => held[t] = [mode |-> "none", n |-> 0]
           /\ held[t].mode \in Modes /\ held[t].n \in Nat
           /\ held[t].mode = "exclusive" => shared_owners[t] = 0
  <1>1. held[t] \in [mode : Modes, n : Nat]
    BY DEF IInv, TypeOK
  <1>2. pc[t] # "run" => held[t].n = 0 /\ held[t].mode = "none"
    BY DEF IInv, BooksBalance
  <1>3. held[t].mode = "exclusive" => shared_owners[t] = 0
    BY <1>1, <1>2 DEF IInv, BooksBalance, Granted
  <1>. QED BY <1>1, <1>2, <1>3 DEF IInv, NoLostWakeup

\* A total of zero means that no thread has a shared hold.
LEMMA NoHolds ==
    ASSUME IInv, is_shared = 0, NEW t \in Threads
    PROVE  shared_owners[t] = 0 /\ held[t].mode # "shared"
  <1>1. SharedHolds = {}
    BY FS_EmptySet DEF IInv, BooksBalance
  <1>2. shared_owners[t] \in Nat
    BY DEF IInv, TypeOK
  <1>3. 1 \notin 1..shared_owners[t]
    BY <1>1, HoldsMembers
  <1>4. shared_owners[t] = 0
    BY <1>2, <1>3
  <1>. QED BY <1>4 DEF IInv, BooksBalance

-------------------------------------------------------------------------------
(* acquire() preserves the invariant *)

LEMMA AcquireSharedStep ==
    ASSUME LockAssumption, IInv, NEW t \in Threads, AcquireShared(t)
    PROVE  IInv'
  <1>. USE DEF AcquireShared, queues, waiting
  <1>1. TypeOK'
    <2>1. shared_owners' \in [Threads -> Nat] /\ is_shared' \in Nat
      BY DEF IInv, TypeOK
    <2>2. held' \in [Threads -> [mode : Modes, n : Nat]]
      BY DEF IInv, TypeOK, Modes
    <2>. QED BY <2>1, <2>2 DEF IInv, TypeOK
  <1>2. BooksBalance'
    <2>1. IsFiniteSet(SharedHolds') /\ is_shared' = Cardinality(SharedHolds')
      BY AddHold DEF IInv, BooksBalance
    <2>2. is_exclusive = 0 /\ exclusive_owner = NoThread
      BY DEF IInv, BooksBalance, TypeOK
    <2>3. held[t].mode # "exclusive" /\ held[t].n \in Nat
      BY <2>2, Waiting DEF IInv, BooksBalance, LockAssumption
    <2>4. ASSUME NEW u \in Threads
          PROVE  /\ held'[u].mode = "none" <=> held'[u].n = 0
                 /\ pc'[u] # "run" => held'[u].n = 0
                 /\ shared_owners'[u] = IF held'[u].mode = "shared" THEN held'[u].n
                              ELSE IF Granted(u, "shared")' THEN 1 ELSE 0
                 /\ held'[u].mode # "exclusive" /\ ~ Granted(u, "exclusive")'
                 /\ exclusive_owner' # u
      <3>1. CASE u = t
        <4>1. held[t].n = shared_owners[t] /\ held'[t] = [mode |-> "shared", n |-> held[t].n + 1]
          BY <2>3, Waiting DEF IInv, BooksBalance, Granted, Modes, TypeOK
        <4>2. shared_owners'[t] = held'[t].n /\ held'[t].n # 0 /\ pc'[t] = "run"
          BY <4>1, <2>3 DEF IInv, TypeOK
        <4>. QED BY <2>2, <3>1, <4>1, <4>2 DEF Granted, LockAssumption
      <3>2. CASE u # t
        BY <2>2, <3>2 DEF IInv, BooksBalance, Granted, TypeOK, LockAssumption
      <3>. QED BY <3>1, <3>2
    <2>. QED BY <2>1, <2>2, <2>4 DEF BooksBalance
  <1>3. NoLostWakeup'
    <2>1. is_shared' + is_exclusive' > 0
      BY DEF IInv, TypeOK
    <2>. QED BY <2>1 DEF IInv, NoLostWakeup, InQueue
  <1>4. WaitersArePrivate'
    BY DEF IInv, WaitersArePrivate
  <1>. QED BY <1>1, <1>2, <1>3, <1>4 DEF IInv

LEMMA AcquireExclusiveStep ==
    ASSUME LockAssumption, IInv, NEW t \in Threads, AcquireExclusive(t)
    PROVE  IInv'
  <1>. USE DEF AcquireExclusive, queues, waiting
  <1>1. TypeOK'
    BY DEF IInv, TypeOK, Modes
  <1>2. BooksBalance'
    <2>1. IsFiniteSet(SharedHolds') /\ is_shared' = Cardinality(SharedHolds')
      BY DEF IInv, BooksBalance, SharedHolds
    <2>2. is_shared = 0 /\ exclusive_owner \in {t, NoThread}
      BY DEF IInv, BooksBalance, LockAssumption
    <2>2a. \A u \in Threads : held[u].mode # "shared" /\ shared_owners[u] = 0
      BY <2>2, NoHolds
    <2>2b. held[t].n = is_exclusive /\ is_exclusive \in Nat
      BY <2>2, <2>2a, Waiting DEF IInv, BooksBalance, TypeOK, Granted, Modes, LockAssumption
    <2>3. ASSUME NEW u \in Threads
          PROVE  /\ held'[u].mode = "none" <=> held'[u].n = 0
                 /\ pc'[u] # "run" => held'[u].n = 0
                 /\ shared_owners'[u] = IF held'[u].mode = "shared" THEN held'[u].n
                              ELSE IF Granted(u, "shared")' THEN 1 ELSE 0
                 /\ exclusive_owner' = u <=> held'[u].mode = "exclusive" \/ Granted(u, "exclusive")'
                 /\ exclusive_owner' = u =>
                      is_exclusive' = IF held'[u].mode = "exclusive" THEN held'[u].n ELSE 1
      <3>1. CASE u = t
        <4>1. held'[t] = [mode |-> "exclusive", n |-> is_exclusive + 1]
          BY <2>2b DEF IInv, TypeOK
        <4>. QED BY <2>2a, <2>2b, <3>1, <4>1 DEF Granted
      <3>2. CASE u # t
        BY <2>2, <3>2 DEF IInv, BooksBalance, Granted, TypeOK, LockAssumption
      <3>. QED BY <3>1, <3>2
    <2>4. is_exclusive' # 0 /\ exclusive_owner' # NoThread /\ is_shared' = 0
      BY <2>2, <2>2b DEF LockAssumption
    <2>. QED BY <2>1, <2>3, <2>4 DEF BooksBalance
  <1>3. NoLostWakeup'
    <2>1. is_exclusive' > 0 /\ is_shared' + is_exclusive' > 0
      BY DEF IInv, TypeOK
    <2>. QED BY <2>1 DEF IInv, NoLostWakeup, InQueue
  <1>4. WaitersArePrivate'
    BY DEF IInv, WaitersArePrivate
  <1>. QED BY <1>1, <1>2, <1>3, <1>4 DEF IInv

LEMMA QueueSharedStep ==
    ASSUME LockAssumption, IInv, NEW t \in Threads, QueueShared(t)
    PROVE  IInv'
  <1>. USE DEF QueueShared, SharedIsBlocked, lockState
  <1>0. /\ WaitersArePrivate'
        /\ n_waiters' \in Nat /\ free_waiters' \in SUBSET (1..n_waiters')
        /\ waiter' \in [Threads -> 0..n_waiters']
        /\ pc' = [pc EXCEPT ![t] = "shared"]
        /\ asleep' = asleep \cup {t}
    BY WaitingIsPrivate
  <1>1. TypeOK'
    BY <1>0 DEF IInv, TypeOK, Modes
  <1>2. BooksBalance'
    <2>1. IsFiniteSet(SharedHolds') /\ is_shared' = Cardinality(SharedHolds')
      BY DEF IInv, BooksBalance, SharedHolds
    <2>2. held[t].n = 0 /\ held[t].mode = "none" /\ exclusive_owner # t
      BY Waiting DEF IInv, BooksBalance, Modes, Granted
    <2>3. \A u \in Threads : Granted(u, "shared")' <=> Granted(u, "shared")
      BY <1>0 DEF Granted, IInv, TypeOK
    <2>4. \A u \in Threads : Granted(u, "exclusive")' <=> Granted(u, "exclusive")
      BY <1>0 DEF Granted, IInv, TypeOK
    <2>5. \A u \in Threads : pc'[u] # "run" => held'[u].n = 0
      BY <1>0, <2>2, Waiting DEF IInv, TypeOK
    <2>. QED BY <2>1, <2>3, <2>4, <2>5 DEF BooksBalance, IInv
  <1>3. NoLostWakeup'
    <2>1. /\ UNCHANGED <<is_shared, is_exclusive, exclusive_queue>> /\ NoLostWakeup
          /\ shared_queue' = shared_queue \cup {t}
          /\ is_exclusive > 0 \/ exclusive_queue # <<>>
      BY DEF IInv
    <2>2. /\ pc'[t] = "shared" /\ t \in asleep' /\ t \in shared_queue'
          /\ \A u \in Threads \ {t} : /\ pc'[u] = pc[u]
                                      /\ u \in asleep' <=> u \in asleep
                                      /\ u \in shared_queue' <=> u \in shared_queue
      BY <1>0, <2>1 DEF IInv, TypeOK
    <2>3. ~ InQueue(t, exclusive_queue)
      BY Waiting
    <2>. QED BY <2>1, <2>2, <2>3 DEF NoLostWakeup, InQueue
  <1>. QED BY <1>0, <1>1, <1>2, <1>3 DEF IInv

LEMMA QueueExclusiveStep ==
    ASSUME LockAssumption, IInv, NEW t \in Threads, QueueExclusive(t)
    PROVE  IInv'
  <1>. USE DEF QueueExclusive, ExclusiveIsBlocked, lockState
  <1>0. /\ WaitersArePrivate'
        /\ n_waiters' \in Nat /\ free_waiters' \in SUBSET (1..n_waiters')
        /\ waiter' \in [Threads -> 0..n_waiters']
        /\ pc' = [pc EXCEPT ![t] = "exclusive"]
        /\ asleep' = asleep \cup {t}
    BY WaitingIsPrivate
  <1>1. TypeOK'
    BY <1>0, JoinQueue DEF IInv, TypeOK, Modes
  <1>2. BooksBalance'
    <2>1. IsFiniteSet(SharedHolds') /\ is_shared' = Cardinality(SharedHolds')
      BY DEF IInv, BooksBalance, SharedHolds
    <2>2. held[t].n = 0 /\ held[t].mode = "none" /\ exclusive_owner # t
      BY Waiting DEF IInv, BooksBalance, Modes, Granted
    <2>3. \A u \in Threads : Granted(u, "shared")' <=> Granted(u, "shared")
      BY <1>0 DEF Granted, IInv, TypeOK
    <2>4. \A u \in Threads : Granted(u, "exclusive")' <=> Granted(u, "exclusive")
      BY <1>0 DEF Granted, IInv, TypeOK
    <2>5. \A u \in Threads : pc'[u] # "run" => held'[u].n = 0
      BY <1>0, <2>2, Waiting DEF IInv, TypeOK
    <2>. QED BY <2>1, <2>3, <2>4, <2>5 DEF BooksBalance, IInv
  <1>3. NoLostWakeup'
    <2>1. ~ InQueue(t, exclusive_queue) /\ t \notin shared_queue
      BY Waiting
    <2>2. exclusive_queue \in Seq(Threads) /\ NoRepeats(exclusive_queue)
      BY DEF IInv, TypeOK, NoLostWakeup, NoRepeats
    <2>3. /\ \A u : InQueue(u, exclusive_queue') <=> InQueue(u, exclusive_queue) \/ u = t
          /\ NoRepeats(exclusive_queue')
      BY <2>1, <2>2, JoinQueue
    <2>4. exclusive_queue' # <<>>
      BY <2>2
    <2>5. is_shared' + is_exclusive' > 0
      BY DEF IInv, TypeOK
    <2>. QED BY <1>0, <2>1, <2>3, <2>4, <2>5, Waiting DEF IInv, NoLostWakeup, NoRepeats, TypeOK
  <1>. QED BY <1>0, <1>1, <1>2, <1>3 DEF IInv

LEMMA ResumeStep ==
    ASSUME IInv, NEW t \in Threads, Resume(t)
    PROVE  IInv'
  <1>. USE DEF Resume, lockState, queues
  <1>1. TypeOK'
    <2>1. waiter[t] \in 1..n_waiters
      BY DEF IInv, WaitersArePrivate, TypeOK
    <2>2. held' \in [Threads -> [mode : Modes, n : Nat]]
      BY DEF IInv, TypeOK, Modes
    <2>3. free_waiters' \in SUBSET (1..n_waiters')
      BY <2>1 DEF IInv, TypeOK
    <2>3a. n_waiters \in Nat /\ waiter \in [Threads -> 0..n_waiters]
      BY DEF IInv, TypeOK
    <2>3b. 0 \in 0..n_waiters
      BY <2>3a
    <2>3c. waiter' \in [Threads -> 0..n_waiters']
      BY <2>3a, <2>3b
    <2>3d. pc' \in [Threads -> {"run", "shared", "exclusive"}]
      BY DEF IInv, TypeOK
    <2>4. /\ is_shared \in Nat /\ is_exclusive \in Nat
          /\ shared_owners \in [Threads -> Nat]
          /\ exclusive_owner \in Threads \cup {NoThread}
          /\ shared_queue \in SUBSET Threads
          /\ exclusive_queue \in Seq(Threads)
          /\ n_waiters \in Nat
          /\ asleep \in SUBSET Threads
      BY DEF IInv, TypeOK
    <2>. QED BY <2>2, <2>3, <2>3c, <2>3d, <2>4 DEF TypeOK
  <1>2. BooksBalance'
    <2>1. IsFiniteSet(SharedHolds') /\ is_shared' = Cardinality(SharedHolds')
      BY DEF IInv, BooksBalance, SharedHolds
    <2>2. held[t] = [mode |-> "none", n |-> 0] /\ pc[t] \in {"shared", "exclusive"}
          /\ Granted(t, pc[t])
      BY Waiting DEF IInv, TypeOK, Granted
    <2>3. ASSUME NEW u \in Threads
          PROVE  /\ held'[u].mode = "none" <=> held'[u].n = 0
                 /\ pc'[u] # "run" => held'[u].n = 0
                 /\ shared_owners'[u] = IF held'[u].mode = "shared" THEN held'[u].n
                              ELSE IF Granted(u, "shared")' THEN 1 ELSE 0
                 /\ exclusive_owner' = u <=> held'[u].mode = "exclusive" \/ Granted(u, "exclusive")'
                 /\ exclusive_owner' = u =>
                      is_exclusive' = IF held'[u].mode = "exclusive" THEN held'[u].n ELSE 1
      <3>1. CASE u = t
        BY <2>2, <3>1 DEF IInv, BooksBalance, Granted, TypeOK
      <3>2. CASE u # t
        BY <3>2 DEF IInv, BooksBalance, Granted, TypeOK
      <3>. QED BY <3>1, <3>2
    <2>. QED BY <2>1, <2>3 DEF BooksBalance, IInv
  <1>3. NoLostWakeup'
    BY DEF IInv, NoLostWakeup, TypeOK
  <1>4. WaitersArePrivate'
    <2>1. waiter[t] # 0 /\ waiter[t] \in 1..n_waiters
      BY DEF IInv, WaitersArePrivate, TypeOK
    <2>. QED BY <2>1 DEF IInv, WaitersArePrivate, TypeOK
  <1>. QED BY <1>1, <1>2, <1>3, <1>4 DEF IInv

-------------------------------------------------------------------------------
(* release() preserves the invariant *)

\* What each thread's entries must satisfy for the books to balance.
Balanced(u) ==
    /\ held[u].mode = "none" <=> held[u].n = 0
    /\ pc[u] # "run" => held[u].n = 0
    /\ shared_owners[u] = IF held[u].mode = "shared" THEN held[u].n
                          ELSE IF Granted(u, "shared") THEN 1 ELSE 0
    /\ exclusive_owner = u <=> held[u].mode = "exclusive" \/ Granted(u, "exclusive")
    /\ exclusive_owner = u =>
          is_exclusive = IF held[u].mode = "exclusive" THEN held[u].n ELSE 1

\* The writer at the head of the queue is the one, and the only one, served.
LEMMA WriterServed ==
    ASSUME IInv, exclusive_queue # <<>>, HandToWriter,
           NEW w, w = Head(exclusive_queue)
    PROVE  /\ w \in Threads /\ w \in asleep /\ pc[w] = "exclusive"
           /\ asleep' = asleep \ {w}
           /\ exclusive_queue' \in Seq(Threads)
           /\ \A u : InQueue(u, exclusive_queue') <=> InQueue(u, exclusive_queue) /\ u # w
           /\ NoRepeats(exclusive_queue')
  <1>1. exclusive_queue \in Seq(Threads) /\ NoRepeats(exclusive_queue)
    BY DEF IInv, TypeOK, NoLostWakeup, NoRepeats
  <1>2. /\ w \in Threads /\ InQueue(w, exclusive_queue)
        /\ exclusive_queue' \in Seq(Threads)
        /\ \A u : InQueue(u, exclusive_queue') <=> InQueue(u, exclusive_queue) /\ u # w
        /\ NoRepeats(exclusive_queue')
    BY <1>1, ServeQueue DEF HandToWriter
  <1>3. w \in asleep /\ pc[w] = "exclusive"
    BY <1>2, Waiting
  <1>4. {w} \subseteq asleep /\ {waiter[u] : u \in {w}} = {waiter[w]}
    BY <1>3
  <1>5. Notify({waiter[u] : u \in {w}})
    BY <1>4 DEF HandToWriter
  <1>6. asleep' = asleep \ {w}
    BY <1>4, <1>5, NotifyWakes DEF IInv
  <1>. QED BY <1>2, <1>3, <1>6

LEMMA ReleaseKeepsWaiters ==
    ASSUME IInv, UNCHANGED <<free_waiters, n_waiters, pc, waiter>>
    PROVE  WaitersArePrivate'
  BY DEF IInv, WaitersArePrivate

\* Giving up one hold: the thread's own entry in held stays well-formed.
LEMMA ForgetHold ==
    ASSUME IInv, NEW t \in Threads, pc[t] = "run", held[t].mode # "none", Forget(t)
    PROVE  /\ held' \in [Threads -> [mode : Modes, n : Nat]]
           /\ \A u \in Threads \ {t} : held'[u] = held[u]
           /\ held[t].n \in Nat \ {0}
           /\ held[t].n = 1 => held'[t].mode = "none" /\ held'[t].n = 0
           /\ held[t].n > 1 => held'[t].mode = held[t].mode /\ held'[t].n = held[t].n - 1
           /\ held'[t].mode = "none" <=> held'[t].n = 0
  <1>1. held[t] \in [mode : Modes, n : Nat] /\ held[t].n # 0
    BY DEF IInv, TypeOK, BooksBalance
  <1>2. CASE held[t].n = 1
    <2>1. held' = [held EXCEPT ![t] = Unheld]
      BY <1>2 DEF Forget
    <2>2. held \in [Threads -> [mode : Modes, n : Nat]]
      BY DEF IInv, TypeOK
    <2>. QED BY <1>1, <1>2, <2>1, <2>2 DEF Unheld, Modes
  <1>3. CASE held[t].n # 1
    <2>1. held' = [held EXCEPT ![t] = [mode |-> held[t].mode, n |-> held[t].n - 1]]
      BY <1>3 DEF Forget
    <2>. QED BY <1>1, <1>3, <2>1 DEF IInv, TypeOK, Modes
  <1>. QED BY <1>2, <1>3

LEMMA ReleaseExclusiveStep ==
    ASSUME LockAssumption, IInv, NEW t \in Threads, ReleaseExclusive(t)
    PROVE  IInv'
  <1>1. /\ pc[t] = "run" /\ t \notin asleep /\ exclusive_owner = t
        /\ is_exclusive \in Nat \ {0} /\ is_shared = 0
        /\ held[t].mode = "exclusive" /\ held[t].n = is_exclusive
        /\ Forget(t) /\ UNCHANGED <<free_waiters, n_waiters, pc, waiter>>
        /\ t \notin shared_queue /\ ~ InQueue(t, exclusive_queue)
    BY Waiting DEF ReleaseExclusive, IInv, BooksBalance, Granted, TypeOK
  <1>2. /\ IsFiniteSet(SharedHolds) /\ Cardinality(SharedHolds) = 0
        /\ \A u \in Threads : shared_owners[u] = 0 /\ held[u].mode # "shared"
    BY <1>1, NoHolds DEF IInv, BooksBalance
  <1>3. /\ held' \in [Threads -> [mode : Modes, n : Nat]]
        /\ \A u \in Threads \ {t} : held'[u] = held[u]
        /\ held[t].n = 1 => held'[t].mode = "none" /\ held'[t].n = 0
        /\ held[t].n > 1 => held'[t].mode = "exclusive" /\ held'[t].n = held[t].n - 1
    BY <1>1, ForgetHold
  <1>4. WaitersArePrivate'
    BY <1>1, ReleaseKeepsWaiters
  <1>5. \A u \in Threads : Balanced(u)
    BY DEF IInv, BooksBalance, Balanced
  <1>6. \A u \in Threads \ {t} : held[u].mode = "none" /\ ~ Granted(u, "exclusive")
                                 /\ ~ Granted(u, "shared")
    BY <1>1, <1>2, Waiting DEF IInv, BooksBalance, Modes
  <1>7. ASSUME TypeOK', IsFiniteSet(SharedHolds'), is_shared' = Cardinality(SharedHolds'),
               \A u \in Threads : Balanced(u)',
               exclusive_owner' = NoThread <=> is_exclusive' = 0,
               is_exclusive' = 0 \/ is_shared' = 0, NoLostWakeup'
        PROVE  IInv'
    BY <1>4, <1>7 DEF IInv, BooksBalance, Balanced
  <1>8. CASE is_exclusive > 1
    <2>1. /\ is_exclusive' = is_exclusive - 1 /\ is_exclusive' \in Nat \ {0}
          /\ UNCHANGED <<is_shared, shared_owners, exclusive_owner, queues, asleep>>
      BY <1>1, <1>8 DEF ReleaseExclusive
    <2>2. TypeOK'
      BY <1>1, <1>3, <2>1 DEF IInv, TypeOK, queues
    <2>3. IsFiniteSet(SharedHolds') /\ is_shared' = Cardinality(SharedHolds')
      BY <1>1, <1>2, <2>1 DEF SharedHolds
    <2>4. ASSUME NEW u \in Threads PROVE Balanced(u)'
      BY <1>1, <1>2, <1>3, <1>5, <1>8, <2>1 DEF Balanced, Granted
    <2>5. exclusive_owner' # NoThread /\ is_exclusive' # 0
      BY <1>1, <2>1 DEF LockAssumption
    <2>6. NoLostWakeup'
      BY <1>1, <2>1 DEF IInv, NoLostWakeup, InQueue, queues
    <2>. QED BY <1>1, <1>7, <2>1, <2>2, <2>3, <2>4, <2>5, <2>6
  <1>9. CASE is_exclusive = 1 /\ shared_queue # {}
    <2>1. HandToReaders
      BY <1>9 DEF ReleaseExclusive
    <2>2. shared_queue \subseteq asleep /\ \A u \in shared_queue : pc[u] = "shared"
      BY Waiting DEF IInv, TypeOK
    <2>3. asleep' = asleep \ shared_queue
      BY <2>1, <2>2, NotifyWakes DEF HandToReaders, IInv
    <2>4. /\ shared_owners' = [u \in Threads |->
                                 IF u \in shared_queue THEN 1 ELSE shared_owners[u]]
          /\ is_shared' = Cardinality(shared_queue) /\ is_shared' > 0
          /\ IsFiniteSet(SharedHolds') /\ is_shared' = Cardinality(SharedHolds')
          /\ is_shared' \in Nat
      BY <1>1, <1>2, <1>9, <2>1, GrantReaders DEF HandToReaders, IInv, LockAssumption
    <2>5. /\ exclusive_owner' = NoThread /\ is_exclusive' = 0 /\ shared_queue' = {}
          /\ exclusive_queue' = exclusive_queue
      BY <2>1 DEF HandToReaders
    <2>6. TypeOK'
      BY <1>1, <1>3, <2>3, <2>4, <2>5 DEF IInv, TypeOK
    <2>7. ASSUME NEW u \in Threads PROVE Balanced(u)'
      <3>1. CASE u = t
        BY <1>1, <1>2, <1>3, <1>9, <2>3, <2>4, <2>5, <3>1 DEF Balanced, Granted, LockAssumption
      <3>2. CASE u # t /\ u \in shared_queue
        BY <1>1, <1>3, <1>5, <1>6, <2>2, <2>3, <2>4, <2>5, <3>2
           DEF Balanced, Granted, LockAssumption
      <3>3. CASE u # t /\ u \notin shared_queue
        BY <1>1, <1>2, <1>3, <1>5, <1>6, <2>2, <2>3, <2>4, <2>5, <3>3
           DEF Balanced, Granted, LockAssumption
      <3>. QED BY <3>1, <3>2, <3>3
    <2>8. NoLostWakeup'
      <3>1. is_shared' + is_exclusive' > 0
        BY <2>4, <2>5
      <3>. QED BY <1>1, <2>2, <2>3, <2>5, <3>1 DEF IInv, NoLostWakeup, InQueue
    <2>. QED BY <1>7, <2>4, <2>5, <2>6, <2>7, <2>8
  <1>10. CASE is_exclusive = 1 /\ shared_queue = {} /\ exclusive_queue # <<>>
    <2>1. HandToWriter /\ UNCHANGED <<is_shared, shared_owners>>
      BY <1>10 DEF ReleaseExclusive
    <2>2. PICK w : w = Head(exclusive_queue)
      OBVIOUS
    <2>3. /\ w \in Threads /\ w \in asleep /\ pc[w] = "exclusive"
          /\ asleep' = asleep \ {w}
          /\ exclusive_queue' \in Seq(Threads)
          /\ \A u : InQueue(u, exclusive_queue') <=> InQueue(u, exclusive_queue) /\ u # w
          /\ NoRepeats(exclusive_queue')
      BY <1>10, <2>1, <2>2, WriterServed
    <2>4. exclusive_owner' = w /\ is_exclusive' = 1 /\ shared_queue' = {}
      BY <1>10, <2>1, <2>2 DEF HandToWriter
    <2>5. TypeOK'
      BY <1>1, <1>3, <2>1, <2>3, <2>4 DEF IInv, TypeOK
    <2>6. IsFiniteSet(SharedHolds') /\ is_shared' = Cardinality(SharedHolds')
      BY <1>1, <1>2, <2>1 DEF SharedHolds
    <2>7. ASSUME NEW u \in Threads PROVE Balanced(u)'
      <3>1. CASE u = t
        BY <1>1, <1>2, <1>3, <1>10, <2>1, <2>3, <2>4, <3>1 DEF Balanced, Granted
      <3>2. CASE u = w /\ u # t
        BY <1>1, <1>2, <1>3, <1>5, <1>6, <2>1, <2>3, <2>4, <3>2 DEF Balanced, Granted
      <3>3. CASE u # t /\ u # w
        BY <1>1, <1>2, <1>3, <1>5, <1>6, <2>1, <2>3, <2>4, <3>3 DEF Balanced, Granted
      <3>. QED BY <3>1, <3>2, <3>3
    <2>8. NoLostWakeup'
      <3>1. is_shared' + is_exclusive' > 0
        BY <1>1, <2>1, <2>4
      <3>. QED BY <1>1, <1>10, <2>3, <2>4, <3>1 DEF IInv, NoLostWakeup, NoRepeats
    <2>. QED BY <1>1, <1>7, <2>1, <2>3, <2>4, <2>5, <2>6, <2>7, <2>8 DEF LockAssumption
  <1>11. CASE is_exclusive = 1 /\ shared_queue = {} /\ exclusive_queue = <<>>
    <2>1. /\ is_exclusive' = 0 /\ exclusive_owner' = NoThread
          /\ UNCHANGED <<is_shared, shared_owners, queues, asleep>>
      BY <1>11 DEF ReleaseExclusive
    <2>2. TypeOK'
      BY <1>1, <1>3, <2>1 DEF IInv, TypeOK, queues
    <2>3. IsFiniteSet(SharedHolds') /\ is_shared' = Cardinality(SharedHolds')
      BY <1>1, <1>2, <2>1 DEF SharedHolds
    <2>4. ASSUME NEW u \in Threads PROVE Balanced(u)'
      BY <1>1, <1>2, <1>3, <1>5, <1>6, <1>11, <2>1 DEF Balanced, Granted, LockAssumption
    <2>5. NoLostWakeup'
      BY <1>1, <1>11, <2>1 DEF IInv, NoLostWakeup, InQueue, queues
    <2>. QED BY <1>7, <2>1, <2>2, <2>3, <2>4, <2>5
  <1>. QED BY <1>1, <1>8, <1>9, <1>10, <1>11

LEMMA ReleaseSharedStep ==
    ASSUME LockAssumption, IInv, NEW t \in Threads, ReleaseShared(t)
    PROVE  IInv'
  <1>1. /\ pc[t] = "run" /\ t \notin asleep /\ exclusive_owner = NoThread
        /\ is_exclusive = 0 /\ is_shared \in Nat \ {0}
        /\ held[t].mode = "shared" /\ held[t].n = shared_owners[t]
        /\ shared_owners[t] \in Nat \ {0}
        /\ shared_owners' = [shared_owners EXCEPT ![t] = @ - 1]
        /\ is_shared' = is_shared - 1
        /\ Forget(t) /\ UNCHANGED <<free_waiters, n_waiters, pc, waiter>>
        /\ t \notin shared_queue /\ ~ InQueue(t, exclusive_queue)
    <2>1. /\ pc[t] = "run" /\ is_exclusive = 0 /\ is_shared > 0 /\ shared_owners[t] > 0
          /\ shared_owners' = [shared_owners EXCEPT ![t] = @ - 1]
          /\ is_shared' = is_shared - 1
          /\ Forget(t) /\ UNCHANGED <<free_waiters, n_waiters, pc, waiter>>
      BY DEF ReleaseShared
    <2>2. t \notin asleep /\ t \notin shared_queue /\ ~ InQueue(t, exclusive_queue)
      BY <2>1, Waiting
    <2>3. is_shared \in Nat \ {0} /\ shared_owners[t] \in Nat \ {0}
      BY <2>1 DEF IInv, TypeOK
    <2>4. held[t].mode = "shared" /\ held[t].n = shared_owners[t]
      BY <2>1, <2>3 DEF IInv, BooksBalance, Granted
    <2>5. exclusive_owner = NoThread
      BY <2>1 DEF IInv, BooksBalance
    <2>. QED BY <2>1, <2>2, <2>3, <2>4, <2>5
  <1>2. IsFiniteSet(SharedHolds') /\ is_shared' = Cardinality(SharedHolds')
    <2>1. TypeOK /\ IsFiniteSet(SharedHolds) /\ is_shared = Cardinality(SharedHolds)
      BY DEF IInv, BooksBalance
    <2>2. shared_owners[t] > 0
      BY <1>1
    <2>. QED BY <1>1, <2>1, <2>2, DropHold
  <1>3. /\ held' \in [Threads -> [mode : Modes, n : Nat]]
        /\ \A u \in Threads \ {t} : held'[u] = held[u]
        /\ held[t].n = 1 => held'[t].mode = "none" /\ held'[t].n = 0
        /\ held[t].n > 1 => held'[t].mode = "shared" /\ held'[t].n = held[t].n - 1
    BY <1>1, ForgetHold
  <1>4. WaitersArePrivate'
    BY <1>1, ReleaseKeepsWaiters
  <1>5. \A u \in Threads : Balanced(u)
    BY DEF IInv, BooksBalance, Balanced
  <1>6. /\ shared_owners' \in [Threads -> Nat]
        /\ \A u \in Threads \ {t} : shared_owners'[u] = shared_owners[u]
        /\ shared_owners'[t] = held[t].n - 1
    BY <1>1 DEF IInv, TypeOK
  <1>7. ASSUME TypeOK', \A u \in Threads : Balanced(u)',
               exclusive_owner' = NoThread <=> is_exclusive' = 0,
               is_exclusive' = 0 \/ is_shared' = 0, NoLostWakeup'
        PROVE  IInv'
    BY <1>2, <1>4, <1>7 DEF IInv, BooksBalance, Balanced
  <1>8. CASE is_shared = 1 /\ exclusive_queue # <<>>
    <2>1. HandToWriter
      BY <1>8 DEF ReleaseShared
    <2>2. PICK w : w = Head(exclusive_queue)
      OBVIOUS
    <2>3. /\ w \in Threads /\ w \in asleep /\ pc[w] = "exclusive"
          /\ asleep' = asleep \ {w}
          /\ exclusive_queue' \in Seq(Threads)
          /\ \A u : InQueue(u, exclusive_queue') <=> InQueue(u, exclusive_queue) /\ u # w
          /\ NoRepeats(exclusive_queue')
      BY <1>8, <2>1, <2>2, WriterServed
    <2>4. exclusive_owner' = w /\ is_exclusive' = 1 /\ shared_queue' = shared_queue
          /\ is_shared' = 0
      BY <1>1, <1>8, <2>1, <2>2 DEF HandToWriter
    <2>5. TypeOK'
      BY <1>1, <1>3, <1>6, <2>3, <2>4 DEF IInv, TypeOK
    <2>6. ASSUME NEW u \in Threads PROVE Balanced(u)'
      <3>0. u # w => ~ Granted(u, "exclusive") /\ held[u].mode # "exclusive"
        BY <1>1, <1>5 DEF Balanced, LockAssumption
      <3>1. CASE u = t
        BY <1>1, <1>3, <1>6, <2>3, <2>4, <3>1 DEF Balanced, Granted
      <3>2. CASE u = w /\ u # t
        <4>1. held[u].mode = "none" /\ held[u].n = 0
          BY <2>3, <3>2, Waiting
        <4>. QED BY <4>1, <1>1, <1>3, <1>5, <1>6, <2>3, <2>4, <3>2 DEF Balanced, Granted
      <3>3. CASE u # t /\ u # w
        BY <1>1, <1>3, <1>5, <1>6, <2>3, <2>4, <3>0, <3>3 DEF Balanced, Granted
      <3>. QED BY <3>1, <3>2, <3>3
    <2>7. NoLostWakeup'
      <3>1. is_shared' + is_exclusive' > 0
        BY <2>4
      <3>. QED BY <1>1, <2>3, <2>4, <3>1 DEF IInv, NoLostWakeup, NoRepeats
    <2>. QED BY <1>7, <2>3, <2>4, <2>5, <2>6, <2>7 DEF LockAssumption
  <1>9. CASE is_shared > 1 \/ exclusive_queue = <<>>
    <2>1. UNCHANGED <<is_exclusive, exclusive_owner, queues, asleep>>
      BY <1>1, <1>9 DEF ReleaseShared, IInv, TypeOK
    <2>2. TypeOK'
      BY <1>1, <1>3, <1>6, <2>1 DEF IInv, TypeOK, queues
    <2>3. ASSUME NEW u \in Threads PROVE Balanced(u)'
      <3>1. CASE u = t
        BY <1>1, <1>3, <1>6, <2>1, <3>1 DEF Balanced, Granted, LockAssumption
      <3>2. CASE u # t
        BY <1>1, <1>3, <1>5, <1>6, <2>1, <3>2 DEF Balanced, Granted, LockAssumption
      <3>. QED BY <3>1, <3>2
    <2>4. NoLostWakeup'
      <3>1. exclusive_queue' # <<>> => is_shared' + is_exclusive' > 0
        BY <1>1, <1>9, <2>1 DEF queues
      <3>. QED BY <1>1, <2>1, <3>1 DEF IInv, NoLostWakeup, InQueue, queues
    <2>. QED BY <1>1, <1>7, <2>1, <2>2, <2>3, <2>4
  <1>. QED BY <1>1, <1>8, <1>9

-------------------------------------------------------------------------------
(* The theorems *)

LEMMA Start == Init => IInv
  <1>. SUFFICES ASSUME Init PROVE IInv
    OBVIOUS
  <1>1. TypeOK
    BY DEF Init, TypeOK, Unheld, Modes
  <1>2. BooksBalance
    <2>1. SharedHolds = {}
      BY DEF Init, SharedHolds
    <2>. QED BY <2>1, FS_EmptySet, LockAssumption DEF Init, BooksBalance, Granted, Unheld
  <1>3. NoLostWakeup
    BY DEF Init, NoLostWakeup, InQueue
  <1>4. WaitersArePrivate
    BY FS_CardinalityType, LockAssumption DEF Init, WaitersArePrivate
  <1>. QED BY <1>1, <1>2, <1>3, <1>4 DEF IInv

LEMMA Preserved == IInv /\ [Next]_vars => IInv'
  <1>. SUFFICES ASSUME IInv, [Next]_vars PROVE IInv'
    OBVIOUS
  <1>1. CASE UNCHANGED vars
    <2>. USE <1>1 DEF vars, lockState, queues, waiting
    <2>1. TypeOK' /\ WaitersArePrivate'
      BY DEF IInv, TypeOK, WaitersArePrivate
    <2>2. NoLostWakeup'
      BY DEF IInv, NoLostWakeup, InQueue
    <2>3. BooksBalance'
      BY DEF IInv, BooksBalance, SharedHolds, Granted
    <2>. QED BY <2>1, <2>2, <2>3 DEF IInv
  <1>2. ASSUME NEW t \in Threads, ThreadStep(t) PROVE IInv'
    <2>1. CASE AcquireShared(t)
      BY <2>1, AcquireSharedStep, LockAssumption
    <2>2. CASE QueueShared(t)
      BY <2>2, QueueSharedStep, LockAssumption
    <2>3. CASE AcquireExclusive(t)
      BY <2>3, AcquireExclusiveStep, LockAssumption
    <2>4. CASE QueueExclusive(t)
      BY <2>4, QueueExclusiveStep, LockAssumption
    <2>5. CASE Resume(t)
      BY <2>5, ResumeStep
    <2>6. CASE ReleaseExclusive(t)
      BY <2>6, ReleaseExclusiveStep, LockAssumption
    <2>7. CASE ReleaseShared(t)
      BY <2>7, ReleaseSharedStep, LockAssumption
    <2>8. CASE RefuseShared(t) \/ RefuseExclusive(t) \/ RefuseRelease(t)
      BY <2>8, <1>1 DEF RefuseShared, RefuseExclusive, RefuseRelease
    <2>. QED BY <1>2, <2>1, <2>2, <2>3, <2>4, <2>5, <2>6, <2>7, <2>8 DEF ThreadStep
  <1>. QED BY <1>1, <1>2 DEF Next

\* The four invariants hold together in every reachable state.
THEOREM Invariance == Spec => []IInv
  BY Start, Preserved, PTL DEF Spec

\* locking.py:83-149: the variables of the lock always have their types; in
\* particular no counter is ever taken below zero.
THEOREM TypeCorrect == Spec => []TypeOK
  <1>1. IInv => TypeOK
    BY DEF IInv
  <1>. QED BY <1>1, Invariance, PTL

\* locking.py:35-40: a thread that was told it holds the lock exclusively is
\* alone with it, for any number of threads and any depth of nesting.
THEOREM Exclusion == Spec => []MutualExclusion
  <1>1. IInv => MutualExclusion
    <2>. SUFFICES ASSUME IInv, NEW t \in Threads, NEW u \in Threads,
                         held[t].mode = "exclusive", held[u].mode # "none"
                  PROVE  t = u
      BY DEF MutualExclusion
    <2>1. exclusive_owner = t /\ is_shared = 0
      BY LockAssumption DEF IInv, BooksBalance
    <2>2. held[u].mode = "exclusive"
      BY <2>1, NoHolds, Waiting DEF Modes
    <2>. QED BY <2>1, <2>2 DEF IInv, BooksBalance
  <1>. QED BY <1>1, Invariance, PTL

\* locking.py:104-147: the books of the lock agree with what its callers were
\* told, whatever hand-offs are still on their way to a waking thread.
THEOREM Books == Spec => []BooksBalance
  <1>1. IInv => BooksBalance
    BY DEF IInv
  <1>. QED BY <1>1, Invariance, PTL

\* locking.py:117-147: every waiting thread is in the queue that will be
\* served, and a lock with waiting threads has a holder that will serve them.
THEOREM WakeupsKept == Spec => []NoLostWakeup
  <1>1. IInv => NoLostWakeup
    BY DEF IInv
  <1>. QED BY <1>1, Invariance, PTL

\* locking.py:187-210: recycling the conditions never lets two threads share
\* one, and there are never more conditions than threads.
THEOREM WaitersKept == Spec => []WaitersArePrivate
  <1>1. IInv => WaitersArePrivate
    BY DEF IInv
  <1>. QED BY <1>1, Invariance, PTL

\* locking.py:106-147, "By doing the handoff here we ensure fairness": while
\* writers are queued, no reader and no writer gets in ahead of its turn.
THEOREM InTurn == Spec => NoBarging
  <1>. DEFINE Turn ==
         exclusive_queue # <<>> =>
           /\ \A t \in Threads :
                shared_owners[t] = 0 /\ shared_owners'[t] > 0 => t \in shared_queue
           /\ exclusive_owner' \notin {exclusive_owner, NoThread}
                => exclusive_owner' = Head(exclusive_queue)
  <1>1. ASSUME IInv, [Next]_vars PROVE [Turn]_vars
    <2>. USE <1>1
    <2>0. SUFFICES ASSUME NEW t \in Threads, ThreadStep(t), exclusive_queue # <<>>
                   PROVE  /\ \A u \in Threads :
                               shared_owners[u] = 0 /\ shared_owners'[u] > 0 => u \in shared_queue
                          /\ exclusive_owner' \notin {exclusive_owner, NoThread}
                               => exclusive_owner' = Head(exclusive_queue)
      BY <1>1 DEF Next
    <2>a. /\ is_shared \in Nat /\ is_exclusive \in Nat
          /\ shared_owners \in [Threads -> Nat]
          /\ is_shared + is_exclusive > 0
      BY <2>0 DEF IInv, TypeOK, NoLostWakeup
    <2>1. CASE AcquireShared(t)
      BY <2>0, <2>1, <2>a DEF AcquireShared
    <2>2. CASE AcquireExclusive(t)
      BY <2>0, <2>2, <2>a DEF AcquireExclusive
    <2>3. CASE ReleaseExclusive(t)
      BY <2>0, <2>3, <2>a DEF ReleaseExclusive, HandToReaders, HandToWriter
    <2>4. CASE ReleaseShared(t)
      BY <2>0, <2>4, <2>a DEF ReleaseShared, HandToWriter
    <2>5. CASE \/ QueueShared(t) \/ RefuseShared(t) \/ QueueExclusive(t)
               \/ RefuseExclusive(t) \/ Resume(t) \/ RefuseRelease(t)
      BY <2>5, <2>a DEF QueueShared, RefuseShared, QueueExclusive, RefuseExclusive,
             Resume, RefuseRelease, lockState, vars
    <2>. QED BY <2>0, <2>1, <2>2, <2>3, <2>4, <2>5 DEF ThreadStep
  <1>. QED BY <1>1, Invariance, PTL DEF Spec, NoBarging

\* locking.py:28-49: what the callers of a lock pair see is what the abstract
\* ReadersWriters describes.  A call that waited is granted its hold, as far
\* as the caller can tell, when it returns.
THEOREM Refinement == Spec => ImplementsReadersWriters
  <1>1. Init => Abstract!Init
    BY DEF Init, Unheld, Abstract!Init, Abstract!Unheld
  <1>2. ASSUME IInv, [Next]_vars PROVE [Abstract!Next]_held
    <2>. USE <1>2
    <2>1. ASSUME UNCHANGED held PROVE [Abstract!Next]_held
      BY <2>1
    <2>2. ASSUME NEW t \in Threads, ThreadStep(t), held' # held
          PROVE  Abstract!GetShared(t) \/ Abstract!GetExclusive(t) \/ Abstract!GiveUp(t)
      <3>1. held \in [Threads -> [mode : Modes, n : Nat]] /\ MaxHold \in Nat \ {0}
        BY LockAssumption DEF IInv, TypeOK
      <3>2. ASSUME is_exclusive = 0
            PROVE  \A u \in Threads : held[u].mode # "exclusive"
        BY <3>2, LockAssumption DEF IInv, BooksBalance
      <3>3. ASSUME is_shared = 0
            PROVE  \A u \in Threads : held[u].mode # "shared"
        BY <3>3, NoHolds
      <3>4. ASSUME shared_owners[t] > 0
            PROVE  is_exclusive = 0
        <4>1. is_shared # 0
          BY <3>4, NoHolds DEF IInv, TypeOK
        <4>. QED BY <4>1 DEF IInv, BooksBalance
      <3>5. CASE AcquireShared(t)
        BY <3>1, <3>2, <3>4, <3>5 DEF AcquireShared, Abstract!GetShared
      <3>6. CASE AcquireExclusive(t)
        <4>1. is_shared = 0
          BY <3>6, LockAssumption DEF AcquireExclusive, IInv, BooksBalance
        <4>2. \A u \in Threads \ {t} : held[u].mode # "exclusive"
          BY <3>6, <3>2, LockAssumption DEF AcquireExclusive, IInv, BooksBalance
        <4>3. \A u \in Threads \ {t} : held[u].mode = "none"
          BY <3>1, <3>3, <4>1, <4>2 DEF Modes
        <4>. QED BY <3>3, <3>6, <4>1, <4>3 DEF AcquireExclusive, Abstract!GetExclusive
      <3>7. CASE Resume(t)
        <4>1. held[t] = [mode |-> "none", n |-> 0]
              /\ held' = [held EXCEPT ![t] = [mode |-> pc[t], n |-> 1]]
          BY <3>7, Waiting DEF Resume
        <4>2. CASE pc[t] = "shared"
          <5>1. shared_owners[t] > 0
            BY <3>7, <4>1, <4>2 DEF Resume, IInv, BooksBalance, Granted
          <5>. QED BY <3>1, <3>2, <3>4, <4>1, <4>2, <5>1 DEF Abstract!GetShared
        <4>3. CASE pc[t] = "exclusive"
          <5>1. exclusive_owner = t /\ is_exclusive # 0
            BY <3>7, <4>1, <4>3, LockAssumption DEF Resume, IInv, BooksBalance, Granted
          <5>2. is_shared = 0 /\ \A u \in Threads \ {t} : held[u].mode # "exclusive"
            BY <5>1 DEF IInv, BooksBalance
          <5>3. \A u \in Threads \ {t} : held[u].mode = "none"
            BY <3>1, <3>3, <5>2 DEF Modes
          <5>. QED BY <3>1, <4>1, <4>3, <5>3 DEF Abstract!GetExclusive
        <4>. QED BY <3>7, <4>2, <4>3 DEF Resume, IInv, TypeOK
      <3>8. CASE ReleaseExclusive(t) \/ ReleaseShared(t)
        <4>0. Forget(t) /\ pc[t] = "run" /\ (exclusive_owner = t \/ shared_owners[t] > 0)
          BY <3>8 DEF ReleaseExclusive, ReleaseShared
        <4>1. Forget(t) /\ held[t].mode # "none"
          BY <4>0 DEF IInv, BooksBalance, Granted
        <4>2. held[t].n > 0
          BY <3>1, <4>1 DEF IInv, BooksBalance
        <4>. QED BY <3>1, <4>1, <4>2 DEF Forget, Unheld, Abstract!GiveUp, Abstract!Unheld
      <3>9. CASE QueueShared(t) \/ QueueExclusive(t) \/ RefuseShared(t)
                 \/ RefuseExclusive(t) \/ RefuseRelease(t)
        BY <2>2, <3>9 DEF QueueShared, QueueExclusive, RefuseShared, RefuseExclusive,
                          RefuseRelease, vars
      <3>. QED BY <2>2, <3>5, <3>6, <3>7, <3>8, <3>9 DEF ThreadStep
    <2>. QED BY <1>2, <2>1, <2>2 DEF Next, Abstract!Next, vars
  <1>. QED BY <1>1, <1>2, Invariance, PTL DEF Spec, ImplementsReadersWriters, Abstract!Spec

===============================================================================
