------------------------- MODULE MetadataBackupProofs -------------------------
(***************************************************************************)
(* What holds of the metadata backup for any finite sets of books and      *)
(* threads.  That the marks persist and that a thread's job is current     *)
(* holds however many threads overlap; that no stale book is left unmarked *)
(* holds as long as one thread at a time is at work.                       *)
(***************************************************************************)
EXTENDS MetadataBackup, FiniteSetTheorems, TLAPS

-------------------------------------------------------------------------------
(* Numberings *)

\* A numbering from n on is injective, and stays below the next sequence.
LEMMA NumberingFacts ==
    ASSUME NEW S \in SUBSET Books, NEW n \in Nat, NEW f \in Numberings(S, n)
    PROVE  /\ Cardinality(S) \in Nat
           /\ f \in [S -> Nat]
           /\ \A a \in S : n <= f[a] /\ f[a] < n + Cardinality(S)
           /\ \A a, b \in S : f[a] = f[b] => a = b
  <1>1. Cardinality(S) \in Nat
    BY BackupAssumption, FS_Subset, FS_CardinalityType
  <1>2. f \in [S -> n..(n + Cardinality(S) - 1)]
        /\ \A a, b \in S : f[a] = f[b] => a = b
    BY DEF Numberings
  <1>3. \A a \in S : f[a] \in Nat /\ n <= f[a] /\ f[a] < n + Cardinality(S)
    BY <1>1, <1>2
  <1>. QED BY <1>1, <1>2, <1>3

\* What mark_as_dirty() and initialize_dynamic() leave of the marks: a fresh
\* sequence for every book of S, the other marks as they were.
Remarks(S) ==
    /\ dirtied_sequence' \in Nat /\ dirtied_sequence <= dirtied_sequence'
    /\ dirtied_cache' \in [Books -> Sequences]
    /\ \A b \in S : /\ dirtied_cache'[b] \in Nat
                    /\ dirtied_sequence <= dirtied_cache'[b]
                    /\ dirtied_cache'[b] < dirtied_sequence'
    /\ \A a, b \in S : dirtied_cache'[a] = dirtied_cache'[b] => a = b
    /\ \A b \in Books \ S : dirtied_cache'[b] = dirtied_cache[b]

LEMMA MarkAsDirtyRemarks ==
    ASSUME TypeOK, MarkAsDirty
    PROVE  Remarks(changing)
  <1>. DEFINE old == {b \in changing : Marked(b)}
              new == changing \ old
              next == dirtied_sequence + Cardinality(old)
  <1>1. PICK m \in Numberings(old, dirtied_sequence), n \in Numberings(new, next) :
           dirtied_cache' = [b \in Books |-> IF b \in old THEN m[b]
                                             ELSE IF b \in new THEN n[b]
                                             ELSE dirtied_cache[b]]
    BY DEF MarkAsDirty
  <1>2. dirtied_sequence' = next + Cardinality(new)
    BY DEF MarkAsDirty
  <1>3. /\ old \in SUBSET Books /\ new \in SUBSET Books /\ dirtied_sequence \in Nat
        /\ changing \in SUBSET Books /\ dirtied_cache \in [Books -> Sequences]
        /\ changing = old \cup new
        /\ \A b \in new : b \notin old
        /\ \A b \in Books \ changing : b \notin old /\ b \notin new
    BY DEF TypeOK
  <1>. HIDE DEF old, new, next
  <1>4. /\ Cardinality(old) \in Nat /\ m \in [old -> Nat]
        /\ \A a \in old : dirtied_sequence <= m[a] /\ m[a] < dirtied_sequence + Cardinality(old)
        /\ \A a, b \in old : m[a] = m[b] => a = b
    BY <1>1, <1>3, NumberingFacts
  <1>5. next \in Nat /\ next = dirtied_sequence + Cardinality(old)
    BY <1>3, <1>4 DEF next
  <1>6. /\ Cardinality(new) \in Nat /\ n \in [new -> Nat]
        /\ \A a \in new : next <= n[a] /\ n[a] < next + Cardinality(new)
        /\ \A a, b \in new : n[a] = n[b] => a = b
    <2>1. new \in SUBSET Books /\ n \in Numberings(new, next)
      BY <1>1, <1>3
    <2>. QED BY <1>5, <2>1, NumberingFacts
  <1>7. \A b \in old : dirtied_cache'[b] = m[b]
    BY <1>1, <1>3
  <1>8. \A b \in new : dirtied_cache'[b] = n[b]
    BY <1>1, <1>3
  <1>9. \A b \in Books \ changing : dirtied_cache'[b] = dirtied_cache[b]
    BY <1>1, <1>3
  <1>11. dirtied_sequence' \in Nat /\ dirtied_sequence <= dirtied_sequence'
    BY <1>2, <1>3, <1>4, <1>5, <1>6
  <1>12. \A b \in changing : /\ dirtied_cache'[b] \in Nat
                             /\ dirtied_sequence <= dirtied_cache'[b]
                             /\ dirtied_cache'[b] < dirtied_sequence'
    BY <1>2, <1>3, <1>4, <1>5, <1>6, <1>7, <1>8
  <1>13. \A a, b \in changing : dirtied_cache'[a] = dirtied_cache'[b] => a = b
    BY <1>3, <1>4, <1>5, <1>6, <1>7, <1>8
  <1>14. dirtied_cache' \in [Books -> Sequences]
    BY <1>1, <1>3, <1>4, <1>6 DEF Sequences
  <1>. QED BY <1>3, <1>4, <1>9, <1>11, <1>12, <1>13, <1>14 DEF Remarks

\* What a mark_as_dirty() that fails leaves: books of S, dirty already, have a
\* fresh sequence, and the other books that were changing are given up.
LEMMA MarkFailsRemarks ==
    ASSUME TypeOK, MarkFails
    PROVE  \E S \in SUBSET {b \in changing : Marked(b)} :
              /\ Remarks(S)
              /\ abandoned' \in [Books -> SUBSET Nat]
              /\ \A b \in Books : abandoned[b] \subseteq abandoned'[b]
              /\ \A b \in changing \ S : version[b] \in abandoned'[b]
  <1>. DEFINE old == {b \in changing : Marked(b)}
              new == changing \ old
  <1>1. /\ old \in SUBSET Books /\ new \in SUBSET Books /\ changing \in SUBSET Books
        /\ dirtied_sequence \in Nat /\ dirtied_cache \in [Books -> Sequences]
        /\ {} \in SUBSET old /\ old \in SUBSET old
    BY DEF TypeOK
  <1>2. ASSUME NEW T \in SUBSET Books, GivenUp(T)
        PROVE  /\ abandoned' \in [Books -> SUBSET Nat]
               /\ \A b \in Books : abandoned[b] \subseteq abandoned'[b]
               /\ \A b \in T : version[b] \in abandoned'[b]
    BY <1>2 DEF GivenUp, TypeOK
  <1>3. CASE GivenUp(changing) /\ UNCHANGED <<dirtied_cache, dirtied_sequence>>
    <2>1. Remarks({})
      BY <1>1, <1>3 DEF Remarks
    <2>. QED BY <1>1, <1>2, <1>3, <2>1
  <1>4. CASE /\ new # {} /\ GivenUp(new)
             /\ \E m \in Numberings(old, dirtied_sequence) :
                   dirtied_cache' = [b \in Books |-> IF b \in old THEN m[b]
                                                     ELSE dirtied_cache[b]]
             /\ dirtied_sequence' = dirtied_sequence + Cardinality(old)
    <2>1. PICK m \in Numberings(old, dirtied_sequence) :
              dirtied_cache' = [b \in Books |-> IF b \in old THEN m[b] ELSE dirtied_cache[b]]
      BY <1>4
    <2>2. new = changing \ old
      OBVIOUS
    <2>. HIDE DEF old, new
    <2>3. /\ Cardinality(old) \in Nat /\ m \in [old -> Nat]
          /\ \A a \in old : /\ dirtied_sequence <= m[a]
                             /\ m[a] < dirtied_sequence + Cardinality(old)
          /\ \A a, b \in old : m[a] = m[b] => a = b
      BY <1>1, <2>1, NumberingFacts
    <2>4. dirtied_cache' \in [Books -> Sequences]
      BY <1>1, <2>1, <2>3 DEF Sequences
    <2>5. Remarks(old)
      BY <1>1, <1>4, <2>1, <2>3, <2>4 DEF Remarks
    <2>6. /\ abandoned' \in [Books -> SUBSET Nat]
          /\ \A b \in Books : abandoned[b] \subseteq abandoned'[b]
          /\ \A b \in changing \ old : version[b] \in abandoned'[b]
      BY <1>1, <1>2, <1>4, <2>2
    <2>. QED BY <1>1, <2>5, <2>6 DEF old
  <1>. QED BY <1>3, <1>4 DEF MarkFails

-------------------------------------------------------------------------------
(* The inductive invariant for any number of threads at once *)

Carrying(w) == pc[w] \in {"convert", "write", "clear"}

\* A thread that works on a book has taken one; metadata comes with the
\* sequence of its mark, and every sequence a thread holds has been given out.
JobsMade ==
    \A w \in Workers :
        LET j == job[w] IN
        /\ pc[w] = "fetch" \/ Carrying(w) => j.book \in Books
        /\ pc[w] \in {"convert", "write"} => j.mi # None
        /\ pc[w] = "fetch" => j.mi = None
        /\ j.mi # None => j.sequence # None
        /\ j.sequence # None => j.sequence < dirtied_sequence

IInv == MarksPersist /\ JobsMade /\ JobIsCurrent

LEMMA InitIInv == Init => IInv
  <1>. SUFFICES ASSUME Init PROVE IInv
    OBVIOUS
  <1>1. TypeOK
    BY BackupAssumption DEF Init, TypeOK, Sequences, NoJob
  <1>2. MarksPersist
    BY <1>1 DEF Init, MarksPersist, Marked
  <1>3. JobsMade /\ JobIsCurrent
    BY DEF Init, JobsMade, JobIsCurrent, Carrying, NoJob
  <1>. QED BY <1>2, <1>3 DEF IInv

\* Giving up more of one book's metadata keeps what had been given up.
LEMMA GiveUp ==
    ASSUME TypeOK, NEW b \in Books, NEW v \in Nat,
           abandoned' = [abandoned EXCEPT ![b] = @ \cup {v}]
    PROVE  /\ abandoned' \in [Books -> SUBSET Nat]
           /\ \A a \in Books : abandoned[a] \subseteq abandoned'[a]
           /\ v \in abandoned'[b]
  <1>1. abandoned[b] \cup {v} \in SUBSET Nat
    BY DEF TypeOK
  <1>. QED BY <1>1 DEF TypeOK

LEMMA GotoTypes ==
    ASSUME TypeOK, NEW w \in Workers, NEW wait \in BOOLEAN,
           NEW l \in {"off", "pick", "fetch", "convert", "write", "clear", "ended"},
           Goto(w, l, wait)
    PROVE  /\ pc' \in [Workers -> {"off", "pick", "fetch", "convert", "write", "clear", "ended"}]
           /\ waiting' \in [Workers -> BOOLEAN]
           /\ pc'[w] = l
           /\ \A v \in Workers \ {w} : pc'[v] = pc[v]
  BY DEF Goto, TypeOK

\* A call that raised is made again, or the thread goes back to picking.
LEMMA RetryTypes ==
    ASSUME TypeOK, NEW w \in Workers, Retry(w)
    PROVE  /\ pc' \in [Workers -> {"off", "pick", "fetch", "convert", "write", "clear", "ended"}]
           /\ waiting' \in [Workers -> BOOLEAN] /\ tries' \in [Workers -> 0..2]
           /\ pc'[w] \in {pc[w], "pick"}
           /\ \A v \in Workers \ {w} : pc'[v] = pc[v]
  <1>1. CASE /\ tries' = [tries EXCEPT ![w] = 2]
             /\ waiting' = [waiting EXCEPT ![w] = TRUE]
             /\ UNCHANGED pc
    BY <1>1 DEF TypeOK
  <1>2. CASE Goto(w, "pick", TRUE) /\ UNCHANGED tries
    BY <1>2, GotoTypes DEF TypeOK
  <1>. QED BY <1>1, <1>2 DEF Retry

LEMMA NextIInv == IInv /\ [Next]_vars => IInv'
  <1>. SUFFICES ASSUME IInv, [Next]_vars PROVE IInv'
    OBVIOUS
  <1>. USE BackupAssumption DEF Marked, Carrying, Sequences, library, marks, thread
  <1>0. MarksPersist /\ TypeOK /\ JobsMade /\ JobIsCurrent
    BY DEF IInv, MarksPersist
  <1>1. ASSUME NEW S \in SUBSET Books, WriteField(S) PROVE IInv'
    <2>1. MarksPersist'
      BY <1>0, <1>1 DEF WriteField, MarksPersist, TypeOK
    <2>2. JobsMade'
      BY <1>0, <1>1 DEF WriteField, JobsMade, TypeOK
    <2>3. JobIsCurrent'
      BY <1>0, <1>1 DEF WriteField, Unlocked, JobIsCurrent, JobsMade, TypeOK
    <2>. QED BY <2>1, <2>2, <2>3 DEF IInv
  <1>2. ASSUME NEW S \in SUBSET Books, RemoveBooks(S) PROVE IInv'
    <2>1. MarksPersist'
      BY <1>0, <1>2 DEF RemoveBooks, MarksPersist, TypeOK
    <2>2. JobsMade'
      BY <1>0, <1>2 DEF RemoveBooks, JobsMade, TypeOK
    <2>3. JobIsCurrent'
      BY <1>0, <1>2 DEF RemoveBooks, JobIsCurrent, JobsMade, MarksPersist, TypeOK
    <2>. QED BY <2>1, <2>2, <2>3 DEF IInv
  <1>3. ASSUME MarkAsDirty PROVE IInv'
    <2>0. /\ Remarks(changing) /\ changing' = {}
          /\ metadata_dirtied' = metadata_dirtied \cup {b \in changing : ~ Marked(b)}
          /\ UNCHANGED <<live, version, opf, worker, stop_running, thread, abandoned>>
      BY <1>0, <1>3, MarkAsDirtyRemarks DEF MarkAsDirty
    <2>1. MarksPersist'
      <3>1. TypeOK'
        BY <1>0, <2>0 DEF Remarks, TypeOK
      <3>2. \A b \in Books : Marked(b)' <=> b \in metadata_dirtied'
        BY <1>0, <2>0 DEF Remarks, TypeOK, MarksPersist
      <3>3. \A b \in Books : Marked(b)' => dirtied_cache'[b] < dirtied_sequence'
        BY <1>0, <2>0 DEF Remarks, TypeOK, MarksPersist
      <3>4. \A a, b \in Books : Marked(a)' /\ dirtied_cache'[a] = dirtied_cache'[b] => a = b
        BY <1>0, <2>0 DEF Remarks, TypeOK, MarksPersist
      <3>. QED BY <3>1, <3>2, <3>3, <3>4 DEF MarksPersist
    <2>2. JobsMade'
      BY <1>0, <2>0 DEF Remarks, JobsMade, TypeOK
    <2>3. JobIsCurrent'
      BY <1>0, <2>0 DEF Remarks, JobIsCurrent, JobsMade, TypeOK
    <2>. QED BY <2>1, <2>2, <2>3 DEF IInv
  <1>4. ASSUME MarkFails PROVE IInv'
    <2>0. PICK S \in SUBSET {b \in changing : Marked(b)} :
              /\ Remarks(S) /\ abandoned' \in [Books -> SUBSET Nat]
              /\ \A b \in Books : abandoned[b] \subseteq abandoned'[b]
              /\ \A b \in changing \ S : version[b] \in abandoned'[b]
      BY <1>0, <1>4, MarkFailsRemarks
    <2>a. /\ changing' = {}
          /\ UNCHANGED <<live, version, opf, metadata_dirtied, worker, stop_running, thread>>
      BY <1>4 DEF MarkFails
    <2>1. MarksPersist'
      <3>1. TypeOK'
        BY <1>0, <2>0, <2>a DEF Remarks, TypeOK
      <3>2. \A b \in Books : Marked(b)' <=> b \in metadata_dirtied'
        BY <1>0, <2>0, <2>a DEF Remarks, TypeOK, MarksPersist
      <3>3. \A b \in Books : Marked(b)' => dirtied_cache'[b] < dirtied_sequence'
        BY <1>0, <2>0, <2>a DEF Remarks, TypeOK, MarksPersist
      <3>4. \A a, b \in Books : Marked(a)' /\ dirtied_cache'[a] = dirtied_cache'[b] => a = b
        BY <1>0, <2>0, <2>a DEF Remarks, TypeOK, MarksPersist
      <3>. QED BY <3>1, <3>2, <3>3, <3>4 DEF MarksPersist
    <2>2. JobsMade'
      BY <1>0, <2>0, <2>a DEF Remarks, JobsMade, TypeOK
    <2>3. JobIsCurrent'
      BY <1>0, <2>0, <2>a DEF Remarks, JobIsCurrent, JobsMade, TypeOK
    <2>. QED BY <2>1, <2>2, <2>3 DEF IInv
  <1>5. ASSUME CommitDirtyCache PROVE IInv'
    <2>1. MarksPersist'
      BY <1>0, <1>5 DEF CommitDirtyCache, MarksPersist, TypeOK
    <2>2. JobsMade'
      BY <1>0, <1>5 DEF CommitDirtyCache, JobsMade, TypeOK
    <2>3. JobIsCurrent'
      BY <1>0, <1>5 DEF CommitDirtyCache, JobIsCurrent, JobsMade, MarksPersist, TypeOK
    <2>. QED BY <2>1, <2>2, <2>3 DEF IInv
  <1>6. ASSUME DumpMetadata PROVE IInv'
    <2>1. MarksPersist'
      BY <1>0, <1>6 DEF DumpMetadata, MarksPersist, TypeOK
    <2>2. JobsMade'
      BY <1>0, <1>6 DEF DumpMetadata, JobsMade, TypeOK
    <2>3. JobIsCurrent'
      <3>1. /\ UNCHANGED <<version, changing, abandoned, pc, job>>
            /\ \A b \in Books : dirtied_cache'[b] \in {None, dirtied_cache[b]}
        BY <1>0, <1>6 DEF DumpMetadata, MarksPersist, TypeOK
      <3>. QED BY <1>0, <3>1 DEF JobIsCurrent, JobsMade, Carrying
    <2>. QED BY <2>1, <2>2, <2>3 DEF IInv
  <1>7. ASSUME Stop PROVE IInv'
    <2>1. MarksPersist'
      BY <1>0, <1>7 DEF Stop, MarksPersist, TypeOK
    <2>2. JobsMade'
      BY <1>0, <1>7 DEF Stop, JobsMade, TypeOK
    <2>3. JobIsCurrent'
      BY <1>0, <1>7 DEF Stop, JobIsCurrent, JobsMade, MarksPersist, TypeOK
    <2>. QED BY <2>1, <2>2, <2>3 DEF IInv
  <1>8. ASSUME Restart PROVE IInv'
    <2>0. PICK n \in Numberings(metadata_dirtied, 0) :
             dirtied_cache' = [b \in Books |-> IF b \in metadata_dirtied THEN n[b] ELSE None]
      BY <1>8 DEF Restart
    <2>a. metadata_dirtied \in SUBSET Books
      BY <1>0 DEF TypeOK
    <2>01. /\ Cardinality(metadata_dirtied) \in Nat /\ n \in [metadata_dirtied -> Nat]
           /\ \A b \in metadata_dirtied : n[b] < Cardinality(metadata_dirtied)
           /\ \A a, b \in metadata_dirtied : n[a] = n[b] => a = b
      <3>1. 0 \in Nat /\ n \in Numberings(metadata_dirtied, 0)
        OBVIOUS
      <3>2. /\ Cardinality(metadata_dirtied) \in Nat /\ n \in [metadata_dirtied -> Nat]
            /\ \A b \in metadata_dirtied : n[b] < 0 + Cardinality(metadata_dirtied)
            /\ \A a, b \in metadata_dirtied : n[a] = n[b] => a = b
        BY ONLY <2>a, <3>1, NumberingFacts
      <3>. QED BY <3>2
    <2>1. MarksPersist'
      <3>1. TypeOK'
        <4>1. opf' \in [Books -> Nat]
          BY <1>0, <1>8 DEF Restart, TypeOK
        <4>2. abandoned' \in [Books -> SUBSET Nat]
          BY <1>0, <1>8 DEF Restart, GivenUp, TypeOK
        <4>3. job' \in [Workers -> [book : Books \cup {None}, mi : Nat \cup {None},
                                    sequence : Sequences]]
          BY <1>8 DEF Restart, NoJob
        <4>4. dirtied_cache' \in [Books -> Sequences] /\ dirtied_sequence' \in Nat
          BY <1>8, <2>0, <2>01 DEF Restart
        <4>. QED BY <1>0, <1>8, <4>1, <4>2, <4>3, <4>4 DEF Restart, TypeOK
      <3>2. \A b \in Books : Marked(b)' <=> b \in metadata_dirtied'
        BY <1>8, <2>0, <2>01 DEF Restart
      <3>3. \A b \in Books : Marked(b)' => dirtied_cache'[b] < dirtied_sequence'
        BY <1>8, <2>0, <2>01 DEF Restart
      <3>4. \A a, b \in Books : Marked(a)' /\ dirtied_cache'[a] = dirtied_cache'[b] => a = b
        BY <1>8, <2>0, <2>01 DEF Restart
      <3>. QED BY <3>1, <3>2, <3>3, <3>4 DEF MarksPersist
    <2>2. JobsMade'
      BY <1>8 DEF Restart, JobsMade, NoJob
    <2>3. JobIsCurrent'
      BY <1>0, <1>8 DEF Restart, JobIsCurrent, JobsMade, MarksPersist, TypeOK
    <2>. QED BY <2>1, <2>2, <2>3 DEF IInv
  <1>9. ASSUME NEW w \in Workers, Start(w) PROVE IInv'
    <2>1. MarksPersist'
      BY <1>0, <1>9 DEF Start, MarksPersist, TypeOK
    <2>2. JobsMade'
      BY <1>0, <1>9 DEF Start, JobsMade, TypeOK
    <2>3. JobIsCurrent'
      BY <1>0, <1>9 DEF Start, JobIsCurrent, JobsMade, MarksPersist, TypeOK
    <2>. QED BY <2>1, <2>2, <2>3 DEF IInv
  <1>10. ASSUME NEW w \in Workers, Wait(w) PROVE IInv'
    <2>1. MarksPersist'
      BY <1>0, <1>10 DEF Wait, MarksPersist, TypeOK
    <2>2. JobsMade'
      BY <1>0, <1>10 DEF Wait, JobsMade, TypeOK
    <2>3. JobIsCurrent'
      BY <1>0, <1>10 DEF Wait, JobIsCurrent, JobsMade, MarksPersist, TypeOK
    <2>. QED BY <2>1, <2>2, <2>3 DEF IInv
  <1>11. ASSUME NEW w \in Workers, PickNothing(w) PROVE IInv'
    <2>1. MarksPersist'
      BY <1>0, <1>11 DEF PickNothing, Calls, Goto, MarksPersist, TypeOK
    <2>2. JobsMade'
      BY <1>0, <1>11 DEF PickNothing, Calls, Goto, JobsMade, TypeOK
    <2>3. JobIsCurrent'
      BY <1>0, <1>11 DEF PickNothing, Calls, Goto, JobIsCurrent, JobsMade, MarksPersist, TypeOK
    <2>. QED BY <2>1, <2>2, <2>3 DEF IInv
  <1>12. ASSUME NEW w \in Workers, NEW b \in Books, Pick(w, b) PROVE IInv'
    <2>1. MarksPersist'
      BY <1>0, <1>12 DEF Pick, Calls, Goto, MarksPersist, TypeOK
    <2>2. JobsMade'
      BY <1>0, <1>12 DEF Pick, Calls, Goto, JobsMade, TypeOK
    <2>3. JobIsCurrent'
      BY <1>0, <1>12 DEF Pick, Calls, Goto, JobIsCurrent, JobsMade, MarksPersist, TypeOK
    <2>. QED BY <2>1, <2>2, <2>3 DEF IInv
  <1>13. ASSUME NEW w \in Workers, Fetch(w) PROVE IInv'
    <2>. DEFINE b == job[w].book
    <2>0. /\ pc[w] = "fetch" /\ b \in Books /\ version[b] \in Nat
          /\ job[w] \in [book : Books \cup {None}, mi : Nat \cup {None},
                         sequence : Sequences]
          /\ dirtied_cache[b] \in Sequences
      BY <1>0, <1>13 DEF Fetch, Calls, JobsMade, TypeOK
    <2>1. /\ UNCHANGED <<library, opf, marks, worker, stop_running, tries>>
          /\ waiting' \in [Workers -> BOOLEAN]
      BY <1>0, <1>13 DEF Fetch, Goto, TypeOK
    <2>2. CASE /\ Marked(b) /\ UNCHANGED abandoned
               /\ pc' = [pc EXCEPT ![w] = "convert"]
               /\ job' = [job EXCEPT ![w] = [book |-> b, mi |-> version[b],
                                            sequence |-> dirtied_cache[b]]]
      <3>1. MarksPersist'
        BY <1>0, <2>0, <2>1, <2>2 DEF MarksPersist, TypeOK
      <3>2. JobsMade'
        BY <1>0, <2>0, <2>1, <2>2 DEF JobsMade, MarksPersist, TypeOK
      <3>3. JobIsCurrent'
        BY <1>0, <2>0, <2>1, <2>2 DEF JobIsCurrent, JobsMade, TypeOK
      <3>. QED BY <3>1, <3>2, <3>3 DEF IInv
    <2>3. CASE /\ abandoned' = abandoned
                  \/ abandoned' = [abandoned EXCEPT ![b] = @ \cup {version[b]}]
               /\ Goto(w, "clear", FALSE)
               /\ job' = [job EXCEPT ![w].sequence = dirtied_cache[b]]
               /\ Marked(b) \/ ~ (Marked(b) /\ b \in live)
      <3>0. /\ abandoned' \in [Books -> SUBSET Nat]
            /\ \A a \in Books : abandoned[a] \subseteq abandoned'[a]
        BY <1>0, <2>0, <2>3, GiveUp DEF TypeOK
      <3>a. job' = [job EXCEPT ![w] = [@ EXCEPT !.sequence = dirtied_cache[b]]]
        BY <2>3
      <3>b. [job[w] EXCEPT !.sequence = dirtied_cache[b]]
                = [book |-> b, mi |-> job[w].mi, sequence |-> dirtied_cache[b]]
        BY <2>0
      <3>c. job' = [job EXCEPT ![w] = [book |-> b, mi |-> job[w].mi,
                                       sequence |-> dirtied_cache[b]]]
        BY <3>a, <3>b
      <3>d. job[w].mi = None
        BY <1>0, <2>0 DEF JobsMade
      <3>e. /\ pc' \in [Workers -> {"off", "pick", "fetch", "convert", "write", "clear", "ended"}]
            /\ pc'[w] = "clear"
            /\ \A v \in Workers \ {w} : pc'[v] = pc[v]
        BY <1>0, <2>3, GotoTypes
      <3>1. MarksPersist'
        <4>1. job' \in [Workers -> [book : Books \cup {None}, mi : Nat \cup {None},
                                    sequence : Sequences]]
          BY <1>0, <2>0, <3>c, <3>d DEF TypeOK
        <4>. QED BY <1>0, <2>1, <3>0, <3>e, <4>1 DEF MarksPersist, TypeOK
      <3>2. JobsMade'
        BY <1>0, <2>0, <2>1, <3>c, <3>d, <3>e DEF JobsMade, MarksPersist, TypeOK
      <3>3. JobIsCurrent'
        BY <1>0, <2>0, <2>1, <3>0, <3>c, <3>d, <3>e DEF JobIsCurrent, JobsMade, TypeOK
      <3>. QED BY <3>1, <3>2, <3>3 DEF IInv
    <2>. QED BY <1>13, <2>2, <2>3 DEF Fetch, Goto
  <1>14. ASSUME NEW w \in Workers, FetchFails(w) PROVE IInv'
    <2>1. MarksPersist'
      <3>1. TypeOK'
        BY <1>0, <1>14, RetryTypes DEF FetchFails, TypeOK
      <3>. QED BY <1>0, <1>14, <3>1 DEF FetchFails, MarksPersist
    <2>2. JobsMade'
      BY <1>0, <1>14 DEF FetchFails, Calls, Retry, Goto, JobsMade, TypeOK
    <2>3. JobIsCurrent'
      BY <1>0, <1>14 DEF FetchFails, Calls, Retry, Goto, JobIsCurrent, JobsMade, MarksPersist, TypeOK
    <2>. QED BY <2>1, <2>2, <2>3 DEF IInv
  <1>15. ASSUME NEW w \in Workers, Convert(w) PROVE IInv'
    <2>0. pc[w] = "convert" /\ job[w].book \in Books /\ job[w].mi \in Nat
      BY <1>0, <1>15 DEF Convert, JobsMade, TypeOK
    <2>1. /\ UNCHANGED <<library, opf, marks, worker, stop_running, job>>
          /\ tries' \in [Workers -> 0..2]
      BY <1>0, <1>15 DEF Convert, TypeOK
    <2>2. CASE Goto(w, "write", TRUE) /\ UNCHANGED abandoned
      <3>1. MarksPersist'
        BY <1>0, <2>1, <2>2, GotoTypes DEF MarksPersist, TypeOK
      <3>2. JobsMade'
        BY <1>0, <2>0, <2>1, <2>2, GotoTypes DEF JobsMade
      <3>3. JobIsCurrent'
        BY <1>0, <2>0, <2>1, <2>2, GotoTypes DEF JobIsCurrent
      <3>. QED BY <3>1, <3>2, <3>3 DEF IInv
    <2>3. CASE /\ Goto(w, "clear", FALSE)
               /\ abandoned' = [abandoned EXCEPT ![job[w].book] = @ \cup {job[w].mi}]
      <3>0. /\ abandoned' \in [Books -> SUBSET Nat]
            /\ \A a \in Books : abandoned[a] \subseteq abandoned'[a]
        BY <1>0, <2>0, <2>3, GiveUp
      <3>9. \A v \in Workers : Carrying(v)' <=> Carrying(v)
        BY <1>0, <2>0, <2>3, GotoTypes
      <3>1. MarksPersist'
        BY <1>0, <2>1, <2>3, <3>0, GotoTypes DEF MarksPersist, TypeOK
      <3>2. JobsMade'
        BY <1>0, <2>0, <2>1, <2>3, GotoTypes DEF JobsMade
      <3>3. JobIsCurrent'
        BY <1>0, <2>0, <2>1, <3>0, <3>9 DEF JobIsCurrent, JobsMade
      <3>. QED BY <3>1, <3>2, <3>3 DEF IInv
    <2>. QED BY <1>15, <2>2, <2>3 DEF Convert
  <1>16. ASSUME NEW w \in Workers, Write(w) PROVE IInv'
    <2>1. MarksPersist'
      BY <1>0, <1>16 DEF Write, Calls, Goto, JobsMade, MarksPersist, TypeOK
    <2>2. JobsMade'
      BY <1>0, <1>16 DEF Write, Calls, Goto, JobsMade, TypeOK
    <2>3. JobIsCurrent'
      BY <1>0, <1>16 DEF Write, Calls, Goto, JobIsCurrent, JobsMade, MarksPersist, TypeOK
    <2>. QED BY <2>1, <2>2, <2>3 DEF IInv
  <1>17. ASSUME NEW w \in Workers, WriteFails(w) PROVE IInv'
    <2>1. MarksPersist'
      <3>1. TypeOK'
        BY <1>0, <1>17, RetryTypes DEF WriteFails, Calls, JobsMade, TypeOK
      <3>. QED BY <1>0, <1>17, <3>1 DEF WriteFails, MarksPersist
    <2>2. JobsMade'
      BY <1>0, <1>17 DEF WriteFails, Calls, Retry, Goto, JobsMade, TypeOK
    <2>3. JobIsCurrent'
      <3>1. \A v \in Workers : pc'[v] = pc[v] \/ pc'[v] = "pick"
        BY <1>0, <1>17 DEF WriteFails, Retry, Goto, JobsMade, TypeOK
      <3>2. UNCHANGED <<library, marks, job, abandoned>>
        BY <1>17 DEF WriteFails
      <3>. QED BY <1>0, <3>1, <3>2 DEF JobIsCurrent, library, marks
    <2>. QED BY <2>1, <2>2, <2>3 DEF IInv
  <1>18. ASSUME NEW w \in Workers, Clear(w) PROVE IInv'
    <2>1. MarksPersist'
      BY <1>0, <1>18 DEF Clear, Calls, Goto, MarksPersist, TypeOK
    <2>2. JobsMade'
      BY <1>0, <1>18 DEF Clear, Calls, Goto, JobsMade, TypeOK
    <2>3. JobIsCurrent'
      BY <1>0, <1>18 DEF Clear, Calls, Goto, JobIsCurrent, JobsMade, MarksPersist, TypeOK
    <2>. QED BY <2>1, <2>2, <2>3 DEF IInv
  <1>19. ASSUME NEW w \in Workers, ClearFails(w) PROVE IInv'
    <2>1. MarksPersist'
      BY <1>0, <1>19 DEF ClearFails, Calls, Goto, MarksPersist, TypeOK
    <2>2. JobsMade'
      BY <1>0, <1>19 DEF ClearFails, Calls, Goto, JobsMade, TypeOK
    <2>3. JobIsCurrent'
      BY <1>0, <1>19 DEF ClearFails, Calls, Goto, JobIsCurrent, JobsMade, MarksPersist, TypeOK
    <2>. QED BY <2>1, <2>2, <2>3 DEF IInv
  <1>20. CASE UNCHANGED vars
    BY <1>0, <1>20 DEF vars, IInv, MarksPersist, TypeOK, JobsMade, JobIsCurrent
  <1>. QED BY <1>1, <1>2, <1>3, <1>4, <1>5, <1>6, <1>7, <1>8, <1>9, <1>10, <1>11, <1>12, <1>13, <1>14, <1>15, <1>16, <1>17, <1>18, <1>19, <1>20 DEF Next, Step

-------------------------------------------------------------------------------
(* What needs the threads to be at work one at a time *)

AtWork(w) == pc[w] \notin {"off", "ended"}

\* start_metadata_backup() does not wait until the thread before has ended;
\* this says that it had.
OneAtATime == \A v, w \in Workers : AtWork(v) /\ AtWork(w) => v = w

\* Nobody but the thread itself clears the mark of the book it works on.
MarkKept ==
    \A w \in Workers :
        /\ AtWork(w) => worker # None
        /\ pc[w] = "fetch" \/ Carrying(w) => Marked(job[w].book)
        /\ Carrying(w) => job[w].sequence # None

\* The mark a thread is about to clear is of no more use.
ClearIsDue ==
    \A w \in Workers :
        LET b == job[w].book IN
        pc[w] = "clear" /\ dirtied_cache[b] = job[w].sequence
            => opf[b] = version[b] \/ b \in changing \/ version[b] \in abandoned[b]
               \/ b \notin live

AloneInv == MarkKept /\ ClearIsDue /\ StaleIsMarked

LEMMA InitAlone == Init => AloneInv
  BY DEF Init, AloneInv, MarkKept, ClearIsDue, StaleIsMarked, AtWork, Carrying

LEMMA NextAlone ==
    IInv /\ IInv' /\ AloneInv /\ OneAtATime /\ OneAtATime' /\ [Next]_vars => AloneInv'
  <1>. SUFFICES ASSUME IInv, IInv', AloneInv, OneAtATime, OneAtATime', [Next]_vars
                PROVE  AloneInv'
    OBVIOUS
  <1>. USE BackupAssumption DEF Marked, Carrying, AtWork, Sequences, library, marks, thread
  <1>0. /\ MarksPersist /\ TypeOK /\ JobsMade /\ JobIsCurrent
        /\ MarkKept /\ ClearIsDue /\ StaleIsMarked
    BY DEF IInv, MarksPersist, AloneInv
  <1>00. TypeOK' /\ MarksPersist' /\ JobsMade' /\ JobIsCurrent'
    BY DEF IInv, MarksPersist
  <1>1. ASSUME NEW S \in SUBSET Books, WriteField(S) PROVE AloneInv'
    <2>1. MarkKept'
      BY <1>0, <1>00, <1>1 DEF WriteField, Unlocked, MarkKept, OneAtATime, JobsMade, TypeOK
    <2>2. ClearIsDue'
      BY <1>0, <1>00, <1>1 DEF WriteField, Unlocked, ClearIsDue, JobsMade, TypeOK
    <2>3. StaleIsMarked'
      BY <1>0, <1>00, <1>1 DEF WriteField, Unlocked, StaleIsMarked, TypeOK
    <2>. QED BY <2>1, <2>2, <2>3 DEF AloneInv
  <1>2. ASSUME NEW S \in SUBSET Books, RemoveBooks(S) PROVE AloneInv'
    <2>1. MarkKept'
      BY <1>0, <1>00, <1>2 DEF RemoveBooks, MarkKept, OneAtATime, JobsMade, TypeOK
    <2>2. ClearIsDue'
      BY <1>0, <1>00, <1>2 DEF RemoveBooks, ClearIsDue, JobsMade, TypeOK
    <2>3. StaleIsMarked'
      BY <1>0, <1>00, <1>2 DEF RemoveBooks, StaleIsMarked, TypeOK
    <2>. QED BY <2>1, <2>2, <2>3 DEF AloneInv
  <1>3. ASSUME MarkAsDirty PROVE AloneInv'
    <2>0. /\ Remarks(changing) /\ changing' = {}
          /\ UNCHANGED <<live, version, opf, worker, stop_running, thread, abandoned>>
      BY <1>0, <1>3, MarkAsDirtyRemarks DEF MarkAsDirty
    <2>a. \A b \in Books : /\ Marked(b) => dirtied_cache'[b] # None
                           /\ b \in changing => dirtied_cache'[b] # None
                           /\ b \notin changing => dirtied_cache'[b] = dirtied_cache[b]
      BY <1>0, <2>0 DEF Remarks, TypeOK
    <2>1. MarkKept'
      BY <1>0, <2>0, <2>a DEF MarkKept, JobsMade
    <2>2. ClearIsDue'
      <3>1. \A w \in Workers : pc[w] = "clear" /\ dirtied_cache'[job[w].book] = job[w].sequence
                => job[w].book \notin changing
        BY <1>0, <2>0 DEF Remarks, MarkKept, JobsMade, TypeOK
      <3>. QED BY <1>0, <2>0, <2>a, <3>1 DEF ClearIsDue, JobsMade
    <2>3. StaleIsMarked'
      BY <1>0, <2>0, <2>a DEF StaleIsMarked, TypeOK
    <2>. QED BY <2>1, <2>2, <2>3 DEF AloneInv
  <1>4. ASSUME MarkFails PROVE AloneInv'
    <2>0. PICK S \in SUBSET {b \in changing : Marked(b)} :
              /\ Remarks(S) /\ \A b \in Books : abandoned[b] \subseteq abandoned'[b]
              /\ \A b \in changing \ S : version[b] \in abandoned'[b]
      BY <1>0, <1>4, MarkFailsRemarks
    <2>a. /\ changing' = {} /\ S \subseteq Books
          /\ UNCHANGED <<live, version, opf, metadata_dirtied, worker, stop_running, thread>>
      BY <1>0, <1>4 DEF MarkFails, TypeOK
    <2>b. \A b \in Books : /\ Marked(b) <=> dirtied_cache'[b] # None
                           /\ b \notin S => dirtied_cache'[b] = dirtied_cache[b]
      BY <1>0, <2>0, <2>a DEF Remarks, TypeOK
    <2>1. MarkKept'
      BY <1>0, <2>a, <2>b DEF MarkKept, JobsMade
    <2>2. ClearIsDue'
      <3>1. \A w \in Workers : pc[w] = "clear" /\ dirtied_cache'[job[w].book] = job[w].sequence
                => job[w].book \notin S
        BY <1>0, <2>0, <2>a DEF Remarks, MarkKept, JobsMade, TypeOK
      <3>. QED BY <1>0, <2>0, <2>a, <2>b, <3>1 DEF ClearIsDue, JobsMade
    <2>3. StaleIsMarked'
      BY <1>0, <2>0, <2>a, <2>b DEF StaleIsMarked, TypeOK
    <2>. QED BY <2>1, <2>2, <2>3 DEF AloneInv
  <1>5. ASSUME CommitDirtyCache PROVE AloneInv'
    <2>1. MarkKept'
      BY <1>0, <1>00, <1>5 DEF CommitDirtyCache, MarkKept, OneAtATime, JobsMade, TypeOK
    <2>2. ClearIsDue'
      BY <1>0, <1>00, <1>5 DEF CommitDirtyCache, ClearIsDue, JobsMade, TypeOK
    <2>3. StaleIsMarked'
      BY <1>0, <1>00, <1>5 DEF CommitDirtyCache, StaleIsMarked, TypeOK
    <2>. QED BY <2>1, <2>2, <2>3 DEF AloneInv
  <1>6. ASSUME DumpMetadata PROVE AloneInv'
    <2>1. MarkKept'
      BY <1>0, <1>00, <1>6 DEF DumpMetadata, MarkKept, OneAtATime, JobsMade, TypeOK
    <2>2. ClearIsDue'
      BY <1>0, <1>6 DEF DumpMetadata, ClearIsDue, MarkKept
    <2>3. StaleIsMarked'
      BY <1>0, <1>00, <1>6 DEF DumpMetadata, StaleIsMarked, TypeOK
    <2>. QED BY <2>1, <2>2, <2>3 DEF AloneInv
  <1>7. ASSUME Stop PROVE AloneInv'
    <2>1. MarkKept'
      BY <1>0, <1>00, <1>7 DEF Stop, MarkKept, OneAtATime, JobsMade, TypeOK
    <2>2. ClearIsDue'
      BY <1>0, <1>00, <1>7 DEF Stop, ClearIsDue, JobsMade, TypeOK
    <2>3. StaleIsMarked'
      BY <1>0, <1>00, <1>7 DEF Stop, StaleIsMarked, TypeOK
    <2>. QED BY <2>1, <2>2, <2>3 DEF AloneInv
  <1>8. ASSUME Restart PROVE AloneInv'
    <2>1. MarkKept'
      BY <1>0, <1>00, <1>8 DEF Restart, MarkKept, OneAtATime, JobsMade, TypeOK
    <2>2. ClearIsDue'
      BY <1>0, <1>00, <1>8 DEF Restart, ClearIsDue, JobsMade, TypeOK
    <2>3. StaleIsMarked'
      <3>1. \A b \in Books : opf'[b] = opf[b] \/ Marked(b)
        BY <1>0, <1>8 DEF Restart, Calls, JobsMade, MarkKept, TypeOK
      <3>2. \A b \in Books : Marked(b) => Marked(b)'
        BY <1>0, <1>00, <1>8 DEF Restart, MarksPersist
      <3>3. \A b \in changing : Marked(b)' \/ version[b] \in abandoned'[b]
        BY <1>0, <1>00, <1>8 DEF Restart, GivenUp, MarksPersist, TypeOK
      <3>4. \A b \in Books : abandoned[b] \subseteq abandoned'[b]
        BY <1>8 DEF Restart, GivenUp
      <3>. QED BY <1>0, <1>8, <3>1, <3>2, <3>3, <3>4 DEF Restart, StaleIsMarked, TypeOK
    <2>. QED BY <2>1, <2>2, <2>3 DEF AloneInv
  <1>9. ASSUME NEW w \in Workers, Start(w) PROVE AloneInv'
    <2>1. MarkKept'
      BY <1>0, <1>00, <1>9 DEF Start, MarkKept, OneAtATime, JobsMade, TypeOK
    <2>2. ClearIsDue'
      BY <1>0, <1>00, <1>9 DEF Start, ClearIsDue, JobsMade, TypeOK
    <2>3. StaleIsMarked'
      BY <1>0, <1>00, <1>9 DEF Start, StaleIsMarked, TypeOK
    <2>. QED BY <2>1, <2>2, <2>3 DEF AloneInv
  <1>10. ASSUME NEW w \in Workers, Wait(w) PROVE AloneInv'
    <2>1. MarkKept'
      BY <1>0, <1>00, <1>10 DEF Wait, MarkKept, OneAtATime, JobsMade, TypeOK
    <2>2. ClearIsDue'
      BY <1>0, <1>00, <1>10 DEF Wait, ClearIsDue, JobsMade, TypeOK
    <2>3. StaleIsMarked'
      BY <1>0, <1>00, <1>10 DEF Wait, StaleIsMarked, TypeOK
    <2>. QED BY <2>1, <2>2, <2>3 DEF AloneInv
  <1>11. ASSUME NEW w \in Workers, PickNothing(w) PROVE AloneInv'
    <2>1. MarkKept'
      BY <1>0, <1>00, <1>11 DEF PickNothing, Calls, Goto, MarkKept, OneAtATime, JobsMade, TypeOK
    <2>2. ClearIsDue'
      BY <1>0, <1>00, <1>11 DEF PickNothing, Calls, Goto, ClearIsDue, JobsMade, TypeOK
    <2>3. StaleIsMarked'
      BY <1>0, <1>00, <1>11 DEF PickNothing, Calls, Goto, StaleIsMarked, TypeOK
    <2>. QED BY <2>1, <2>2, <2>3 DEF AloneInv
  <1>12. ASSUME NEW w \in Workers, NEW b \in Books, Pick(w, b) PROVE AloneInv'
    <2>1. MarkKept'
      BY <1>0, <1>00, <1>12 DEF Pick, Calls, Goto, MarkKept, OneAtATime, JobsMade, TypeOK
    <2>2. ClearIsDue'
      BY <1>0, <1>00, <1>12 DEF Pick, Calls, Goto, ClearIsDue, JobsMade, TypeOK
    <2>3. StaleIsMarked'
      BY <1>0, <1>00, <1>12 DEF Pick, Calls, Goto, StaleIsMarked, TypeOK
    <2>. QED BY <2>1, <2>2, <2>3 DEF AloneInv
  <1>13. ASSUME NEW w \in Workers, Fetch(w) PROVE AloneInv'
    <2>1. MarkKept'
      BY <1>0, <1>00, <1>13 DEF Fetch, Calls, Goto, MarkKept, OneAtATime, JobsMade, TypeOK
    <2>2. ClearIsDue'
      <3>1. pc[w] = "fetch" /\ job[w].book \in Books /\ Marked(job[w].book)
        BY <1>0, <1>13 DEF Fetch, Calls, JobsMade, MarkKept
      <3>2. \A v \in Workers : pc'[v] = "clear" => v = w
        BY <1>0, <1>13, <3>1 DEF Fetch, Goto, OneAtATime, TypeOK
      <3>3. UNCHANGED <<library, opf, marks>>
        BY <1>13 DEF Fetch
      <3>4. pc'[w] = "clear" => /\ job'[w].book = job[w].book
                                /\ \/ job[w].book \notin live
                                   \/ version[job[w].book] \in abandoned'[job[w].book]
        <4>1. CASE job[w].book \in live /\ "fetch" \in Faults
                   /\ abandoned' = [abandoned EXCEPT ![job[w].book] = @ \cup {version[job[w].book]}]
                   /\ job' = [job EXCEPT ![w].sequence = dirtied_cache[job[w].book]]
          BY <1>0, <3>1, <4>1 DEF TypeOK
        <4>2. CASE job[w].book \notin live
                   /\ job' = [job EXCEPT ![w].sequence = dirtied_cache[job[w].book]]
          BY <1>0, <3>1, <4>2 DEF TypeOK
        <4>3. CASE Goto(w, "convert", TRUE)
          BY <1>0, <4>3 DEF Goto, TypeOK
        <4>. QED BY <1>13, <3>1, <4>1, <4>2, <4>3 DEF Fetch
      <3>. QED BY <3>1, <3>2, <3>3, <3>4 DEF ClearIsDue
    <2>3. StaleIsMarked'
      BY <1>0, <1>00, <1>13 DEF Fetch, Calls, Goto, StaleIsMarked, TypeOK
    <2>. QED BY <2>1, <2>2, <2>3 DEF AloneInv
  <1>14. ASSUME NEW w \in Workers, FetchFails(w) PROVE AloneInv'
    <2>1. MarkKept'
      BY <1>0, <1>00, <1>14 DEF FetchFails, Calls, Retry, Goto, MarkKept, OneAtATime, JobsMade, TypeOK
    <2>2. ClearIsDue'
      BY <1>0, <1>00, <1>14 DEF FetchFails, Calls, Retry, Goto, ClearIsDue, JobsMade, TypeOK
    <2>3. StaleIsMarked'
      BY <1>0, <1>00, <1>14 DEF FetchFails, Calls, Retry, Goto, StaleIsMarked, TypeOK
    <2>. QED BY <2>1, <2>2, <2>3 DEF AloneInv
  <1>15. ASSUME NEW w \in Workers, Convert(w) PROVE AloneInv'
    <2>1. MarkKept'
      BY <1>0, <1>00, <1>15 DEF Convert, Goto, MarkKept, OneAtATime, JobsMade, TypeOK
    <2>2. ClearIsDue'
      <3>1. /\ pc[w] = "convert" /\ job[w].book \in Books /\ job[w].mi # None
            /\ UNCHANGED <<library, opf, marks, job>>
        BY <1>0, <1>15 DEF Convert, JobsMade
      <3>2. \A v \in Workers : pc'[v] = "clear" => v = w
        BY <1>0, <1>15, <3>1 DEF Convert, Goto, OneAtATime, TypeOK
      <3>3. dirtied_cache[job[w].book] = job[w].sequence
                => job[w].mi = version[job[w].book] \/ job[w].book \in changing
                   \/ version[job[w].book] \in abandoned[job[w].book]
        BY <1>0, <3>1 DEF JobIsCurrent
      <3>4. CASE Goto(w, "write", TRUE)
        <4>1. pc'[w] # "clear"
          BY <1>0, <3>4 DEF Goto, TypeOK
        <4>. QED BY <3>2, <4>1 DEF ClearIsDue
      <3>5. CASE abandoned' = [abandoned EXCEPT ![job[w].book] = @ \cup {job[w].mi}]
        BY <1>0, <3>1, <3>2, <3>3, <3>5 DEF ClearIsDue, TypeOK
      <3>. QED BY <1>15, <3>4, <3>5 DEF Convert
    <2>3. StaleIsMarked'
      BY <1>0, <1>00, <1>15 DEF Convert, Goto, StaleIsMarked, TypeOK
    <2>. QED BY <2>1, <2>2, <2>3 DEF AloneInv
  <1>16. ASSUME NEW w \in Workers, Write(w) PROVE AloneInv'
    <2>1. MarkKept'
      BY <1>0, <1>00, <1>16 DEF Write, Calls, Goto, MarkKept, OneAtATime, JobsMade, TypeOK
    <2>2. ClearIsDue'
      <3>1. /\ pc[w] = "write" /\ job[w].book \in Books /\ job[w].mi # None
            /\ UNCHANGED <<library, marks, job, abandoned>>
        BY <1>0, <1>16 DEF Write, Calls, JobsMade
      <3>2. \A v \in Workers : pc'[v] = "clear" => v = w
        BY <1>0, <1>16, <3>1 DEF Write, Goto, OneAtATime, TypeOK
      <3>3. dirtied_cache[job[w].book] = job[w].sequence
                => job[w].mi = version[job[w].book] \/ job[w].book \in changing
                   \/ version[job[w].book] \in abandoned[job[w].book]
        BY <1>0, <3>1 DEF JobIsCurrent
      <3>. QED BY <1>0, <1>16, <3>1, <3>2, <3>3 DEF Write, ClearIsDue, TypeOK
    <2>3. StaleIsMarked'
      BY <1>0, <1>16 DEF Write, Calls, StaleIsMarked, MarkKept, JobsMade, TypeOK
    <2>. QED BY <2>1, <2>2, <2>3 DEF AloneInv
  <1>17. ASSUME NEW w \in Workers, WriteFails(w) PROVE AloneInv'
    <2>1. MarkKept'
      BY <1>0, <1>00, <1>17 DEF WriteFails, Calls, Retry, Goto, MarkKept, OneAtATime, JobsMade, TypeOK
    <2>2. ClearIsDue'
      <3>1. pc[w] = "write" /\ UNCHANGED <<library, marks, job, abandoned>>
        BY <1>17 DEF WriteFails, Calls
      <3>2. \A v \in Workers : pc'[v] # "clear"
        BY <1>0, <1>17, <3>1, RetryTypes DEF WriteFails, OneAtATime
      <3>. QED BY <3>2 DEF ClearIsDue
    <2>3. StaleIsMarked'
      BY <1>0, <1>17 DEF WriteFails, Calls, StaleIsMarked, MarkKept, JobsMade, TypeOK
    <2>. QED BY <2>1, <2>2, <2>3 DEF AloneInv
  <1>18. ASSUME NEW w \in Workers, Clear(w) PROVE AloneInv'
    <2>1. MarkKept'
      BY <1>0, <1>00, <1>18 DEF Clear, Calls, Goto, MarkKept, OneAtATime, JobsMade, TypeOK
    <2>2. ClearIsDue'
      <3>1. \A v \in Workers : pc'[v] # "clear"
        BY <1>0, <1>18 DEF Clear, Calls, Goto, OneAtATime, TypeOK
      <3>. QED BY <3>1 DEF ClearIsDue
    <2>3. StaleIsMarked'
      BY <1>0, <1>18 DEF Clear, Calls, StaleIsMarked, ClearIsDue, MarkKept, JobsMade, TypeOK
    <2>. QED BY <2>1, <2>2, <2>3 DEF AloneInv
  <1>19. ASSUME NEW w \in Workers, ClearFails(w) PROVE AloneInv'
    <2>1. MarkKept'
      BY <1>0, <1>00, <1>19 DEF ClearFails, Calls, Goto, MarkKept, OneAtATime, JobsMade, TypeOK
    <2>2. ClearIsDue'
      BY <1>0, <1>00, <1>19 DEF ClearFails, Calls, Goto, ClearIsDue, JobsMade, TypeOK
    <2>3. StaleIsMarked'
      BY <1>0, <1>00, <1>19 DEF ClearFails, Calls, Goto, StaleIsMarked, TypeOK
    <2>. QED BY <2>1, <2>2, <2>3 DEF AloneInv
  <1>20. CASE UNCHANGED vars
    BY <1>0, <1>20 DEF vars, AloneInv, MarkKept, ClearIsDue, StaleIsMarked
  <1>. QED BY <1>1, <1>2, <1>3, <1>4, <1>5, <1>6, <1>7, <1>8, <1>9, <1>10, <1>11, <1>12, <1>13, <1>14, <1>15, <1>16, <1>17, <1>18, <1>19, <1>20 DEF Next, Step

-------------------------------------------------------------------------------
(* The theorems *)

\* However many backup threads are at work at once, and whatever fails, every
\* variable has its type, the marks in memory are those in the database, and
\* no two books share a sequence.
THEOREM MarksPersistAlways == Spec => []MarksPersist
  <1>1. IInv => MarksPersist
    BY DEF IInv
  <1>. QED BY InitIInv, NextIInv, <1>1, PTL DEF Spec

\* Every variable of the cache's marks and of the backup threads has its type.
THEOREM TypeCorrect == Spec => []TypeOK
  <1>1. MarksPersist => TypeOK
    BY DEF MarksPersist
  <1>. QED BY MarksPersistAlways, <1>1, PTL

\* However many threads overlap, one whose sequence still is the book's mark
\* carries metadata that a change since would have given a later mark.
THEOREM JobIsCurrentAlways == Spec => []JobIsCurrent
  <1>1. IInv => JobIsCurrent
    BY DEF IInv
  <1>. QED BY InitIInv, NextIInv, <1>1, PTL DEF Spec

\* A book whose OPF file is stale is marked, or being changed, or given up
\* on, in every behaviour in which a backup thread has ended before the next
\* one starts.  (With two at once clear_dirtied() may drop a newer mark.)
THEOREM StaleIsMarkedAlone == Spec /\ []OneAtATime => []StaleIsMarked
  <1>1. Spec => []IInv
    BY InitIInv, NextIInv, PTL DEF Spec
  <1>2. AloneInv => StaleIsMarked
    BY DEF AloneInv
  <1>. QED BY InitAlone, NextAlone, <1>1, <1>2, PTL DEF Spec

\* In particular when the process never starts a second thread.
THEOREM StaleIsMarkedSingle ==
    ASSUME \A v, w \in Workers : v = w
    PROVE  Spec => []StaleIsMarked
  <1>1. OneAtATime
    BY DEF OneAtATime
  <1>2. []OneAtATime
    BY <1>1, PTL
  <1>. QED BY <1>2, StaleIsMarkedAlone, PTL
===============================================================================
