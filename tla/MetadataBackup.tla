---------------------------- MODULE MetadataBackup ----------------------------
(***************************************************************************)
(* The backup of changed metadata into OPF files: the thread of            *)
(* calibre/db/backup.py and the dirty marks of calibre/db/cache.py, kept   *)
(* in memory (dirtied_cache) and in the table metadata_dirtied.            *)
(*                                                                         *)
(* A book's metadata is its number of changes so far.  The methods of      *)
(* Cache run under the read or write lock, so each is one step, except     *)
(* that a change is two: the field is written to the database first and    *)
(* the book marked dirty second, and an exception or the end of the        *)
(* process may come in between.  The thread holds no lock between its      *)
(* calls, and may be told to stop at every wait().                         *)
(***************************************************************************)
EXTENDS Integers, FiniteSets

CONSTANTS
    Books,          \* the books that may be in the library
    Workers,        \* the backup threads that may be started, one at a time
    None,           \* Python's None
    MaxVersion,     \* bound: how often one book changes
    Faults          \* which of the failures below may happen

AllFaults == {"mark", "fetch", "convert", "write", "clear", "crash"}

ASSUME BackupAssumption ==
    /\ IsFiniteSet(Books) /\ IsFiniteSet(Workers)
    /\ None \notin Books \cup Workers \cup Nat
    /\ MaxVersion \in [Books -> Nat]
    /\ Faults \subseteq AllFaults

VARIABLES
    live,               \* the books in the library, with a path
    version,            \* the metadata of a book; 0: not added yet
    opf,                \* the metadata in the book's OPF file; 0: none
    dirtied_cache,      \* the dirty mark of a book: its sequence, or None
    dirtied_sequence,
    metadata_dirtied,   \* the books in the database table
    changing,           \* the books whose change holds the write lock
    worker,             \* the latest backup thread; None before the first
    stop_running,       \* the threads that have been told to stop
    pc,                 \* what each thread does next
    waiting,            \* whether it is in the wait() before doing that
    tries,              \* attempts at the call it makes
    job,                \* what the thread carries: book, metadata, sequence
    abandoned           \* the metadata, by book, whose backup was given up

library == <<live, version, changing>>
marks   == <<dirtied_cache, dirtied_sequence, metadata_dirtied>>
thread  == <<pc, waiting, tries, job>>
vars    == <<library, opf, marks, worker, stop_running, thread, abandoned>>

Marked(b) == dirtied_cache[b] # None
NoJob     == [book |-> None, mi |-> None, sequence |-> None]

Init ==
    /\ live = {}
    /\ version = [b \in Books |-> 0]
    /\ opf = [b \in Books |-> 0]
    /\ dirtied_cache = [b \in Books |-> None]
    /\ dirtied_sequence = 0
    /\ metadata_dirtied = {}
    /\ changing = {}
    /\ worker = None
    /\ stop_running = {}
    /\ pc = [w \in Workers |-> "off"]
    /\ waiting = [w \in Workers |-> FALSE]
    /\ tries = [w \in Workers |-> 0]
    /\ job = [w \in Workers |-> NoJob]
    /\ abandoned = [b \in Books |-> {}]

Unlocked == changing = {}

-------------------------------------------------------------------------------
(* Changing metadata *)

\* The numberings of the books of S by consecutive sequences from n on.
Numberings(S, n) ==
    {f \in [S -> n..(n + Cardinality(S) - 1)] :
        \A a, b \in S : f[a] = f[b] => a = b}

\* set_field() and the like: the write to the database and to the table in
\* memory, up to the call of mark_as_dirty().  create_book_entry() adds books.
WriteField(S) ==
    /\ Unlocked
    /\ \A b \in S : version[b] < MaxVersion[b] /\ (b \in live \/ version[b] = 0)
    /\ version' = [b \in Books |-> IF b \in S THEN version[b] + 1 ELSE version[b]]
    /\ live' = live \cup S
    /\ changing' = S
    /\ UNCHANGED <<opf, marks, worker, stop_running, thread, abandoned>>

\* Seeded fault: books that are dirty already keep their old sequence.
MarkOnlyNew ==
    LET old == {b \in changing : Marked(b)}
        new == changing \ old
    IN
    /\ changing # {}
    /\ \E n \in Numberings(new, dirtied_sequence) :
        dirtied_cache' = [b \in Books |-> IF b \in new THEN n[b] ELSE dirtied_cache[b]]
    /\ dirtied_sequence' = dirtied_sequence + Cardinality(new)
    /\ metadata_dirtied' = metadata_dirtied \cup new
    /\ changing' = {}
    /\ UNCHANGED <<live, version, opf, worker, stop_running, thread, abandoned>>

\* Seeded fault: new marks are kept in memory only.
MarkInMemory ==
    /\ changing # {}
    /\ \E n \in Numberings(changing, dirtied_sequence) :
        dirtied_cache' =
            [b \in Books |-> IF b \in changing THEN n[b] ELSE dirtied_cache[b]]
    /\ dirtied_sequence' = dirtied_sequence + Cardinality(changing)
    /\ changing' = {}
    /\ UNCHANGED <<live, version, opf, metadata_dirtied, worker, stop_running,
                   thread, abandoned>>

\* mark_as_dirty(): a fresh sequence for every changed book, those already
\* dirty first, and a row for those that were not.
MarkAsDirty ==
    LET old == {b \in changing : Marked(b)}
        new == changing \ old
        next == dirtied_sequence + Cardinality(old)
    IN
    /\ changing # {}
    /\ \E m \in Numberings(old, dirtied_sequence), n \in Numberings(new, next) :
        dirtied_cache' = [b \in Books |-> IF b \in old THEN m[b]
                                          ELSE IF b \in new THEN n[b]
                                          ELSE dirtied_cache[b]]
    /\ dirtied_sequence' = next + Cardinality(new)
    /\ metadata_dirtied' = metadata_dirtied \cup new
    /\ changing' = {}
    /\ UNCHANGED <<live, version, opf, worker, stop_running, thread, abandoned>>

GivenUp(S) ==
    abandoned' = [b \in Books |-> abandoned[b] \cup (IF b \in S THEN {version[b]} ELSE {})]

\* An exception between the two (moving the book's files, or last_modified) ends
\* the call with the metadata changed and no book marked anew; when the INSERT
\* raises, the books that were dirty have a new sequence already.
MarkFails ==
    LET old == {b \in changing : Marked(b)}
        new == changing \ old
    IN
    /\ "mark" \in Faults
    /\ changing # {}
    /\ \/ GivenUp(changing) /\ UNCHANGED <<dirtied_cache, dirtied_sequence>>
       \/ /\ new # {} /\ GivenUp(new)
          /\ \E m \in Numberings(old, dirtied_sequence) :
              dirtied_cache' = [b \in Books |-> IF b \in old THEN m[b]
                                                ELSE dirtied_cache[b]]
          /\ dirtied_sequence' = dirtied_sequence + Cardinality(old)
    /\ changing' = {}
    /\ UNCHANGED <<live, version, opf, metadata_dirtied, worker, stop_running, thread>>

\* remove_books(): the files go; the dirty mark stays.
RemoveBooks(S) ==
    /\ Unlocked
    /\ S \subseteq live
    /\ live' = live \ S
    /\ opf' = [b \in Books |-> IF b \in S THEN 0 ELSE opf[b]]
    /\ UNCHANGED <<version, changing, marks, worker, stop_running, thread, abandoned>>

CommitDirtyCache ==
    /\ Unlocked
    /\ metadata_dirtied' = metadata_dirtied \cup {b \in Books : Marked(b)}
    /\ UNCHANGED <<library, opf, dirtied_cache, dirtied_sequence, worker,
                   stop_running, thread, abandoned>>

\* dump_metadata(): all dirty books, in one hold of the write lock; a book
\* whose OPF file cannot be written (T: it is left truncated) stays dirty.
\* The program calls it in processes without a backup thread only.
DumpMetadata ==
    /\ worker = None
    /\ Unlocked
    /\ \E S \in SUBSET {b \in live : Marked(b)} :
       \E T \in SUBSET ({b \in live : Marked(b)} \ S) :
        /\ opf' = [b \in Books |-> IF b \in S THEN version[b]
                                   ELSE IF b \in T THEN 0 ELSE opf[b]]
        /\ dirtied_cache' = [b \in Books |-> IF b \in S THEN None ELSE dirtied_cache[b]]
        /\ metadata_dirtied' = metadata_dirtied \ S
    /\ UNCHANGED <<library, dirtied_sequence, worker, stop_running, thread, abandoned>>

-------------------------------------------------------------------------------
(* The backup thread *)

\* start_metadata_backup(): only after the previous thread was told to stop;
\* nobody waits until it has.
Start(w) ==
    /\ worker = None \/ worker \in stop_running
    /\ pc[w] = "off"
    /\ worker' = w
    /\ pc' = [pc EXCEPT ![w] = "pick"]
    /\ waiting' = [waiting EXCEPT ![w] = TRUE]
    /\ UNCHANGED <<library, opf, marks, stop_running, tries, job, abandoned>>

Stop ==
    /\ worker # None
    /\ stop_running' = stop_running \cup {worker}
    /\ UNCHANGED <<library, opf, marks, worker, thread, abandoned>>

Goto(w, l, wait) ==
    /\ pc' = [pc EXCEPT ![w] = l]
    /\ waiting' = [waiting EXCEPT ![w] = wait]

\* wait() returns, or raises Abort in a thread that was told to stop.
Wait(w) ==
    /\ waiting[w]
    /\ waiting' = [waiting EXCEPT ![w] = FALSE]
    /\ pc' = [pc EXCEPT ![w] = IF w \in stop_running THEN "ended" ELSE @]
    /\ UNCHANGED <<library, opf, marks, worker, stop_running, tries, job, abandoned>>

Calls(w, l) == pc[w] = l /\ ~ waiting[w] /\ Unlocked

\* get_a_dirtied_book(): any of them, at random.
Pick(w, b) ==
    /\ Calls(w, "pick")
    /\ Marked(b)
    /\ job' = [job EXCEPT ![w] = [book |-> b, mi |-> None, sequence |-> None]]
    /\ tries' = [tries EXCEPT ![w] = 1]
    /\ Goto(w, "fetch", TRUE)
    /\ UNCHANGED <<library, opf, marks, worker, stop_running, abandoned>>

PickNothing(w) ==
    /\ Calls(w, "pick")
    /\ \A b \in Books : ~ Marked(b)
    /\ Goto(w, "pick", TRUE)
    /\ UNCHANGED <<library, opf, marks, worker, stop_running, tries, job, abandoned>>

\* A call that raised is made once more after a wait; then the book is left
\* dirty, for a later round.
Retry(w) ==
    \/ /\ tries[w] = 1
       /\ tries' = [tries EXCEPT ![w] = 2]
       /\ waiting' = [waiting EXCEPT ![w] = TRUE]
       /\ UNCHANGED pc
    \/ /\ tries[w] = 2
       /\ Goto(w, "pick", TRUE)
       /\ UNCHANGED tries

\* get_metadata_for_dump(): no metadata when the book is no longer dirty or
\* has no path, or when reading it fails; its dirty mark is cleared then.
Fetch(w) ==
    LET b == job[w].book IN
    /\ Calls(w, "fetch")
    /\ \/ /\ Marked(b) /\ b \in live
          /\ job' = [job EXCEPT ![w] =
                        [book |-> b, mi |-> version[b], sequence |-> dirtied_cache[b]]]
          /\ Goto(w, "convert", TRUE)
          /\ UNCHANGED abandoned
       \/ /\ ~ (Marked(b) /\ b \in live)
          /\ job' = [job EXCEPT ![w].sequence = dirtied_cache[b]]
          /\ Goto(w, "clear", FALSE)
          /\ UNCHANGED abandoned
       \/ /\ "fetch" \in Faults
          /\ Marked(b) /\ b \in live
          /\ job' = [job EXCEPT ![w].sequence = dirtied_cache[b]]
          /\ abandoned' = [abandoned EXCEPT ![b] = @ \cup {version[b]}]
          /\ Goto(w, "clear", FALSE)
    /\ UNCHANGED <<library, opf, marks, worker, stop_running, tries>>

FetchFails(w) ==
    /\ "fetch" \in Faults
    /\ Calls(w, "fetch")
    /\ Retry(w)
    /\ UNCHANGED <<library, opf, marks, worker, stop_running, job, abandoned>>

\* metadata_to_opf(), without a lock; when it fails the book is given up.
Convert(w) ==
    /\ pc[w] = "convert" /\ ~ waiting[w]
    /\ \/ Goto(w, "write", TRUE) /\ UNCHANGED abandoned
       \/ /\ "convert" \in Faults
          /\ Goto(w, "clear", FALSE)
          /\ abandoned' = [abandoned EXCEPT ![job[w].book] = @ \cup {job[w].mi}]
    /\ tries' = [tries EXCEPT ![w] = 1]
    /\ UNCHANGED <<library, opf, marks, worker, stop_running, job>>

\* write_backup(): nothing is written for a book that has gone.
Write(w) ==
    /\ Calls(w, "write")
    /\ opf' = IF job[w].book \in live THEN [opf EXCEPT ![job[w].book] = job[w].mi]
              ELSE opf
    /\ Goto(w, "clear", FALSE)
    /\ UNCHANGED <<library, marks, worker, stop_running, tries, job, abandoned>>

\* Seeded fault: the mark is cleared although the file was not written.
ClearAfterWriteFails(w) ==
    /\ "write" \in Faults
    /\ Calls(w, "write")
    /\ job[w].book \in live
    /\ opf' = [opf EXCEPT ![job[w].book] = 0]
    /\ Goto(w, "clear", FALSE)
    /\ UNCHANGED <<library, marks, worker, stop_running, tries, job, abandoned>>

\* The file cannot be opened, or it is, and truncated, before the write fails.
WriteFails(w) ==
    /\ "write" \in Faults
    /\ Calls(w, "write")
    /\ job[w].book \in live
    /\ opf' \in {opf, [opf EXCEPT ![job[w].book] = 0]}
    /\ Retry(w)
    /\ UNCHANGED <<library, marks, worker, stop_running, job, abandoned>>

\* Seeded fault: the mark is cleared whatever became of it since.
ClearAnyMark(w) ==
    LET b == job[w].book IN
    /\ Calls(w, "clear")
    /\ dirtied_cache' = [dirtied_cache EXCEPT ![b] = None]
    /\ metadata_dirtied' = metadata_dirtied \ {b}
    /\ Goto(w, "pick", TRUE)
    /\ UNCHANGED <<library, opf, dirtied_sequence, worker, stop_running, tries,
                   job, abandoned>>

\* clear_dirtied(): unless the book was marked again since the fetch.
Clear(w) ==
    LET b == job[w].book
        unchanged == None \in {dirtied_cache[b], job[w].sequence}
                     \/ dirtied_cache[b] = job[w].sequence
    IN
    /\ Calls(w, "clear")
    /\ dirtied_cache' = IF unchanged THEN [dirtied_cache EXCEPT ![b] = None]
                                     ELSE dirtied_cache
    /\ metadata_dirtied' = IF unchanged THEN metadata_dirtied \ {b}
                                        ELSE metadata_dirtied
    /\ Goto(w, "pick", TRUE)
    /\ UNCHANGED <<library, opf, dirtied_sequence, worker, stop_running, tries,
                   job, abandoned>>

\* The DELETE raises: nothing catches that, and the thread is no more.
ClearFails(w) ==
    /\ "clear" \in Faults
    /\ Calls(w, "clear")
    /\ Goto(w, "ended", FALSE)
    /\ UNCHANGED <<library, opf, marks, worker, stop_running, tries, job, abandoned>>

-------------------------------------------------------------------------------
\* The process dies and is started again: initialize_dynamic() numbers the
\* rows of the table.  A file that was being written is left truncated.
Restart ==
    /\ "crash" \in Faults
    /\ opf' \in {opf} \cup {[opf EXCEPT ![job[w].book] = 0] :
                              w \in {v \in Workers : Calls(v, "write")}}
    /\ GivenUp(changing \ metadata_dirtied)
    /\ changing' = {}
    /\ \E n \in Numberings(metadata_dirtied, 0) :
        dirtied_cache' = [b \in Books |-> IF b \in metadata_dirtied THEN n[b] ELSE None]
    /\ dirtied_sequence' = Cardinality(metadata_dirtied)
    /\ worker' = None
    /\ stop_running' = {}
    /\ pc' = [w \in Workers |-> "off"]
    /\ waiting' = [w \in Workers |-> FALSE]
    /\ tries' = [w \in Workers |-> 0]
    /\ job' = [w \in Workers |-> NoJob]
    /\ UNCHANGED <<live, version, metadata_dirtied>>

Step(w) ==
    \/ Wait(w) \/ PickNothing(w) \/ (\E b \in Books : Pick(w, b))
    \/ Fetch(w) \/ FetchFails(w) \/ Convert(w) \/ Write(w) \/ WriteFails(w) \/ Clear(w)
    \/ ClearFails(w)

Next ==
    \/ \E S \in (SUBSET Books) \ {{}} : WriteField(S) \/ RemoveBooks(S)
    \/ MarkAsDirty \/ MarkFails \/ CommitDirtyCache \/ DumpMetadata
    \/ Stop \/ Restart
    \/ \E w \in Workers : Start(w) \/ Step(w)

Spec == Init /\ [][Next]_vars

\* Calls return, waits end, the random choice neglects no book for ever, and a
\* library that cannot be read, or a file written, is not so for ever.
Fairness ==
    /\ WF_vars(MarkAsDirty)
    /\ \A w \in Workers :
        /\ WF_vars(Start(w)) /\ WF_vars(Wait(w)) /\ WF_vars(PickNothing(w))
        /\ WF_vars(Convert(w)) /\ WF_vars(Clear(w))
        /\ \A b \in Books :
            /\ SF_vars(Pick(w, b))
            /\ SF_vars(job[w].book = b /\ Fetch(w)) /\ SF_vars(job[w].book = b /\ Write(w))
FairSpec == Spec /\ Fairness

-------------------------------------------------------------------------------
(* Properties *)

Sequences == Nat \cup {None}

\* Every variable has its type.
TypeOK ==
    /\ live \in SUBSET Books /\ changing \in SUBSET Books
    /\ metadata_dirtied \in SUBSET Books
    /\ version \in [Books -> Nat] /\ opf \in [Books -> Nat]
    /\ abandoned \in [Books -> SUBSET Nat]
    /\ dirtied_cache \in [Books -> Sequences] /\ dirtied_sequence \in Nat
    /\ worker \in Workers \cup {None} /\ stop_running \in SUBSET Workers
    /\ pc \in [Workers -> {"off", "pick", "fetch", "convert", "write", "clear", "ended"}]
    /\ waiting \in [Workers -> BOOLEAN] /\ tries \in [Workers -> 0..2]
    /\ job \in [Workers -> [book : Books \cup {None}, mi : Nat \cup {None},
                            sequence : Sequences]]

\* backup.py:22-26: a book whose OPF file does not have its latest metadata is
\* marked dirty, so that a later round of the thread will write it; the change
\* is still in progress; or that very metadata could not be backed up.
StaleIsMarked ==
    \A b \in live :
        opf[b] # version[b] =>
            Marked(b) \/ b \in changing \/ version[b] \in abandoned[b]

\* cache.py:1009-1023 and 192-197: the marks in memory and those in the
\* database are the same, so that a restart forgets none; no two books have
\* the same sequence, nor is one given out that a thread may still compare;
\* and every variable has its type.
MarksPersist ==
    /\ TypeOK
    /\ \A b \in Books : Marked(b) <=> b \in metadata_dirtied
    /\ \A b \in Books : Marked(b) => dirtied_cache[b] < dirtied_sequence
    /\ \A a, b \in Books : Marked(a) /\ dirtied_cache[a] = dirtied_cache[b] => a = b

\* A thread that has written a file and is about to clear the mark carries
\* the metadata that its sequence stands for: the book has that metadata
\* still, or a later mark.
JobIsCurrent ==
    \A w \in Workers :
        LET j == job[w] IN
        pc[w] \in {"convert", "write", "clear"} /\ j.mi # None
            /\ dirtied_cache[j.book] = j.sequence
            => j.mi = version[j.book] \/ j.book \in changing
               \/ version[j.book] \in abandoned[j.book]

\* backup.py:22: unless the thread was told to stop or died of an exception,
\* or the process ended, a dirty book is in the end backed up with its latest
\* metadata, given up on, or removed; after a restart all the same.
EventuallyBackedUp ==
    \A b \in Books :
        Marked(b) ~> \/ opf[b] = version[b] \/ version[b] \in abandoned[b]
                     \/ b \notin live \/ stop_running # {}
                     \/ worker = None \/ pc[worker] = "ended"
===============================================================================
