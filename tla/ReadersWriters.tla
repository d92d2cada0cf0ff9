---------------------------- MODULE ReadersWriters ----------------------------
(***************************************************************************)
(* What calibre/db/locking.py promises to the callers of a lock pair made  *)
(* by create_locks(): any number of threads may hold it shared, at most    *)
(* one may hold it exclusively and then nobody holds it shared, and both   *)
(* kinds of hold may be nested by the thread that already has one.         *)
(* Only what the callers see is here: no queues, no wake-ups.              *)
(***************************************************************************)
EXTENDS Naturals

CONSTANTS
    Threads,    \* the threads that use the lock
    MaxHold     \* how deep one thread nests its holds

VARIABLE
    held        \* held[t]: the hold thread t has been granted and not given up

Unheld == [mode |-> "none", n |-> 0]

Init == held = [t \in Threads |-> Unheld]

\* A shared hold needs the absence of any exclusive one.
GetShared(t) ==
    /\ \A u \in Threads : held[u].mode # "exclusive"
    /\ held[t].n < MaxHold
    /\ held' = [held EXCEPT ![t] = [mode |-> "shared", n |-> held[t].n + 1]]

\* An exclusive hold needs the absence of any other thread's hold, and of a
\* shared hold of the thread itself (no upgrade).
GetExclusive(t) ==
    /\ \A u \in Threads \ {t} : held[u].mode = "none"
    /\ held[t].mode # "shared"
    /\ held[t].n < MaxHold
    /\ held' = [held EXCEPT ![t] = [mode |-> "exclusive", n |-> held[t].n + 1]]

GiveUp(t) ==
    /\ held[t].n > 0
    /\ held' = [held EXCEPT ![t] =
                   IF @.n = 1 THEN Unheld ELSE [mode |-> @.mode, n |-> @.n - 1]]

Next == \E t \in Threads : GetShared(t) \/ GetExclusive(t) \/ GiveUp(t)

Spec == Init /\ [][Next]_held
===============================================================================
