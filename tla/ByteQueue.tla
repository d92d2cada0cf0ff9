------------------------------- MODULE ByteQueue -------------------------------
(***************************************************************************)
(* What a reader of a connection may rely on: the bytes that were received *)
(* wait in a queue, and an answer takes them from its front, some of them  *)
(* or a line.                                                              *)
(***************************************************************************)
EXTENDS Naturals, Sequences

CONSTANTS
    Capacity        \* how many bytes may wait

VARIABLES
    newlines,       \* which bytes are line feeds
    queue,          \* the bytes that wait, the oldest first
    asked,          \* the size that the last call asked for, 0 for a line
    answer          \* what it returned

Init == queue = <<>> /\ asked = 0 /\ answer = <<>>

\* Bytes are received behind those that wait, if there is space for them.
Put ==
    /\ Len(queue) < Len(queue') /\ Len(queue') <= Capacity
    /\ SubSeq(queue', 1, Len(queue)) = queue
    /\ answer' = <<>>

\* The first n bytes are returned, and are gone.
Take(n) ==
    /\ answer' = SubSeq(queue, 1, n)
    /\ queue' = SubSeq(queue, n + 1, Len(queue))

\* As many bytes as were asked for: all there are when there are less.
Get ==
    /\ queue # <<>> /\ asked' > 0
    /\ Take(IF asked' < Len(queue) THEN asked' ELSE Len(queue))

\* Everything up to the first line feed, or everything.
GetLine ==
    /\ asked' = 0
    /\ \E n \in 1..Len(queue) :
        /\ queue[n] \in newlines \/ n = Len(queue)
        /\ \A i \in 1..(n - 1) : queue[i] \notin newlines
        /\ Take(n)

\* Nothing waits: there is no answer, or one that never waited.
Pass == queue = <<>> /\ queue' = <<>>

\* The connection is closed, and what waits is dropped.
Close == queue' = <<>> /\ answer' = <<>>

Next == (Put \/ Get \/ GetLine \/ Pass \/ Close) /\ UNCHANGED newlines

Spec == Init /\ [][Next]_<<queue, newlines, asked, answer>>
================================================================================
