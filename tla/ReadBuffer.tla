------------------------------ MODULE ReadBuffer ------------------------------
(***************************************************************************)
(* The ring buffer that the content server puts between a socket and the   *)
(* parsers of requests, and the methods of Connection that read through    *)
(* it, calibre/srv/loop.py.  A call is one step: one thread does it all.   *)
(* The calls come in any order.                                            *)
(*                                                                         *)
(* The bytes of a connection are told apart by their place in the stream,  *)
(* so that a byte lost, repeated or out of order shows.                    *)
(***************************************************************************)
EXTENDS Naturals, Sequences

CONSTANTS
    Size,           \* the length of the buffer: 4096
    MaxBytes        \* bound: the length of the stream

ASSUME SizeAssumption == Size \in Nat \ {0} /\ MaxBytes \in Nat

Stream == 1..MaxBytes

VARIABLES
    ba,             \* the bytes at 0 .. Size - 1, 0 where none was ever put
    read_pos, write_pos,
    full_state,     \* READ or WRITE: full or empty, when the positions meet
    conn_ready,     \* the connection is open
    newlines,       \* which bytes of the stream are line feeds
    pulled,         \* how many bytes were taken from the socket
    returned,       \* how many bytes were returned to the callers
    asked,          \* the size that the last call asked for, 0 for a line
    answer          \* what it returned

buffer == <<ba, read_pos, write_pos, full_state>>
buffer_vars == <<buffer, conn_ready, newlines, pulled, returned, asked, answer>>

BufferInit ==
    /\ ba = [i \in 0..(Size - 1) |-> 0]
    /\ read_pos = 0 /\ write_pos = 0
    /\ full_state = "WRITE"
    /\ conn_ready = TRUE
    /\ newlines \in SUBSET Stream
    /\ pulled = 0 /\ returned = 0 /\ asked = 0 /\ answer = <<>>

has_data  == read_pos # write_pos \/ full_state = "READ"
has_space == read_pos # write_pos \/ full_state = "WRITE"

\* Positions, counted modulo the length of the buffer.
Wrap(p) == IF p >= Size THEN p - Size ELSE p

Least(a, b) == IF a < b THEN a ELSE b

\* self.buf[first:first + n].tobytes()
Bytes(first, n) == [i \in 1..n |-> ba[first + i - 1]]

\* A call returns s and leaves the reader at p; where the positions meet the
\* buffer is empty.
Return(s, p) ==
    /\ answer' = s
    /\ returned' = returned + Len(s)
    /\ read_pos' = p
    /\ full_state' = IF p = write_pos THEN "WRITE" ELSE full_state
    /\ UNCHANGED <<ba, write_pos, conn_ready, newlines, pulled>>

\* read(size): what lies before the end of the buffer, then, if that is not
\* enough and the data goes on at its beginning, the rest from there.
read(size) ==
    LET part == IF read_pos < write_pos THEN write_pos - read_pos ELSE Size - read_pos
        sz   == Least(size, part)
        npos == Wrap(read_pos + sz)
        more == IF write_pos <= read_pos /\ size > sz /\ npos < write_pos
                THEN Least(size - sz, write_pos - npos) ELSE 0 IN
    /\ has_data
    /\ asked' = size
    /\ Return(Bytes(read_pos, sz) \o Bytes(npos, more), npos + more)

\* Seeded fault: the byte before the end is not looked at.
FoundBefore(a, b) == {i \in 0..(Size - 1) : a <= i /\ i < b - 1 /\ ba[i] \in newlines}

\* The positions of the line feeds in self.ba from a up to, not including, b.
Found(a, b) == {i \in 0..(Size - 1) : a <= i /\ i < b /\ ba[i] \in newlines}

First(S) == CHOOSE i \in S : \A k \in S : i <= k

\* readline(): up to and with the first line feed, or everything.
readline ==
    LET there == Found(read_pos, IF read_pos < write_pos THEN write_pos ELSE Size)
        front == Found(0, write_pos)
        end   == IF front # {} THEN First(front) + 1 ELSE write_pos IN
    /\ has_data
    /\ asked' = 0
    /\ \/ /\ there # {}
          /\ Return(Bytes(read_pos, First(there) + 1 - read_pos), Wrap(First(there) + 1))
       \/ /\ there = {} /\ read_pos < write_pos
          /\ Return(Bytes(read_pos, write_pos - read_pos), write_pos)
       \/ /\ there = {} /\ write_pos <= read_pos
          /\ Return(Bytes(read_pos, Size - read_pos) \o Bytes(0, end), Wrap(end))

\* Seeded fault: the data that waits at the beginning is overwritten.
RoomToEnd == Size - write_pos

\* What recv_into() may write to without a second call.
Room == IF write_pos < read_pos THEN read_pos - write_pos ELSE Size - write_pos

\* recv_from(): the n bytes that a socket gives.
recv_from(n) ==
    /\ has_space /\ n <= Room
    /\ ba' = [i \in 0..(Size - 1) |->
                IF write_pos <= i /\ i < write_pos + n THEN pulled + 1 + i - write_pos ELSE ba[i]]
    /\ write_pos' = Wrap(write_pos + n)
    /\ full_state' = IF Wrap(write_pos + n) = read_pos THEN "READ" ELSE full_state
    /\ UNCHANGED read_pos

-------------------------------------------------------------------------------
(* Connection *)

\* recv(), recv_into() and readline() with data in the buffer: no other data.
Buffered ==
    /\ conn_ready
    /\ readline \/ \E size \in 1..(Size + 1) : read(size)

\* recv() and recv_into() with no data in the buffer.
Direct(n) ==
    /\ conn_ready /\ ~ has_data
    /\ asked' = n
    /\ pulled' = pulled + n /\ returned' = returned + n
    /\ answer' = [i \in 1..n |-> pulled + i]
    /\ UNCHANGED <<buffer, conn_ready, newlines>>

\* fill_read_buffer(), when there is space: http_request.py:239-240 fills an
\* empty buffer only.
Fill(n) ==
    /\ conn_ready
    /\ recv_from(n)
    /\ pulled' = pulled + n
    /\ asked' = 0 /\ answer' = <<>>
    /\ UNCHANGED <<conn_ready, newlines, returned>>

\* The peer has shut down: both ways of reading get nothing, and the
\* connection is closed.  recv_from() takes an empty buffer for a full one then.
PeerGone ==
    /\ conn_ready
    /\ conn_ready' = FALSE
    /\ asked' = 0 /\ answer' = <<>>
    /\ \/ ~ has_data /\ UNCHANGED buffer
       \/ recv_from(0)
    /\ UNCHANGED <<newlines, pulled, returned>>

BufferNext ==
    \/ Buffered \/ PeerGone
    \/ \E n \in 1..(MaxBytes - pulled) : Direct(n) \/ Fill(n)

BufferSpec == BufferInit /\ [][BufferNext]_buffer_vars

-------------------------------------------------------------------------------
(* Properties *)

\* The number of bytes in the buffer.
Count ==
    IF read_pos = write_pos THEN IF full_state = "READ" THEN Size ELSE 0
    ELSE IF read_pos < write_pos THEN write_pos - read_pos
    ELSE Size - (read_pos - write_pos)

\* The bytes in the buffer, the oldest first.
Held == [i \in 1..Count |-> ba[Wrap(read_pos + i - 1)]]

\* loop.py:36-116: the positions stay inside the buffer, and every variable
\* has its type.
BufferTypeOK ==
    /\ ba \in [0..(Size - 1) -> Stream \cup {0}]
    /\ read_pos \in 0..(Size - 1) /\ write_pos \in 0..(Size - 1)
    /\ full_state \in {"READ", "WRITE"}
    /\ conn_ready \in BOOLEAN /\ newlines \subseteq Stream
    /\ pulled \in 0..MaxBytes /\ returned \in 0..MaxBytes
    /\ asked \in 0..(Size + 1) \cup Stream /\ answer \in Seq(Stream)

\* loop.py:194-257: however the calls follow each other, the callers get the
\* bytes of the stream in their order, none twice and none left out: what was
\* returned, then what is in the buffer, is what was taken from the socket,
\* and the last answer is the end of what was returned; and the positions stay
\* inside the buffer (BufferTypeOK).
StreamKept ==
    /\ BufferTypeOK
    /\ conn_ready =>
        /\ pulled = returned + Count
        /\ \A i \in 1..Count : Held[i] = returned + i
        /\ \A i \in 1..Len(answer) : answer[i] = returned - Len(answer) + i

Abstract == INSTANCE ByteQueue WITH
    Capacity <- Size, queue <- IF conn_ready THEN Held ELSE <<>>

\* loop.py:36-116: the ring buffer is a queue of at most Size bytes; a line
\* ends at the first line feed wherever in the buffer it lies.
ImplementsByteQueue == Abstract!Spec
===============================================================================
