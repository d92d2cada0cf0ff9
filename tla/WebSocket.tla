------------------------------ MODULE WebSocket -------------------------------
(***************************************************************************)
(* A web socket of the content server, calibre/srv/web_socket.py, after    *)
(* its handshake: the loop of calibre/srv/loop.py, which reads and writes  *)
(* its frames, and another thread that sends messages through it, as       *)
(* calibre/srv/auto_reload.py does.                                        *)
(*                                                                         *)
(* The two share, without a lock, the queue of messages and wait_for, what *)
(* the loop asks select() for.  The sender puts its message, sets wait_for *)
(* and wakes the loop.  The loop, when it has handled an event, looks      *)
(* whether there is something to send, and then sets wait_for: these are   *)
(* steps of their own.                                                     *)
(*                                                                         *)
(* A message is sent in Parts frames.  What frames hold is left out, and   *)
(* so are time limits and exceptions.                                      *)
(***************************************************************************)
EXTENDS Integers, Sequences, SequencesExt

CONSTANTS
    Parts,          \* how many frames a message is sent in
    MaxMessages,    \* bound: how many messages are sent
    MaxPings,       \* bound: how many PINGs the peer sends
    None

\* A frame: the part of a message.
Frames == [message : 0..MaxMessages, part : 0..Parts]

ASSUME WebSocketAssumption ==
    /\ Parts \in Nat \ {0} /\ MaxMessages \in Nat /\ MaxPings \in Nat
    /\ None \notin Frames \cup Seq(Frames)

VARIABLES
    ready,
    sendq,              \* the messages that wait
    sending,            \* the frames that are left of a message, or None
    send_buf,           \* the frame that is being written, or None
    control_frames,
    ws_close_received, ws_close_sent, stop_reading,
    wait_for,
    at,                 \* what the loop does: "set", "idle", "events", "select", "closed"
    asked, events,      \* what it asked select() for, and what there is to handle
    control,            \* the bytes on its control socket
    sender,             \* what the sender does: "ready", "put" or "set"
    sent, pings,        \* how many messages, and PINGs, there were
    broken,             \* the peer broke the connection, or the server was shut down
    wire                \* what the peer has read

frames == <<sending, send_buf, control_frames>>
close  == <<ready, broken, ws_close_received, ws_close_sent, stop_reading>>
loop   == <<at, asked, events>>
other  == <<sender, sent>>
vars   == <<frames, close, loop, other, sendq, wait_for, control, pings, wire>>

READ  == {"read"}
WRITE == {"write"}
RDWR  == READ \cup WRITE

\* The frames of control are of no message.
PONG   == [message |-> 0, part |-> 1]
CLOSE  == [message |-> 0, part |-> 0]
FramesOf(m) == [i \in 1..Parts |-> [message |-> m, part |-> i]]

\* After handle_websocket_upgrade(), which may close the connection at once.
Init ==
    /\ ready = TRUE /\ broken = FALSE /\ ws_close_received = FALSE /\ ws_close_sent = FALSE
    /\ stop_reading \in BOOLEAN
    /\ control_frames = IF stop_reading THEN <<CLOSE>> ELSE <<>>
    /\ sendq = <<>> /\ sending = None /\ send_buf = None
    /\ wait_for = WRITE
    /\ at = "set" /\ asked = {} /\ events = {} /\ control = 0
    /\ sender = "ready" /\ sent = 0 /\ pings = 0 /\ wire = <<>>

-------------------------------------------------------------------------------
(* set_ws_state(), the last thing every handler calls *)

\* Once the connection is to be closed nothing more is read; there should be
\* something left to write.
WaitFor(wanted) ==
    /\ wait_for' = IF stop_reading /\ wanted = RDWR THEN WRITE ELSE wanted
    /\ ready' = (ready /\ ~ (stop_reading /\ wanted = READ))

Closing ==
    /\ wait_for' = IF ws_close_sent THEN wait_for ELSE WRITE
    /\ ready' = (ready /\ ~ ws_close_sent)
    /\ at' = "events"
    /\ UNCHANGED <<sendq, sending>>

\* Something is being sent, or is taken from the queue.
Busy ==
    /\ send_buf # None \/ sending # None \/ sendq # <<>>
    /\ WaitFor(RDWR)
    /\ at' = "events"
    /\ IF send_buf # None \/ sending # None THEN UNCHANGED <<sendq, sending>>
       ELSE sending' = FramesOf(Head(sendq)) /\ sendq' = Tail(sendq)

\* The queue is empty now.
Empty ==
    /\ send_buf = None /\ sending = None /\ sendq = <<>>
    /\ at' = "idle"
    /\ UNCHANGED <<ready, wait_for, sendq, sending>>

\* Seeded fault: the message that is being sent is forgotten between frames.
SetStateForgetful ==
    /\ at = "set"
    /\ IF ws_close_sent \/ ws_close_received THEN Closing
       ELSE IF send_buf # None THEN Busy
       ELSE IF sendq # <<>>
            THEN /\ WaitFor(RDWR) /\ at' = "events"
                 /\ sending' = FramesOf(Head(sendq)) /\ sendq' = Tail(sendq)
            ELSE at' = "idle" /\ UNCHANGED <<ready, wait_for, sendq, sending>>
    /\ UNCHANGED <<send_buf, control_frames, broken, ws_close_received, ws_close_sent,
                   stop_reading, asked, events, control, other, pings, wire>>

SetState ==
    /\ at = "set"
    /\ IF ws_close_sent \/ ws_close_received THEN Closing ELSE Busy \/ Empty
    /\ UNCHANGED <<send_buf, control_frames, broken, ws_close_received, ws_close_sent,
                   stop_reading, asked, events, control, other, pings, wire>>

\* Under cf_lock; the sender may have put a message meanwhile.
SetIdle ==
    /\ at = "idle"
    /\ WaitFor(IF control_frames # <<>> THEN RDWR ELSE READ)
    /\ at' = "events"
    /\ UNCHANGED <<frames, broken, ws_close_received, ws_close_sent, stop_reading, asked, events,
                   other, sendq, control, pings, wire>>

-------------------------------------------------------------------------------
(* Events *)

Ask ==
    /\ at = "events" /\ events = {} /\ ready
    /\ at' = "select" /\ asked' = wait_for
    /\ UNCHANGED <<frames, close, events, other, sendq, wait_for, control, pings, wire>>

\* select() returns with E; a byte on the control socket is taken.
Select(E) ==
    /\ at = "select"
    /\ E \subseteq asked
    /\ E # {} \/ control > 0
    /\ at' = "events" /\ events' = E
    /\ control' = IF control > 0 THEN control - 1 ELSE 0
    /\ UNCHANGED <<frames, close, asked, other, sendq, wait_for, pings, wire>>

\* There is data in the buffer: nothing else is looked for.
SelectBuffered ==
    /\ at = "select" /\ "read" \in asked
    /\ at' = "events" /\ events' = READ
    /\ UNCHANGED <<frames, close, asked, other, sendq, wait_for, control, pings, wire>>

Handles(event) ==
    /\ at = "events" /\ ready /\ event \in events
    /\ event = "read" \/ "read" \notin events
    /\ at' = "set" /\ events' = events \ {event}
    /\ UNCHANGED <<asked, other, sendq, wait_for, control>>

\* ws_read(): data, or part of a frame.
ReadData ==
    Handles("read") /\ UNCHANGED <<frames, close, pings, wire>>

\* ws_control_frame()
ReadPing ==
    /\ Handles("read") /\ ~ stop_reading
    /\ pings < MaxPings /\ pings' = pings + 1
    /\ control_frames' = Append(control_frames, PONG)
    /\ UNCHANGED <<sending, send_buf, close, wire>>

\* The peer's CLOSE is answered; what it should not have sent is too, by
\* websocket_close().
ReadClose(received) ==
    /\ Handles("read") /\ ~ stop_reading
    /\ stop_reading' = TRUE /\ ws_close_received' = received
    /\ control_frames' = Append(control_frames, CLOSE)
    /\ UNCHANGED <<sending, send_buf, ready, broken, ws_close_sent, pings, wire>>

PeerGone ==
    /\ \/ Handles("read") /\ ~ stop_reading
       \/ Handles("write") /\ send_buf # None
    /\ ready' = FALSE /\ broken' = TRUE
    /\ UNCHANGED <<frames, ws_close_received, ws_close_sent, stop_reading, pings, wire>>

\* ws_write(): a frame is begun; those of control come first.
NextFrame ==
    /\ Handles("write") /\ send_buf = None
    /\ IF control_frames # <<>>
       THEN /\ send_buf' = Head(control_frames) /\ control_frames' = Tail(control_frames)
            /\ UNCHANGED sending
       ELSE /\ UNCHANGED control_frames
            /\ IF sending \in {None, <<>>} THEN sending' = None /\ UNCHANGED send_buf
               ELSE sending' = Tail(sending) /\ send_buf' = Head(sending)
    /\ UNCHANGED <<close, pings, wire>>

\* Seeded fault: it is not noticed that this was a close frame.
WroteUnnoticed ==
    /\ Handles("write") /\ send_buf # None
    /\ send_buf' = None /\ wire' = Append(wire, send_buf)
    /\ UNCHANGED <<sending, control_frames, close, pings>>

\* The frame is written to its end.
Wrote ==
    /\ Handles("write") /\ send_buf # None
    /\ send_buf' = None /\ wire' = Append(wire, send_buf)
    /\ ws_close_sent' = (ws_close_sent \/ send_buf = CLOSE)
    /\ UNCHANGED <<sending, control_frames, ready, broken, ws_close_received, stop_reading, pings>>

WrotePart ==
    /\ Handles("write") /\ send_buf # None
    /\ UNCHANGED <<frames, close, pings, wire>>

\* close(): one attempt is made to write a close frame, but not into a frame.
\* The handler's lock keeps the sender out.
Close ==
    /\ at = "events" /\ ~ ready /\ sender = "ready"
    /\ at' = "closed"
    /\ \/ UNCHANGED wire
       \/ send_buf = None /\ ~ ws_close_sent /\ wire' = Append(wire, CLOSE)
    /\ UNCHANGED <<frames, close, asked, events, other, sendq, wait_for, control, pings>>

\* shutdown() of the loop
Shutdown ==
    /\ at = "events" /\ events = {} /\ ready
    /\ ready' = FALSE /\ broken' = TRUE
    /\ UNCHANGED <<frames, ws_close_received, ws_close_sent, stop_reading, loop, other, sendq,
                   wait_for, control, pings, wire>>

-------------------------------------------------------------------------------
(* send_websocket_message(), in another thread *)

Put ==
    /\ sender = "ready" /\ ready /\ sent < MaxMessages
    /\ sendq' = Append(sendq, sent + 1) /\ sent' = sent + 1
    /\ sender' = "put"
    /\ UNCHANGED <<frames, close, loop, wait_for, control, pings, wire>>

SetWaitFor ==
    /\ sender = "put"
    /\ wait_for' = RDWR
    /\ sender' = "set"
    /\ UNCHANGED <<frames, close, loop, sent, sendq, control, pings, wire>>

Wake ==
    /\ sender = "set"
    /\ control' = control + 1
    /\ sender' = "ready"
    /\ UNCHANGED <<frames, close, loop, sent, sendq, wait_for, pings, wire>>

-------------------------------------------------------------------------------

Read    == ReadData \/ ReadPing \/ ReadClose(TRUE) \/ ReadClose(FALSE)
Write   == NextFrame \/ Wrote \/ WrotePart
Handler == SetState \/ SetIdle \/ Ask \/ Read \/ Write \/ Close
Sender  == Put \/ SetWaitFor \/ Wake

Next ==
    \/ Handler \/ PeerGone \/ Shutdown \/ Sender \/ SelectBuffered
    \/ \E E \in SUBSET RDWR : Select(E)

Spec == Init /\ [][Next]_vars

Writable == \E E \in SUBSET RDWR : "write" \in E /\ Select(E)
Woken    == control > 0 /\ \E E \in SUBSET RDWR : Select(E)

\* The two threads are scheduled, the peer reads what it is sent, and buffers are
\* empty again and again.  The peer need not send anything.
FairSpec ==
    /\ Spec
    /\ WF_vars(Handler) /\ WF_vars(SetWaitFor \/ Wake)
    /\ SF_vars(Wrote) /\ SF_vars(Writable) /\ SF_vars(Woken)

-------------------------------------------------------------------------------
(* Properties *)

\* Every variable has its type.
TypeOK ==
    /\ ready \in BOOLEAN /\ broken \in BOOLEAN /\ stop_reading \in BOOLEAN
    /\ ws_close_received \in BOOLEAN /\ ws_close_sent \in BOOLEAN
    /\ sendq \in Seq(1..MaxMessages) /\ control_frames \in Seq({PONG, CLOSE})
    /\ sending \in Seq(Frames) \cup {None} /\ send_buf \in Frames \cup {None}
    /\ wait_for \in {READ, WRITE, RDWR}
    /\ at \in {"set", "idle", "events", "select", "closed"}
    /\ asked \subseteq RDWR /\ events \subseteq RDWR /\ control \in 0..MaxMessages
    /\ sender \in {"ready", "put", "set"} /\ sent \in 0..MaxMessages /\ pings \in 0..MaxPings
    /\ wire \in Seq(Frames)

MessageFrames(s) == SelectSeq(s, LAMBDA f : f.message # 0)

\* What the loop has written or begun to write; the message that it took from
\* the queue last, and how many of its frames are not begun.
Out  == wire \o (IF send_buf = None THEN <<>> ELSE <<send_buf>>)
Latest == sent - Len(sendq)
Left == IF sending = None THEN 0 ELSE Len(sending)

Before(f, g) == f.message < g.message \/ (f.message = g.message /\ f.part < g.part)

\* web_socket.py:303-332, 424-446 and 459-475: whatever control frames come
\* between them, the peer gets the frames of the messages complete, once and in
\* the order in which they were sent, and nothing after a close frame; what it
\* has not got yet is there to be sent.
MessagesInOrder ==
    LET data == {i \in 1..Len(Out) : Out[i].message # 0} IN
    /\ TypeOK
    /\ {Out[i] : i \in data} = {f \in [message : 1..Latest, part : 1..Parts] :
                                  f.message < Latest \/ f.part <= Parts - Left}
    /\ \A i, j \in data : i < j => Before(Out[i], Out[j])
    /\ \A k \in 1..Left : sending[k] = [message |-> Latest, part |-> Parts - Left + k]
    /\ \A k \in 1..Len(sendq) : sendq[k] = Latest + k
    /\ \A i \in 1..Len(wire) : wire[i] = CLOSE => i = Len(wire)

\* web_socket.py:323-330 and 481-484: the loop has overwritten the wait_for of a
\* message that came while it found the queue empty, and sleeps.
Overslept ==
    /\ at = "select" /\ asked = READ /\ control = 0 /\ sender = "ready"
    /\ sending = None /\ send_buf = None /\ sendq # <<>>

\* web_socket.py:341-347 and 478-484: whether or not the peer ever sends a thing, a
\* message is written to its end unless the connection ends, or unless from some
\* moment on it is overslept, before its first frame, and nothing at all happens on
\* the connection any more: no event, and no other message that takes it along.
EveryMessageSent ==
    \A m \in 1..MaxMessages :
        sent >= m ~> \/ ~ ready \/ Len(MessageFrames(wire)) >= m * Parts
                     \/ [](Overslept /\ m > Latest)

\* web_socket.py:303-313, 392-413, 424-436 and 459-473: once either side closes,
\* the peer breaks the connection or the server is shut down, the connection ends,
\* whatever was queued; and the peer was sent a close frame, unless it broke the
\* connection or the server was shut down before that was its turn.
CloseCompletes ==
    stop_reading \/ ~ ready ~> at = "closed" /\ (broken \/ CLOSE \in ToSet(wire))
===============================================================================
