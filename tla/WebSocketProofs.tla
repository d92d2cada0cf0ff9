--------------------------- MODULE WebSocketProofs ----------------------------
(***************************************************************************)
(* Messages arrive complete, once and in order through a web socket,       *)
(* however many messages and PINGs there are and in however many frames a  *)
(* message is sent, and nothing follows a close frame.                     *)
(***************************************************************************)
EXTENDS WebSocket, TLAPS

-------------------------------------------------------------------------------
(* What has been begun of the stream of frames *)

\* The frames of messages in out are those of the messages before latest, and
\* of latest itself all but the last left ones, in order.
Frame(out, i) == i \in 1..Len(out) /\ out[i].message # 0

Begun(latest, left) ==
    {f \in [message : 1..latest, part : 1..Parts] :
        f.message < latest \/ f.part <= Parts - left}

InOrder(out, latest, left) ==
    /\ \A i : Frame(out, i) => out[i] \in Begun(latest, left)
    /\ \A f \in Begun(latest, left) : \E i : Frame(out, i) /\ out[i] = f
    /\ \A i, j : Frame(out, i) /\ Frame(out, j) /\ i < j => Before(out[i], out[j])

LEMMA AppendFrames ==
    ASSUME NEW out \in Seq(Frames), NEW f \in Frames
    PROVE  /\ \A i : Frame(Append(out, f), i)
                       <=> Frame(out, i) \/ (i = Len(out) + 1 /\ f.message # 0)
           /\ \A i : Frame(out, i) => i \in 1..Len(out) /\ Append(out, f)[i] = out[i]
           /\ Append(out, f)[Len(out) + 1] = f
           /\ Append(out, f) \in Seq(Frames)
  BY DEF Frame

\* A control frame may come between any two frames.
LEMMA ControlBetween ==
    ASSUME NEW out \in Seq(Frames), NEW c \in {PONG, CLOSE},
           NEW latest \in Nat, NEW left \in 0..Parts, InOrder(out, latest, left)
    PROVE  InOrder(Append(out, c), latest, left)
  <1>1. c \in Frames /\ c.message = 0
    BY WebSocketAssumption DEF PONG, CLOSE, Frames
  <1>2. \A i : Frame(Append(out, c), i) <=> Frame(out, i)
    BY <1>1, AppendFrames
  <1>3. \A i : Frame(out, i) => i \in 1..Len(out) /\ Append(out, c)[i] = out[i]
    BY <1>1, AppendFrames
  <1>. QED BY <1>2, <1>3 DEF InOrder

\* The next frame of the message that is being sent keeps the order.
LEMMA NextInOrder ==
    ASSUME NEW out \in Seq(Frames), NEW latest \in 1..MaxMessages, NEW left \in 1..Parts,
           InOrder(out, latest, left), NEW f \in Frames,
           f = [message |-> latest, part |-> Parts - left + 1]
    PROVE  InOrder(Append(out, f), latest, left - 1)
  <1>1. /\ f.message = latest /\ f.message # 0 /\ f.part = Parts - left + 1
        /\ left \in Nat /\ Parts \in Nat /\ latest \in Nat /\ MaxMessages \in Nat
    BY WebSocketAssumption
  <1>2. Begun(latest, left - 1) = Begun(latest, left) \cup {f}
    <2>1. ASSUME NEW g \in Begun(latest, left - 1), g \notin Begun(latest, left) PROVE g = f
      <3>1. /\ g \in [message : 1..latest, part : 1..Parts]
            /\ ~ (g.message < latest) /\ g.part <= Parts - left + 1
            /\ ~ (g.part <= Parts - left)
        BY <1>1, <2>1 DEF Begun
      <3>2. g.message = latest /\ g.part = Parts - left + 1
        BY <1>1, <3>1
      <3>3. g = [message |-> g.message, part |-> g.part]
        BY <3>1
      <3>. QED BY <3>2, <3>3
    <2>2. f \in Begun(latest, left - 1)
      BY <1>1 DEF Begun
    <2>3. Begun(latest, left) \subseteq Begun(latest, left - 1)
      BY <1>1 DEF Begun
    <2>. QED BY <2>1, <2>2, <2>3
  <1>3. \A g \in Begun(latest, left) : Before(g, f)
    BY <1>1 DEF Begun, Before
  <1>4. /\ \A i : Frame(Append(out, f), i) <=> Frame(out, i) \/ i = Len(out) + 1
        /\ \A i : Frame(out, i) => i \in 1..Len(out) /\ Append(out, f)[i] = out[i]
        /\ Append(out, f)[Len(out) + 1] = f
        /\ Len(out) \in Nat
    BY <1>1, AppendFrames
  <1>5. \A i : Frame(Append(out, f), i) => Append(out, f)[i] \in Begun(latest, left - 1)
    BY <1>2, <1>4 DEF InOrder
  <1>6. \A g \in Begun(latest, left - 1) :
            \E i : Frame(Append(out, f), i) /\ Append(out, f)[i] = g
    BY <1>2, <1>4 DEF InOrder
  <1>7. ASSUME NEW i, NEW j, Frame(Append(out, f), i), Frame(Append(out, f), j), i < j
        PROVE  Before(Append(out, f)[i], Append(out, f)[j])
    <2>1. Frame(out, i)
      BY <1>4, <1>7
    <2>2. CASE Frame(out, j)
      BY <1>4, <1>7, <2>1, <2>2 DEF InOrder
    <2>3. CASE j = Len(out) + 1
      BY <1>3, <1>4, <2>1, <2>3 DEF InOrder
    <2>. QED BY <1>4, <1>7, <2>2, <2>3
  <1>. QED BY <1>5, <1>6, <1>7 DEF InOrder

\* Taking the next message from the queue begins none of its frames.
LEMMA TakeInOrder ==
    ASSUME NEW latest \in Nat
    PROVE  Begun(latest + 1, Parts) = Begun(latest, 0)
  BY WebSocketAssumption DEF Begun

-------------------------------------------------------------------------------
(* The inductive invariant *)

\* Every byte on the control socket is of a message of its own.
Bytes == control + (IF sender = "ready" THEN 0 ELSE 1) <= sent

\* What is left of the latest message and what is queued follow in order.
Queued ==
    /\ Latest \in 0..MaxMessages /\ Left \in 0..Parts
    /\ Latest = 0 => Left = 0
    /\ \A k \in 1..Left : sending[k] = [message |-> Latest, part |-> Parts - Left + k]
    /\ \A k \in 1..Len(sendq) : sendq[k] = Latest + k

\* Nothing is written any more once a close frame was.
ClosedForGood ==
    /\ ws_close_sent => at = "set" \/ ~ ready
    /\ at = "closed" => ~ ready
    /\ \A i \in 1..Len(wire) : wire[i] = CLOSE => i = Len(wire) /\ (ws_close_sent \/ at = "closed")

IInv ==
    /\ TypeOK /\ Bytes /\ Queued /\ ClosedForGood
    /\ InOrder(Out, Latest, Left)

LEMMA OutFacts ==
    ASSUME TypeOK
    PROVE  /\ Out \in Seq(Frames)
           /\ send_buf = None => Out = wire
           /\ send_buf # None => Out = Append(wire, send_buf)
  <1>1. wire \in Seq(Frames) /\ (send_buf # None => send_buf \in Frames)
    BY DEF TypeOK
  <1>2. CASE send_buf = None
    BY <1>1, <1>2 DEF Out
  <1>3. CASE send_buf # None
    BY <1>1, <1>3 DEF Out
  <1>. QED BY <1>2, <1>3

LEMMA IInvImplies == IInv => MessagesInOrder
  <1>. SUFFICES ASSUME IInv PROVE MessagesInOrder
    OBVIOUS
  <1>. DEFINE data == {i \in 1..Len(Out) : Out[i].message # 0}
  <1>1. \A i : i \in data <=> Frame(Out, i)
    BY DEF Frame
  <1>2. {Out[i] : i \in data} = Begun(Latest, Left)
    BY <1>1 DEF IInv, InOrder
  <1>3. \A i, j \in data : i < j => Before(Out[i], Out[j])
    BY <1>1 DEF IInv, InOrder
  <1>. QED BY <1>2, <1>3 DEF MessagesInOrder, Begun, IInv, Queued, ClosedForGood

LEMMA InitIInv == Init => IInv
  <1>. SUFFICES ASSUME Init PROVE IInv
    OBVIOUS
  <1>1. TypeOK
    <2>1. control_frames \in Seq({PONG, CLOSE}) /\ stop_reading \in BOOLEAN
      <3>1. <<CLOSE>> \in Seq({PONG, CLOSE}) /\ <<>> \in Seq({PONG, CLOSE})
        OBVIOUS
      <3>. QED BY <3>1 DEF Init
    <2>2. wait_for \in {READ, WRITE, RDWR} /\ asked \subseteq RDWR /\ events \subseteq RDWR
      BY DEF Init
    <2>3. /\ control \in 0..MaxMessages /\ sent \in 0..MaxMessages /\ pings \in 0..MaxPings
          /\ sendq \in Seq(1..MaxMessages) /\ wire \in Seq(Frames)
      BY WebSocketAssumption DEF Init
    <2>. QED BY <2>1, <2>2, <2>3 DEF Init, TypeOK
  <1>2. Out = <<>> /\ Latest = 0 /\ Left = 0
    <2>1. Out = <<>>
      BY DEF Init, Out
    <2>2. Latest = 0
      <3>1. sent = 0 /\ Len(sendq) = 0
        BY DEF Init
      <3>. QED BY <3>1 DEF Latest
    <2>3. Left = 0
      BY DEF Init, Left
    <2>. QED BY <2>1, <2>2, <2>3
  <1>3. Queued /\ Bytes /\ ClosedForGood
    BY <1>2, WebSocketAssumption DEF Init, Queued, Bytes, ClosedForGood
  <1>4. InOrder(Out, Latest, Left)
    BY <1>2 DEF InOrder, Frame, Begun
  <1>. QED BY <1>1, <1>3, <1>4 DEF IInv

LEMMA NextIInv == IInv /\ [Next]_vars => IInv'
  <1>. SUFFICES ASSUME IInv, [Next]_vars PROVE IInv'
    OBVIOUS
  <1>. USE WebSocketAssumption DEF frames, close, loop, other
  <1>0. /\ TypeOK /\ Bytes /\ Queued /\ ClosedForGood /\ InOrder(Out, Latest, Left)
        /\ Out \in Seq(Frames) /\ Latest \in 0..MaxMessages /\ Left \in 0..Parts
    BY OutFacts DEF IInv, Queued
  <1>1. ASSUME SetState PROVE IInv'
    <2>1. /\ UNCHANGED <<send_buf, control_frames, broken, ws_close_received, ws_close_sent,
                       stop_reading, asked, events, control, other, pings, wire>>
          /\ ready' \in BOOLEAN /\ (ready' => ready)
          /\ wait_for' \in {READ, WRITE, RDWR}
          /\ at = "set" /\ at' \in {"idle", "events"}
          /\ ws_close_sent => ~ ready'
      BY <1>0, <1>1 DEF SetState, Closing, Busy, Empty, WaitFor, READ, WRITE, RDWR, TypeOK
    <2>2. Bytes' /\ ClosedForGood'
      BY <1>0, <2>1 DEF Bytes, ClosedForGood
    <2>3. CASE UNCHANGED <<sendq, sending>>
      <3>1. TypeOK'
        BY <1>0, <2>1, <2>3 DEF TypeOK
      <3>2. UNCHANGED <<Out, Latest, Left>>
        BY <2>1, <2>3 DEF Out, Latest, Left
      <3>3. Queued'
        BY <1>0, <2>3, <3>2 DEF Queued
      <3>4. InOrder(Out, Latest, Left)'
        BY <1>0, <3>2 DEF InOrder, Begun, Frame
      <3>. QED BY <2>2, <3>1, <3>3, <3>4 DEF IInv
    <2>4. CASE /\ send_buf = None /\ sending = None /\ sendq # <<>>
               /\ sending' = FramesOf(Head(sendq)) /\ sendq' = Tail(sendq)
      <3>1. /\ sendq \in Seq(1..MaxMessages) /\ Len(sendq) \in Nat \ {0} /\ sent \in Nat
            /\ Head(sendq) = sendq[1] /\ sendq[1] \in 1..MaxMessages
            /\ Tail(sendq) \in Seq(1..MaxMessages) /\ Len(Tail(sendq)) = Len(sendq) - 1
            /\ \A k \in 1..Len(sendq) - 1 : Tail(sendq)[k] = sendq[k + 1]
        BY <1>0, <2>4 DEF TypeOK
      <3>2. Head(sendq) = Latest + 1
        BY <1>0, <3>1 DEF Queued
      <3>3. Latest' = Latest + 1
        BY <1>0, <2>1, <2>4, <3>1 DEF Latest
      <3>4. /\ sending' \in Seq(Frames) /\ Len(sending') = Parts
            /\ \A k \in 1..Parts : sending'[k] = [message |-> Latest', part |-> k]
        BY <2>4, <3>1, <3>2, <3>3 DEF FramesOf, Frames
      <3>5. Left = 0 /\ Left' = Parts
        BY <2>4, <3>4 DEF Left
      <3>6. TypeOK'
        BY <1>0, <2>1, <2>4, <3>1, <3>4 DEF TypeOK
      <3>7. Queued'
        <4>1. Latest' \in 0..MaxMessages /\ Latest' # 0 /\ Left' \in 0..Parts
          BY <1>0, <3>1, <3>2, <3>3, <3>5
        <4>2. \A k \in 1..Left' : sending'[k] = [message |-> Latest', part |-> Parts - Left' + k]
          BY <3>4, <3>5
        <4>3. ASSUME NEW k \in 1..Len(sendq') PROVE sendq'[k] = Latest' + k
          <5>1. k + 1 \in 1..Len(sendq) /\ sendq'[k] = sendq[k + 1]
            BY <2>4, <3>1
          <5>2. sendq[k + 1] = Latest + (k + 1)
            BY <1>0, <5>1 DEF Queued
          <5>. QED BY <1>0, <3>3, <5>1, <5>2
        <4>. QED BY <4>1, <4>2, <4>3 DEF Queued
      <3>8. InOrder(Out, Latest, Left)'
        <4>1. Out' = Out /\ Begun(Latest', Left') = Begun(Latest, Left)
          BY <1>0, <2>1, <3>3, <3>5, TakeInOrder DEF Out
        <4>. QED BY <1>0, <4>1 DEF InOrder, Frame
      <3>. QED BY <2>2, <3>6, <3>7, <3>8 DEF IInv
    <2>. QED BY <1>1, <2>3, <2>4 DEF SetState, Closing, Busy, Empty
  <1>2. ASSUME SetIdle PROVE IInv'
    <2>1. TypeOK'
      BY <1>0, <1>2 DEF SetIdle, WaitFor, READ, WRITE, RDWR, TypeOK, Bytes
    <2>2. Bytes'
      BY <1>0, <1>2 DEF SetIdle, WaitFor, READ, WRITE, RDWR, TypeOK, Bytes
    <2>3. Queued'
      BY <1>0, <1>2 DEF SetIdle, WaitFor, READ, WRITE, RDWR, TypeOK, Queued, Latest, Left
    <2>4. ClosedForGood'
      BY <1>0, <1>2 DEF SetIdle, WaitFor, READ, WRITE, RDWR, TypeOK, ClosedForGood
    <2>5. InOrder(Out, Latest, Left)'
      <3>1. UNCHANGED <<Out, Latest, Left>>
        BY <1>0, <1>2 DEF SetIdle, WaitFor, READ, WRITE, RDWR, Out, Latest, Left
      <3>. QED BY <1>0, <3>1 DEF InOrder, Begun, Frame
    <2>. QED BY <2>1, <2>2, <2>3, <2>4, <2>5 DEF IInv
  <1>3. ASSUME Ask PROVE IInv'
    <2>1. TypeOK'
      BY <1>0, <1>3 DEF Ask, READ, WRITE, RDWR, TypeOK, Bytes
    <2>2. Bytes'
      BY <1>0, <1>3 DEF Ask, READ, WRITE, RDWR, TypeOK, Bytes
    <2>3. Queued'
      BY <1>0, <1>3 DEF Ask, READ, WRITE, RDWR, TypeOK, Queued, Latest, Left
    <2>4. ClosedForGood'
      BY <1>0, <1>3 DEF Ask, READ, WRITE, RDWR, TypeOK, ClosedForGood
    <2>5. InOrder(Out, Latest, Left)'
      <3>1. UNCHANGED <<Out, Latest, Left>>
        BY <1>0, <1>3 DEF Ask, READ, WRITE, RDWR, Out, Latest, Left
      <3>. QED BY <1>0, <3>1 DEF InOrder, Begun, Frame
    <2>. QED BY <2>1, <2>2, <2>3, <2>4, <2>5 DEF IInv
  <1>4. ASSUME NEW E \in SUBSET RDWR, Select(E) PROVE IInv'
    <2>1. TypeOK'
      BY <1>0, <1>4 DEF Select, READ, WRITE, RDWR, TypeOK, Bytes
    <2>2. Bytes'
      BY <1>0, <1>4 DEF Select, READ, WRITE, RDWR, TypeOK, Bytes
    <2>3. Queued'
      BY <1>0, <1>4 DEF Select, READ, WRITE, RDWR, TypeOK, Queued, Latest, Left
    <2>4. ClosedForGood'
      BY <1>0, <1>4 DEF Select, READ, WRITE, RDWR, TypeOK, ClosedForGood
    <2>5. InOrder(Out, Latest, Left)'
      <3>1. UNCHANGED <<Out, Latest, Left>>
        BY <1>0, <1>4 DEF Select, READ, WRITE, RDWR, Out, Latest, Left
      <3>. QED BY <1>0, <3>1 DEF InOrder, Begun, Frame
    <2>. QED BY <2>1, <2>2, <2>3, <2>4, <2>5 DEF IInv
  <1>5. ASSUME ReadData PROVE IInv'
    <2>1. TypeOK'
      BY <1>0, <1>5 DEF ReadData, Handles, TypeOK, Bytes
    <2>2. Bytes'
      BY <1>0, <1>5 DEF ReadData, Handles, TypeOK, Bytes
    <2>3. Queued'
      BY <1>0, <1>5 DEF ReadData, Handles, TypeOK, Queued, Latest, Left
    <2>4. ClosedForGood'
      BY <1>0, <1>5 DEF ReadData, Handles, TypeOK, ClosedForGood
    <2>5. InOrder(Out, Latest, Left)'
      <3>1. UNCHANGED <<Out, Latest, Left>>
        BY <1>0, <1>5 DEF ReadData, Handles, Out, Latest, Left
      <3>. QED BY <1>0, <3>1 DEF InOrder, Begun, Frame
    <2>. QED BY <2>1, <2>2, <2>3, <2>4, <2>5 DEF IInv
  <1>6. ASSUME ReadPing PROVE IInv'
    <2>1. TypeOK'
      BY <1>0, <1>6 DEF ReadPing, Handles, TypeOK, Bytes
    <2>2. Bytes'
      BY <1>0, <1>6 DEF ReadPing, Handles, TypeOK, Bytes
    <2>3. Queued'
      BY <1>0, <1>6 DEF ReadPing, Handles, TypeOK, Queued, Latest, Left
    <2>4. ClosedForGood'
      BY <1>0, <1>6 DEF ReadPing, Handles, TypeOK, ClosedForGood
    <2>5. InOrder(Out, Latest, Left)'
      <3>1. UNCHANGED <<Out, Latest, Left>>
        BY <1>0, <1>6 DEF ReadPing, Handles, Out, Latest, Left
      <3>. QED BY <1>0, <3>1 DEF InOrder, Begun, Frame
    <2>. QED BY <2>1, <2>2, <2>3, <2>4, <2>5 DEF IInv
  <1>7. ASSUME NEW received \in BOOLEAN, ReadClose(received) PROVE IInv'
    <2>1. TypeOK'
      BY <1>0, <1>7 DEF ReadClose, Handles, TypeOK, Bytes
    <2>2. Bytes'
      BY <1>0, <1>7 DEF ReadClose, Handles, TypeOK, Bytes
    <2>3. Queued'
      BY <1>0, <1>7 DEF ReadClose, Handles, TypeOK, Queued, Latest, Left
    <2>4. ClosedForGood'
      BY <1>0, <1>7 DEF ReadClose, Handles, TypeOK, ClosedForGood
    <2>5. InOrder(Out, Latest, Left)'
      <3>1. UNCHANGED <<Out, Latest, Left>>
        BY <1>0, <1>7 DEF ReadClose, Handles, Out, Latest, Left
      <3>. QED BY <1>0, <3>1 DEF InOrder, Begun, Frame
    <2>. QED BY <2>1, <2>2, <2>3, <2>4, <2>5 DEF IInv
  <1>8. ASSUME PeerGone PROVE IInv'
    <2>1. TypeOK'
      BY <1>0, <1>8 DEF PeerGone, Handles, TypeOK, Bytes
    <2>2. Bytes'
      BY <1>0, <1>8 DEF PeerGone, Handles, TypeOK, Bytes
    <2>3. Queued'
      BY <1>0, <1>8 DEF PeerGone, Handles, TypeOK, Queued, Latest, Left
    <2>4. ClosedForGood'
      BY <1>0, <1>8 DEF PeerGone, Handles, TypeOK, ClosedForGood
    <2>5. InOrder(Out, Latest, Left)'
      <3>1. UNCHANGED <<Out, Latest, Left>>
        BY <1>0, <1>8 DEF PeerGone, Handles, Out, Latest, Left
      <3>. QED BY <1>0, <3>1 DEF InOrder, Begun, Frame
    <2>. QED BY <2>1, <2>2, <2>3, <2>4, <2>5 DEF IInv
  <1>9. ASSUME NextFrame PROVE IInv'
    <2>1. /\ send_buf = None /\ at = "events" /\ ready /\ at' = "set" /\ events' \subseteq events
          /\ UNCHANGED <<close, asked, other, sendq, wait_for, control, pings, wire>>
      BY <1>9 DEF NextFrame, Handles
    <2>2. Bytes' /\ ClosedForGood'
      BY <1>0, <2>1 DEF Bytes, ClosedForGood
    <2>3. Latest' = Latest /\ Out = wire
      BY <1>0, <2>1, OutFacts DEF Latest
    <2>4. CASE /\ control_frames # <<>>
               /\ send_buf' = Head(control_frames) /\ control_frames' = Tail(control_frames)
               /\ UNCHANGED sending
      <3>1. /\ send_buf' \in {PONG, CLOSE} /\ control_frames' \in Seq({PONG, CLOSE})
            /\ {PONG, CLOSE} \subseteq Frames
        <4>1. control_frames \in Seq({PONG, CLOSE})
          BY <1>0 DEF TypeOK
        <4>2. PONG \in Frames /\ CLOSE \in Frames
          BY DEF PONG, CLOSE, Frames
        <4>. QED BY <2>4, <4>1, <4>2
      <3>2. TypeOK'
        BY <1>0, <2>1, <2>4, <3>1 DEF TypeOK
      <3>3. Left' = Left
        BY <2>4 DEF Left
      <3>4. Queued'
        BY <1>0, <2>1, <2>3, <2>4, <3>3 DEF Queued
      <3>5. Out' = Append(Out, send_buf')
        BY <2>1, <2>3, <3>1, <3>2, OutFacts, WebSocketAssumption DEF Out
      <3>6. InOrder(Out', Latest', Left')
        BY <1>0, <2>3, <3>1, <3>3, <3>5, ControlBetween
      <3>. QED BY <2>2, <3>2, <3>4, <3>6 DEF IInv, InOrder, Begun, Frame
    <2>5. CASE sending \in {None, <<>>} /\ sending' = None /\ UNCHANGED <<send_buf, control_frames>>
      <3>1. TypeOK'
        BY <1>0, <2>1, <2>5 DEF TypeOK
      <3>2. UNCHANGED <<Out, Latest, Left>>
        BY <2>1, <2>3, <2>5 DEF Out, Left
      <3>3. Queued'
        BY <1>0, <2>1, <2>5, <3>2 DEF Queued, Left
      <3>4. InOrder(Out, Latest, Left)'
        BY <1>0, <3>2 DEF InOrder, Begun, Frame
      <3>. QED BY <2>2, <3>1, <3>3, <3>4 DEF IInv
    <2>6. CASE /\ sending \notin {None, <<>>} /\ UNCHANGED control_frames
               /\ sending' = Tail(sending) /\ send_buf' = Head(sending)
      <3>1. /\ sending \in Seq(Frames) /\ Len(sending) \in Nat \ {0}
            /\ Head(sending) = sending[1] /\ sending[1] \in Frames
            /\ Tail(sending) \in Seq(Frames) /\ Len(Tail(sending)) = Len(sending) - 1
            /\ \A k \in 1..Len(sending) - 1 : Tail(sending)[k] = sending[k + 1]
        BY <1>0, <2>6 DEF TypeOK
      <3>2. TypeOK'
        BY <1>0, <2>1, <2>6, <3>1 DEF TypeOK
      <3>3. Left = Len(sending) /\ Left' = Left - 1 /\ Left \in 1..Parts
        <4>1. sending # None /\ sending' # None
          BY <2>6, <3>1
        <4>. QED BY <1>0, <2>6, <3>1, <4>1 DEF Left
      <3>4. Latest \in 1..MaxMessages /\ send_buf' \in Frames
            /\ send_buf' = [message |-> Latest, part |-> Parts - Left + 1]
        BY <1>0, <2>6, <3>1, <3>3 DEF Queued
      <3>5. Queued'
        <4>1. \A k \in 1..Left' : sending'[k] = [message |-> Latest, part |-> Parts - Left' + k]
          <5>1. ASSUME NEW k \in 1..Left'
                PROVE  sending'[k] = [message |-> Latest, part |-> Parts - Left' + k]
            <6>1. k + 1 \in 1..Left /\ k \in 1..Len(sending) - 1
              BY <3>3
            <6>2. sending[k + 1] = [message |-> Latest, part |-> Parts - Left + (k + 1)]
              BY <1>0, <6>1 DEF Queued
            <6>3. Parts - Left + (k + 1) = Parts - Left' + k
              BY <3>3, <6>1
            <6>. QED BY <2>6, <3>1, <6>1, <6>2, <6>3
          <5>. QED BY <5>1
        <4>. QED BY <1>0, <2>1, <2>3, <3>3, <3>4, <4>1 DEF Queued
      <3>6. Out' = Append(Out, send_buf')
        BY <2>1, <2>3, <3>2, <3>4, OutFacts, WebSocketAssumption DEF Out
      <3>7. InOrder(Out', Latest', Left')
        BY <1>0, <2>3, <3>3, <3>4, <3>6, NextInOrder
      <3>. QED BY <2>2, <3>2, <3>5, <3>7 DEF IInv, InOrder, Begun, Frame
    <2>. QED BY <1>9, <2>4, <2>5, <2>6 DEF NextFrame
  <1>10. ASSUME Wrote PROVE IInv'
    <2>1. TypeOK'
      BY <1>0, <1>10 DEF Wrote, Handles, TypeOK, Bytes
    <2>2. Bytes'
      BY <1>0, <1>10 DEF Wrote, Handles, TypeOK, Bytes
    <2>3. Queued'
      BY <1>0, <1>10 DEF Wrote, Handles, TypeOK, Queued, Latest, Left
    <2>4. ClosedForGood'
      <3>1. /\ at = "events" /\ ready /\ send_buf # None /\ wire' = Append(wire, send_buf)
            /\ ws_close_sent' = (ws_close_sent \/ send_buf = CLOSE) /\ at' = "set"
        BY <1>10 DEF Wrote, Handles
      <3>2. wire \in Seq(Frames) /\ send_buf \in Frames
        BY <1>0, <3>1 DEF TypeOK
      <3>3. /\ Len(wire') = Len(wire) + 1 /\ wire'[Len(wire) + 1] = send_buf
            /\ \A i \in 1..Len(wire) : wire'[i] = wire[i] /\ wire[i] # CLOSE
            /\ Len(wire) \in Nat
        BY <1>0, <3>1, <3>2 DEF ClosedForGood
      <3>4. \A i \in 1..Len(wire') : i \in 1..Len(wire) \/ i = Len(wire')
        BY <3>3
      <3>5. \A i \in 1..Len(wire') : wire'[i] = CLOSE => i = Len(wire') /\ ws_close_sent'
        BY <3>1, <3>3, <3>4
      <3>. QED BY <3>1, <3>5 DEF ClosedForGood
    <2>5. InOrder(Out, Latest, Left)'
      <3>1. UNCHANGED <<Out, Latest, Left>>
        BY <1>0, <1>10 DEF Wrote, Handles, Out, Latest, Left
      <3>. QED BY <1>0, <3>1 DEF InOrder, Begun, Frame
    <2>. QED BY <2>1, <2>2, <2>3, <2>4, <2>5 DEF IInv
  <1>11. ASSUME WrotePart PROVE IInv'
    <2>1. TypeOK'
      BY <1>0, <1>11 DEF WrotePart, Handles, TypeOK, Bytes
    <2>2. Bytes'
      BY <1>0, <1>11 DEF WrotePart, Handles, TypeOK, Bytes
    <2>3. Queued'
      BY <1>0, <1>11 DEF WrotePart, Handles, TypeOK, Queued, Latest, Left
    <2>4. ClosedForGood'
      BY <1>0, <1>11 DEF WrotePart, Handles, TypeOK, ClosedForGood
    <2>5. InOrder(Out, Latest, Left)'
      <3>1. UNCHANGED <<Out, Latest, Left>>
        BY <1>0, <1>11 DEF WrotePart, Handles, Out, Latest, Left
      <3>. QED BY <1>0, <3>1 DEF InOrder, Begun, Frame
    <2>. QED BY <2>1, <2>2, <2>3, <2>4, <2>5 DEF IInv
  <1>12. ASSUME Close PROVE IInv'
    <2>1. /\ at = "events" /\ ~ ready /\ sender = "ready" /\ at' = "closed"
          /\ UNCHANGED <<frames, close, asked, events, other, sendq, wait_for, control, pings>>
      BY <1>12 DEF Close
    <2>2. Bytes'
      BY <1>0, <2>1 DEF Bytes
    <2>3. UNCHANGED <<Latest, Left>>
      BY <2>1 DEF Latest, Left
    <2>4. Queued'
      BY <1>0, <2>1, <2>3 DEF Queued
    <2>5. CASE UNCHANGED wire
      <3>1. TypeOK' /\ ClosedForGood'
        BY <1>0, <2>1, <2>5 DEF TypeOK, ClosedForGood
      <3>2. Out' = Out
        BY <2>1, <2>5 DEF Out
      <3>3. InOrder(Out, Latest, Left)'
        BY <1>0, <2>3, <3>2 DEF InOrder, Begun, Frame
      <3>. QED BY <2>2, <2>4, <3>1, <3>3 DEF IInv
    <2>6. CASE send_buf = None /\ ~ ws_close_sent /\ wire' = Append(wire, CLOSE)
      <3>1. CLOSE \in Frames /\ wire \in Seq(Frames)
        BY <1>0 DEF TypeOK, CLOSE, Frames
      <3>2. /\ wire' \in Seq(Frames) /\ Len(wire) \in Nat
            /\ Len(wire') = Len(wire) + 1 /\ wire'[Len(wire) + 1] = CLOSE
            /\ \A i \in 1..Len(wire) : wire'[i] = wire[i] /\ wire[i] # CLOSE
        BY <1>0, <2>1, <2>6, <3>1 DEF ClosedForGood
      <3>3. TypeOK'
        BY <1>0, <2>1, <3>2 DEF TypeOK
      <3>4. ClosedForGood'
        BY <1>0, <2>1, <3>2 DEF ClosedForGood
      <3>5. Out' = Append(Out, CLOSE)
        BY <1>0, <2>1, <2>6, <3>3, OutFacts DEF Out
      <3>6. InOrder(Out', Latest', Left')
        BY <1>0, <2>3, <3>5, ControlBetween
      <3>. QED BY <2>2, <2>4, <3>3, <3>4, <3>6 DEF IInv, InOrder, Begun, Frame
    <2>. QED BY <1>12, <2>5, <2>6 DEF Close
  <1>13. ASSUME Shutdown PROVE IInv'
    <2>1. TypeOK'
      BY <1>0, <1>13 DEF Shutdown, TypeOK, Bytes
    <2>2. Bytes'
      BY <1>0, <1>13 DEF Shutdown, TypeOK, Bytes
    <2>3. Queued'
      BY <1>0, <1>13 DEF Shutdown, TypeOK, Queued, Latest, Left
    <2>4. ClosedForGood'
      BY <1>0, <1>13 DEF Shutdown, TypeOK, ClosedForGood
    <2>5. InOrder(Out, Latest, Left)'
      <3>1. UNCHANGED <<Out, Latest, Left>>
        BY <1>0, <1>13 DEF Shutdown, Out, Latest, Left
      <3>. QED BY <1>0, <3>1 DEF InOrder, Begun, Frame
    <2>. QED BY <2>1, <2>2, <2>3, <2>4, <2>5 DEF IInv
  <1>14. ASSUME Put PROVE IInv'
    <2>00. /\ Len(sendq') = Len(sendq) + 1 /\ sendq'[Len(sendq) + 1] = sent + 1
           /\ \A k \in 1..Len(sendq) : sendq'[k] = sendq[k]
           /\ Len(sendq) \in Nat /\ sent \in Nat
      BY <1>0, <1>14 DEF Put, TypeOK
    <2>0. Latest' = Latest /\ sent + 1 = Latest + (Len(sendq) + 1) /\ Left' = Left
      BY <1>14, <2>00 DEF Put, Latest, Left
    <2>1. TypeOK'
      BY <1>0, <1>14 DEF Put, TypeOK, Bytes
    <2>2. Bytes'
      BY <1>0, <1>14 DEF Put, TypeOK, Bytes
    <2>3. Queued'
      <3>1. UNCHANGED sending
        BY <1>14 DEF Put
      <3>2. \A k \in 1..Len(sendq') : k \in 1..Len(sendq) \/ k = Len(sendq) + 1
        BY <2>00
      <3>3. \A k \in 1..Len(sendq') : sendq'[k] = Latest' + k
        BY <1>0, <2>0, <2>00, <3>2 DEF Queued
      <3>. QED BY <1>0, <2>0, <3>1, <3>3 DEF Queued
    <2>4. ClosedForGood'
      BY <1>0, <1>14 DEF Put, TypeOK, ClosedForGood
    <2>5. InOrder(Out, Latest, Left)'
      <3>1. UNCHANGED <<Out, Latest, Left>>
        BY <1>14, <2>0 DEF Put, Out
      <3>. QED BY <1>0, <3>1 DEF InOrder, Begun, Frame
    <2>. QED BY <2>1, <2>2, <2>3, <2>4, <2>5 DEF IInv
  <1>15. ASSUME SetWaitFor PROVE IInv'
    <2>1. TypeOK'
      BY <1>0, <1>15 DEF SetWaitFor, READ, WRITE, RDWR, TypeOK, Bytes
    <2>2. Bytes'
      BY <1>0, <1>15 DEF SetWaitFor, READ, WRITE, RDWR, TypeOK, Bytes
    <2>3. Queued'
      BY <1>0, <1>15 DEF SetWaitFor, READ, WRITE, RDWR, TypeOK, Queued, Latest, Left
    <2>4. ClosedForGood'
      BY <1>0, <1>15 DEF SetWaitFor, READ, WRITE, RDWR, TypeOK, ClosedForGood
    <2>5. InOrder(Out, Latest, Left)'
      <3>1. UNCHANGED <<Out, Latest, Left>>
        BY <1>0, <1>15 DEF SetWaitFor, READ, WRITE, RDWR, Out, Latest, Left
      <3>. QED BY <1>0, <3>1 DEF InOrder, Begun, Frame
    <2>. QED BY <2>1, <2>2, <2>3, <2>4, <2>5 DEF IInv
  <1>16. ASSUME Wake PROVE IInv'
    <2>1. TypeOK'
      BY <1>0, <1>16 DEF Wake, TypeOK, Bytes
    <2>2. Bytes'
      BY <1>0, <1>16 DEF Wake, TypeOK, Bytes
    <2>3. Queued'
      BY <1>0, <1>16 DEF Wake, TypeOK, Queued, Latest, Left
    <2>4. ClosedForGood'
      BY <1>0, <1>16 DEF Wake, TypeOK, ClosedForGood
    <2>5. InOrder(Out, Latest, Left)'
      <3>1. UNCHANGED <<Out, Latest, Left>>
        BY <1>0, <1>16 DEF Wake, Out, Latest, Left
      <3>. QED BY <1>0, <3>1 DEF InOrder, Begun, Frame
    <2>. QED BY <2>1, <2>2, <2>3, <2>4, <2>5 DEF IInv
  <1>17. ASSUME SelectBuffered PROVE IInv'
    <2>1. TypeOK'
      BY <1>0, <1>17 DEF SelectBuffered, READ, WRITE, RDWR, TypeOK, Bytes
    <2>2. Bytes'
      BY <1>0, <1>17 DEF SelectBuffered, READ, WRITE, RDWR, TypeOK, Bytes
    <2>3. Queued'
      BY <1>0, <1>17 DEF SelectBuffered, READ, WRITE, RDWR, TypeOK, Queued, Latest, Left
    <2>4. ClosedForGood'
      BY <1>0, <1>17 DEF SelectBuffered, READ, WRITE, RDWR, TypeOK, ClosedForGood
    <2>5. InOrder(Out, Latest, Left)'
      <3>1. UNCHANGED <<Out, Latest, Left>>
        BY <1>0, <1>17 DEF SelectBuffered, READ, WRITE, RDWR, Out, Latest, Left
      <3>. QED BY <1>0, <3>1 DEF InOrder, Begun, Frame
    <2>. QED BY <2>1, <2>2, <2>3, <2>4, <2>5 DEF IInv
  <1>18. CASE UNCHANGED vars
    <2>1. UNCHANGED <<Out, Latest, Left>>
      BY <1>18 DEF vars, Out, Latest, Left
    <2>. QED BY <1>0, <1>18, <2>1 DEF vars, IInv, TypeOK, Bytes, Queued, ClosedForGood, InOrder, Begun, Frame
  <1>. QED BY <1>1, <1>2, <1>3, <1>4, <1>5, <1>6, <1>7, <1>8, <1>9, <1>10, <1>11, <1>12, <1>13, <1>14, <1>15, <1>16, <1>17, <1>18
        DEF Next, Handler, Sender, Read, Write

-------------------------------------------------------------------------------
(* The theorems *)

\* Whatever control frames come between them, and whenever either side closes,
\* the peer gets the frames of the messages complete, once and in order, and
\* nothing after a close frame.
THEOREM MessagesArriveInOrder == Spec => []MessagesInOrder
  BY InitIInv, NextIInv, IInvImplies, PTL DEF Spec

\* Every variable of the web socket has its type.
THEOREM TypeCorrect == Spec => []TypeOK
  <1>1. IInv => TypeOK
    BY DEF IInv
  <1>. QED BY InitIInv, NextIInv, <1>1, PTL DEF Spec
===============================================================================
