------------------------- MODULE StreamManagerProofs -------------------------
(***************************************************************************)
(* Proofs about StreamManager.tla, for every capacity, window, packet size *)
(* and number of streams.                                                  *)
(***************************************************************************)
EXTENDS StreamManager, TLAPS

(* What TypeOK and SentInRing need beside each other to be inductive: a     *)
(* read loop that writes or waits has bytes to write, a new client is only  *)
(* let in when no other is connected, a connected one has a stream, and     *)
(* once the PTY has ended the read loop is done.                            *)
LoopsInStep ==
  /\ readPc \in {"write", "wait"} => chunk > 0
  /\ ~LockFree => ~connected
  /\ connected => streamId \in Streams
  /\ term # "none" => eofPos = total /\ readPc = "done"

TypeInv == TypeOK /\ SentInRing /\ LoopsInStep

USE StreamManagerAssumption DEF Position

(* The initial state satisfies the invariant.                               *)
LEMMA InitTypeInv == Init => TypeInv
<1> SUFFICES ASSUME Init PROVE TypeInv
  OBVIOUS
<1>1. maxAck \in [seq : Position, rwnd : 0 .. MaxRwnd]
  BY DEF Init
<1>2. joining \in Join
  BY DEF Init, Join
<1>3. head = 0 /\ total = 0 /\ win = Cap /\ chunk = 0 /\ eofPos = -1 /\ rwnd = Cwnd /\ sent = 0
  BY DEF Init
<1>4. /\ sync \in BOOLEAN /\ connected \in BOOLEAN /\ ~connected /\ termSent \in BOOLEAN /\ termAcked \in BOOLEAN
      /\ coalescing \in BOOLEAN /\ armed \in BOOLEAN /\ closed \in BOOLEAN
  BY DEF Init
<1>5. readPc = "off" /\ term = "none" /\ sender = "awake" /\ streamId = NoStream /\ wire = {}
  BY DEF Init
<1>6. TypeOK
  BY <1>1, <1>2, <1>3, <1>4, <1>5 DEF TypeOK
<1>7. SentInRing
  BY <1>3, <1>4 DEF SentInRing, Count
<1>8. LoopsInStep
  BY <1>4, <1>5 DEF LoopsInStep
<1> QED
  BY <1>6, <1>7, <1>8 DEF TypeInv

(* A step that changes nothing keeps it.                                    *)
LEMMA StutterTypeInv == TypeInv /\ UNCHANGED vars => TypeInv'
  BY DEF TypeInv, TypeOK, SentInRing, LoopsInStep, Count, LockFree,
         vars, ringVars, readVars, clientVars, senderVars

(* So do the steps of the read loop; a write in sync mode fits the window.  *)
LEMMA ReadLoopTypeInv == TypeInv /\ ReadLoop => TypeInv'
<1> SUFFICES ASSUME TypeInv, ReadLoop PROVE TypeInv'
  OBVIOUS
<1> USE DEF TypeInv, TypeOK, SentInRing, LoopsInStep, Count, LockFree,
            vars, ringVars, readVars, clientVars, senderVars
<1>1. CASE AttachReader
  BY <1>1 DEF AttachReader, NextRead
<1>2. CASE WriteRing
  <2>1. Accepted \in 1 .. chunk /\ (sync => Count + Accepted <= win)
    BY <1>2 DEF WriteRing, Accepted, MinOf, MaxOf
  <2>2. MinOf(Count + Accepted, win) \in 0 .. win
    BY <2>1 DEF MinOf
  <2>3. total' = total + Accepted /\ head' = total' - MinOf(Count + Accepted, win)
    BY <1>2 DEF WriteRing
  <2>4. sync => head' = head
    BY <2>1, <2>2, <2>3 DEF MinOf
  <2> QED
    BY <1>2, <2>1, <2>2, <2>3, <2>4 DEF WriteRing, MinOf
<1>3. CASE WaitForRoom
  BY <1>3 DEF WaitForRoom
<1>4. CASE WakeSender
  BY <1>4 DEF WakeSender, NextRead, Signalled
<1>5. CASE ReadLoopExit
  BY <1>5 DEF ReadLoopExit
<1>6. CASE \E n \in 1 .. MaxPacket : PtyRead(n)
  BY <1>6 DEF PtyRead
<1>7. CASE \E kind \in {"eof", "err"} : PtyEnd(kind)
  BY <1>7 DEF PtyEnd, Signalled
<1> QED
  BY <1>1, <1>2, <1>3, <1>4, <1>5, <1>6, <1>7 DEF ReadLoop

(* What the sender may put in a packet.                                     *)
LEMMA PeekBounds ==
  ASSUME TypeInv, DataReady
  PROVE  PeekSize \in 1 .. MaxPacket /\ PeekSize <= Unsent /\ PeekSize <= Sendable
  BY DEF TypeInv, TypeOK, SentInRing, DataReady, PeekSize, Unsent, Sendable, Count,
         EffectiveWindow, MinOf

(* So do the steps of the sender loop, which never counts more as sent than *)
(* the ring holds.                                                          *)
LEMMA SenderTypeInv ==
  ASSUME NEW lost \in BOOLEAN, TypeInv,
         SendData(lost) \/ SendTerminal(lost) \/ SenderWait \/ CoalesceElapsed \/ SenderExit
  PROVE  TypeInv'
<1> USE DEF TypeInv, TypeOK, SentInRing, LoopsInStep, Count, LockFree,
            vars, ringVars, readVars, clientVars, senderVars
<1>1. CASE SendData(lost)
  <2>1. connected /\ DataReady
    BY <1>1 DEF SendData, DataReady
  <2>2. PeekSize \in 1 .. MaxPacket /\ PeekSize <= total - head - sent
    BY <2>1, PeekBounds DEF Unsent
  <2>3. DataPacket \in Packet
    <3>1. streamId \in Streams /\ head + sent \in Position /\ PeekSize \in 0 .. MaxPacket
      BY <2>1, <2>2
    <3> QED
      BY <3>1 DEF DataPacket, Packet
  <2> QED
    BY <1>1, <2>1, <2>2, <2>3 DEF SendData
<1>2. CASE SendTerminal(lost)
  <2>1. TerminalPacket \in Packet
    <3>1. streamId \in Streams /\ eofPos \in Position /\ 0 \in 0 .. MaxPacket
          /\ term \in {"data", "eof", "err"}
      BY <1>2 DEF SendTerminal, TermReady
    <3> QED
      BY <3>1 DEF TerminalPacket, Packet
  <2> QED
    BY <1>2, <2>1 DEF SendTerminal
<1>3. CASE SenderWait
  BY <1>3 DEF SenderWait, Held, Short
<1>4. CASE CoalesceElapsed
  <2>1. sender' \in {"awake", "asleep", "done"}
    BY <1>4 DEF CoalesceElapsed, Signalled
  <2>2. coalescing' \in BOOLEAN /\ armed' \in BOOLEAN
    BY <1>4 DEF CoalesceElapsed
  <2>3. UNCHANGED <<ringVars, readVars, clientVars, joining, closed, wire>>
    BY <1>4 DEF CoalesceElapsed
  <2> QED
    BY <2>1, <2>2, <2>3
<1>5. CASE SenderExit
  BY <1>5 DEF SenderExit
<1> QED
  BY <1>1, <1>2, <1>3, <1>4, <1>5

(* The manager's own connection takes every packet.                         *)
LEMMA SenderLoopTypeInv == TypeInv /\ SenderLoop => TypeInv'
  BY SenderTypeInv DEF SenderLoop

-----------------------------------------------------------------------------
(* SetWindow keeps the ring within its capacity and its positions in order, *)
(* and moves the head past from only when it leaves sync mode.              *)
RingKept(s, from) ==
  /\ head' \in from .. total /\ total' = total
  /\ win' \in 0 .. Cap
  /\ sync' = s /\ sync' \in BOOLEAN
  /\ s => head' = from
  /\ total - head' <= Cap
  /\ readPc' \in {readPc, Woken}
  /\ chunk' = chunk /\ term' = term /\ eofPos' = eofPos

(* Truncating a ring to a window leaves its head in range.                  *)
LEMMA TruncateBounds ==
  ASSUME NEW f \in Nat, NEW t \in Nat, NEW w \in Nat, NEW c \in Nat, w <= c, t - f > w
  PROVE  t - w \in f .. t /\ t - (t - w) <= c
  OBVIOUS

(* SetEffectiveWindow keeps the ring within bounds, and in sync mode its head. *)
LEMMA SetWindowKeepsRing ==
  ASSUME NEW s \in BOOLEAN, NEW w \in Nat, NEW from \in head .. total,
         TypeInv, SetWindow(s, w, from)
  PROVE  RingKept(s, from)
<1>1. head \in Nat /\ total \in Nat /\ total - head <= Cap
  BY DEF TypeInv, TypeOK, SentInRing, Count
<1>2. win' \in 0 .. Cap /\ win' <= Cap
  BY DEF SetWindow, MinOf
<1>3. head' = IF ~s /\ total - from > win' THEN total - win' ELSE from
  BY DEF SetWindow
<1>4. UNCHANGED <<total, chunk, term, eofPos>> /\ sync' = s
  BY DEF SetWindow
<1>5. readPc' \in {readPc, Woken}
  BY DEF SetWindow
<1>6. head' \in from .. total /\ total - head' <= Cap
  <2>1. CASE ~s /\ total - from > win'
    <3>1. head' = total - win' /\ total - from > win'
      BY <1>3, <2>1
    <3>2. from \in Nat /\ win' \in Nat /\ total \in Nat /\ Cap \in Nat /\ win' <= Cap
      BY <1>1, <1>2
    <3>3. total - win' \in from .. total /\ total - (total - win') <= Cap
      BY <3>1, <3>2, TruncateBounds
    <3> QED
      BY <3>1, <3>3
  <2>2. CASE ~(~s /\ total - from > win')
    <3>1. head' = from
      BY <1>3, <2>2
    <3> QED
      BY <1>1, <3>1
  <2> QED
    BY <2>1, <2>2
<1>7. s => head' = from
  BY <1>3
<1> QED
  BY <1>2, <1>4, <1>5, <1>6, <1>7 DEF RingKept

(* The effective window is a size.                                          *)
LEMMA WindowIsNat == \A w \in Nat : EffectiveWindow(w) \in Nat
  BY DEF EffectiveWindow, MinOf

(* Both halves of ClientConnected keep the invariant.                       *)
LEMMA ConnectTypeInv ==
  ASSUME TypeInv PROVE
  /\ \A sid \in Streams, w \in 0 .. MaxRwnd, c \in Position :
       BeginConnect(sid, w, c) => TypeInv'
  /\ EndConnect => TypeInv'
<1>1. ASSUME NEW sid \in Streams, NEW w \in 0 .. MaxRwnd, NEW c \in Position,
             BeginConnect(sid, w, c)
      PROVE  TypeInv'
  <2>1. MaxOf(head, c) \in head .. total /\ MaxOf(head, c) \in Position
    BY <1>1 DEF BeginConnect, MaxOf, TypeInv, TypeOK
  <2>2. joining' \in Join
    BY <1>1, <2>1 DEF BeginConnect, Join
  <2>3. readPc' \in {readPc, Woken}
    BY <1>1 DEF BeginConnect
  <2>4. head' = MaxOf(head, c) /\ connected = FALSE /\ connected' = FALSE /\ sent' = sent
    BY <1>1 DEF BeginConnect, clientVars, TypeInv, TypeOK
  <2> USE <1>1, <2>1, <2>3, <2>4 DEF TypeInv, BeginConnect, Count, LockFree, Woken,
          clientVars, senderVars
  <2>5. TypeOK'
    BY <2>2 DEF TypeOK
  <2>6. SentInRing'
    BY DEF SentInRing, TypeOK
  <2>7. LoopsInStep'
    BY DEF LoopsInStep
  <2> QED
    BY <2>5, <2>6, <2>7
<1>2. ASSUME EndConnect PROVE TypeInv'
  <2>1. joining \in [sid : Streams, rwnd : 0 .. MaxRwnd, start : Position] /\ LockFree'
    BY <1>2 DEF EndConnect, Join, TypeInv, TypeOK, LockFree
  <2>2. joining.sid \in Streams /\ joining.rwnd \in Nat
    BY <2>1
  <2>3. head \in head .. total
    BY DEF TypeInv, TypeOK
  <2>4. RingKept(TRUE, head)
    <3>1. SetWindow(TRUE, EffectiveWindow(joining.rwnd), head)
      BY <1>2 DEF EndConnect
    <3> QED
      BY <2>2, <2>3, <3>1, WindowIsNat, SetWindowKeepsRing
  <2>5. joining' \in Join /\ sender' \in {"awake", "asleep", "done"}
    BY <1>2 DEF EndConnect, Join, Signalled, TypeInv, TypeOK
  <2>6. /\ connected' \in BOOLEAN /\ connected' /\ coalescing' \in BOOLEAN
        /\ streamId' = joining.sid /\ rwnd' = joining.rwnd /\ sent' = 0
        /\ UNCHANGED <<termSent, maxAck, termAcked, armed, closed, wire>>
    BY <1>2 DEF EndConnect
  <2> USE <2>1, <2>2, <2>4, <2>6 DEF TypeInv, RingKept, Count, Woken
  <2>7. TypeOK'
    BY <2>5 DEF TypeOK
  <2>8. SentInRing'
    BY DEF SentInRing, TypeOK
  <2>9. LoopsInStep'
    BY DEF LoopsInStep
  <2> QED
    BY <2>7, <2>8, <2>9
<1> QED
  BY <1>1, <1>2

(* ClientDisconnected keeps it: the window is the whole ring, nothing is sent. *)
LEMMA DisconnectTypeInv ==
  ASSUME TypeInv, ClientDisconnected PROVE TypeInv'
<1>1. head \in head .. total /\ Cap \in Nat
  BY DEF TypeInv, TypeOK
<1>2. RingKept(FALSE, head)
  <2>1. SetWindow(FALSE, Cap, head)
    BY DEF ClientDisconnected
  <2> QED
    BY <1>1, <2>1, SetWindowKeepsRing
<1>3. maxAck' \in [seq : Position, rwnd : 0 .. MaxRwnd]
  BY DEF ClientDisconnected
<1>4. sender' \in {"awake", "asleep", "done"} /\ termSent' \in BOOLEAN
  BY DEF ClientDisconnected, Signalled, TypeInv, TypeOK
<1>5. /\ connected' \in BOOLEAN /\ ~connected' /\ sent' = 0 /\ joining = NoJoin
      /\ UNCHANGED <<streamId, rwnd, termAcked, joining, coalescing, armed, closed, wire>>
  BY DEF ClientDisconnected, LockFree
<1> USE <1>2, <1>5 DEF TypeInv, RingKept, Count, Woken, LockFree
<1>6. TypeOK'
  BY <1>3, <1>4 DEF TypeOK
<1>7. SentInRing'
  BY DEF SentInRing, TypeOK
<1>8. LoopsInStep'
  BY DEF LoopsInStep
<1> QED
  BY <1>6, <1>7, <1>8

(* RecvAck keeps it: an ACK that is accepted stays below what was sent.     *)
LEMMA RecvAckTypeInv ==
  ASSUME TypeInv, NEW a, a.seq \in Position, a.rwnd \in 0 .. MaxRwnd, RecvAck(a)
  PROVE  TypeInv'
<1>1. a.seq \in Position /\ a.rwnd \in 0 .. MaxRwnd /\ a.rwnd \in Nat
  OBVIOUS
<1>2. CASE RecvFin(a)
  BY <1>2 DEF RecvFin, Signalled, TypeInv, TypeOK, SentInRing, LoopsInStep, Count, LockFree,
              ringVars, readVars
<1>3. CASE RecvWindowAck(a)
  <2>1. a.seq \in head .. total
    <3>1. AcksSentBytes(a)
      BY <1>3 DEF RecvWindowAck
    <3> QED
      BY <1>1, <3>1 DEF AcksSentBytes, TypeInv, TypeOK
  <2>2. RingKept(TRUE, a.seq)
    <3>1. SetWindow(TRUE, EffectiveWindow(a.rwnd), a.seq)
      BY <1>3 DEF RecvWindowAck
    <3> QED
      BY <1>1, <2>1, <3>1, WindowIsNat, SetWindowKeepsRing
  <2>3. sent' = sent - (a.seq - head) /\ a.seq - head <= sent
    BY <1>3 DEF RecvWindowAck, AcksSentBytes
  <2>4. /\ connected /\ joining = NoJoin /\ rwnd' = a.rwnd
        /\ UNCHANGED <<connected, streamId, termSent, termAcked, joining, coalescing, armed,
                       closed, wire>>
    BY <1>3 DEF RecvWindowAck, ForUs, LockFree, TypeInv, TypeOK
  <2>5. sender' \in {"awake", "asleep", "done"}
    BY <1>3 DEF RecvWindowAck, Signalled, TypeInv, TypeOK
  <2>6. maxAck' \in [seq : Position, rwnd : 0 .. MaxRwnd]
    BY <1>1, <1>3 DEF RecvWindowAck
  <2> USE <1>1, <2>1, <2>2, <2>3, <2>4 DEF TypeInv, RingKept, Count, Woken, LockFree
  <2>7. TypeOK'
    BY <2>5, <2>6 DEF TypeOK, SentInRing
  <2>8. SentInRing'
    <3>1. sent' <= total' - head' /\ sync'
      BY DEF SentInRing, TypeOK
    <3> QED
      BY <3>1 DEF SentInRing
  <2>9. LoopsInStep'
    BY DEF LoopsInStep
  <2> QED
    BY <2>7, <2>8, <2>9
<1>4. CASE RecvRefusedAck(a)
  <2>1. maxAck' \in [seq : Position, rwnd : 0 .. MaxRwnd]
    BY <1>1, <1>4 DEF RecvRefusedAck
  <2> QED
    BY <1>4, <2>1 DEF RecvRefusedAck, TypeInv, TypeOK, SentInRing, LoopsInStep, Count, LockFree,
                      ringVars, readVars, senderVars
<1> QED
  BY <1>2, <1>3, <1>4 DEF RecvAck

(* SetRwndSize keeps it.                                                    *)
LEMMA RwndTypeInv ==
  ASSUME TypeInv, NEW w \in 0 .. MaxRwnd, SetRwndSize(w) PROVE TypeInv'
<1>1. w \in Nat /\ head \in head .. total
  BY DEF TypeInv, TypeOK
<1>2. RingKept(TRUE, head)
  <2>1. SetWindow(TRUE, EffectiveWindow(w), head)
    BY DEF SetRwndSize
  <2> QED
    BY <1>1, <2>1, WindowIsNat, SetWindowKeepsRing
<1>3. sender' \in {"awake", "asleep", "done"}
  BY DEF SetRwndSize, Signalled, TypeInv, TypeOK
<1>4. /\ connected /\ joining = NoJoin /\ rwnd' = w
      /\ UNCHANGED <<connected, streamId, sent, termSent, maxAck, termAcked, joining, coalescing,
                     armed, closed, wire>>
  BY DEF SetRwndSize, LockFree, TypeInv, TypeOK
<1> USE <1>1, <1>2, <1>4 DEF TypeInv, RingKept, Count, Woken, LockFree
<1>5. TypeOK'
  BY <1>3 DEF TypeOK
<1>6. SentInRing'
  BY DEF SentInRing, TypeOK
<1>7. LoopsInStep'
  BY DEF LoopsInStep
<1> QED
  BY <1>5, <1>6, <1>7

(* Every call keeps it.                                                     *)
LEMMA CallsTypeInv == TypeInv /\ Calls => TypeInv'
<1>1. ASSUME TypeInv, Close PROVE TypeInv'
  <2>1. sender' \in {"awake", "asleep", "done"}
    BY <1>1 DEF Close, Signalled, TypeInv, TypeOK
  <2>2. closed' \in BOOLEAN /\ armed' \in BOOLEAN
    BY <1>1 DEF Close
  <2>3. UNCHANGED <<ringVars, readVars, clientVars, joining, coalescing, wire>>
    BY <1>1 DEF Close
  <2> QED
    BY <1>1, <2>1, <2>2, <2>3 DEF TypeInv, TypeOK, SentInRing, LoopsInStep, Count, LockFree,
                                  ringVars, readVars, clientVars
<1>2. \A x \in Ack : x.seq \in Position /\ x.rwnd \in 0 .. MaxRwnd
  BY DEF Ack
<1> QED
  BY <1>1, <1>2, ConnectTypeInv, DisconnectTypeInv, RecvAckTypeInv, RwndTypeInv DEF Calls

(* Every step keeps it.                                                     *)
LEMMA StepTypeInv == TypeInv /\ [Next]_vars => TypeInv'
  BY StutterTypeInv, ReadLoopTypeInv, SenderLoopTypeInv, CallsTypeInv DEF Next, Stopped

(* Types, and that what was sent and not acknowledged stays in the ring.    *)
LEMMA TypeInvHolds == Spec => []TypeInv
  BY InitTypeInv, StepTypeInv, PTL DEF Spec

(* Every variable of the stream manager keeps its type, and positions stay in *)
(* order.                                                                   *)
THEOREM TypeCorrect == Spec => []TypeOK
  BY TypeInvHolds, PTL DEF TypeInv

(* What a client was sent and has not acknowledged is in the ring: the loop *)
(* that fills the ring never drops it, nor do ACKs, a new window or a new   *)
(* client.                                                                  *)
THEOREM SentStaysInRing == Spec => []SentInRing
  BY TypeInvHolds, PTL DEF TypeInv

-----------------------------------------------------------------------------
(* While a client is attached, no byte it was not sent leaves the ring.     *)
LEMMA StepDropsNothing ==
  TypeInv /\ [Next]_vars => (connected => head' <= head + sent)
<1> SUFFICES ASSUME TypeInv, [Next]_vars, connected PROVE head' <= head + sent
  OBVIOUS
<1>0. head \in head .. total /\ head <= head + sent /\ Cap \in Nat
  BY DEF TypeInv, TypeOK
<1>1. CASE head' = head
  BY <1>0, <1>1
<1>2. CASE WriteRing
  <2>1. sync /\ Count \in Nat /\ chunk \in Nat /\ win \in Nat
    BY DEF TypeInv, TypeOK, SentInRing, Count
  <2>2. Accepted = MinOf(chunk, MaxOf(0, win - Count)) /\ Accepted > 0
    BY <1>2, <2>1 DEF WriteRing, Accepted
  <2>3. total' = total + Accepted /\ head' = total' - MinOf(Count + Accepted, win)
    BY <1>2 DEF WriteRing
  <2> QED
    BY <1>0, <2>1, <2>2, <2>3 DEF MinOf, MaxOf, Count, TypeInv, TypeOK
<1>3. ASSUME NEW a \in Ack, RecvWindowAck(a) PROVE head' <= head + sent
  <2>1. AcksSentBytes(a) /\ SetWindow(TRUE, EffectiveWindow(a.rwnd), a.seq)
    BY <1>3 DEF RecvWindowAck
  <2>2. head' = a.seq
    BY <2>1 DEF SetWindow
  <2>3. a.seq \in Nat
    BY DEF Ack
  <2> QED
    BY <2>1, <2>2, <2>3 DEF AcksSentBytes, TypeInv, TypeOK
<1>4. CASE ClientDisconnected
  <2>1. SetWindow(FALSE, Cap, head)
    BY <1>4 DEF ClientDisconnected
  <2>2. win' = Cap /\ total - head <= Cap
    BY <2>1 DEF SetWindow, MinOf, TypeInv, SentInRing, Count
  <2>3. head' = IF total - head > win' THEN total - win' ELSE head
    BY <2>1 DEF SetWindow
  <2>4. head' = head
    BY <2>2, <2>3 DEF TypeInv, TypeOK
  <2> QED
    BY <1>1, <2>4
<1>5. ASSUME NEW w, SetWindow(TRUE, w, head) PROVE head' = head
  BY <1>5 DEF SetWindow
<1>6. ReadLoop => head' = head \/ WriteRing
  BY DEF ReadLoop, AttachReader, WaitForRoom, WakeSender, ReadLoopExit, PtyRead, PtyEnd, ringVars
<1>7. SenderLoop => head' = head
  BY DEF SenderLoop, SendData, SendTerminal, SenderWait, CoalesceElapsed, SenderExit, ringVars
<1>8. ASSUME Calls
      PROVE  \/ head' = head \/ ClientDisconnected
             \/ \E a \in Ack : RecvWindowAck(a)
  <2>1. ASSUME NEW sid, NEW w, NEW c, BeginConnect(sid, w, c) PROVE FALSE
    BY <2>1 DEF BeginConnect
  <2>2. CASE EndConnect
    BY <1>5, <2>2 DEF EndConnect
  <2>3. ASSUME NEW a \in Ack, RecvAck(a), ~RecvWindowAck(a) PROVE head' = head
    BY <2>3 DEF RecvAck, RecvFin, RecvRefusedAck, ringVars
  <2>4. ASSUME NEW w, SetRwndSize(w) PROVE head' = head
    BY <1>5, <2>4 DEF SetRwndSize
  <2>5. CASE Close
    BY <2>5 DEF Close, ringVars
  <2> QED
    BY <1>8, <2>1, <2>2, <2>3, <2>4, <2>5 DEF Calls
<1>9. Stopped \/ UNCHANGED vars => head' = head
  BY DEF Stopped, vars, ringVars
<1> QED
  BY <1>1, <1>2, <1>3, <1>4, <1>6, <1>7, <1>8, <1>9 DEF Next

(* While a client is attached, a byte leaves the ring only if it was sent.  *)
THEOREM NothingDropped == Spec => NothingDroppedWhileConnected
<1>1. TypeInv /\ [Next]_vars => [connected => head' <= head + sent]_vars
  BY StepDropsNothing
<1> QED
  BY <1>1, TypeInvHolds, PTL DEF Spec, NothingDroppedWhileConnected

-----------------------------------------------------------------------------
(* A read loop that waits for room has none.                                *)
LEMMA WokenDoesNotWait == Woken # "wait"
  BY DEF Woken

(* The only steps that change the ring under a waiting read loop go through *)
(* SetWindow, which wakes it if there is room now.                          *)
LEMMA SetWindowParks ==
  ASSUME NEW s \in BOOLEAN, NEW w \in Nat, NEW from \in head .. total,
         TypeInv, ParkedOnlyWhenFull, SetWindow(s, w, from), readPc' = "wait"
  PROVE  sync' /\ Count' >= win'
<1>1. readPc = "wait" /\ ~(from > head \/ (sync /\ (win' > win \/ ~s)))
  BY WokenDoesNotWait DEF SetWindow
<1>2. sync /\ Count >= win
  BY <1>1 DEF ParkedOnlyWhenFull
<1>3. from <= head /\ win' <= win /\ s
  <2>1. head \in Int /\ win \in Int /\ win' \in Int
    BY DEF SetWindow, MinOf, TypeInv, TypeOK
  <2> QED
    BY <1>1, <1>2, <2>1
<1>4. head' = from /\ total' = total /\ sync'
  BY <1>3 DEF SetWindow
<1>5. head \in Nat /\ total \in Nat /\ win \in Nat /\ win' \in Int
  BY DEF SetWindow, MinOf, TypeInv, TypeOK
<1>6. from = head
  BY <1>3, <1>5
<1> QED
  BY <1>2, <1>3, <1>4, <1>5, <1>6 DEF Count

(* No step leaves a read loop waiting for room that is there.               *)
LEMMA StepParks ==
  TypeInv /\ ParkedOnlyWhenFull /\ [Next]_vars => ParkedOnlyWhenFull'
<1> SUFFICES ASSUME TypeInv, ParkedOnlyWhenFull, [Next]_vars, readPc' = "wait"
             PROVE  sync' /\ Count' >= win'
  BY DEF ParkedOnlyWhenFull
<1>0. head \in head .. total /\ head \in Nat /\ total \in Nat /\ win \in Nat /\ Cap \in Nat
  BY DEF TypeInv, TypeOK
<1>1. ASSUME readPc = "wait", UNCHANGED ringVars PROVE sync' /\ Count' >= win'
  BY <1>1 DEF ParkedOnlyWhenFull, ringVars, Count
<1>2. CASE WaitForRoom
  <2>1. readPc = "write" /\ Accepted = 0 /\ UNCHANGED ringVars
    BY <1>2 DEF WaitForRoom
  <2>2. chunk \in Nat /\ chunk > 0
    BY <2>1 DEF TypeInv, TypeOK, LoopsInStep
  <2>3. sync
    BY <2>1, <2>2 DEF Accepted
  <2>4. Count >= win
    BY <1>0, <2>1, <2>2, <2>3 DEF Accepted, MinOf, MaxOf, Count
  <2> QED
    BY <2>1, <2>3, <2>4 DEF ringVars, Count
<1>3. ReadLoop => WaitForRoom
  <2>1. ~AttachReader /\ ~WakeSender
    BY DEF AttachReader, WakeSender, NextRead
  <2>2. ~WriteRing /\ ~ReadLoopExit
    BY DEF WriteRing, ReadLoopExit
  <2>3. \A n : ~PtyRead(n) /\ ~PtyEnd(n)
    BY DEF PtyRead, PtyEnd
  <2> QED
    BY <2>1, <2>2, <2>3 DEF ReadLoop
<1>4. SenderLoop => readPc = "wait" /\ UNCHANGED ringVars
  BY DEF SenderLoop, SendData, SendTerminal, SenderWait, CoalesceElapsed, SenderExit, readVars
<1>5. Stopped \/ UNCHANGED vars => readPc = "wait" /\ UNCHANGED ringVars
  BY DEF Stopped, vars, readVars
<1>6. ASSUME Calls PROVE sync' /\ Count' >= win'
  <2>1. ASSUME NEW sid \in Streams, NEW w \in 0 .. MaxRwnd, NEW c \in Position,
               BeginConnect(sid, w, c)
        PROVE  readPc = "wait" /\ UNCHANGED ringVars
    <3>1. readPc = "wait" /\ ~(c > head)
      BY <2>1, WokenDoesNotWait DEF BeginConnect
    <3>2. head' = MaxOf(head, c) /\ UNCHANGED <<total, win, sync>>
      BY <2>1 DEF BeginConnect
    <3>3. head' = head
      BY <1>0, <3>1, <3>2 DEF MaxOf
    <3> QED
      BY <3>1, <3>2, <3>3 DEF ringVars
  <2>2. CASE EndConnect
    <3>1. joining \in [sid : Streams, rwnd : 0 .. MaxRwnd, start : Position]
      BY <2>2 DEF EndConnect, Join, TypeInv, TypeOK, LockFree
    <3>2. SetWindow(TRUE, EffectiveWindow(joining.rwnd), head)
      BY <2>2 DEF EndConnect
    <3>3. EffectiveWindow(joining.rwnd) \in Nat
      BY <3>1, WindowIsNat
    <3> QED
      BY <1>0, <3>2, <3>3, SetWindowParks
  <2>3. CASE ClientDisconnected
    <3>1. SetWindow(FALSE, Cap, head)
      BY <2>3 DEF ClientDisconnected
    <3> QED
      BY <1>0, <3>1, SetWindowParks
  <2>4. ASSUME NEW a \in Ack, RecvWindowAck(a) PROVE sync' /\ Count' >= win'
    <3>1. SetWindow(TRUE, EffectiveWindow(a.rwnd), a.seq) /\ AcksSentBytes(a)
      BY <2>4 DEF RecvWindowAck
    <3>2. a.seq \in Nat /\ EffectiveWindow(a.rwnd) \in Nat
      BY WindowIsNat DEF Ack
    <3>3. a.seq \in head .. total
      BY <1>0, <3>1, <3>2 DEF AcksSentBytes
    <3> QED
      BY <3>1, <3>2, <3>3, SetWindowParks
  <2>5. ASSUME NEW a \in Ack, RecvAck(a), ~RecvWindowAck(a)
        PROVE  readPc = "wait" /\ UNCHANGED ringVars
    BY <2>5 DEF RecvAck, RecvFin, RecvRefusedAck, readVars
  <2>6. ASSUME NEW w \in 0 .. MaxRwnd, SetRwndSize(w) PROVE sync' /\ Count' >= win'
    <3>1. SetWindow(TRUE, EffectiveWindow(w), head)
      BY <2>6 DEF SetRwndSize
    <3>2. EffectiveWindow(w) \in Nat
      BY WindowIsNat
    <3> QED
      BY <1>0, <3>1, <3>2, SetWindowParks
  <2>7. Close => readPc = "wait" /\ UNCHANGED ringVars
    BY DEF Close, readVars
  <2> QED
    BY <1>1, <1>6, <2>1, <2>2, <2>3, <2>4, <2>5, <2>6, <2>7 DEF Calls
<1> QED
  BY <1>1, <1>2, <1>3, <1>4, <1>5, <1>6 DEF Next

(* No read loop waits while there is room: every acknowledged byte, every   *)
(* larger window and every disconnect wakes it.                             *)
THEOREM NoRoomMissed == Spec => []ParkedOnlyWhenFull
<1>1. Init => ParkedOnlyWhenFull
  BY DEF Init, ParkedOnlyWhenFull
<1> QED
  BY <1>1, StepParks, TypeInvHolds, PTL DEF Spec

-----------------------------------------------------------------------------
(* The sender never sleeps on work.                                         *)
LEMMA SignalledIsNotAsleep == Signalled # "asleep"
  BY DEF Signalled

(* A step that leaves alone what the sender looks at leaves it the same     *)
(* work; then a wake-up on its way is still on its way.                     *)
LEMMA SameWork ==
  ASSUME SenderNotForgotten, sender' = sender, readPc = "wake" => readPc' = "wake",
         UNCHANGED <<ringVars, term, clientVars, joining, armed, closed>>
  PROVE  SenderNotForgotten'
<1>1. DataReady' <=> DataReady
  BY DEF DataReady, Sendable, Unsent, Count, EffectiveWindow, ringVars, clientVars
<1>2. TermReady' <=> TermReady
  BY DEF TermReady, Count, ringVars, clientVars
<1> QED
  BY <1>1, <1>2 DEF SenderNotForgotten, LockFree, clientVars

(* The read loop signals the sender after each write and at the end.        *)
LEMMA ReadLoopRemembers ==
  ASSUME SenderNotForgotten, ReadLoop PROVE SenderNotForgotten'
<1>1. AttachReader \/ WaitForRoom \/ ReadLoopExit => SenderNotForgotten'
  BY SameWork DEF AttachReader, WaitForRoom, ReadLoopExit, senderVars
<1>2. ASSUME NEW n \in 1 .. MaxPacket, PtyRead(n) PROVE SenderNotForgotten'
  BY <1>2, SameWork DEF PtyRead, senderVars
<1>3. WriteRing => SenderNotForgotten'
  BY DEF WriteRing, SenderNotForgotten
<1>4. WakeSender => SenderNotForgotten'
  BY SignalledIsNotAsleep DEF WakeSender, SenderNotForgotten
<1>5. ASSUME NEW kind \in {"eof", "err"}, PtyEnd(kind) PROVE SenderNotForgotten'
  BY <1>5, SignalledIsNotAsleep DEF PtyEnd, SenderNotForgotten
<1> QED
  BY <1>1, <1>2, <1>3, <1>4, <1>5 DEF ReadLoop

(* The sender goes to sleep only with nothing to do, or with the timer set. *)
LEMMA SenderLoopRemembers ==
  ASSUME SenderNotForgotten, SenderLoop PROVE SenderNotForgotten'
<1>1. SendData(FALSE) \/ SendTerminal(FALSE) => SenderNotForgotten'
  BY DEF SendData, SendTerminal, SenderRuns, SenderNotForgotten, senderVars
<1>2. ASSUME SenderWait PROVE SenderNotForgotten'
  <2>1. CASE Held
    BY <1>2, <2>1 DEF SenderWait, SenderNotForgotten
  <2>2. CASE ~DataReady /\ ~TermReady
    <3>1. UNCHANGED <<ringVars, readVars, clientVars>>
      BY <1>2 DEF SenderWait
    <3>2. ~DataReady' /\ ~TermReady'
      BY <2>2, <3>1 DEF DataReady, TermReady, Sendable, Unsent, Count, EffectiveWindow,
                        ringVars, readVars, clientVars
    <3> QED
      BY <3>2 DEF SenderNotForgotten
  <2> QED
    BY <1>2, <2>1, <2>2 DEF SenderWait
<1>3. ASSUME CoalesceElapsed PROVE SenderNotForgotten'
  <2>1. CASE armed
    BY <1>3, <2>1, SignalledIsNotAsleep DEF CoalesceElapsed, SenderNotForgotten
  <2>2. CASE ~armed
    <3>1. sender' = sender /\ ~armed' /\ UNCHANGED <<ringVars, readVars, clientVars, joining, closed>>
      BY <1>3, <2>2 DEF CoalesceElapsed
    <3>2. DataReady' <=> DataReady
      BY <3>1 DEF DataReady, Sendable, Unsent, Count, EffectiveWindow, ringVars, clientVars
    <3>3. TermReady' <=> TermReady
      BY <3>1 DEF TermReady, Count, ringVars, readVars, clientVars
    <3> QED
      BY <2>2, <3>1, <3>2, <3>3 DEF SenderNotForgotten, LockFree, readVars, clientVars
  <2> QED
    BY <2>1, <2>2
<1>4. SenderExit => SenderNotForgotten'
  BY DEF SenderExit, SenderNotForgotten
<1> QED
  BY <1>1, <1>2, <1>3, <1>4 DEF SenderLoop

(* An ACK that signals nobody has neither freed room nor grown the window.  *)
LEMMA WindowAckRemembers ==
  ASSUME TypeInv, SenderNotForgotten, NEW a \in Ack, RecvWindowAck(a)
  PROVE  SenderNotForgotten'
<1>1. CASE a.rwnd > rwnd \/ a.seq > head
  <2>1. sender' = Signalled
    BY <1>1 DEF RecvWindowAck
  <2> QED
    BY <2>1, SignalledIsNotAsleep DEF SenderNotForgotten
<1>2. CASE ~(a.rwnd > rwnd \/ a.seq > head)
  <2>1. a.rwnd \in Nat /\ a.seq \in Nat /\ rwnd \in Nat /\ head \in Nat /\ total \in Nat /\ sent \in Nat
    BY DEF Ack, TypeInv, TypeOK
  <2>2. AcksSentBytes(a) /\ sent' = sent - (a.seq - head) /\ rwnd' = a.rwnd /\ sender' = sender
    BY <1>2 DEF RecvWindowAck
  <2>3. a.seq = head /\ sent' = sent /\ rwnd' <= rwnd
    BY <1>2, <2>1, <2>2 DEF AcksSentBytes
  <2>4. SetWindow(TRUE, EffectiveWindow(a.rwnd), a.seq)
    BY DEF RecvWindowAck
  <2>5. head' = head /\ total' = total /\ term' = term
    BY <2>3, <2>4 DEF SetWindow
  <2>6. readPc = "wake" => readPc' = "wake"
    BY <2>4 DEF SetWindow, Woken
  <2>7. UNCHANGED <<connected, termSent, termAcked, joining, armed, closed>>
    BY DEF RecvWindowAck
  <2>8. EffectiveWindow(rwnd)' <= EffectiveWindow(rwnd) /\ EffectiveWindow(rwnd)' \in Int
        /\ EffectiveWindow(rwnd) \in Int
    BY <2>1, <2>2, <2>3 DEF EffectiveWindow, MinOf
  <2>9. Sendable' > 0 => Sendable > 0
    BY <2>1, <2>3, <2>8 DEF Sendable
  <2>10. Count' = Count /\ Unsent' = Unsent
    BY <2>3, <2>5 DEF Unsent, Count
  <2>11. (DataReady' => DataReady) /\ (TermReady' => TermReady)
    BY <2>5, <2>7, <2>9, <2>10 DEF DataReady, TermReady
  <2> QED
    BY <2>2, <2>6, <2>7, <2>11 DEF SenderNotForgotten, LockFree
<1> QED
  BY <1>1, <1>2

(* The calls signal the sender whenever they give it work.                  *)
LEMMA CallsRemember ==
  ASSUME TypeInv, SenderNotForgotten, Calls PROVE SenderNotForgotten'
<1>1. ASSUME NEW sid \in Streams, NEW w \in 0 .. MaxRwnd, NEW c \in Position,
             BeginConnect(sid, w, c)
      PROVE  SenderNotForgotten'
  <2>1. joining' = [sid |-> sid, rwnd |-> w, start |-> MaxOf(head, c)]
    BY <1>1 DEF BeginConnect
  <2>2. joining'.sid # NoStream
    BY <2>1
  <2>3. ~LockFree'
    BY <2>2 DEF LockFree, NoJoin
  <2> QED
    BY <2>3 DEF SenderNotForgotten
<1>2. EndConnect \/ ClientDisconnected \/ Close => SenderNotForgotten'
  BY SignalledIsNotAsleep DEF EndConnect, ClientDisconnected, Close, SenderNotForgotten
<1>3. ASSUME NEW w, SetRwndSize(w) PROVE SenderNotForgotten'
  BY <1>3, SignalledIsNotAsleep DEF SetRwndSize, SenderNotForgotten
<1>4. ASSUME NEW a \in Ack, RecvAck(a) PROVE SenderNotForgotten'
  <2>1. RecvFin(a) => SenderNotForgotten'
    BY SignalledIsNotAsleep DEF RecvFin, SenderNotForgotten
  <2>2. ASSUME RecvRefusedAck(a) PROVE SenderNotForgotten'
    <3>1. UNCHANGED <<ringVars, readVars, connected, rwnd, sent, termSent, termAcked,
                      joining, senderVars, closed>>
      BY <2>2 DEF RecvRefusedAck
    <3>2. DataReady' <=> DataReady
      BY <3>1 DEF DataReady, Sendable, Unsent, Count, EffectiveWindow, ringVars
    <3>3. TermReady' <=> TermReady
      BY <3>1 DEF TermReady, Count, ringVars, readVars
    <3> QED
      BY <3>1, <3>2, <3>3 DEF SenderNotForgotten, LockFree, readVars, senderVars
  <2> QED
    BY <1>4, <2>1, <2>2, WindowAckRemembers DEF RecvAck
<1> QED
  BY <1>1, <1>2, <1>3, <1>4 DEF Calls

(* No step leaves the sender asleep on work nobody will wake it for.        *)
LEMMA StepRemembers ==
  TypeInv /\ SenderNotForgotten /\ [Next]_vars => SenderNotForgotten'
<1>1. SenderNotForgotten /\ (Stopped \/ UNCHANGED vars) => SenderNotForgotten'
  BY SameWork DEF Stopped, vars, readVars, senderVars
<1> QED
  BY <1>1, ReadLoopRemembers, SenderLoopRemembers, CallsRemember DEF Next

(* A sender that sleeps while it could send has a wake-up coming.           *)
THEOREM WakeUpComes == Spec => []SenderNotForgotten
<1>1. Init => SenderNotForgotten
  BY DEF Init, SenderNotForgotten
<1> QED
  BY <1>1, StepRemembers, TypeInvHolds, PTL DEF Spec
-----------------------------------------------------------------------------
(* What a stream carries.  SentOnce and TerminalLast need beside each other *)
(* that the stream of a client being let in has carried nothing yet, and    *)
(* that an end on the wire is an end the manager has recorded.              *)
WireInv ==
  /\ SentOnce /\ TerminalLast
  /\ \A p \in wire : ~LockFree => p.sid # joining.sid
  /\ \A p \in wire : p.kind # "data" => term # "none"

(* A step that sends nothing keeps it, if it neither attaches another       *)
(* client nor takes back what was sent, and if an end, once recorded, stays *)
(* where it is.                                                             *)
LEMMA WireFrame ==
  ASSUME TypeInv, WireInv, wire' = wire,
         joining' \in {joining, NoJoin},
         connected' => connected /\ streamId' = streamId /\ head' + sent' >= head + sent,
         term # "none" => /\ term' # "none" /\ total' = total
                          /\ connected' /\ head = total => head' = total,
         head' \in Int, sent' \in Int
  PROVE  WireInv'
<1>1. \A p \in wire : p.seq \in Nat /\ p.len \in Nat
  BY DEF TypeInv, TypeOK, Packet
<1>2. head \in Nat /\ sent \in Nat /\ total \in Nat
  BY DEF TypeInv, TypeOK
<1>3. SentOnce'
  <2>1. ASSUME NEW p \in wire, connected', p.sid = streamId'
        PROVE  p.seq + p.len <= head' + sent'
    <3> DEFINE before == head + sent
               after == head' + sent'
    <3>1. p.seq + p.len <= before
      BY <2>1 DEF WireInv, SentOnce
    <3>2. before <= after
      BY <1>2, <2>1
    <3>3. before \in Int /\ after \in Int
      BY <1>2
    <3> HIDE DEF before, after
    <3>4. p.seq + p.len <= after
      BY <1>1, <3>1, <3>2, <3>3
    <3> QED
      BY <3>4 DEF after
  <2> QED
    BY <2>1 DEF WireInv, SentOnce
<1>4. TerminalLast'
  BY DEF WireInv, TerminalLast
<1>5. \A p \in wire' : ~LockFree' => p.sid # joining'.sid
  BY DEF WireInv, LockFree
<1>6. \A p \in wire' : p.kind # "data" => term' # "none"
  BY DEF WireInv
<1> QED
  BY <1>3, <1>4, <1>5, <1>6 DEF WireInv

(* So do the steps of the read loop: a write while a client is attached     *)
(* moves no head, and none comes after the end.                             *)
LEMMA ReadLoopWire ==
  ASSUME TypeInv, WireInv, ReadLoop PROVE WireInv'
<1>0. head \in Nat /\ sent \in Nat /\ total \in Nat /\ win \in Nat /\ chunk \in Nat
  BY DEF TypeInv, TypeOK
<1>1. UNCHANGED <<connected, streamId, sent, joining, wire>>
  BY DEF ReadLoop, AttachReader, WriteRing, WaitForRoom, WakeSender, ReadLoopExit, PtyRead, PtyEnd,
         clientVars
<1>2. CASE WriteRing
  <2>1. term = "none"
    BY <1>2 DEF WriteRing, TypeInv, LoopsInStep
  <2>2. Accepted \in Nat /\ Accepted > 0 /\ (sync => Count + Accepted <= win)
    BY <1>0, <1>2 DEF WriteRing, Accepted, MinOf, MaxOf, Count
  <2>3. total' = total + Accepted /\ head' = total' - MinOf(Count + Accepted, win)
    BY <1>2 DEF WriteRing
  <2>4. head' \in Int
    BY <1>0, <2>2, <2>3 DEF MinOf, Count
  <2>5. connected => head' = head
    <3>1. connected => sync
      BY DEF TypeInv, SentInRing
    <3> QED
      BY <1>0, <2>2, <2>3, <3>1 DEF MinOf, Count
  <2>6. ASSUME connected PROVE head' + sent' >= head + sent
    <3>1. head' = head /\ sent' = sent
      BY <1>1, <2>5, <2>6
    <3> QED
      BY <1>0, <3>1
  <2>7. sent' \in Int
    BY <1>0, <1>1
  <2> QED
    BY <1>1, <2>1, <2>4, <2>6, <2>7, WireFrame
<1>3. CASE ~WriteRing
  <2>1. UNCHANGED ringVars
    BY <1>3 DEF ReadLoop, AttachReader, WaitForRoom, WakeSender, ReadLoopExit, PtyRead, PtyEnd
  <2>2. term # "none" => term' # "none"
    BY <1>3 DEF ReadLoop, AttachReader, WaitForRoom, WakeSender, ReadLoopExit, PtyRead, PtyEnd
  <2>3. head' + sent' >= head + sent
    BY <1>0, <1>1, <2>1 DEF ringVars
  <2> QED
    BY <1>0, <1>1, <2>1, <2>2, <2>3, WireFrame DEF ringVars
<1> QED
  BY <1>2, <1>3

(* A data packet starts where everything sent before it ends.               *)
LEMMA SendDataWire ==
  ASSUME TypeInv, WireInv, SendData(FALSE) PROVE WireInv'
<1>0. head \in Nat /\ sent \in Nat /\ total \in Nat
  BY DEF TypeInv, TypeOK
<1>1. \A p \in wire : p.seq \in Nat /\ p.len \in Nat
  BY DEF TypeInv, TypeOK, Packet
<1>2. DataReady /\ connected /\ LockFree
  BY DEF SendData, SenderRuns, DataReady
<1>3. PeekSize \in Nat /\ PeekSize > 0
  BY <1>2, PeekBounds
<1>4. /\ UNCHANGED <<head, total, term, connected, streamId, joining>>
      /\ sent' = sent + PeekSize /\ wire' = wire \cup {DataPacket}
  BY DEF SendData, ringVars, readVars
<1>5. /\ DataPacket.sid = streamId /\ DataPacket.seq = head + sent /\ DataPacket.len = PeekSize
      /\ DataPacket.kind = "data"
  BY DEF DataPacket
<1>6. ASSUME NEW p \in wire, p.sid = streamId PROVE p.seq + p.len <= head + sent
  BY <1>2, <1>6 DEF WireInv, SentOnce
<1>7. SentOnce'
  <2>1. ASSUME NEW p \in wire', NEW q \in wire',
               p.sid = q.sid, p.seq <= q.seq, q.len > 0, p # q
        PROVE  p.seq + p.len <= q.seq
    <3>1. CASE p \in wire /\ q \in wire
      BY <2>1, <3>1 DEF WireInv, SentOnce
    <3>2. CASE p \in wire /\ q = DataPacket
      BY <1>5, <1>6, <2>1, <3>2
    <3>3. CASE p = DataPacket /\ q \in wire
      <4>1. q.seq + q.len <= head + sent /\ head + sent <= q.seq
        BY <1>5, <1>6, <2>1, <3>3
      <4> QED
        BY <1>0, <1>1, <2>1, <3>3, <4>1
    <3> QED
      BY <1>4, <2>1, <3>1, <3>2, <3>3
  <2>2. ASSUME NEW p \in wire', p.sid = streamId PROVE p.seq + p.len <= head + (sent + PeekSize)
    <3>1. CASE p \in wire
      BY <1>0, <1>1, <1>3, <1>6, <2>2, <3>1
    <3>2. CASE p = DataPacket
      BY <1>0, <1>3, <1>5, <3>2
    <3> QED
      BY <1>4, <3>1, <3>2
  <2> QED
    BY <1>4, <2>1, <2>2 DEF SentOnce
<1>8. TerminalLast'
  BY <1>4, <1>5 DEF WireInv, TerminalLast
<1>9. \A p \in wire' : ~LockFree' => p.sid # joining'.sid
  BY <1>2, <1>4 DEF LockFree
<1>10. \A p \in wire' : p.kind # "data" => term' # "none"
  BY <1>4, <1>5 DEF WireInv
<1> QED
  BY <1>7, <1>8, <1>9, <1>10 DEF WireInv

(* The end is sent from an empty ring: everything before it was             *)
(* acknowledged, and it lies where the output ends.                         *)
LEMMA SendTerminalWire ==
  ASSUME TypeInv, WireInv, SendTerminal(FALSE) PROVE WireInv'
<1>0. head \in Nat /\ sent \in Nat /\ total \in Nat
  BY DEF TypeInv, TypeOK
<1>1. \A p \in wire : p.seq \in Nat /\ p.len \in Nat
  BY DEF TypeInv, TypeOK, Packet
<1>2. LockFree /\ connected /\ Count = 0 /\ term # "none"
  BY DEF SendTerminal, SenderRuns, TermReady
<1>3. head = total /\ sent = 0 /\ eofPos = total
  BY <1>0, <1>2 DEF Count, TypeInv, SentInRing, LoopsInStep
<1>4. /\ UNCHANGED <<head, total, term, connected, streamId, sent, joining>>
      /\ wire' = wire \cup {TerminalPacket}
  BY DEF SendTerminal, ringVars, readVars
<1>5. /\ TerminalPacket.sid = streamId /\ TerminalPacket.seq = total /\ TerminalPacket.len = 0
  BY <1>3 DEF TerminalPacket
<1>6. ASSUME NEW p \in wire, p.sid = streamId PROVE p.seq + p.len <= total
  <2>1. p.seq + p.len <= head + sent
    BY <1>2, <1>6 DEF WireInv, SentOnce
  <2> QED
    BY <1>0, <1>1, <1>3, <2>1
<1>7. SentOnce'
  <2>1. ASSUME NEW p \in wire', NEW q \in wire',
               p.sid = q.sid, p.seq <= q.seq, q.len > 0, p # q
        PROVE  p.seq + p.len <= q.seq
    <3>1. CASE p \in wire /\ q \in wire
      BY <2>1, <3>1 DEF WireInv, SentOnce
    <3>2. CASE q = TerminalPacket
      BY <1>5, <2>1, <3>2
    <3>3. CASE p = TerminalPacket /\ q \in wire
      <4>1. q.seq + q.len <= total /\ total <= q.seq
        BY <1>5, <1>6, <2>1, <3>3
      <4> QED
        BY <1>0, <1>1, <2>1, <3>3, <4>1
    <3> QED
      BY <1>4, <2>1, <3>1, <3>2, <3>3
  <2>2. ASSUME NEW p \in wire', p.sid = streamId PROVE p.seq + p.len <= head + sent
    <3>1. head + sent = total
      BY <1>0, <1>3
    <3>2. CASE p \in wire
      BY <1>6, <2>2, <3>1, <3>2
    <3>3. CASE p = TerminalPacket
      BY <1>0, <1>5, <3>1, <3>3
    <3> QED
      BY <1>4, <3>2, <3>3
  <2> QED
    BY <1>4, <2>1, <2>2 DEF SentOnce
<1>8. TerminalLast'
  BY <1>3, <1>4, <1>5 DEF WireInv, TerminalLast
<1>9. \A p \in wire' : ~LockFree' => p.sid # joining'.sid
  BY <1>2, <1>4 DEF LockFree
<1>10. \A p \in wire' : p.kind # "data" => term' # "none"
  BY <1>2, <1>4
<1> QED
  BY <1>7, <1>8, <1>9, <1>10 DEF WireInv

(* Letting a client in gives it a stream that has carried nothing.          *)
LEMMA BeginConnectWire ==
  ASSUME TypeInv, WireInv, NEW sid \in Streams, NEW w \in 0 .. MaxRwnd, NEW c \in Position,
         Fresh(sid), BeginConnect(sid, w, c)
  PROVE  WireInv'
<1>1. /\ ~connected /\ UNCHANGED <<total, term, connected, streamId, sent, wire>>
      /\ joining' = [sid |-> sid, rwnd |-> w, start |-> MaxOf(head, c)]
  BY DEF BeginConnect, clientVars
<1>2. SentOnce'
  BY <1>1 DEF WireInv, SentOnce
<1>3. TerminalLast'
  BY <1>1 DEF WireInv, TerminalLast
<1>4. \A p \in wire' : p.sid # joining'.sid
  BY <1>1 DEF Fresh
<1>5. \A p \in wire' : p.kind # "data" => term' # "none"
  BY <1>1 DEF WireInv
<1> QED
  BY <1>2, <1>3, <1>4, <1>5 DEF WireInv

(* Once it is in, what it was sent counts from there.                       *)
LEMMA EndConnectWire ==
  ASSUME TypeInv, WireInv, EndConnect PROVE WireInv'
<1>1. ~LockFree /\ streamId' = joining.sid /\ wire' = wire /\ LockFree'
  BY DEF EndConnect, LockFree
<1>2. UNCHANGED <<total, term>>
  BY DEF EndConnect, SetWindow
<1>3. \A p \in wire' : p.sid # streamId'
  BY <1>1 DEF WireInv
<1>4. SentOnce'
  BY <1>1, <1>3 DEF WireInv, SentOnce
<1>5. TerminalLast'
  BY <1>1, <1>2, <1>3 DEF WireInv, TerminalLast
<1>6. \A p \in wire' : p.kind # "data" => term' # "none"
  BY <1>1, <1>2 DEF WireInv
<1> QED
  BY <1>1, <1>4, <1>5, <1>6 DEF WireInv

(* An ACK moves to the head what it takes from the bytes in flight.         *)
LEMMA WindowAckWire ==
  ASSUME TypeInv, WireInv, NEW a \in Ack, RecvWindowAck(a) PROVE WireInv'
<1>0. head \in Nat /\ sent \in Nat /\ total \in Nat /\ a.seq \in Nat
  BY DEF TypeInv, TypeOK, Ack
<1>1. /\ UNCHANGED <<connected, streamId, joining, wire>>
      /\ sent' = sent - (a.seq - head) /\ SetWindow(TRUE, EffectiveWindow(a.rwnd), a.seq)
      /\ AcksSentBytes(a)
  BY DEF RecvWindowAck
<1>2. head' = a.seq /\ UNCHANGED <<total, term>>
  BY <1>1 DEF SetWindow
<1>3. a.seq >= head /\ a.seq <= total
  BY <1>1 DEF AcksSentBytes
<1>4. head' \in Int /\ sent' \in Int /\ head' + sent' >= head + sent
  BY <1>0, <1>1, <1>2
<1>5. head = total => head' = total
  BY <1>0, <1>2, <1>3
<1> QED
  BY <1>1, <1>2, <1>4, <1>5, WireFrame

(* Every call keeps it.                                                     *)
LEMMA CallsWire ==
  ASSUME TypeInv, WireInv, Calls PROVE WireInv'
<1>0. head \in Nat /\ sent \in Nat /\ total \in Nat
  BY DEF TypeInv, TypeOK
<1>1. ASSUME UNCHANGED <<head, total, term, connected, streamId, sent, joining, wire>>
      PROVE  WireInv'
  <2>1. head' \in Int /\ sent' \in Int /\ head' + sent' >= head + sent
    BY <1>0, <1>1
  <2> QED
    BY <1>1, <2>1, WireFrame
<1>2. ASSUME ClientDisconnected PROVE WireInv'
  <2>1. /\ ~connected' /\ sent' = 0 /\ UNCHANGED <<joining, wire>>
        /\ SetWindow(FALSE, Cap, head)
    BY <1>2 DEF ClientDisconnected
  <2>2. head' \in Int
    BY <1>0, <2>1 DEF SetWindow, MinOf
  <2>3. UNCHANGED <<total, term>>
    BY <2>1 DEF SetWindow
  <2> QED
    BY <2>1, <2>2, <2>3, WireFrame
<1>3. ASSUME NEW a \in Ack, RecvAck(a) PROVE WireInv'
  <2>1. RecvFin(a) \/ RecvRefusedAck(a) => WireInv'
    BY <1>1 DEF RecvFin, RecvRefusedAck, ringVars, readVars
  <2> QED
    BY <1>3, <2>1, WindowAckWire DEF RecvAck
<1>4. ASSUME NEW w \in 0 .. MaxRwnd, SetRwndSize(w) PROVE WireInv'
  <2>1. UNCHANGED <<connected, streamId, sent, joining, wire>>
        /\ SetWindow(TRUE, EffectiveWindow(w), head)
    BY <1>4 DEF SetRwndSize
  <2>2. UNCHANGED <<head, total, term>>
    BY <2>1 DEF SetWindow
  <2> QED
    BY <1>1, <2>1, <2>2
<1>5. Close => WireInv'
  BY <1>1 DEF Close, ringVars, readVars, clientVars
<1> QED
  BY <1>2, <1>3, <1>4, <1>5, BeginConnectWire, EndConnectWire DEF Calls

(* Every step keeps it.                                                     *)
LEMMA StepWire == TypeInv /\ WireInv /\ [Next]_vars => WireInv'
<1> SUFFICES ASSUME TypeInv, WireInv, [Next]_vars PROVE WireInv'
  OBVIOUS
<1>0. head \in Nat /\ sent \in Nat
  BY DEF TypeInv, TypeOK
<1>1. ASSUME UNCHANGED <<head, total, term, connected, streamId, sent, joining, wire>>
      PROVE  WireInv'
  <2>1. head' \in Int /\ sent' \in Int /\ head' + sent' >= head + sent
    BY <1>0, <1>1
  <2> QED
    BY <1>1, <2>1, WireFrame
<1>2. ASSUME SenderLoop PROVE WireInv'
  <2>1. SenderWait \/ CoalesceElapsed \/ SenderExit => WireInv'
    BY <1>1 DEF SenderWait, CoalesceElapsed, SenderExit, ringVars, readVars, clientVars
  <2> QED
    BY <1>2, <2>1, SendDataWire, SendTerminalWire DEF SenderLoop
<1>3. Stopped \/ UNCHANGED vars => WireInv'
  BY <1>1 DEF Stopped, vars, ringVars, readVars, clientVars
<1> QED
  BY <1>2, <1>3, ReadLoopWire, CallsWire DEF Next

(* What was sent on a stream was sent once, and ends where it should.       *)
LEMMA WireHolds == Spec => []WireInv
<1>1. Init => WireInv
  BY DEF Init, WireInv, SentOnce, TerminalLast
<1> QED
  BY <1>1, StepWire, TypeInvHolds, PTL DEF Spec

(* One stream never carries a byte twice, and carries nothing beyond what   *)
(* the manager accounts for as sent.                                        *)
THEOREM NothingSentTwice == Spec => []SentOnce
<1>1. WireInv => SentOnce
  BY DEF WireInv
<1> QED
  BY <1>1, WireHolds, PTL

(* The end of the PTY is announced where its output ends, and only to a     *)
(* client that acknowledged everything before it.                           *)
THEOREM EndIsLast == Spec => []TerminalLast
<1>1. WireInv => TerminalLast
  BY DEF WireInv
<1> QED
  BY <1>1, WireHolds, PTL

-----------------------------------------------------------------------------
(* What the steps do to the client's side of the ring, for                  *)
(* DurableStreamProofs.tla.                                                 *)

(* With no client the window is the whole ring, and a read loop that reads, *)
(* or has not begun to, has written what it read before.                    *)
WholeRing ==
  /\ ~sync => win = Cap
  /\ readPc \in {"off", "read"} => chunk = 0

(* The client's side is as it was.                                          *)
SameClient == UNCHANGED <<connected, streamId, rwnd, sent, termAcked, joining, closed, wire>>

(* The PTY adds to the ring, which drops its oldest bytes only when it is   *)
(* full and has no client.                                                  *)
LEMMA ReadLoopEffect ==
  ASSUME TypeInv, WholeRing, ReadLoop
  PROVE  /\ SameClient /\ WholeRing'
         /\ head' >= head /\ total' >= total
         /\ connected => head' = head
         /\ head' > head => total' - head' = Cap
         /\ term # "none" => term' = term /\ total' = total
         /\ total' + chunk' >= total + chunk /\ total' + chunk' <= MaxPos
<1> USE DEF TypeInv, TypeOK, SentInRing, LoopsInStep, Count, WholeRing, SameClient,
            ringVars, readVars, clientVars, senderVars
<1>1. CASE AttachReader
  BY <1>1 DEF AttachReader, NextRead
<1>2. CASE WriteRing
  <2>1. Accepted \in 1 .. chunk /\ (sync => Count + Accepted <= win)
    BY <1>2 DEF WriteRing, Accepted, MinOf, MaxOf
  <2>2. /\ total' = total + Accepted /\ head' = total' - MinOf(Count + Accepted, win)
        /\ chunk' = chunk - Accepted /\ readPc' = "wake" /\ readPc = "write"
        /\ UNCHANGED <<win, sync, term, eofPos, clientVars, joining, senderVars, closed, wire>>
    BY <1>2 DEF WriteRing
  <2>3. CASE sync
    BY <2>1, <2>2, <2>3 DEF MinOf
  <2>4. CASE ~sync
    BY <2>1, <2>2, <2>4 DEF MinOf
  <2> QED
    BY <2>3, <2>4
<1>3. CASE WaitForRoom
  BY <1>3 DEF WaitForRoom
<1>4. CASE WakeSender
  BY <1>4 DEF WakeSender, NextRead
<1>5. CASE ReadLoopExit
  BY <1>5 DEF ReadLoopExit
<1>6. CASE \E n \in 1 .. MaxPacket : PtyRead(n)
  BY <1>6 DEF PtyRead
<1>7. CASE \E kind \in {"eof", "err"} : PtyEnd(kind)
  BY <1>7 DEF PtyEnd
<1> QED
  BY <1>1, <1>2, <1>3, <1>4, <1>5, <1>6, <1>7 DEF ReadLoop

(* SetEffectiveWindow as the manager calls it moves the head nowhere: with  *)
(* a client it is in sync mode, and without one the window is the ring.     *)
LEMMA WindowEffect ==
  ASSUME NEW s \in BOOLEAN, NEW w \in Nat, NEW from \in head .. total,
         TypeInv, WholeRing, SetWindow(s, w, from), s \/ w = Cap
  PROVE  head' = from /\ WholeRing' /\ UNCHANGED <<total, chunk, term>>
<1>1. /\ head \in Nat /\ total \in Nat /\ total - head <= Cap /\ Cap \in Nat
  BY DEF TypeInv, TypeOK, SentInRing, Count
<1>2. /\ sync' = s /\ win' = MinOf(w, Cap) /\ UNCHANGED <<total, chunk, term>>
      /\ head' = IF ~s /\ total - from > win' THEN total - win' ELSE from
      /\ readPc' \in {readPc, Woken}
  BY DEF SetWindow
<1>3. ~s => win' = Cap
  BY <1>1, <1>2 DEF MinOf
<1>4. readPc' \in {"off", "read"} => readPc \in {"off", "read"}
  BY <1>2 DEF Woken
<1>5. head' = from
  BY <1>1, <1>2, <1>3
<1> QED
  BY <1>2, <1>3, <1>4, <1>5 DEF WholeRing

(* A client that connects is answered with the head, which only its own     *)
(* position moves.                                                          *)
LEMMA BeginConnectEffect ==
  ASSUME TypeInv, WholeRing, NEW sid, NEW w, NEW c \in Nat, BeginConnect(sid, w, c)
  PROVE  /\ joining' = [sid |-> sid, rwnd |-> w, start |-> head']
         /\ head' \in {head, c} /\ head' >= head /\ head' >= c /\ head' <= total /\ ~connected
         /\ WholeRing'
         /\ UNCHANGED <<total, chunk, term, connected, streamId, rwnd, sent, termAcked, closed, wire>>
<1>1. head \in Nat /\ total \in Nat /\ head <= total /\ c <= total
  BY DEF TypeInv, TypeOK, BeginConnect
<1>2. head' = MaxOf(head, c) /\ joining' = [sid |-> sid, rwnd |-> w, start |-> MaxOf(head, c)] /\ ~connected
  BY DEF BeginConnect, TypeInv, TypeOK
<1>3. /\ UNCHANGED <<total, win, sync, chunk, term, clientVars, closed, wire>>
      /\ readPc' \in {"off", "read"} => readPc \in {"off", "read"}
  BY DEF BeginConnect, Woken
<1>4. MaxOf(head, c) \in {head, c} /\ MaxOf(head, c) >= head /\ MaxOf(head, c) >= c
  BY <1>1 DEF MaxOf
<1> QED
  BY <1>1, <1>2, <1>3, <1>4 DEF WholeRing, clientVars

(* The second half of ClientConnected sends nothing and starts at the head  *)
(* of the ring.                                                             *)
LEMMA EndConnectEffect ==
  ASSUME TypeInv, WholeRing, EndConnect
  PROVE  /\ ~connected /\ connected' = TRUE /\ joining' = NoJoin
         /\ streamId' = joining.sid /\ rwnd' = joining.rwnd /\ sent' = 0
         /\ WholeRing'
         /\ UNCHANGED <<head, total, chunk, term, termAcked, closed, wire>>
<1>1. joining.rwnd \in Nat /\ head \in head .. total /\ ~connected
  BY DEF EndConnect, TypeInv, TypeOK, LoopsInStep, LockFree, Join
<1>2. SetWindow(TRUE, EffectiveWindow(joining.rwnd), head)
  BY DEF EndConnect
<1>3. head' = head /\ WholeRing' /\ UNCHANGED <<total, chunk, term>>
  BY <1>1, <1>2, WindowIsNat, WindowEffect
<1> QED
  BY <1>1, <1>3 DEF EndConnect

(* A disconnect forgets what was sent and leaves the ring as it is.         *)
LEMMA DisconnectEffect ==
  ASSUME TypeInv, WholeRing, ClientDisconnected
  PROVE  /\ connected' = FALSE /\ sent' = 0 /\ WholeRing'
         /\ UNCHANGED <<head, total, chunk, term, streamId, rwnd, termAcked, joining, closed, wire>>
<1>1. head \in head .. total /\ Cap \in Nat
  BY DEF TypeInv, TypeOK
<1>2. SetWindow(FALSE, Cap, head)
  BY DEF ClientDisconnected
<1>3. head' = head /\ WholeRing' /\ UNCHANGED <<total, chunk, term>>
  BY <1>1, <1>2, WindowEffect
<1> QED
  BY <1>3 DEF ClientDisconnected

(* SetRwnd changes the window of the client, and of the ring only how much  *)
(* it may hold.                                                             *)
LEMMA RwndEffect ==
  ASSUME TypeInv, WholeRing, NEW w \in Nat, SetRwndSize(w)
  PROVE  /\ connected /\ rwnd' = w /\ WholeRing'
         /\ UNCHANGED <<head, total, chunk, term, connected, streamId, sent, termAcked, joining,
                        closed, wire>>
<1>1. head \in head .. total
  BY DEF TypeInv, TypeOK
<1>2. SetWindow(TRUE, EffectiveWindow(w), head)
  BY DEF SetRwndSize
<1>3. head' = head /\ WholeRing' /\ UNCHANGED <<total, chunk, term>>
  BY <1>1, <1>2, WindowIsNat, WindowEffect
<1> QED
  BY <1>3 DEF SetRwndSize

(* An ACK moves the head to its own position, or nowhere.                   *)
MovesHead(a) ==
  /\ a.seq >= head /\ head' = a.seq /\ rwnd' = a.rwnd
  /\ sent' = sent - (a.seq - head) /\ termAcked' = termAcked

(* An ACK is of the client that is connected. It moves the head to what it  *)
(* acknowledges and takes its window, or changes neither.                   *)
LEMMA AckEffect ==
  ASSUME TypeInv, WholeRing, NEW a, a.seq \in Nat, a.rwnd \in Nat, RecvAck(a)
  PROVE  /\ connected /\ a.sid = streamId /\ WholeRing'
         /\ UNCHANGED <<total, chunk, term, connected, streamId, joining, closed, wire>>
         /\ MovesHead(a) \/ UNCHANGED <<head, rwnd, sent>>
<1>1. head \in Nat /\ total \in Nat
  BY DEF TypeInv, TypeOK
<1>2. CASE RecvFin(a)
  BY <1>2 DEF RecvFin, ForUs, ringVars, readVars, WholeRing, TypeInv, TypeOK
<1>3. CASE RecvWindowAck(a)
  <2>1. a.seq \in head .. total
    BY <1>1, <1>3 DEF RecvWindowAck, AcksSentBytes
  <2>2. SetWindow(TRUE, EffectiveWindow(a.rwnd), a.seq)
    BY <1>3 DEF RecvWindowAck
  <2>3. head' = a.seq /\ WholeRing' /\ UNCHANGED <<total, chunk, term>>
    BY <2>1, <2>2, WindowIsNat, WindowEffect
  <2> QED
    BY <1>3, <2>1, <2>3 DEF RecvWindowAck, ForUs, MovesHead, TypeInv, TypeOK
<1>4. CASE RecvRefusedAck(a)
  BY <1>4 DEF RecvRefusedAck, ForUs, ringVars, readVars, WholeRing, TypeInv, TypeOK
<1> QED
  BY <1>2, <1>3, <1>4 DEF RecvAck

(* What the sender hands to the connection: bytes within the client's       *)
(* window, from the ring, next after what was sent; or the end of the PTY   *)
(* when there are none left.                                                *)
LEMMA SendDataEffect ==
  ASSUME TypeInv, WholeRing, NEW lost \in BOOLEAN, SendData(lost)
  PROVE  /\ connected /\ wire' \in {wire, wire \cup {DataPacket}}
         /\ DataPacket.sid = streamId /\ DataPacket.kind = "data"
         /\ DataPacket.seq = head + sent /\ DataPacket.len \in 1 .. MaxPacket
         /\ sent' = sent + DataPacket.len
         /\ head + sent + DataPacket.len <= total /\ sent + DataPacket.len <= rwnd
         /\ WholeRing'
         /\ UNCHANGED <<head, total, chunk, term, connected, streamId, rwnd, termAcked, joining, closed>>
<1>1. DataReady /\ connected
  BY DEF SendData, DataReady, TypeInv, TypeOK
<1>2. PeekSize \in 1 .. MaxPacket /\ PeekSize <= Unsent /\ PeekSize <= Sendable
  BY <1>1, PeekBounds
<1>3. head \in Nat /\ total \in Nat /\ sent \in Nat /\ rwnd \in Nat
  BY DEF TypeInv, TypeOK
<1>4. head + sent + PeekSize <= total /\ sent + PeekSize <= rwnd
  BY <1>2, <1>3 DEF Unsent, Sendable, Count, EffectiveWindow, MinOf
<1>5. /\ sent' = sent + PeekSize /\ wire' \in {wire, wire \cup {DataPacket}}
      /\ UNCHANGED <<ringVars, readVars, connected, streamId, rwnd, termAcked, joining, closed>>
  BY DEF SendData
<1>6. /\ DataPacket.sid = streamId /\ DataPacket.kind = "data"
      /\ DataPacket.seq = head + sent /\ DataPacket.len = PeekSize
  BY DEF DataPacket
<1> HIDE DEF PeekSize, DataPacket
<1>7. WholeRing'
  BY <1>5 DEF WholeRing, ringVars, readVars
<1> QED
  BY <1>1, <1>2, <1>4, <1>5, <1>6, <1>7 DEF ringVars, readVars

(* The end of the stream is sent at its position, once.                     *)
LEMMA SendTerminalEffect ==
  ASSUME TypeInv, WholeRing, NEW lost \in BOOLEAN, SendTerminal(lost)
  PROVE  /\ connected /\ wire' \in {wire, wire \cup {TerminalPacket}}
         /\ TerminalPacket.sid = streamId /\ TerminalPacket.kind \in {"eof", "err"}
         /\ TerminalPacket.seq = total /\ TerminalPacket.len = 0 /\ term # "none"
         /\ WholeRing'
         /\ UNCHANGED <<head, total, chunk, term, connected, streamId, rwnd, sent, termAcked,
                        joining, closed>>
<1>1. connected /\ term \in {"eof", "err"} /\ eofPos = total
  BY DEF SendTerminal, TermReady, TypeInv, TypeOK, LoopsInStep
<1>2. /\ wire' \in {wire, wire \cup {TerminalPacket}}
      /\ UNCHANGED <<ringVars, readVars, connected, streamId, rwnd, sent, termAcked, joining, closed>>
  BY DEF SendTerminal
<1>3. /\ TerminalPacket.sid = streamId /\ TerminalPacket.kind = term
      /\ TerminalPacket.seq = eofPos /\ TerminalPacket.len = 0
  BY DEF TerminalPacket
<1> HIDE DEF TerminalPacket
<1> QED
  BY <1>1, <1>2, <1>3 DEF WholeRing, ringVars, readVars

(* The other steps of the sender loop move no byte.                         *)
LEMMA SenderRestEffect ==
  ASSUME TypeInv, WholeRing, SenderWait \/ CoalesceElapsed \/ SenderExit
  PROVE  SameClient /\ WholeRing' /\ UNCHANGED <<head, total, chunk, term>>
  BY DEF SenderWait, CoalesceElapsed, SenderExit, SameClient, WholeRing, ringVars, readVars, clientVars
=============================================================================
