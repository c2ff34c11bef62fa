--------------------------- MODULE StreamManager ---------------------------
(***************************************************************************)
(* pkg/jobmanager/streammanager.go: buffers the output of a job's PTY and  *)
(* sends it to the attached client under ACK-based flow control.  Three    *)
(* goroutines meet here: the read loop (PTY to ring), the sender loop      *)
(* (ring to client) and the callers of ClientConnected, ClientDisconnected,*)
(* RecvAck and SetRwndSize.  The manager's lock makes each of the latter   *)
(* one step, except ClientConnected: the ring has its own lock, so the     *)
(* read loop can write between the moment ClientConnected reads the head   *)
(* of the ring and the moment it stops the ring from overwriting.          *)
(*                                                                         *)
(* A byte is its position in the stream.  The ring holds the positions     *)
(* head .. total - 1 (CirBuf.tla shows that the slots do).                 *)
(*                                                                         *)
(* The client is unconstrained here: any stream id it has not used, any    *)
(* resume position, any ACK.  DurableStream.tla connects the real one.     *)
(***************************************************************************)
EXTENDS Integers

CONSTANTS
  Streams,    \* stream ids (uuids)
  NoStream,   \* the empty stream id
  Cap,        \* CirBufSize
  Cwnd,       \* CwndSize
  MaxPacket,  \* MaxPacketSize: payload of a packet, and one read of the PTY
  MaxRwnd,    \* bound of the model: the largest window a client advertises
  MaxPos      \* bound of the model: bytes the PTY ever produces

ASSUME StreamManagerAssumption ==
  /\ NoStream \notin Streams
  /\ Cap \in Nat \ {0}
  /\ Cwnd \in Nat \ {0}
  /\ MaxPacket \in Nat \ {0}
  /\ MaxRwnd \in Nat
  /\ MaxPos \in Nat

VARIABLES
  head, total, win, sync,  \* the ring: HeadPos, TotalSize, window, sync mode
  readPc,      \* where the read loop is
  chunk,       \* bytes it has read from the PTY and not yet written
  term,        \* terminalEvent: "none", "eof" or "err"
  eofPos,      \* -1 until the PTY ends
  connected, streamId, rwnd,
  sent,        \* sentNotAcked
  termSent,    \* terminalEventSent
  maxAck,      \* [seq, rwnd]: maxAckedSeq, maxAckedRwnd
  termAcked,   \* terminalEventAcked
  joining,     \* the ClientConnected call that holds the lock, or NoJoin
  sender,      \* the sender loop: "awake", "asleep" on drainCond, or "done"
  coalescing,  \* coalesceUntil lies in the future
  armed,       \* coalesceTimer is running
  closed,
  wire         \* data packets handed to the client's connection

ringVars == <<head, total, win, sync>>
readVars == <<readPc, chunk, term, eofPos>>
clientVars == <<connected, streamId, rwnd, sent, termSent, maxAck, termAcked>>
senderVars == <<sender, coalescing, armed>>
vars == <<ringVars, readVars, clientVars, joining, senderVars, closed, wire>>

Position == 0 .. MaxPos
Packet == [sid : Streams, seq : Position, len : 0 .. MaxPacket, kind : {"data", "eof", "err"}]
Ack == [sid : Streams, seq : Position, rwnd : 0 .. MaxRwnd, fin : BOOLEAN]

NoJoin == [sid |-> NoStream, rwnd |-> 0, start |-> 0]
Join == [sid : Streams, rwnd : 0 .. MaxRwnd, start : Position] \cup {NoJoin}

Init ==
  /\ head = 0 /\ total = 0 /\ win = Cap /\ sync = TRUE
  /\ readPc = "off" /\ chunk = 0 /\ term = "none" /\ eofPos = -1
  /\ connected = FALSE /\ streamId = NoStream /\ rwnd = Cwnd
  /\ sent = 0 /\ termSent = FALSE /\ maxAck = [seq |-> 0, rwnd |-> 0] /\ termAcked = FALSE
  /\ joining = NoJoin
  /\ sender = "awake" /\ coalescing = FALSE /\ armed = FALSE
  /\ closed = FALSE
  /\ wire = {}

MinOf(a, b) == IF a <= b THEN a ELSE b
MaxOf(a, b) == IF a <= b THEN b ELSE a

Count == total - head
EffectiveWindow(w) == MinOf(w, Cwnd)
LockFree == joining = NoJoin

(* drainCond.Signal, and what closing the channel of a blocked write does.  *)
Signalled == IF sender = "asleep" THEN "awake" ELSE sender
Woken == IF readPc = "wait" THEN "write" ELSE readPc

-----------------------------------------------------------------------------
(* The read loop.  It looks at doneCh before each read; a read that is      *)
(* already waiting when the manager closes still returns.                   *)
NextRead == IF closed THEN "done" ELSE "read"

AttachReader ==
  /\ readPc = "off"
  /\ LockFree
  /\ readPc' = NextRead
  /\ UNCHANGED <<ringVars, chunk, term, eofPos, clientVars, joining, senderVars, closed, wire>>

(* reader.Read returns n bytes.                                             *)
PtyRead(n) ==
  /\ readPc = "read"
  /\ total + n <= MaxPos
  /\ chunk' = n
  /\ readPc' = "write"
  /\ UNCHANGED <<ringVars, term, eofPos, clientVars, joining, senderVars, closed, wire>>

(* CirBuf.WriteAvailable as handleReadData calls it: it takes what fits (in *)
(* async mode everything), or nothing, and then the loop waits.             *)
Accepted == IF sync THEN MinOf(chunk, MaxOf(0, win - Count)) ELSE chunk

WriteRing ==
  /\ readPc = "write" /\ Accepted > 0
  /\ total' = total + Accepted
  /\ head' = total' - MinOf(Count + Accepted, win)
  /\ chunk' = chunk - Accepted
  /\ readPc' = "wake"
  /\ UNCHANGED <<win, sync, term, eofPos, clientVars, joining, senderVars, closed, wire>>

WaitForRoom ==
  /\ readPc = "write" /\ Accepted = 0
  /\ readPc' = "wait"
  /\ UNCHANGED <<ringVars, chunk, term, eofPos, clientVars, joining, senderVars, closed, wire>>

(* wakeSender takes the manager's lock, so it waits for ClientConnected.    *)
WakeSender ==
  /\ readPc = "wake" /\ LockFree
  /\ sender' = Signalled
  /\ readPc' = IF chunk > 0 THEN "write" ELSE NextRead
  /\ UNCHANGED <<ringVars, chunk, term, eofPos, clientVars, joining, coalescing, armed, closed, wire>>

(* Mutant: the sender is not told.                                          *)
PtyEndMutant(kind) ==
  /\ readPc = "read" /\ LockFree
  /\ term' = kind
  /\ eofPos' = total
  /\ readPc' = "done"
  /\ UNCHANGED <<ringVars, chunk, clientVars, joining, senderVars, closed, wire>>

(* handleEOF and handleError: the loop ends with either.                    *)
PtyEnd(kind) ==
  /\ readPc = "read" /\ LockFree
  /\ term' = kind
  /\ eofPos' = total
  /\ sender' = Signalled
  /\ readPc' = "done"
  /\ UNCHANGED <<ringVars, chunk, clientVars, joining, coalescing, armed, closed, wire>>

(* doneCh ends a wait for room too.                                         *)
ReadLoopExit ==
  /\ closed /\ readPc = "wait"
  /\ readPc' = "done"
  /\ UNCHANGED <<ringVars, chunk, term, eofPos, clientVars, joining, senderVars, closed, wire>>

-----------------------------------------------------------------------------
(* The calls.                                                               *)

(* Mutant: a window that grows does not wake the blocked write.             *)
SetWindowMutant(s, w, from) ==
  /\ sync' = s
  /\ win' = MinOf(w, Cap)
  /\ head' = IF ~s /\ total - from > win' THEN total - win' ELSE from
  /\ readPc' = IF from > head \/ (sync /\ ~s) THEN Woken ELSE readPc
  /\ UNCHANGED <<total, chunk, term, eofPos>>

(* CirBuf.SetEffectiveWindow, on a ring whose head a Consume has just moved *)
(* to from: async mode truncates; a larger window or the end of sync mode   *)
(* wakes a blocked write, as the Consume did.                               *)
SetWindow(s, w, from) ==
  /\ sync' = s
  /\ win' = MinOf(w, Cap)
  /\ head' = IF ~s /\ total - from > win' THEN total - win' ELSE from
  /\ readPc' = IF from > head \/ (sync /\ (win' > win \/ ~s)) THEN Woken ELSE readPc
  /\ UNCHANGED <<total, chunk, term, eofPos>>

(* ClientConnected up to the last use of HeadPos: what lies before the      *)
(* client's position is consumed, and the answer is fixed.  A position      *)
(* beyond the ring is refused.                                              *)
BeginConnect(sid, w, clientSeq) ==
  /\ LockFree
  /\ ~closed /\ ~termAcked /\ ~connected
  /\ clientSeq <= total
  /\ joining' = [sid |-> sid, rwnd |-> w, start |-> MaxOf(head, clientSeq)]
  /\ head' = MaxOf(head, clientSeq)
  /\ readPc' = IF clientSeq > head THEN Woken ELSE readPc
  /\ UNCHANGED <<total, win, sync, chunk, term, eofPos, clientVars, senderVars, closed, wire>>

(* Mutant: the ring is left in the mode it was in.                          *)
EndConnectMutant ==
  /\ ~LockFree
  /\ connected' = TRUE
  /\ streamId' = joining.sid
  /\ rwnd' = joining.rwnd
  /\ sent' = 0
  /\ coalescing' = FALSE
  /\ SetWindow(sync, EffectiveWindow(joining.rwnd), head)
  /\ sender' = Signalled
  /\ joining' = NoJoin
  /\ UNCHANGED <<termSent, maxAck, termAcked, armed, closed, wire>>

(* The rest of ClientConnected, still under the lock.                       *)
EndConnect ==
  /\ ~LockFree
  /\ connected' = TRUE
  /\ streamId' = joining.sid
  /\ rwnd' = joining.rwnd
  /\ sent' = 0
  /\ coalescing' = FALSE
  /\ SetWindow(TRUE, EffectiveWindow(joining.rwnd), head)
  /\ sender' = Signalled
  /\ joining' = NoJoin
  /\ UNCHANGED <<termSent, maxAck, termAcked, armed, closed, wire>>

(* Mutant: what was in flight to the old client stays counted.              *)
ClientDisconnectedMutant ==
  /\ LockFree /\ connected
  /\ connected' = FALSE
  /\ maxAck' = [seq |-> 0, rwnd |-> 0]
  /\ termSent' = IF termAcked THEN termSent ELSE FALSE
  /\ SetWindow(FALSE, Cap, head)
  /\ sender' = Signalled
  /\ UNCHANGED <<streamId, rwnd, sent, termAcked, joining, coalescing, armed, closed, wire>>

(* Mutant: the ring keeps the window of the client that is gone.            *)
ClientDisconnectedWindowMutant ==
  /\ LockFree /\ connected
  /\ connected' = FALSE
  /\ sent' = 0
  /\ maxAck' = [seq |-> 0, rwnd |-> 0]
  /\ termSent' = IF termAcked THEN termSent ELSE FALSE
  /\ SetWindow(FALSE, EffectiveWindow(rwnd), head)
  /\ sender' = Signalled
  /\ UNCHANGED <<streamId, rwnd, termAcked, joining, coalescing, armed, closed, wire>>

ClientDisconnected ==
  /\ LockFree /\ connected
  /\ connected' = FALSE
  /\ sent' = 0
  /\ maxAck' = [seq |-> 0, rwnd |-> 0]
  /\ termSent' = IF termAcked THEN termSent ELSE FALSE
  /\ SetWindow(FALSE, Cap, head)
  /\ sender' = Signalled
  /\ UNCHANGED <<streamId, rwnd, termAcked, joining, coalescing, armed, closed, wire>>

(* RecvAck.  An ACK carries a cancel flag too; it is not looked at.         *)
ForUs(a) == LockFree /\ connected /\ a.sid = streamId

RecvFin(a) ==
  /\ ForUs(a) /\ a.fin
  /\ termAcked' = TRUE
  /\ sender' = Signalled
  /\ UNCHANGED <<ringVars, readVars, connected, streamId, rwnd, sent, termSent, maxAck,
                 joining, coalescing, armed, closed, wire>>

NewerAck(a) == a.seq > maxAck.seq \/ (a.seq = maxAck.seq /\ a.rwnd > maxAck.rwnd)

(* Mutant: an ACK may go beyond what this client was sent.                  *)
AcksSentBytesMutant(a) == a.seq >= head /\ a.seq <= total

(* Acknowledges bytes this stream was sent and the ring still holds.        *)
AcksSentBytes(a) == a.seq >= head /\ a.seq - head <= sent /\ a.seq <= total

(* Mutant: the sender is signalled only for a larger window.                *)
RecvWindowAckMutant(a) ==
  /\ ForUs(a) /\ ~a.fin
  /\ NewerAck(a)
  /\ AcksSentBytes(a)
  /\ maxAck' = [seq |-> a.seq, rwnd |-> a.rwnd]
  /\ sent' = sent - (a.seq - head)
  /\ rwnd' = a.rwnd
  /\ SetWindow(TRUE, EffectiveWindow(a.rwnd), a.seq)
  /\ sender' = IF a.rwnd > rwnd THEN Signalled ELSE sender
  /\ UNCHANGED <<connected, streamId, termSent, termAcked, joining, coalescing, armed, closed, wire>>

RecvWindowAck(a) ==
  /\ ForUs(a) /\ ~a.fin
  /\ NewerAck(a)
  /\ AcksSentBytes(a)
  /\ maxAck' = [seq |-> a.seq, rwnd |-> a.rwnd]
  /\ sent' = sent - (a.seq - head)
  /\ rwnd' = a.rwnd
  /\ SetWindow(TRUE, EffectiveWindow(a.rwnd), a.seq)
  /\ sender' = IF a.rwnd > rwnd \/ a.seq > head THEN Signalled ELSE sender
  /\ UNCHANGED <<connected, streamId, termSent, termAcked, joining, coalescing, armed, closed, wire>>

RecvRefusedAck(a) ==
  /\ ForUs(a) /\ ~a.fin
  /\ NewerAck(a)
  /\ ~AcksSentBytes(a)
  /\ maxAck' = [seq |-> a.seq, rwnd |-> a.rwnd]
  /\ UNCHANGED <<ringVars, readVars, connected, streamId, rwnd, sent, termSent, termAcked,
                 joining, senderVars, closed, wire>>

RecvAck(a) == RecvFin(a) \/ RecvWindowAck(a) \/ RecvRefusedAck(a)

(* Any other ACK changes nothing.                                           *)
IgnoredAck(a) == LockFree /\ (~connected \/ a.sid # streamId \/ (~a.fin /\ ~NewerAck(a)))

SetRwndSize(w) ==
  /\ LockFree /\ connected
  /\ rwnd' = w
  /\ SetWindow(TRUE, EffectiveWindow(w), head)
  /\ sender' = Signalled
  /\ UNCHANGED <<connected, streamId, sent, termSent, maxAck, termAcked,
                 joining, coalescing, armed, closed, wire>>

Close ==
  /\ LockFree /\ ~closed
  /\ closed' = TRUE
  /\ armed' = FALSE
  /\ sender' = Signalled
  /\ UNCHANGED <<ringVars, readVars, clientVars, joining, coalescing, wire>>

-----------------------------------------------------------------------------
(* The sender loop: prepareNextPacket and SendData.  A packet may be handed *)
(* to a connection that is already dead, and is then lost.                  *)

Sendable == EffectiveWindow(rwnd) - sent          \* availableToSend
Unsent == Count - sent
PeekSize == MinOf(MinOf(Sendable, MaxPacket), Unsent)
Short == PeekSize < MaxPacket /\ PeekSize < Sendable /\ term = "none"

SenderRuns == LockFree /\ sender = "awake" /\ ~closed /\ ~termAcked
DataReady == connected /\ Sendable > 0 /\ Unsent > 0
(* Mutant: the terminal event does not wait for the ring to empty.          *)
TermReadyMutant == connected /\ term # "none" /\ ~termSent

TermReady == connected /\ Count = 0 /\ term # "none" /\ ~termSent
Held == DataReady /\ Short /\ coalescing          \* a short packet waits for more

(* Mutant: the sequence number leaves out what is in flight.                *)
DataPacketMutant == [sid |-> streamId, seq |-> head, len |-> PeekSize, kind |-> "data"]

DataPacket == [sid |-> streamId, seq |-> head + sent, len |-> PeekSize, kind |-> "data"]
TerminalPacket == [sid |-> streamId, seq |-> eofPos, len |-> 0, kind |-> term]

SendData(lost) ==
  /\ SenderRuns /\ DataReady /\ ~Held
  /\ sent' = sent + PeekSize
  /\ coalescing' = TRUE
  /\ wire' = IF lost THEN wire ELSE wire \cup {DataPacket}
  /\ UNCHANGED <<ringVars, readVars, connected, streamId, rwnd, termSent, maxAck, termAcked,
                 joining, sender, armed, closed>>

SendTerminal(lost) ==
  /\ SenderRuns /\ TermReady
  /\ termSent' = TRUE
  /\ wire' = IF lost THEN wire ELSE wire \cup {TerminalPacket}
  /\ UNCHANGED <<ringVars, readVars, connected, streamId, rwnd, sent, maxAck, termAcked,
                 joining, senderVars, closed>>

SenderWait ==
  /\ SenderRuns
  /\ Held \/ (~DataReady /\ ~TermReady)
  /\ sender' = "asleep"
  /\ armed' = (armed \/ Held)
  /\ UNCHANGED <<ringVars, readVars, clientVars, joining, coalescing, closed, wire>>

(* SendCoalesceWindow passes; a running timer calls wakeSender.             *)
CoalesceElapsed ==
  /\ coalescing \/ armed
  /\ armed => LockFree
  /\ coalescing' = FALSE
  /\ armed' = FALSE
  /\ sender' = IF armed THEN Signalled ELSE sender
  /\ UNCHANGED <<ringVars, readVars, clientVars, joining, closed, wire>>

SenderExit ==
  /\ LockFree /\ sender = "awake" /\ (closed \/ termAcked)
  /\ sender' = "done"
  /\ UNCHANGED <<ringVars, readVars, clientVars, joining, coalescing, armed, closed, wire>>

-----------------------------------------------------------------------------
Fresh(sid) == sid # streamId /\ \A p \in wire : p.sid # sid

ReadLoop ==
  \/ AttachReader \/ WriteRing \/ WaitForRoom \/ WakeSender \/ ReadLoopExit
  \/ \E n \in 1 .. MaxPacket : PtyRead(n)
  \/ \E kind \in {"eof", "err"} : PtyEnd(kind)

SenderLoop ==
  \/ SendData(FALSE) \/ SendTerminal(FALSE)
  \/ SenderWait \/ CoalesceElapsed \/ SenderExit

Calls ==
  \/ \E sid \in Streams, w \in 0 .. MaxRwnd, c \in Position : Fresh(sid) /\ BeginConnect(sid, w, c)
  \/ EndConnect
  \/ ClientDisconnected
  \/ \E a \in Ack : RecvAck(a)
  \/ \E w \in 0 .. MaxRwnd : SetRwndSize(w)
  \/ Close

(* The manager is closed and both loops have returned.                      *)
Stopped == closed /\ readPc = "done" /\ sender = "done" /\ UNCHANGED vars

Next == ReadLoop \/ SenderLoop \/ Calls \/ Stopped

Spec == Init /\ [][Next]_vars

-----------------------------------------------------------------------------
(* Every variable keeps its type, and positions stay in order.              *)
TypeOK ==
  /\ head \in Position /\ total \in Position /\ head <= total
  /\ win \in 0 .. Cap
  /\ sync \in BOOLEAN
  /\ readPc \in {"off", "read", "write", "wake", "wait", "done"}
  /\ chunk \in Position /\ total + chunk <= MaxPos
  /\ term \in {"none", "eof", "err"}
  /\ eofPos \in Position \cup {-1}
  /\ connected \in BOOLEAN
  /\ streamId \in Streams \cup {NoStream}
  /\ rwnd \in Nat
  /\ sent \in Position
  /\ termSent \in BOOLEAN /\ termAcked \in BOOLEAN
  /\ maxAck \in [seq : Position, rwnd : 0 .. MaxRwnd]
  /\ joining \in Join
  /\ sender \in {"awake", "asleep", "done"}
  /\ coalescing \in BOOLEAN /\ armed \in BOOLEAN /\ closed \in BOOLEAN
  /\ wire \subseteq Packet

(* What a client was sent and has not acknowledged is still in the ring,    *)
(* and while a client is attached the ring refuses writes rather than drop  *)
(* what was sent; with no client nothing counts as sent.                    *)
SentInRing ==
  /\ Count <= Cap
  /\ connected => sync /\ sent <= Count
  /\ ~connected => sent = 0

(* A read loop that waits for room has none: every acknowledged byte, every *)
(* larger window and every disconnect has woken it.                         *)
ParkedOnlyWhenFull == readPc = "wait" => sync /\ Count >= win

(* The sender never sleeps on work: if it could send, a wake-up is on its   *)
(* way, from the read loop or from the coalescing timer.                    *)
SenderNotForgotten ==
  sender = "asleep" /\ LockFree /\ ~closed /\ ~termAcked =>
    readPc = "wake" \/ armed \/ ~(DataReady \/ TermReady)

(* One stream never carries a byte twice, and carries nothing beyond what   *)
(* the manager accounts for as sent.                                        *)
SentOnce ==
  /\ \A p, q \in wire :
       p.sid = q.sid /\ p.seq <= q.seq /\ q.len > 0 /\ p # q => p.seq + p.len <= q.seq
  /\ \A p \in wire : connected /\ p.sid = streamId => p.seq + p.len <= head + sent

(* The end of the PTY is announced at the position where its output ends,   *)
(* and only to a client that acknowledged everything before it.             *)
TerminalLast ==
  \A p \in wire : p.kind # "data" =>
    /\ p.seq = total
    /\ connected /\ p.sid = streamId => head = total

(* While a client is attached, a byte leaves the ring only if that client   *)
(* was sent it.                                                             *)
NothingDroppedWhileConnected == [][connected => head' <= head + sent]_vars

(* The position ClientConnected answers is the position its first packet    *)
(* will carry.  It is not: the read loop can overwrite the head of the ring *)
(* between HeadPos and SetEffectiveWindow.                                  *)
StartIsHead == [][~LockFree /\ joining' = NoJoin => joining.start = head']_vars
=============================================================================
