------------------------- MODULE DurableStreamProofs -------------------------
(***************************************************************************)
(* Proofs about DurableStream.tla, for every capacity, window, packet size *)
(* and number of streams: flow control and the cork hold end to end, no    *)
(* resume is refused, only received bytes are given up while there is      *)
(* room, an end of the stream accounts for every byte, and the whole path  *)
(* implements DurableOutput.tla.                                           *)
(*                                                                         *)
(* The two halves keep the invariants proved in StreamManagerProofs.tla    *)
(* and JobOutputProofs.tla; what is added here is what holds between them. *)
(***************************************************************************)
EXTENDS DurableStream, SequenceTheorems, TLAPS

MP == INSTANCE StreamManagerProofs WITH MaxRwnd <- RWnd
CP == INSTANCE JobOutputProofs

(* The constants are what the proofs about the halves assume.               *)
LEMMA Constants ==
  /\ MP!StreamManagerAssumption /\ CP!JobOutputAssumption
  /\ NoStream \notin Streams /\ RWnd \in Nat \ {0} /\ Cap \in Nat \ {0} /\ MaxPos \in Nat
  BY DurableStreamAssumption DEF MP!StreamManagerAssumption, CP!JobOutputAssumption

-----------------------------------------------------------------------------
(* The halves' actions are the ones their proofs are about.                 *)

(* The names of a step in StreamManager.tla and in its proofs.              *)
LEMMA ManagerActions ==
  /\ Mgr!WriteRing \/ Mgr!WaitForRoom \/ Mgr!WakeSender \/ Mgr!AttachReader => MP!ReadLoop
  /\ \A n \in 1 .. MaxPacket : Mgr!PtyRead(n) => MP!ReadLoop
  /\ \A kind \in {"eof", "err"} : Mgr!PtyEnd(kind) => MP!ReadLoop
  /\ \A lost : Mgr!SendData(lost) => MP!SendData(lost)
  /\ \A lost : Mgr!SendTerminal(lost) => MP!SendTerminal(lost)
  /\ Mgr!SenderWait => MP!SenderWait
  /\ Mgr!SenderExit => MP!SenderExit
  /\ Mgr!CoalesceElapsed => MP!CoalesceElapsed
<1>1. Mgr!WriteRing => MP!WriteRing
  BY DEF Mgr!WriteRing, Mgr!Accepted, Mgr!MinOf, Mgr!MaxOf, Mgr!Count, Mgr!clientVars, Mgr!senderVars,
         MP!WriteRing, MP!Accepted, MP!MinOf, MP!MaxOf, MP!Count, MP!clientVars, MP!senderVars
<1>2. Mgr!WaitForRoom => MP!WaitForRoom
  BY DEF Mgr!WaitForRoom, Mgr!Accepted, Mgr!MinOf, Mgr!MaxOf, Mgr!Count, Mgr!ringVars, Mgr!clientVars,
         Mgr!senderVars,
         MP!WaitForRoom, MP!Accepted, MP!MinOf, MP!MaxOf, MP!Count, MP!ringVars, MP!clientVars,
         MP!senderVars
<1>3. Mgr!WakeSender => MP!WakeSender
  BY DEF Mgr!WakeSender, Mgr!LockFree, Mgr!NoJoin, Mgr!Signalled, Mgr!NextRead, Mgr!ringVars, Mgr!clientVars,
         MP!WakeSender, MP!LockFree, MP!NoJoin, MP!Signalled, MP!NextRead, MP!ringVars, MP!clientVars
<1>4. Mgr!AttachReader => MP!AttachReader
  BY DEF Mgr!AttachReader, Mgr!LockFree, Mgr!NoJoin, Mgr!NextRead, Mgr!ringVars, Mgr!clientVars,
         Mgr!senderVars,
         MP!AttachReader, MP!LockFree, MP!NoJoin, MP!NextRead, MP!ringVars, MP!clientVars, MP!senderVars
<1>5. \A n \in 1 .. MaxPacket : Mgr!PtyRead(n) => MP!PtyRead(n)
  BY DEF Mgr!PtyRead, Mgr!ringVars, Mgr!clientVars, Mgr!senderVars,
         MP!PtyRead, MP!ringVars, MP!clientVars, MP!senderVars
<1>6. \A kind \in {"eof", "err"} : Mgr!PtyEnd(kind) => MP!PtyEnd(kind)
  BY DEF Mgr!PtyEnd, Mgr!LockFree, Mgr!NoJoin, Mgr!Signalled, Mgr!ringVars, Mgr!clientVars,
         MP!PtyEnd, MP!LockFree, MP!NoJoin, MP!Signalled, MP!ringVars, MP!clientVars
<1> USE DEF Mgr!SenderRuns, Mgr!DataReady, Mgr!TermReady, Mgr!Held, Mgr!Short, Mgr!PeekSize, Mgr!Sendable,
            Mgr!Unsent, Mgr!Count, Mgr!EffectiveWindow, Mgr!MinOf, Mgr!LockFree, Mgr!NoJoin,
            Mgr!ringVars, Mgr!readVars, Mgr!clientVars, Mgr!senderVars,
            MP!SenderRuns, MP!DataReady, MP!TermReady, MP!Held, MP!Short, MP!PeekSize, MP!Sendable,
            MP!Unsent, MP!Count, MP!EffectiveWindow, MP!MinOf, MP!LockFree, MP!NoJoin,
            MP!ringVars, MP!readVars, MP!clientVars, MP!senderVars
<1>7. \A lost : Mgr!SendData(lost) => MP!SendData(lost)
  BY DEF Mgr!SendData, Mgr!DataPacket, MP!SendData, MP!DataPacket
<1>8. \A lost : Mgr!SendTerminal(lost) => MP!SendTerminal(lost)
  BY DEF Mgr!SendTerminal, Mgr!TerminalPacket, MP!SendTerminal, MP!TerminalPacket
<1>9. Mgr!SenderWait => MP!SenderWait
  BY DEF Mgr!SenderWait, MP!SenderWait
<1>10. Mgr!SenderExit => MP!SenderExit
  BY DEF Mgr!SenderExit, MP!SenderExit
<1>11. Mgr!CoalesceElapsed => MP!CoalesceElapsed
  BY DEF Mgr!CoalesceElapsed, Mgr!Signalled, MP!CoalesceElapsed, MP!Signalled
<1> QED
  BY <1>1, <1>2, <1>3, <1>4, <1>5, <1>6, <1>7, <1>8, <1>9, <1>10, <1>11 DEF MP!ReadLoop

(* The same for the calls.                                                  *)
LEMMA ManagerCalls ==
  /\ \A sid, w, c : Mgr!BeginConnect(sid, w, c) => MP!BeginConnect(sid, w, c)
  /\ Mgr!EndConnect => MP!EndConnect
  /\ Mgr!ClientDisconnected => MP!ClientDisconnected
  /\ \A a : Mgr!RecvAck(a) => MP!RecvAck(a)
  /\ \A w : Mgr!SetRwndSize(w) => MP!SetRwndSize(w)
<1> USE DEF Mgr!LockFree, Mgr!NoJoin, Mgr!MaxOf, Mgr!MinOf, Mgr!Woken, Mgr!Signalled, Mgr!EffectiveWindow,
            Mgr!SetWindow, Mgr!ringVars, Mgr!readVars, Mgr!clientVars, Mgr!senderVars,
            MP!LockFree, MP!NoJoin, MP!MaxOf, MP!MinOf, MP!Woken, MP!Signalled, MP!EffectiveWindow,
            MP!SetWindow, MP!ringVars, MP!readVars, MP!clientVars, MP!senderVars
<1>1. \A sid, w, c : Mgr!BeginConnect(sid, w, c) => MP!BeginConnect(sid, w, c)
  BY DEF Mgr!BeginConnect, MP!BeginConnect
<1>2. Mgr!EndConnect => MP!EndConnect
  BY DEF Mgr!EndConnect, MP!EndConnect
<1>3. Mgr!ClientDisconnected => MP!ClientDisconnected
  BY DEF Mgr!ClientDisconnected, MP!ClientDisconnected
<1>4. \A a : Mgr!RecvFin(a) => MP!RecvFin(a)
  BY DEF Mgr!RecvFin, Mgr!ForUs, MP!RecvFin, MP!ForUs
<1>5. \A a : Mgr!RecvWindowAck(a) => MP!RecvWindowAck(a)
  BY DEF Mgr!RecvWindowAck, Mgr!ForUs, Mgr!NewerAck, Mgr!AcksSentBytes,
         MP!RecvWindowAck, MP!ForUs, MP!NewerAck, MP!AcksSentBytes
<1>6. \A a : Mgr!RecvRefusedAck(a) => MP!RecvRefusedAck(a)
  BY DEF Mgr!RecvRefusedAck, Mgr!ForUs, Mgr!NewerAck, Mgr!AcksSentBytes,
         MP!RecvRefusedAck, MP!ForUs, MP!NewerAck, MP!AcksSentBytes
<1>7. \A w : Mgr!SetRwndSize(w) => MP!SetRwndSize(w)
  BY DEF Mgr!SetRwndSize, MP!SetRwndSize
<1> QED
  BY <1>1, <1>2, <1>3, <1>4, <1>5, <1>6, <1>7 DEF Mgr!RecvAck, MP!RecvAck

(* The names of a step in JobOutput.tla and in its proofs.                  *)
LEMMA LocalActions ==
  /\ \A pk : Ctl!RecvData(pk) => CP!RecvData(pk)
  /\ \A s, pc : Ctl!NewStream(s, pc) => CP!NewStream(s, pc)
  /\ Ctl!Started => CP!Started
  /\ Ctl!Failed => CP!Failed
  /\ \A seq : Ctl!Prepared(seq) => CP!Prepared(seq)
  /\ Ctl!UpdateNextSeq => CP!UpdateNextSeq
  /\ \A err : Ctl!AlreadyDone(err) => CP!AlreadyDone(err)
  /\ \A s : Ctl!LoopReadEnd(s) => CP!LoopReadEnd(s)
  /\ \A s : Ctl!LoopReadData(s) => CP!LoopReadData(s)
  /\ \A s : Ctl!LoopAppend(s) => CP!LoopAppend(s)
  /\ \A s : Ctl!LoopSuperseded(s) => CP!LoopSuperseded(s)
  /\ \A s : Ctl!LoopFinish(s) => CP!LoopFinish(s)
  /\ Ctl!Flush => CP!Flush
  /\ Ctl!Crash => CP!Crash
<1> USE DEF Ctl!fileVars, Ctl!jobVars, CP!fileVars, CP!jobVars
<1>1. \A pk : Ctl!RecvData(pk) => CP!RecvData(pk)
  <2> USE DEF Ctl!Send, Ctl!AckOf, Ctl!Acked, Ctl!FreeWindow, Ctl!Listening,
              CP!Send, CP!AckOf, CP!Acked, CP!FreeWindow, CP!Listening
  <2>1. \A pk : Ctl!RecvError(pk) => CP!RecvError(pk)
    BY DEF Ctl!RecvError, CP!RecvError
  <2>2. \A pk : Ctl!RecvAhead(pk) => CP!RecvAhead(pk)
    BY DEF Ctl!RecvAhead, CP!RecvAhead
  <2>3. \A pk : Ctl!RecvBehind(pk) => CP!RecvBehind(pk)
    BY DEF Ctl!RecvBehind, CP!RecvBehind
  <2>4. \A pk : Ctl!RecvOrdered(pk) => CP!RecvOrdered(pk)
    <3> DEFINE new(pk, to) == CP!AfterOrdered(rd[pk.sid], pk, to)
    <3>1. \A r, pk, to : Ctl!DrainsTo(r, pk, to) <=> CP!DrainsTo(r, pk, to)
      BY DEF Ctl!DrainsTo, Ctl!Carries, Ctl!Blocked, CP!DrainsTo, CP!Carries, CP!Blocked
    <3>2. \A r, pk, to : Ctl!AfterOrdered(r, pk, to) = CP!AfterOrdered(r, pk, to)
      BY DEF Ctl!AfterOrdered, Ctl!Ends, Ctl!Blocked, Ctl!Positions,
             CP!AfterOrdered, CP!Ends, CP!Blocked, CP!Positions
    <3>3. ASSUME NEW pk, Ctl!RecvOrdered(pk) PROVE CP!RecvOrdered(pk)
      <4>1. PICK to \in 0 .. MaxPos :
              /\ CP!DrainsTo(rd[pk.sid], pk, to)
              /\ rd' = [rd EXCEPT ![pk.sid] = CP!Acked(new(pk, to))]
              /\ CP!Send({CP!AckOf(pk.sid, new(pk, to), new(pk, to).eof, FALSE)})
        BY <3>1, <3>2, <3>3 DEF Ctl!RecvOrdered, Ctl!Position
      <4>2. CP!Listening(pk.sid) /\ pk.kind # "err" /\ pk.seq = rd[pk.sid].next
        BY <3>3 DEF Ctl!RecvOrdered
      <4> QED
        BY <4>1, <4>2 DEF CP!RecvOrdered, CP!Position
    <3> QED
      BY <3>3
  <2>5. \A pk : Ctl!RecvUnread(pk) => CP!RecvUnread(pk)
    BY DEF Ctl!RecvUnread, CP!RecvUnread
  <2> QED
    BY <2>1, <2>2, <2>3, <2>4, <2>5 DEF Ctl!RecvData, CP!RecvData
<1>2. \A s, pc : Ctl!NewStream(s, pc) => CP!NewStream(s, pc)
  BY DEF Ctl!NewStream, Ctl!Reader, Ctl!ResumePos, CP!NewStream, CP!Reader, CP!ResumePos
<1>3. \A ss : Ctl!Return(ss) => CP!Return(ss)
  BY DEF Ctl!Return, Ctl!NoAttempt, Ctl!CloseReaders, Ctl!CloseAcks, Ctl!Acked, Ctl!FreeWindow, Ctl!AckOf, Ctl!Send,
         CP!Return, CP!NoAttempt, CP!CloseReaders, CP!CloseAcks, CP!Acked, CP!FreeWindow, CP!AckOf, CP!Send
<1>4. Ctl!Started => CP!Started
  BY <1>3 DEF Ctl!Started, Ctl!StartLoop, CP!Started, CP!StartLoop
<1>5. Ctl!Failed => CP!Failed
  BY <1>3 DEF Ctl!Failed, CP!Failed
<1>6. \A seq : Ctl!Prepared(seq) => CP!Prepared(seq)
  BY DEF Ctl!Prepared, CP!Prepared
<1>7. Ctl!UpdateNextSeq => CP!UpdateNextSeq
  BY DEF Ctl!UpdateNextSeq, CP!UpdateNextSeq
<1>8. \A err : Ctl!AlreadyDone(err) => CP!AlreadyDone(err)
  BY <1>3 DEF Ctl!AlreadyDone, CP!AlreadyDone
<1>9. \A s : Ctl!LoopReadEnd(s) => CP!LoopReadEnd(s)
  BY DEF Ctl!LoopReadEnd, CP!LoopReadEnd
<1>10. \A s : Ctl!LoopReadData(s) => CP!LoopReadData(s)
  <2>1. \A a, b : Ctl!MinOf(a, b) = CP!MinOf(a, b)
    BY DEF Ctl!MinOf, CP!MinOf
  <2>2. \A r : Ctl!FreeWindow(r) = CP!FreeWindow(r)
    BY DEF Ctl!FreeWindow, CP!FreeWindow
  <2>3. /\ \A b, n : Ctl!Dropped(b, n) = CP!Dropped(b, n)
        /\ \A r : Ctl!AckDue(r) = CP!AckDue(r)
    BY <2>2 DEF Ctl!Dropped, Ctl!AckDue, CP!Dropped, CP!AckDue
  <2>4. \A r : Ctl!Acked(r) = CP!Acked(r)
    BY <2>2 DEF Ctl!Acked, CP!Acked
  <2>5. \A s, r, fin, cancel : Ctl!AckOf(s, r, fin, cancel) = CP!AckOf(s, r, fin, cancel)
    BY <2>2 DEF Ctl!AckOf, CP!AckOf
  <2>6. \A S : Ctl!Send(S) = CP!Send(S)
    BY DEF Ctl!Send, CP!Send
  <2> QED
    BY <2>1, <2>3, <2>4, <2>5, <2>6 DEF Ctl!LoopReadData, CP!LoopReadData
<1>11. \A s : Ctl!LoopAppend(s) => CP!LoopAppend(s)
  BY DEF Ctl!LoopAppend, CP!LoopAppend
<1>12. \A s : Ctl!EndLoop(s) => CP!EndLoop(s)
  BY DEF Ctl!EndLoop, Ctl!CloseReaders, Ctl!CloseAcks, Ctl!Acked, Ctl!FreeWindow, Ctl!AckOf, Ctl!Send,
         CP!EndLoop, CP!CloseReaders, CP!CloseAcks, CP!Acked, CP!FreeWindow, CP!AckOf, CP!Send
<1>13. \A s : Ctl!LoopSuperseded(s) => CP!LoopSuperseded(s)
  BY <1>12 DEF Ctl!LoopSuperseded, CP!LoopSuperseded
<1>14. \A s : Ctl!LoopFinish(s) => CP!LoopFinish(s)
  BY <1>12 DEF Ctl!LoopFinish, CP!LoopFinish
<1>15. Ctl!Flush => CP!Flush
  BY DEF Ctl!Flush, CP!Flush
<1>16. Ctl!Crash => CP!Crash
  BY DEF Ctl!Crash, Ctl!Reader, Ctl!NoLoop, Ctl!NoAttempt, CP!Crash, CP!Reader, CP!NoLoop, CP!NoAttempt
<1> QED
  BY <1>1, <1>2, <1>4, <1>5, <1>6, <1>7, <1>8, <1>9, <1>10, <1>11, <1>13, <1>14, <1>15, <1>16

-----------------------------------------------------------------------------
(* The invariant.                                                           *)

(* Each half keeps its own, and every packet is one the readers know.       *)
Halves ==
  /\ MP!TypeInv /\ MP!WholeRing /\ CP!Inv
  /\ wire \subseteq CP!Packet
  /\ ~closed

(* The job manager knows of a stream.                                       *)
HeardOf(s) ==
  \/ s \in attached \/ pending = s \/ streamId = s \/ serving.sid = s
  \/ \E p \in wire : p.sid = s

(* The first position asked for is one that was received, or is lost.       *)
NotPast(sid, seq) == rd[sid].st # "none" => seq <= rd[sid].next

(* The call in flight names a stream that was made, and a connect names one *)
(* the job manager has not heard of.                                        *)
Calling ==
  /\ req.kind \in {"none", "start", "prepare", "stream"}
  /\ req.kind = "none" => req = NoReq
  /\ req.kind # "none" => req.sid \in used
  /\ req.kind \in {"start", "prepare"} => ~HeardOf(req.sid) /\ NotPast(req.sid, req.seq)
  /\ req.kind = "start" => serving = Idle /\ streamId = NoStream
  /\ att.pc \in {"prepare", "update"} => req.kind \in {"none", "prepare"}

(* JobManager and its stream manager agree on the client, and while one is  *)
(* let in there is no other and nothing of the new stream has happened.     *)
Serving ==
  /\ serving \in [pc : {"idle", "connect", "joining", "attach"}, kind : {"none", "start", "prepare"},
                  sid : Streams \cup {NoStream}, seq : Nat]
  /\ serving.pc = "idle" => serving = Idle
  /\ serving.pc # "idle" => serving.sid \in used /\ serving.kind \in {"start", "prepare"}
  /\ client = connected /\ attached \subseteq Streams /\ pending \in Streams \cup {NoStream}
  /\ serving.pc # "joining" => joining = MP!NoJoin
  /\ serving.pc = "joining" =>
       joining.sid = serving.sid /\ (serving.kind = "prepare" => joining.rwnd = 0)
  /\ serving.pc \in {"connect", "joining"} =>
       /\ ~connected
       /\ serving.sid \notin attached /\ pending # serving.sid /\ streamId # serving.sid
       /\ \A p \in wire : p.sid # serving.sid
       /\ serving.kind = "start" => streamId = NoStream
  /\ serving.pc = "connect" => ~termAcked /\ NotPast(serving.sid, serving.seq)
  /\ serving.pc = "attach" => connected
  /\ pending # NoStream => streamId = pending
  /\ termAcked => streamId \in Streams
  /\ att.pc \in {"prepare", "update"} /\ serving.sid = att.sid => serving.kind = "prepare"

(* Nothing is known anywhere of a stream that was not made.                 *)
Unmade ==
  \A s \in Streams \ used : ~HeardOf(s) /\ rd[s].st = "none" /\ \A a \in acks : a.sid # s

(* No position asked for or answered lies beyond what the PTY produced, and *)
(* an answer lies at or past the position that was asked for.               *)
Asked ==
  /\ {req.seq, serving.seq, reply.seq, joining.start} \subseteq 0 .. total
  /\ att.pc = "prepare" =>
       /\ req.kind = "prepare" => req.seq = att.start
       /\ serving.sid = att.sid /\ serving.pc = "connect" => serving.seq = att.start
       /\ serving.sid = att.sid /\ serving.pc = "joining" => joining.start >= att.start
       /\ reply.sid = att.sid /\ reply.kind = "prepared" => reply.seq >= att.start
  /\ att.pc = "update" => rd[att.sid].next < att.seq /\ att.seq <= total

(* Nothing is anywhere past what the PTY produced, and an end of the stream *)
(* only where the PTY ended.                                                *)
InStream(p) == p.seq + p.len <= total /\ (p.kind = "eof" => term # "none" /\ p.seq = total)

Wire == \A p \in wire : InStream(p)

Readers ==
  \A s \in Streams :
    /\ rd[s].next <= total
    /\ \A p \in rd[s].ooo : InStream(p)
    /\ rd[s].eof => term # "none" /\ rd[s].next = total

Acks == \A a \in acks : a.seq <= total /\ (a.cancel \/ NotPast(a.sid, a.seq))

Files == ResumesAt <= total /\ disk.len + disk.gap <= total

(* A loop acts on the end of the stream with nothing left to store.         *)
Loops ==
  \A s \in Streams :
    /\ loop[s].pc \in {"none", "read"} => loop[s].why = "none"
    /\ loop[s].why # "none" => loop[s].hand = <<>>
    /\ loop[s].pc = "append" /\ loop[s].why = "eof" => rd[s].eof /\ rd[s].buf = <<>>
    /\ loop[s].pc = "finish" /\ loop[s].why = "eof" => term # "none" /\ ResumesAt = total

(* The data on its way to a reader.                                         *)
Data(s) == {p \in wire : p.sid = s /\ p.kind = "data"} \cup {p \in rd[s].ooo : p.kind = "data"}

(* While a stream is corked nothing is sent on it, received or              *)
(* acknowledged.                                                            *)
Quiet(s) ==
  /\ s \notin attached /\ Data(s) = {} /\ rd[s].buf = <<>>
  /\ streamId = s => sent = 0 /\ (connected => rwnd = 0)
  /\ CP!Listening(s) => \A a \in acks : a.sid # s

Corking(s) == att.pc \in {"prepare", "update"} /\ att.sid = s

(* It is corked from the first call until StartStream.                      *)
Corked(s) ==
  \/ Corking(s)
  \/ req.kind \in {"start", "prepare"} /\ req.sid = s
  \/ serving.pc \in {"connect", "joining"} /\ serving.sid = s
  \/ pending = s

Corks == \A s \in Streams : Corked(s) => Quiet(s)

(* Where the room of a reader ends.  What was sent to it, what its ACKs     *)
(* allow and what the job manager takes to be its window all end before     *)
(* that; or the reader is cut off behind a hole in what is sent to it, and  *)
(* takes nothing in any more.                                               *)
Edge(s) == rd[s].next + RWnd - Len(rd[s].buf)
Serves(s) == connected /\ streamId = s
Fits(s) ==
  /\ \A p \in Data(s) : p.seq + p.len <= Edge(s)
  /\ \A a \in acks : a.sid = s => a.seq + a.rwnd <= Edge(s)
  /\ Serves(s) => head + rwnd <= Edge(s)
CutOff(s) ==
  /\ \A p \in Data(s) : p.seq > rd[s].next
  /\ Serves(s) => head + sent > rd[s].next
FlowControlled(s) == Fits(s) \/ CutOff(s)

Windows ==
  /\ WindowKept
  /\ \A s \in Streams : CP!Listening(s) => FlowControlled(s)

Inv ==
  /\ Halves /\ Calling /\ Serving /\ Unmade /\ Asked
  /\ Wire /\ Readers /\ Acks /\ Files /\ Loops
  /\ Corks /\ Windows

-----------------------------------------------------------------------------
(* What the invariant says of numbers.                                      *)

(* The fields of a reader, a packet and an ACK.                             *)
LEMMA Fields ==
  /\ \A r \in CP!ReaderType : /\ r.next \in Nat /\ r.buf \in Seq(Nat) /\ Len(r.buf) \in Nat
                              /\ r.ooo \subseteq CP!Packet
  /\ \A p \in CP!Packet : /\ p.sid \in Streams /\ p.seq \in Nat /\ p.len \in Nat
                          /\ p.kind \in {"data", "eof", "err"} /\ (p.kind # "data" => p.len = 0)
  /\ \A a \in CP!AckType : a.sid \in Streams /\ a.seq \in Nat /\ a.rwnd \in 0 .. RWnd
<1>1. \A r \in CP!ReaderType : r.next \in Nat /\ r.buf \in Seq(Nat) /\ r.ooo \subseteq CP!Packet
  BY DEF CP!ReaderType, CP!Bytes
<1>2. \A r \in CP!ReaderType : Len(r.buf) \in Nat
  BY <1>1, LenProperties
<1>3. \A p \in CP!Packet : /\ p.sid \in Streams /\ p.seq \in Nat /\ p.len \in Nat
                           /\ p.kind \in {"data", "eof", "err"} /\ (p.kind # "data" => p.len = 0)
  BY Constants, CP!PacketFacts
<1>4. \A a \in CP!AckType : a.sid \in Streams /\ a.seq \in Nat /\ a.rwnd \in 0 .. RWnd
  BY DEF CP!AckType
<1> QED
  BY <1>1, <1>2, <1>3, <1>4

(* The types of the state.                                                  *)
LEMMA StateFacts ==
  ASSUME Halves
  PROVE  /\ rd \in [Streams -> CP!ReaderType] /\ loop \in [Streams -> CP!LoopType]
         /\ acks \subseteq CP!AckType /\ used \subseteq Streams
         /\ head \in Nat /\ total \in Nat /\ head <= total /\ total <= MaxPos
         /\ rwnd \in Nat /\ sent \in Nat /\ chunk \in Nat
         /\ streamId \in Streams \cup {NoStream} /\ termAcked \in BOOLEAN /\ connected \in BOOLEAN
         /\ connected => streamId \in Streams
         /\ Len(file) \in Nat /\ gap \in Nat /\ ResumesAt \in Nat /\ ResumesAt = CP!ResumePos
         /\ cur \in used \cup {NoStream} /\ att \in CP!AttemptType
         /\ att.pc # "idle" => att.sid = cur /\ att.sid \in used
<1>1. /\ rd \in [Streams -> CP!ReaderType] /\ loop \in [Streams -> CP!LoopType]
      /\ acks \subseteq CP!AckType /\ used \subseteq Streams /\ att \in CP!AttemptType
      /\ cur \in used \cup {NoStream}
      /\ att.pc # "idle" => att.sid = cur /\ cur # NoStream
  BY DEF Halves, CP!Inv, CP!TypeOK, CP!Attempting
<1>2. /\ head \in Nat /\ total \in Nat /\ head <= total /\ total <= MaxPos
      /\ rwnd \in Nat /\ sent \in Nat /\ chunk \in Nat
      /\ streamId \in Streams \cup {NoStream} /\ termAcked \in BOOLEAN /\ connected \in BOOLEAN
      /\ connected => streamId \in Streams
  BY Constants DEF Halves, MP!TypeInv, MP!TypeOK, MP!LoopsInStep, MP!Position
<1>3. Len(file) \in Nat /\ gap \in Nat /\ CP!ResumePos \in Nat
  BY CP!ResumeFacts DEF Halves, CP!Inv
<1>4. ResumesAt = CP!ResumePos
  BY DEF ResumesAt, Ctl!ResumePos, CP!ResumePos
<1> QED
  BY <1>1, <1>2, <1>3, <1>4

(* And of one reader.                                                       *)
LEMMA ReaderFacts ==
  ASSUME Halves, NEW s \in Streams
  PROVE  /\ rd[s] \in CP!ReaderType /\ rd[s].next \in Nat /\ Len(rd[s].buf) \in Nat
         /\ rd[s].ooo \subseteq CP!Packet
<1>1. rd[s] \in CP!ReaderType
  BY StateFacts
<1> QED
  BY <1>1, Fields

-----------------------------------------------------------------------------
(* What is kept by a step that leaves one side alone.                       *)

ManagerStep == UNCHANGED ctlVars /\ acks' \subseteq acks

LocalStep == UNCHANGED <<mgrVars, jmVars>> /\ wire' \subseteq wire

(* A step of the job manager leaves what was received as it is.             *)
LEMMA ManagerKeeps ==
  ASSUME Inv, ManagerStep, total' \in Nat, total' >= total,
         term # "none" => term' # "none" /\ total' = total
  PROVE  /\ CP!Inv' /\ Readers' /\ Acks' /\ Files' /\ Loops' /\ WindowKept'
         /\ \A p \in CP!Packet : InStream(p) => InStream(p)'
<1>1. /\ UNCHANGED <<rd, loop, cur, att, used, file, gap, disk, streamDone, streamErr, link>>
      /\ acks' \subseteq acks
  BY DEF ManagerStep, ctlVars
<1>2. CP!Inv'
  <2>1. link' \in CP!MaybeStream
    BY <1>1 DEF Inv, Halves, CP!Inv, CP!TypeOK
  <2> QED
    BY <1>1, <2>1, CP!LinkDownKept DEF Inv, Halves
<1>3. \A p \in CP!Packet : InStream(p) => InStream(p)'
  BY StateFacts, Fields DEF InStream, Inv
<1>4. Readers'
  BY <1>1, <1>3, StateFacts, Fields DEF Readers, Inv
<1>5. Acks'
  BY <1>1, StateFacts, Fields DEF Acks, NotPast, Inv
<1>6. disk.len + disk.gap \in Nat
  BY DEF Inv, Halves, CP!Inv, CP!TypeOK
<1>7. Files'
  BY <1>1, <1>6, StateFacts DEF Files, ResumesAt, Ctl!ResumePos, Inv
<1>8. Loops'
  BY <1>1, StateFacts DEF Loops, ResumesAt, Ctl!ResumePos, Inv
<1>9. WindowKept'
  BY <1>1 DEF WindowKept, Windows, Inv
<1> QED
  BY <1>2, <1>3, <1>4, <1>5, <1>7, <1>8, <1>9

(* A step of wavesrv leaves the job manager as it is.                       *)
LEMMA LocalKeeps ==
  ASSUME Inv, LocalStep
  PROVE  MP!TypeInv' /\ MP!WholeRing' /\ wire' \subseteq CP!Packet /\ ~closed' /\ Wire'
<1>1. /\ UNCHANGED <<head, total, win, sync, readPc, chunk, term, eofPos, connected, streamId, rwnd,
                     sent, termSent, maxAck, termAcked, joining, sender, coalescing, armed, closed>>
      /\ wire' \subseteq wire
  BY DEF LocalStep, mgrVars
<1>2. MP!TypeInv /\ MP!WholeRing /\ wire \subseteq CP!Packet /\ ~closed /\ Wire
  BY DEF Inv, Halves
<1>3. MP!TypeInv'
  BY <1>1, <1>2 DEF MP!TypeInv, MP!TypeOK, MP!SentInRing, MP!LoopsInStep, MP!Count, MP!LockFree
<1>4. MP!WholeRing'
  BY <1>1, <1>2 DEF MP!WholeRing
<1>5. Wire'
  BY <1>1, <1>2 DEF Wire, InStream
<1> QED
  BY <1>1, <1>2, <1>3, <1>4, <1>5

(* Calls in progress are as they were where no call is made or answered: a  *)
(* packet is only added for the client, readers only move on, until a crash *)
(* removes them.                                                            *)
LEMMA CallsKept ==
  ASSUME Inv, UNCHANGED <<req, serving, client, connected, joining, pending, streamId, used>>,
         attached' \subseteq attached,
         termAcked' \in BOOLEAN, termAcked' => termAcked \/ connected,
         att' = att \/ att'.pc \notin {"prepare", "update"},
         \A p \in wire' \ wire : connected /\ p.sid = streamId,
         \A a \in acks' \ acks : a.sid \in used,
         \A s \in Streams : \/ rd'[s].st = "none"
                            \/ rd[s].st # "none" /\ rd'[s].next \in Nat /\ rd'[s].next >= rd[s].next
  PROVE  Calling' /\ Serving' /\ Unmade'
<1> USE DEF Inv
<1>1. \A s : HeardOf(s)' => HeardOf(s)
  BY DEF HeardOf
<1>2. /\ used \subseteq Streams /\ rd \in [Streams -> CP!ReaderType]
      /\ connected => streamId \in Streams
  BY StateFacts
<1>3. \A s \in Streams : rd[s].next \in Nat
  BY <1>2, Fields
<1>4. {req.seq, serving.seq} \subseteq Nat
  BY StateFacts DEF Asked
<1>5. \A s \in Streams, seq \in Nat : NotPast(s, seq) => NotPast(s, seq)'
  BY <1>3 DEF NotPast
<1>6. req.kind \in {"start", "prepare"} => req.sid \in Streams
  BY <1>2 DEF Calling
<1>7. Calling'
  BY <1>1, <1>4, <1>5, <1>6 DEF Calling
<1>8. serving.pc = "connect" => serving.sid \in Streams
  BY <1>2 DEF Serving
<1>9. \A p \in wire' : p \in wire \/ (connected /\ p.sid = streamId)
  OBVIOUS
<1>10. Serving'
  BY <1>2, <1>4, <1>5, <1>8, <1>9 DEF Serving
<1>11. Unmade'
  BY <1>1 DEF Unmade
<1> QED
  BY <1>7, <1>10, <1>11

(* Positions asked for stay within the stream while it grows.               *)
LEMMA AskedKept ==
  ASSUME Inv, UNCHANGED <<req, serving, reply, joining>>, total' \in Nat, total' >= total,
         att' = att \/ att'.pc \notin {"prepare", "update"},
         att.pc = "update" /\ att' = att => rd'[att.sid].next = rd[att.sid].next
  PROVE  Asked'
<1>1. total \in Nat /\ att \in CP!AttemptType
  BY StateFacts DEF Inv
<1>2. att.seq \in Nat
  BY <1>1 DEF CP!AttemptType
<1> QED
  BY <1>1, <1>2 DEF Asked, Inv

(* A stream that a step leaves alone: its reader may be closed, and then it *)
(* may send an ACK.                                                         *)
Left(s) == CP!SameReader(s) /\ (CP!Listening(s)' => \A a \in acks' \ acks : a.sid # s)

(* Such a stream stays quiet and within its window.                         *)
LEMMA LeftAlone ==
  ASSUME NEW s \in Streams, LocalStep, Left(s)
  PROVE  /\ Quiet(s) => Quiet(s)'
         /\ CP!Listening(s)' /\ FlowControlled(s) => FlowControlled(s)'
<1>1. UNCHANGED <<head, connected, streamId, rwnd, sent, attached>> /\ wire' \subseteq wire
  BY DEF LocalStep, mgrVars, jmVars
<1>2. /\ rd'[s].next = rd[s].next /\ rd'[s].buf = rd[s].buf /\ rd'[s].ooo = rd[s].ooo
      /\ CP!Listening(s)' => CP!Listening(s)
      /\ CP!Listening(s)' => \A a \in acks' : a.sid = s => a \in acks
  BY DEF Left, CP!SameReader
<1>3. Data(s)' \subseteq Data(s)
  BY <1>1, <1>2 DEF Data
<1>4. Quiet(s) => Quiet(s)'
  BY <1>1, <1>2, <1>3 DEF Quiet
<1>5. CP!Listening(s)' /\ Fits(s) => Fits(s)'
  BY <1>1, <1>2, <1>3 DEF Fits, Edge, Serves
<1>6. CutOff(s) => CutOff(s)'
  BY <1>1, <1>2, <1>3 DEF CutOff, Serves
<1> QED
  BY <1>4, <1>5, <1>6 DEF FlowControlled

(* A step of wavesrv that leaves every stream alone keeps what is said of   *)
(* readers, ACKs and windows.                                               *)
LEMMA AllLeft ==
  ASSUME Inv, LocalStep, \A s \in Streams : Left(s),
         \A s \in Streams : Corked(s)' => Corked(s),
         \A a \in acks' \ acks : a.sid \in Streams /\ a.cancel /\ a.seq = rd[a.sid].next
  PROVE  Readers' /\ Acks' /\ Corks' /\ Windows'
<1> USE DEF Inv
<1>1. UNCHANGED <<total, term>>
  BY DEF LocalStep, mgrVars
<1>2. \A s \in Streams : /\ rd'[s].next = rd[s].next /\ rd'[s].buf = rd[s].buf
                         /\ rd'[s].ooo = rd[s].ooo /\ rd'[s].eof = rd[s].eof
                         /\ rd'[s].st = "none" <=> rd[s].st = "none"
                         /\ CP!Listening(s)' => CP!Listening(s)
  BY DEF Left, CP!SameReader
<1>3. Readers'
  BY <1>1, <1>2 DEF Readers, InStream
<1>4. acks \subseteq CP!AckType
  BY StateFacts
<1>5. Acks'
  <2>1. ASSUME NEW a \in acks' PROVE a.seq <= total' /\ (a.cancel \/ NotPast(a.sid, a.seq)')
    <3>1. CASE a \in acks
      BY <1>1, <1>2, <1>4, <3>1, Fields DEF Acks, NotPast
    <3>2. CASE a \notin acks
      BY <1>1, <3>2 DEF Readers
    <3> QED
      BY <3>1, <3>2
  <2> QED
    BY <2>1 DEF Acks
<1>6. Corks'
  BY LeftAlone DEF Corks
<1>7. Windows'
  BY <1>2, LeftAlone DEF Windows, WindowKept
<1> QED
  BY <1>3, <1>5, <1>6, <1>7

-----------------------------------------------------------------------------
(* It holds initially.                                                      *)
LEMMA InitKept == Init => Inv
<1> SUFFICES ASSUME Init PROVE Inv
  OBVIOUS
<1>1. MP!Init
  BY DEF Init, Mgr!Init, Mgr!NoJoin, MP!Init, MP!NoJoin
<1>2. CP!Init
  BY DEF Init, Ctl!Init, Ctl!Reader, Ctl!NoLoop, Ctl!NoAttempt, CP!Init, CP!Reader, CP!NoLoop, CP!NoAttempt
<1>3. MP!TypeInv /\ CP!Inv
  BY <1>1, <1>2, Constants, MP!InitTypeInv, CP!InitInv
<1>4. MP!WholeRing /\ ~closed /\ wire = {}
  BY <1>1 DEF MP!Init, MP!WholeRing
<1>5. Halves
  BY <1>3, <1>4 DEF Halves
<1>6. /\ attached = {} /\ client = FALSE /\ pending = NoStream /\ serving = Idle
      /\ req = NoReq /\ reply = NoReq
  BY DEF Init
<1>7. /\ connected = FALSE /\ streamId = NoStream /\ termAcked = FALSE /\ joining = MP!NoJoin
      /\ total = 0 /\ joining.start = 0 /\ rd = [s \in Streams |-> CP!Reader("none", 0)]
      /\ loop = [s \in Streams |-> CP!NoLoop] /\ att.pc = "idle" /\ used = {} /\ acks = {}
      /\ file = <<>> /\ gap = 0 /\ disk.len = 0 /\ disk.gap = 0
  BY <1>1, <1>2 DEF MP!Init, MP!NoJoin, CP!Init, CP!NoAttempt
<1>8. \A s \in Streams : /\ rd[s].st = "none" /\ rd[s].next = 0 /\ rd[s].buf = <<>>
                         /\ rd[s].ooo = {} /\ ~rd[s].eof
                         /\ loop[s].pc = "none" /\ loop[s].why = "none"
  BY <1>7 DEF CP!Reader, CP!NoLoop
<1>9. /\ req.kind = "none" /\ req.seq = 0 /\ serving.pc = "idle" /\ serving.sid = NoStream
      /\ serving.seq = 0 /\ reply.seq = 0
  BY <1>6 DEF NoReq, Idle
<1>18. serving \in [pc : {"idle", "connect", "joining", "attach"}, kind : {"none", "start", "prepare"},
                   sid : Streams \cup {NoStream}, seq : Nat]
  BY <1>6 DEF Idle
<1>15. Calling /\ Serving
  BY <1>6, <1>7, <1>9, <1>18 DEF Calling, Serving
<1>16. Unmade
  BY <1>4, <1>6, <1>7, <1>8, <1>9, Constants DEF Unmade, HeardOf
<1>17. Asked
  BY <1>7, <1>9 DEF Asked
<1>10. Wire /\ Readers /\ Acks
  BY <1>4, <1>7, <1>8 DEF Wire, Readers, Acks
<1>11. Len(file) = 0
  BY <1>7, EmptySeq
<1>12. Files /\ Loops
  BY <1>7, <1>8, <1>11 DEF Files, Loops, ResumesAt, Ctl!ResumePos
<1>13. Corks
  BY <1>6, <1>7, Constants DEF Corks, Corked, Corking, NoReq, Idle
<1>14. Windows
  BY <1>8, EmptySeq, Constants DEF Windows, WindowKept, CP!Listening
<1> QED
  BY <1>5, <1>10, <1>12, <1>13, <1>14, <1>15, <1>16, <1>17 DEF Inv

-----------------------------------------------------------------------------
(* The steps of the job manager.                                            *)

(* What the invariant says apart from the calls and the halves.             *)
Carried == Wire /\ Readers /\ Acks /\ Files /\ Loops /\ Corks /\ Windows

(* A step that sends no data, and gives no client a larger window.          *)
LEMMA SameFlow ==
  ASSUME Inv, ManagerStep, MP!TypeInv', MP!WholeRing', closed' = closed,
         total' \in Nat, total' >= total, term # "none" => term' # "none" /\ total' = total,
         wire \subseteq wire',
         \A p \in wire' \ wire : p \in CP!Packet /\ p.kind # "data" /\ InStream(p)',
         streamId' = streamId, attached' \subseteq attached, sent' \in {sent, 0},
         connected' => connected /\ UNCHANGED <<head, rwnd, sent>>,
         \A s \in Streams : Corked(s)' => Corked(s)
  PROVE  Halves' /\ Carried'
<1>1. /\ CP!Inv' /\ Readers' /\ Acks' /\ Files' /\ Loops' /\ WindowKept'
      /\ \A p \in CP!Packet : InStream(p) => InStream(p)'
  BY ManagerKeeps
<1>2. Halves'
  BY <1>1 DEF Halves, Inv
<1>3. Wire'
  BY <1>1 DEF Wire, Halves, Inv
<1>4. rd' = rd /\ acks' \subseteq acks
  BY DEF ManagerStep, ctlVars
<1>5. \A s \in Streams : Data(s)' = Data(s)
  BY <1>4 DEF Data
<1>6. \A s \in Streams : CP!Listening(s)' <=> CP!Listening(s)
  BY <1>4 DEF CP!Listening
<1>7. ASSUME NEW s \in Streams, Quiet(s) PROVE Quiet(s)'
  BY <1>4, <1>5, <1>6, <1>7 DEF Quiet
<1>8. ASSUME NEW s \in Streams, FlowControlled(s) PROVE FlowControlled(s)'
  <2>1. Fits(s) => Fits(s)'
    BY <1>4, <1>5 DEF Fits, Edge, Serves
  <2>2. CutOff(s) => CutOff(s)'
    BY <1>4, <1>5 DEF CutOff, Serves
  <2> QED
    BY <1>8, <2>1, <2>2 DEF FlowControlled
<1>9. Corks' /\ Windows'
  BY <1>1, <1>6, <1>7, <1>8 DEF Corks, Windows, Inv
<1> QED
  BY <1>1, <1>2, <1>3, <1>9 DEF Carried

(* A step between two calls.                                                *)
LEMMA NoCall ==
  ASSUME Inv, ManagerStep, attached' \subseteq attached,
         UNCHANGED <<req, reply, serving, client, connected, joining, pending, streamId>>,
         termAcked' \in BOOLEAN, termAcked' => termAcked \/ connected,
         total' \in Nat, total' >= total,
         \A p \in wire' \ wire : connected /\ p.sid = streamId
  PROVE  Calling' /\ Serving' /\ Unmade' /\ Asked' /\ \A s \in Streams : Corked(s)' => Corked(s)
<1>1. UNCHANGED <<rd, att, used>> /\ acks' \subseteq acks
  BY DEF ManagerStep, ctlVars
<1>2. \A s \in Streams : rd[s].next \in Nat
  BY StateFacts, Fields DEF Inv
<1>3. Calling' /\ Serving' /\ Unmade'
  BY <1>1, <1>2, CallsKept
<1>4. Asked'
  BY <1>1, AskedKept
<1>5. \A s \in Streams : Corked(s)' => Corked(s)
  BY <1>1 DEF Corked, Corking
<1> QED
  BY <1>3, <1>4, <1>5

(* The read loop.                                                           *)
LEMMA ReadLoopCarries ==
  ASSUME Inv, ManagerStep, MP!ReadLoop, attached' = attached,
         \A s \in Streams : Corked(s)' => Corked(s)
  PROVE  Halves' /\ Carried'
<1>1. MP!TypeInv' /\ MP!WholeRing' /\ MP!SameClient
  BY Constants, MP!ReadLoopTypeInv, MP!ReadLoopEffect DEF Inv, Halves
<1>2. /\ total' >= total /\ (connected => head' = head)
      /\ term # "none" => term' = term /\ total' = total
  BY Constants, MP!ReadLoopEffect DEF Inv, Halves
<1>3. total' \in Nat
  BY <1>1, Constants DEF MP!TypeInv, MP!TypeOK, MP!Position
<1>4. UNCHANGED <<connected, streamId, rwnd, sent, closed, wire>>
  BY <1>1 DEF MP!SameClient
<1> QED
  BY <1>1, <1>2, <1>3, <1>4, SameFlow

(* The read loop writes to the ring and closes it: no window or wire        *)
(* changes, and what was produced only grows.                               *)
LEMMA ReadLoopKept == ASSUME Inv, ReadLoopStep \/ Pty PROVE Inv'
<1>1. MP!ReadLoop /\ UNCHANGED <<ctlVars, acks, jmVars, rpcVars>>
  BY ManagerActions DEF ReadLoopStep, Pty
<1>2. ManagerStep /\ UNCHANGED <<attached, client, pending, serving, req, reply>>
  BY <1>1 DEF ManagerStep, jmVars, rpcVars
<1>3. MP!TypeInv' /\ MP!SameClient /\ total' >= total
  BY <1>1, Constants, MP!ReadLoopTypeInv, MP!ReadLoopEffect DEF Inv, Halves
<1>4. total' \in Nat /\ termAcked' \in BOOLEAN
  BY <1>3, Constants DEF MP!TypeInv, MP!TypeOK, MP!Position
<1>5. Calling' /\ Serving' /\ Unmade' /\ Asked' /\ \A s \in Streams : Corked(s)' => Corked(s)
  BY <1>2, <1>3, <1>4, NoCall DEF MP!SameClient
<1>6. Halves' /\ Carried'
  BY <1>1, <1>2, <1>5, ReadLoopCarries
<1> QED
  BY <1>5, <1>6 DEF Inv, Carried
(* The sender loop hands over a packet of the ring, within the window it    *)
(* was granted: it has none while the stream is corked.                     *)
LEMMA SendDataKept ==
  ASSUME Inv, NEW lost \in BOOLEAN, MP!SendData(lost), UNCHANGED <<ctlVars, acks, jmVars, rpcVars>>
  PROVE  Inv'
<1> DEFINE pk == MP!DataPacket
<1>1. /\ connected /\ wire' \in {wire, wire \cup {pk}}
      /\ pk.sid = streamId /\ pk.kind = "data" /\ pk.seq = head + sent /\ pk.len \in 1 .. MaxPacket
      /\ sent' = sent + pk.len /\ head + sent + pk.len <= total /\ sent + pk.len <= rwnd
      /\ MP!WholeRing'
      /\ UNCHANGED <<head, total, chunk, term, connected, streamId, rwnd, termAcked, joining, closed>>
  BY Constants, MP!SendDataEffect DEF Inv, Halves
<1>2. MP!TypeInv'
  BY Constants, MP!SenderTypeInv DEF Inv, Halves
<1>3. pk = [sid |-> streamId, seq |-> pk.seq, len |-> pk.len, kind |-> "data"]
  BY <1>1 DEF MP!DataPacket
<1> HIDE DEF pk
<1>4. /\ head \in Nat /\ sent \in Nat /\ total \in Nat /\ rwnd \in Nat /\ total <= MaxPos
      /\ streamId \in Streams /\ termAcked \in BOOLEAN
  BY <1>1, StateFacts DEF Inv
<1>5. pk \in CP!Packet /\ InStream(pk)
  <2>1. pk.len \in Nat /\ pk.seq \in 0 .. MaxPos
    BY <1>1, <1>4, Constants, DurableStreamAssumption
  <2>2. pk \in CP!Packet
    BY <1>1, <1>3, <1>4, <2>1 DEF CP!Packet, CP!Position
  <2> QED
    BY <1>1, <2>2 DEF InStream
<1>6. ManagerStep /\ rd' = rd /\ acks' = acks
      /\ UNCHANGED <<attached, client, pending, serving, req, reply>>
  BY DEF ManagerStep, ctlVars, jmVars, rpcVars
<1>7. \A p \in wire' \ wire : p = pk
  BY <1>1
<1>8. /\ CP!Inv' /\ Readers' /\ Acks' /\ Files' /\ Loops' /\ WindowKept'
      /\ \A p \in CP!Packet : InStream(p) => InStream(p)'
  BY <1>1, <1>4, <1>6, ManagerKeeps
<1>9. Calling' /\ Serving' /\ Unmade' /\ Asked' /\ \A s \in Streams : Corked(s)' => Corked(s)
  BY <1>1, <1>4, <1>6, <1>7, NoCall
<1>10. Halves' /\ Wire'
  BY <1>1, <1>2, <1>5, <1>7, <1>8 DEF Halves, Wire, Inv
<1>11. /\ \A s \in Streams \ {streamId} : Data(s)' = Data(s)
       /\ Data(streamId)' \subseteq Data(streamId) \cup {pk}
  BY <1>1, <1>6, <1>7 DEF Data
<1>12. \A s \in Streams : CP!Listening(s)' <=> CP!Listening(s)
  BY <1>6 DEF CP!Listening
<1>13. ASSUME NEW s \in Streams, Quiet(s) PROVE Quiet(s)'
  <2>1. s # streamId
    <3>1. pk.len \in Nat /\ pk.len > 0
      BY <1>1, DurableStreamAssumption
    <3>2. SUFFICES ASSUME s = streamId PROVE FALSE
      OBVIOUS
    <3>3. sent = 0 /\ rwnd = 0
      BY <1>1, <1>13, <3>2 DEF Quiet
    <3> QED
      BY <1>1, <3>1, <3>3
  <2> QED
    BY <1>1, <1>6, <1>11, <1>12, <1>13, <2>1 DEF Quiet
<1>14. ASSUME NEW s \in Streams, FlowControlled(s) PROVE FlowControlled(s)'
  <2>1. CASE s # streamId
    BY <1>1, <1>6, <1>11, <1>14, <2>1 DEF FlowControlled, Fits, CutOff, Edge, Serves
  <2>2. CASE s = streamId
    <3>1. /\ rd[s].next \in Nat /\ Len(rd[s].buf) \in Nat
          /\ RWnd \in Nat /\ pk.len \in Nat
      <4>1. RWnd \in Nat /\ pk.len \in Nat
        BY <1>1, Constants, DurableStreamAssumption
      <4> QED
        BY <4>1, ReaderFacts DEF Inv
    <3>2. CASE Fits(s)
      <4>1. head + rwnd <= Edge(s) /\ Edge(s) \in Int /\ Edge(s)' = Edge(s)
        BY <1>1, <1>6, <2>2, <3>1, <3>2 DEF Fits, Serves, Edge
      <4>2. pk.seq + pk.len <= Edge(s)
        BY <1>1, <1>4, <3>1, <4>1
      <4> QED
        BY <1>1, <1>6, <1>11, <2>2, <3>2, <4>1, <4>2 DEF FlowControlled, Fits, Serves
    <3>3. CASE CutOff(s)
      <4>1. head + sent > rd[s].next
        BY <1>1, <2>2, <3>3 DEF CutOff, Serves
      <4>2. pk.seq > rd[s].next /\ head + sent' > rd[s].next
        BY <1>1, <1>4, <3>1, <4>1
      <4> QED
        BY <1>1, <1>6, <1>11, <2>2, <3>3, <4>2 DEF FlowControlled, CutOff
    <3> QED
      BY <1>14, <3>2, <3>3 DEF FlowControlled
  <2> QED
    BY <2>1, <2>2
<1>15. Corks' /\ Windows'
  BY <1>8, <1>9, <1>12, <1>13, <1>14 DEF Corks, Windows, Inv
<1> QED
  BY <1>8, <1>9, <1>10, <1>15 DEF Inv

(* Its other steps send at most the end of the stream.                      *)
LEMMA SenderRestKept ==
  ASSUME Inv, NEW lost \in BOOLEAN,
         MP!SendTerminal(lost) \/ MP!SenderWait \/ MP!CoalesceElapsed \/ MP!SenderExit,
         UNCHANGED <<ctlVars, acks, jmVars, rpcVars>>
  PROVE  Inv'
<1> DEFINE pk == MP!TerminalPacket
<1>1. MP!TypeInv'
  BY Constants, MP!SenderTypeInv DEF Inv, Halves
<1>2. /\ MP!WholeRing'
      /\ UNCHANGED <<head, total, term, connected, streamId, rwnd, sent, termAcked, joining, closed>>
      /\ \/ wire' = wire
         \/ /\ connected /\ wire' \in {wire, wire \cup {pk}}
            /\ pk.sid = streamId /\ pk.kind \in {"eof", "err"} /\ pk.seq = total /\ pk.len = 0
            /\ term # "none"
  BY Constants, MP!SendTerminalEffect, MP!SenderRestEffect DEF Inv, Halves, MP!SameClient
<1>3. pk = [sid |-> pk.sid, seq |-> pk.seq, len |-> pk.len, kind |-> pk.kind]
  BY DEF MP!TerminalPacket
<1> HIDE DEF pk
<1>4. /\ total \in Nat /\ total <= MaxPos /\ termAcked \in BOOLEAN
      /\ connected => streamId \in Streams
  BY StateFacts DEF Inv
<1>5. \A p \in wire' \ wire : /\ p \in CP!Packet /\ p.kind # "data" /\ InStream(p)'
                              /\ connected /\ p.sid = streamId
  <2>1. SUFFICES ASSUME NEW p \in wire' \ wire
                 PROVE  /\ p \in CP!Packet /\ p.kind # "data" /\ InStream(p)'
                        /\ connected /\ p.sid = streamId
    OBVIOUS
  <2>2. /\ p = pk /\ connected /\ pk.sid = streamId /\ pk.kind \in {"eof", "err"}
        /\ pk.seq = total /\ pk.len = 0 /\ term # "none"
    BY <1>2, <2>1
  <2>3. pk \in CP!Packet
    BY <1>3, <1>4, <2>2, Constants DEF CP!Packet, CP!Position
  <2> QED
    BY <1>2, <1>4, <2>2, <2>3 DEF InStream
<1>6. ManagerStep /\ UNCHANGED <<attached, client, pending, serving, req, reply>>
  BY DEF ManagerStep, jmVars, rpcVars
<1>7. Calling' /\ Serving' /\ Unmade' /\ Asked' /\ \A s \in Streams : Corked(s)' => Corked(s)
  BY <1>2, <1>4, <1>5, <1>6, NoCall
<1>8. Halves' /\ Carried'
  BY <1>1, <1>2, <1>4, <1>5, <1>6, <1>7, SameFlow
<1> QED
  BY <1>7, <1>8 DEF Inv, Carried

(* The sender loop puts one packet on the wire, within the window of the    *)
(* client that is connected.                                                *)
LEMMA SenderKept == ASSUME Inv, SenderStep \/ CoalesceElapsed PROVE Inv'
<1>1. PICK lost \in BOOLEAN : lost = (link # streamId)
  OBVIOUS
<1>2. /\ UNCHANGED <<ctlVars, acks, jmVars, rpcVars>>
      /\ \/ MP!SendData(lost)
         \/ MP!SendTerminal(lost) \/ MP!SenderWait \/ MP!CoalesceElapsed \/ MP!SenderExit
  BY <1>1, ManagerActions DEF SenderStep, CoalesceElapsed
<1> QED
  BY <1>2, SendDataKept, SenderRestKept
(* An ACK that reaches the job manager grants at most the room its reader   *)
(* had.  One for a corked stream does not: it has no writer yet.            *)
LEMMA RecvAckKept ==
  ASSUME Inv, NEW a \in acks, a.sid \in attached, MP!RecvAck(a),
         ManagerStep, attached' \subseteq attached, UNCHANGED <<client, pending, serving, rpcVars>>
  PROVE  Inv'
<1>1. /\ a.seq \in Nat /\ a.rwnd \in Nat /\ a.seq \in MP!Position /\ a.rwnd \in 0 .. RWnd
      /\ head \in Nat /\ sent \in Nat /\ total \in Nat
  <2>1. a \in CP!AckType /\ a.seq <= total /\ total <= MaxPos
        /\ head \in Nat /\ sent \in Nat /\ total \in Nat
    BY StateFacts DEF Inv, Acks
  <2>2. a.seq \in Nat /\ a.rwnd \in 0 .. RWnd
    BY <2>1, Fields
  <2> QED
    BY <2>1, <2>2, Constants DEF MP!Position
<1>2. /\ connected /\ a.sid = streamId /\ MP!WholeRing'
      /\ UNCHANGED <<total, chunk, term, connected, streamId, joining, closed, wire>>
      /\ MP!MovesHead(a) \/ UNCHANGED <<head, rwnd, sent>>
  BY <1>1, Constants, MP!AckEffect DEF Inv, Halves
<1>3. MP!TypeInv'
  BY <1>1, Constants, MP!RecvAckTypeInv DEF Inv, Halves
<1>4. termAcked' \in BOOLEAN /\ connected' \in BOOLEAN
  BY <1>3, Constants DEF MP!TypeInv, MP!TypeOK
<1>5. Calling' /\ Serving' /\ Unmade' /\ Asked' /\ \A s \in Streams : Corked(s)' => Corked(s)
  BY <1>1, <1>2, <1>4, NoCall DEF rpcVars
<1>6. CASE UNCHANGED <<head, rwnd, sent>>
  <2>1. Halves' /\ Carried'
    BY <1>1, <1>2, <1>3, <1>5, <1>6, SameFlow
  <2> QED
    BY <1>5, <2>1 DEF Inv, Carried
<1>7. CASE MP!MovesHead(a)
  <2>1. head' = a.seq /\ rwnd' = a.rwnd /\ head' + sent' = head + sent
    BY <1>1, <1>7 DEF MP!MovesHead
  <2>2. /\ CP!Inv' /\ Readers' /\ Acks' /\ Files' /\ Loops' /\ WindowKept'
        /\ \A p \in CP!Packet : InStream(p) => InStream(p)'
    BY <1>1, <1>2, ManagerKeeps
  <2>3. Halves' /\ Wire'
    BY <1>2, <1>3, <2>2 DEF Halves, Wire, Inv
  <2>4. rd' = rd /\ acks' \subseteq acks
    BY DEF ManagerStep, ctlVars
  <2>5. \A s \in Streams : Data(s)' = Data(s) /\ (CP!Listening(s)' <=> CP!Listening(s))
    BY <1>2, <2>4 DEF Data, CP!Listening
  <2>6. ASSUME NEW s \in Streams, Quiet(s) PROVE Quiet(s)'
    <3>1. s # streamId
      BY <1>2, <2>6 DEF Quiet
    <3> QED
      BY <1>2, <2>4, <2>5, <2>6, <3>1 DEF Quiet
  <2>7. ASSUME NEW s \in Streams, FlowControlled(s) PROVE FlowControlled(s)'
    <3>1. Fits(s) => Fits(s)'
      BY <1>2, <2>1, <2>4, <2>5 DEF Fits, Edge, Serves
    <3>2. CutOff(s) => CutOff(s)'
      BY <1>2, <2>1, <2>4, <2>5 DEF CutOff, Serves
    <3> QED
      BY <2>7, <3>1, <3>2 DEF FlowControlled
  <2>8. Corks' /\ Windows'
    BY <1>5, <2>2, <2>5, <2>6, <2>7 DEF Corks, Windows, Inv
  <2> QED
    BY <1>5, <2>2, <2>3, <2>8 DEF Inv
<1> QED
  BY <1>2, <1>6, <1>7

(* Any other is dropped.                                                    *)
LEMMA DropAckKept ==
  ASSUME Inv, ManagerStep, attached' \subseteq attached,
         UNCHANGED <<mgrVars, wire, client, pending, serving, rpcVars>>
  PROVE  Inv'
<1>1. UNCHANGED <<head, total, win, sync, readPc, chunk, term, eofPos, connected, streamId, rwnd,
                  sent, termSent, maxAck, termAcked, joining, sender, coalescing, armed, closed, wire>>
  BY DEF mgrVars
<1>2. MP!TypeInv' /\ MP!WholeRing'
  <2>1. UNCHANGED MP!vars
    BY <1>1 DEF MP!vars, MP!ringVars, MP!readVars, MP!clientVars, MP!senderVars
  <2>2. MP!WholeRing'
    BY <1>1 DEF Inv, Halves, MP!WholeRing
  <2> QED
    BY <2>1, <2>2, Constants, MP!StutterTypeInv DEF Inv, Halves
<1>3. total \in Nat /\ termAcked \in BOOLEAN
  BY StateFacts DEF Inv
<1>4. Calling' /\ Serving' /\ Unmade' /\ Asked' /\ \A s \in Streams : Corked(s)' => Corked(s)
  BY <1>1, <1>3, NoCall DEF rpcVars
<1>5. Halves' /\ Carried'
  BY <1>1, <1>2, <1>3, <1>4, SameFlow
<1> QED
  BY <1>4, <1>5 DEF Inv, Carried

(* An ACK moves the head of the ring and the window, or is of another       *)
(* client.                                                                  *)
LEMMA DeliverAckKept == ASSUME Inv, DeliverAck PROVE Inv'
<1>1. PICK a \in acks :
        /\ acks' = acks \ {a}
        /\ IF a.sid \in attached
           THEN /\ Mgr!RecvAck(a) \/ (Mgr!IgnoredAck(a) /\ UNCHANGED <<mgrVars, wire>>)
                /\ attached' = IF a.fin \/ a.cancel THEN attached \ {a.sid} ELSE attached
           ELSE UNCHANGED <<mgrVars, wire, attached>>
        /\ UNCHANGED <<ctlVars, client, pending, serving, rpcVars>>
  BY DEF DeliverAck
<1>2. ManagerStep /\ attached' \subseteq attached
  BY <1>1 DEF ManagerStep
<1>3. \/ a.sid \in attached /\ MP!RecvAck(a)
      \/ UNCHANGED <<mgrVars, wire>>
  BY <1>1, ManagerCalls
<1> QED
  BY <1>1, <1>2, <1>3, RecvAckKept, DropAckKept
-----------------------------------------------------------------------------
(* The calls the job manager serves.                                        *)

(* Steps that touch neither readers nor packets: a stream the manager does  *)
(* not serve flows as before, and a quiet one stays quiet while it has no   *)
(* writer and no window.                                                    *)
LEMMA Elsewhere ==
  ASSUME ManagerStep, wire' = wire, NEW s \in Streams
  PROVE  /\ Data(s)' = Data(s) /\ (CP!Listening(s)' <=> CP!Listening(s))
         /\ ~Serves(s)' /\ FlowControlled(s) => FlowControlled(s)'
         /\ Quiet(s) /\ s \notin attached' /\ (streamId' = s => sent' = 0 /\ (connected' => rwnd' = 0))
              => Quiet(s)'
<1>1. rd' = rd /\ acks' \subseteq acks
  BY DEF ManagerStep, ctlVars
<1>2. Data(s)' = Data(s) /\ (CP!Listening(s)' <=> CP!Listening(s))
  BY <1>1 DEF Data, CP!Listening
<1>3. ~Serves(s)' /\ FlowControlled(s) => FlowControlled(s)'
  BY <1>1, <1>2 DEF FlowControlled, Fits, CutOff, Edge
<1>4. Quiet(s) /\ s \notin attached' /\ (streamId' = s => sent' = 0 /\ (connected' => rwnd' = 0))
        => Quiet(s)'
  BY <1>1, <1>2 DEF Quiet
<1> QED
  BY <1>2, <1>3, <1>4

(* A stream on which nothing happened yet fits whatever window up to the    *)
(* reader's it is given, or has a hole before its first byte.               *)
LEMMA FirstFlow ==
  ASSUME NEW s \in Streams, rd'[s].next \in Nat, head' \in Nat,
         Data(s)' = {}, rd'[s].buf = <<>>, \A a \in acks' : a.sid # s,
         Serves(s)' => sent' = 0 /\ rwnd' \in 0 .. RWnd
  PROVE  FlowControlled(s)'
<1>1. RWnd \in Nat /\ Len(rd'[s].buf) = 0
  BY EmptySeq, Constants
<1>2. Edge(s)' = rd'[s].next + RWnd
  BY <1>1 DEF Edge
<1>3. CASE head' <= rd'[s].next
  <2>1. Serves(s)' => head' + rwnd' <= Edge(s)'
    BY <1>1, <1>2, <1>3
  <2> QED
    BY <2>1 DEF FlowControlled, Fits
<1>4. CASE head' > rd'[s].next
  BY <1>4 DEF FlowControlled, CutOff
<1> QED
  BY <1>3, <1>4

(* What is kept however the call goes.                                      *)
LEMMA ServeCarries ==
  ASSUME Inv, ManagerStep, MP!TypeInv', MP!WholeRing', UNCHANGED <<closed, total, term, wire>>,
         Corks', \A s \in Streams : CP!Listening(s) => FlowControlled(s)'
  PROVE  Halves' /\ Carried'
<1>1. total \in Nat
  BY StateFacts DEF Inv
<1>2. /\ CP!Inv' /\ Readers' /\ Acks' /\ Files' /\ Loops' /\ WindowKept'
      /\ \A p \in CP!Packet : InStream(p) => InStream(p)'
  BY <1>1, ManagerKeeps
<1>3. Halves' /\ Wire'
  BY <1>2 DEF Halves, Wire, Inv
<1>4. Windows'
  BY <1>2, Elsewhere DEF Windows
<1> QED
  BY <1>2, <1>3, <1>4 DEF Carried

(* A client that never disconnected is put out first.                       *)
LEMMA ServeConnectKept ==
  ASSUME Inv, NEW kind \in {"start", "prepare"}, ServeConnect(kind) PROVE Inv'
<1> USE DEF Inv
<1>1. /\ req.kind = kind /\ serving = Idle /\ (kind = "prepare" => ~termAcked)
      /\ serving' = [pc |-> "connect", kind |-> kind, sid |-> req.sid, seq |-> req.seq]
      /\ client' = FALSE /\ req' = NoReq
      /\ UNCHANGED <<ctlVars, acks, attached, pending, reply>>
  BY DEF ServeConnect, Arrived
<1>2. /\ MP!TypeInv' /\ MP!WholeRing' /\ connected' = FALSE /\ sent' \in {sent, 0}
      /\ UNCHANGED <<head, total, term, streamId, termAcked, joining, closed, wire>>
  <2>1. CASE client
    <3>1. MP!ClientDisconnected
      BY <2>1, ManagerCalls DEF ServeConnect
    <3> QED
      BY <3>1, Constants, MP!DisconnectTypeInv, MP!DisconnectEffect DEF Halves
  <2>2. CASE ~client
    <3>1. UNCHANGED <<mgrVars, wire>>
      BY <2>2 DEF ServeConnect
    <3>2. UNCHANGED MP!vars /\ MP!WholeRing'
      BY <3>1 DEF mgrVars, MP!vars, MP!ringVars, MP!readVars, MP!clientVars, MP!senderVars,
                  Halves, MP!WholeRing
    <3>3. connected' = FALSE
      <4>1. connected \in BOOLEAN /\ client = connected
        BY StateFacts DEF Serving
      <4> QED
        BY <2>2, <3>1, <4>1 DEF mgrVars
    <3> QED
      BY <3>1, <3>2, <3>3, Constants, MP!StutterTypeInv DEF Halves, mgrVars
  <2> QED
    BY <2>1, <2>2
<1>3. ManagerStep /\ UNCHANGED <<rd, att, used, acks>>
  BY <1>1 DEF ManagerStep, ctlVars
<1>4. /\ serving'.pc = "connect" /\ serving'.kind = kind /\ serving'.sid = req.sid
      /\ serving'.seq = req.seq /\ req'.kind = "none" /\ req'.seq = 0
      /\ serving.pc = "idle"
  BY <1>1 DEF NoReq, Idle
<1>5. /\ req.sid \in used /\ req.sid \in Streams /\ ~HeardOf(req.sid) /\ NotPast(req.sid, req.seq)
      /\ kind = "start" => streamId = NoStream
      /\ req.seq \in 0 .. total /\ total \in Nat
      /\ att.pc \in {"prepare", "update"} => kind = "prepare"
  BY <1>1, StateFacts DEF Calling, Asked
<1>6. ~termAcked
  <2>1. termAcked => streamId \in Streams
    BY DEF Serving
  <2> QED
    BY <1>1, <1>5, <2>1, Constants
<1>7. Calling'
  BY <1>1, <1>4 DEF Calling
<1>8. Serving'
  <2>1. serving' \in [pc : {"idle", "connect", "joining", "attach"}, kind : {"none", "start", "prepare"},
                      sid : Streams \cup {NoStream}, seq : Nat]
    BY <1>1, <1>5
  <2>2. joining' = MP!NoJoin /\ NotPast(serving.sid, serving.seq)'
    BY <1>2, <1>3, <1>4, <1>5 DEF Serving, NotPast
  <2>3. /\ attached' \subseteq Streams /\ pending' \in Streams \cup {NoStream}
        /\ pending' # NoStream => streamId' = pending'
    BY <1>1, <1>2 DEF Serving
  <2> QED
    BY <1>1, <1>2, <1>3, <1>4, <1>5, <1>6, <2>1, <2>2, <2>3 DEF Serving, HeardOf
<1>9. Unmade'
  BY <1>1, <1>2, <1>3, <1>4, <1>5 DEF Unmade, HeardOf
<1>10. Asked'
  BY <1>1, <1>2, <1>3, <1>4, <1>5 DEF Asked
<1>11. \A s \in Streams : Corked(s)' => Corked(s)
  BY <1>1, <1>3, <1>4 DEF Corked, Corking
<1>12. Halves' /\ Carried'
  BY <1>1, <1>2, <1>3, <1>5, <1>11, SameFlow
<1> QED
  BY <1>7, <1>8, <1>9, <1>10, <1>12 DEF Carried
(* A client is let in: what lies before its position leaves the ring.       *)
LEMMA ServeBeginKept == ASSUME Inv, ServeBegin PROVE Inv'
<1> USE DEF Inv
<1> DEFINE w == IF serving.kind = "prepare" THEN 0 ELSE RWnd
<1>1. /\ serving.pc = "connect" /\ serving' = [serving EXCEPT !.pc = "joining"]
      /\ MP!BeginConnect(serving.sid, w, serving.seq)
      /\ UNCHANGED <<ctlVars, acks, attached, client, pending, req, reply>>
  BY ManagerCalls DEF ServeBegin, rpcVars
<1>2. /\ serving'.pc = "joining" /\ serving'.kind = serving.kind /\ serving'.sid = serving.sid
      /\ serving'.seq = serving.seq
      /\ serving' \in [pc : {"idle", "connect", "joining", "attach"}, kind : {"none", "start", "prepare"},
                       sid : Streams \cup {NoStream}, seq : Nat]
  BY <1>1 DEF Serving
<1>3. /\ serving.sid \in used /\ serving.sid \in Streams /\ serving.seq \in 0 .. total /\ total \in Nat
      /\ serving.kind \in {"start", "prepare"} /\ w \in 0 .. RWnd /\ head \in Nat /\ total <= MaxPos
  BY <1>1, StateFacts, Constants DEF Serving, Asked
<1> HIDE DEF w
<1>4. /\ joining' = [sid |-> serving.sid, rwnd |-> w, start |-> head']
      /\ head' \in {head, serving.seq} /\ head' >= head /\ head' >= serving.seq /\ head' <= total
      /\ ~connected /\ MP!WholeRing' /\ MP!TypeInv'
      /\ UNCHANGED <<total, term, connected, streamId, rwnd, sent, termAcked, closed, wire>>
  <2>1. serving.seq \in Nat /\ serving.seq \in MP!Position
    BY <1>3, Constants DEF MP!Position
  <2>2. MP!TypeInv'
    BY <1>1, <1>3, <2>1, Constants, MP!ConnectTypeInv DEF Halves
  <2> QED
    BY <1>1, <2>1, <2>2, Constants, MP!BeginConnectEffect DEF Halves
<1>5. /\ joining'.sid = serving.sid /\ (serving.kind = "prepare" => joining'.rwnd = 0)
      /\ joining'.start = head' /\ head' \in 0 .. total
  BY <1>3, <1>4 DEF w
<1>6. ManagerStep /\ UNCHANGED <<rd, att, used, acks>>
  BY <1>1 DEF ManagerStep, ctlVars
<1>7. \A s : HeardOf(s)' <=> HeardOf(s)
  BY <1>1, <1>2, <1>4 DEF HeardOf
<1>8. serving # Idle
  BY <1>1 DEF Idle
<1>9. Calling'
  BY <1>1, <1>2, <1>4, <1>6, <1>7, <1>8 DEF Calling, NotPast
<1>10. Serving'
  BY <1>1, <1>2, <1>3, <1>4, <1>5, <1>6 DEF Serving
<1>11. Unmade'
  BY <1>6, <1>7 DEF Unmade
<1>12. Asked'
  BY <1>1, <1>2, <1>3, <1>4, <1>5, <1>6 DEF Asked
<1>13. \A s \in Streams : Corked(s)' => Corked(s)
  BY <1>1, <1>2, <1>6 DEF Corked, Corking
<1>14. Halves' /\ Carried'
  BY <1>1, <1>3, <1>4, <1>6, <1>13, SameFlow
<1> QED
  BY <1>9, <1>10, <1>11, <1>12, <1>14 DEF Carried

(* The client is connected: a prepared one with no window.                  *)
LEMMA EndConnectFacts ==
  ASSUME Inv, serving.pc = "joining", Mgr!EndConnect
  PROVE  /\ serving.sid \in used /\ serving.sid \in Streams /\ used \subseteq Streams
         /\ connected' = TRUE /\ joining' = MP!NoJoin /\ joining'.start = 0
         /\ streamId' = serving.sid /\ sent' = 0
         /\ rwnd' \in 0 .. RWnd /\ (serving.kind = "prepare" => rwnd' = 0)
         /\ joining.start \in 0 .. total /\ total \in Nat /\ head' \in Nat
         /\ MP!TypeInv' /\ MP!WholeRing' /\ Quiet(serving.sid)
         /\ UNCHANGED <<head, total, term, termAcked, closed, wire>>
<1> USE DEF Inv
<1>1. /\ MP!EndConnect /\ joining.sid = serving.sid /\ (serving.kind = "prepare" => joining.rwnd = 0)
      /\ serving.sid \in used /\ joining.start \in 0 .. total
  BY ManagerCalls DEF Serving, Asked
<1>2. /\ connected' = TRUE /\ joining' = MP!NoJoin
      /\ streamId' = joining.sid /\ rwnd' = joining.rwnd /\ sent' = 0
      /\ MP!WholeRing' /\ MP!TypeInv'
      /\ UNCHANGED <<head, total, term, termAcked, closed, wire>>
  BY <1>1, Constants, MP!EndConnectEffect, MP!ConnectTypeInv DEF Halves
<1>3. joining.rwnd \in 0 .. RWnd
  <2>1. joining \in MP!Join
    BY Constants DEF Halves, MP!TypeInv, MP!TypeOK
  <2> QED
    BY <2>1, Constants DEF MP!Join, MP!NoJoin
<1>4. used \subseteq Streams /\ total \in Nat /\ head \in Nat
  BY StateFacts
<1>5. Quiet(serving.sid)
  BY <1>1, <1>4 DEF Corks, Corked
<1>6. joining'.start = 0
  BY <1>2 DEF MP!NoJoin
<1> QED
  BY <1>1, <1>2, <1>3, <1>4, <1>5, <1>6

(* JobManager answers a prepare, and holds the new stream for StartStream.  *)
LEMMA ServePreparedKept == ASSUME Inv, ServePrepared PROVE Inv'
<1> USE DEF Inv
<1>1. /\ serving.pc = "joining" /\ serving.kind = "prepare" /\ Mgr!EndConnect
      /\ client' = TRUE /\ pending' = serving.sid /\ serving' = Idle
      /\ reply' = [kind |-> "prepared", sid |-> serving.sid, seq |-> joining.start]
      /\ UNCHANGED <<ctlVars, acks, attached, req>>
  BY DEF ServePrepared
<1>2. /\ serving.sid \in used /\ serving.sid \in Streams /\ used \subseteq Streams
      /\ connected' = TRUE /\ joining' = MP!NoJoin /\ joining'.start = 0
      /\ streamId' = serving.sid /\ sent' = 0 /\ rwnd' = 0
      /\ joining.start \in 0 .. total /\ total \in Nat /\ head' \in Nat
      /\ MP!TypeInv' /\ MP!WholeRing' /\ Quiet(serving.sid)
      /\ UNCHANGED <<head, total, term, termAcked, closed, wire>>
  BY <1>1, EndConnectFacts
<1>3. ManagerStep /\ UNCHANGED <<rd, att, used, acks>>
  BY <1>1 DEF ManagerStep, ctlVars
<1>4. /\ serving'.pc = "idle" /\ serving'.sid = NoStream /\ serving'.seq = 0 /\ serving # Idle
      /\ serving' \in [pc : {"idle", "connect", "joining", "attach"}, kind : {"none", "start", "prepare"},
                       sid : Streams \cup {NoStream}, seq : Nat]
  BY <1>1 DEF Idle
<1>5. /\ reply'.seq = joining.start /\ reply'.sid = serving.sid
  BY <1>1
<1>6. \A s \in Streams : HeardOf(s)' => HeardOf(s)
  BY <1>1, <1>2, <1>4, Constants DEF HeardOf
<1>7. att.pc # "idle" => att.sid \in Streams
  BY <1>2, StateFacts
<1>8. Calling'
  <2>1. req.kind \in {"start", "prepare"} => req.sid \in Streams
    BY <1>2 DEF Calling
  <2> QED
    BY <1>1, <1>3, <1>4, <1>6, <2>1 DEF Calling, NotPast
<1>9. Serving'
  BY <1>1, <1>2, <1>3, <1>4, <1>7, Constants DEF Serving
<1>10. Unmade'
  BY <1>3, <1>6 DEF Unmade
<1>11. Asked'
  BY <1>1, <1>2, <1>3, <1>4, <1>5 DEF Asked
<1>12. \A s \in Streams : Corked(s)' => Corked(s)
  BY <1>1, <1>3, <1>4 DEF Corked, Corking
<1>13. \A s \in Streams : Quiet(s) => Quiet(s)'
  BY <1>1, <1>2, <1>3, Elsewhere DEF Quiet
<1>14. ASSUME NEW s \in Streams, CP!Listening(s) PROVE FlowControlled(s)'
  <2>1. CASE s # serving.sid
    BY <1>2, <1>3, <1>14, <2>1, Elsewhere DEF Windows, Serves
  <2>2. CASE s = serving.sid
    <3>1. Data(s)' = {} /\ rd'[s].buf = <<>> /\ \A a \in acks' : a.sid # s
      BY <1>2, <1>3, <1>14, <2>2, Elsewhere DEF Quiet
    <3>2. rd'[s].next \in Nat
      BY <1>3, ReaderFacts
    <3> QED
      BY <1>2, <3>1, <3>2, Constants, FirstFlow
  <2> QED
    BY <2>1, <2>2
<1>15. Corks'
  BY <1>12, <1>13 DEF Corks
<1>16. Halves' /\ Carried'
  BY <1>2, <1>3, <1>14, <1>15, ServeCarries
<1> QED
  BY <1>8, <1>9, <1>10, <1>11, <1>16 DEF Carried
(* JobManager leaves ClientConnected with a client; what the stream is      *)
(* corked for is still ahead.                                               *)
LEMMA ServeConnectedKept == ASSUME Inv, ServeConnected PROVE Inv'
<1> USE DEF Inv
<1>1. /\ serving.pc = "joining" /\ serving.kind = "start" /\ Mgr!EndConnect
      /\ client' = TRUE /\ serving' = [serving EXCEPT !.pc = "attach"]
      /\ attached' = attached \cup {serving.sid}
      /\ UNCHANGED <<ctlVars, acks, pending, req, reply>>
  BY DEF ServeConnected, rpcVars
<1>2. /\ serving.sid \in used /\ serving.sid \in Streams /\ used \subseteq Streams
      /\ connected' = TRUE /\ joining' = MP!NoJoin /\ joining'.start = 0
      /\ streamId' = serving.sid /\ sent' = 0 /\ rwnd' \in 0 .. RWnd
      /\ total \in Nat /\ head' \in Nat
      /\ MP!TypeInv' /\ MP!WholeRing' /\ Quiet(serving.sid)
      /\ UNCHANGED <<head, total, term, termAcked, closed, wire>>
  BY <1>1, EndConnectFacts
<1>3. ManagerStep /\ UNCHANGED <<rd, att, used, acks>>
  BY <1>1 DEF ManagerStep, ctlVars
<1>4. /\ serving'.pc = "attach" /\ serving'.kind = serving.kind /\ serving'.sid = serving.sid
      /\ serving'.seq = serving.seq /\ serving # Idle
      /\ serving' \in [pc : {"idle", "connect", "joining", "attach"}, kind : {"none", "start", "prepare"},
                       sid : Streams \cup {NoStream}, seq : Nat]
  BY <1>1 DEF Idle, Serving
<1>5. pending = NoStream
  BY <1>1 DEF Serving
<1>6. \A s \in Streams : HeardOf(s)' => HeardOf(s)
  BY <1>1, <1>2, <1>4 DEF HeardOf
<1>7. Calling'
  <2>1. req.kind \in {"start", "prepare"} => req.sid \in Streams
    BY <1>2 DEF Calling
  <2> QED
    BY <1>1, <1>3, <1>4, <1>6, <2>1 DEF Calling, NotPast
<1>8. Serving'
  BY <1>1, <1>2, <1>3, <1>4, <1>5 DEF Serving
<1>9. Unmade'
  BY <1>3, <1>6 DEF Unmade
<1>10. Asked'
  BY <1>1, <1>2, <1>3, <1>4 DEF Asked
<1>11. \A s \in Streams : Corked(s)' => Corked(s) /\ s # serving.sid
  <2>1. SUFFICES ASSUME NEW s \in Streams, Corked(s)' PROVE Corked(s) /\ s # serving.sid
    OBVIOUS
  <2>2. Corking(s) \/ (req.kind \in {"start", "prepare"} /\ req.sid = s)
    BY <1>1, <1>3, <1>4, <1>5, <2>1, Constants DEF Corked, Corking
  <2>3. Corking(s) => s # serving.sid
    BY <1>1 DEF Corking, Serving
  <2>4. req.kind \in {"start", "prepare"} => req.sid # serving.sid
    BY DEF Calling, HeardOf
  <2> QED
    BY <2>2, <2>3, <2>4 DEF Corked
<1>12. ASSUME NEW s \in Streams, s # serving.sid, Quiet(s) PROVE Quiet(s)'
  <2>1. s \notin attached'
    BY <1>1, <1>12 DEF Quiet
  <2> QED
    BY <1>2, <1>3, <1>12, <2>1, Elsewhere
<1>13. ASSUME NEW s \in Streams, CP!Listening(s) PROVE FlowControlled(s)'
  <2>1. CASE s # serving.sid
    BY <1>2, <1>3, <1>13, <2>1, Elsewhere DEF Windows, Serves
  <2>2. CASE s = serving.sid
    <3>1. Data(s)' = {} /\ rd'[s].buf = <<>> /\ \A a \in acks' : a.sid # s
      BY <1>2, <1>3, <1>13, <2>2, Elsewhere DEF Quiet
    <3>2. rd'[s].next \in Nat
      BY <1>3, ReaderFacts
    <3> QED
      BY <1>2, <3>1, <3>2, FirstFlow
  <2> QED
    BY <2>1, <2>2
<1>14. Corks'
  BY <1>11, <1>12 DEF Corks
<1>15. Halves' /\ Carried'
  BY <1>2, <1>3, <1>13, <1>14, ServeCarries
<1> QED
  BY <1>7, <1>8, <1>9, <1>10, <1>15 DEF Carried

(* StartJob attaches the PTY last.                                          *)
LEMMA ServeStartedKept == ASSUME Inv, ServeStarted PROVE Inv'
<1> USE DEF Inv
<1>1. /\ serving.pc = "attach" /\ MP!ReadLoop /\ serving' = Idle
      /\ reply' = [kind |-> "started", sid |-> serving.sid, seq |-> 0]
      /\ UNCHANGED <<ctlVars, acks, attached, client, pending, req>>
  BY ManagerActions DEF ServeStarted
<1>2. ManagerStep /\ UNCHANGED <<rd, att, used, acks>>
  BY <1>1 DEF ManagerStep, ctlVars
<1>3. /\ serving'.pc = "idle" /\ serving'.sid = NoStream /\ serving'.seq = 0 /\ serving # Idle
      /\ reply'.kind = "started" /\ reply'.seq = 0
      /\ serving' \in [pc : {"idle", "connect", "joining", "attach"}, kind : {"none", "start", "prepare"},
                       sid : Streams \cup {NoStream}, seq : Nat]
  BY <1>1 DEF Idle
<1>4. MP!TypeInv' /\ MP!SameClient /\ total' >= total
  BY <1>1, Constants, MP!ReadLoopTypeInv, MP!ReadLoopEffect DEF Halves
<1>5. /\ total' \in Nat /\ total \in Nat /\ used \subseteq Streams
      /\ UNCHANGED <<connected, streamId, termAcked, joining, wire>>
      /\ att.pc # "idle" => att.sid \in Streams
  <2>1. total' \in Nat /\ total \in Nat
    BY <1>4 DEF Halves, MP!TypeInv, MP!TypeOK, MP!Position
  <2>2. UNCHANGED <<connected, streamId, termAcked, joining, wire>>
    BY <1>4 DEF MP!SameClient
  <2>3. used \subseteq Streams /\ (att.pc # "idle" => att.sid \in Streams)
    BY StateFacts, Constants
  <2> QED
    BY <2>1, <2>2, <2>3
<1>6. \A s \in Streams : HeardOf(s)' => HeardOf(s)
  BY <1>1, <1>3, <1>5, Constants DEF HeardOf
<1>7. Calling'
  <2>1. req.kind \in {"start", "prepare"} => req.sid \in Streams
    BY <1>5 DEF Calling
  <2> QED
    BY <1>1, <1>2, <1>3, <1>6, <2>1 DEF Calling, NotPast
<1>8. Serving'
  BY <1>1, <1>2, <1>3, <1>5, Constants DEF Serving
<1>9. Unmade'
  BY <1>2, <1>6 DEF Unmade
<1>10. Asked'
  <2>1. req.seq \in 0 .. total /\ joining.start \in 0 .. total
    BY DEF Asked
  <2>2. {req'.seq, serving'.seq, reply'.seq, joining'.start} \subseteq 0 .. total'
    BY <1>1, <1>3, <1>4, <1>5, <2>1
  <2>3. att.seq \in Nat
    BY StateFacts DEF CP!AttemptType
  <2> QED
    BY <1>1, <1>2, <1>3, <1>4, <1>5, <2>2, <2>3 DEF Asked
<1>11. \A s \in Streams : Corked(s)' => Corked(s)
  BY <1>1, <1>2, <1>3 DEF Corked, Corking
<1>12. Halves' /\ Carried'
  BY <1>1, <1>2, <1>11, ReadLoopCarries
<1> QED
  BY <1>7, <1>8, <1>9, <1>10, <1>12 DEF Carried

(* PrepareConnect answers that the stream is finished.                      *)
LEMMA ServeAlreadyDoneKept == ASSUME Inv, ServeAlreadyDone PROVE Inv'
<1> USE DEF Inv
<1>1. /\ req' = NoReq /\ reply' = [kind |-> "done", sid |-> req.sid, seq |-> req.seq]
      /\ UNCHANGED <<mgrVars, wire, ctlVars, acks, attached, client, pending, serving>>
  BY DEF ServeAlreadyDone, Answer, jmVars
<1>2. UNCHANGED <<head, total, win, sync, readPc, chunk, term, eofPos, connected, streamId, rwnd,
                  sent, termSent, maxAck, termAcked, joining, sender, coalescing, armed, closed, wire>>
  BY <1>1 DEF mgrVars
<1>3. MP!TypeInv' /\ MP!WholeRing'
  <2>1. UNCHANGED MP!vars
    BY <1>2 DEF MP!vars, MP!ringVars, MP!readVars, MP!clientVars, MP!senderVars
  <2>2. MP!WholeRing'
    BY <1>2 DEF Halves, MP!WholeRing
  <2> QED
    BY <2>1, <2>2, Constants, MP!StutterTypeInv DEF Halves
<1>4. ManagerStep /\ UNCHANGED <<rd, att, used, acks>>
  BY <1>1 DEF ManagerStep, ctlVars
<1>5. req'.kind = "none" /\ req'.seq = 0 /\ reply'.kind = "done" /\ reply'.seq = req.seq
  BY <1>1 DEF NoReq
<1>6. total \in Nat
  BY StateFacts
<1>7. Calling'
  BY <1>1, <1>5 DEF Calling
<1>8. Serving'
  BY <1>1, <1>2, <1>4 DEF Serving, NotPast
<1>9. Unmade'
  BY <1>1, <1>2, <1>4 DEF Unmade, HeardOf
<1>10. Asked'
  BY <1>1, <1>2, <1>4, <1>5, <1>6 DEF Asked
<1>11. \A s \in Streams : Corked(s)' => Corked(s)
  BY <1>1, <1>4, <1>5 DEF Corked, Corking
<1>12. Halves' /\ Carried'
  BY <1>1, <1>2, <1>3, <1>4, <1>6, <1>11, SameFlow
<1> QED
  BY <1>7, <1>8, <1>9, <1>10, <1>12 DEF Carried

(* StartStream uncorks the stream that was prepared.                        *)
LEMMA ServeStartStreamKept == ASSUME Inv, ServeStartStream PROVE Inv'
<1> USE DEF Inv
<1>1. /\ req.kind = "stream" /\ serving = Idle /\ pending = req.sid
      /\ attached' = attached \cup {pending} /\ MP!SetRwndSize(RWnd) /\ pending' = NoStream
      /\ req' = NoReq /\ reply' = [kind |-> "started", sid |-> req.sid, seq |-> 0]
      /\ UNCHANGED <<ctlVars, acks, client, serving>>
  BY ManagerCalls DEF ServeStartStream, Arrived, Answer
<1>2. pending \in used /\ pending \in Streams /\ streamId = pending
  BY <1>1, StateFacts, Constants DEF Calling, Serving
<1>3. /\ connected /\ rwnd' = RWnd /\ MP!WholeRing' /\ MP!TypeInv'
      /\ UNCHANGED <<head, total, term, connected, streamId, sent, termAcked, joining, closed, wire>>
  <2>1. RWnd \in Nat /\ RWnd \in 0 .. RWnd
    BY Constants
  <2> QED
    BY <1>1, <2>1, Constants, MP!RwndEffect, MP!RwndTypeInv DEF Halves
<1>4. ManagerStep /\ UNCHANGED <<rd, att, used, acks>>
  BY <1>1 DEF ManagerStep, ctlVars
<1>5. /\ req'.kind = "none" /\ req'.seq = 0 /\ reply'.kind = "started" /\ reply'.seq = 0
      /\ serving.pc = "idle"
  BY <1>1 DEF NoReq, Idle
<1>6. total \in Nat /\ head \in Nat /\ Quiet(pending)
  BY <1>2, StateFacts DEF Corks, Corked
<1>7. Calling'
  BY <1>1, <1>5 DEF Calling
<1>8. Serving'
  BY <1>1, <1>2, <1>3, <1>4, <1>5 DEF Serving
<1>9. Unmade'
  BY <1>1, <1>2, <1>3, <1>4, <1>5, Constants DEF Unmade, HeardOf
<1>10. Asked'
  BY <1>1, <1>3, <1>4, <1>5, <1>6 DEF Asked
<1>11. \A s \in Streams : ~Corked(s)'
  BY <1>1, <1>4, <1>5, Constants DEF Corked, Corking, Calling
<1>12. ASSUME NEW s \in Streams, CP!Listening(s) PROVE FlowControlled(s)'
  <2>1. CASE s # pending
    BY <1>2, <1>3, <1>4, <1>12, <2>1, Elsewhere DEF Windows, Serves
  <2>2. CASE s = pending
    <3>1. Data(s)' = {} /\ rd'[s].buf = <<>> /\ \A a \in acks' : a.sid # s
      BY <1>3, <1>4, <1>6, <1>12, <2>2, Elsewhere DEF Quiet
    <3>2. rd'[s].next \in Nat /\ head' \in Nat /\ sent' = 0 /\ rwnd' \in 0 .. RWnd
      BY <1>2, <1>3, <1>4, <1>6, <2>2, ReaderFacts, Constants DEF Quiet
    <3> QED
      BY <3>1, <3>2, FirstFlow
  <2> QED
    BY <2>1, <2>2
<1>13. Corks'
  BY <1>11 DEF Corks
<1>14. Halves' /\ Carried'
  BY <1>3, <1>4, <1>12, <1>13, ServeCarries
<1> QED
  BY <1>7, <1>8, <1>9, <1>10, <1>14 DEF Carried

(* Each step of JobManager, by the call it serves.                          *)
LEMMA ServeKept == ASSUME Inv, Serve PROVE Inv'
  BY ServeConnectKept, ServeBeginKept, ServePreparedKept, ServeConnectedKept, ServeStartedKept,
     ServeAlreadyDoneKept, ServeStartStreamKept DEF Serve
-----------------------------------------------------------------------------
(* The steps of wavesrv: packets.                                           *)

(* What a packet does to its own stream: a quiet one stays quiet, since no  *)
(* data arrives; otherwise what is taken in is within the reader's room,    *)
(* or the reader waits behind a hole.                                       *)
LEMMA PacketFlows ==
  ASSUME Inv, NEW pk \in wire, CP!RecvData(pk), wire' = wire \ {pk}, UNCHANGED <<mgrVars, jmVars>>
  PROVE  /\ Len(rd'[pk.sid].buf) <= RWnd
         /\ CP!Listening(pk.sid)' => FlowControlled(pk.sid)'
         /\ Quiet(pk.sid) => Quiet(pk.sid)'
<1> USE DEF Inv
<1> DEFINE s == pk.sid
<1>1. /\ pk \in CP!Packet /\ s \in Streams /\ pk.seq \in Nat /\ pk.len \in Nat
      /\ pk.kind \in {"data", "eof", "err"}
  BY Fields DEF Halves
<1>2. /\ rd[s].next \in Nat /\ Len(rd[s].buf) \in Nat /\ rd[s].ooo \subseteq CP!Packet
      /\ Len(rd[s].buf) <= RWnd /\ RWnd \in Nat
  BY <1>1, ReaderFacts, Constants DEF Windows, WindowKept
<1>3. CP!LeavesReader(pk) \/ \E to \in Nat : CP!TakesIn(pk, to)
  BY <1>1, Constants, CP!PacketEffect DEF Halves, CP!Inv
<1>4. UNCHANGED <<attached, streamId, sent, connected, rwnd, head>>
  BY DEF mgrVars, jmVars
<1>5. pk.kind = "data" => pk \in Data(s)
  BY DEF Data
<1>6. rd'[s].ooo \subseteq rd[s].ooo \cup {pk} => Data(s)' \subseteq Data(s)
  BY DEF Data
<1>7. CASE CP!LeavesReader(pk)
  <2>1. /\ rd'[s].next = rd[s].next /\ rd'[s].buf = rd[s].buf /\ Data(s)' \subseteq Data(s)
        /\ CP!Listening(s)' => CP!Listening(s) /\ acks' = acks
    BY <1>6, <1>7 DEF CP!LeavesReader
  <2>2. CP!Listening(s)' /\ Fits(s) => Fits(s)'
    BY <1>4, <2>1 DEF Fits, Edge, Serves
  <2>3. CutOff(s) => CutOff(s)'
    BY <1>4, <2>1 DEF CutOff, Serves
  <2>4. Quiet(s) => Quiet(s)'
    BY <1>4, <2>1 DEF Quiet
  <2> QED
    BY <1>1, <1>2, <2>1, <2>2, <2>3, <2>4 DEF FlowControlled, Windows
<1>8. CASE \E to \in Nat : CP!TakesIn(pk, to)
  <2>1. PICK to \in Nat : CP!TakesIn(pk, to)
    BY <1>8
  <2>2. /\ CP!Listening(s) /\ pk.kind # "err" /\ pk.seq = rd[s].next
        /\ pk.seq <= to /\ (pk.kind # "data" => to = pk.seq)
        /\ to = pk.seq + pk.len \/ \E p \in rd[s].ooo : p.kind = "data" /\ to <= p.seq + p.len
        /\ rd'[s].next = to /\ Len(rd'[s].buf) = Len(rd[s].buf) + (to - pk.seq)
        /\ pk.kind # "data" => rd'[s].buf = rd[s].buf
        /\ Data(s)' \subseteq Data(s)
        /\ pk.kind = "eof" => rd'[s].eof
        /\ \A a \in acks' \ acks : a.seq = to /\ a.rwnd = CP!FreeWindow(rd'[s])
    BY <1>6, <2>1 DEF CP!TakesIn
  <2>3. Edge(s)' = Edge(s) /\ Edge(s) \in Int /\ Edge(s)' = to + RWnd - Len(rd'[s].buf)
    <3> DEFINE n == rd[s].next
               b == Len(rd[s].buf)
               c == Len(rd'[s].buf)
    <3>1. n \in Int /\ b \in Int /\ RWnd \in Int /\ to \in Int /\ c = b + (to - n)
      BY <1>2, <2>2
    <3>2. Edge(s) = n + RWnd - b /\ Edge(s)' = to + RWnd - c
      BY <2>2 DEF Edge
    <3> HIDE DEF n, b, c
    <3>3. n + RWnd - b = to + RWnd - c /\ n + RWnd - b \in Int
      BY <3>1
    <3>4. Edge(s)' = Edge(s) /\ Edge(s) \in Int /\ Edge(s)' = to + RWnd - c
      BY <3>2, <3>3
    <3> QED
      BY <3>4 DEF c
  <2>4. ASSUME pk.kind # "data"
        PROVE  ~CP!Listening(s)' /\ Len(rd'[s].buf) <= RWnd /\ (Quiet(s) => Quiet(s)')
    <3>1. ~CP!Listening(s)'
      BY <1>1, <2>2, <2>4 DEF CP!Listening
    <3> QED
      BY <1>2, <1>4, <2>2, <2>4, <3>1 DEF Quiet
  <2>5. ASSUME pk.kind = "data"
        PROVE  Fits(s)' /\ Len(rd'[s].buf) <= RWnd /\ ~Quiet(s)
    <3>1. FlowControlled(s) /\ ~CutOff(s)
      <4>1. ~(pk.seq > rd[s].next)
        BY <1>1, <2>2
      <4> QED
        BY <1>1, <1>5, <2>2, <2>5, <4>1 DEF Windows, CutOff
    <3>2. Fits(s)
      BY <3>1 DEF FlowControlled
    <3>3. to <= Edge(s)
      <4>1. CASE to = pk.seq + pk.len
        BY <1>5, <2>5, <3>2, <4>1 DEF Fits
      <4>2. CASE \E p \in rd[s].ooo : p.kind = "data" /\ to <= p.seq + p.len
        <5>1. PICK p \in rd[s].ooo : p.kind = "data" /\ to <= p.seq + p.len
          BY <4>2
        <5>2. p \in Data(s)
          BY <5>1 DEF Data
        <5>3. p.seq + p.len \in Nat /\ Edge(s) \in Int
          BY <1>2, Fields DEF Edge
        <5> QED
          BY <3>2, <5>1, <5>2, <5>3 DEF Fits
      <4> QED
        BY <2>2, <4>1, <4>2
    <3>4. Len(rd'[s].buf) <= RWnd /\ Len(rd'[s].buf) \in Nat
      <4>1. Len(rd'[s].buf) = Len(rd[s].buf) + (to - pk.seq) /\ pk.seq <= to
        BY <2>2
      <4>2. pk.seq \in Nat /\ Len(rd[s].buf) \in Nat /\ RWnd \in Nat
        BY <1>1, <1>2
      <4>3. Len(rd'[s].buf) \in Nat
        BY <4>1, <4>2
      <4> QED
        BY <2>3, <3>3, <4>2, <4>3
    <3>5. \A a \in acks' : a.sid = s => a.seq + a.rwnd <= Edge(s)'
      <4>1. ASSUME NEW a \in acks', a.sid = s PROVE a.seq + a.rwnd <= Edge(s)'
        <5>1. CASE a \in acks
          BY <2>3, <3>2, <4>1, <5>1 DEF Fits
        <5>2. CASE a \notin acks
          <6>1. a.seq = to /\ a.rwnd = RWnd - Len(rd'[s].buf)
            BY <1>2, <2>2, <3>4, <5>2 DEF CP!FreeWindow
          <6> QED
            BY <1>2, <2>3, <3>4, <6>1
        <5> QED
          BY <5>1, <5>2
      <4> QED
        BY <4>1
    <3>6. Fits(s)'
      BY <1>4, <2>2, <2>3, <3>2, <3>5 DEF Fits, Serves
    <3> QED
      BY <1>5, <2>5, <3>4, <3>6 DEF Quiet
  <2> QED
    BY <2>4, <2>5 DEF FlowControlled
<1> QED
  BY <1>3, <1>7, <1>8

(* Packets keep the readers within the stream.                              *)
LEMMA PacketReads ==
  ASSUME Inv, NEW pk \in wire, CP!RecvData(pk)
  PROVE  /\ rd'[pk.sid].st = rd[pk.sid].st
         /\ rd'[pk.sid].next \in Nat /\ rd'[pk.sid].next >= rd[pk.sid].next
         /\ rd'[pk.sid].next <= total
         /\ Quiet(pk.sid) => rd'[pk.sid].next = rd[pk.sid].next
         /\ \A p \in rd'[pk.sid].ooo : InStream(p)
         /\ rd'[pk.sid].eof => term # "none" /\ rd'[pk.sid].next = total
         /\ rd[pk.sid].eof => rd'[pk.sid].eof /\ rd'[pk.sid].buf = rd[pk.sid].buf
         /\ \A a \in acks' \ acks : /\ a.sid = pk.sid /\ a.seq <= total
                                    /\ a.cancel \/ a.seq <= rd'[pk.sid].next
<1> USE DEF Inv
<1> DEFINE s == pk.sid
<1>1. /\ pk \in CP!Packet /\ s \in Streams /\ pk.seq \in Nat /\ pk.len \in Nat /\ total \in Nat
      /\ InStream(pk)
  BY Fields, StateFacts DEF Halves, Wire
<1>2. /\ rd[s].next \in Nat /\ rd[s].next <= total /\ rd[s].ooo \subseteq CP!Packet
      /\ \A p \in rd[s].ooo : InStream(p)
      /\ rd[s].eof => term # "none" /\ rd[s].next = total
  BY <1>1, ReaderFacts DEF Readers
<1>3. rd'[s].st = rd[s].st /\ (CP!LeavesReader(pk) \/ \E to \in Nat : CP!TakesIn(pk, to))
  BY <1>1, Constants, CP!PacketEffect DEF Halves, CP!Inv
<1>4. pk.seq <= total
  BY <1>1 DEF InStream
<1>5. CASE CP!LeavesReader(pk)
  BY <1>1, <1>2, <1>3, <1>4, <1>5 DEF CP!LeavesReader
<1>6. CASE \E to \in Nat : CP!TakesIn(pk, to)
  <2>1. PICK to \in Nat : CP!TakesIn(pk, to)
    BY <1>6
  <2>2. /\ pk.seq = rd[s].next /\ pk.seq <= to /\ (pk.kind # "data" => to = pk.seq)
        /\ to = pk.seq + pk.len \/ \E p \in rd[s].ooo : p.kind = "data" /\ to <= p.seq + p.len
        /\ rd'[s].next = to /\ rd'[s].ooo \subseteq rd[s].ooo
        /\ rd'[s].eof => \E p \in rd[s].ooo \cup {pk} : p.kind = "eof" /\ p.seq = to
        /\ \A a \in acks' \ acks : a.sid = s /\ a.seq = to
        /\ ~rd[s].eof
    BY <2>1 DEF CP!TakesIn, CP!Listening
  <2>3. to <= total
    <3>1. \A p \in rd[s].ooo : p.seq + p.len \in Nat /\ p.seq + p.len <= total
      BY <1>2, Fields DEF InStream
    <3>2. pk.seq + pk.len <= total
      BY <1>1 DEF InStream
    <3> QED
      BY <1>1, <2>2, <3>1, <3>2
  <2>4. rd'[s].eof => term # "none" /\ to = total
    BY <1>1, <1>2, <2>2 DEF InStream
  <2>5. Quiet(s) => pk.kind # "data"
    BY DEF Quiet, Data
  <2> QED
    BY <1>1, <1>2, <1>3, <2>2, <2>3, <2>4, <2>5
<1> QED
  BY <1>3, <1>5, <1>6
(* A packet arrives.                                                        *)
LEMMA DeliverDataKept == ASSUME Inv, DeliverData PROVE Inv'
<1> USE DEF Inv
<1>1. PICK pk \in wire : CP!RecvData(pk) /\ wire' = wire \ {pk} /\ UNCHANGED <<mgrVars, jmVars, rpcVars>>
  BY LocalActions DEF DeliverData
<1> DEFINE s == pk.sid
<1>2. pk \in CP!Packet /\ s \in Streams /\ rd[s].next \in Nat /\ total \in Nat
  BY Fields, StateFacts, ReaderFacts DEF Halves
<1>3. /\ LocalStep /\ UNCHANGED <<total, term, connected, joining, streamId, termAcked>>
      /\ UNCHANGED <<attached, client, pending, serving, req, reply>>
      /\ UNCHANGED <<loop, cur, att, used, file, gap, disk, streamDone, streamErr, link>>
  BY <1>1 DEF LocalStep, mgrVars, jmVars, rpcVars, CP!RecvData, CP!fileVars, CP!jobVars
<1>4. s \in used
  BY <1>2 DEF Unmade, HeardOf
<1>5. CP!Inv'
  <2>1. ~CP!Corked(pk)
    <3>1. SUFFICES ASSUME CP!Corked(pk) PROVE FALSE
      OBVIOUS
    <3>2. Quiet(s) /\ pk.kind = "data"
      BY <1>2, <3>1 DEF CP!Corked, Corks, Corked, Corking
    <3> QED
      BY <3>2 DEF Quiet, Data
  <2> QED
    BY <1>1, <1>2, <2>1, Constants, CP!RecvKept DEF Halves
<1>6. Halves' /\ Wire'
  BY <1>3, <1>5, LocalKeeps DEF Halves
<1>7. \A t \in Streams \ {s} : rd'[t] = rd[t]
  BY <1>1, <1>2, Constants, CP!PacketEffect DEF Halves, CP!Inv
<1>8. /\ rd'[s].st = rd[s].st
      /\ rd'[s].next \in Nat /\ rd'[s].next >= rd[s].next /\ rd'[s].next <= total
      /\ Quiet(s) => rd'[s].next = rd[s].next
      /\ \A p \in rd'[s].ooo : InStream(p)
      /\ rd'[s].eof => term # "none" /\ rd'[s].next = total
      /\ rd[s].eof => rd'[s].eof /\ rd'[s].buf = rd[s].buf
      /\ \A a \in acks' \ acks : a.sid = s /\ a.seq <= total /\ (a.cancel \/ a.seq <= rd'[s].next)
  BY <1>1, PacketReads
<1>9. /\ Len(rd'[s].buf) <= RWnd
      /\ CP!Listening(s)' => FlowControlled(s)'
      /\ Quiet(s) => Quiet(s)'
  BY <1>1, PacketFlows
<1> HIDE DEF s
<1>10. \A t \in Streams : /\ rd'[t].st = rd[t].st /\ rd'[t].next \in Nat
                          /\ rd[t].next \in Nat /\ rd'[t].next >= rd[t].next
  BY <1>7, <1>8, ReaderFacts
<1>11. Calling' /\ Serving' /\ Unmade'
  <2>1. \A a \in acks' \ acks : a.sid \in used
    BY <1>4, <1>8
  <2>2. termAcked \in BOOLEAN
    BY StateFacts
  <2>3. \A t \in Streams : \/ rd'[t].st = "none"
                           \/ rd[t].st # "none" /\ rd'[t].next \in Nat /\ rd'[t].next >= rd[t].next
    BY <1>10
  <2> QED
    BY <1>1, <1>3, <2>1, <2>2, <2>3, CallsKept
<1>12. Asked'
  <2>1. att.pc = "update" => rd'[att.sid].next = rd[att.sid].next
    <3>1. att.pc = "update" => att.sid \in Streams /\ Quiet(att.sid)
      BY StateFacts DEF Corks, Corked, Corking
    <3> QED
      BY <1>7, <1>8, <3>1
  <2> QED
    BY <1>2, <1>3, <2>1, AskedKept
<1>13. Readers'
  BY <1>3, <1>7, <1>8 DEF Readers, InStream
<1>14. Acks'
  <2>1. ASSUME NEW a \in acks' PROVE a.seq <= total' /\ (a.cancel \/ NotPast(a.sid, a.seq)')
    <3>1. CASE a \in acks
      <4>1. a.sid \in Streams /\ a.seq \in Nat /\ a.seq <= total /\ (a.cancel \/ NotPast(a.sid, a.seq))
        BY <3>1, StateFacts, Fields DEF Acks
      <4> QED
        BY <1>3, <1>10, <4>1 DEF NotPast
    <3>2. CASE a \notin acks
      BY <1>3, <1>8, <3>2 DEF NotPast
    <3> QED
      BY <3>1, <3>2
  <2> QED
    BY <2>1 DEF Acks
<1>15. Files'
  BY <1>3 DEF Files, ResumesAt, Ctl!ResumePos
<1>16. Loops'
  BY <1>3, <1>7, <1>8 DEF Loops, ResumesAt, Ctl!ResumePos
<1>17. ASSUME NEW t \in Streams, t # s PROVE Left(t)
  BY <1>7, <1>8, <1>17 DEF Left, CP!SameReader, CP!Listening
<1>18. Corks'
  <2>1. \A t \in Streams : Corked(t)' => Corked(t)
    BY <1>3 DEF Corked, Corking
  <2> QED
    BY <1>3, <1>9, <1>17, <2>1, LeftAlone DEF Corks
<1>19. Windows'
  <2>1. WindowKept'
    BY <1>7, <1>9 DEF Windows, WindowKept
  <2>2. ASSUME NEW t \in Streams, CP!Listening(t)' PROVE FlowControlled(t)'
    <3>1. CASE t = s
      BY <1>9, <2>2, <3>1
    <3>2. CASE t # s
      <4>1. CP!Listening(t) /\ FlowControlled(t)
        BY <1>7, <2>2, <3>2 DEF CP!Listening, Windows
      <4> QED
        BY <1>3, <1>17, <2>2, <3>2, <4>1, LeftAlone
    <3> QED
      BY <3>1, <3>2
  <2> QED
    BY <2>1, <2>2 DEF Windows
<1> QED
  BY <1>6, <1>11, <1>12, <1>13, <1>14, <1>15, <1>16, <1>18, <1>19
-----------------------------------------------------------------------------
(* The steps of wavesrv: attempts and loops.                                *)

(* A step that leaves every stream alone and makes no call.                 *)
LEMMA LeftStep ==
  ASSUME Inv, LocalStep, CP!Inv', Files', Loops', \A s \in Streams : Left(s),
         UNCHANGED <<used, req, reply>>, att' = att \/ att'.pc = "idle",
         \A a \in acks' \ acks : /\ a.sid \in Streams /\ rd[a.sid].st # "none"
                                 /\ a.cancel /\ a.seq = rd[a.sid].next
  PROVE  Inv'
<1> USE DEF Inv
<1>1. /\ UNCHANGED <<total, term, connected, joining, streamId, termAcked>> /\ wire' \subseteq wire
      /\ UNCHANGED <<attached, client, pending, serving>>
  BY DEF LocalStep, mgrVars, jmVars
<1>2. total \in Nat /\ termAcked \in BOOLEAN /\ (att.pc # "idle" => att.sid \in Streams)
  BY StateFacts
<1>3. \A s \in Streams : /\ rd[s].next \in Nat /\ rd'[s].next = rd[s].next
                         /\ rd'[s].st = "none" <=> rd[s].st = "none"
  BY ReaderFacts DEF Left, CP!SameReader
<1>4. Halves' /\ Wire'
  BY LocalKeeps DEF Halves
<1>5. Calling' /\ Serving' /\ Unmade'
  <2>1. \A a \in acks' \ acks : a.sid \in used
    BY DEF Unmade
  <2>2. \A s \in Streams : \/ rd'[s].st = "none"
                           \/ rd[s].st # "none" /\ rd'[s].next \in Nat /\ rd'[s].next >= rd[s].next
    BY <1>3
  <2> QED
    BY <1>1, <1>2, <2>1, <2>2, CallsKept
<1>6. Asked'
  BY <1>1, <1>2, <1>3, AskedKept
<1>7. Readers' /\ Acks' /\ Corks' /\ Windows'
  <2>1. \A s \in Streams : Corked(s)' => Corked(s)
    BY <1>1 DEF Corked, Corking
  <2> QED
    BY <2>1, AllLeft
<1> QED
  BY <1>4, <1>5, <1>6, <1>7

(* A step that closes readers.                                              *)
LEMMA ClosingStep ==
  ASSUME Inv, UNCHANGED <<mgrVars, wire, jmVars, rpcVars>>, CP!Inv', Loops',
         NEW ss, rd' = CP!CloseReaders(rd, ss), CP!Send(CP!CloseAcks(rd, ss)),
         UNCHANGED <<used, file, gap, disk>>, att' = att \/ att'.pc = "idle"
  PROVE  Inv'
<1>1. /\ \A s \in Streams : CP!SameReader(s)
      /\ \A s \in ss \cap Streams : ~CP!Listening(s)'
      /\ \A a \in acks' \ acks : /\ a.sid \in ss \cap Streams /\ rd[a.sid].st = "open"
                                 /\ a.cancel /\ a.seq = rd[a.sid].next
  BY Constants, CP!ClosingEffect DEF Inv, Halves, CP!Inv
<1>2. \A s \in Streams : Left(s)
  BY <1>1 DEF Left
<1>3. LocalStep /\ UNCHANGED <<req, reply, total>>
  BY DEF LocalStep, rpcVars, mgrVars
<1>4. Files'
  BY <1>3 DEF Files, ResumesAt, Ctl!ResumePos, Inv
<1> QED
  BY <1>1, <1>2, <1>3, <1>4, LeftStep

(* Loops that stay as they are.                                             *)
LEMMA LoopsKept ==
  ASSUME Loops, \A s \in Streams : rd'[s].eof = rd[s].eof /\ rd'[s].buf = rd[s].buf,
         UNCHANGED <<total, term, file, gap>>,
         \A s \in Streams : \/ loop'[s] = loop[s]
                            \/ loop[s].why = "none" /\ loop'[s].why = "none"
                            \/ loop'[s].pc = "done" /\ loop'[s].hand = <<>>
  PROVE  Loops'
<1>1. ResumesAt' = ResumesAt
  BY DEF ResumesAt, Ctl!ResumePos
<1> QED
  BY <1>1 DEF Loops

(* What a call that returns leaves.                                         *)
LEMMA ReturnStep ==
  ASSUME Inv, UNCHANGED <<mgrVars, wire, jmVars, rpcVars>>, CP!Inv',
         NEW ss, CP!Return(ss), UNCHANGED <<used, file, gap, disk>>,
         \A s \in Streams : \/ loop'[s] = loop[s]
                            \/ loop[s].why = "none" /\ loop'[s].why = "none"
  PROVE  Inv'
<1>1. att' = CP!NoAttempt /\ rd' = CP!CloseReaders(rd, ss) /\ CP!Send(CP!CloseAcks(rd, ss))
  BY DEF CP!Return
<1>2. \A s \in Streams : CP!SameReader(s)
  BY <1>1, Constants, CP!ClosingEffect DEF Inv, Halves, CP!Inv
<1>3. UNCHANGED <<total, term>>
  BY DEF mgrVars
<1>4. Loops'
  BY <1>2, <1>3, LoopsKept DEF Inv, CP!SameReader
<1>5. att'.pc = "idle"
  BY <1>1, CP!NoAttemptTyped
<1> QED
  BY <1>1, <1>4, <1>5, ClosingStep

(* An attempt that failed: its reader is closed, and nothing of it goes on. *)
LEMMA FailedKept ==
  ASSUME Inv, UNCHANGED <<mgrVars, wire, jmVars, rpcVars>>,
         Ctl!Failed \/ \E err \in BOOLEAN : Ctl!AlreadyDone(err)
  PROVE  Inv'
<1>1. CP!Failed \/ \E err \in BOOLEAN : CP!AlreadyDone(err)
  BY LocalActions
<1>2. CP!Inv'
  BY <1>1, Constants, CP!NotStartedKept DEF Inv, Halves
<1>3. CP!Return({att.sid, att.old}) /\ UNCHANGED <<loop, used, file, gap, disk>>
  BY <1>1 DEF CP!Failed, CP!AlreadyDone, CP!fileVars
<1> QED
  BY <1>2, <1>3, ReturnStep

(* StartStream was answered: the attempt ends and its loop starts.          *)
LEMMA StartedKept ==
  ASSUME Inv, UNCHANGED <<mgrVars, wire, jmVars, rpcVars>>, Ctl!Started
  PROVE  Inv'
<1>1. CP!Started
  BY LocalActions
<1>2. CP!Inv'
  BY <1>1, Constants, CP!StartedKept DEF Inv, Halves
<1>3. /\ CP!Return({att.old}) /\ UNCHANGED <<used, file, gap, disk>>
      /\ loop' = [loop EXCEPT ![att.sid].pc = "read"] /\ att.pc # "idle"
  BY <1>1 DEF CP!Started, CP!StartLoop, CP!fileVars
<1>4. /\ loop \in [Streams -> CP!LoopType] /\ att.sid \in Streams /\ loop[att.sid].pc = "none"
  BY <1>3, StateFacts DEF Inv, Halves, CP!Inv, CP!Attempting
<1>5. loop[att.sid] \in CP!LoopType /\ loop[att.sid].why = "none"
  BY <1>4 DEF Inv, Loops
<1>6. loop'[att.sid].why = "none"
  BY <1>3, <1>4, <1>5 DEF CP!LoopType
<1>7. \A s \in Streams : s # att.sid => loop'[s] = loop[s]
  BY <1>3, <1>4
<1> QED
  BY <1>2, <1>3, <1>5, <1>6, <1>7, ReturnStep

(* A loop that ends closes its reader.                                      *)
LEMMA EndLoopKept ==
  ASSUME Inv, NEW s \in Streams, UNCHANGED <<mgrVars, wire, jmVars, rpcVars>>,
         Ctl!LoopSuperseded(s) \/ Ctl!LoopFinish(s)
  PROVE  Inv'
<1>1. CP!LoopSuperseded(s) \/ CP!LoopFinish(s)
  BY LocalActions
<1>2. CP!Inv'
  BY <1>1, Constants, CP!EndLoopKept DEF Inv, Halves
<1>3. /\ rd' = CP!CloseReaders(rd, {s}) /\ CP!Send(CP!CloseAcks(rd, {s}))
      /\ loop' = [loop EXCEPT ![s] = [pc |-> "done", hand |-> <<>>, why |-> @.why]]
      /\ UNCHANGED <<att, used, file, gap, disk>>
  BY <1>1 DEF CP!LoopSuperseded, CP!LoopFinish, CP!EndLoop, CP!fileVars
<1>4. \A t \in Streams : CP!SameReader(t)
  BY <1>3, Constants, CP!ClosingEffect DEF Inv, Halves, CP!Inv
<1>5. loop \in [Streams -> CP!LoopType]
  BY StateFacts DEF Inv
<1>6. \A t \in Streams : loop'[t] = loop[t] \/ (loop'[t].pc = "done" /\ loop'[t].hand = <<>>)
  BY <1>3, <1>5
<1>7. UNCHANGED <<total, term>>
  BY DEF mgrVars
<1>8. Loops'
  BY <1>3, <1>4, <1>6, <1>7, LoopsKept DEF Inv, CP!SameReader
<1> QED
  BY <1>2, <1>3, <1>8, ClosingStep

(* A read that ends takes nothing, and sees the end of the stream only with *)
(* nothing left in the reader.                                              *)
LEMMA ReadEndKept ==
  ASSUME Inv, NEW s \in Streams, UNCHANGED <<mgrVars, wire, jmVars, rpcVars>>, Ctl!LoopReadEnd(s)
  PROVE  Inv'
<1> USE DEF Inv
<1>1. CP!LoopReadEnd(s)
  BY LocalActions
<1>2. CP!Inv'
  BY <1>1, Constants, CP!ReadEndKept DEF Halves
<1>3. /\ loop[s].pc = "read" /\ (rd[s].err \/ (rd[s].buf = <<>> /\ rd[s].eof))
      /\ loop' = [loop EXCEPT ![s].pc = "append", ![s].why = IF rd[s].err THEN "err" ELSE "eof"]
      /\ UNCHANGED <<rd, acks, att, used, file, gap, disk>>
  BY <1>1 DEF CP!LoopReadEnd, CP!fileVars
<1>4. loop \in [Streams -> CP!LoopType] /\ loop[s].hand = <<>>
  BY <1>3, StateFacts DEF Halves, CP!Inv, CP!Hands
<1>5. /\ loop'[s].pc = "append" /\ loop'[s].hand = <<>>
      /\ loop'[s].why = "eof" => rd[s].buf = <<>> /\ rd[s].eof
      /\ \A t \in Streams \ {s} : loop'[t] = loop[t]
  <2>1. loop[s] \in CP!LoopType
    BY <1>4
  <2> QED
    BY <1>3, <1>4, <2>1 DEF CP!LoopType
<1>6. UNCHANGED <<total, term, req, reply>> /\ LocalStep
  BY DEF mgrVars, rpcVars, LocalStep
<1>7. ResumesAt' = ResumesAt
  BY <1>3 DEF ResumesAt, Ctl!ResumePos
<1>8. Loops' /\ Files'
  <2>1. ASSUME NEW t \in Streams
        PROVE  /\ loop'[t].pc \in {"none", "read"} => loop'[t].why = "none"
               /\ loop'[t].why # "none" => loop'[t].hand = <<>>
               /\ loop'[t].pc = "append" /\ loop'[t].why = "eof" => rd'[t].eof /\ rd'[t].buf = <<>>
               /\ loop'[t].pc = "finish" /\ loop'[t].why = "eof" => term' # "none" /\ ResumesAt' = total'
    <3>1. CASE t = s
      BY <1>3, <1>5, <3>1
    <3>2. CASE t # s
      <4>1. loop'[t] = loop[t] /\ rd' = rd
        BY <1>3, <1>5, <3>2
      <4> QED
        BY <1>6, <1>7, <4>1 DEF Loops
    <3> QED
      BY <3>1, <3>2
  <2> QED
    BY <1>3, <1>6, <1>7, <2>1 DEF Loops, Files
<1>9. \A t \in Streams : Left(t)
  BY <1>3 DEF Left, CP!SameReader, CP!Listening
<1> QED
  BY <1>2, <1>3, <1>6, <1>8, <1>9, LeftStep

(* What the loop of the current stream has in hand comes next in the file,  *)
(* and was received.                                                        *)
LEMMA InHand ==
  ASSUME Inv, NEW s \in Streams, cur = s, loop[s].pc = "append"
  PROVE  /\ loop[s].hand \in CP!Bytes /\ CP!Run(loop[s].hand, ResumesAt)
         /\ Len(loop[s].hand) \in Nat /\ Len(rd[s].buf) \in Nat /\ ResumesAt \in Nat
         /\ rd[s].next = ResumesAt + (Len(loop[s].hand) + Len(rd[s].buf))
         /\ rd[s].next <= total
<1> USE DEF Inv
<1>1. /\ loop[s].hand \in CP!Bytes /\ rd[s].buf \in CP!Bytes
      /\ Len(CP!InFlight(s)) = Len(loop[s].hand) + Len(rd[s].buf)
  BY CP!StreamFacts DEF Halves, CP!Inv
<1>2. Len(loop[s].hand) \in Nat /\ Len(rd[s].buf) \in Nat
  BY <1>1, LenProperties DEF CP!Bytes
<1>3. ResumesAt \in Nat /\ ResumesAt = CP!ResumePos /\ rd[s].next <= total
  BY StateFacts DEF Readers
<1>4. att.pc = "idle" /\ cur # NoStream
  BY Constants DEF Halves, CP!Inv, CP!Attempting
<1>5. rd[s].next = ResumesAt + (Len(loop[s].hand) + Len(rd[s].buf))
  BY <1>1, <1>3, <1>4 DEF Halves, CP!Inv, CP!NextByteFollows
<1>6. CP!Run(loop[s].hand \o rd[s].buf, ResumesAt)
  BY <1>3, <1>4 DEF Halves, CP!Inv, CP!NextByteFollows, CP!InFlight, CP!Run
<1>7. CP!Run(loop[s].hand, ResumesAt)
  BY <1>1, <1>3, <1>6, CP!RunSplit
<1> QED
  BY <1>1, <1>2, <1>3, <1>5, <1>7

(* What is stored was received: the file's position stays behind its        *)
(* reader's, and an end of the stream finds the two equal.                  *)
LEMMA AppendKept ==
  ASSUME Inv, NEW s \in Streams, UNCHANGED <<mgrVars, wire, jmVars, rpcVars>>, Ctl!LoopAppend(s)
  PROVE  Inv'
<1> USE DEF Inv
<1> DEFINE h == Len(loop[s].hand)
           b == Len(rd[s].buf)
<1>1. CP!LoopAppend(s)
  BY LocalActions
<1>2. CP!Inv'
  BY <1>1, Constants, CP!AppendKept DEF Halves
<1>3. /\ loop[s].pc = "append" /\ cur = s /\ file' = file \o loop[s].hand
      /\ loop' = [loop EXCEPT ![s].pc = IF loop[s].why = "none" THEN "read" ELSE "finish",
                              ![s].hand = <<>>]
      /\ UNCHANGED <<rd, acks, gap, disk, att, used>>
  BY <1>1 DEF CP!LoopAppend
<1>4. /\ loop \in [Streams -> CP!LoopType] /\ loop[s] \in CP!LoopType /\ loop[s].hand \in CP!Bytes
      /\ file \in CP!Bytes /\ total \in Nat /\ rd[s].next \in Nat /\ h \in Nat /\ b \in Nat
      /\ ResumesAt \in Nat /\ gap \in Nat /\ Len(file) \in Nat
  <2>1. file \in CP!Bytes
    BY DEF Halves, CP!Inv, CP!TypeOK
  <2> QED
    BY <1>3, <2>1, StateFacts, ReaderFacts, InHand
<1>6. rd[s].next = ResumesAt + (h + b) /\ rd[s].next <= total
  BY <1>3, InHand
<1>7. ResumesAt' = ResumesAt + h
  <2>1. Len(file') = Len(file) + h
    BY <1>3, <1>4, CP!RunJoined
  <2> HIDE DEF h
  <2> QED
    BY <1>3, <1>4, <2>1 DEF ResumesAt, Ctl!ResumePos
<1>8. loop[s].why = "eof" => h = 0 /\ b = 0 /\ term # "none" /\ rd[s].next = total
  BY <1>3, CP!NothingRuns DEF Loops, Readers
<1>9. UNCHANGED <<total, term, req, reply>> /\ LocalStep
  BY DEF mgrVars, rpcVars, LocalStep
<1> HIDE DEF h, b
<1>10. ResumesAt' <= total' /\ ResumesAt' >= ResumesAt
       /\ (loop[s].why = "eof" => ResumesAt' = total /\ term # "none")
  BY <1>4, <1>6, <1>7, <1>8, <1>9
<1>11. Files'
  BY <1>3, <1>9, <1>10 DEF Files
<1>12. /\ loop'[s].pc = (IF loop[s].why = "none" THEN "read" ELSE "finish")
       /\ loop'[s].hand = <<>> /\ loop'[s].why = loop[s].why
       /\ \A t \in Streams \ {s} : loop'[t] = loop[t]
  BY <1>3, <1>4 DEF CP!LoopType
<1>13. Loops'
  <2>1. ASSUME NEW t \in Streams, loop'[t].pc = "finish", loop'[t].why = "eof"
        PROVE  term' # "none" /\ ResumesAt' = total'
    <3>1. CASE t = s
      BY <1>9, <1>10, <1>12, <2>1, <3>1
    <3>2. CASE t # s
      <4>1. term # "none" /\ ResumesAt = total
        BY <1>12, <2>1, <3>2 DEF Loops
      <4>2. ResumesAt' \in Nat
        BY <1>4, <1>7, <1>10
      <4> QED
        BY <1>4, <1>9, <1>10, <4>1, <4>2
    <3> QED
      BY <3>1, <3>2
  <2>2. ASSUME NEW t \in Streams
        PROVE  /\ loop'[t].pc \in {"none", "read"} => loop'[t].why = "none"
               /\ loop'[t].why # "none" => loop'[t].hand = <<>>
               /\ loop'[t].pc = "append" /\ loop'[t].why = "eof" => rd'[t].eof /\ rd'[t].buf = <<>>
    <3>1. CASE t = s
      BY <1>12, <3>1
    <3>2. CASE t # s
      <4>1. loop'[t] = loop[t] /\ rd' = rd
        BY <1>3, <1>12, <3>2
      <4> QED
        BY <4>1 DEF Loops
    <3> QED
      BY <3>1, <3>2
  <2> QED
    BY <2>1, <2>2 DEF Loops
<1>14. \A t \in Streams : Left(t)
  BY <1>3 DEF Left, CP!SameReader, CP!Listening
<1> QED
  BY <1>2, <1>3, <1>9, <1>11, <1>13, <1>14, LeftStep

(* A flush.                                                                 *)
LEMMA FlushKept ==
  ASSUME Inv, UNCHANGED <<mgrVars, wire, jmVars, rpcVars>>, Ctl!Flush
  PROVE  Inv'
<1> USE DEF Inv
<1>1. CP!Flush
  BY LocalActions
<1>2. CP!Inv'
  BY <1>1, Constants, CP!FlushKept DEF Halves
<1>3. /\ disk' = [len |-> Len(file), gap |-> gap] /\ UNCHANGED <<rd, acks, loop, att, used, file, gap>>
  BY <1>1 DEF CP!Flush
<1>4. UNCHANGED <<total, term, req, reply>> /\ LocalStep
  BY DEF mgrVars, rpcVars, LocalStep
<1>5. Files' /\ Loops'
  BY <1>3, <1>4 DEF Files, Loops, ResumesAt, Ctl!ResumePos
<1>6. \A t \in Streams : Left(t)
  BY <1>3 DEF Left, CP!SameReader, CP!Listening
<1> QED
  BY <1>2, <1>3, <1>4, <1>5, <1>6, LeftStep

(* A connection that dies takes packets and ACKs with it.                   *)
LEMMA LinkDownKept == ASSUME Inv, LinkDown PROVE Inv'
<1> USE DEF Inv
<1>1. /\ link' = NoStream /\ wire' \subseteq wire /\ acks' \subseteq acks
      /\ UNCHANGED <<mgrVars, rd, loop, cur, att, used, file, gap, disk, streamDone, streamErr,
                     jmVars, rpcVars>>
  BY DEF LinkDown
<1>2. CP!Inv'
  <2>1. link' \in CP!MaybeStream
    BY <1>1 DEF CP!MaybeStream
  <2> QED
    BY <1>1, <2>1, CP!LinkDownKept DEF Halves
<1>3. UNCHANGED <<total, term, req, reply>> /\ LocalStep
  BY <1>1 DEF mgrVars, rpcVars, LocalStep
<1>4. Files' /\ Loops'
  BY <1>1, <1>3 DEF Files, Loops, ResumesAt, Ctl!ResumePos
<1>5. \A t \in Streams : Left(t)
  BY <1>1 DEF Left, CP!SameReader, CP!Listening
<1> QED
  BY <1>1, <1>2, <1>3, <1>4, <1>5, LeftStep

(* A crash leaves no reader, and the file where it was flushed.             *)
LEMMA CrashKept == ASSUME Inv, Crash PROVE Inv'
<1> USE DEF Inv
<1>1. CP!Crash /\ wire' = {} /\ UNCHANGED <<mgrVars, jmVars, rpcVars>>
  BY LocalActions DEF Crash
<1>2. CP!Inv'
  BY <1>1, Constants, CP!CrashKept DEF Halves
<1>3. /\ rd' = [s \in Streams |-> CP!Reader("none", 0)] /\ loop' = [s \in Streams |-> CP!NoLoop]
      /\ att' = CP!NoAttempt /\ file' = SubSeq(file, 1, disk.len) /\ gap' = disk.gap
      /\ UNCHANGED <<used, disk, acks>>
  BY <1>1 DEF CP!Crash
<1>4. /\ UNCHANGED <<total, term, connected, joining, streamId, termAcked, rwnd, sent>> /\ LocalStep
      /\ UNCHANGED <<attached, client, pending, serving, req, reply>>
  BY <1>1 DEF mgrVars, jmVars, rpcVars, LocalStep
<1>5. att'.pc = "idle"
  BY <1>3, CP!NoAttemptTyped
<1>6. \A s \in Streams : /\ rd'[s].st = "none" /\ rd'[s].next = 0 /\ rd'[s].buf = <<>>
                         /\ rd'[s].ooo = {} /\ ~rd'[s].eof /\ ~CP!Listening(s)'
                         /\ loop'[s].pc = "none" /\ loop'[s].why = "none"
  BY <1>3 DEF CP!Reader, CP!NoLoop, CP!Listening
<1>7. Halves' /\ Wire'
  BY <1>2, <1>4, LocalKeeps DEF Halves
<1>8. total \in Nat /\ termAcked \in BOOLEAN /\ acks \subseteq CP!AckType
  BY StateFacts
<1>9. Calling' /\ Serving' /\ Unmade'
  BY <1>1, <1>3, <1>4, <1>5, <1>6, <1>8, CallsKept
<1>10. Asked'
  BY <1>4, <1>5, <1>8, AskedKept
<1>11. Readers'
  BY <1>4, <1>6, <1>8 DEF Readers
<1>12. Acks'
  <2>1. \A a \in acks : a.sid \in Streams
    BY <1>8, Fields
  <2> QED
    BY <1>3, <1>4, <1>6, <2>1 DEF Acks, NotPast
<1>13. Files'
  <2>1. Len(file') = disk.len
    <3>1. disk.len \in 0 .. Len(file) /\ file \in CP!Bytes
      BY CP!ResumeFacts DEF Halves, CP!Inv, CP!Ordered, CP!ResumePastFile, CP!TypeOK
    <3> QED
      BY <1>3, <3>1, CP!Cut
  <2> QED
    BY <1>3, <1>4, <2>1 DEF Files, ResumesAt, Ctl!ResumePos
<1>14. Loops'
  BY <1>6 DEF Loops
<1>15. Corks'
  <2>1. \A s \in Streams : Corked(s)' => Corked(s)
    BY <1>4, <1>5 DEF Corked, Corking
  <2>2. \A s \in Streams : Data(s)' = {}
    BY <1>1, <1>6 DEF Data
  <2> QED
    BY <1>4, <1>6, <2>1, <2>2 DEF Corks, Quiet
<1>16. Windows'
  BY <1>6, EmptySeq, Constants DEF Windows, WindowKept
<1> QED
  BY <1>7, <1>9, <1>10, <1>11, <1>12, <1>13, <1>14, <1>15, <1>16

(* A read makes room in its reader, and advertises no more than there is.   *)
LEMMA ReadDataKept ==
  ASSUME Inv, NEW s \in Streams, UNCHANGED <<mgrVars, wire, jmVars, rpcVars>>, Ctl!LoopReadData(s)
  PROVE  Inv'
<1> USE DEF Inv
<1> DEFINE n == rd[s].next
           b == Len(rd[s].buf)
           c == Len(rd'[s].buf)
<1>1. CP!LoopReadData(s)
  BY LocalActions
<1>2. CP!Inv'
  BY <1>1, Constants, CP!ReadDataKept DEF Halves
<1>3. /\ \A t \in Streams \ {s} : rd'[t] = rd[t] /\ loop'[t] = loop[t]
      /\ rd'[s].next = n /\ rd'[s].ooo = rd[s].ooo /\ rd'[s].eof = rd[s].eof
      /\ rd'[s].st = rd[s].st /\ rd'[s].err = rd[s].err
      /\ rd[s].buf # <<>> /\ c <= b
      /\ loop[s].pc = "read" /\ loop'[s].pc = "append" /\ loop'[s].why = loop[s].why
      /\ \A a \in acks' \ acks : a.sid = s /\ ~a.cancel /\ a.seq = n /\ a.rwnd = CP!FreeWindow(rd'[s])
  BY <1>1, Constants, CP!ReadDataEffect DEF Halves, CP!Inv
<1>4. UNCHANGED <<cur, att, used, file, gap, disk>>
  BY <1>1 DEF CP!LoopReadData, CP!fileVars
<1>5. /\ UNCHANGED <<total, term, connected, joining, streamId, termAcked, wire>> /\ LocalStep
      /\ UNCHANGED <<attached, client, pending, serving, req, reply>>
      /\ UNCHANGED <<head, rwnd, sent>>
  BY DEF mgrVars, jmVars, rpcVars, LocalStep
<1>6. /\ n \in Nat /\ b \in Nat /\ c \in Nat /\ total \in Nat /\ RWnd \in Nat /\ termAcked \in BOOLEAN
      /\ acks \subseteq CP!AckType
  <2>1. rd'[s] \in CP!ReaderType
    BY <1>2 DEF CP!Inv, CP!TypeOK
  <2> QED
    BY <2>1, Fields, StateFacts, ReaderFacts, Constants
<1>7. s \in used
  BY <1>3 DEF Halves, CP!Inv, CP!Hands
<1>8. Halves' /\ Wire'
  BY <1>2, <1>5, LocalKeeps DEF Halves
<1>9. Calling' /\ Serving' /\ Unmade'
  <2>1. \A t \in Streams : \/ rd'[t].st = "none"
                           \/ rd[t].st # "none" /\ rd'[t].next \in Nat /\ rd'[t].next >= rd[t].next
    BY <1>3, ReaderFacts
  <2>2. \A a \in acks' \ acks : a.sid \in used
    BY <1>3, <1>7
  <2> QED
    BY <1>4, <1>5, <1>6, <2>1, <2>2, CallsKept
<1>10. Asked'
  <2>1. att.pc = "update" => rd'[att.sid].next = rd[att.sid].next
    BY <1>3, StateFacts
  <2> QED
    BY <1>4, <1>5, <1>6, <2>1, AskedKept
<1>11. \A t \in Streams : /\ rd'[t].next = rd[t].next /\ rd'[t].ooo = rd[t].ooo
                          /\ rd'[t].eof = rd[t].eof /\ rd'[t].st = rd[t].st
                          /\ (CP!Listening(t)' <=> CP!Listening(t))
  BY <1>3 DEF CP!Listening
<1>12. Readers'
  BY <1>5, <1>11 DEF Readers, InStream
<1>13. Acks'
  <2>1. ASSUME NEW a \in acks' PROVE a.seq <= total' /\ (a.cancel \/ NotPast(a.sid, a.seq)')
    <3>1. CASE a \in acks
      BY <1>5, <1>6, <1>11, <3>1, Fields DEF Acks, NotPast
    <3>2. CASE a \notin acks
      BY <1>3, <1>5, <1>6, <3>2 DEF Readers, NotPast
    <3> QED
      BY <3>1, <3>2
  <2> QED
    BY <2>1 DEF Acks
<1>14. Files'
  BY <1>4, <1>5 DEF Files, ResumesAt, Ctl!ResumePos
<1>15. Loops'
  <2>1. ResumesAt' = ResumesAt
    BY <1>4 DEF ResumesAt, Ctl!ResumePos
  <2>2. loop'[s].pc = "append" /\ loop'[s].why = "none"
    BY <1>3 DEF Loops
  <2> QED
    BY <1>3, <1>5, <2>1, <2>2 DEF Loops
<1>16. ASSUME NEW t \in Streams, t # s PROVE Left(t)
  BY <1>3, <1>11, <1>16 DEF Left, CP!SameReader
<1>17. Corks'
  <2>1. \A t \in Streams : Corked(t)' => Corked(t)
    BY <1>4, <1>5 DEF Corked, Corking
  <2>2. ~Corked(s)
    BY <1>3 DEF Corks, Quiet
  <2> QED
    BY <1>5, <1>16, <2>1, <2>2, LeftAlone DEF Corks
<1>18. WindowKept' /\ c <= RWnd
  <2>1. b <= RWnd
    BY DEF Windows, WindowKept
  <2>2. c <= RWnd
    BY <1>3, <1>6, <2>1
  <2> QED
    BY <1>3, <2>2 DEF Windows, WindowKept
<1>19. Edge(s) = n + RWnd - b /\ Edge(s)' = n + RWnd - c
  BY <1>3 DEF Edge
<1>20. Fits(s) => Fits(s)'
  <2> HIDE DEF n, b, c
  <2>1. Edge(s) <= Edge(s)' /\ Edge(s) \in Int /\ Edge(s)' \in Int
    BY <1>3, <1>6, <1>19
  <2>2. \A a \in acks' \ acks : a.seq + a.rwnd = Edge(s)'
    <3>1. \A a \in acks' \ acks : a.seq = n /\ a.rwnd = RWnd - c
      BY <1>3, <1>18 DEF CP!FreeWindow, c
    <3> QED
      BY <1>6, <1>19, <3>1
  <2>3. /\ \A p \in Data(s) : p.seq + p.len \in Int
        /\ \A a \in acks : a.seq + a.rwnd \in Int
        /\ head + rwnd \in Int
    <3>1. Data(s) \subseteq CP!Packet
      BY ReaderFacts DEF Data, Halves
    <3> QED
      BY <1>6, <3>1, Fields, StateFacts
  <2>4. Data(s)' = Data(s)
    BY <1>5, <1>11 DEF Data
  <2>5. ASSUME Fits(s) PROVE \A p \in Data(s)' : p.seq + p.len <= Edge(s)'
    BY <2>1, <2>3, <2>4, <2>5 DEF Fits
  <2>6. ASSUME Fits(s), NEW a \in acks', a.sid = s PROVE a.seq + a.rwnd <= Edge(s)'
    BY <2>1, <2>2, <2>3, <2>6 DEF Fits
  <2>7. ASSUME Fits(s), Serves(s)' PROVE (head + rwnd)' <= Edge(s)'
    BY <1>5, <2>1, <2>3, <2>7 DEF Fits, Serves
  <2> QED
    BY <2>5, <2>6, <2>7 DEF Fits
<1>21. CutOff(s) => CutOff(s)'
  BY <1>5, <1>11 DEF CutOff, Serves, Data
<1>22. Windows'
  <2>1. ASSUME NEW t \in Streams, CP!Listening(t)' PROVE FlowControlled(t)'
    <3>1. CP!Listening(t) /\ FlowControlled(t)
      BY <1>11, <2>1 DEF Windows
    <3>2. CASE t = s
      BY <1>20, <1>21, <3>1, <3>2 DEF FlowControlled
    <3>3. CASE t # s
      BY <1>5, <1>16, <2>1, <3>1, <3>3, LeftAlone
    <3> QED
      BY <3>2, <3>3
  <2> QED
    BY <1>18, <2>1 DEF Windows
<1> QED
  BY <1>8, <1>9, <1>10, <1>12, <1>13, <1>14, <1>15, <1>17, <1>22

-----------------------------------------------------------------------------
(* The steps of wavesrv: calls.                                             *)

(* A new stream: the job manager has not heard of it, and asks it for       *)
(* nothing past its reader.                                                 *)
LEMMA NewStreamKept ==
  ASSUME Inv, NEW s \in Streams, NEW pc \in {"start", "prepare"}, Ctl!NewStream(s, pc),
         NEW seq \in 0 .. ResumesAt, pc = "prepare" => seq = ResumesAt, pc = "start" => used = {},
         Call(pc, s, seq), UNCHANGED <<mgrVars, wire, jmVars>>
  PROVE  Inv'
<1> USE DEF Inv
<1>1. CP!NewStream(s, pc)
  BY LocalActions
<1>2. CP!Inv'
  BY <1>1, Constants, CP!NewStreamKept DEF Halves
<1>3. /\ att.pc = "idle" /\ s \notin used /\ used' = used \cup {s} /\ cur' = s
      /\ rd' = [rd EXCEPT ![s] = CP!Reader("open", ResumesAt)]
      /\ att' = [pc |-> pc, sid |-> s, old |-> cur, start |-> ResumesAt, gap |-> gap, seq |-> ResumesAt]
      /\ UNCHANGED <<loop, file, gap, disk, acks>>
  BY <1>1, StateFacts DEF CP!NewStream, CP!fileVars
<1>4. req' = [kind |-> pc, sid |-> s, seq |-> seq] /\ reply' = NoReq
  BY DEF Call
<1>5. /\ UNCHANGED <<total, term, connected, joining, streamId, termAcked, wire>> /\ LocalStep
      /\ UNCHANGED <<attached, client, pending, serving>>
      /\ UNCHANGED <<head, rwnd, sent>>
  BY DEF mgrVars, jmVars, LocalStep
<1>6. ~HeardOf(s) /\ rd[s].st = "none" /\ \A a \in acks : a.sid # s
  BY <1>3 DEF Unmade
<1>7. /\ ResumesAt \in Nat /\ ResumesAt' = ResumesAt /\ ResumesAt <= total /\ total \in Nat
      /\ seq \in Nat /\ seq <= ResumesAt /\ seq <= total /\ rd \in [Streams -> CP!ReaderType]
      /\ loop[s].pc = "none" /\ s \in Streams /\ s # NoStream
  <2>1. ResumesAt' = ResumesAt
    BY <1>3 DEF ResumesAt, Ctl!ResumePos
  <2>2. loop[s].pc = "none"
    BY <1>3 DEF Halves, CP!Inv, CP!Hands
  <2>3. ResumesAt \in Nat /\ ResumesAt <= total /\ total \in Nat
    BY StateFacts DEF Files
  <2> QED
    BY <2>1, <2>2, <2>3, StateFacts, Constants
<1>8. /\ rd'[s].st = "open" /\ rd'[s].next = ResumesAt /\ rd'[s].buf = <<>> /\ rd'[s].ooo = {}
      /\ ~rd'[s].eof
      /\ \A t \in Streams \ {s} : rd'[t] = rd[t]
  <2>1. rd'[s] = CP!Reader("open", ResumesAt) /\ \A t \in Streams \ {s} : rd'[t] = rd[t]
    BY <1>3, <1>7
  <2> QED
    BY <2>1 DEF CP!Reader
<1>9. \A t : HeardOf(t)' <=> HeardOf(t)
  BY <1>5 DEF HeardOf
<1>10. \A t, q : t # s => (NotPast(t, q)' <=> NotPast(t, q))
  <2>1. \A t : t # s => rd'[t] = rd[t]
    BY <1>3, <1>7
  <2> QED
    BY <2>1 DEF NotPast
<1>11. Halves' /\ Wire'
  BY <1>2, <1>5, LocalKeeps DEF Halves
<1>12. Calling'
  <2>1. pc = "start" => serving = Idle /\ streamId = NoStream
    <3>1. SUFFICES ASSUME pc = "start" PROVE serving = Idle /\ streamId = NoStream
      OBVIOUS
    <3>2. used = {}
      BY <3>1
    <3>3. serving = Idle
      BY <3>2 DEF Serving
    <3>4. streamId \notin Streams
      BY <3>2 DEF Unmade, HeardOf
    <3> QED
      BY <3>3, <3>4, StateFacts
  <2>2. NotPast(s, seq)'
    BY <1>7, <1>8 DEF NotPast
  <2>3. req'.kind = pc /\ req'.sid = s /\ req'.seq = seq /\ att'.pc = pc
    BY <1>3, <1>4
  <2> QED
    BY <1>3, <1>5, <1>6, <1>9, <2>1, <2>2, <2>3 DEF Calling
<1>13. serving.sid # s
  BY <1>6 DEF HeardOf
<1>14. Serving'
  <2>1. att'.sid = s
    BY <1>3
  <2> QED
    BY <1>3, <1>5, <1>10, <1>13, <2>1 DEF Serving
<1>15. Unmade'
  BY <1>3, <1>8, <1>9 DEF Unmade
<1>16. Asked'
  <2>1. req'.seq = seq /\ reply'.seq = 0 /\ reply'.kind = "none" /\ att'.pc = pc /\ att'.sid = s
        /\ att'.start = ResumesAt /\ req'.kind = pc
    BY <1>3, <1>4 DEF NoReq
  <2> QED
    BY <1>5, <1>7, <1>13, <2>1 DEF Asked
<1>17. Readers'
  <2>1. \A t \in Streams \ {s} : /\ rd'[t].next <= total' /\ (\A p \in rd'[t].ooo : InStream(p)')
                                 /\ (rd'[t].eof => term' # "none" /\ rd'[t].next = total')
    BY <1>5, <1>8 DEF Readers, InStream
  <2>2. /\ rd'[s].next <= total' /\ (\A p \in rd'[s].ooo : InStream(p)')
        /\ (rd'[s].eof => term' # "none" /\ rd'[s].next = total')
    BY <1>5, <1>7, <1>8
  <2> QED
    BY <2>1, <2>2 DEF Readers
<1>18. Acks'
  BY <1>3, <1>5, <1>6, <1>10 DEF Acks
<1>19. Files'
  BY <1>3, <1>5, <1>7 DEF Files
<1>20. Loops'
  <2>1. \A t \in Streams : loop[t].pc # "none" => rd'[t] = rd[t]
    BY <1>7, <1>8
  <2> QED
    BY <1>3, <1>5, <1>7, <2>1 DEF Loops
<1>21. ASSUME NEW t \in Streams, t # s PROVE Left(t)
  BY <1>3, <1>8, <1>21 DEF Left, CP!SameReader, CP!Listening
<1>22. Data(s)' = {} /\ streamId # s /\ s \notin attached
  BY <1>5, <1>6, <1>8 DEF Data, HeardOf
<1>23. Corks'
  <2>1. ASSUME NEW t \in Streams, t # s, Corked(t)' PROVE Corked(t)
    <3>1. att'.sid = s /\ req'.sid = s
      BY <1>3, <1>4
    <3> QED
      BY <1>5, <2>1, <3>1 DEF Corked, Corking
  <2>2. Quiet(s)'
    BY <1>3, <1>5, <1>6, <1>8, <1>22 DEF Quiet
  <2> QED
    BY <1>5, <1>21, <2>1, <2>2, LeftAlone DEF Corks
<1>24. Windows'
  <2>1. FlowControlled(s)'
    <3>1. \A a \in acks' : a.sid # s
      BY <1>3, <1>6
    <3>2. rd'[s].next \in Nat /\ head' \in Nat /\ ~Serves(s)'
      BY <1>5, <1>7, <1>8, <1>22, StateFacts DEF Serves
    <3> QED
      BY <1>8, <1>22, <3>1, <3>2, FirstFlow
  <2>2. WindowKept'
    BY <1>8, EmptySeq, Constants DEF Windows, WindowKept
  <2>3. ASSUME NEW t \in Streams, t # s, CP!Listening(t)' PROVE FlowControlled(t)'
    <3>1. CP!Listening(t) /\ FlowControlled(t)
      BY <1>8, <2>3 DEF CP!Listening, Windows
    <3> QED
      BY <1>5, <1>21, <2>3, <3>1, LeftAlone
  <2> QED
    BY <2>1, <2>2, <2>3 DEF Windows
<1> QED
  BY <1>11, <1>12, <1>14, <1>15, <1>16, <1>17, <1>18, <1>19, <1>20, <1>23, <1>24

(* StartStream is called for the stream that was prepared.                  *)
LEMMA StreamCalled ==
  ASSUME Inv, LocalStep, att.pc \in {"prepare", "update"}, att'.pc = "resume",
         Call("stream", att.sid, 0), UNCHANGED <<used, acks>>,
         \A s \in Streams : /\ rd'[s].st = rd[s].st
                            /\ rd'[s].next \in Nat /\ rd'[s].next >= rd[s].next
  PROVE  /\ Calling' /\ Serving' /\ Unmade' /\ Asked'
         /\ \A s \in Streams : Corked(s)' => Corked(s)
<1> USE DEF Inv
<1>1. /\ UNCHANGED <<total, connected, joining, streamId, termAcked>> /\ wire' \subseteq wire
      /\ UNCHANGED <<attached, client, pending, serving>>
  BY DEF LocalStep, mgrVars, jmVars
<1>2. /\ req'.kind = "stream" /\ req'.sid = att.sid /\ req'.seq = 0
      /\ reply'.seq = 0
  BY DEF Call, NoReq
<1>3. att.sid \in used /\ total \in Nat
  BY StateFacts
<1>4. \A s : HeardOf(s)' => HeardOf(s)
  BY <1>1 DEF HeardOf
<1>5. \A s \in Streams, seq \in Nat : NotPast(s, seq) => NotPast(s, seq)'
  BY ReaderFacts DEF NotPast
<1>6. Calling'
  BY <1>2, <1>3 DEF Calling
<1>7. serving.seq \in Nat /\ (serving.pc = "connect" => serving.sid \in Streams)
  BY StateFacts DEF Serving
<1>8. Serving'
  BY <1>1, <1>5, <1>7 DEF Serving
<1>9. Unmade'
  BY <1>4 DEF Unmade
<1>10. Asked'
  BY <1>1, <1>2, <1>3 DEF Asked
<1>11. \A s \in Streams : Corked(s)' => Corked(s)
  BY <1>1, <1>2 DEF Corked, Corking
<1> QED
  BY <1>6, <1>8, <1>9, <1>10, <1>11

(* JobPrepareConnect's answer: a gap moves the file's position on, and no   *)
(* loop had already found it at the end of the stream.                      *)
LEMMA PreparedKept ==
  ASSUME Inv, NEW seq \in 0 .. total, seq >= att.start, Ctl!Prepared(seq),
         IF seq > att.start THEN UNCHANGED rpcVars ELSE Call("stream", att.sid, 0),
         UNCHANGED <<mgrVars, wire, jmVars>>
  PROVE  Inv'
<1> USE DEF Inv
<1>1. CP!Prepared(seq)
  BY LocalActions
<1>2. /\ seq \in CP!Position /\ seq \in Nat /\ total \in Nat /\ seq <= total /\ att.start \in Nat
      /\ att \in CP!AttemptType
  <2>1. total \in Nat /\ total <= MaxPos /\ att \in CP!AttemptType
    BY StateFacts
  <2> QED
    BY <2>1, Constants DEF CP!Position, CP!AttemptType
<1>3. CP!Inv'
  BY <1>1, <1>2, Constants, CP!PreparedKept DEF Halves
<1>4. /\ att.pc = "prepare"
      /\ att' = [att EXCEPT !.seq = seq, !.pc = IF seq > att.start THEN "update" ELSE "resume"]
      /\ gap' = IF seq > att.start THEN att.gap + (seq - att.start) ELSE gap
      /\ UNCHANGED <<rd, acks, loop, cur, used, file, disk>>
  BY <1>1 DEF CP!Prepared
<1>5. /\ att'.pc = (IF seq > att.start THEN "update" ELSE "resume")
      /\ att'.seq = seq /\ att'.sid = att.sid /\ att'.start = att.start
  BY <1>2, <1>4 DEF CP!AttemptType
<1>6. /\ UNCHANGED <<total, term, connected, joining, streamId, termAcked, wire>> /\ LocalStep
      /\ UNCHANGED <<attached, client, pending, serving>>
  BY DEF mgrVars, jmVars, LocalStep
<1>7. Halves' /\ Wire'
  BY <1>3, <1>6, LocalKeeps DEF Halves
<1>8. /\ att.start = ResumesAt /\ ResumesAt \in Nat /\ ResumesAt <= total
      /\ cur = att.sid /\ cur \in Streams /\ cur # NoStream
  BY <1>4, StateFacts, Constants DEF Halves, CP!Inv, CP!Attempting, Files
<1>9. rd[att.sid].next = att.start
  <2>1. loop[cur].hand = <<>> /\ rd[cur].buf = <<>>
    BY <1>4, <1>8 DEF Halves, CP!Inv, CP!Attempting, CP!Hands
  <2>2. CP!InFlight(cur) = <<>> /\ Len(<<>>) = 0
    BY <2>1, CP!NothingRuns DEF CP!InFlight
  <2>3. rd[cur].next = CP!ResumePos + 0
    BY <1>4, <1>8, <2>2 DEF Halves, CP!Inv, CP!NextByteFollows
  <2> QED
    BY <1>8, <2>3, StateFacts
<1>10. ResumesAt' = IF seq > att.start THEN seq ELSE ResumesAt
  <2>1. CASE seq > att.start
    <3>1. att'.seq = CP!ResumePos'
      BY <1>3, <1>5, <2>1 DEF CP!Inv, CP!Attempting
    <3> QED
      BY <1>5, <2>1, <3>1 DEF ResumesAt, Ctl!ResumePos, CP!ResumePos
  <2>2. CASE ~(seq > att.start)
    BY <1>4, <2>2 DEF ResumesAt, Ctl!ResumePos
  <2> QED
    BY <2>1, <2>2
<1>11. Files'
  BY <1>2, <1>4, <1>6, <1>8, <1>10 DEF Files
<1>12. Loops'
  <2>1. CASE seq > att.start
    <3>1. ResumesAt # total
      BY <1>2, <1>8, <2>1
    <3> QED
      BY <1>4, <1>6, <3>1 DEF Loops
  <2>2. CASE ~(seq > att.start)
    BY <1>4, <1>6, <1>10, <2>2 DEF Loops
  <2> QED
    BY <2>1, <2>2
<1>13. /\ Calling' /\ Serving' /\ Unmade' /\ Asked'
       /\ \A s \in Streams : Corked(s)' => Corked(s)
  <2>1. CASE seq > att.start
    <3>1. UNCHANGED <<req, reply>> /\ att'.pc = "update"
      BY <1>5, <2>1 DEF rpcVars
    <3>2. \A s : HeardOf(s)' <=> HeardOf(s)
      BY <1>6 DEF HeardOf
    <3>3. \A s, q : NotPast(s, q)' <=> NotPast(s, q)
      BY <1>4 DEF NotPast
    <3>4. Calling'
      BY <1>4, <1>6, <3>1, <3>2, <3>3 DEF Calling
    <3>5. Serving'
      BY <1>4, <1>5, <1>6, <3>1, <3>3 DEF Serving
    <3>6. Unmade'
      BY <1>4, <3>2 DEF Unmade
    <3>7. Asked'
      BY <1>2, <1>4, <1>5, <1>6, <1>9, <2>1, <3>1 DEF Asked
    <3>8. \A s \in Streams : Corked(s)' => Corked(s)
      BY <1>4, <1>5, <1>6, <3>1 DEF Corked, Corking
    <3> QED
      BY <3>4, <3>5, <3>6, <3>7, <3>8
  <2>2. CASE ~(seq > att.start)
    <3>1. Call("stream", att.sid, 0) /\ att'.pc = "resume"
      BY <1>5, <2>2
    <3>2. \A s \in Streams : /\ rd'[s].st = rd[s].st
                             /\ rd'[s].next \in Nat /\ rd'[s].next >= rd[s].next
      BY <1>4, ReaderFacts
    <3> QED
      BY <1>4, <1>6, <3>1, <3>2, StreamCalled
  <2> QED
    BY <2>1, <2>2
<1>14. \A s \in Streams : Left(s)
  BY <1>4 DEF Left, CP!SameReader, CP!Listening
<1>15. Readers' /\ Acks' /\ Corks' /\ Windows'
  BY <1>4, <1>6, <1>13, <1>14, AllLeft
<1> QED
  BY <1>7, <1>11, <1>12, <1>13, <1>15

(* The reader moves on over the gap: nothing was sent to it yet.            *)
LEMMA UpdateKept ==
  ASSUME Inv, Ctl!UpdateNextSeq, Call("stream", att.sid, 0), UNCHANGED <<mgrVars, wire, jmVars>>
  PROVE  Inv'
<1> USE DEF Inv
<1>1. CP!UpdateNextSeq
  BY LocalActions
<1>2. CP!Inv'
  BY <1>1, Constants, CP!UpdateKept DEF Halves
<1>3. /\ att.pc = "update" /\ rd' = [rd EXCEPT ![att.sid].next = att.seq]
      /\ att' = [att EXCEPT !.pc = "resume"]
      /\ UNCHANGED <<acks, loop, cur, used, file, gap, disk>>
  BY <1>1 DEF CP!UpdateNextSeq, CP!fileVars
<1>0. PICK s \in Streams : s = att.sid
  BY <1>3, StateFacts
<1>4. /\ s \in Streams /\ rd \in [Streams -> CP!ReaderType] /\ rd[s] \in CP!ReaderType
      /\ rd[s].next \in Nat /\ att.seq \in Nat /\ rd[s].next < att.seq /\ att.seq <= total
      /\ total \in Nat /\ att \in CP!AttemptType
  <2>1. /\ s \in Streams /\ rd \in [Streams -> CP!ReaderType] /\ att \in CP!AttemptType
        /\ rd[s].next < att.seq /\ att.seq <= total /\ total \in Nat
    BY <1>0, <1>3, StateFacts DEF Asked
  <2> QED
    BY <2>1, ReaderFacts DEF CP!AttemptType
<1>5. att'.pc = "resume"
  BY <1>3, <1>4 DEF CP!AttemptType
<1>6. /\ UNCHANGED <<total, term, connected, joining, streamId, termAcked, wire>> /\ LocalStep
      /\ UNCHANGED <<attached, client, pending, serving>>
      /\ UNCHANGED <<head, rwnd, sent>>
  BY DEF mgrVars, jmVars, LocalStep
<1>7. Quiet(s)
  BY <1>0, <1>3 DEF Corks, Corked, Corking
<1>8. /\ rd'[s].next = att.seq /\ rd'[s].buf = rd[s].buf /\ rd'[s].ooo = rd[s].ooo
      /\ rd'[s].eof = rd[s].eof /\ rd'[s].st = rd[s].st
      /\ CP!Listening(s)' => CP!Listening(s)
      /\ \A t \in Streams \ {s} : rd'[t] = rd[t]
  <2>1. rd'[s] = [rd[s] EXCEPT !.next = att.seq] /\ \A t \in Streams \ {s} : rd'[t] = rd[t]
    BY <1>0, <1>3, <1>4
  <2> QED
    BY <1>4, <2>1 DEF CP!ReaderType, CP!Listening
<1>9. \A t \in Streams : /\ rd'[t].st = rd[t].st
                         /\ rd'[t].next \in Nat /\ rd'[t].next >= rd[t].next
  <2>1. \A t \in Streams : rd[t].next \in Nat
    BY ReaderFacts
  <2> QED
    BY <1>4, <1>8, <2>1
<1>10. Halves' /\ Wire'
  BY <1>2, <1>6, LocalKeeps DEF Halves
<1>11. /\ Calling' /\ Serving' /\ Unmade' /\ Asked'
       /\ \A t \in Streams : Corked(t)' => Corked(t)
  BY <1>3, <1>5, <1>6, <1>9, StreamCalled
<1>12. Readers'
  <2>1. ~rd[s].eof
    BY <1>4 DEF Readers
  <2> QED
    BY <1>4, <1>6, <1>8, <2>1 DEF Readers, InStream
<1>13. Acks'
  <2>1. acks \subseteq CP!AckType /\ \A t \in Streams : rd[t].next \in Nat
    BY StateFacts, ReaderFacts
  <2> QED
    BY <1>3, <1>6, <1>9, <2>1, Fields DEF Acks, NotPast
<1>14. ResumesAt' = ResumesAt
  BY <1>3 DEF ResumesAt, Ctl!ResumePos
<1>15. Files'
  BY <1>3, <1>6, <1>14 DEF Files
<1>16. Loops'
  <2>1. \A t \in Streams : rd'[t].eof = rd[t].eof /\ rd'[t].buf = rd[t].buf
    BY <1>8
  <2> QED
    BY <1>3, <1>6, <2>1, LoopsKept
<1>17. ASSUME NEW t \in Streams, t # s PROVE Left(t)
  BY <1>3, <1>8, <1>17 DEF Left, CP!SameReader, CP!Listening
<1>18. Data(s)' = Data(s)
  BY <1>6, <1>8 DEF Data
<1>19. Quiet(s)'
  BY <1>3, <1>6, <1>7, <1>8, <1>18 DEF Quiet
<1>20. Corks'
  <2>1. ASSUME NEW t \in Streams, Corked(t)' PROVE Quiet(t)'
    <3>1. CASE t = s
      BY <1>19, <3>1
    <3>2. CASE t # s
      BY <1>6, <1>11, <1>17, <2>1, <3>2, LeftAlone DEF Corks
    <3> QED
      BY <3>1, <3>2
  <2> QED
    BY <2>1 DEF Corks
<1>21. ASSUME CP!Listening(s)' PROVE FlowControlled(s)'
  <2>1. \A a \in acks' : a.sid # s
    BY <1>3, <1>7, <1>8, <1>21 DEF Quiet
  <2>2. Data(s)' = {} /\ rd'[s].buf = <<>>
    BY <1>7, <1>8, <1>18 DEF Quiet
  <2>3. Serves(s)' => sent' = 0 /\ rwnd' \in 0 .. RWnd
    BY <1>6, <1>7, Constants DEF Serves, Quiet
  <2>4. rd'[s].next \in Nat /\ head' \in Nat
    BY <1>4, <1>6, <1>8, StateFacts
  <2> QED
    BY <1>4, <2>1, <2>2, <2>3, <2>4, FirstFlow
<1>22. Windows'
  <2>1. WindowKept'
    BY <1>8 DEF Windows, WindowKept
  <2>2. ASSUME NEW t \in Streams, CP!Listening(t)' PROVE FlowControlled(t)'
    <3>1. CASE t = s
      BY <1>21, <2>2, <3>1
    <3>2. CASE t # s
      <4>1. CP!Listening(t) /\ FlowControlled(t)
        BY <1>8, <2>2, <3>2 DEF CP!Listening, Windows
      <4> QED
        BY <1>6, <1>17, <2>2, <3>2, <4>1, LeftAlone
    <3> QED
      BY <3>1, <3>2
  <2> QED
    BY <2>1, <2>2 DEF Windows
<1> QED
  BY <1>10, <1>11, <1>12, <1>13, <1>15, <1>16, <1>20, <1>22

-----------------------------------------------------------------------------
(* Every step.                                                              *)

(* A call of wavesrv, or its answer.                                        *)
LEMMA AttemptKept == ASSUME Inv, AttemptStep \/ Timeout PROVE Inv'
<1>1. CASE Ctl!Started /\ UNCHANGED rpcVars /\ AttemptStep
  BY <1>1, StartedKept DEF AttemptStep
<1>2. CASE Answered("prepared") /\ AttemptStep /\ Ctl!Prepared(reply.seq)
           /\ IF reply.seq > att.start THEN UNCHANGED rpcVars ELSE Call("stream", att.sid, 0)
  <2>1. att.pc = "prepare" /\ UNCHANGED <<mgrVars, wire, jmVars>>
    BY <1>2 DEF Ctl!Prepared, AttemptStep
  <2>2. reply.seq \in 0 .. total /\ reply.seq >= att.start
    BY <1>2, <2>1 DEF Answered, Inv, Asked
  <2> QED
    BY <1>2, <2>1, <2>2, PreparedKept
<1>3. CASE Ctl!UpdateNextSeq /\ Call("stream", att.sid, 0) /\ AttemptStep
  BY <1>3, UpdateKept DEF AttemptStep
<1>4. CASE /\ Ctl!Failed \/ Ctl!AlreadyDone(term = "err")
           /\ UNCHANGED rpcVars /\ (AttemptStep \/ Timeout)
  <2>1. UNCHANGED <<mgrVars, wire, jmVars, rpcVars>>
    BY <1>4 DEF AttemptStep, Timeout
  <2>2. Ctl!Failed \/ \E err \in BOOLEAN : Ctl!AlreadyDone(err)
    <3>1. (term = "err") \in BOOLEAN
      OBVIOUS
    <3> QED
      BY <1>4, <3>1
  <2> QED
    BY <2>1, <2>2, FailedKept
<1> QED
  BY <1>1, <1>2, <1>3, <1>4 DEF AttemptStep, Timeout

(* A new attempt.                                                           *)
LEMMA NewAttemptKept == ASSUME Inv, StartJob \/ Reconnect PROVE Inv'
<1>1. ResumesAt \in Nat /\ Ctl!ResumePos = ResumesAt
  BY StateFacts DEF Inv, ResumesAt
<1>2. CASE StartJob
  <2>1. PICK s \in Streams : Ctl!StartJob(s) /\ Call("start", s, 0) /\ UNCHANGED <<mgrVars, wire, jmVars>>
    BY <1>2 DEF StartJob
  <2>2. used = {} /\ Ctl!NewStream(s, "start") /\ 0 \in 0 .. ResumesAt
    BY <1>1, <2>1 DEF Ctl!StartJob
  <2> QED
    BY <2>1, <2>2, NewStreamKept
<1>3. CASE Reconnect
  <2>1. PICK s \in Streams : /\ Ctl!RestartStreaming(s) /\ Call("prepare", s, ResumesAt)
                             /\ UNCHANGED <<mgrVars, wire, jmVars>>
    BY <1>1, <1>3 DEF Reconnect
  <2>2. Ctl!NewStream(s, "prepare") /\ ResumesAt \in 0 .. ResumesAt
    BY <1>1, <2>1 DEF Ctl!RestartStreaming
  <2> QED
    BY <2>1, <2>2, NewStreamKept
<1> QED
  BY <1>2, <1>3

(* Nothing happens.                                                         *)
LEMMA StutterKept == ASSUME Inv, UNCHANGED vars PROVE Inv'
<1> USE DEF Inv
<1>1. UNCHANGED <<mgrVars, wire, ctlVars, acks, jmVars, rpcVars>>
  BY DEF vars
<1>2. /\ LocalStep /\ UNCHANGED <<total, term, req, reply>>
      /\ UNCHANGED <<rd, loop, cur, att, used, file, gap, disk, streamDone, streamErr, link, acks>>
  BY <1>1 DEF LocalStep, mgrVars, ctlVars, rpcVars
<1>3. CP!Inv'
  <2>1. link' \in CP!MaybeStream
    BY <1>2 DEF Halves, CP!Inv, CP!TypeOK
  <2> QED
    BY <1>2, <2>1, CP!LinkDownKept DEF Halves
<1>4. Files' /\ Loops'
  BY <1>2 DEF Files, Loops, ResumesAt, Ctl!ResumePos
<1>5. \A t \in Streams : Left(t)
  BY <1>2 DEF Left, CP!SameReader, CP!Listening
<1> QED
  BY <1>2, <1>3, <1>4, <1>5, LeftStep

(* Every step keeps the invariant: one lemma for each.                      *)
LEMMA StepKept == Inv /\ [Next]_vars => Inv'
<1> SUFFICES ASSUME Inv, [Next]_vars PROVE Inv'
  OBVIOUS
<1>1. CASE ReadLoopStep \/ Pty
  BY <1>1, ReadLoopKept
<1>2. CASE SenderStep \/ CoalesceElapsed
  BY <1>2, SenderKept
<1>3. CASE DeliverData
  BY <1>3, DeliverDataKept
<1>4. CASE DeliverAck
  BY <1>4, DeliverAckKept
<1>5. CASE Serve
  BY <1>5, ServeKept
<1>6. CASE StartJob \/ Reconnect
  BY <1>6, NewAttemptKept
<1>7. CASE AttemptStep \/ Timeout
  BY <1>7, AttemptKept
<1>8. CASE OutputLoop
  BY <1>8, ReadEndKept, ReadDataKept, AppendKept, EndLoopKept DEF OutputLoop
<1>9. CASE Flush
  BY <1>9, FlushKept DEF Flush
<1>10. CASE LinkDown
  BY <1>10, LinkDownKept
<1>11. CASE Crash
  BY <1>11, CrashKept
<1>12. CASE AtRest \/ UNCHANGED vars
  BY <1>12, StutterKept DEF AtRest
<1> QED
  BY <1>1, <1>2, <1>3, <1>4, <1>5, <1>6, <1>7, <1>8, <1>9, <1>10, <1>11, <1>12 DEF Next

(* The invariant holds in every behaviour.                                  *)
LEMMA InvHolds == Spec => []Inv
  BY InitKept, StepKept, PTL DEF Spec

-----------------------------------------------------------------------------
(* The theorems.                                                            *)

(* Both halves and the calls between them keep their types, and a call is   *)
(* served for one client at a time (JobManager's lock).                     *)
THEOREM DurableTypeCorrect == Spec => []TypeOK
<1>1. Inv => TypeOK
  <2> SUFFICES ASSUME Inv PROVE TypeOK
    OBVIOUS
  <2>1. MP!TypeOK /\ CP!TypeOK /\ Serving
    BY DEF Inv, Halves, MP!TypeInv, CP!Inv
  <2>2. Mgr!TypeOK
    BY <2>1 DEF Mgr!TypeOK, Mgr!Position, Mgr!Join, Mgr!NoJoin, Mgr!Packet,
                MP!TypeOK, MP!Position, MP!Join, MP!NoJoin, MP!Packet
  <2>3. Ctl!TypeOK
    BY <2>1 DEF Ctl!TypeOK, Ctl!ReaderType, Ctl!LoopType, Ctl!LoopPcs, Ctl!MaybeStream, Ctl!AttemptType,
                Ctl!Bytes, Ctl!AckType, Ctl!Packet, Ctl!Position,
                CP!TypeOK, CP!ReaderType, CP!LoopType, CP!LoopPcs, CP!MaybeStream, CP!AttemptType,
                CP!Bytes, CP!AckType, CP!Packet, CP!Position
  <2>4. joining # Mgr!NoJoin <=> serving.pc = "joining"
    <3>1. serving.pc = "joining" => joining.sid \in Streams
      BY <2>1, StateFacts DEF Serving, Inv
    <3>2. Mgr!NoJoin = MP!NoJoin /\ Mgr!NoJoin.sid \notin Streams
      BY Constants DEF Mgr!NoJoin, MP!NoJoin
    <3> QED
      BY <2>1, <3>1, <3>2 DEF Serving
  <2>5. client \in BOOLEAN
    BY <2>1, StateFacts DEF Serving, Inv
  <2> QED
    BY <2>1, <2>2, <2>3, <2>4, <2>5 DEF TypeOK, Serving
<1> QED
  BY <1>1, InvHolds, PTL

(* No reader ever buffers more than the window it advertises: the job       *)
(* manager sends no more than the ACKs allow, however packets, ACKs and     *)
(* reconnects are interleaved.                                              *)
THEOREM FlowControlHolds == Spec => []WindowKept
<1>1. Inv => WindowKept
  BY DEF Inv, Windows
<1> QED
  BY <1>1, InvHolds, PTL

(* No data of a stream travels between JobPrepareConnect and                *)
(* JobStartStream, so restartStreaming may still move its reader.           *)
THEOREM CorkHolds == Spec => []NoDataWhileCorked
<1>1. Inv => NoDataWhileCorked
  <2> SUFFICES ASSUME Inv, NEW pk \in wire, Ctl!Corked(pk) PROVE FALSE
    BY DEF NoDataWhileCorked
  <2>1. pk \in Data(pk.sid) /\ pk.sid \in Streams /\ Corked(pk.sid)
    BY Fields DEF Data, Corked, Corking, Ctl!Corked, Inv, Halves
  <2> QED
    BY <2>1 DEF Inv, Corks, Quiet
<1> QED
  BY <1>1, InvHolds, PTL

(* StreamManager.ClientConnected never refuses a client of wavesrv: the     *)
(* position it asks for was produced, and the end was not acknowledged.     *)
THEOREM ResumeIsAccepted == Spec => []ResumeNotRefused
<1>1. Inv => ResumeNotRefused
  BY DEF Inv, Halves, Asked, Serving, ResumeNotRefused
<1> QED
  BY <1>1, InvHolds, PTL

(* An output loop that ends with the end of the stream has stored, or       *)
(* counted as missing, every byte before it.                                *)
THEOREM EofIsAccounted == Spec => []EofMeansAccounted
<1>1. Inv => EofMeansAccounted
  BY DEF Inv, Halves, MP!TypeInv, MP!LoopsInStep, Loops, EofMeansAccounted
<1> QED
  BY <1>1, InvHolds, PTL

(* What the sender does leaves the ring alone.                              *)
LEMMA SenderMoves ==
  ASSUME Inv, SenderStep \/ CoalesceElapsed
  PROVE  UNCHANGED <<head, total, chunk, file, gap, disk>>
<1>1. UNCHANGED <<file, gap, disk>>
  BY DEF SenderStep, CoalesceElapsed, ctlVars
<1>2. PICK lost \in BOOLEAN : lost = (link # streamId)
  OBVIOUS
<1>3. \/ MP!SendData(lost)
      \/ MP!SendTerminal(lost)
      \/ MP!SenderWait \/ MP!CoalesceElapsed \/ MP!SenderExit
  BY <1>2, ManagerActions DEF SenderStep, CoalesceElapsed
<1>4. UNCHANGED <<head, total, chunk>>
  BY <1>3, Constants, MP!SendDataEffect, MP!SendTerminalEffect, MP!SenderRestEffect DEF Inv, Halves
<1> QED
  BY <1>1, <1>4

(* The head moves to where an ACK says.                                     *)
LEMMA AckMoves ==
  ASSUME Inv, DeliverAck
  PROVE  /\ UNCHANGED <<total, chunk, file, gap, disk>>
         /\ head' = head \/ \E a \in acks : head' = a.seq
<1>1. PICK a \in acks : /\ UNCHANGED ctlVars
                        /\ \/ Mgr!RecvAck(a)
                           \/ UNCHANGED <<mgrVars, wire>>
  BY DEF DeliverAck
<1>2. UNCHANGED <<file, gap, disk>>
  BY <1>1 DEF ctlVars
<1>3. CASE Mgr!RecvAck(a)
  <2>1. a.seq \in Nat /\ a.rwnd \in Nat
    <3>1. RWnd \in Nat /\ a \in CP!AckType
      BY Constants, StateFacts DEF Inv
    <3> QED
      BY <3>1, Fields
  <2>2. MP!RecvAck(a)
    BY <1>3, ManagerCalls
  <2>3. UNCHANGED <<total, chunk>> /\ (MP!MovesHead(a) \/ head' = head)
    BY <2>1, <2>2, Constants, MP!AckEffect DEF Inv, Halves
  <2> QED
    BY <1>2, <2>3 DEF MP!MovesHead
<1>4. CASE UNCHANGED mgrVars
  BY <1>2, <1>4 DEF mgrVars
<1> QED
  BY <1>1, <1>3, <1>4

(* And to where a new client resumes.                                       *)
LEMMA ServeMoves ==
  ASSUME Inv, Serve
  PROVE  /\ UNCHANGED <<total, chunk, file, gap, disk>>
         /\ head' = head \/ (serving.pc = "connect" /\ head' = serving.seq)
<1> USE DEF Inv, Halves
<1>1. UNCHANGED <<file, gap, disk>>
  BY DEF Serve, ServeConnect, ServeBegin, ServePrepared, ServeConnected, ServeStarted,
         ServeAlreadyDone, ServeStartStream, ctlVars
<1>2. CASE \E kind : ServeConnect(kind)
  <2>1. Mgr!ClientDisconnected \/ UNCHANGED mgrVars
    BY <1>2 DEF ServeConnect
  <2>2. UNCHANGED <<head, total, chunk>>
    BY <2>1, Constants, ManagerCalls, MP!DisconnectEffect DEF mgrVars
  <2> QED
    BY <1>1, <2>2
<1>3. CASE ServeBegin
  <2>1. /\ serving.pc = "connect"
        /\ Mgr!BeginConnect(serving.sid, IF serving.kind = "prepare" THEN 0 ELSE RWnd, serving.seq)
    BY <1>3 DEF ServeBegin
  <2>2. serving.seq \in Nat
    BY DEF Serving
  <2>3. UNCHANGED <<total, chunk>> /\ head' \in {head, serving.seq}
    BY <2>1, <2>2, Constants, ManagerCalls, MP!BeginConnectEffect
  <2> QED
    BY <1>1, <2>1, <2>3
<1>4. CASE ServePrepared \/ ServeConnected
  <2>1. Mgr!EndConnect
    BY <1>4 DEF ServePrepared, ServeConnected
  <2> QED
    BY <1>1, <2>1, Constants, ManagerCalls, MP!EndConnectEffect
<1>5. CASE ServeStarted
  BY <1>1, <1>5 DEF ServeStarted, Mgr!AttachReader, Mgr!ringVars
<1>6. CASE ServeAlreadyDone
  BY <1>1, <1>6 DEF ServeAlreadyDone, mgrVars
<1>7. CASE ServeStartStream
  <2>1. Mgr!SetRwndSize(RWnd) /\ RWnd \in Nat
    BY <1>7, Constants DEF ServeStartStream
  <2> QED
    BY <1>1, <2>1, Constants, ManagerCalls, MP!RwndEffect
<1> QED
  BY <1>2, <1>3, <1>4, <1>5, <1>6, <1>7 DEF Serve

(* wavesrv and the connection leave the ring alone.                         *)
LEMMA LocalMoves ==
  ASSUME DeliverData \/ StartJob \/ Reconnect \/ AttemptStep \/ Timeout \/ OutputLoop \/ Flush
         \/ LinkDown \/ Crash \/ AtRest \/ UNCHANGED vars
  PROVE  UNCHANGED <<head, total, chunk>>
<1>1. UNCHANGED mgrVars
  BY DEF DeliverData, StartJob, Reconnect, AttemptStep, Timeout, OutputLoop, Flush, LinkDown, Crash,
         AtRest, vars
<1> QED
  BY <1>1 DEF mgrVars

(* Bytes are given up when the ring is full, when a reader has received     *)
(* them, or for a cancel.                                                   *)
LEMMA StepGivesUp ==
  ASSUME Inv, [Next]_vars, ReadersRemembered, head' > head PROVE GivenUpFor
<1>1. head \in Nat /\ used \subseteq Streams /\ acks \subseteq CP!AckType
  BY StateFacts DEF Inv
<1>2. head' # head
  BY <1>1
<1>3. ~(SenderStep \/ CoalesceElapsed)
  BY <1>2, SenderMoves
<1>4. ASSUME NEW s \in used, head' <= rd[s].next PROVE GivenUpFor
  BY <1>1, <1>4 DEF GivenUpFor
<1>5. CASE ReadLoopStep \/ Pty
  <2>1. MP!ReadLoop
    BY <1>5, ManagerActions DEF ReadLoopStep, Pty
  <2>2. total' - head' = Cap
    BY <2>1, Constants, MP!ReadLoopEffect DEF Inv, Halves
  <2> QED
    BY <2>2 DEF GivenUpFor
<1>6. CASE DeliverAck
  <2>1. PICK a \in acks : head' = a.seq
    BY <1>2, <1>6, AckMoves
  <2>2. a.sid \in used
    BY <1>1, Fields DEF Inv, Unmade
  <2>3. a.cancel \/ a.seq <= rd[a.sid].next
    BY <2>2 DEF Inv, Acks, NotPast, ReadersRemembered
  <2> QED
    BY <1>4, <2>1, <2>2, <2>3 DEF GivenUpFor
<1>7. CASE Serve
  <2>1. serving.pc = "connect" /\ head' = serving.seq
    BY <1>2, <1>7, ServeMoves
  <2>2. serving.sid \in used /\ serving.seq <= rd[serving.sid].next
    BY <2>1 DEF Inv, Serving, NotPast, ReadersRemembered
  <2> QED
    BY <1>4, <2>1, <2>2
<1>8. CASE ~(ReadLoopStep \/ Pty \/ DeliverAck \/ Serve)
  BY <1>2, <1>3, <1>8, LocalMoves DEF Next
<1> QED
  BY <1>5, <1>6, <1>7, <1>8

(* Only received bytes are given up while there is room in the ring, but    *)
(* for a cancel ACK, which carries the position of the packet it answers.   *)
THEOREM AcksAreReceived == Spec => AckMeansReceived
<1>1. Inv /\ [Next]_vars => [ReadersRemembered /\ head' > head => GivenUpFor]_vars
  BY StepGivesUp
<1> QED
  BY <1>1, InvHolds, PTL DEF Spec, AckMeansReceived

-----------------------------------------------------------------------------
(* The path implements DurableOutput.tla.                                   *)

(* An append stores the next bytes, or none.                                *)
LEMMA AppendStores ==
  ASSUME Inv, NEW s \in Streams, Ctl!LoopAppend(s), UNCHANGED mgrVars
  PROVE  [Output!Next]_Output!vars
<1> DEFINE q == loop[s].hand
           n == Len(loop[s].hand)
           b == Len(rd[s].buf)
<1>1. /\ loop[s].pc = "append" /\ cur = s /\ file' = file \o q /\ UNCHANGED <<gap, disk>>
      /\ UNCHANGED <<total, chunk>>
  BY DEF Ctl!LoopAppend, mgrVars
<1>2. /\ q \in CP!Bytes /\ CP!Run(q, ResumesAt) /\ n \in Nat /\ b \in Nat /\ ResumesAt \in Nat
      /\ rd[s].next = ResumesAt + (n + b) /\ rd[s].next <= total
  BY <1>1, InHand
<1>3. /\ total \in Nat /\ total <= MaxPos /\ chunk \in Nat /\ MaxPos \in Nat
      /\ Len(file) \in Nat /\ gap \in Nat /\ file \in CP!Bytes
  BY StateFacts, Constants DEF Inv, Halves, CP!Inv, CP!TypeOK
<1>4. q = CP!Positions(ResumesAt, n)
  <2>1. /\ CP!Positions(ResumesAt, n) \in Seq(Nat) /\ Len(CP!Positions(ResumesAt, n)) = n
        /\ CP!Run(CP!Positions(ResumesAt, n), ResumesAt) /\ q \in Seq(Nat)
    BY <1>2, CP!PositionsRun DEF CP!Bytes
  <2>2. \A i \in 1 .. Len(q) : q[i] = CP!Positions(ResumesAt, n)[i]
    BY <1>2, <2>1 DEF CP!Run
  <2> QED
    BY <2>1, <2>2, SeqEqual
<1>5. CASE n = 0
  <2>1. q = <<>>
    BY <1>2, <1>5, EmptySeq DEF CP!Bytes
  <2>2. file' = file
    BY <1>1, <1>3, <2>1, CP!NothingRuns
  <2> QED
    BY <1>1, <2>2 DEF Output!vars
<1>6. CASE n > 0
  <2>1. Output!NextPos = ResumesAt
    BY DEF Output!NextPos, ResumesAt, Ctl!ResumePos
  <2>2. file' = file \o [i \in 1 .. n |-> Output!NextPos + i - 1]
    BY <1>1, <1>4, <2>1 DEF CP!Positions
  <2> HIDE DEF n, b
  <2>3. n \in 1 .. MaxPos /\ ResumesAt + n <= total + chunk
    BY <1>2, <1>3, <1>6
  <2>4. Output!Store(n)
    BY <1>1, <2>1, <2>2, <2>3 DEF Output!Store
  <2> QED
    BY <2>3, <2>4 DEF Output!Next
<1> QED
  BY <1>2, <1>5, <1>6

(* An answer past the position asked for counts what lies between.          *)
LEMMA PreparedSkips ==
  ASSUME Inv, Answered("prepared"), Ctl!Prepared(reply.seq), UNCHANGED mgrVars
  PROVE  [Output!Next]_Output!vars
<1> DEFINE n == reply.seq - att.start
<1>1. /\ att.pc = "prepare" /\ UNCHANGED <<file, disk, total, chunk>>
      /\ gap' = IF reply.seq > att.start THEN att.gap + (reply.seq - att.start) ELSE gap
  BY DEF Ctl!Prepared, mgrVars
<1>2. reply.seq \in 0 .. total /\ reply.seq >= att.start
  BY <1>1 DEF Answered, Inv, Asked
<1>3. att.start = ResumesAt /\ att.gap = gap /\ ResumesAt \in Nat
  BY <1>1, StateFacts DEF Inv, Halves, CP!Inv, CP!Attempting
<1>4. total \in Nat /\ total <= MaxPos /\ chunk \in Nat /\ MaxPos \in Nat /\ gap \in Nat
  BY StateFacts, Constants DEF Inv
<1>5. CASE ~(reply.seq > att.start)
  BY <1>1, <1>5 DEF Output!vars
<1>6. CASE reply.seq > att.start
  <2>1. Output!NextPos = ResumesAt
    BY DEF Output!NextPos, ResumesAt, Ctl!ResumePos
  <2>2. gap' = gap + n /\ n \in 1 .. MaxPos /\ ResumesAt + n <= total + chunk
    BY <1>1, <1>2, <1>3, <1>4, <1>6
  <2>3. Output!Skip(n)
    BY <1>1, <2>1, <2>2 DEF Output!Skip
  <2> QED
    BY <2>2, <2>3 DEF Output!Next
<1> QED
  BY <1>5, <1>6

(* The file is otherwise changed by a flush and a crash only.               *)
LEMMA LocalImplements ==
  ASSUME Inv, UNCHANGED <<head, total, chunk>>,
         DeliverData \/ StartJob \/ Reconnect \/ AttemptStep \/ Timeout \/ OutputLoop \/ Flush
         \/ LinkDown \/ Crash \/ AtRest \/ UNCHANGED vars
  PROVE  [Output!Next]_Output!vars
<1>1. ASSUME UNCHANGED <<file, gap, disk>> PROVE [Output!Next]_Output!vars
  BY <1>1 DEF Output!vars
<1>2. CASE DeliverData \/ StartJob \/ Reconnect \/ Timeout \/ LinkDown \/ AtRest \/ UNCHANGED vars
  <2>1. CASE DeliverData \/ Timeout
    BY <1>1, <2>1 DEF DeliverData, Timeout, Ctl!RecvData, Ctl!Failed, Ctl!fileVars
  <2>2. CASE StartJob \/ Reconnect
    BY <1>1, <2>2 DEF StartJob, Reconnect, Ctl!StartJob, Ctl!RestartStreaming, Ctl!NewStream, Ctl!fileVars
  <2>3. CASE LinkDown \/ AtRest \/ UNCHANGED vars
    BY <1>1, <2>3 DEF LinkDown, AtRest, vars, ctlVars
  <2> QED
    BY <1>2, <2>1, <2>2, <2>3
<1>3. CASE AttemptStep
  <2>1. \/ Answered("prepared") /\ Ctl!Prepared(reply.seq) /\ UNCHANGED mgrVars
        \/ Ctl!Started \/ Ctl!UpdateNextSeq \/ Ctl!Failed \/ Ctl!AlreadyDone(term = "err")
    BY <1>3 DEF AttemptStep
  <2>2. CASE Ctl!Started \/ Ctl!UpdateNextSeq \/ Ctl!Failed \/ Ctl!AlreadyDone(term = "err")
    BY <1>1, <2>2 DEF Ctl!Started, Ctl!UpdateNextSeq, Ctl!Failed, Ctl!AlreadyDone, Ctl!fileVars
  <2> QED
    BY <2>1, <2>2, PreparedSkips
<1>4. CASE OutputLoop
  <2>1. PICK s \in Streams : /\ UNCHANGED mgrVars
                             /\ \/ Ctl!LoopAppend(s)
                                \/ Ctl!LoopReadEnd(s) \/ Ctl!LoopReadData(s)
                                \/ Ctl!LoopSuperseded(s) \/ Ctl!LoopFinish(s)
    BY <1>4 DEF OutputLoop
  <2>2. CASE Ctl!LoopReadEnd(s) \/ Ctl!LoopReadData(s) \/ Ctl!LoopSuperseded(s) \/ Ctl!LoopFinish(s)
    BY <1>1, <2>2 DEF Ctl!LoopReadEnd, Ctl!LoopReadData, Ctl!LoopSuperseded, Ctl!LoopFinish, Ctl!fileVars
  <2> QED
    BY <2>1, <2>2, AppendStores
<1>5. CASE Flush
  <2>1. Output!Save
    BY <1>5 DEF Flush, Ctl!Flush, Output!Save
  <2> QED
    BY <2>1 DEF Output!Next
<1>6. CASE Crash
  <2>1. Output!FallBack
    BY <1>6 DEF Crash, Ctl!Crash, Output!FallBack
  <2> QED
    BY <2>1 DEF Output!Next
<1> QED
  BY <1>2, <1>3, <1>4, <1>5, <1>6

(* The PTY produces.                                                        *)
LEMMA ReadLoopImplements ==
  ASSUME Inv, ReadLoopStep \/ Pty PROVE [Output!Next]_Output!vars
<1>1. MP!ReadLoop /\ UNCHANGED ctlVars
  BY ManagerActions DEF ReadLoopStep, Pty
<1>2. UNCHANGED <<file, gap, disk>>
  BY <1>1 DEF ctlVars
<1>3. total' + chunk' >= total + chunk /\ total' + chunk' <= MaxPos
  BY <1>1, Constants, MP!ReadLoopEffect DEF Inv, Halves
<1>4. MP!TypeInv'
  BY <1>1, Constants, MP!ReadLoopTypeInv DEF Inv, Halves
<1>5. total \in Nat /\ chunk \in Nat /\ total' \in Nat /\ chunk' \in Nat
  BY <1>4, StateFacts, Constants DEF Inv, MP!TypeInv, MP!TypeOK, MP!Position
<1>6. CASE total' + chunk' = total + chunk
  BY <1>2, <1>6 DEF Output!vars
<1>7. CASE total' + chunk' # total + chunk
  <2>1. total' + chunk' \in total + chunk + 1 .. MaxPos
    <3>1. \A m, n, x, y, max \in Nat : x + y >= m + n /\ x + y <= max /\ x + y # m + n =>
                                          x + y \in m + n + 1 .. max
      OBVIOUS
    <3>2. MaxPos \in Nat
      BY Constants
    <3> QED
      BY <1>3, <1>5, <1>7, <3>1, <3>2
  <2>2. Output!Produce
    BY <1>2, <2>1 DEF Output!Produce
  <2> QED
    BY <2>2 DEF Output!Next
<1> QED
  BY <1>6, <1>7

(* Each step is one of DurableOutput.tla's, or changes nothing it sees.     *)
LEMMA StepImplements == ASSUME Inv, [Next]_vars PROVE [Output!Next]_Output!vars
<1>1. CASE ReadLoopStep \/ Pty
  BY <1>1, ReadLoopImplements
<1>2. CASE SenderStep \/ CoalesceElapsed \/ DeliverAck \/ Serve
  <2>1. UNCHANGED <<total, chunk, file, gap, disk>>
    BY <1>2, SenderMoves, AckMoves, ServeMoves
  <2> QED
    BY <2>1 DEF Output!vars
<1>3. CASE ~(ReadLoopStep \/ Pty \/ SenderStep \/ CoalesceElapsed \/ DeliverAck \/ Serve)
  BY <1>3, LocalMoves, LocalImplements DEF Next
<1> QED
  BY <1>1, <1>2, <1>3

(* The output file, its recorded gap and its flushed copy are what          *)
(* DurableOutput.tla promises of them: the bytes the PTY produced, in       *)
(* order, none invented, what is missing counted, and after a crash a state *)
(* they had before.                                                         *)
THEOREM PathIsDurable == Spec => OutputIsDurable
<1>1. Init => Output!Init
  BY EmptySeq DEF Init, Mgr!Init, Ctl!Init, Output!Init
<1>2. Inv /\ [Next]_vars => [Output!Next]_Output!vars
  BY StepImplements
<1> QED
  BY <1>1, <1>2, InvHolds, PTL DEF Spec, OutputIsDurable, Output!Spec
=============================================================================
