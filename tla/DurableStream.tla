--------------------------- MODULE DurableStream ---------------------------
(***************************************************************************)
(* The durable output path end to end: the job manager (StreamManager.tla, *)
(* pkg/jobmanager) on the remote host, the readers, output loop and file   *)
(* (JobOutput.tla) in wavesrv, and between them the connection that        *)
(* carries data packets, ACKs and the RPCs of StartJob and                 *)
(* restartStreaming.                                                       *)
(*                                                                         *)
(* Every attempt to stream has a connection of its own: doReconnectJob     *)
(* makes the helper dial the job manager anew, and does nothing while the  *)
(* job counts as connected.  So a stream id also names its connection, and *)
(* link is the stream whose connection is up.                              *)
(***************************************************************************)
EXTENDS Integers, Sequences, FiniteSets

CONSTANTS
  Streams, NoStream,
  Cap, Cwnd, RWnd, ReadSize, AckFraction, MaxPacket,
  MaxPos,
  CanTimeout,   \* bound of the model: RPCs of a reconnect may time out
  CanCrash      \* bound of the model: wavesrv may crash

ASSUME DurableStreamAssumption ==
  /\ NoStream \notin Streams
  /\ {Cap, Cwnd, RWnd, ReadSize, AckFraction, MaxPacket} \subseteq Nat \ {0}
  /\ MaxPos \in Nat
  /\ {CanTimeout, CanCrash} \subseteq BOOLEAN

VARIABLES
  head, total, win, sync, readPc, chunk, term, eofPos, connected, streamId,
  rwnd, sent, termSent, maxAck, termAcked, joining, sender, coalescing,
  armed, closed, wire,
  rd, loop, cur, att, used, file, gap, disk, streamDone, streamErr, link, acks,
  attached,   \* streams whose connection's broker has the manager as writer
  client,     \* JobManager.connectedStreamClient is set
  pending,    \* JobManager.pendingStreamMeta: the stream prepared, not started
  serving,    \* where JobManager is in the call it serves under its lock
  req, reply  \* the RPC in flight, and its answer

Mgr == INSTANCE StreamManager WITH MaxRwnd <- RWnd
Ctl == INSTANCE JobOutput

ResumesAt == Ctl!ResumePos

mgrVars == <<head, total, win, sync, readPc, chunk, term, eofPos, connected, streamId,
             rwnd, sent, termSent, maxAck, termAcked, joining, sender, coalescing,
             armed, closed>>
ctlVars == <<rd, loop, cur, att, used, file, gap, disk, streamDone, streamErr, link>>
jmVars == <<attached, client, pending, serving>>
rpcVars == <<req, reply>>
vars == <<mgrVars, wire, ctlVars, acks, jmVars, rpcVars>>

NoReq == [kind |-> "none", sid |-> NoStream, seq |-> 0]
Idle == [pc |-> "idle", kind |-> "none", sid |-> NoStream, seq |-> 0]

Init ==
  /\ Mgr!Init
  /\ Ctl!Init
  /\ attached = {} /\ client = FALSE /\ pending = NoStream /\ serving = Idle
  /\ req = NoReq /\ reply = NoReq

-----------------------------------------------------------------------------
(* The manager's own loops.                                                 *)
ReadLoopStep ==
  /\ Mgr!WriteRing \/ Mgr!WaitForRoom \/ Mgr!WakeSender
  /\ UNCHANGED <<ctlVars, acks, jmVars, rpcVars>>

Pty ==
  /\ \/ \E n \in 1 .. MaxPacket : Mgr!PtyRead(n)
     \/ \E kind \in {"eof", "err"} : Mgr!PtyEnd(kind)
  /\ UNCHANGED <<ctlVars, acks, jmVars, rpcVars>>

SenderStep ==
  /\ \/ Mgr!SendData(link # streamId) \/ Mgr!SendTerminal(link # streamId)
     \/ Mgr!SenderWait \/ Mgr!SenderExit
  /\ UNCHANGED <<ctlVars, acks, jmVars, rpcVars>>

CoalesceElapsed ==
  /\ Mgr!CoalesceElapsed
  /\ UNCHANGED <<ctlVars, acks, jmVars, rpcVars>>

-----------------------------------------------------------------------------
(* A connection delivers in order: the router and both brokers are queues.  *)
(* The packets of a stream go out by position, its end last; its ACKs by    *)
(* position, then by growing window, a cancel last.                         *)
PacketsBefore(pk) == {p \in wire : p.sid = pk.sid /\ p # pk /\ p.seq <= pk.seq}

SentEarlier(a, b) ==
  \/ a.seq < b.seq
  \/ /\ a.seq = b.seq
     /\ \/ ~a.cancel /\ b.cancel
        \/ ~a.cancel /\ ~b.cancel /\ (a.rwnd < b.rwnd \/ (a.rwnd = b.rwnd /\ b.fin))
        \/ a.cancel /\ b.cancel /\ a.rwnd > b.rwnd
AcksBefore(a) == {b \in acks : b.sid = a.sid /\ b # a /\ SentEarlier(b, a)}

DeliverData ==
  \E pk \in wire :
    /\ PacketsBefore(pk) = {}
    /\ Ctl!RecvData(pk)
    /\ wire' = wire \ {pk}
    /\ UNCHANGED <<mgrVars, jmVars, rpcVars>>

(* Broker.processRecvAck: an ACK without a writer is dropped; a writer that *)
(* got a fin or cancel is forgotten.                                        *)
DeliverAck ==
  \E a \in acks :
    /\ AcksBefore(a) = {}
    /\ acks' = acks \ {a}
    /\ IF a.sid \in attached
       THEN /\ Mgr!RecvAck(a) \/ (Mgr!IgnoredAck(a) /\ UNCHANGED <<mgrVars, wire>>)
            /\ attached' = IF a.fin \/ a.cancel THEN attached \ {a.sid} ELSE attached
       ELSE UNCHANGED <<mgrVars, wire, attached>>
    /\ UNCHANGED <<ctlVars, client, pending, serving, rpcVars>>

-----------------------------------------------------------------------------
(* JobManager: StartJob, PrepareConnect and StartStream, each under its     *)
(* lock.                                                                    *)
Arrived(kind) == req.kind = kind /\ req.sid = link /\ serving = Idle
Answer(kind, sid, seq) == req' = NoReq /\ reply' = [kind |-> kind, sid |-> sid, seq |-> seq]

(* Mutant: PrepareConnect does not look whether the stream is finished.      *)
ServeConnectMutant(kind) ==
  /\ Arrived(kind)
  /\ serving' = [pc |-> "connect", kind |-> kind, sid |-> req.sid, seq |-> req.seq]
  /\ client' = FALSE
  /\ IF client THEN Mgr!ClientDisconnected ELSE UNCHANGED <<mgrVars, wire>>
  /\ req' = NoReq
  /\ UNCHANGED <<ctlVars, acks, attached, pending, reply>>

(* connectToStreamHelper: a client that never disconnected is put out first. *)
ServeConnect(kind) ==
  /\ Arrived(kind)
  /\ kind = "prepare" => ~termAcked
  /\ serving' = [pc |-> "connect", kind |-> kind, sid |-> req.sid, seq |-> req.seq]
  /\ client' = FALSE
  /\ IF client THEN Mgr!ClientDisconnected ELSE UNCHANGED <<mgrVars, wire>>
  /\ req' = NoReq
  /\ UNCHANGED <<ctlVars, acks, attached, pending, reply>>

(* Mutant: a prepared stream gets the client's window at once.              *)
ServeBeginMutant ==
  /\ serving.pc = "connect"
  /\ Mgr!BeginConnect(serving.sid, RWnd, serving.seq)
  /\ serving' = [serving EXCEPT !.pc = "joining"]
  /\ UNCHANGED <<ctlVars, acks, attached, client, pending, rpcVars>>

(* A prepared stream is corked: its window is zero until StartStream.  That *)
(* ClientConnected could refuse does not matter: see ResumeNotRefused.      *)
ServeBegin ==
  /\ serving.pc = "connect"
  /\ Mgr!BeginConnect(serving.sid, IF serving.kind = "prepare" THEN 0 ELSE RWnd, serving.seq)
  /\ serving' = [serving EXCEPT !.pc = "joining"]
  /\ UNCHANGED <<ctlVars, acks, attached, client, pending, rpcVars>>

(* Mutant: the JobManager does not remember the client it prepared.         *)
ServePreparedMutant ==
  /\ serving.pc = "joining" /\ serving.kind = "prepare"
  /\ Mgr!EndConnect
  /\ pending' = serving.sid
  /\ serving' = Idle
  /\ reply' = [kind |-> "prepared", sid |-> serving.sid, seq |-> joining.start]
  /\ UNCHANGED <<ctlVars, acks, attached, client, req>>

ServePrepared ==
  /\ serving.pc = "joining" /\ serving.kind = "prepare"
  /\ Mgr!EndConnect
  /\ client' = TRUE
  /\ pending' = serving.sid
  /\ serving' = Idle
  /\ reply' = [kind |-> "prepared", sid |-> serving.sid, seq |-> joining.start]
  /\ UNCHANGED <<ctlVars, acks, attached, req>>

ServeConnected ==
  /\ serving.pc = "joining" /\ serving.kind = "start"
  /\ Mgr!EndConnect
  /\ client' = TRUE
  /\ serving' = [serving EXCEPT !.pc = "attach"]
  /\ attached' = attached \cup {serving.sid}
  /\ UNCHANGED <<ctlVars, acks, pending, rpcVars>>

ServeStarted ==
  /\ serving.pc = "attach"
  /\ Mgr!AttachReader
  /\ serving' = Idle
  /\ reply' = [kind |-> "started", sid |-> serving.sid, seq |-> 0]
  /\ UNCHANGED <<ctlVars, acks, attached, client, pending, req>>

ServeAlreadyDone ==
  /\ Arrived("prepare") /\ termAcked
  /\ Answer("done", req.sid, req.seq)
  /\ UNCHANGED <<mgrVars, wire, ctlVars, acks, jmVars>>

ServeStartStream ==
  /\ Arrived("stream") /\ pending = req.sid
  /\ attached' = attached \cup {pending}
  /\ Mgr!SetRwndSize(RWnd)
  /\ pending' = NoStream
  /\ Answer("started", req.sid, 0)
  /\ UNCHANGED <<ctlVars, acks, client, serving>>

Serve ==
  \/ ServeConnect("start") \/ ServeConnect("prepare") \/ ServeBegin
  \/ ServePrepared \/ ServeConnected \/ ServeStarted
  \/ ServeAlreadyDone \/ ServeStartStream

-----------------------------------------------------------------------------
(* wavesrv.                                                                 *)
Call(kind, s, seq) == req' = [kind |-> kind, sid |-> s, seq |-> seq] /\ reply' = NoReq

StartJob ==
  \E s \in Streams :
    /\ Ctl!StartJob(s)
    /\ Call("start", s, 0)
    /\ UNCHANGED <<mgrVars, wire, jmVars>>

Reconnect ==
  \E s \in Streams :
    /\ Ctl!RestartStreaming(s)
    /\ Call("prepare", s, Ctl!ResumePos)
    /\ UNCHANGED <<mgrVars, wire, jmVars>>

Answered(kind) == reply.kind = kind /\ reply.sid = att.sid /\ link = att.sid

AttemptStep ==
  /\ \/ /\ Answered("started")
        /\ Ctl!Started
        /\ UNCHANGED rpcVars
     \/ /\ Answered("prepared")
        /\ Ctl!Prepared(reply.seq)
        /\ IF reply.seq > att.start THEN UNCHANGED rpcVars ELSE Call("stream", att.sid, 0)
     \/ /\ Ctl!UpdateNextSeq
        /\ Call("stream", att.sid, 0)
     \/ /\ Answered("done")
        /\ Ctl!AlreadyDone(term = "err")
        /\ UNCHANGED rpcVars
     \/ /\ Answered("error") \/ (att.pc \in {"prepare", "resume"} /\ link # att.sid)
        /\ Ctl!Failed
        /\ UNCHANGED rpcVars
  /\ UNCHANGED <<mgrVars, wire, jmVars>>

Timeout ==
  /\ CanTimeout
  /\ Ctl!Failed
  /\ UNCHANGED <<mgrVars, wire, jmVars, rpcVars>>

OutputLoop ==
  /\ \E s \in Streams :
       Ctl!LoopReadEnd(s) \/ Ctl!LoopReadData(s) \/ Ctl!LoopAppend(s)
       \/ Ctl!LoopSuperseded(s) \/ Ctl!LoopFinish(s)
  /\ UNCHANGED <<mgrVars, wire, jmVars, rpcVars>>

Flush ==
  /\ Ctl!Flush
  /\ UNCHANGED <<mgrVars, wire, jmVars, rpcVars>>

-----------------------------------------------------------------------------
(* Faults, as long as a stream is left to reconnect with.  What has reached *)
(* the other side when the connection dies is still handled there.          *)
(* JobManager does not notice: handleJobDomainSocketClient returns as soon  *)
(* as it has started its loops, and with it the deferred disconnect.        *)
LinkDown ==
  /\ used # Streams
  /\ link # NoStream /\ att.pc # "start"
  /\ link' = NoStream
  /\ wire' \in SUBSET wire /\ \A pk \in wire' : PacketsBefore(pk) \subseteq wire'
  /\ acks' \in SUBSET acks /\ \A a \in acks' : AcksBefore(a) \subseteq acks'
  /\ UNCHANGED <<mgrVars, rd, loop, cur, att, used, file, gap, disk, streamDone, streamErr,
                 jmVars, rpcVars>>

Crash ==
  /\ CanCrash /\ used # Streams
  /\ Ctl!Crash
  /\ wire' = {}
  /\ UNCHANGED <<mgrVars, jmVars, rpcVars>>

-----------------------------------------------------------------------------
(* Everything has come to rest: the job is over, or the last attempt the    *)
(* model has a stream for has failed.                                       *)
AtRest ==
  /\ term # "none" \/ (used = Streams /\ (cur = NoStream \/ rd[cur].st = "closed"))
  /\ wire = {} /\ acks = {} /\ serving = Idle /\ att.pc = "idle"
  /\ UNCHANGED vars

Next ==
  \/ ReadLoopStep \/ Pty \/ SenderStep \/ CoalesceElapsed
  \/ DeliverData \/ DeliverAck
  \/ Serve
  \/ StartJob \/ Reconnect \/ AttemptStep \/ Timeout \/ OutputLoop \/ Flush
  \/ LinkDown \/ Crash
  \/ AtRest

Spec == Init /\ [][Next]_vars

(* Loops that are ready run, packets and ACKs on a connection arrive, RPCs  *)
(* are served.  Nothing makes the PTY produce or end, a connection come     *)
(* back, or a fault happen.                                                 *)
Fairness ==
  /\ WF_vars(ReadLoopStep)
  /\ WF_vars(SenderStep)
  /\ WF_vars(CoalesceElapsed)
  /\ WF_vars(DeliverData)
  /\ WF_vars(DeliverAck)
  /\ WF_vars(Serve)
  /\ WF_vars(AttemptStep)
  /\ WF_vars(OutputLoop)

FairSpec == Spec /\ Fairness

-----------------------------------------------------------------------------
(* Both halves keep their types, and a call is served for one client at a   *)
(* time.                                                                    *)
TypeOK ==
  /\ Mgr!TypeOK /\ Ctl!TypeOK
  /\ attached \subseteq Streams
  /\ client \in BOOLEAN
  /\ pending \in Streams \cup {NoStream}
  /\ serving.pc \in {"idle", "connect", "joining", "attach"}
  /\ (joining # Mgr!NoJoin) <=> (serving.pc = "joining")
  /\ serving.pc = "idle" => client = connected

(* Flow control holds end to end: no reader ever buffers more than the      *)
(* window it advertises, whatever order packets and ACKs arrive in.         *)
WindowKept == \A s \in Streams : Len(rd[s].buf) <= RWnd

(* A prepared stream is corked: no data packet of it travels before         *)
(* StartStream, so the reader's position can still be moved.  JobOutput.tla *)
(* assumes this of its environment.                                         *)
NoDataWhileCorked == \A pk \in wire : ~Ctl!Corked(pk)

(* ClientConnected never refuses: no client asks for a byte the PTY has not *)
(* produced, or to resume a stream whose end was acknowledged.              *)
ResumeNotRefused == serving.pc = "connect" => serving.seq <= total /\ ~closed /\ ~termAcked

(* An output loop that ends with the end of the stream has stored, or       *)
(* counted as missing, every byte before it.                                *)
EofMeansAccounted ==
  \A s \in Streams : loop[s].pc = "finish" /\ loop[s].why = "eof" => ResumesAt = eofPos

(* Only received bytes are given up while there is room: what leaves the    *)
(* ring is dropped because the ring is full, or has reached a reader.  The  *)
(* one exception is a cancel: for a stream nobody reads any more the broker *)
(* answers a packet with a cancel ACK that carries the packet's own         *)
(* position, and RecvAck takes the bytes before it as acknowledged.  A      *)
(* crash loses readers.                                                     *)
ReadersRemembered == \A s \in used : rd[s].st # "none"
GivenUpFor ==
  \/ total' - head' = Cap
  \/ \E s \in Streams : head' <= rd[s].next
  \/ \E a \in acks : a.cancel /\ head' = a.seq
AckMeansReceived == [][ReadersRemembered /\ head' > head => GivenUpFor]_vars

(* The file, its gap, and the flushed copy behave as DurableOutput.tla says. *)
Output == INSTANCE DurableOutput WITH
  produced <- total + chunk, missing <- gap, saved <- disk

OutputIsDurable == Output!Spec

(* With no fault, every byte that enters the ring reaches the file, unless  *)
(* the PTY ends with an error: see ErrorMeansAccounted.                     *)
EveryByteStored == \A p \in 0 .. MaxPos - 1 : total > p ~> ResumesAt > p \/ term = "err"

(* With no fault, the end of the PTY becomes the end of the job.            *)
EndRecorded == term # "none" ~> streamDone

-----------------------------------------------------------------------------
(* What the code does not keep; each has a run that shows how.              *)

(* A packet ahead of the next position waits for the packets before it: an  *)
(* end of the stream that arrives while the stream is corked is not         *)
(* delivered when UpdateNextSeq makes it the next packet.                   *)
WaitingIsAhead ==
  \A s \in Streams : Ctl!Listening(s) => \A p \in rd[s].ooo : p.seq > rd[s].next

(* A PTY that ends with an error (on Linux every PTY does: EIO) ends the    *)
(* job only when all its bytes are stored or counted: Reader.Read returns   *)
(* the error before the bytes it still buffers.                             *)
ErrorMeansAccounted == streamErr => ResumesAt = eofPos

(* A PTY that waits for room while no connection is up gets it, by giving   *)
(* up the oldest bytes: nothing tells the stream manager.                   *)
OutputFlowsWhileDisconnected ==
  (link = NoStream /\ readPc = "wait") ~> (link # NoStream \/ readPc # "wait")
=============================================================================
