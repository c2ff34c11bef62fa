----------------------------- MODULE JobOutput -----------------------------
(***************************************************************************)
(* The local half of a durable job's output: the stream readers of         *)
(* pkg/streamclient (streamreader.go, and the part of streambroker.go that *)
(* routes packets to them), runOutputLoop and restartStreaming of          *)
(* pkg/jobcontroller, the stream lock of jobreconnect.go, and the job's    *)
(* output file in pkg/filestore, cached and flushed.                       *)
(*                                                                         *)
(* A byte is its position in the stream, so the file is a sequence of      *)
(* positions.  The job manager is unconstrained here: any packet may       *)
(* arrive at any time, in any order, and a resume may be answered with any *)
(* position at or after the one asked for.                                 *)
(***************************************************************************)
EXTENDS Integers, Sequences

CONSTANTS
  Streams,      \* stream ids (uuids): each names one attempt to stream
  NoStream,
  RWnd,         \* DefaultStreamRwnd
  ReadSize,     \* the buffer of runOutputLoop
  AckFraction,  \* a read that frees RWnd / AckFraction is acknowledged (5)
  MaxPacket,    \* bound of the model: payload of a packet
  MaxPos        \* bound of the model: bytes of the stream

JobOutputAssumption ==
  /\ NoStream \notin Streams
  /\ RWnd \in Nat \ {0}
  /\ ReadSize \in Nat \ {0}
  /\ AckFraction \in Nat \ {0}
  /\ MaxPacket \in Nat
  /\ MaxPos \in Nat

VARIABLES
  rd,          \* the reader of each stream
  loop,        \* the output loop of each stream
  cur,         \* jobStream.streamId: the stream that may append
  att,         \* the StartJob or restartStreaming call in progress
  used,        \* streams ever created
  file, gap,   \* the cached output file: its bytes, and its totalgap metadata
  disk,        \* what a flush has written: [len, gap]
  streamDone, streamErr,   \* of the job object
  link,        \* the stream whose connection to the job manager is up
  acks         \* ACKs on their way to the job manager

vars == <<rd, loop, cur, att, used, file, gap, disk, streamDone, streamErr, link, acks>>
fileVars == <<file, gap, disk>>
jobVars == <<streamDone, streamErr>>

Position == 0 .. MaxPos
Packet ==
  [sid : Streams, seq : Position, len : 1 .. MaxPacket, kind : {"data"}] \cup
  [sid : Streams, seq : Position, len : {0}, kind : {"eof", "err"}]
MaybeStream == Streams \cup {NoStream}

Reader(st, from) ==
  [st |-> st, next |-> from, buf |-> <<>>, eof |-> FALSE, err |-> FALSE, ooo |-> {}, rwndSent |-> RWnd]
NoLoop == [pc |-> "none", hand |-> <<>>, why |-> "none"]
NoAttempt == [pc |-> "idle", sid |-> NoStream, old |-> NoStream, start |-> 0, gap |-> 0, seq |-> 0]

Init ==
  /\ rd = [s \in Streams |-> Reader("none", 0)]
  /\ loop = [s \in Streams |-> NoLoop]
  /\ cur = NoStream
  /\ att = NoAttempt
  /\ used = {}
  /\ file = <<>> /\ gap = 0 /\ disk = [len |-> 0, gap |-> 0]
  /\ streamDone = FALSE /\ streamErr = FALSE
  /\ link = NoStream
  /\ acks = {}

MinOf(a, b) == IF a <= b THEN a ELSE b
Positions(from, n) == [i \in 1 .. n |-> from + i - 1]
Dropped(s, n) == SubSeq(s, n + 1, Len(s))

ResumePos == Len(file) + gap

-----------------------------------------------------------------------------
(* ACKs.  Broker.processSendAck routes an ACK to the job; only the          *)
(* connection that stream runs on has a writer for it.                      *)
(* Mutant: the window advertised is always the whole one.                   *)
FreeWindowMutant(r) == RWnd

FreeWindow(r) == IF RWnd >= Len(r.buf) THEN RWnd - Len(r.buf) ELSE 0
AckOf(s, r, fin, cancel) ==
  [sid |-> s, seq |-> r.next, rwnd |-> FreeWindow(r), fin |-> fin, cancel |-> cancel]
Send(as) == acks' = acks \cup {a \in as : a.sid = link}
Acked(r) == [r EXCEPT !.rwndSent = FreeWindow(r)]

(* Reader.RecvData.                                                         *)
Listening(s) == rd[s].st = "open" /\ ~rd[s].eof /\ ~rd[s].err

RecvError(pk) ==
  /\ Listening(pk.sid) /\ pk.kind = "err"
  /\ LET r == [rd[pk.sid] EXCEPT !.err = TRUE]
     IN  /\ rd' = [rd EXCEPT ![pk.sid] = Acked(r)]
         /\ Send({AckOf(pk.sid, r, TRUE, FALSE)})

(* A packet ahead of the next position waits, one per position.             *)
RecvAhead(pk) ==
  /\ Listening(pk.sid) /\ pk.kind # "err"
  /\ pk.seq > rd[pk.sid].next
  /\ rd' = IF \E p \in rd[pk.sid].ooo : p.seq = pk.seq THEN rd
           ELSE [rd EXCEPT ![pk.sid].ooo = @ \cup {pk}]
  /\ UNCHANGED acks

RecvBehind(pk) ==
  /\ Listening(pk.sid) /\ pk.kind # "err"
  /\ pk.seq < rd[pk.sid].next
  /\ UNCHANGED <<rd, acks>>

(* processOOOPacketsLocked takes the waiting packets that follow without a  *)
(* hole, sorted by position; one left behind the next position blocks it.   *)
(* Packets of one stream do not overlap, so the walk ends at the first      *)
(* position none of them carries.                                           *)
Carries(p, x) == p.kind = "data" /\ p.seq <= x /\ x < p.seq + p.len
Blocked(r, pk) == \E p \in r.ooo : p.seq < pk.seq + pk.len

DrainsTo(r, pk, to) ==
  IF pk.kind = "eof" \/ Blocked(r, pk) THEN to = pk.seq + pk.len
  ELSE /\ pk.seq + pk.len <= to
       /\ \A x \in pk.seq + pk.len .. to - 1 : \E p \in r.ooo : Carries(p, x)
       /\ \A p \in r.ooo : ~Carries(p, to)

Ends(r, pk, to) ==
  pk.kind = "eof" \/ (~Blocked(r, pk) /\ \E p \in r.ooo : p.kind = "eof" /\ p.seq = to)

AfterOrdered(r, pk, to) ==
  [r EXCEPT !.buf = @ \o Positions(r.next, to - r.next),
            !.next = to,
            !.eof = Ends(r, pk, to),
            !.ooo = IF Ends(r, pk, to) THEN {}
                    ELSE {p \in @ : p.seq >= to \/ Blocked(r, pk)}]

RecvOrdered(pk) ==
  /\ Listening(pk.sid) /\ pk.kind # "err"
  /\ pk.seq = rd[pk.sid].next
  /\ \E to \in Position :
       /\ DrainsTo(rd[pk.sid], pk, to)
       /\ LET r == AfterOrdered(rd[pk.sid], pk, to)
          IN  /\ rd' = [rd EXCEPT ![pk.sid] = Acked(r)]
              /\ Send({AckOf(pk.sid, r, r.eof, FALSE)})

(* A finished reader ignores data until the broker forgets it; then the     *)
(* broker answers with a cancel ACK, at most one a second.  It has no route *)
(* for the ACK of a stream it never knew, as after a restart.               *)
RecvUnread(pk) ==
  /\ ~Listening(pk.sid)
  /\ \/ UNCHANGED acks
     \/ /\ rd[pk.sid].st # "none"
        /\ Send({[sid |-> pk.sid, seq |-> pk.seq, rwnd |-> 0, fin |-> FALSE, cancel |-> TRUE]})
  /\ UNCHANGED rd

RecvData(pk) ==
  /\ RecvError(pk) \/ RecvAhead(pk) \/ RecvBehind(pk) \/ RecvOrdered(pk) \/ RecvUnread(pk)
  /\ UNCHANGED <<loop, cur, att, used, fileVars, jobVars, link>>

(* Reader.Close, of each reader in ss: a reader closes once, with a cancel  *)
(* ACK.                                                                     *)
CloseReaders(r, ss) ==
  [s \in Streams |-> IF s \in ss /\ r[s].st = "open"
                     THEN Acked([r[s] EXCEPT !.st = "closed", !.err = TRUE]) ELSE r[s]]
CloseAcks(r, ss) == {AckOf(s, r[s], FALSE, TRUE) : s \in {t \in ss \cap Streams : r[t].st = "open"}}

-----------------------------------------------------------------------------
(* runOutputLoop: Read, append under the stream lock if still current, then *)
(* act on the end of the stream.                                            *)

AckDue(r) == r.buf = <<>> \/ FreeWindow(r) - r.rwndSent >= RWnd \div AckFraction

(* Mutant: the end of the stream hides what is still buffered too.          *)
LoopReadEndMutant(s) ==
  /\ loop[s].pc = "read"
  /\ rd[s].err \/ rd[s].eof
  /\ loop' = [loop EXCEPT ![s].pc = "append", ![s].why = IF rd[s].err THEN "err" ELSE "eof"]
  /\ UNCHANGED <<rd, acks, cur, att, used, fileVars, jobVars, link>>

(* An error hides what is still buffered; the end of the stream does not.   *)
LoopReadEnd(s) ==
  /\ loop[s].pc = "read"
  /\ rd[s].err \/ (rd[s].buf = <<>> /\ rd[s].eof)
  /\ loop' = [loop EXCEPT ![s].pc = "append", ![s].why = IF rd[s].err THEN "err" ELSE "eof"]
  /\ UNCHANGED <<rd, acks, cur, att, used, fileVars, jobVars, link>>

LoopReadData(s) ==
  /\ loop[s].pc = "read"
  /\ ~rd[s].err /\ rd[s].buf # <<>>
  /\ LET n == MinOf(ReadSize, Len(rd[s].buf))
         r == [rd[s] EXCEPT !.buf = Dropped(@, n)]
     IN  /\ loop' = [loop EXCEPT ![s].pc = "append", ![s].hand = SubSeq(rd[s].buf, 1, n)]
         /\ IF AckDue(r)
            THEN rd' = [rd EXCEPT ![s] = Acked(r)] /\ Send({AckOf(s, r, FALSE, FALSE)})
            ELSE rd' = [rd EXCEPT ![s] = r] /\ UNCHANGED acks
  /\ UNCHANGED <<cur, att, used, fileVars, jobVars, link>>

(* The loop ends and its deferred Close runs.                               *)
EndLoop(s) ==
  /\ loop' = [loop EXCEPT ![s] = [pc |-> "done", hand |-> <<>>, why |-> @.why]]
  /\ rd' = CloseReaders(rd, {s})
  /\ Send(CloseAcks(rd, {s}))

(* Mutant: the append does not ask whether the stream is still current.     *)
LoopAppendMutant(s) ==
  /\ loop[s].pc = "append"
  /\ file' = file \o loop[s].hand
  /\ loop' = [loop EXCEPT ![s].pc = IF loop[s].why = "none" THEN "read" ELSE "finish",
                          ![s].hand = <<>>]
  /\ UNCHANGED <<rd, acks, gap, disk, cur, att, used, jobVars, link>>

LoopAppend(s) ==
  /\ loop[s].pc = "append" /\ cur = s
  /\ file' = file \o loop[s].hand
  /\ loop' = [loop EXCEPT ![s].pc = IF loop[s].why = "none" THEN "read" ELSE "finish",
                          ![s].hand = <<>>]
  /\ UNCHANGED <<rd, acks, gap, disk, cur, att, used, jobVars, link>>

LoopSuperseded(s) ==
  /\ loop[s].pc = "append" /\ cur # s
  /\ EndLoop(s)
  /\ UNCHANGED <<cur, att, used, fileVars, jobVars, link>>

(* The job object records the end after the stream lock is released.        *)
LoopFinish(s) ==
  /\ loop[s].pc = "finish"
  /\ streamDone' = TRUE
  /\ streamErr' = (streamErr \/ loop[s].why = "err")
  /\ EndLoop(s)
  /\ UNCHANGED <<cur, att, used, fileVars, link>>

StartLoop(s) == loop' = [loop EXCEPT ![s].pc = "read"]

-----------------------------------------------------------------------------
(* StartJob and restartStreaming: both switch the job to a new stream, and  *)
(* then talk to the job manager.  One call runs at a time (reconnectGroup). *)

NewStream(s, pc) ==
  /\ att.pc = "idle"
  /\ s \notin used
  /\ used' = used \cup {s}
  /\ cur' = s
  /\ link' = s
  /\ rd' = [rd EXCEPT ![s] = Reader("open", ResumePos)]
  /\ att' = [pc |-> pc, sid |-> s, old |-> cur, start |-> ResumePos, gap |-> gap, seq |-> ResumePos]
  /\ UNCHANGED <<loop, fileVars, jobVars, acks>>

(* Attempts to reconnect are made while no connection carries the job.      *)
StartJob(s) == used = {} /\ NewStream(s, "start")
RestartStreaming(s) == used # {} /\ link = NoStream /\ NewStream(s, "prepare")

(* The call returns; the reader it replaced is closed last.                 *)
Return(ss) ==
  /\ att' = NoAttempt
  /\ rd' = CloseReaders(rd, ss)
  /\ Send(CloseAcks(rd, ss))

Started ==
  /\ att.pc \in {"start", "resume"}
  /\ StartLoop(att.sid)
  /\ Return({att.old})
  /\ UNCHANGED <<cur, used, fileVars, jobVars, link>>

Failed ==
  /\ att.pc \in {"prepare", "resume"}
  /\ Return({att.sid, att.old})
  /\ UNCHANGED <<loop, cur, used, fileVars, jobVars, link>>

(* JobPrepareConnect answers seq.  Past the position asked for, the bytes   *)
(* between are missing, and the file's metadata says so.                    *)
Prepared(seq) ==
  /\ att.pc = "prepare"
  /\ att' = [att EXCEPT !.seq = seq, !.pc = IF seq > att.start THEN "update" ELSE "resume"]
  /\ gap' = IF seq > att.start THEN att.gap + (seq - att.start) ELSE gap
  /\ UNCHANGED <<rd, acks, loop, cur, used, file, disk, jobVars, link>>

(* Mutant: the reader stays where it was.                                   *)
UpdateNextSeqMutant ==
  /\ att.pc = "update"
  /\ att' = [att EXCEPT !.pc = "resume"]
  /\ UNCHANGED <<rd, acks, loop, cur, used, fileVars, jobVars, link>>

UpdateNextSeq ==
  /\ att.pc = "update"
  /\ rd' = [rd EXCEPT ![att.sid].next = att.seq]
  /\ att' = [att EXCEPT !.pc = "resume"]
  /\ UNCHANGED <<acks, loop, cur, used, fileVars, jobVars, link>>

(* JobPrepareConnect answers that the stream was finished before.           *)
AlreadyDone(err) ==
  /\ att.pc = "prepare"
  /\ streamDone' = TRUE
  /\ streamErr' = (streamErr \/ (err /\ ~streamDone))
  /\ Return({att.sid, att.old})
  /\ UNCHANGED <<loop, cur, used, fileVars, link>>

-----------------------------------------------------------------------------

(* The flusher of filestore writes size, metadata and data in a transaction. *)
Flush ==
  /\ disk # [len |-> Len(file), gap |-> gap]
  /\ disk' = [len |-> Len(file), gap |-> gap]
  /\ UNCHANGED <<rd, acks, loop, cur, att, used, file, gap, jobVars, link>>

LinkDown ==
  /\ link # NoStream
  /\ link' = NoStream
  /\ UNCHANGED <<rd, acks, loop, cur, att, used, fileVars, jobVars>>

(* wavesrv dies and starts again: what was flushed and the job object stay. *)
Crash ==
  /\ att.pc # "start"
  /\ rd' = [s \in Streams |-> Reader("none", 0)]
  /\ loop' = [s \in Streams |-> NoLoop]
  /\ cur' = NoStream
  /\ att' = NoAttempt
  /\ link' = NoStream
  /\ file' = SubSeq(file, 1, disk.len)
  /\ gap' = disk.gap
  /\ UNCHANGED <<used, disk, jobVars, acks>>

(* Until StartStream the job manager holds the window at zero: it sends no  *)
(* data (DurableStream.tla checks that), though it may send the end.        *)
Corked(pk) == pk.kind = "data" /\ pk.sid = att.sid /\ att.pc \in {"prepare", "update"}

Next ==
  \/ \E s \in Streams : StartJob(s) \/ RestartStreaming(s)
  \/ Started \/ Failed \/ UpdateNextSeq
  \/ \E seq \in Position : seq >= att.start /\ Prepared(seq)
  \/ \E err \in BOOLEAN : AlreadyDone(err)
  \/ \E pk \in Packet : ~Corked(pk) /\ RecvData(pk)
  \/ \E s \in Streams : LoopReadEnd(s) \/ LoopReadData(s) \/ LoopAppend(s)
                        \/ LoopSuperseded(s) \/ LoopFinish(s)
  \/ Flush \/ LinkDown \/ Crash

Spec == Init /\ [][Next]_vars

-----------------------------------------------------------------------------
Bytes == Seq(Nat)
ReaderType ==
  [st : {"none", "open", "closed"}, next : Nat, buf : Bytes, eof : BOOLEAN, err : BOOLEAN,
   ooo : SUBSET Packet, rwndSent : 0 .. RWnd]

LoopPcs == {"none", "read", "append", "finish", "done"}
LoopType == [pc : LoopPcs, hand : Bytes, why : {"none", "eof", "err"}]
AttemptType ==
  [pc : {"idle", "start", "prepare", "update", "resume"}, sid : MaybeStream, old : MaybeStream,
   start : Nat, gap : Nat, seq : Nat]
AckType == [sid : Streams, seq : Nat, rwnd : 0 .. RWnd, fin : BOOLEAN, cancel : BOOLEAN]

(* Every variable keeps its type.                                           *)
TypeOK ==
  /\ rd \in [Streams -> ReaderType]
  /\ loop \in [Streams -> LoopType]
  /\ cur \in MaybeStream /\ link \in MaybeStream
  /\ att \in AttemptType
  /\ used \subseteq Streams
  /\ file \in Bytes /\ gap \in Nat
  /\ disk \in [len : Nat, gap : Nat]
  /\ streamDone \in BOOLEAN /\ streamErr \in BOOLEAN
  /\ acks \subseteq AckType

(* The file holds the bytes of the stream in order and none twice, through  *)
(* any reconnects, superseded loops and crashes.                            *)
FileInOrder == \A i, j \in 1 .. Len(file) : i < j => file[i] < file[j]

(* The position a resume asks for lies past every byte stored, in the cache *)
(* and in what a crash would fall back to.                                  *)
ResumePastFile ==
  /\ \A i \in 1 .. Len(file) : file[i] < ResumePos
  /\ disk.len <= Len(file)
  /\ \A i \in 1 .. disk.len : file[i] < disk.len + disk.gap

(* What the current stream has received and not stored is exactly what      *)
(* follows the resume position: the file's size and its recorded gap        *)
(* together always name the next byte to be stored.                         *)
InFlight(s) == loop[s].hand \o rd[s].buf

NextByteFollows ==
  cur # NoStream =>
    /\ \A i \in 1 .. Len(InFlight(cur)) : InFlight(cur)[i] = ResumePos + i - 1
    /\ att.pc # "update" => rd[cur].next = ResumePos + Len(InFlight(cur))
=============================================================================
