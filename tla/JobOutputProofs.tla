--------------------------- MODULE JobOutputProofs ---------------------------
(***************************************************************************)
(* Proofs about JobOutput.tla, for every window, buffer and number of      *)
(* streams: the output file stays in order through reconnects, superseded  *)
(* loops, gaps and crashes, and always names the next byte.                *)
(***************************************************************************)
EXTENDS JobOutput, SequenceTheorems, TLAPS

-----------------------------------------------------------------------------
(* Runs of positions                                                        *)

(* The sequence holds the positions from `from` on, without a hole.         *)
Run(q, from) == \A i \in 1 .. Len(q) : q[i] = from + i - 1

(* Positions is such a sequence.                                            *)
LEMMA PositionsRun ==
  ASSUME NEW from \in Nat, NEW n \in Nat
  PROVE  Positions(from, n) \in Bytes /\ Len(Positions(from, n)) = n /\ Run(Positions(from, n), from)
<1>1. \A i \in 1 .. n : from + i - 1 \in Nat
  OBVIOUS
<1>2. Positions(from, n) \in [1 .. n -> Nat]
  BY <1>1 DEF Positions
<1>3. Positions(from, n) \in Seq(Nat)
  BY <1>2, SeqDef
<1>4. Len(Positions(from, n)) = n
  BY <1>2, <1>3, LenProperties
<1> QED
  BY <1>3, <1>4 DEF Bytes, Run, Positions

(* A run that goes on where another ends goes on with it.                   *)
LEMMA RunJoined ==
  ASSUME NEW q \in Bytes, NEW r \in Bytes, NEW from \in Nat
  PROVE  /\ q \o r \in Bytes /\ Len(q \o r) = Len(q) + Len(r)
         /\ Run(q, from) /\ Run(r, from + Len(q)) => Run(q \o r, from)
<1>1. Len(q) \in Nat /\ Len(r) \in Nat
  BY LenProperties DEF Bytes
<1>2. /\ q \o r \in Seq(Nat) /\ Len(q \o r) = Len(q) + Len(r)
      /\ \A i \in 1 .. Len(q) + Len(r) : (q \o r)[i] = IF i <= Len(q) THEN q[i] ELSE r[i - Len(q)]
  BY ConcatProperties DEF Bytes
<1>3. ASSUME Run(q, from), Run(r, from + Len(q)), NEW i \in 1 .. Len(q) + Len(r)
      PROVE  (q \o r)[i] = from + i - 1
  <2>1. CASE i <= Len(q)
    BY <1>1, <1>2, <1>3, <2>1 DEF Run
  <2>2. CASE i > Len(q)
    <3>1. i - Len(q) \in 1 .. Len(r)
      BY <1>1, <2>2
    <3>2. r[i - Len(q)] = from + Len(q) + (i - Len(q)) - 1
      BY <1>3, <3>1 DEF Run
    <3>3. (q \o r)[i] = r[i - Len(q)]
      BY <1>1, <1>2, <2>2
    <3> QED
      BY <1>1, <3>2, <3>3
  <2> QED
    BY <1>1, <2>1, <2>2
<1> QED
  BY <1>2, <1>3 DEF Bytes, Run

(* A run falls into the runs of its parts.                                  *)
LEMMA RunSplit ==
  ASSUME NEW q \in Bytes, NEW r \in Bytes, NEW from \in Nat, Run(q \o r, from)
  PROVE  Run(q, from) /\ Run(r, from + Len(q))
<1>1. Len(q) \in Nat /\ Len(r) \in Nat
  BY LenProperties DEF Bytes
<1>2. /\ Len(q \o r) = Len(q) + Len(r)
      /\ \A i \in 1 .. Len(q) + Len(r) : (q \o r)[i] = IF i <= Len(q) THEN q[i] ELSE r[i - Len(q)]
  BY ConcatProperties DEF Bytes
<1>3. ASSUME NEW i \in 1 .. Len(q) PROVE q[i] = from + i - 1
  <2>1. i \in 1 .. Len(q) + Len(r)
    BY <1>1
  <2> QED
    BY <1>1, <1>2, <2>1 DEF Run
<1>4. ASSUME NEW i \in 1 .. Len(r) PROVE r[i] = from + Len(q) + i - 1
  <2>1. Len(q) + i \in 1 .. Len(q) + Len(r) /\ ~(Len(q) + i <= Len(q)) /\ (Len(q) + i) - Len(q) = i
    BY <1>1
  <2>2. (q \o r)[Len(q) + i] = from + (Len(q) + i) - 1
    BY <1>2, <2>1 DEF Run
  <2>3. (q \o r)[Len(q) + i] = r[i]
    BY <1>2, <2>1
  <2> QED
    BY <1>1, <2>2, <2>3
<1> QED
  BY <1>3, <1>4 DEF Run

(* Nothing is a run from anywhere, and adds nothing.                        *)
LEMMA NothingRuns ==
  /\ <<>> \in Bytes /\ Len(<<>>) = 0 /\ \A from : Run(<<>>, from)
  /\ \A q \in Bytes : q \o <<>> = q /\ <<>> \o q = q
<1>1. <<>> \in Seq(Nat) /\ Len(<<>>) = 0
  BY EmptySeq
<1>2. \A q \in Seq(Nat) : q \o <<>> = q /\ <<>> \o q = q
  BY ConcatEmptySeq
<1> QED
  BY <1>1, <1>2 DEF Bytes, Run

(* Joining does not depend on the order of joining.                         *)
LEMMA BytesAssociate ==
  ASSUME NEW q \in Bytes, NEW r \in Bytes, NEW t \in Bytes
  PROVE  q \o (r \o t) = (q \o r) \o t
<1> DEFINE S == Nat
<1>1. q \in Seq(S) /\ r \in Seq(S) /\ t \in Seq(S)
  BY DEF Bytes
<1> HIDE DEF S
<1>2. (q \o r) \o t = q \o (r \o t)
  BY <1>1, ConcatAssociative
<1> QED
  BY <1>2

(* The first n bytes and the rest are the whole.                            *)
LEMMA Cut ==
  ASSUME NEW q \in Bytes, NEW n \in 0 .. Len(q)
  PROVE  /\ SubSeq(q, 1, n) \in Bytes /\ Dropped(q, n) \in Bytes
         /\ Len(SubSeq(q, 1, n)) = n /\ \A i \in 1 .. n : SubSeq(q, 1, n)[i] = q[i]
         /\ SubSeq(q, 1, n) \o Dropped(q, n) = q
<1> DEFINE a == SubSeq(q, 1, n)
           b == SubSeq(q, n + 1, Len(q))
<1>0. Len(q) \in Nat /\ \A i \in 1 .. Len(q) : q[i] \in Nat
  BY LenProperties, ElementOfSeq DEF Bytes
<1>1. a \in Seq(Nat) /\ Len(a) = n /\ \A i \in 1 .. n : a[i] = q[i]
  <2>1. 1 \in Int /\ n \in Int /\ \A i \in 1 .. n : q[i] \in Nat
    BY <1>0
  <2>2. a \in Seq(Nat) /\ Len(a) = (IF 1 <= n THEN n - 1 + 1 ELSE 0)
        /\ \A i \in 1 .. n - 1 + 1 : a[i] = q[1 + i - 1]
    BY <2>1, SubSeqProperties
  <2> QED
    BY <1>0, <2>2
<1>2. b \in Seq(Nat) /\ Len(b) = Len(q) - n /\ \A i \in 1 .. Len(q) - n : b[i] = q[n + i]
  <2>1. n + 1 \in Int /\ Len(q) \in Int /\ \A i \in n + 1 .. Len(q) : q[i] \in Nat
    BY <1>0
  <2>2. b \in Seq(Nat) /\ Len(b) = (IF n + 1 <= Len(q) THEN Len(q) - (n + 1) + 1 ELSE 0)
        /\ \A i \in 1 .. Len(q) - (n + 1) + 1 : b[i] = q[(n + 1) + i - 1]
    BY <2>1, SubSeqProperties
  <2>3. \A i \in 1 .. Len(q) - n : i \in 1 .. Len(q) - (n + 1) + 1 /\ (n + 1) + i - 1 = n + i
    BY <1>0
  <2>4. Len(b) = Len(q) - n
    BY <1>0, <2>2
  <2> QED
    BY <2>2, <2>3, <2>4
<1> HIDE DEF a, b
<1>3. a \o b \in Seq(Nat) /\ Len(a \o b) = Len(q)
      /\ \A i \in 1 .. Len(q) : (a \o b)[i] = IF i <= n THEN a[i] ELSE b[i - n]
  <2>1. a \o b \in Seq(Nat) /\ Len(a \o b) = Len(a) + Len(b)
        /\ \A i \in 1 .. Len(a) + Len(b) : (a \o b)[i] = IF i <= Len(a) THEN a[i] ELSE b[i - Len(a)]
    BY <1>1, <1>2, ConcatProperties
  <2>2. Len(a) + Len(b) = Len(q) /\ Len(a) = n
    BY <1>0, <1>1, <1>2
  <2> QED
    BY <2>1, <2>2
<1>4. ASSUME NEW i \in 1 .. Len(q) PROVE (a \o b)[i] = q[i]
  <2>1. CASE i <= n
    BY <1>0, <1>1, <1>3, <2>1
  <2>2. CASE i > n
    <3>1. i - n \in 1 .. Len(q) - n /\ n + (i - n) = i
      BY <1>0, <2>2
    <3> QED
      BY <1>2, <1>3, <2>2, <3>1
  <2>3. i <= n \/ i > n
    BY <1>0
  <2> QED
    BY <2>1, <2>2, <2>3
<1>5. a \o b = q
  <2>1. a \o b \in Seq(Nat) /\ q \in Seq(Nat) /\ Len(a \o b) = Len(q)
        /\ \A i \in 1 .. Len(a \o b) : (a \o b)[i] = q[i]
    BY <1>3, <1>4 DEF Bytes
  <2> QED
    BY <2>1, SeqEqual
<1> QED
  BY <1>1, <1>2, <1>5 DEF a, b, Bytes, Dropped

-----------------------------------------------------------------------------
(* The types                                                                *)

(* What is known of a packet.                                               *)
LEMMA PacketFacts ==
  ASSUME JobOutputAssumption, NEW pk \in Packet
  PROVE  /\ pk.sid \in Streams /\ pk.seq \in Nat /\ pk.len \in Nat
         /\ pk.kind \in {"data", "eof", "err"} /\ (pk.kind # "data" => pk.len = 0)
  BY DEF JobOutputAssumption, Packet, Position

(* Recording what was advertised changes nothing that is received.          *)
LEMMA AckedReader ==
  ASSUME JobOutputAssumption, NEW r \in ReaderType
  PROVE  /\ FreeWindow(r) \in 0 .. RWnd /\ Acked(r) \in ReaderType
         /\ Acked(r).buf = r.buf /\ Acked(r).next = r.next
<1>1. r.buf \in Seq(Nat)
  BY DEF ReaderType, Bytes
<1>2. Len(r.buf) \in Nat /\ RWnd \in Nat
  BY <1>1, LenProperties DEF JobOutputAssumption
<1>3. FreeWindow(r) \in 0 .. RWnd
  BY <1>2 DEF FreeWindow
<1> HIDE DEF FreeWindow
<1>4. Acked(r) \in ReaderType
  BY <1>3 DEF Acked, ReaderType
<1>5. Acked(r).buf = r.buf /\ Acked(r).next = r.next
  BY DEF Acked, ReaderType
<1> QED
  BY <1>3, <1>4, <1>5

(* An ACK of a reader is an ACK.                                            *)
LEMMA AckTyped ==
  ASSUME JobOutputAssumption, NEW s \in Streams, NEW r \in ReaderType,
         NEW fin \in BOOLEAN, NEW cancel \in BOOLEAN
  PROVE  AckOf(s, r, fin, cancel) \in AckType
<1>1. FreeWindow(r) \in 0 .. RWnd /\ r.next \in Nat
  BY AckedReader DEF ReaderType
<1> QED
  BY <1>1 DEF AckOf, AckType

(* So is what is sent, where that is ACKs.                                  *)
LEMMA SendTyped ==
  ASSUME TypeOK, NEW as, as \subseteq AckType, Send(as)
  PROVE  acks' \subseteq AckType
  BY DEF TypeOK, Send

(* A reader that closes keeps what it holds.                                *)
LEMMA ClosedReaders ==
  ASSUME JobOutputAssumption, TypeOK, NEW ss
  PROVE  /\ CloseReaders(rd, ss) \in [Streams -> ReaderType]
         /\ CloseAcks(rd, ss) \subseteq AckType
         /\ \A s \in Streams : /\ CloseReaders(rd, ss)[s].buf = rd[s].buf
                               /\ CloseReaders(rd, ss)[s].next = rd[s].next
<1>1. ASSUME NEW s \in Streams
      PROVE  /\ CloseReaders(rd, ss)[s] \in ReaderType
             /\ CloseReaders(rd, ss)[s].buf = rd[s].buf
             /\ CloseReaders(rd, ss)[s].next = rd[s].next
  <2> DEFINE r == [rd[s] EXCEPT !.st = "closed", !.err = TRUE]
  <2>1. rd[s] \in ReaderType
    BY DEF TypeOK
  <2>2. r \in ReaderType /\ r.buf = rd[s].buf /\ r.next = rd[s].next
    BY <2>1 DEF ReaderType
  <2>3. CloseReaders(rd, ss)[s] \in {rd[s], Acked(r)}
    BY DEF CloseReaders
  <2> HIDE DEF r
  <2>4. Acked(r) \in ReaderType /\ Acked(r).buf = rd[s].buf /\ Acked(r).next = rd[s].next
    BY <2>2, AckedReader
  <2> QED
    BY <2>1, <2>3, <2>4
<1>2. CloseReaders(rd, ss) \in [Streams -> ReaderType]
  BY <1>1 DEF CloseReaders
<1>3. ASSUME NEW s \in Streams PROVE AckOf(s, rd[s], FALSE, TRUE) \in AckType
  <2>1. rd[s] \in ReaderType
    BY DEF TypeOK
  <2> QED
    BY <2>1, AckTyped
<1>4. CloseAcks(rd, ss) \subseteq AckType
  BY <1>3 DEF CloseAcks
<1> QED
  BY <1>1, <1>2, <1>4

(* What the readers hold and where they are is as it was.                   *)
SameReaders == \A s \in Streams : rd'[s].buf = rd[s].buf /\ rd'[s].next = rd[s].next

(* A reader has taken in n more bytes, those that follow.                   *)
Received(s, n) ==
  /\ rd'[s].buf = rd[s].buf \o Positions(rd[s].next, n)
  /\ rd'[s].next = rd[s].next + n

(* Closing readers, and what a call does when it returns.                   *)
LEMMA ReturnEffect ==
  ASSUME JobOutputAssumption, TypeOK, NEW ss,
         rd' = CloseReaders(rd, ss), Send(CloseAcks(rd, ss))
  PROVE  rd' \in [Streams -> ReaderType] /\ acks' \subseteq AckType /\ SameReaders
  BY ClosedReaders, SendTyped DEF SameReaders

(* A packet in order moves the reader to the end of what follows.           *)
LEMMA OrderedEffect ==
  ASSUME JobOutputAssumption, TypeOK, NEW pk \in Packet, RecvOrdered(pk)
  PROVE  /\ rd' \in [Streams -> ReaderType] /\ acks' \subseteq AckType
         /\ \A s \in Streams \ {pk.sid} : rd'[s] = rd[s]
         /\ \E n \in Nat : Received(pk.sid, n) /\ (pk.kind # "data" => n = 0)
<1> DEFINE old == rd[pk.sid]
<1>1. /\ pk.sid \in Streams /\ pk.seq \in Nat /\ pk.len \in Nat
      /\ pk.kind \in {"data", "eof", "err"} /\ (pk.kind # "data" => pk.len = 0)
  BY PacketFacts
<1>2. old \in ReaderType
  BY <1>1 DEF TypeOK
<1>3. old.next = pk.seq /\ old.next \in Nat /\ old.buf \in Bytes /\ pk.kind # "err"
  BY <1>1, <1>2 DEF RecvOrdered, ReaderType
<1>4. PICK to \in Position :
        /\ DrainsTo(old, pk, to)
        /\ rd' = [rd EXCEPT ![pk.sid] = Acked(AfterOrdered(old, pk, to))]
        /\ Send({AckOf(pk.sid, AfterOrdered(old, pk, to), AfterOrdered(old, pk, to).eof, FALSE)})
  BY DEF RecvOrdered
<1>5. to \in Nat /\ pk.seq + pk.len <= to /\ (pk.kind # "data" => to = pk.seq)
  <2>1. to \in Nat
    BY DEF Position, JobOutputAssumption
  <2>2. CASE pk.kind = "eof" \/ Blocked(old, pk)
    <3>1. to = pk.seq + pk.len
      BY <1>4, <2>2 DEF DrainsTo
    <3> QED
      BY <1>1, <2>1, <3>1
  <2>3. CASE ~(pk.kind = "eof" \/ Blocked(old, pk))
    <3>1. pk.seq + pk.len <= to
      BY <1>4, <2>3 DEF DrainsTo
    <3> QED
      BY <1>1, <1>3, <2>1, <2>3, <3>1
  <2> QED
    BY <2>2, <2>3
<1> DEFINE n == to - old.next
           new == AfterOrdered(old, pk, to)
<1>6. n \in Nat /\ old.next + n = to /\ (pk.kind # "data" => n = 0)
  BY <1>1, <1>3, <1>5
<1>7. old.buf \o Positions(old.next, n) \in Bytes
  <2>1. Positions(old.next, n) \in Bytes
    BY <1>3, <1>6, PositionsRun
  <2> QED
    BY <1>3, <2>1, RunJoined
<1>8. new \in ReaderType /\ new.buf = old.buf \o Positions(old.next, n) /\ new.next = to
  <2>1. Ends(old, pk, to) \in BOOLEAN
    BY DEF Ends
  <2>2. old.ooo \subseteq Packet
    BY <1>2 DEF ReaderType
  <2> DEFINE left == IF Ends(old, pk, to) THEN {} ELSE {p \in old.ooo : p.seq >= to \/ Blocked(old, pk)}
             buf == old.buf \o Positions(old.next, n)
  <2>3. left \in SUBSET Packet
    BY <2>2
  <2>4. new = [old EXCEPT !.buf = buf, !.next = to, !.eof = Ends(old, pk, to), !.ooo = left]
    BY DEF AfterOrdered
  <2>5. buf \in Bytes
    BY <1>7
  <2> HIDE DEF left, buf, new
  <2>6. new \in ReaderType /\ new.buf = buf /\ new.next = to
    BY <1>2, <1>5, <2>1, <2>3, <2>4, <2>5 DEF ReaderType
  <2> QED
    BY <2>6 DEF buf
<1> HIDE DEF new, n
<1>9. Acked(new) \in ReaderType /\ Acked(new).buf = new.buf /\ Acked(new).next = new.next
  BY <1>8, AckedReader
<1>10. rd' = [rd EXCEPT ![pk.sid] = Acked(new)] /\ Send({AckOf(pk.sid, new, new.eof, FALSE)})
  BY <1>4 DEF new
<1>11. rd' \in [Streams -> ReaderType] /\ rd'[pk.sid] = Acked(new)
       /\ \A s \in Streams \ {pk.sid} : rd'[s] = rd[s]
  BY <1>1, <1>9, <1>10 DEF TypeOK
<1>12. acks' \subseteq AckType
  <2>1. new.eof \in BOOLEAN
    BY <1>8 DEF ReaderType
  <2>2. AckOf(pk.sid, new, new.eof, FALSE) \in AckType
    BY <1>1, <1>8, <2>1, AckTyped
  <2> QED
    BY <1>10, <2>2, SendTyped
<1>13. Received(pk.sid, n)
  BY <1>6, <1>8, <1>9, <1>11 DEF Received
<1> QED
  BY <1>6, <1>11, <1>12, <1>13

(* Whatever packet arrives, its reader takes in bytes that follow, or none, *)
(* and the other readers are left alone.                                    *)
LEMMA RecvEffect ==
  ASSUME JobOutputAssumption, TypeOK, NEW pk \in Packet, RecvData(pk)
  PROVE  /\ rd' \in [Streams -> ReaderType] /\ acks' \subseteq AckType
         /\ \A s \in Streams \ {pk.sid} : rd'[s] = rd[s]
         /\ \E n \in Nat : Received(pk.sid, n) /\ (pk.kind # "data" => n = 0)
<1> DEFINE old == rd[pk.sid]
<1>1. pk.sid \in Streams /\ pk.seq \in Nat
  BY PacketFacts
<1>2. old \in ReaderType /\ old.buf \in Bytes /\ old.next \in Nat
  BY <1>1 DEF TypeOK, ReaderType
<1>3. ASSUME rd'[pk.sid].buf = old.buf, rd'[pk.sid].next = old.next
      PROVE  \E n \in Nat : Received(pk.sid, n) /\ (pk.kind # "data" => n = 0)
  <2>1. Positions(old.next, 0) = <<>>
    <3>1. Positions(old.next, 0) \in Bytes /\ Len(Positions(old.next, 0)) = 0
      BY <1>2, PositionsRun
    <3> QED
      BY <3>1, EmptySeq DEF Bytes
  <2>2. Received(pk.sid, 0)
    <3>1. old.buf \o <<>> = old.buf
      BY <1>2, NothingRuns
    <3>2. old.next + 0 = old.next
      BY <1>2
    <3> QED
      BY <1>3, <2>1, <3>1, <3>2 DEF Received
  <2> QED
    BY <2>2
<1>4. CASE RecvError(pk)
  <2> DEFINE r == [old EXCEPT !.err = TRUE]
  <2>1. r \in ReaderType /\ r.buf = old.buf /\ r.next = old.next
    BY <1>2 DEF ReaderType
  <2>2. rd' = [rd EXCEPT ![pk.sid] = Acked(r)] /\ Send({AckOf(pk.sid, r, TRUE, FALSE)})
    BY <1>4 DEF RecvError
  <2> HIDE DEF r
  <2>3. Acked(r) \in ReaderType /\ Acked(r).buf = old.buf /\ Acked(r).next = old.next
    BY <2>1, AckedReader
  <2>4. AckOf(pk.sid, r, TRUE, FALSE) \in AckType
    BY <1>1, <2>1, AckTyped
  <2>5. acks' \subseteq AckType
    BY <2>2, <2>4, SendTyped
  <2>6. rd' \in [Streams -> ReaderType] /\ rd'[pk.sid] = Acked(r)
        /\ \A s \in Streams \ {pk.sid} : rd'[s] = rd[s]
    BY <1>1, <2>2, <2>3 DEF TypeOK
  <2> QED
    BY <1>3, <2>3, <2>5, <2>6
<1>5. CASE RecvAhead(pk)
  <2> DEFINE r == [old EXCEPT !.ooo = @ \cup {pk}]
  <2>1. r \in ReaderType /\ r.buf = old.buf /\ r.next = old.next
    BY <1>2 DEF ReaderType
  <2>2. rd' = rd \/ rd' = [rd EXCEPT ![pk.sid] = r]
    BY <1>5 DEF RecvAhead
  <2>3. acks' \subseteq AckType
    BY <1>5 DEF RecvAhead, TypeOK
  <2> HIDE DEF r
  <2>4. rd' \in [Streams -> ReaderType] /\ rd'[pk.sid] \in {old, r}
        /\ \A s \in Streams \ {pk.sid} : rd'[s] = rd[s]
    BY <1>1, <2>1, <2>2 DEF TypeOK
  <2> QED
    BY <1>3, <2>1, <2>3, <2>4
<1>6. CASE RecvBehind(pk)
  BY <1>3, <1>6 DEF RecvBehind, TypeOK
<1>7. CASE RecvOrdered(pk)
  BY <1>7, OrderedEffect
<1>8. CASE RecvUnread(pk)
  <2> DEFINE a == [sid |-> pk.sid, seq |-> pk.seq, rwnd |-> 0, fin |-> FALSE, cancel |-> TRUE]
  <2>1. a \in AckType
    BY <1>1 DEF AckType, JobOutputAssumption
  <2>2. rd' = rd /\ (acks' = acks \/ Send({a}))
    BY <1>8 DEF RecvUnread
  <2> HIDE DEF a
  <2>3. acks' \subseteq AckType
    BY <2>1, <2>2, SendTyped DEF TypeOK
  <2> QED
    BY <1>3, <2>2, <2>3 DEF TypeOK
<1> QED
  BY <1>4, <1>5, <1>6, <1>7, <1>8 DEF RecvData

-----------------------------------------------------------------------------
(* The invariant                                                            *)

(* A loop has bytes in hand only while it appends them, and runs only for a *)
(* stream that was made.                                                    *)
Hands ==
  \A s \in Streams :
    /\ loop[s].pc # "append" => loop[s].hand = <<>>
    /\ s \notin used => loop[s].pc = "none"

(* While a call is under way its stream is the current one and has no loop: *)
(* the file cannot grow, and until the job manager may send, nothing is     *)
(* received, so that the positions the call computed are still right.       *)
Attempting ==
  /\ cur \in used \cup {NoStream}
  /\ att.pc # "idle" => att.sid = cur /\ cur # NoStream /\ loop[cur].pc = "none"
  /\ att.pc \in {"prepare", "update"} => rd[cur].buf = <<>>
  /\ att.pc = "prepare" => att.start = ResumePos /\ att.gap = gap
  /\ att.pc = "update" => att.seq = ResumePos

Ordered == FileInOrder /\ ResumePastFile

Inv == TypeOK /\ Ordered /\ NextByteFollows /\ Hands /\ Attempting

(* What the types say of one stream.                                        *)
LEMMA StreamFacts ==
  ASSUME TypeOK, NEW s \in Streams
  PROVE  /\ rd[s] \in ReaderType /\ rd[s].buf \in Bytes /\ rd[s].next \in Nat
         /\ loop[s] \in LoopType /\ loop[s].pc \in LoopPcs /\ loop[s].hand \in Bytes
         /\ InFlight(s) \in Bytes /\ Len(InFlight(s)) = Len(loop[s].hand) + Len(rd[s].buf)
<1>1. rd[s] \in ReaderType /\ loop[s] \in LoopType
  BY DEF TypeOK
<1>2. rd[s].buf \in Bytes /\ rd[s].next \in Nat /\ loop[s].pc \in LoopPcs /\ loop[s].hand \in Bytes
  BY <1>1 DEF ReaderType, LoopType
<1>3. InFlight(s) \in Bytes /\ Len(InFlight(s)) = Len(loop[s].hand) + Len(rd[s].buf)
  BY <1>2, RunJoined DEF InFlight
<1> QED
  BY <1>1, <1>2, <1>3

(* The file's position is a number.                                         *)
LEMMA ResumeFacts ==
  ASSUME TypeOK
  PROVE  Len(file) \in Nat /\ gap \in Nat /\ ResumePos \in Nat /\ cur \in Streams \cup {NoStream}
<1>1. Len(file) \in Nat
  BY LenProperties DEF TypeOK, Bytes
<1> QED
  BY <1>1 DEF TypeOK, ResumePos, MaybeStream

(* A file nobody touches stays in order.                                    *)
LEMMA OrderedKept ==
  ASSUME Ordered, UNCHANGED fileVars PROVE Ordered'
  BY DEF Ordered, FileInOrder, ResumePastFile, ResumePos, fileVars

(* A current stream whose bytes in flight are the same ones still follows.  *)
LEMMA FollowsKept ==
  ASSUME NextByteFollows, UNCHANGED <<file, gap, cur>>,
         cur # NoStream => InFlight(cur)' = InFlight(cur) /\ rd'[cur].next = rd[cur].next,
         att'.pc = att.pc \/ att.pc # "update"
  PROVE  NextByteFollows'
<1> SUFFICES ASSUME cur # NoStream
             PROVE  /\ \A i \in 1 .. Len(InFlight(cur)') : InFlight(cur)'[i] = ResumePos' + i - 1
                    /\ att'.pc # "update" => rd'[cur].next = ResumePos' + Len(InFlight(cur)')
  BY DEF NextByteFollows
<1>1. InFlight(cur)' = InFlight(cur) /\ rd'[cur].next = rd[cur].next /\ ResumePos' = ResumePos
  BY DEF ResumePos
<1>2. \A i \in 1 .. Len(InFlight(cur)) : InFlight(cur)[i] = ResumePos + i - 1
  BY DEF NextByteFollows
<1>3. att.pc # "update" => rd[cur].next = ResumePos + Len(InFlight(cur))
  BY DEF NextByteFollows
<1>4. att'.pc # "update" => att.pc # "update"
  OBVIOUS
<1> QED
  BY <1>1, <1>2, <1>3, <1>4

-----------------------------------------------------------------------------
(* The steps: packets                                                       *)

(* What arrives follows what is in flight, or adds nothing to it.           *)
LEMMA RecvKept ==
  ASSUME JobOutputAssumption, Inv, NEW pk \in Packet, ~Corked(pk), RecvData(pk)
  PROVE  Inv'
<1>1. pk.sid \in Streams /\ (pk.kind # "data" => pk.len = 0)
  BY PacketFacts
<1>2. /\ rd' \in [Streams -> ReaderType] /\ acks' \subseteq AckType
      /\ \A s \in Streams \ {pk.sid} : rd'[s] = rd[s]
  BY RecvEffect DEF Inv
<1>3. PICK n \in Nat : Received(pk.sid, n) /\ (pk.kind # "data" => n = 0)
  BY RecvEffect DEF Inv
<1>4. UNCHANGED <<loop, cur, att, used, file, gap, disk, streamDone, streamErr, link>>
  BY DEF RecvData, fileVars, jobVars
<1>5. TypeOK'
  BY <1>2, <1>4 DEF Inv, TypeOK
<1>6. Ordered'
  BY <1>4, OrderedKept DEF Inv, fileVars
<1>7. Hands'
  BY <1>4 DEF Inv, Hands
<1>8. CASE cur # pk.sid
  <2>1. cur # NoStream => rd'[cur] = rd[cur]
    BY <1>2, <1>8, ResumeFacts DEF Inv
  <2>2. cur # NoStream => InFlight(cur)' = InFlight(cur)
    BY <1>4, <2>1 DEF InFlight
  <2>3. NextByteFollows'
    BY <1>4, <2>1, <2>2, FollowsKept DEF Inv
  <2>4. Attempting'
    <3>1. att.pc \in {"prepare", "update"} => rd'[cur].buf = <<>>
      BY <2>1 DEF Inv, Attempting
    <3> QED
      BY <1>4, <3>1 DEF Inv, Attempting, ResumePos
  <2> QED
    BY <1>5, <1>6, <1>7, <2>3, <2>4 DEF Inv
<1>9. CASE cur = pk.sid /\ att.pc \in {"prepare", "update"}
  <2>1. n = 0
    BY <1>3, <1>9, PacketFacts DEF Corked, Inv, Attempting
  <2>2. rd[cur].buf = <<>> /\ rd[cur].next \in Nat
    BY <1>1, <1>9, StreamFacts DEF Inv, Attempting
  <2>3. Positions(rd[cur].next, 0) = <<>>
    <3>1. Positions(rd[cur].next, 0) \in Bytes /\ Len(Positions(rd[cur].next, 0)) = 0
      BY <2>2, PositionsRun
    <3> QED
      BY <3>1, EmptySeq DEF Bytes
  <2>4. rd'[cur].buf = <<>> /\ rd'[cur].next = rd[cur].next
    <3>1. <<>> \o <<>> = <<>>
      BY NothingRuns
    <3>2. rd[cur].next + 0 = rd[cur].next
      BY <2>2
    <3> QED
      BY <1>3, <1>9, <2>1, <2>2, <2>3, <3>1, <3>2 DEF Received
  <2>5. InFlight(cur)' = InFlight(cur)
    BY <1>4, <2>2, <2>4 DEF InFlight
  <2>6. NextByteFollows'
    BY <1>4, <2>4, <2>5, FollowsKept DEF Inv
  <2>7. Attempting'
    BY <1>4, <2>4 DEF Inv, Attempting, ResumePos
  <2> QED
    BY <1>5, <1>6, <1>7, <2>6, <2>7 DEF Inv
<1>10. CASE cur = pk.sid /\ att.pc \notin {"prepare", "update"}
  <2> DEFINE flight == InFlight(cur)
             more == Positions(rd[cur].next, n)
  <2>1. /\ rd[cur].buf \in Bytes /\ rd[cur].next \in Nat /\ loop[cur].hand \in Bytes
        /\ flight \in Bytes /\ ResumePos \in Nat /\ Len(flight) \in Nat /\ cur # NoStream
    <3>1. flight \in Bytes /\ cur \in Streams
      BY <1>1, <1>10, StreamFacts DEF Inv
    <3>2. Len(flight) \in Nat
      BY <3>1, LenProperties DEF Bytes
    <3>3. cur # NoStream
      BY <3>1 DEF JobOutputAssumption
    <3>4. rd[cur].buf \in Bytes /\ rd[cur].next \in Nat /\ loop[cur].hand \in Bytes
      BY <3>1, StreamFacts DEF Inv
    <3>5. ResumePos \in Nat
      BY ResumeFacts DEF Inv
    <3> QED
      BY <3>1, <3>2, <3>3, <3>4, <3>5
  <2>2. Run(flight, ResumePos) /\ rd[cur].next = ResumePos + Len(flight)
    BY <1>10, <2>1 DEF Inv, NextByteFollows, Run
  <2>3. more \in Bytes /\ Len(more) = n /\ Run(more, rd[cur].next)
    BY <2>1, PositionsRun
  <2>4. InFlight(cur)' = flight \o more
    <3> HIDE DEF more
    <3>1. InFlight(cur)' = loop[cur].hand \o (rd[cur].buf \o more)
      BY <1>3, <1>4, <1>10 DEF InFlight, Received, more
    <3>2. rd[cur].buf \in Bytes /\ loop[cur].hand \in Bytes /\ more \in Bytes
      BY <2>1, <2>3
    <3>3. loop[cur].hand \o (rd[cur].buf \o more) = (loop[cur].hand \o rd[cur].buf) \o more
      BY <3>2, BytesAssociate, Zenon
    <3> QED
      BY <3>1, <3>3 DEF InFlight
  <2> HIDE DEF flight, more
  <2>5. Run(flight \o more, ResumePos) /\ Len(flight \o more) = Len(flight) + n
    BY <2>1, <2>2, <2>3, RunJoined
  <2>6. rd'[cur].next = ResumePos + (Len(flight) + n)
    <3>1. rd'[cur].next = rd[cur].next + n
      BY <1>3, <1>10 DEF Received
    <3> QED
      BY <2>1, <2>2, <3>1
  <2>7. ResumePos' = ResumePos /\ cur' = cur /\ att' = att
    BY <1>4 DEF ResumePos
  <2>8. NextByteFollows'
    BY <2>4, <2>5, <2>6, <2>7 DEF NextByteFollows, Run
  <2>9. Attempting'
    BY <1>4, <1>10, <2>7 DEF Inv, Attempting
  <2> QED
    BY <1>5, <1>6, <1>7, <2>8, <2>9 DEF Inv
<1> QED
  BY <1>8, <1>9, <1>10

-----------------------------------------------------------------------------
(* The steps: loops                                                         *)

(* A step of a loop that stores nothing keeps what it has in flight.        *)
LEMMA LoopMoves ==
  ASSUME JobOutputAssumption, Inv, NEW s \in Streams, loop[s].pc # "none",
         \A t \in Streams \ {s} :
           loop'[t] = loop[t] /\ rd'[t].buf = rd[t].buf /\ rd'[t].next = rd[t].next,
         cur = s => InFlight(s)' = InFlight(s) /\ rd'[s].next = rd[s].next,
         UNCHANGED <<cur, att, used, fileVars>>
  PROVE  Ordered' /\ NextByteFollows' /\ Attempting'
<1>1. UNCHANGED <<file, gap, disk>>
  BY DEF fileVars
<1>2. Ordered'
  BY OrderedKept DEF Inv
<1>3. cur # NoStream => cur \in Streams
  BY ResumeFacts DEF Inv
<1>4. ASSUME cur # NoStream PROVE InFlight(cur)' = InFlight(cur) /\ rd'[cur].next = rd[cur].next
  <2>1. CASE cur = s
    BY <2>1 DEF InFlight
  <2>2. CASE cur # s
    <3>1. loop'[cur] = loop[cur] /\ rd'[cur].buf = rd[cur].buf /\ rd'[cur].next = rd[cur].next
      BY <1>3, <1>4, <2>2
    <3> QED
      BY <3>1 DEF InFlight
  <2> QED
    BY <2>1, <2>2
<1>5. NextByteFollows'
  BY <1>1, <1>4, FollowsKept DEF Inv
<1>6. Attempting'
  <2>1. CASE att.pc = "idle"
    BY <1>1, <2>1 DEF Inv, Attempting
  <2>2. CASE att.pc # "idle"
    <3>1. cur \in Streams /\ cur # s
      BY <1>3, <2>2 DEF Inv, Attempting
    <3>2. loop'[cur] = loop[cur] /\ rd'[cur].buf = rd[cur].buf
      BY <3>1
    <3> QED
      BY <1>1, <3>2 DEF Inv, Attempting, ResumePos
  <2> QED
    BY <2>1, <2>2
<1> QED
  BY <1>2, <1>5, <1>6

(* The end of the stream puts nothing in the loop's hand.                   *)
LEMMA ReadEndKept ==
  ASSUME JobOutputAssumption, Inv, NEW s \in Streams, LoopReadEnd(s) PROVE Inv'
<1>1. PICK w \in {"eof", "err"} : loop' = [loop EXCEPT ![s].pc = "append", ![s].why = w]
  BY DEF LoopReadEnd
<1>2. loop[s].pc = "read" /\ UNCHANGED <<rd, acks, cur, att, used, file, gap, disk, streamDone, streamErr, link>>
  BY DEF LoopReadEnd, fileVars, jobVars
<1>3. loop[s] \in LoopType
  BY StreamFacts DEF Inv
<1> DEFINE l == [loop[s] EXCEPT !.pc = "append", !.why = w]
<1>4. l \in LoopType /\ l.pc = "append" /\ l.hand = loop[s].hand
  BY <1>3 DEF LoopType, LoopPcs
<1>5. loop \in [Streams -> LoopType]
  BY DEF Inv, TypeOK
<1>6. loop' = [loop EXCEPT ![s] = l]
  BY <1>1, <1>5
<1> HIDE DEF l
<1>7. loop' \in [Streams -> LoopType] /\ loop'[s] = l /\ \A t \in Streams \ {s} : loop'[t] = loop[t]
  BY <1>4, <1>5, <1>6
<1>8. TypeOK'
  BY <1>2, <1>7 DEF Inv, TypeOK
<1>9. InFlight(s)' = InFlight(s)
  BY <1>2, <1>4, <1>7 DEF InFlight
<1>10. Ordered' /\ NextByteFollows' /\ Attempting'
  BY <1>2, <1>7, <1>9, LoopMoves DEF fileVars
<1>11. Hands'
  BY <1>2, <1>4, <1>7 DEF Inv, Hands
<1> QED
  BY <1>8, <1>10, <1>11 DEF Inv

(* Bytes read leave the reader for the loop's hand.                         *)
LEMMA ReadDataKept ==
  ASSUME JobOutputAssumption, Inv, NEW s \in Streams, LoopReadData(s) PROVE Inv'
<1> DEFINE n == MinOf(ReadSize, Len(rd[s].buf))
           taken == SubSeq(rd[s].buf, 1, n)
           rest == Dropped(rd[s].buf, n)
           r == [rd[s] EXCEPT !.buf = rest]
           l == [loop[s] EXCEPT !.pc = "append", !.hand = taken]
<1>1. /\ loop[s].pc = "read" /\ UNCHANGED <<cur, att, used, file, gap, disk, streamDone, streamErr, link>>
      /\ loop' = [loop EXCEPT ![s].pc = "append", ![s].hand = taken]
  BY DEF LoopReadData, fileVars, jobVars
<1>2. \/ rd' = [rd EXCEPT ![s] = Acked(r)] /\ Send({AckOf(s, r, FALSE, FALSE)})
      \/ rd' = [rd EXCEPT ![s] = r] /\ acks' = acks
  BY DEF LoopReadData
<1>3. /\ rd[s] \in ReaderType /\ loop[s] \in LoopType /\ rd[s].buf \in Bytes
      /\ rd \in [Streams -> ReaderType] /\ loop \in [Streams -> LoopType] /\ acks \subseteq AckType
  BY StreamFacts DEF Inv, TypeOK
<1>4. taken \in Bytes /\ rest \in Bytes /\ taken \o rest = rd[s].buf
  <2>1. Len(rd[s].buf) \in Nat
    BY <1>3, LenProperties DEF Bytes
  <2>2. n \in 0 .. Len(rd[s].buf)
    BY <2>1 DEF MinOf, JobOutputAssumption
  <2> HIDE DEF n
  <2> QED
    BY <1>3, <2>2, Cut
<1> HIDE DEF n, taken, rest
<1>5. r \in ReaderType /\ r.buf = rest /\ r.next = rd[s].next
  BY <1>3, <1>4 DEF ReaderType
<1>6. l \in LoopType /\ l.pc = "append" /\ l.hand = taken
  BY <1>3, <1>4 DEF LoopType, LoopPcs
<1>7. loop' = [loop EXCEPT ![s] = l]
  BY <1>1, <1>3
<1> HIDE DEF r, l
<1>8. Acked(r) \in ReaderType /\ Acked(r).buf = rest /\ Acked(r).next = rd[s].next
  BY <1>5, AckedReader
<1>9. AckOf(s, r, FALSE, FALSE) \in AckType
  BY <1>5, AckTyped
<1>10. acks' \subseteq AckType
  BY <1>2, <1>3, <1>9, SendTyped DEF Inv
<1>11. /\ rd' \in [Streams -> ReaderType] /\ rd'[s].buf = rest /\ rd'[s].next = rd[s].next
       /\ \A t \in Streams \ {s} : rd'[t] = rd[t]
  BY <1>2, <1>3, <1>5, <1>8
<1>12. loop' \in [Streams -> LoopType] /\ loop'[s] = l /\ \A t \in Streams \ {s} : loop'[t] = loop[t]
  BY <1>3, <1>6, <1>7
<1>13. TypeOK'
  BY <1>1, <1>10, <1>11, <1>12 DEF Inv, TypeOK
<1>14. InFlight(s)' = InFlight(s)
  <2>1. loop[s].hand = <<>>
    BY <1>1 DEF Inv, Hands
  <2>2. InFlight(s)' = taken \o rest
    BY <1>6, <1>11, <1>12 DEF InFlight
  <2> QED
    BY <1>3, <1>4, <2>1, <2>2, NothingRuns DEF InFlight
<1>15. Ordered' /\ NextByteFollows' /\ Attempting'
  BY <1>1, <1>11, <1>12, <1>14, LoopMoves DEF fileVars
<1>16. Hands'
  BY <1>1, <1>6, <1>12 DEF Inv, Hands
<1> QED
  BY <1>13, <1>15, <1>16 DEF Inv

(* What EndLoop changes.                                                    *)
LEMMA EndLoopEffect ==
  ASSUME JobOutputAssumption, Inv, NEW s \in Streams, EndLoop(s)
  PROVE  /\ rd' \in [Streams -> ReaderType] /\ acks' \subseteq AckType /\ SameReaders
         /\ loop' \in [Streams -> LoopType] /\ loop'[s].pc = "done" /\ loop'[s].hand = <<>>
         /\ \A t \in Streams \ {s} : loop'[t] = loop[t]
<1> DEFINE l == [pc |-> "done", hand |-> <<>>, why |-> loop[s].why]
<1>1. loop[s] \in LoopType /\ loop \in [Streams -> LoopType]
  BY StreamFacts DEF Inv, TypeOK
<1>2. l \in LoopType
  BY <1>1, NothingRuns DEF LoopType, LoopPcs
<1>3. loop' = [loop EXCEPT ![s] = l]
  BY <1>1 DEF EndLoop
<1>4. loop' \in [Streams -> LoopType] /\ loop'[s] = l /\ \A t \in Streams \ {s} : loop'[t] = loop[t]
  BY <1>1, <1>2, <1>3
<1>5. rd' = CloseReaders(rd, {s}) /\ Send(CloseAcks(rd, {s}))
  BY DEF EndLoop
<1>6. rd' \in [Streams -> ReaderType] /\ acks' \subseteq AckType /\ SameReaders
  BY <1>5, ReturnEffect DEF Inv
<1> QED
  BY <1>4, <1>6

(* A loop ends with nothing of the current stream in its hand.              *)
LEMMA EndLoopKept ==
  ASSUME JobOutputAssumption, Inv, NEW s \in Streams,
         LoopSuperseded(s) \/ LoopFinish(s)
  PROVE  Inv'
<1>1. /\ EndLoop(s) /\ UNCHANGED <<cur, att, used, file, gap, disk, link>>
      /\ loop[s].pc # "none" /\ (cur = s => loop[s].pc = "finish")
  BY DEF LoopSuperseded, LoopFinish, fileVars
<1>2. streamDone' \in BOOLEAN /\ streamErr' \in BOOLEAN
  BY DEF LoopSuperseded, LoopFinish, jobVars, Inv, TypeOK
<1>3. /\ rd' \in [Streams -> ReaderType] /\ acks' \subseteq AckType /\ SameReaders
      /\ loop' \in [Streams -> LoopType] /\ loop'[s].pc = "done" /\ loop'[s].hand = <<>>
      /\ \A t \in Streams \ {s} : loop'[t] = loop[t]
  BY <1>1, EndLoopEffect
<1>4. TypeOK'
  BY <1>1, <1>2, <1>3 DEF Inv, TypeOK
<1>5. cur = s => InFlight(s)' = InFlight(s)
  <2>1. cur = s => loop[s].hand = <<>>
    BY <1>1 DEF Inv, Hands
  <2>2. rd'[s].buf = rd[s].buf
    BY <1>3 DEF SameReaders
  <2> QED
    BY <1>3, <2>1, <2>2 DEF InFlight
<1>6. Ordered' /\ NextByteFollows' /\ Attempting'
  BY <1>1, <1>3, <1>5, LoopMoves DEF fileVars, SameReaders
<1>7. Hands'
  BY <1>1, <1>3 DEF Inv, Hands
<1> QED
  BY <1>4, <1>6, <1>7 DEF Inv

(* Bytes that follow the resume position are appended in order, and move it *)
(* by as many.                                                              *)
LEMMA AppendOrdered ==
  ASSUME TypeOK, Ordered, NEW q \in Bytes, Run(q, ResumePos), file' = file \o q,
         UNCHANGED <<gap, disk>>
  PROVE  /\ file' \in Bytes /\ ResumePos' = ResumePos + Len(q)
         /\ Ordered'
<1> DEFINE n == Len(file)
           m == Len(q)
<1>1. n \in Nat /\ m \in Nat /\ gap \in Nat /\ disk.len \in Nat /\ disk.gap \in Nat
  BY LenProperties DEF TypeOK, Bytes
<1>2. /\ file' \in Bytes /\ Len(file') = n + m
      /\ \A i \in 1 .. n + m : file'[i] = IF i <= n THEN file[i] ELSE q[i - n]
  BY ConcatProperties DEF TypeOK, Bytes
<1>3. \A i \in 1 .. n : file[i] \in Nat /\ file[i] < n + gap
  BY ElementOfSeq DEF TypeOK, Bytes, Ordered, ResumePastFile, ResumePos
<1>4. \A i \in 1 .. m : q[i] = n + gap + i - 1
  BY DEF Run, ResumePos
<1>5. \A i, j \in 1 .. n : i < j => file[i] < file[j]
  BY DEF Ordered, FileInOrder
<1>6. disk.len <= n /\ \A i \in 1 .. disk.len : file[i] < disk.len + disk.gap
  BY DEF Ordered, ResumePastFile
<1>7. ResumePos' = n + m + gap /\ ResumePos = n + gap
  BY <1>2 DEF ResumePos
<1> HIDE DEF n, m
<1>8. ASSUME NEW i \in 1 .. n PROVE i \in 1 .. n + m /\ file'[i] = file[i]
  <2>1. i \in 1 .. n + m /\ i <= n
    BY <1>1
  <2> QED
    BY <1>2, <2>1
<1>9. ASSUME NEW i \in 1 .. n + m, i > n PROVE file'[i] = gap + i - 1
  <2>1. i - n \in 1 .. m /\ ~(i <= n)
    BY <1>1, <1>9
  <2>2. file'[i] = q[i - n]
    BY <1>2, <2>1
  <2>3. q[i - n] = n + gap + (i - n) - 1
    BY <1>4, <2>1
  <2> QED
    BY <1>1, <2>2, <2>3
<1>10. \A i \in 1 .. n + m : file'[i] < n + m + gap
  <2> TAKE i \in 1 .. n + m
  <2>1. CASE i <= n
    <3>1. i \in 1 .. n
      BY <1>1, <2>1
    <3>2. file'[i] = file[i] /\ file[i] \in Nat /\ file[i] < n + gap
      BY <1>3, <1>8, <3>1
    <3> QED
      BY <1>1, <3>2
  <2>2. CASE i > n
    <3>1. file'[i] = gap + i - 1
      BY <1>9, <2>2
    <3> QED
      BY <1>1, <3>1
  <2>3. i <= n \/ i > n
    BY <1>1
  <2> QED
    BY <2>1, <2>2, <2>3
<1>11. \A i, j \in 1 .. n + m : i < j => file'[i] < file'[j]
  <2> TAKE i, j \in 1 .. n + m
  <2> HAVE i < j
  <2>1. CASE j <= n
    <3>1. i \in 1 .. n /\ j \in 1 .. n
      BY <1>1, <2>1
    <3> QED
      BY <1>5, <1>8, <3>1
  <2>2. CASE i <= n /\ j > n
    <3>1. i \in 1 .. n
      BY <1>1, <2>2
    <3>2. file'[i] = file[i] /\ file[i] \in Nat /\ file[i] < n + gap
      BY <1>3, <1>8, <3>1
    <3>3. file'[j] = gap + j - 1
      BY <1>9, <2>2
    <3> QED
      BY <1>1, <2>2, <3>2, <3>3
  <2>3. CASE i > n /\ j > n
    <3>1. file'[i] = gap + i - 1 /\ file'[j] = gap + j - 1
      BY <1>9, <2>3
    <3> QED
      BY <1>1, <3>1
  <2>4. j <= n \/ (i <= n /\ j > n) \/ (i > n /\ j > n)
    BY <1>1
  <2> QED
    BY <2>1, <2>2, <2>3, <2>4
<1>12. disk.len <= n + m /\ \A i \in 1 .. disk.len : file'[i] < disk.len + disk.gap
  <2>1. \A i \in 1 .. disk.len : i \in 1 .. n
    BY <1>1, <1>6
  <2>2. ASSUME NEW i \in 1 .. disk.len PROVE file'[i] < disk.len + disk.gap
    <3>1. file'[i] = file[i]
      BY <1>8, <2>1
    <3>2. file[i] < disk.len + disk.gap
      BY <1>6
    <3> QED
      BY <3>1, <3>2
  <2>3. disk.len <= n + m
    BY <1>1, <1>6
  <2> QED
    BY <2>2, <2>3
<1>13. FileInOrder'
  BY <1>2, <1>11 DEF FileInOrder
<1>14. ResumePastFile'
  <2>1. \A i \in 1 .. Len(file') : file'[i] < ResumePos'
    BY <1>2, <1>7, <1>10
  <2> QED
    BY <1>2, <1>12, <2>1 DEF ResumePastFile
<1>15. ResumePos' = ResumePos + m
  BY <1>1, <1>7
<1> QED
  BY <1>2, <1>13, <1>14, <1>15 DEF Ordered, m

(* The loop of the current stream stores what it has in hand.               *)
LEMMA AppendKept ==
  ASSUME JobOutputAssumption, Inv, NEW s \in Streams, LoopAppend(s) PROVE Inv'
<1> DEFINE q == loop[s].hand
           b == rd[s].buf
           pc == IF loop[s].why = "none" THEN "read" ELSE "finish"
           l == [loop[s] EXCEPT !.pc = pc, !.hand = <<>>]
<1>1. /\ cur = s /\ loop[s].pc = "append" /\ file' = file \o q
      /\ UNCHANGED <<rd, acks, gap, disk, cur, att, used, streamDone, streamErr, link>>
      /\ loop' = [loop EXCEPT ![s].pc = pc, ![s].hand = <<>>]
  BY DEF LoopAppend, jobVars
<1>2. /\ q \in Bytes /\ b \in Bytes /\ loop[s] \in LoopType /\ loop \in [Streams -> LoopType]
      /\ rd[s].next \in Nat
  BY StreamFacts DEF Inv, TypeOK
<1>3. cur # NoStream
  BY <1>1 DEF JobOutputAssumption
<1>4. l \in LoopType /\ l.pc = pc /\ l.hand = <<>>
  BY <1>2, NothingRuns DEF LoopType, LoopPcs
<1>5. loop' = [loop EXCEPT ![s] = l]
  BY <1>1, <1>2
<1> HIDE DEF l
<1>6. loop' \in [Streams -> LoopType] /\ loop'[s] = l /\ \A t \in Streams \ {s} : loop'[t] = loop[t]
  BY <1>2, <1>4, <1>5
<1>7. Run(q \o b, ResumePos)
  BY <1>1, <1>3 DEF Inv, NextByteFollows, InFlight, Run
<1>8. ResumePos \in Nat /\ Len(q) \in Nat /\ Len(b) \in Nat
  <2>1. Len(q) \in Nat /\ Len(b) \in Nat
    BY <1>2, LenProperties DEF Bytes
  <2> QED
    BY <2>1, ResumeFacts DEF Inv
<1>9. Run(q, ResumePos) /\ Run(b, ResumePos + Len(q))
  BY <1>2, <1>7, <1>8, RunSplit
<1>10. file' \in Bytes /\ ResumePos' = ResumePos + Len(q) /\ Ordered'
  BY <1>1, <1>2, <1>9, AppendOrdered DEF Inv
<1>11. TypeOK'
  BY <1>1, <1>6, <1>10 DEF Inv, TypeOK
<1>12. att.pc = "idle" /\ s \in used
  BY <1>1 DEF Inv, Attempting, Hands
<1>13. Hands'
  BY <1>1, <1>4, <1>6, <1>12 DEF Inv, Hands
<1>14. Attempting'
  BY <1>1, <1>12 DEF Inv, Attempting
<1>15. InFlight(cur)' = b
  BY <1>1, <1>2, <1>4, <1>6, NothingRuns DEF InFlight
<1>16. rd[s].next = ResumePos + (Len(q) + Len(b))
  <2>1. Len(q \o b) = Len(q) + Len(b)
    BY <1>2, <1>8, RunJoined
  <2>2. rd[s].next = ResumePos + Len(q \o b)
    BY <1>1, <1>3, <1>12 DEF Inv, NextByteFollows, InFlight
  <2> QED
    BY <2>1, <2>2
<1>17. rd'[cur'].next = ResumePos' + Len(b)
  <2>1. rd'[cur'].next = rd[s].next
    BY <1>1
  <2> HIDE DEF q, b
  <2> QED
    BY <1>8, <1>10, <1>16, <2>1
<1>18. NextByteFollows'
  <2>1. Run(b, ResumePos')
    BY <1>9, <1>10
  <2> QED
    BY <1>15, <1>17, <2>1 DEF NextByteFollows, Run
<1> QED
  BY <1>10, <1>11, <1>13, <1>14, <1>18 DEF Inv

-----------------------------------------------------------------------------
(* The steps: attempts                                                      *)

(* What is known of the attempt under way.                                  *)
LEMMA AttemptFacts ==
  ASSUME JobOutputAssumption, Inv
  PROVE  /\ att \in AttemptType /\ att.start \in Nat /\ att.gap \in Nat /\ att.seq \in Nat
         /\ att.pc # "idle" =>
              cur \in Streams /\ cur \in used /\ att.sid = cur /\ loop[cur].pc = "none" /\ loop[cur].hand = <<>>
<1>1. att \in AttemptType
  BY DEF Inv, TypeOK
<1>2. att.pc # "idle" => cur \in Streams /\ cur \in used /\ att.sid = cur /\ loop[cur].pc = "none"
  BY DEF Inv, Attempting, TypeOK
<1> QED
  BY <1>1, <1>2 DEF AttemptType, Inv, Hands

(* No attempt is an attempt.                                                *)
LEMMA NoAttemptTyped == NoAttempt \in AttemptType /\ NoAttempt.pc = "idle"
  BY DEF NoAttempt, AttemptType, MaybeStream

(* A new stream begins at the resume position with nothing in flight.       *)
LEMMA NewStreamKept ==
  ASSUME JobOutputAssumption, Inv, NEW s \in Streams, NEW pc \in {"start", "prepare"}, NewStream(s, pc)
  PROVE  Inv'
<1> DEFINE r == Reader("open", ResumePos)
<1>1. /\ att.pc = "idle" /\ s \notin used /\ used' = used \cup {s} /\ cur' = s /\ link' = s
      /\ rd' = [rd EXCEPT ![s] = r]
      /\ att' = [pc |-> pc, sid |-> s, old |-> cur, start |-> ResumePos, gap |-> gap, seq |-> ResumePos]
      /\ UNCHANGED <<loop, file, gap, disk, streamDone, streamErr, acks>>
  BY DEF NewStream, fileVars, jobVars
<1>2. ResumePos \in Nat /\ gap \in Nat /\ cur \in MaybeStream /\ ResumePos' = ResumePos
  BY <1>1, ResumeFacts DEF Inv, MaybeStream, ResumePos
<1>3. r \in ReaderType /\ r.buf = <<>> /\ r.next = ResumePos
  <2>1. RWnd \in 0 .. RWnd
    BY DEF JobOutputAssumption
  <2> QED
    BY <1>2, <2>1, NothingRuns DEF Reader, ReaderType
<1> HIDE DEF r
<1>4. rd' \in [Streams -> ReaderType] /\ rd'[s] = r
  BY <1>1, <1>3 DEF Inv, TypeOK
<1>5. att' \in AttemptType
  BY <1>1, <1>2 DEF AttemptType, MaybeStream
<1>6. TypeOK'
  BY <1>1, <1>4, <1>5 DEF Inv, TypeOK, MaybeStream
<1>7. Ordered'
  BY <1>1, OrderedKept DEF Inv, fileVars
<1>8. Hands'
  BY <1>1 DEF Inv, Hands
<1>9. loop[s].pc = "none" /\ loop[s].hand = <<>>
  BY <1>1 DEF Inv, Hands
<1>10. Attempting'
  <2>1. s # NoStream
    BY DEF JobOutputAssumption
  <2>2. /\ att'.pc = pc /\ att'.sid = s /\ att'.start = ResumePos /\ att'.gap = gap
    BY <1>1
  <2> QED
    BY <1>1, <1>2, <1>3, <1>4, <1>9, <2>1, <2>2 DEF Attempting
<1>11. InFlight(cur)' = <<>>
  BY <1>1, <1>3, <1>4, <1>9, NothingRuns DEF InFlight
<1>12. NextByteFollows'
  <2>1. Len(<<>>) = 0 /\ ResumePos + 0 = ResumePos
    BY <1>2, NothingRuns
  <2>2. rd'[cur'].next = ResumePos' + Len(InFlight(cur)')
    BY <1>1, <1>2, <1>3, <1>4, <1>11, <2>1
  <2>3. \A i \in 1 .. Len(InFlight(cur)') : InFlight(cur)'[i] = ResumePos' + i - 1
    BY <1>11, <2>1
  <2> QED
    BY <2>2, <2>3 DEF NextByteFollows
<1> QED
  BY <1>6, <1>7, <1>8, <1>10, <1>12 DEF Inv

(* A call that returns leaves the current stream as it is.                  *)
LEMMA ReturnKept ==
  ASSUME JobOutputAssumption, Inv, att.pc # "update", NEW ss, Return(ss),
         UNCHANGED <<cur, used, fileVars, link>>,
         loop' \in [Streams -> LoopType],
         \A s \in Streams : loop'[s].hand = loop[s].hand,
         \A s \in Streams : loop'[s].pc = loop[s].pc \/ (s \in used /\ loop[s].pc = "none"),
         streamDone' \in BOOLEAN, streamErr' \in BOOLEAN
  PROVE  Inv'
<1>1. rd' \in [Streams -> ReaderType] /\ acks' \subseteq AckType /\ SameReaders
  BY ReturnEffect DEF Return, Inv
<1>2. att' = NoAttempt
  BY DEF Return
<1>3. UNCHANGED <<file, gap, disk>>
  BY DEF fileVars
<1>4. TypeOK'
  BY <1>1, <1>2, <1>3, NoAttemptTyped DEF Inv, TypeOK
<1>5. Ordered'
  BY OrderedKept DEF Inv
<1>6. ASSUME cur # NoStream PROVE InFlight(cur)' = InFlight(cur) /\ rd'[cur].next = rd[cur].next
  <2>1. cur \in Streams
    BY <1>6, ResumeFacts DEF Inv
  <2>2. loop'[cur].hand = loop[cur].hand /\ rd'[cur].buf = rd[cur].buf /\ rd'[cur].next = rd[cur].next
    BY <1>1, <2>1 DEF SameReaders
  <2> QED
    BY <2>2 DEF InFlight
<1>7. NextByteFollows'
  BY <1>3, <1>6, FollowsKept DEF Inv
<1>8. Hands'
  BY DEF Inv, Hands
<1>9. Attempting'
  BY <1>2, NoAttemptTyped DEF Inv, Attempting
<1> QED
  BY <1>4, <1>5, <1>7, <1>8, <1>9 DEF Inv

(* A call that succeeds starts the loop of its stream.                      *)
LEMMA StartedKept == ASSUME JobOutputAssumption, Inv, Started PROVE Inv'
<1> DEFINE l == [loop[cur] EXCEPT !.pc = "read"]
<1>1. /\ att.pc \in {"start", "resume"} /\ Return({att.old})
      /\ loop' = [loop EXCEPT ![att.sid].pc = "read"]
      /\ UNCHANGED <<cur, used, fileVars, link, streamDone, streamErr>>
  BY DEF Started, StartLoop, jobVars
<1>2. cur \in Streams /\ cur \in used /\ att.sid = cur /\ loop[cur].pc = "none"
  BY <1>1, AttemptFacts
<1>3. loop[cur] \in LoopType /\ loop \in [Streams -> LoopType]
  BY <1>2, StreamFacts DEF Inv, TypeOK
<1>4. l \in LoopType /\ l.hand = loop[cur].hand
  BY <1>3 DEF LoopType, LoopPcs
<1>5. loop' = [loop EXCEPT ![cur] = l]
  BY <1>1, <1>2, <1>3
<1> HIDE DEF l
<1>6. loop' \in [Streams -> LoopType] /\ loop'[cur] = l /\ \A t \in Streams \ {cur} : loop'[t] = loop[t]
  BY <1>2, <1>3, <1>4, <1>5
<1>7. /\ \A s \in Streams : loop'[s].hand = loop[s].hand
      /\ \A s \in Streams : loop'[s].pc = loop[s].pc \/ (s \in used /\ loop[s].pc = "none")
  BY <1>2, <1>4, <1>6
<1>8. streamDone' \in BOOLEAN /\ streamErr' \in BOOLEAN
  BY <1>1 DEF Inv, TypeOK
<1> QED
  BY <1>1, <1>6, <1>7, <1>8, ReturnKept

(* One that fails, or learns that the stream had ended, starts none.        *)
LEMMA NotStartedKept ==
  ASSUME JobOutputAssumption, Inv, Failed \/ \E err \in BOOLEAN : AlreadyDone(err) PROVE Inv'
<1>1. /\ att.pc # "update" /\ Return({att.sid, att.old})
      /\ UNCHANGED <<loop, cur, used, fileVars, link>>
  BY DEF Failed, AlreadyDone
<1>2. streamDone' \in BOOLEAN /\ streamErr' \in BOOLEAN
  BY DEF Failed, AlreadyDone, jobVars, Inv, TypeOK
<1>3. loop' \in [Streams -> LoopType]
  BY <1>1 DEF Inv, TypeOK
<1> QED
  BY <1>1, <1>2, <1>3, ReturnKept

(* A larger gap moves the resume position on, and nothing it lies past.     *)
LEMMA GapGrows ==
  ASSUME TypeOK, Ordered, gap' \in Nat, gap' >= gap, UNCHANGED <<file, disk>>
  PROVE  Ordered' /\ ResumePos' = Len(file) + gap'
<1>1. Len(file) \in Nat /\ gap \in Nat
  BY ResumeFacts
<1>2. \A i \in 1 .. Len(file) : file[i] \in Nat /\ file[i] < Len(file) + gap
  BY ElementOfSeq DEF TypeOK, Bytes, Ordered, ResumePastFile, ResumePos
<1>3. \A i \in 1 .. Len(file) : file[i] < Len(file) + gap'
  BY <1>1, <1>2
<1> QED
  BY <1>3 DEF Ordered, FileInOrder, ResumePastFile, ResumePos

(* The job manager's answer moves the file's position to where the stream   *)
(* goes on, before anything of the stream has arrived.                      *)
LEMMA PreparedKept ==
  ASSUME JobOutputAssumption, Inv, NEW seq \in Position, seq >= att.start, Prepared(seq)
  PROVE  Inv'
<1> DEFINE more == seq > att.start
           pc == IF more THEN "update" ELSE "resume"
<1>1. /\ att.pc = "prepare" /\ att' = [att EXCEPT !.seq = seq, !.pc = pc]
      /\ gap' = IF more THEN att.gap + (seq - att.start) ELSE gap
      /\ UNCHANGED <<rd, acks, loop, cur, used, file, disk, streamDone, streamErr, link>>
  BY DEF Prepared, jobVars
<1>2. /\ seq \in Nat /\ att \in AttemptType /\ att.start \in Nat /\ Len(file) \in Nat /\ gap \in Nat
      /\ ResumePos \in Nat /\ cur \in Streams /\ loop[cur].hand = <<>> /\ rd[cur].next \in Nat
  <2>1. seq \in Nat
    BY DEF Position, JobOutputAssumption
  <2>2. cur \in Streams /\ loop[cur].hand = <<>> /\ att \in AttemptType /\ att.start \in Nat
    BY <1>1, AttemptFacts
  <2> QED
    BY <2>1, <2>2, ResumeFacts, StreamFacts DEF Inv
<1>3. att.start = ResumePos /\ att.gap = gap /\ rd[cur].buf = <<>> /\ att.sid = cur /\ cur # NoStream
      /\ loop[cur].pc = "none"
  BY <1>1 DEF Inv, Attempting
<1>4. att' \in AttemptType /\ att'.seq = seq /\ att'.pc = pc /\ att'.sid = att.sid
  BY <1>1, <1>2 DEF AttemptType
<1>5. gap' \in Nat /\ gap' >= gap /\ Len(file) + gap' = seq
  <2>1. ResumePos = Len(file) + gap
    BY DEF ResumePos
  <2>2. CASE more
    <3>1. gap' = gap + (seq - ResumePos) /\ seq > ResumePos
      BY <1>1, <1>3, <2>2
    <3>2. seq \in Nat /\ gap \in Nat /\ Len(file) \in Nat /\ ResumePos \in Nat
      BY <1>2
    <3> QED
      BY <2>1, <3>1, <3>2
  <2>3. CASE ~more
    <3>1. seq = att.start
      BY <1>2, <2>3
    <3> QED
      BY <1>1, <1>2, <1>3, <2>1, <2>3, <3>1
  <2> QED
    BY <2>2, <2>3
<1>6. Ordered' /\ ResumePos' = seq
  BY <1>1, <1>5, GapGrows DEF Inv
<1>7. TypeOK'
  BY <1>1, <1>4, <1>5 DEF Inv, TypeOK
<1>8. Hands'
  BY <1>1 DEF Inv, Hands
<1>9. Attempting'
  BY <1>1, <1>3, <1>4, <1>6 DEF Inv, Attempting
<1>10. InFlight(cur) = <<>> /\ InFlight(cur)' = <<>> /\ Len(<<>>) = 0
  BY <1>1, <1>2, <1>3, NothingRuns DEF InFlight
<1>11. NextByteFollows'
  <2>1. ASSUME att'.pc # "update" PROVE rd'[cur'].next = ResumePos' + Len(InFlight(cur)')
    <3>1. ~more
      BY <1>4, <2>1
    <3>2. seq = att.start
      BY <1>2, <3>1
    <3>3. rd[cur].next = ResumePos + 0
      BY <1>1, <1>3, <1>10 DEF Inv, NextByteFollows
    <3> QED
      BY <1>1, <1>3, <1>6, <1>10, <3>2, <3>3
  <2>2. \A i \in 1 .. Len(InFlight(cur)') : InFlight(cur)'[i] = ResumePos' + i - 1
    BY <1>10
  <2> QED
    BY <2>1, <2>2 DEF NextByteFollows
<1> QED
  BY <1>6, <1>7, <1>8, <1>9, <1>11 DEF Inv

(* The reader follows the file to the position the stream goes on from.     *)
LEMMA UpdateKept == ASSUME JobOutputAssumption, Inv, UpdateNextSeq PROVE Inv'
<1>1. /\ att.pc = "update" /\ rd' = [rd EXCEPT ![att.sid].next = att.seq]
      /\ att' = [att EXCEPT !.pc = "resume"]
      /\ UNCHANGED <<acks, loop, cur, used, file, gap, disk, streamDone, streamErr, link>>
  BY DEF UpdateNextSeq, fileVars, jobVars
<1>2. /\ cur \in Streams /\ cur \in used /\ att.sid = cur /\ loop[cur].pc = "none" /\ loop[cur].hand = <<>>
      /\ att \in AttemptType /\ att.seq \in Nat
  BY <1>1, AttemptFacts
<1>3. rd[cur].buf = <<>> /\ att.seq = ResumePos /\ cur # NoStream
  BY <1>1 DEF Inv, Attempting
<1> DEFINE r == [rd[cur] EXCEPT !.next = att.seq]
<1>4. rd[cur] \in ReaderType /\ rd \in [Streams -> ReaderType]
  BY <1>2, StreamFacts DEF Inv, TypeOK
<1>5. r \in ReaderType /\ r.buf = <<>> /\ r.next = att.seq
  BY <1>2, <1>3, <1>4 DEF ReaderType
<1>6. rd' = [rd EXCEPT ![cur] = r]
  BY <1>1, <1>2, <1>4
<1> HIDE DEF r
<1>7. rd' \in [Streams -> ReaderType] /\ rd'[cur] = r
  BY <1>2, <1>4, <1>5, <1>6
<1>8. att' \in AttemptType /\ att'.pc = "resume" /\ att'.sid = att.sid
  BY <1>1, <1>2 DEF AttemptType
<1>9. TypeOK'
  BY <1>1, <1>7, <1>8 DEF Inv, TypeOK
<1>10. Ordered'
  BY <1>1, OrderedKept DEF Inv, fileVars
<1>11. Hands'
  BY <1>1 DEF Inv, Hands
<1>12. Attempting'
  BY <1>1, <1>2, <1>3, <1>8 DEF Inv, Attempting
<1>13. InFlight(cur)' = <<>> /\ Len(<<>>) = 0
  BY <1>1, <1>2, <1>5, <1>7, NothingRuns DEF InFlight
<1>14. NextByteFollows'
  <2>1. ResumePos' = ResumePos /\ ResumePos + 0 = ResumePos
    BY <1>1, ResumeFacts DEF ResumePos, Inv
  <2>2. rd'[cur'].next = ResumePos' + Len(InFlight(cur)')
    BY <1>1, <1>3, <1>5, <1>7, <1>13, <2>1
  <2>3. \A i \in 1 .. Len(InFlight(cur)') : InFlight(cur)'[i] = ResumePos' + i - 1
    BY <1>13
  <2> QED
    BY <2>2, <2>3 DEF NextByteFollows
<1> QED
  BY <1>9, <1>10, <1>11, <1>12, <1>14 DEF Inv

-----------------------------------------------------------------------------
(* The steps: flushes, broken links and crashes                             *)

(* A flush remembers a size and a gap that lie past what they stand for.    *)
LEMMA FlushKept == ASSUME JobOutputAssumption, Inv, Flush PROVE Inv'
<1>1. /\ disk' = [len |-> Len(file), gap |-> gap]
      /\ UNCHANGED <<rd, acks, loop, cur, att, used, file, gap, streamDone, streamErr, link>>
  BY DEF Flush, jobVars
<1>2. Len(file) \in Nat /\ gap \in Nat
  BY ResumeFacts DEF Inv
<1>3. disk' \in [len : Nat, gap : Nat] /\ disk'.len = Len(file) /\ disk'.gap = gap
  BY <1>1, <1>2
<1>4. TypeOK'
  BY <1>1, <1>3 DEF Inv, TypeOK
<1>5. Ordered'
  <2>1. disk'.len <= Len(file)
    BY <1>2, <1>3
  <2> QED
    BY <1>1, <1>3, <2>1 DEF Inv, Ordered, FileInOrder, ResumePastFile, ResumePos
<1>6. NextByteFollows'
  BY <1>1 DEF Inv, NextByteFollows, InFlight, ResumePos
<1>7. Hands' /\ Attempting'
  BY <1>1 DEF Inv, Hands, Attempting, ResumePos
<1> QED
  BY <1>4, <1>5, <1>6, <1>7 DEF Inv

(* A link that breaks, ACKs that are delivered or lost, and a step that     *)
(* changes nothing keep everything.                                         *)
LEMMA LinkDownKept ==
  ASSUME Inv, UNCHANGED <<rd, loop, cur, att, used, file, gap, disk, streamDone, streamErr>>,
         acks' \subseteq acks, link' \in MaybeStream
  PROVE  Inv'
  BY DEF Inv, TypeOK, Ordered, FileInOrder, ResumePastFile, NextByteFollows, Hands, Attempting, InFlight, ResumePos

(* After a crash the file is what was flushed, and so is its position.      *)
LEMMA CrashKept == ASSUME JobOutputAssumption, Inv, Crash PROVE Inv'
<1> DEFINE n == disk.len
<1>1. /\ rd' = [s \in Streams |-> Reader("none", 0)] /\ loop' = [s \in Streams |-> NoLoop]
      /\ cur' = NoStream /\ att' = NoAttempt /\ link' = NoStream
      /\ file' = SubSeq(file, 1, n) /\ gap' = disk.gap
      /\ UNCHANGED <<used, disk, streamDone, streamErr, acks>>
  BY DEF Crash, jobVars
<1>2. Reader("none", 0) \in ReaderType
  <2>1. RWnd \in 0 .. RWnd /\ 0 \in Nat
    BY DEF JobOutputAssumption
  <2> QED
    BY <2>1, NothingRuns DEF Reader, ReaderType
<1>3. NoLoop \in LoopType /\ NoLoop.pc = "none" /\ NoLoop.hand = <<>>
  BY NothingRuns DEF NoLoop, LoopType, LoopPcs
<1>4. /\ Len(file) \in Nat /\ n \in Nat /\ n <= Len(file) /\ disk.gap \in Nat /\ file \in Bytes
      /\ \A i \in 1 .. n : file[i] < n + disk.gap
      /\ \A i, j \in 1 .. Len(file) : i < j => file[i] < file[j]
  BY ResumeFacts DEF Inv, TypeOK, Ordered, ResumePastFile, FileInOrder
<1>5. file' \in Bytes /\ Len(file') = n /\ \A i \in 1 .. n : file'[i] = file[i]
  <2>1. n \in 0 .. Len(file)
    BY <1>4
  <2> QED
    BY <1>1, <1>4, <2>1, Cut
<1>6. TypeOK'
  <2>1. rd' \in [Streams -> ReaderType] /\ loop' \in [Streams -> LoopType]
    BY <1>1, <1>2, <1>3
  <2> QED
    BY <1>1, <1>4, <1>5, <2>1, NoAttemptTyped DEF Inv, TypeOK, MaybeStream
<1> HIDE DEF n
<1>7. Ordered'
  <2>1. \A i \in 1 .. n : i \in 1 .. Len(file)
    BY <1>4
  <2>2. FileInOrder'
    BY <1>4, <1>5, <2>1 DEF FileInOrder
  <2>3. ResumePos' = n + disk.gap /\ disk' = disk
    BY <1>1, <1>5 DEF ResumePos
  <2>4. \A i \in 1 .. n : file'[i] < n + disk.gap
    BY <1>4, <1>5
  <2>5. disk'.len <= Len(file')
    BY <1>4, <1>5, <2>3 DEF n
  <2>6. ResumePastFile'
    BY <1>5, <2>3, <2>4, <2>5 DEF ResumePastFile, n
  <2> QED
    BY <2>2, <2>6 DEF Ordered
<1>8. Hands'
  BY <1>1, <1>3 DEF Hands
<1>9. NextByteFollows' /\ Attempting'
  BY <1>1, NoAttemptTyped DEF NextByteFollows, Attempting
<1> QED
  BY <1>6, <1>7, <1>8, <1>9 DEF Inv

-----------------------------------------------------------------------------
(* The theorems                                                             *)

(* The initial state satisfies the invariant.                               *)
LEMMA InitInv == ASSUME JobOutputAssumption, Init PROVE Inv
<1>1. Reader("none", 0) \in ReaderType
  <2>1. RWnd \in 0 .. RWnd /\ 0 \in Nat
    BY DEF JobOutputAssumption
  <2> QED
    BY <2>1, NothingRuns DEF Reader, ReaderType
<1>2. NoLoop \in LoopType /\ NoLoop.pc = "none" /\ NoLoop.hand = <<>>
  BY NothingRuns DEF NoLoop, LoopType, LoopPcs
<1>3. rd \in [Streams -> ReaderType] /\ loop \in [Streams -> LoopType]
  BY <1>1, <1>2 DEF Init
<1>4. TypeOK
  BY <1>3, NoAttemptTyped, NothingRuns DEF Init, TypeOK, MaybeStream
<1>5. Len(file) = 0 /\ disk.len = 0
  BY NothingRuns DEF Init
<1>6. Ordered
  BY <1>5 DEF Ordered, FileInOrder, ResumePastFile
<1>7. Hands
  BY <1>2 DEF Init, Hands
<1>8. NextByteFollows /\ Attempting
  BY NoAttemptTyped DEF Init, NextByteFollows, Attempting
<1> QED
  BY <1>4, <1>6, <1>7, <1>8 DEF Inv

(* Every step keeps the invariant.                                          *)
LEMMA StepInv == ASSUME JobOutputAssumption, Inv, [Next]_vars PROVE Inv'
<1>1. link \in MaybeStream /\ NoStream \in MaybeStream
  BY DEF Inv, TypeOK, MaybeStream
<1>2. LinkDown \/ UNCHANGED vars => Inv'
  BY <1>1, LinkDownKept DEF LinkDown, vars, fileVars, jobVars
<1>3. ASSUME NEW s \in Streams, StartJob(s) \/ RestartStreaming(s) PROVE Inv'
  BY <1>3, NewStreamKept DEF StartJob, RestartStreaming
<1>4. ASSUME NEW s \in Streams,
             LoopReadEnd(s) \/ LoopReadData(s) \/ LoopAppend(s) \/ LoopSuperseded(s) \/ LoopFinish(s)
      PROVE  Inv'
  BY <1>4, ReadEndKept, ReadDataKept, AppendKept, EndLoopKept
<1>5. ASSUME NEW pk \in Packet, ~Corked(pk), RecvData(pk) PROVE Inv'
  BY <1>5, RecvKept
<1>6. ASSUME NEW seq \in Position, seq >= att.start, Prepared(seq) PROVE Inv'
  BY <1>6, PreparedKept
<1>7. Started \/ Failed \/ UpdateNextSeq \/ (\E err \in BOOLEAN : AlreadyDone(err)) => Inv'
  BY StartedKept, NotStartedKept, UpdateKept
<1>8. Flush \/ Crash => Inv'
  BY FlushKept, CrashKept
<1> QED
  BY <1>2, <1>3, <1>4, <1>5, <1>6, <1>7, <1>8 DEF Next

(* The invariant holds in every reachable state.                            *)
LEMMA InvHolds == ASSUME JobOutputAssumption PROVE Spec => []Inv
<1>1. Init => Inv
  BY InitInv
<1>2. Inv /\ [Next]_vars => Inv'
  BY StepInv
<1> QED
  BY <1>1, <1>2, PTL DEF Spec

(* Readers, loops, the attempt, the file and the ACKs keep their types.     *)
THEOREM OutputTypeCorrect == ASSUME JobOutputAssumption PROVE Spec => []TypeOK
<1>1. Inv => TypeOK
  BY DEF Inv
<1> QED
  BY <1>1, InvHolds, PTL

(* The output file holds the bytes of the stream in order and none twice,   *)
(* whatever packets arrive and whenever streams are replaced, the link      *)
(* breaks or wavesrv crashes.                                               *)
THEOREM OutputInOrder == ASSUME JobOutputAssumption PROVE Spec => []FileInOrder
<1>1. Inv => FileInOrder
  BY DEF Inv, Ordered
<1> QED
  BY <1>1, InvHolds, PTL

(* A resume asks for a position past every byte stored or flushed.          *)
THEOREM ResumeIsPast == ASSUME JobOutputAssumption PROVE Spec => []ResumePastFile
<1>1. Inv => ResumePastFile
  BY DEF Inv, Ordered
<1> QED
  BY <1>1, InvHolds, PTL

(* The size of the file and its recorded gap name the next byte to be       *)
(* stored: nothing in between is skipped unrecorded.                        *)
THEOREM NextByteIsNext == ASSUME JobOutputAssumption PROVE Spec => []NextByteFollows
<1>1. Inv => NextByteFollows
  BY DEF Inv
<1> QED
  BY <1>1, InvHolds, PTL

-----------------------------------------------------------------------------
(* What the steps do to a reader and its ACKs, for DurableStreamProofs.tla. *)

(* The reader of s is where it was and holds what it held; it may have been *)
(* closed.                                                                  *)
SameReader(s) ==
  /\ rd'[s].next = rd[s].next /\ rd'[s].buf = rd[s].buf
  /\ rd'[s].ooo = rd[s].ooo /\ rd'[s].eof = rd[s].eof
  /\ rd'[s].st = "none" <=> rd[s].st = "none"
  /\ Listening(s)' => Listening(s)

(* A reader that closes stops listening, and says so once, where it is.     *)
LEMMA ClosingEffect ==
  ASSUME JobOutputAssumption, TypeOK, NEW ss,
         rd' = CloseReaders(rd, ss), Send(CloseAcks(rd, ss))
  PROVE  /\ \A s \in Streams : SameReader(s)
         /\ \A s \in ss \cap Streams : ~Listening(s)'
         /\ \A a \in acks' \ acks : /\ a.sid \in ss \cap Streams /\ rd[a.sid].st = "open"
                                    /\ a.cancel /\ a.seq = rd[a.sid].next
<1>1. ASSUME NEW s \in Streams
      PROVE  SameReader(s) /\ (s \in ss => ~Listening(s)')
  <2> DEFINE r == [rd[s] EXCEPT !.st = "closed", !.err = TRUE]
  <2>1. rd[s] \in ReaderType
    BY DEF TypeOK
  <2>2. /\ r.next = rd[s].next /\ r.buf = rd[s].buf /\ r.ooo = rd[s].ooo /\ r.eof = rd[s].eof
        /\ r.st = "closed" /\ r \in ReaderType
    BY <2>1 DEF ReaderType
  <2>3. rd'[s] = IF s \in ss /\ rd[s].st = "open" THEN Acked(r) ELSE rd[s]
    BY DEF CloseReaders
  <2> HIDE DEF r
  <2>4. /\ Acked(r).next = r.next /\ Acked(r).buf = r.buf /\ Acked(r).ooo = r.ooo
        /\ Acked(r).eof = r.eof /\ Acked(r).st = r.st
    BY <2>2 DEF Acked, ReaderType
  <2>5. CASE s \in ss /\ rd[s].st = "open"
    BY <2>2, <2>3, <2>4, <2>5 DEF SameReader, Listening
  <2>6. CASE ~(s \in ss /\ rd[s].st = "open")
    BY <2>3, <2>6 DEF SameReader, Listening
  <2> QED
    BY <2>5, <2>6
<1>2. ASSUME NEW a \in acks' \ acks
      PROVE  /\ a.sid \in ss \cap Streams /\ rd[a.sid].st = "open"
             /\ a.cancel /\ a.seq = rd[a.sid].next
  <2>1. PICK s \in {t \in ss \cap Streams : rd[t].st = "open"} : a = AckOf(s, rd[s], FALSE, TRUE)
    BY <1>2 DEF Send, CloseAcks
  <2> QED
    BY <2>1 DEF AckOf
<1> QED
  BY <1>1, <1>2

(* A packet that is not the next one leaves its reader where it is: it      *)
(* waits, is ignored, or is answered by a reader that no longer listens.    *)
LeavesReader(pk) ==
  /\ rd'[pk.sid].next = rd[pk.sid].next /\ rd'[pk.sid].buf = rd[pk.sid].buf
  /\ rd'[pk.sid].eof = rd[pk.sid].eof
  /\ rd'[pk.sid].ooo \subseteq rd[pk.sid].ooo \cup {pk}
  /\ Listening(pk.sid)' => Listening(pk.sid) /\ acks' = acks
  /\ \A a \in acks' \ acks : /\ a.sid = pk.sid
                             /\ a.cancel => a.seq = pk.seq
                             /\ ~a.cancel => a.seq = rd[pk.sid].next

(* The next packet takes its reader to the end of what follows without a    *)
(* hole, and is answered with the reader's new position and window.         *)
TakesIn(pk, to) ==
  /\ Listening(pk.sid) /\ pk.kind # "err" /\ pk.seq = rd[pk.sid].next
  /\ pk.seq <= to /\ (pk.kind # "data" => to = pk.seq)
  /\ to = pk.seq + pk.len \/ \E p \in rd[pk.sid].ooo : p.kind = "data" /\ to <= p.seq + p.len
  /\ rd'[pk.sid].next = to
  /\ Len(rd'[pk.sid].buf) = Len(rd[pk.sid].buf) + (to - pk.seq)
  /\ pk.kind # "data" => rd'[pk.sid].buf = rd[pk.sid].buf
  /\ rd'[pk.sid].ooo \subseteq rd[pk.sid].ooo
  /\ pk.kind = "eof" => rd'[pk.sid].eof
  /\ rd'[pk.sid].eof => \E p \in rd[pk.sid].ooo \cup {pk} : p.kind = "eof" /\ p.seq = to
  /\ \A a \in acks' \ acks : /\ a.sid = pk.sid /\ ~a.cancel
                             /\ a.seq = to /\ a.rwnd = FreeWindow(rd'[pk.sid])

(* How far the packets that wait take the reader.                           *)
LEMMA DrainReaches ==
  ASSUME JobOutputAssumption, NEW r \in ReaderType, NEW pk \in Packet, pk.kind # "err",
         NEW to \in Position, DrainsTo(r, pk, to)
  PROVE  /\ pk.seq <= to /\ (pk.kind # "data" => to = pk.seq)
         /\ to = pk.seq + pk.len \/ \E p \in r.ooo : p.kind = "data" /\ to <= p.seq + p.len
         /\ Ends(r, pk, to) => \E p \in r.ooo \cup {pk} : p.kind = "eof" /\ p.seq = to
<1>1. /\ pk.seq \in Nat /\ pk.len \in Nat /\ pk.kind \in {"data", "eof"}
      /\ (pk.kind # "data" => pk.len = 0) /\ to \in Nat
  BY PacketFacts DEF Position, JobOutputAssumption
<1>2. \A p \in r.ooo : p \in Packet /\ p.seq \in Nat /\ p.len \in Nat
  BY PacketFacts DEF ReaderType
<1>3. CASE pk.kind = "eof" \/ Blocked(r, pk)
  <2>1. to = pk.seq + pk.len
    BY <1>3 DEF DrainsTo
  <2>2. Ends(r, pk, to) => pk.kind = "eof"
    BY <1>3 DEF Ends
  <2> QED
    BY <1>1, <2>1, <2>2
<1>4. CASE ~(pk.kind = "eof" \/ Blocked(r, pk))
  <2>1. /\ pk.seq + pk.len <= to
        /\ \A x \in pk.seq + pk.len .. to - 1 : \E p \in r.ooo : Carries(p, x)
    BY <1>4 DEF DrainsTo
  <2>2. ASSUME to # pk.seq + pk.len
        PROVE  \E p \in r.ooo : p.kind = "data" /\ to <= p.seq + p.len
    <3>1. to - 1 \in pk.seq + pk.len .. to - 1
      BY <1>1, <2>1, <2>2
    <3>2. PICK p \in r.ooo : Carries(p, to - 1)
      BY <2>1, <3>1
    <3> QED
      BY <1>1, <1>2, <3>2 DEF Carries
  <2>3. Ends(r, pk, to) => \E p \in r.ooo : p.kind = "eof" /\ p.seq = to
    BY <1>4 DEF Ends
  <2> QED
    BY <1>1, <1>4, <2>1, <2>2, <2>3
<1> QED
  BY <1>3, <1>4

(* Every packet does one or the other, to its own reader only.              *)
LEMMA OrderedTakesIn ==
  ASSUME JobOutputAssumption, TypeOK, NEW pk \in Packet, RecvOrdered(pk)
  PROVE  /\ \A s \in Streams \ {pk.sid} : rd'[s] = rd[s]
         /\ rd'[pk.sid].st = rd[pk.sid].st
         /\ \E to \in Nat : TakesIn(pk, to)
<1> DEFINE old == rd[pk.sid]
<1>1. pk.sid \in Streams /\ pk.seq \in Nat /\ pk.len \in Nat
  BY PacketFacts
<1>2. old \in ReaderType
  BY <1>1 DEF TypeOK
<1>3. /\ Listening(pk.sid) /\ old.next = pk.seq /\ pk.kind # "err"
      /\ old.next \in Nat /\ old.buf \in Bytes /\ Len(old.buf) \in Nat
  <2>1. old.next \in Nat /\ old.buf \in Bytes
    BY <1>2 DEF ReaderType
  <2> QED
    BY <2>1, LenProperties DEF RecvOrdered, Bytes
<1>4. PICK to \in Position :
        /\ DrainsTo(old, pk, to)
        /\ rd' = [rd EXCEPT ![pk.sid] = Acked(AfterOrdered(old, pk, to))]
        /\ Send({AckOf(pk.sid, AfterOrdered(old, pk, to), AfterOrdered(old, pk, to).eof, FALSE)})
  BY DEF RecvOrdered
<1>5. /\ pk.seq <= to /\ (pk.kind # "data" => to = pk.seq)
      /\ to = pk.seq + pk.len \/ \E p \in old.ooo : p.kind = "data" /\ to <= p.seq + p.len
      /\ Ends(old, pk, to) => \E p \in old.ooo \cup {pk} : p.kind = "eof" /\ p.seq = to
  BY <1>2, <1>3, <1>4, DrainReaches
<1>6. to \in Nat
  BY DEF Position, JobOutputAssumption
<1> DEFINE new == AfterOrdered(old, pk, to)
           buf == old.buf \o Positions(old.next, to - old.next)
           left == IF Ends(old, pk, to) THEN {} ELSE {p \in old.ooo : p.seq >= to \/ Blocked(old, pk)}
<1>7. /\ buf \in Bytes /\ Len(buf) = Len(old.buf) + (to - pk.seq)
      /\ pk.kind # "data" => buf = old.buf
  <2>1. to - old.next \in Nat
    BY <1>1, <1>3, <1>5, <1>6
  <2>2. /\ Positions(old.next, to - old.next) \in Bytes
        /\ Len(Positions(old.next, to - old.next)) = to - old.next
    BY <1>3, <2>1, PositionsRun
  <2>3. buf \in Bytes /\ Len(buf) = Len(old.buf) + (to - pk.seq)
    BY <1>3, <2>2, RunJoined
  <2>4. ASSUME pk.kind # "data" PROVE buf = old.buf
    <3>1. Len(Positions(old.next, to - old.next)) = 0
      BY <1>1, <1>3, <1>5, <2>2, <2>4
    <3>2. Positions(old.next, to - old.next) = <<>>
      BY <2>2, <3>1, EmptySeq DEF Bytes
    <3> QED
      BY <1>3, <3>2, NothingRuns
  <2> QED
    BY <2>3, <2>4
<1>8. new = [old EXCEPT !.buf = buf, !.next = to, !.eof = Ends(old, pk, to), !.ooo = left]
  BY DEF AfterOrdered
<1>9. left \subseteq old.ooo /\ Ends(old, pk, to) \in BOOLEAN /\ (pk.kind = "eof" => Ends(old, pk, to))
  BY DEF Ends
<1> HIDE DEF new, buf, left
<1>10. /\ new.buf = buf /\ new.next = to /\ new.eof = Ends(old, pk, to) /\ new.ooo = left
       /\ new.st = old.st /\ new \in ReaderType
  <2>1. left \in SUBSET Packet
    BY <1>2, <1>9 DEF ReaderType
  <2> QED
    BY <1>2, <1>6, <1>7, <1>8, <1>9, <2>1 DEF ReaderType
<1>11. /\ Acked(new).buf = buf /\ Acked(new).next = to /\ Acked(new).eof = Ends(old, pk, to)
       /\ Acked(new).ooo = left /\ Acked(new).st = old.st
  BY <1>10 DEF Acked, ReaderType
<1>12. rd'[pk.sid] = Acked(new) /\ \A s \in Streams \ {pk.sid} : rd'[s] = rd[s]
  BY <1>1, <1>4 DEF new, TypeOK
<1>13. \A a \in acks' \ acks : /\ a.sid = pk.sid /\ ~a.cancel
                              /\ a.seq = to /\ a.rwnd = FreeWindow(rd'[pk.sid])
  <2>1. ASSUME NEW a \in acks' \ acks PROVE a = AckOf(pk.sid, new, new.eof, FALSE)
    BY <1>4, <2>1 DEF new, Send
  <2>2. FreeWindow(rd'[pk.sid]) = FreeWindow(new)
    BY <1>10, <1>11, <1>12 DEF FreeWindow
  <2> QED
    BY <1>10, <2>1, <2>2 DEF AckOf
<1>14. TakesIn(pk, to)
  BY <1>3, <1>5, <1>7, <1>9, <1>11, <1>12, <1>13 DEF TakesIn
<1> QED
  BY <1>6, <1>11, <1>12, <1>14

(* Whatever arrives, in whatever order.                                     *)
LEMMA PacketEffect ==
  ASSUME JobOutputAssumption, TypeOK, NEW pk \in Packet, RecvData(pk)
  PROVE  /\ \A s \in Streams \ {pk.sid} : rd'[s] = rd[s]
         /\ rd'[pk.sid].st = rd[pk.sid].st
         /\ LeavesReader(pk) \/ \E to \in Nat : TakesIn(pk, to)
<1> DEFINE old == rd[pk.sid]
<1>1. pk.sid \in Streams /\ old \in ReaderType
  BY PacketFacts DEF TypeOK
<1>2. CASE RecvError(pk)
  <2> DEFINE r == [old EXCEPT !.err = TRUE]
  <2>1. /\ r.next = old.next /\ r.buf = old.buf /\ r.ooo = old.ooo /\ r.eof = old.eof
        /\ r.st = old.st /\ r.err = TRUE /\ r \in ReaderType
    BY <1>1 DEF ReaderType
  <2>2. rd' = [rd EXCEPT ![pk.sid] = Acked(r)] /\ Send({AckOf(pk.sid, r, TRUE, FALSE)})
    BY <1>2 DEF RecvError
  <2> HIDE DEF r
  <2>3. /\ Acked(r).next = old.next /\ Acked(r).buf = old.buf /\ Acked(r).ooo = old.ooo
        /\ Acked(r).eof = old.eof /\ Acked(r).st = old.st /\ Acked(r).err = TRUE
    BY <2>1 DEF Acked, ReaderType
  <2>4. rd'[pk.sid] = Acked(r) /\ \A s \in Streams \ {pk.sid} : rd'[s] = rd[s]
    BY <1>1, <2>2 DEF TypeOK
  <2>5. \A a \in acks' \ acks : a = AckOf(pk.sid, r, TRUE, FALSE)
    BY <2>2 DEF Send
  <2>6. \A a \in acks' \ acks : a.sid = pk.sid /\ ~a.cancel /\ a.seq = old.next
    BY <2>1, <2>5 DEF AckOf
  <2> QED
    BY <2>3, <2>4, <2>6 DEF LeavesReader, Listening
<1>3. CASE RecvAhead(pk)
  <2> DEFINE r == [old EXCEPT !.ooo = @ \cup {pk}]
  <2>1. /\ r.next = old.next /\ r.buf = old.buf /\ r.ooo = old.ooo \cup {pk} /\ r.eof = old.eof
        /\ r.st = old.st /\ r.err = old.err
    BY <1>1 DEF ReaderType
  <2>2. (rd' = rd \/ rd' = [rd EXCEPT ![pk.sid] = r]) /\ acks' = acks
    BY <1>3 DEF RecvAhead
  <2> HIDE DEF r
  <2>3. rd'[pk.sid] \in {old, r} /\ \A s \in Streams \ {pk.sid} : rd'[s] = rd[s]
    BY <1>1, <2>2 DEF TypeOK
  <2> QED
    BY <2>1, <2>2, <2>3 DEF LeavesReader, Listening
<1>4. CASE RecvBehind(pk)
  BY <1>4 DEF RecvBehind, LeavesReader, Listening
<1>5. CASE RecvOrdered(pk)
  BY <1>5, OrderedTakesIn
<1>6. CASE RecvUnread(pk)
  <2>1. rd' = rd /\ ~Listening(pk.sid)
    BY <1>6 DEF RecvUnread
  <2>2. \A a \in acks' \ acks :
          a = [sid |-> pk.sid, seq |-> pk.seq, rwnd |-> 0, fin |-> FALSE, cancel |-> TRUE]
    BY <1>6 DEF RecvUnread, Send
  <2>3. \A a \in acks' \ acks : a.sid = pk.sid /\ a.cancel /\ a.seq = pk.seq
    BY <2>2
  <2> QED
    BY <2>1, <2>3 DEF LeavesReader, Listening
<1> QED
  BY <1>2, <1>3, <1>4, <1>5, <1>6 DEF RecvData

(* A read takes bytes out of the reader and nothing else, and may advertise *)
(* the room it made.                                                        *)
LEMMA ReadDataEffect ==
  ASSUME JobOutputAssumption, TypeOK, NEW s \in Streams, LoopReadData(s)
  PROVE  /\ \A t \in Streams \ {s} : rd'[t] = rd[t] /\ loop'[t] = loop[t]
         /\ rd'[s].next = rd[s].next /\ rd'[s].ooo = rd[s].ooo /\ rd'[s].eof = rd[s].eof
         /\ rd'[s].st = rd[s].st /\ rd'[s].err = rd[s].err
         /\ rd[s].buf # <<>> /\ Len(rd'[s].buf) <= Len(rd[s].buf)
         /\ loop[s].pc = "read" /\ loop'[s].pc = "append" /\ loop'[s].why = loop[s].why
         /\ \A a \in acks' \ acks : /\ a.sid = s /\ ~a.cancel
                                    /\ a.seq = rd[s].next /\ a.rwnd = FreeWindow(rd'[s])
<1> DEFINE n == MinOf(ReadSize, Len(rd[s].buf))
           rest == Dropped(rd[s].buf, n)
           r == [rd[s] EXCEPT !.buf = rest]
           taken == SubSeq(rd[s].buf, 1, n)
<1>1. rd[s] \in ReaderType /\ rd[s].buf \in Bytes /\ loop[s] \in LoopType /\ Len(rd[s].buf) \in Nat
  BY StreamFacts, LenProperties DEF Bytes
<1>2. n \in 0 .. Len(rd[s].buf)
  BY <1>1 DEF MinOf, JobOutputAssumption
<1>3. /\ loop[s].pc = "read" /\ rd[s].buf # <<>>
      /\ loop' = [loop EXCEPT ![s].pc = "append", ![s].hand = taken]
      /\ \/ rd' = [rd EXCEPT ![s] = Acked(r)] /\ Send({AckOf(s, r, FALSE, FALSE)})
         \/ rd' = [rd EXCEPT ![s] = r] /\ acks' = acks
  BY DEF LoopReadData
<1> HIDE DEF n
<1>4. rest \in Bytes /\ Len(rest) <= Len(rd[s].buf)
  <2>1. taken \in Bytes /\ rest \in Bytes /\ Len(taken) = n /\ taken \o rest = rd[s].buf
    BY <1>1, <1>2, Cut
  <2> HIDE DEF taken, rest
  <2>2. Len(taken \o rest) = Len(taken) + Len(rest) /\ Len(rest) \in Nat
    BY <2>1, RunJoined, LenProperties DEF Bytes
  <2> QED
    BY <1>1, <1>2, <2>1, <2>2
<1> HIDE DEF rest, taken
<1>5. /\ r.next = rd[s].next /\ r.ooo = rd[s].ooo /\ r.eof = rd[s].eof /\ r.st = rd[s].st
      /\ r.err = rd[s].err /\ r.buf = rest /\ r \in ReaderType
  BY <1>1, <1>4 DEF ReaderType
<1> HIDE DEF r
<1>6. /\ Acked(r).next = r.next /\ Acked(r).ooo = r.ooo /\ Acked(r).eof = r.eof
      /\ Acked(r).st = r.st /\ Acked(r).err = r.err /\ Acked(r).buf = r.buf
  BY <1>5 DEF Acked, ReaderType
<1>7. rd'[s] \in {r, Acked(r)} /\ \A t \in Streams \ {s} : rd'[t] = rd[t]
  BY <1>3 DEF TypeOK
<1>8. /\ loop'[s].pc = "append" /\ loop'[s].why = loop[s].why
      /\ \A t \in Streams \ {s} : loop'[t] = loop[t]
  BY <1>1, <1>3 DEF TypeOK, LoopType
<1>9. \A a \in acks' \ acks : a = AckOf(s, r, FALSE, FALSE)
  BY <1>3 DEF Send
<1>10. FreeWindow(rd'[s]) = FreeWindow(r)
  BY <1>6, <1>7 DEF FreeWindow
<1>11. \A a \in acks' \ acks : /\ a.sid = s /\ ~a.cancel
                              /\ a.seq = rd[s].next /\ a.rwnd = FreeWindow(rd'[s])
  BY <1>5, <1>9, <1>10 DEF AckOf
<1> QED
  BY <1>3, <1>4, <1>5, <1>6, <1>7, <1>8, <1>11
=============================================================================
