---------------------------- MODULE ReorderQueue ----------------------------
(***************************************************************************)
(* pkg/utilds/quickreorderqueue.go as the job manager uses it: keyboard    *)
(* input arrives by RPCs that may overtake each other, and processInput-   *)
(* Queue takes it from a bounded channel, at the pace of the PTY.  An item *)
(* that arrives ahead of its turn is held for at most a timeout.  Every    *)
(* method holds the queue's lock, and sends on the channel while holding   *)
(* it, so a full channel would block them all.                             *)
(*                                                                         *)
(* The channel is the part of log that was not taken yet.  A timer is its  *)
(* deadline; two with one deadline are one.  SetNextSeqNum, which only     *)
(* tests call, is left out.                                                *)
(***************************************************************************)
EXTENDS Integers, SequencesExt

CONSTANTS
  Sessions,   \* input session ids (uuids), one per shell controller
  NoSession,  \* the empty session id
  Cap,        \* JobInputQueueSize
  Timeout,    \* JobInputQueueTimeout, in ticks
  Inputs,     \* bound of the model: the inputs sent, by session and number
  MaxTime     \* bound of the model: ticks

ReorderQueueAssumption ==
  /\ NoSession \notin Sessions
  /\ Cap \in Nat \ {0}
  /\ Timeout \in Nat \ {0}
  /\ Inputs \subseteq [session : Sessions, seq : Nat]
  /\ IsFiniteSet(Inputs)
  /\ MaxTime \in Nat

VARIABLES
  sessionOrder,  \* when each session was first seen, or Unseen
  current,       \* currentSessionId
  nextSeq,       \* nextSeqNum
  buffer,        \* the items held
  log,           \* all items ever sent on outCh
  taken,         \* how many of them were received
  timer,         \* the deadline of the timer the queue refers to, or NoTimer
  running,       \* the deadlines of all timers that will still call onTimeout
  closed,
  accepted,      \* the items QueueItem took
  arrived,     \* the items whose RPC has arrived
  now

vars == <<sessionOrder, current, nextSeq, buffer, log, taken, timer, running, closed,
          accepted, arrived, now>>

Unseen == -1
NoTimer == -1
Item == {[session |-> i.session, seq |-> i.seq, at |-> t] : i \in Inputs, t \in 0 .. MaxTime}

Init ==
  /\ sessionOrder = [s \in Sessions |-> Unseen]
  /\ current = NoSession /\ nextSeq = 1
  /\ buffer = {} /\ log = <<>> /\ taken = 0
  /\ timer = NoTimer /\ running = {}
  /\ closed = FALSE
  /\ accepted = {} /\ arrived = {}
  /\ now = 0

Before(a, b) ==
  \/ sessionOrder[a.session] < sessionOrder[b.session]
  \/ sessionOrder[a.session] = sessionOrder[b.session] /\ a.seq < b.seq

Sorted(items) == CHOOSE q \in SetToSeqs(items) : \A i, j \in 1 .. Len(q) : i < j => Before(q[i], q[j])

Waiting == Len(log) - taken     \* len(outCh)

-----------------------------------------------------------------------------
(* Timer.Stop comes too late for a timer that is due: its callback may be   *)
(* waiting for the lock.  ensureTimer starts one if there is none.          *)
Stopped == {running \ {timer}} \cup (IF timer <= now THEN {running} ELSE {})

SetTimer(stop, hold) ==
  \E left \in IF stop THEN Stopped ELSE {running} :
    LET kept == IF stop THEN NoTimer ELSE timer
        start == hold /\ kept = NoTimer
    IN  /\ timer' = IF start THEN now + Timeout ELSE kept
        /\ running' = left \cup (IF start THEN {now + Timeout} ELSE {})

(* Mutant: what is held is not counted.                                     *)
HasRoomMutant == Waiting < Cap

(* QueueItem refuses an item when the channel could not take all that is    *)
(* held too.                                                                *)
HasRoom == Cardinality(buffer) + Waiting < Cap

Refuse ==
  /\ closed \/ ~HasRoom
  /\ UNCHANGED <<sessionOrder, current, nextSeq, buffer, log, taken, timer, running, closed, accepted>>

(* The first item of a session: what is held of the others goes first, and  *)
(* numbers start again.  The timer is left alone when nothing is held.      *)
FirstOfSession(it) ==
  /\ ~closed /\ HasRoom
  /\ sessionOrder[it.session] = Unseen
  /\ sessionOrder' = [sessionOrder EXCEPT ![it.session] = now]
  /\ current' = it.session
  /\ nextSeq' = IF it.seq = 1 THEN 2 ELSE 1
  /\ log' = log \o Sorted(buffer) \o (IF it.seq <= 1 THEN <<it>> ELSE <<>>)
  /\ buffer' = IF it.seq <= 1 THEN {} ELSE {it}
  /\ SetTimer(buffer # {}, it.seq > 1)
  /\ accepted' = accepted \cup {it}
  /\ UNCHANGED <<taken, closed>>

Known(it) == ~closed /\ HasRoom /\ sessionOrder[it.session] # Unseen

Expected == [session |-> current, seq |-> nextSeq]

(* An item without a number, or behind its turn, goes out at once.          *)
LateItem(it) ==
  /\ Known(it)
  /\ it.seq = 0 \/ Before(it, Expected)
  /\ log' = Append(log, it)
  /\ accepted' = accepted \cup {it}
  /\ UNCHANGED <<sessionOrder, current, nextSeq, buffer, taken, timer, running, closed>>

(* processBuffer: the items that follow in turn, from the front.            *)
Following(n) ==
  LET held == Sorted(buffer)
      InTurn(k) == \A i \in 1 .. k : held[i].session = current /\ held[i].seq = n + i - 1
  IN  SubSeq(held, 1, Max({k \in 0 .. Len(held) : InTurn(k)}))

ItemInTurn(it) ==
  /\ Known(it)
  /\ it.seq # 0 /\ ~Before(it, Expected) /\ ~Before(Expected, it)
  /\ LET more == Following(nextSeq + 1)
     IN  /\ log' = Append(log, it) \o more
         /\ nextSeq' = nextSeq + 1 + Len(more)
         /\ buffer' = buffer \ ToSet(more)
  /\ accepted' = accepted \cup {it}
  /\ UNCHANGED <<sessionOrder, current, taken, timer, running, closed>>

ItemAhead(it) ==
  /\ Known(it)
  /\ it.seq # 0 /\ Before(Expected, it)
  /\ buffer' = buffer \cup {it}
  /\ SetTimer(FALSE, TRUE)
  /\ accepted' = accepted \cup {it}
  /\ UNCHANGED <<sessionOrder, current, nextSeq, log, taken, closed>>

(* An RPC with input arrives; each is sent once.  Sessions are told apart   *)
(* by the millisecond they were first seen in, and the queue relies on      *)
(* there being one at least between them.                                   *)
SessionsApart(s) == sessionOrder[s] = Unseen => \A t \in Sessions : sessionOrder[t] < now

QueueItem(input) ==
  /\ input \notin arrived /\ SessionsApart(input.session)
  /\ arrived' = arrived \cup {input}
  /\ LET it == [session |-> input.session, seq |-> input.seq, at |-> now]
     IN  Refuse \/ FirstOfSession(it) \/ LateItem(it) \/ ItemInTurn(it) \/ ItemAhead(it)
  /\ UNCHANGED now

-----------------------------------------------------------------------------
(* onTimeout: everything up to the last item that has waited long enough    *)
(* goes out; a timer is set for the oldest of what is left.                 *)
TimedOut == {b \in buffer : now - b.at >= Timeout}

(* Mutant: an item sent ahead of one that timed out stays behind it.        *)
FlushedMutant == TimedOut

Flushed == {b \in buffer : \E c \in TimedOut : ~Before(c, b)}

Left == buffer \ Flushed

(* Mutant: what is left waits for a whole timeout again.                    *)
NextDueMutant == now + Timeout

NextDue == Max({now, Min({b.at : b \in Left}) + Timeout})

NextTimer == IF Left = {} THEN NoTimer ELSE NextDue

OnTimeout(d) ==
  /\ d \in running /\ d <= now
  /\ ~closed
  /\ log' = log \o Sorted(Flushed)
  /\ nextSeq' = Max({nextSeq} \cup {b.seq + 1 : b \in {f \in Flushed : f.session = current}})
  /\ buffer' = Left
  /\ timer' = NextTimer
  /\ running' = (running \ {d}) \cup (IF Left = {} THEN {} ELSE {NextDue})
  /\ UNCHANGED <<sessionOrder, current, taken, closed, accepted, arrived, now>>

OnTimeoutClosed(d) ==
  /\ d \in running /\ d <= now
  /\ closed
  /\ running' = running \ {d}
  /\ UNCHANGED <<sessionOrder, current, nextSeq, buffer, log, taken, timer, closed,
                 accepted, arrived, now>>

(* What is held when the queue closes is never sent.                        *)
Close ==
  /\ ~closed
  /\ closed' = TRUE
  /\ SetTimer(TRUE, FALSE)
  /\ UNCHANGED <<sessionOrder, current, nextSeq, buffer, log, taken, accepted, arrived, now>>

(* processInputQueue receives the next item.                                *)
Take ==
  /\ Waiting > 0
  /\ taken' = taken + 1
  /\ UNCHANGED <<sessionOrder, current, nextSeq, buffer, log, timer, running, closed,
                 accepted, arrived, now>>

Tick ==
  /\ now < MaxTime
  /\ now' = now + 1
  /\ UNCHANGED <<sessionOrder, current, nextSeq, buffer, log, taken, timer, running, closed,
                 accepted, arrived>>

(* The model's time is over.                                                *)
TimeUp == now = MaxTime /\ UNCHANGED vars

Next ==
  \/ \E input \in Inputs : QueueItem(input)
  \/ \E d \in running : OnTimeout(d) \/ OnTimeoutClosed(d)
  \/ Close \/ Take \/ Tick \/ TimeUp

Spec == Init /\ [][Next]_vars

-----------------------------------------------------------------------------
(* Every variable keeps its type; a timer the queue refers to is running.   *)
TypeOK ==
  /\ sessionOrder \in [Sessions -> 0 .. MaxTime \cup {Unseen}]
  /\ current \in Sessions \cup {NoSession}
  /\ nextSeq \in {1} \cup {i.seq + 1 : i \in Inputs}
  /\ buffer \subseteq Item /\ accepted \subseteq Item
  /\ log \in Seq(Item) /\ taken \in 0 .. Len(log)
  /\ running \subseteq 0 .. MaxTime + Timeout /\ timer \in running \cup {NoTimer}
  /\ closed \in BOOLEAN
  /\ arrived \subseteq Inputs
  /\ now \in 0 .. MaxTime

(* The channel always has room for all that is held: no send under the lock *)
(* ever blocks, in QueueItem, in a flush or in onTimeout.                   *)
SendsNeverBlock == Cardinality(buffer) + Waiting <= Cap

(* An accepted item is held or has been sent, and is sent once.             *)
EachOnce ==
  /\ ToSet(log) \cup buffer = accepted
  /\ Cardinality(accepted) = Len(log) + Cardinality(buffer)

(* An item leaves after a later one of its session only if it came too      *)
(* late: when a later item had been held for the whole timeout, or another  *)
(* session had begun.                                                       *)
CameTooLate(it) ==
  \/ \E c \in accepted : c.session = it.session /\ c.seq > it.seq /\ it.at >= c.at + Timeout
  \/ \E s \in Sessions : sessionOrder[s] > sessionOrder[it.session] /\ it.at >= sessionOrder[s]

InOrder ==
  \A i, j \in 1 .. Len(log) :
    i < j /\ log[i].session = log[j].session /\ log[j].seq > 0 /\ log[j].seq < log[i].seq
      => CameTooLate(log[j])

(* Items of a session come after all items of the sessions before it but    *)
(* those that arrived when it had begun.                                    *)
SessionsInOrder ==
  \A i, j \in 1 .. Len(log) :
    i < j /\ sessionOrder[log[j].session] < sessionOrder[log[i].session]
      => log[j].at >= sessionOrder[log[i].session]

(* Nothing is held beyond the timeout: a timer that will run no later is    *)
(* always set, whatever callbacks came late or were superseded.             *)
HeldUntilTimeout ==
  ~closed => \A b \in buffer : \E d \in running : d <= b.at + Timeout \/ d <= now
=============================================================================
